------------------------- MODULE ModelMirror_proofs -------------------------
(***************************************************************************)
(* Theorems of ModelMirror, for every set of legs and repositories and     *)
(* every combination of faults.                                            *)
(***************************************************************************)
EXTENDS ModelMirror, Naturals, TLAPS

-----------------------------------------------------------------------------
(* Type correctness *)

\* TypeOK is inductive.
LEMMA TypeNext == TypeOK /\ [Next]_vars => TypeOK'
<1> SUFFICES ASSUME TypeOK, [Next]_vars PROVE TypeOK'
  OBVIOUS
<1> USE LegsAssumption DEF TypeOK, Goto, Actors, LazyAt, MainAt, ThreadAt, disk
<1>1. ASSUME NEW x \in Actors, NEW at \in {"coldpull", "pull"}, BeginCopy(x, at)
      PROVE  TypeOK'
  <2>1. PICK l \in todo[x] :
           /\ pulling' = [pulling EXCEPT ![x] = {l}]
           /\ copy' = [copy EXCEPT ![l] = IF @ = "full" THEN @ ELSE "partial"]
    BY <1>1 DEF BeginCopy
  <2> QED BY <1>1, <2>1 DEF BeginCopy
<1>2. ASSUME NEW x \in Actors, NEW at \in {"coldpull", "pull"}, EndCopy(x, at)
      PROVE  TypeOK'
  <2>1. PICK l \in pulling[x] :
           /\ copy'    = [copy EXCEPT ![l] = "full"]
           /\ markers' = markers \cup ({l} \ PlainLegs) /\ unlinked' = unlinked \ {l}
           /\ todo'    = [todo EXCEPT ![x] = @ \ {l}]
    BY <1>2 DEF EndCopy
  <2> QED BY <1>2, <2>1 DEF EndCopy
<1>3. CASE StartJob \/ ColdSkip \/ ColdPull \/ ColdCopied \/ ColdLinks \/ ColdMark
  BY <1>3 DEF StartJob, ColdSkip, ColdPull, ColdCopied, ColdLinks, ColdMark,
              RebuildLinks, Legs
<1>4. CASE StartPrefetch \/ SpawnPrefetch \/ EndJob \/ NeedI2V \/ Load
  BY <1>4 DEF StartPrefetch, SpawnPrefetch, EndJob, NeedI2V, Load
<1>5. ASSUME NEW x \in Actors,
             Join(x) \/ AlreadyMirrored(x) \/ LazyPull(x) \/ ReposCopied(x)
               \/ LazyLinks(x) \/ LazyMark(x)
      PROVE  TypeOK'
  <2>1. CASE Join(x)
    BY <1>5, <2>1 DEF Join
  <2>2. CASE AlreadyMirrored(x)
    BY <1>5, <2>2 DEF AlreadyMirrored, Return
  <2>3. CASE LazyPull(x)
    BY <1>5, <2>3 DEF LazyPull, Legs
  <2>4. CASE ReposCopied(x)
    BY <1>5, <2>4 DEF ReposCopied
  <2>5. CASE LazyLinks(x)
    BY <1>5, <2>5 DEF LazyLinks, RebuildLinks
  <2>6. CASE LazyMark(x)
    BY <1>5, <2>6 DEF LazyMark, Return
  <2> QED BY <1>5, <2>1, <2>2, <2>3, <2>4, <2>5, <2>6
<1>6. ASSUME NEW x \in Actors, PullFails(x) PROVE TypeOK'
  BY <1>6 DEF PullFails, PullRaises, Raise
<1>7. CASE Crash
  BY <1>7 DEF Crash
<1>8. CASE UNCHANGED vars
  BY <1>8 DEF vars
<1>9. "main" \in Actors /\ "thread" \in Actors
  OBVIOUS
<1> QED BY <1>1, <1>2, <1>3, <1>4, <1>5, <1>6, <1>7, <1>8, <1>9
        DEF Next, Main, Lazy

LEMMA TypeInit == Init => TypeOK
BY DEF Init, TypeOK, Actors, MainAt, ThreadAt, LazyAt, Legs

\* The mirror's state has its types in every behaviour.
THEOREM MirrorTyped == Spec => []TypeOK
BY TypeInit, TypeNext, PTL DEF Spec

-----------------------------------------------------------------------------
(* One pull at a time *)

\* Where each thread can be while the other is somewhere: the prefetch thread is
\* out unless its handle is alive, a handle exists only after the cold pull's
\* sentinel, and the main thread is past the join only when the handle is not
\* alive.  OnePullAtATime alone says nothing of what a thread between two copies
\* does next.  A copy under way is one still to be done, so a pull that has
\* nothing left to do has no copy running.
Turns ==
    /\ pc["thread"] # "out" <=> handle = "alive"
    /\ handle # "none" => sentinel
    /\ pc["main"] \in {"coldpull", "coldlink", "coldmark"} => ~sentinel
    /\ pc["main"] \in {"check", "pull", "link", "mark"} => handle # "alive"
    /\ pulling["main"] # {} => pc["main"] \in {"coldpull", "pull"}
    /\ pulling["thread"] # {} => pc["thread"] = "pull"
    /\ \A x \in Actors : pulling[x] \subseteq todo[x]

\* A worker with credentials is past the cold-start gate only with its sentinel.
Gated ==
    creds /\ pc["main"] \notin {"idle", "cold", "coldpull", "coldlink", "coldmark"}
        => sentinel

TurnInv == TypeOK /\ Turns /\ Gated

LEMMA TurnNext == TurnInv /\ [Next]_vars => TurnInv'
<1> SUFFICES ASSUME TurnInv, [Next]_vars PROVE Turns' /\ Gated'
  BY TypeNext DEF TurnInv
<1> USE DEF TurnInv, TypeOK, Turns, Gated, Goto, Actors, disk
<1>1. ASSUME NEW x \in Actors, NEW at \in {"coldpull", "pull"},
             at = "coldpull" => x = "main",
             BeginCopy(x, at) \/ EndCopy(x, at)
      PROVE  Turns' /\ Gated'
  BY <1>1 DEF BeginCopy, EndCopy
<1>2. CASE StartJob \/ ColdSkip \/ ColdPull \/ ColdCopied \/ ColdLinks \/ ColdMark
  <2>1. CASE StartJob \/ ColdSkip
    BY <2>1 DEF StartJob, ColdSkip
  <2>2. CASE ColdPull
    BY <2>2 DEF ColdPull
  <2>3. CASE ColdCopied
    BY <2>3 DEF ColdCopied
  <2>4. CASE ColdLinks
    BY <2>4 DEF ColdLinks, RebuildLinks
  <2>5. CASE ColdMark
    BY <2>5 DEF ColdMark
  <2> QED BY <1>2, <2>1, <2>2, <2>3, <2>4, <2>5
<1>3. CASE StartPrefetch \/ SpawnPrefetch \/ EndJob \/ NeedI2V \/ Load
  BY <1>3 DEF StartPrefetch, SpawnPrefetch, EndJob, NeedI2V, Load
<1>4. ASSUME NEW x \in Actors,
             Join(x) \/ AlreadyMirrored(x) \/ LazyPull(x) \/ ReposCopied(x)
               \/ LazyLinks(x) \/ LazyMark(x)
      PROVE  Turns' /\ Gated'
  <2>1. CASE Join(x)
    BY <1>4, <2>1 DEF Join, JoinReturns
  <2>2. CASE AlreadyMirrored(x)
    BY <1>4, <2>2 DEF AlreadyMirrored, Return
  <2>3. CASE LazyPull(x)
    BY <1>4, <2>3 DEF LazyPull
  <2>4. CASE ReposCopied(x)
    BY <1>4, <2>4 DEF ReposCopied
  <2>5. CASE LazyLinks(x)
    BY <1>4, <2>5 DEF LazyLinks, RebuildLinks
  <2>6. CASE LazyMark(x)
    BY <1>4, <2>6 DEF LazyMark, Return
  <2> QED BY <1>4, <2>1, <2>2, <2>3, <2>4, <2>5, <2>6
<1>5. ASSUME NEW x \in Actors, PullFails(x) PROVE Turns' /\ Gated'
  BY <1>5 DEF PullFails, PullRaises, Raise
<1>6. CASE Crash
  BY <1>6 DEF Crash
<1>7. CASE UNCHANGED vars
  BY <1>7 DEF vars
<1>8. "main" \in Actors /\ "thread" \in Actors
  OBVIOUS
<1> QED BY <1>1, <1>2, <1>3, <1>4, <1>5, <1>6, <1>7, <1>8 DEF Next, Main, Lazy

LEMMA TurnInit == Init => TurnInv
BY TypeInit DEF Init, TurnInv, Turns, Gated, Actors

\* The foreground pull and the prefetch never write the cache at the same time.
THEOREM PullsAlternate == Spec => []OnePullAtATime
<1>1. TurnInv => OnePullAtATime
  BY DEF TurnInv, Turns, OnePullAtATime, TypeOK, Actors
<1> QED BY TurnInit, TurnNext, <1>1, PTL DEF Spec

-----------------------------------------------------------------------------
(* The sentinels tell the truth *)

\* What a pull has done so far: the legs it no longer has to copy are whole, and
\* once it has rebuilt the links none of its legs has a marker left but for the links
\* that were logged as lost.
PullDone(x, at, link, mark, legs) ==
    /\ pc[x] = at => todo[x] \subseteq legs
                     /\ \A l \in legs \ todo[x] : copy[l] = "full"
    /\ pc[x] \in {link, mark} => \A l \in legs : copy[l] = "full"
    /\ pc[x] = mark => legs \cap markers \subseteq unlinked

Progressing ==
    /\ PullDone("main", "coldpull", "coldlink", "coldmark", ColdLegs)
    /\ \A x \in Actors : PullDone(x, "pull", "link", "mark", Repos)
    /\ \A x \in Actors : pc[x] \in {"pull", "link", "mark"} => ~i2vDone
    /\ pc["main"] = "loaded" /\ creds => i2vDone

DiskInv == TurnInv /\ SentinelHonest /\ Progressing

\* Two pulls at once would each undo what the other's sentinel promises.
LEMMA Apart ==
  ASSUME TurnInv
  PROVE  /\ pc["main"] \in {"coldpull", "coldlink", "coldmark", "check", "pull",
                            "link", "mark"} => pc["thread"] = "out"
         /\ \A x \in Actors : pulling[x] # {} =>
              pc[x] \in IF x = "main" THEN {"coldpull", "pull"} ELSE {"pull"}
BY DEF TurnInv, Turns, TypeOK, Actors, MainAt, ThreadAt, LazyAt

LEMMA DiskNext ==
  ASSUME DiskInv, [Next]_vars
  PROVE  DiskInv'
<1> SUFFICES SentinelHonest' /\ Progressing'
  BY TurnNext DEF DiskInv
<1> USE LegsAssumption DEF DiskInv, TurnInv, Turns, Gated, TypeOK, SentinelHonest,
        Whole, Progressing, PullDone, Goto, Actors, disk, Legs
<1>1. ASSUME NEW x \in Actors, NEW at \in {"coldpull", "pull"},
             at = "coldpull" => x = "main", BeginCopy(x, at)
      PROVE  SentinelHonest' /\ Progressing'
  BY <1>1, Apart DEF BeginCopy
<1>2. ASSUME NEW x \in Actors, NEW at \in {"coldpull", "pull"},
             at = "coldpull" => x = "main", EndCopy(x, at)
      PROVE  SentinelHonest' /\ Progressing'
  <2>1. PICK l \in pulling[x] :
           /\ copy'    = [copy EXCEPT ![l] = "full"]
           /\ markers' = markers \cup ({l} \ PlainLegs) /\ unlinked' = unlinked \ {l}
           /\ todo'    = [todo EXCEPT ![x] = @ \ {l}]
    BY <1>2 DEF EndCopy
  <2>2. l \in IF at = "coldpull" THEN ColdLegs ELSE Repos
    BY <1>2, <2>1 DEF EndCopy
  <2>3. \A k \in Legs : copy[k] = "full" => copy'[k] = "full"
    BY <2>1
  <2>4. /\ pc' = pc /\ sentinel' = sentinel /\ i2vDone' = i2vDone
        /\ creds' = creds /\ copy'[l] = "full" /\ pc[x] = at
    BY <1>2, <2>1 DEF EndCopy
  <2>5. SentinelHonest'
    BY <1>2, <2>1, <2>2, <2>3, <2>4
  <2>6. CASE x = "main" /\ at = "coldpull"
    BY <1>2, <2>1, <2>2, <2>3, <2>4, <2>5, <2>6, Apart
  <2>7. CASE x = "main" /\ at = "pull"
    BY <1>2, <2>1, <2>2, <2>3, <2>4, <2>5, <2>7, Apart
  <2>8. CASE x = "thread" /\ at = "pull"
    BY <1>2, <2>1, <2>2, <2>3, <2>4, <2>5, <2>8, Apart
  <2> QED BY <1>2, <2>6, <2>7, <2>8
<1>3. CASE StartJob \/ ColdSkip \/ ColdPull \/ ColdCopied \/ ColdLinks \/ ColdMark
  <2>1. CASE StartJob \/ ColdSkip
    BY <2>1 DEF StartJob, ColdSkip
  <2>2. CASE ColdPull
    BY <2>2, Apart DEF ColdPull
  <2>3. CASE ColdCopied
    BY <2>3, Apart DEF ColdCopied
  <2>4. CASE ColdLinks
    BY <2>4, Apart DEF ColdLinks, RebuildLinks
  <2>5. CASE ColdMark
    BY <2>5, Apart DEF ColdMark
  <2> QED BY <1>3, <2>1, <2>2, <2>3, <2>4, <2>5
<1>4. CASE StartPrefetch \/ SpawnPrefetch \/ EndJob \/ NeedI2V \/ Load
  BY <1>4 DEF StartPrefetch, SpawnPrefetch, EndJob, NeedI2V, Load
<1>5. ASSUME NEW x \in Actors, Join(x)
      PROVE  SentinelHonest' /\ Progressing'
  BY <1>5 DEF Join
<1>6. ASSUME NEW x \in Actors, AlreadyMirrored(x)
      PROVE  SentinelHonest' /\ Progressing'
  BY <1>6 DEF AlreadyMirrored, Return
<1>7. ASSUME NEW x \in Actors, LazyPull(x) \/ ReposCopied(x)
      PROVE  SentinelHonest' /\ Progressing'
  BY <1>7, Apart DEF LazyPull, ReposCopied
<1>8. ASSUME NEW x \in Actors, LazyLinks(x)
      PROVE  SentinelHonest' /\ Progressing'
  BY <1>8, Apart DEF LazyLinks, RebuildLinks
<1>9. ASSUME NEW x \in Actors, LazyMark(x)
      PROVE  SentinelHonest' /\ Progressing'
  BY <1>9, Apart DEF LazyMark, Return
<1>10. ASSUME NEW x \in Actors, PullFails(x)
       PROVE  SentinelHonest' /\ Progressing'
  BY <1>10 DEF PullFails, PullRaises, Raise
<1>11. CASE Crash
  BY <1>11 DEF Crash
<1>12. CASE UNCHANGED vars
  BY <1>12 DEF vars
<1>13. "main" \in Actors /\ "thread" \in Actors
  OBVIOUS
<1> QED BY <1>1, <1>2, <1>3, <1>4, <1>5, <1>6, <1>7, <1>8, <1>9, <1>10, <1>11,
           <1>12, <1>13 DEF Next, Main, Lazy

LEMMA DiskInit == Init => DiskInv
BY TurnInit DEF Init, DiskInv, SentinelHonest, Whole, Progressing, PullDone, Actors

\* A sentinel on disk means a mirror that is whole but for the links its walk logged as
\* lost: a worker killed mid-pull, or whose pull failed, leaves none.
THEOREM SentinelsHonest == Spec => []SentinelHonest
<1>1. DiskInv => SentinelHonest
  BY DEF DiskInv
<1>2. DiskInv /\ [Next]_vars => DiskInv'
  BY DiskNext
<1> QED BY DiskInit, <1>1, <1>2, PTL DEF Spec

\* The Wan pipeline never loads against a half-mirror, in the same sense.
THEOREM LoadsWhole == Spec => []LoadsWholeMirror
<1>1. DiskInv => LoadsWholeMirror
  BY DEF DiskInv, SentinelHonest, Whole, Progressing, LoadsWholeMirror
<1>2. DiskInv /\ [Next]_vars => DiskInv'
  BY DiskNext
<1> QED BY DiskInit, <1>1, <1>2, PTL DEF Spec

\* As long as every symlink can be made, none is lost, and then the two theorems above
\* speak of a whole mirror without exception.
THEOREM NoLinkLost ==
  ASSUME "link" \notin Faults
  PROVE  Spec => [](SentinelHonest /\ unlinked = {})
<1>1. Init => unlinked = {}
  BY DEF Init
<1>2. unlinked = {} /\ [Next]_vars => (unlinked = {})'
  <2> SUFFICES ASSUME unlinked = {}, [Next]_vars PROVE unlinked' = {}
    OBVIOUS
  <2> USE DEF disk
  <2>1. CASE ColdLinks \/ \E x \in Actors : LazyLinks(x)
    BY <2>1 DEF ColdLinks, LazyLinks, RebuildLinks
  <2>2. CASE \E x \in Actors : BeginCopy(x, "pull") \/ EndCopy(x, "pull")
                               \/ BeginCopy(x, "coldpull") \/ EndCopy(x, "coldpull")
    BY <2>2 DEF BeginCopy, EndCopy
  <2>3. CASE \E x \in Actors : \/ Join(x) \/ AlreadyMirrored(x) \/ LazyPull(x)
                               \/ ReposCopied(x) \/ LazyMark(x) \/ PullFails(x)
    BY <2>3 DEF Join, AlreadyMirrored, LazyPull, ReposCopied, LazyMark, PullFails,
       PullRaises, Raise
  <2>4. CASE \/ StartJob \/ ColdSkip \/ ColdPull \/ ColdCopied \/ ColdMark
             \/ StartPrefetch \/ SpawnPrefetch \/ EndJob \/ NeedI2V \/ Load \/ Crash
             \/ UNCHANGED vars
    BY <2>4 DEF StartJob, ColdSkip, ColdPull, ColdCopied, ColdMark, StartPrefetch,
       SpawnPrefetch, EndJob, NeedI2V, Load, Crash, vars
  <2> QED BY <2>1, <2>2, <2>3, <2>4 DEF Next, Main, Lazy, Actors
<1> QED BY <1>1, <1>2, SentinelsHonest, PTL DEF Spec

-----------------------------------------------------------------------------
(* The prefetch comes first *)

\* A job past the start of the prefetch has a thread handle, or nothing to pull.
Tried ==
    /\ pc["main"] \in {"work", "join", "check"} =>
         handle # "none" \/ i2vDone \/ ~creds
    /\ pc["main"] = "pull" => handle # "none" /\ todo["main"] \subseteq Repos
    /\ pc["main"] = "coldpull" => todo["main"] \subseteq ColdLegs

TriedInv == TurnInv /\ Tried

LEMMA TriedNext == TriedInv /\ [Next]_vars => TriedInv'
<1> SUFFICES ASSUME TriedInv, [Next]_vars PROVE Tried'
  BY TurnNext DEF TriedInv
<1> USE LegsAssumption DEF TriedInv, TurnInv, Turns, TypeOK, Tried, Goto, Actors, disk
<1>1. ASSUME NEW x \in Actors, NEW at \in {"coldpull", "pull"},
             BeginCopy(x, at) \/ EndCopy(x, at)
      PROVE  Tried'
  BY <1>1 DEF BeginCopy, EndCopy
<1>2. CASE StartJob \/ ColdSkip \/ ColdPull \/ ColdCopied \/ ColdLinks \/ ColdMark
  BY <1>2 DEF StartJob, ColdSkip, ColdPull, ColdCopied, ColdLinks, ColdMark,
              RebuildLinks
<1>3. CASE StartPrefetch \/ SpawnPrefetch \/ EndJob \/ NeedI2V \/ Load
  BY <1>3 DEF StartPrefetch, SpawnPrefetch, EndJob, NeedI2V, Load
<1>4. ASSUME NEW x \in Actors, Join(x) \/ AlreadyMirrored(x) \/ LazyMark(x)
      PROVE  Tried'
  BY <1>4 DEF Join, AlreadyMirrored, LazyMark, Return
<1>5. ASSUME NEW x \in Actors, LazyPull(x) \/ ReposCopied(x) \/ LazyLinks(x)
      PROVE  Tried'
  BY <1>5 DEF LazyPull, ReposCopied, LazyLinks, RebuildLinks
<1>6. ASSUME NEW x \in Actors, PullFails(x) PROVE Tried'
  BY <1>6 DEF PullFails, PullRaises, Raise
<1>7. CASE Crash
  BY <1>7 DEF Crash
<1>8. CASE UNCHANGED vars
  BY <1>8 DEF vars
<1>9. "main" \in Actors /\ "thread" \in Actors
  OBVIOUS
<1> QED BY <1>1, <1>2, <1>3, <1>4, <1>5, <1>6, <1>7, <1>8, <1>9
        DEF Next, Main, Lazy

LEMMA TriedInit == Init => TriedInv
BY TurnInit DEF Init, TriedInv, Tried, Actors

\* A job pulls the i2v weights itself only after a prefetch was tried and ended.
THEOREM PrefetchFirst == Spec => []SerialPullOnlyAfterFailure
<1>1. TriedInv => SerialPullOnlyAfterFailure
  BY LegsAssumption DEF TriedInv, Tried, TurnInv, Turns, TypeOK, Actors,
     SerialPullOnlyAfterFailure
<1> QED BY TriedInit, TriedNext, <1>1, PTL DEF Spec
-----------------------------------------------------------------------------
(* The steps left *)

Rank(p) ==
    IF p = "cold" THEN 12 ELSE IF p = "coldpull" THEN 11
    ELSE IF p = "coldlink" THEN 10 ELSE IF p = "coldmark" THEN 9
    ELSE IF p = "prefetch" THEN 8 ELSE IF p = "work" THEN 7
    ELSE IF p = "join" THEN 6 ELSE IF p = "check" THEN 5
    ELSE IF p = "pull" THEN 4 ELSE IF p = "link" THEN 3
    ELSE IF p = "mark" THEN 2 ELSE IF p = "loaded" THEN 1 ELSE 0

\* The actor goes on to a later point, ends a copy or begins one: a descent, as long
\* as the legs are finitely many.
MovesOn(x) ==
    \/ Rank(pc'[x]) < Rank(pc[x])
    \/ /\ pc'[x] = pc[x]
       /\ \/ todo'[x] \subseteq todo[x] /\ todo'[x] # todo[x]
          \/ todo'[x] = todo[x] /\ pulling[x] = {} /\ pulling'[x] # {}

\* Each step of a job, or of the prefetch, takes it forward, and what the other thread
\* does never sets it back: neither pulls a leg twice or waits for the other to begin
\* again.  I2VDecided rests on it.
THEOREM PullsMoveOn ==
  Spec => [][/\ Main => MovesOn("main")
             /\ Lazy("thread") => MovesOn("thread")
             /\ \A x \in Actors : pc[x] \notin {"idle", "out"} =>
                  MovesOn(x) \/ UNCHANGED <<pc[x], todo[x], pulling[x]>>]_vars
<1> DEFINE Forward(x) == MovesOn(x) \/ UNCHANGED <<pc[x], todo[x], pulling[x]>>
<1> USE DEF TurnInv, TypeOK, Goto
<1>1. ASSUME TurnInv, NEW x \in Actors, NEW at \in {"coldpull", "pull"},
             BeginCopy(x, at) \/ EndCopy(x, at)
      PROVE  MovesOn(x)
  BY <1>1 DEF BeginCopy, EndCopy, MovesOn, Turns
<1>2. ASSUME TurnInv, NEW x \in Actors, Lazy(x) PROVE MovesOn(x)
  <2>1. CASE Join(x) \/ LazyPull(x) \/ ReposCopied(x) \/ LazyLinks(x)
    BY <1>2, <2>1 DEF Join, LazyPull, ReposCopied, LazyLinks, RebuildLinks, MovesOn,
       Rank
  <2>2. CASE AlreadyMirrored(x) \/ LazyMark(x)
    BY <1>2, <2>2 DEF AlreadyMirrored, LazyMark, Return, MovesOn, Rank
  <2> QED BY <1>1, <1>2, <2>1, <2>2 DEF Lazy
<1>3. "main" \in Actors /\ "thread" \in Actors
  BY DEF Actors
<1>4. ASSUME TurnInv, Main PROVE MovesOn("main")
  <2>1. CASE ColdSkip \/ ColdPull \/ ColdCopied \/ ColdLinks \/ ColdMark
    BY <1>3, <1>4, <2>1 DEF ColdSkip, ColdPull, ColdCopied, ColdLinks, ColdMark,
       RebuildLinks, MovesOn, Rank
  <2>2. CASE StartPrefetch \/ SpawnPrefetch \/ EndJob \/ NeedI2V \/ Load
    BY <1>3, <1>4, <2>2 DEF StartPrefetch, SpawnPrefetch, EndJob, NeedI2V, Load,
       MovesOn, Rank
  <2> QED BY <1>1, <1>2, <1>3, <1>4, <2>1, <2>2 DEF Main
<1>5. ASSUME TurnInv, NEW y \in Actors, Lazy(y), NEW x \in Actors PROVE Forward(x)
  <2>1. CASE x # y
    BY <1>5, <2>1 DEF Lazy, BeginCopy, EndCopy, Join, LazyPull, ReposCopied, LazyLinks,
       RebuildLinks, AlreadyMirrored, LazyMark, Return
  <2> QED BY <1>2, <1>5, <2>1
<1>6. ASSUME TurnInv, Main, NEW x \in Actors, pc[x] \notin {"idle", "out"}
      PROVE  Forward(x)
  <2>1. CASE x = "thread" /\ ~Lazy("main")
    BY <1>6, <2>1 DEF Main, BeginCopy, EndCopy, ColdSkip, ColdPull, ColdCopied, ColdLinks,
       ColdMark, RebuildLinks, StartPrefetch, SpawnPrefetch, EndJob, NeedI2V, Load, Turns
  <2> QED BY <1>3, <1>4, <1>5, <1>6, <2>1 DEF Actors
<1>7. ASSUME TurnInv, NEW x \in Actors, pc[x] \notin {"idle", "out"},
             \/ StartJob \/ Crash \/ \E y \in Actors : PullFails(y)
      PROVE  Forward(x)
  <2>1. CASE StartJob
    BY <1>7, <2>1 DEF StartJob
  <2>2. CASE Crash
    <3>1. pc'[x] \in {"idle", "out"} /\ pc[x] \in MainAt \cup ThreadAt
      BY <1>7, <2>2 DEF Crash
    <3> QED BY <1>7, <3>1 DEF MovesOn, Rank, MainAt, ThreadAt, LazyAt
  <2>3. ASSUME NEW y \in Actors, PullFails(y) PROVE Forward(x)
    BY <1>7, <2>3 DEF PullFails, PullRaises, Raise, MovesOn, Rank
  <2> QED BY <1>7, <2>1, <2>2, <2>3
<1>8. TurnInv /\ [Next]_vars =>
        [/\ Main => MovesOn("main")
         /\ Lazy("thread") => MovesOn("thread")
         /\ \A x \in Actors : pc[x] \notin {"idle", "out"} => Forward(x)]_vars
  BY <1>2, <1>3, <1>4, <1>5, <1>6, <1>7 DEF Next
<1> QED BY <1>8, TurnInit, TurnNext, PTL DEF Spec
=============================================================================
