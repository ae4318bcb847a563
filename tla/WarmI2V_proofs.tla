--------------------------- MODULE WarmI2V_proofs ---------------------------
(***************************************************************************)
(* Proofs about WarmI2V, for any experts, flow shifts and faults: its      *)
(* types, and that no shot is drawn without the LoRA it needs, with the    *)
(* flow shift of another shot, or over residuals of another denoise.       *)
(***************************************************************************)
EXTENDS WarmI2V, TLAPS

(* Types *)

\* Past its first steps a shot exists, the pipeline is loaded, and a cache is
\* being enabled only for a shot that wants one.
Bound ==
    /\ pc # "idle" => shot # None
    /\ pc \notin {"idle", "load"} => pipe # None
    /\ pc # "delta" => left = {}
    /\ pc = "enable" => WantsCache(shot)

\* A pipeline keeps its type when a denoise has gone through its caches.
LEMMA UsedTyped ==
    ASSUME NEW p \in Pipe
    PROVE  Used(p) \in Pipe
<1> DEFINE After(e) == IF p.cache[e] = None THEN None
                       ELSE [p.cache[e] EXCEPT !.used = TRUE]
<1>1. \A e \in Experts : After(e) \in Cache \cup {None}
  BY DEF Pipe, Cache
<1>2. [e \in Experts |-> After(e)] \in [Experts -> Cache \cup {None}]
  BY <1>1
<1> HIDE DEF After
<1>3. [p EXCEPT !.cache = [e \in Experts |-> After(e)]] \in Pipe
  BY <1>2 DEF Pipe
<1> QED  BY <1>3 DEF Used, After

\* The loaders add a pair at most once each: what is in the weights before the
\* diffusers loader, and what it leaves to the LightX2V one.
Fresh(p) == \A e \in Experts, q \in Pairs : p.added[e][q] = 0

OnceIfLeft ==
    /\ pc = "fuse" => Fresh(pipe)
    /\ pc = "delta" => \A e \in Experts, q \in left : pipe.added[e][q] <= 1

TypeInv == TypeOK /\ Bound /\ OnceIfLeft

\* Adding pairs that are in at most once keeps the pipeline's type.
LEMMA AddTyped ==
    ASSUME NEW p \in Pipe, NEW es \in SUBSET Experts, NEW qs \in SUBSET Pairs,
           \A e \in Experts, q \in qs : p.added[e][q] <= 1
    PROVE  /\ Add(p, es, qs) \in Pipe
           /\ \A e \in Experts, q \in Pairs :
                 Add(p, es, qs).added[e][q] =
                     IF e \in es /\ q \in qs THEN p.added[e][q] + 1
                     ELSE p.added[e][q]
           /\ Add(p, es, qs).loaded = p.loaded
           /\ Add(p, es, qs).skipped = p.skipped
<1> DEFINE a == [e \in Experts |-> [q \in Pairs |->
                    IF e \in es /\ q \in qs THEN p.added[e][q] + 1
                    ELSE p.added[e][q]]]
<1>1. Add(p, es, qs) = [p EXCEPT !.added = a]
  BY DEF Add, Pipe
<1>2. \A e \in Experts, q \in Pairs : p.added[e][q] \in 0 .. 2
  BY DEF Pipe
<1>3. ASSUME NEW e \in Experts, NEW q \in Pairs
      PROVE  (IF e \in es /\ q \in qs THEN p.added[e][q] + 1
              ELSE p.added[e][q]) \in 0 .. 2
  BY <1>2
<1>4. a \in [Experts -> [Pairs -> 0 .. 2]]
  BY <1>3
<1>5. \A e \in Experts, q \in Pairs :
        a[e][q] = IF e \in es /\ q \in qs THEN p.added[e][q] + 1
                  ELSE p.added[e][q]
  OBVIOUS
<1> HIDE DEF a
<1> QED  BY <1>1, <1>4, <1>5 DEF Pipe

LEMMA AddOneTyped ==
    ASSUME NEW p \in Pipe, NEW es \in SUBSET Experts, NEW q \in Pairs,
           \A e \in Experts : p.added[e][q] <= 1
    PROVE  /\ Add(p, es, {q}) \in Pipe
           /\ \A e \in Experts, r \in Pairs :
                 Add(p, es, {q}).added[e][r] =
                     IF e \in es /\ r = q THEN p.added[e][r] + 1
                     ELSE p.added[e][r]
           /\ Add(p, es, {q}).loaded = p.loaded
           /\ Add(p, es, {q}).skipped = p.skipped
<1> DEFINE qs == {q}
<1>1. qs \in SUBSET Pairs /\ \A e \in Experts, r \in qs : p.added[e][r] <= 1
  OBVIOUS
<1>2. \A r : r \in qs <=> r = q
  OBVIOUS
<1> HIDE DEF qs
<1>3. /\ Add(p, es, qs) \in Pipe
      /\ Add(p, es, qs).loaded = p.loaded
      /\ Add(p, es, qs).skipped = p.skipped
      /\ \A e \in Experts, r \in Pairs :
            Add(p, es, qs).added[e][r] =
                IF e \in es /\ r \in qs THEN p.added[e][r] + 1
                ELSE p.added[e][r]
  BY <1>1, AddTyped, Zenon
<1>4. \A e \in Experts, r \in Pairs :
        Add(p, es, qs).added[e][r] =
            IF e \in es /\ r = q THEN p.added[e][r] + 1 ELSE p.added[e][r]
  BY <1>2, <1>3
<1> QED  BY <1>3, <1>4, Zenon DEF qs

\* What one turn of the LightX2V loop does to the pipeline.
LEMMA PairAdded ==
    ASSUME TypeInv, AddPair
    PROVE  \E q \in left, es \in SUBSET Experts :
             /\ left' = left \ {q}
             /\ pipe' \in Pipe
             /\ \A e \in Experts, r \in Pairs : pipe'.added[e][r] =
                    IF e \in es /\ r = q THEN pipe.added[e][r] + 1
                    ELSE pipe.added[e][r]
             /\ pipe'.skipped = pipe.skipped \cup (Experts \ es) \X {q}
             /\ pipe'.loaded = pipe.loaded
<1>1. PICK q \in left, es \in SUBSET Experts :
        /\ left' = left \ {q}
        /\ pipe' = [Add(pipe, es, {q}) EXCEPT !.skipped =
                                                 @ \cup (Experts \ es) \X {q}]
  BY DEF AddPair
<1>2. pipe \in Pipe /\ q \in Pairs
  BY <1>1, NoneAssumption DEF AddPair, TypeInv, TypeOK, Bound
<1>3. \A e \in Experts : pipe.added[e][q] <= 1
  BY <1>1 DEF AddPair, TypeInv, OnceIfLeft
<1> DEFINE p == Add(pipe, es, {q})
           s == (Experts \ es) \X {q}
<1>4. /\ p \in Pipe /\ p.loaded = pipe.loaded /\ p.skipped = pipe.skipped
      /\ \A e \in Experts, r \in Pairs : p.added[e][r] =
            IF e \in es /\ r = q THEN pipe.added[e][r] + 1 ELSE pipe.added[e][r]
  BY <1>2, <1>3, AddOneTyped
<1>5. s \subseteq Experts \X Pairs
  BY <1>2
<1>6. pipe' = [p EXCEPT !.skipped = @ \cup s]
  BY <1>1
<1> HIDE DEF p, s
<1>7. /\ pipe' \in Pipe /\ pipe'.added = p.added
      /\ pipe'.skipped = p.skipped \cup s /\ pipe'.loaded = p.loaded
  BY <1>4, <1>5, <1>6 DEF Pipe
<1>8. \A e \in Experts, r \in Pairs : pipe'.added[e][r] =
          IF e \in es /\ r = q THEN pipe.added[e][r] + 1 ELSE pipe.added[e][r]
  BY <1>4, <1>7
<1>9. /\ pipe'.skipped = pipe.skipped \cup (Experts \ es) \X {q}
      /\ pipe'.loaded = pipe.loaded
  BY <1>4, <1>7 DEF s
<1> QED  BY <1>1, <1>7, <1>8, <1>9

\* Every step of the engine keeps the types.
LEMMA TypeNext == TypeInv /\ [Next]_vars => TypeInv'
<1> SUFFICES ASSUME TypeInv, [Next]_vars PROVE TypeInv'
  OBVIOUS
<1> USE NoneAssumption DEF TypeInv, TypeOK, Bound, OnceIfLeft, Goto
<1>1. CASE Begin
  BY <1>1, EngineAssumption DEF Begin
<1>2. CASE LoadPipe
  <2>1. pipe' \in Pipe /\ Fresh(pipe')
    <3> DEFINE a == [e \in Experts |-> [q \in Pairs |-> 0]]
               c == [e \in Experts |-> None]
    <3>1. a \in [Experts -> [Pairs -> 0 .. 2]] /\ c \in [Experts -> Cache \cup {None}]
      OBVIOUS
    <3>2. pipe' = [loaded |-> FALSE, added |-> a, skipped |-> {},
                   shift |-> LoadedShift, cache |-> c]
      BY <1>2 DEF LoadPipe
    <3>3. \A e \in Experts, q \in Pairs : a[e][q] = 0
      OBVIOUS
    <3> HIDE DEF a, c
    <3> QED  BY <3>1, <3>2, <3>3, EngineAssumption DEF Pipe, Fresh
  <2>2. /\ pc = "load" /\ pc' \in {"fuse", "offload"}
        /\ UNCHANGED <<wanted, left, shot, todo, failed, retried, clip>>
    BY <1>2 DEF LoadPipe
  <2> QED  BY <2>1, <2>2
<1>3. CASE LoadFails
  BY <1>3 DEF LoadFails, Raise
<1>4. CASE Warm \/ KeepPipe \/ SetDistill
  BY <1>4 DEF Warm, KeepPipe, SetDistill
<1>5. CASE DistillRefused \/ OffloadFails
  BY <1>5 DEF DistillRefused, OffloadFails, Raise
<1>6. CASE ApplyFlowShift
  BY <1>6 DEF ApplyFlowShift, Shot, Pipe
<1>7. CASE ResetCaches
  <2>1. PICK kept \in SUBSET Cached(pipe) :
          /\ pipe' = [pipe EXCEPT !.cache =
                        [e \in Experts |-> IF e \in Dropped(pipe, kept)
                                           THEN None ELSE pipe.cache[e]]]
          /\ failed' = (failed \ Experts) \cup kept
    BY <1>7 DEF ResetCaches
  <2>2. pipe \in Pipe /\ pc = "reset"
    BY <1>7 DEF ResetCaches
  <2>3. pipe' \in Pipe
    <3> DEFINE c == [e \in Experts |-> IF e \in Dropped(pipe, kept)
                                      THEN None ELSE pipe.cache[e]]
    <3>1. c \in [Experts -> Cache \cup {None}]
      BY <2>2 DEF Pipe
    <3> HIDE DEF c
    <3>2. pipe' = [pipe EXCEPT !.cache = c]
      BY <2>1 DEF c
    <3> QED  BY <2>2, <3>1, <3>2 DEF Pipe
  <2>4. failed' \in SUBSET (Experts \cup {"shift"})
    BY <2>1 DEF Cached
  <2>5. /\ pc' \in {"enable", "denoise"} /\ todo' \in SUBSET Experts
        /\ pc' = "enable" => WantsCache(shot)
        /\ UNCHANGED <<wanted, left, shot, retried, clip>>
    BY <1>7 DEF ResetCaches
  <2> QED  BY <2>2, <2>3, <2>4, <2>5 DEF WantsCache
<1>8. CASE EnableCache
  <2>1. PICK e \in todo :
          /\ todo' = todo \ {e}
          /\ \/ pipe' = [pipe EXCEPT !.cache[e] =
                            [mode |-> shot.cache, used |-> FALSE]]
             \/ UNCHANGED pipe
    BY <1>8 DEF EnableCache
  <2>2. /\ pc = "enable" /\ pc' \in {"enable", "denoise"}
        /\ UNCHANGED <<wanted, left, shot, failed, retried, clip>>
    BY <1>8 DEF EnableCache
  <2>3. [mode |-> shot.cache, used |-> FALSE] \in Cache
    BY <2>2 DEF Cache, Shot, WantsCache
  <2>4. pipe' \in Pipe
    <3>1. pipe \in Pipe
      BY <2>2
    <3>2. [pipe.cache EXCEPT ![e] = [mode |-> shot.cache, used |-> FALSE]]
            \in [Experts -> Cache \cup {None}]
      BY <2>3, <3>1 DEF Pipe
    <3>3. CASE UNCHANGED pipe
      BY <3>1, <3>3
    <3>4. CASE pipe' = [pipe EXCEPT !.cache[e] =
                          [mode |-> shot.cache, used |-> FALSE]]
      BY <3>1, <3>2, <3>4 DEF Pipe
    <3> QED  BY <2>1, <3>3, <3>4
  <2>5. todo' \in SUBSET Experts
    BY <2>1
  <2> QED  BY <2>2, <2>4, <2>5 DEF WantsCache
<1>9. CASE Denoise
  <2>1. pipe \in Pipe /\ shot \in Shot
    BY <1>9 DEF Denoise
  <2>2. [shot |-> shot, added |-> pipe.added, skipped |-> pipe.skipped] \in Clip
    BY <2>1 DEF Pipe, Clip
  <2>3. Used(pipe) \in Pipe
    BY <2>1, UsedTyped
  <2>4. clip' \in Clip /\ pipe' \in Pipe
    BY <1>9, <2>2, <2>3 DEF Denoise
  <2>5. /\ pc' = "idle" /\ shot' = None /\ failed' = {} /\ retried' = FALSE
        /\ pc = "denoise" /\ UNCHANGED <<wanted, left, todo>>
    BY <1>9 DEF Denoise
  <2> QED  BY <2>4, <2>5
<1>10. CASE RetryUncached
  BY <1>10, UsedTyped DEF RetryUncached
<1>11. CASE DenoiseFails
  BY <1>11, UsedTyped DEF DenoiseFails, Raise
<1>12. CASE Fuse
  <2>1. PICK es \in SUBSET Experts :
          pipe' = [Add(pipe, es, Pairs) EXCEPT
                      !.loaded = TRUE, !.skipped = (Experts \ es) \X Pairs]
    BY <1>12 DEF Fuse
  <2>2. pipe \in Pipe /\ Fresh(pipe)
    BY <1>12 DEF Fuse
  <2>3. Add(pipe, es, Pairs) \in Pipe
    <3>1. \A e \in Experts, q \in Pairs : pipe.added[e][q] <= 1
      BY <2>2 DEF Fresh
    <3> QED  BY <2>1, <2>2, <3>1, AddTyped
  <2>4. (Experts \ es) \X Pairs \in SUBSET (Experts \X Pairs)
    OBVIOUS
  <2>5. pipe' \in Pipe
    BY <2>1, <2>3, <2>4 DEF Pipe
  <2>6. /\ pc = "fuse" /\ pc' = "offload"
        /\ UNCHANGED <<wanted, left, shot, todo, failed, retried, clip>>
    BY <1>12 DEF Fuse
  <2> QED  BY <2>5, <2>6
<1>13. CASE FuseFails
  <2>1. PICK es \in SUBSET Experts : pipe' = Add(pipe, es, Pairs)
    BY <1>13 DEF FuseFails
  <2>2. pipe \in Pipe /\ Fresh(pipe)
    BY <1>13 DEF FuseFails
  <2>3. pipe' \in Pipe /\ \A e \in Experts, q \in Pairs : pipe'.added[e][q] <= 1
    BY <2>1, <2>2, AddTyped DEF Fresh
  <2>4. /\ pc = "fuse" /\ pc' = "delta" /\ left' = Pairs
        /\ UNCHANGED <<wanted, shot, todo, failed, retried, clip>>
    BY <1>13 DEF FuseFails
  <2> QED  BY <2>3, <2>4
<1>14. CASE AddPair
  <2>1. PICK q \in left, es \in SUBSET Experts :
          /\ left' = left \ {q} /\ pipe' \in Pipe
          /\ \A e \in Experts, r \in Pairs : pipe'.added[e][r] =
                 IF e \in es /\ r = q THEN pipe.added[e][r] + 1
                 ELSE pipe.added[e][r]
    BY <1>14, PairAdded
  <2>2. pc = "delta" /\ UNCHANGED <<wanted, pc, shot, todo, failed, retried, clip>>
    BY <1>14 DEF AddPair
  <2>3. \A e \in Experts, r \in left' : pipe'.added[e][r] <= 1
    BY <2>1, <2>2
  <2> QED  BY <2>1, <2>2, <2>3
<1>15. CASE DeltaEnds \/ DeltaFails
  BY <1>15 DEF DeltaEnds, DeltaFails, Pipe, Vouches
<1>16. CASE UNCHANGED vars
  BY <1>16 DEF vars, WantsCache, Fresh
<1> QED
  BY <1>1, <1>2, <1>3, <1>4, <1>5, <1>6, <1>7, <1>8, <1>9, <1>10, <1>11, <1>12,
     <1>13, <1>14, <1>15, <1>16
  DEF Next

LEMMA TypeInit == Init => TypeInv
  BY EngineAssumption, NoneAssumption DEF Init, TypeInv, TypeOK, Bound, OnceIfLeft

LEMMA TypeInvariant == Spec => []TypeInv
  BY TypeInit, TypeNext, PTL DEF Spec

\* Type correctness of the warm Wan pipeline and of the shot it animates.
THEOREM MovesTyped == Spec => []TypeOK
<1>1. TypeInv => TypeOK
  BY DEF TypeInv
<1> QED  BY <1>1, TypeInvariant, PTL

-----------------------------------------------------------------------------
(* The distill LoRA *)

\* Some of the LoRA is in the weights of x, a pipeline or a clip.
SomeIn(x) == \E e \in Experts, q \in Pairs : x.added[e][q] > 0

\* What is not in the weights of x, the latest loader tried and left out.
Tried(x, qs) ==
    \A e \in Experts, q \in qs : x.added[e][q] = 0 => <<e, q>> \in x.skipped

\* The flag of a pipeline never claims a LoRA of which nothing is in the weights, nor
\* one with a pair that was never tried; the LightX2V loop has tried the pairs it is
\* through with; and past the gate of _set_distill a distilled shot is on a
\* pipeline whose flag claims the LoRA.
LoraInv ==
    /\ pipe # None /\ pipe.loaded => SomeIn(pipe) /\ Tried(pipe, Pairs)
    /\ pc \in {"fuse", "delta"} => ~pipe.loaded
    /\ pc = "delta" => Tried(pipe, Pairs \ left)
    /\ pc \in {"shift", "reset", "enable", "denoise"} /\ shot.distill => pipe.loaded
    /\ DistilledClipHasLora

\* A denoise leaves the weights and the flow shift alone.
LEMMA UsedKeeps ==
    ASSUME NEW p \in Pipe
    PROVE  /\ Used(p).loaded = p.loaded /\ Used(p).added = p.added
           /\ Used(p).skipped = p.skipped /\ Used(p).shift = p.shift
<1> DEFINE c == [e \in Experts |-> IF p.cache[e] = None THEN None
                                   ELSE [p.cache[e] EXCEPT !.used = TRUE]]
<1>1. Used(p) = [p EXCEPT !.cache = c]
  BY DEF Used
<1> HIDE DEF c
<1> QED  BY <1>1 DEF Pipe

\* Every step keeps LoraInv.
LEMMA LoraNext == TypeInv /\ LoraInv /\ [Next]_vars => LoraInv'
<1> SUFFICES ASSUME TypeInv, LoraInv, [Next]_vars PROVE LoraInv'
  OBVIOUS
<1> USE NoneAssumption DEF TypeInv, TypeOK, Bound, Goto
<1>1. CASE Begin
  BY <1>1 DEF Begin, LoraInv, DistilledClipHasLora, SomeIn, Tried
<1>2. CASE LoadPipe
  <2>1. pipe'.loaded = FALSE
    BY <1>2 DEF LoadPipe
  <2>2. pc = "load" /\ pc' \in {"fuse", "offload"} /\ UNCHANGED <<shot, clip>>
    BY <1>2 DEF LoadPipe
  <2> QED  BY <2>1, <2>2 DEF LoraInv, DistilledClipHasLora
<1>3. CASE LoadFails
  BY <1>3 DEF LoadFails, Raise, LoraInv, DistilledClipHasLora
<1>4. CASE SetDistill
  BY <1>4 DEF SetDistill, DistillServed, LoraInv, DistilledClipHasLora, SomeIn, Tried
<1>5. CASE DistillRefused \/ OffloadFails
  BY <1>5 DEF DistillRefused, OffloadFails, Raise, LoraInv, DistilledClipHasLora,
              SomeIn, Tried
<1>6. CASE ApplyFlowShift
  BY <1>6 DEF ApplyFlowShift, Pipe, LoraInv, DistilledClipHasLora, SomeIn, Tried
<1>7. CASE ResetCaches
  BY <1>7 DEF ResetCaches, Pipe, LoraInv, DistilledClipHasLora, SomeIn, Tried
<1>8. CASE EnableCache
  BY <1>8 DEF EnableCache, Pipe, LoraInv, DistilledClipHasLora, SomeIn, Tried
<1>9. CASE Denoise
  <2>1. pipe \in Pipe /\ shot \in Shot /\ (shot.distill => pipe.loaded)
    BY <1>9 DEF Denoise, LoraInv
  <2>2. /\ pipe'.loaded = pipe.loaded /\ pipe'.added = pipe.added
        /\ pipe'.skipped = pipe.skipped
    BY <1>9, <2>1, UsedKeeps DEF Denoise
  <2>3. pipe.loaded => SomeIn(pipe) /\ Tried(pipe, Pairs)
    BY <2>1 DEF LoraInv
  <2>4. pipe'.loaded => SomeIn(pipe') /\ Tried(pipe', Pairs)
    BY <2>2, <2>3 DEF SomeIn, Tried
  <2>5. /\ pc' = "idle"
        /\ clip' = [shot |-> shot, added |-> pipe.added, skipped |-> pipe.skipped]
    BY <1>9 DEF Denoise
  <2>6. DistilledClipHasLora'
    BY <2>1, <2>3, <2>5 DEF DistilledClipHasLora, SomeIn, Tried
  <2> QED  BY <2>4, <2>5, <2>6 DEF LoraInv
<1>10. CASE RetryUncached
  BY <1>10, UsedKeeps DEF RetryUncached, LoraInv, DistilledClipHasLora, SomeIn, Tried
<1>11. CASE DenoiseFails
  BY <1>11, UsedKeeps DEF DenoiseFails, Raise, LoraInv, DistilledClipHasLora, SomeIn, Tried
<1>12. CASE Fuse
  <2>1. PICK es \in (SUBSET Experts) \ {{}} :
          pipe' = [Add(pipe, es, Pairs) EXCEPT
                      !.loaded = TRUE, !.skipped = (Experts \ es) \X Pairs]
    BY <1>12 DEF Fuse
  <2>2. pipe \in Pipe /\ Fresh(pipe)
    BY <1>12 DEF Fuse, OnceIfLeft
  <2>3. /\ Add(pipe, es, Pairs) \in Pipe
        /\ \A e \in Experts, q \in Pairs :
             Add(pipe, es, Pairs).added[e][q] = IF e \in es THEN 1 ELSE 0
    BY <2>2, AddTyped DEF Fresh
  <2>4. /\ \A e \in Experts, q \in Pairs :
              pipe'.added[e][q] = IF e \in es THEN 1 ELSE 0
        /\ pipe'.skipped = (Experts \ es) \X Pairs
    BY <2>1, <2>3 DEF Pipe
  <2>5. SomeIn(pipe')
    <3>1. PICK e \in es, q \in Pairs : TRUE
      BY EngineAssumption
    <3> QED  BY <2>4, <3>1 DEF SomeIn
  <2>6. Tried(pipe', Pairs)
    BY <2>4 DEF Tried
  <2>7. pc' = "offload" /\ clip' = clip
    BY <1>12 DEF Fuse
  <2>8. DistilledClipHasLora'
    BY <2>7 DEF LoraInv, DistilledClipHasLora
  <2> QED  BY <2>5, <2>6, <2>7, <2>8 DEF LoraInv
<1>13. CASE FuseFails
  <2>1. PICK es \in SUBSET Experts : pipe' = Add(pipe, es, Pairs)
    BY <1>13 DEF FuseFails
  <2>2. pipe \in Pipe /\ Fresh(pipe) /\ ~pipe.loaded
    BY <1>13 DEF FuseFails, OnceIfLeft, LoraInv
  <2>3. ~pipe'.loaded
    <3>1. \A e \in Experts, q \in Pairs : pipe.added[e][q] <= 1
      BY <2>2 DEF Fresh
    <3>2. Pairs \in SUBSET Pairs
      OBVIOUS
    <3>3. Add(pipe, es, Pairs).loaded = pipe.loaded
      BY <2>2, <3>1, <3>2, AddTyped, Zenon
    <3> QED  BY <2>1, <2>2, <3>3, Zenon
  <2>4. pc' = "delta" /\ left' = Pairs /\ clip' = clip
    BY <1>13 DEF FuseFails
  <2> QED  BY <2>3, <2>4 DEF LoraInv, DistilledClipHasLora, Tried
<1>14. CASE AddPair
  <2>1. PICK q \in left, es \in SUBSET Experts :
          /\ left' = left \ {q} /\ pipe' \in Pipe
          /\ \A e \in Experts, r \in Pairs : pipe'.added[e][r] =
                 IF e \in es /\ r = q THEN pipe.added[e][r] + 1
                 ELSE pipe.added[e][r]
          /\ pipe'.skipped = pipe.skipped \cup (Experts \ es) \X {q}
          /\ pipe'.loaded = pipe.loaded
    BY <1>14, PairAdded
  <2>2. /\ pc' = "delta" /\ clip' = clip
        /\ pipe \in Pipe /\ pipe.loaded = FALSE
        /\ Tried(pipe, Pairs \ left)
    BY <1>14 DEF AddPair, LoraInv, Pipe
  <2>3. pipe'.loaded = FALSE
    BY <2>1, <2>2
  <2>4. ASSUME NEW e \in Experts, NEW r \in Pairs \ left', pipe'.added[e][r] = 0
        PROVE  <<e, r>> \in pipe'.skipped
    <3>1. pipe.added[e][r] \in 0 .. 2
      BY <2>2 DEF Pipe
    <3>2. CASE r = q
      <4>1. e \notin es
        BY <2>1, <2>4, <3>1, <3>2
      <4> QED  BY <2>1, <3>2, <4>1
    <3>3. CASE r # q
      <4>1. r \in Pairs \ left /\ pipe.added[e][r] = 0
        BY <2>1, <2>4, <3>3
      <4> QED  BY <2>1, <2>2, <4>1 DEF Tried
    <3> QED  BY <3>2, <3>3
  <2> QED  BY <2>2, <2>3, <2>4 DEF LoraInv, DistilledClipHasLora, Tried
<1>15. CASE DeltaEnds
  <2>1. /\ pc = "delta" /\ left = {} /\ pc' = "offload" /\ clip' = clip
        /\ pipe \in Pipe /\ pipe' = [pipe EXCEPT !.loaded = Vouches(pipe)]
        /\ Tried(pipe, Pairs)
    BY <1>15 DEF DeltaEnds, LoraInv
  <2>2. Vouches(pipe) => SomeIn(pipe)
    <3> SUFFICES ASSUME Vouches(pipe) PROVE SomeIn(pipe)
      OBVIOUS
    <3>0. pipe.skipped \subseteq Experts \X Pairs /\ pipe.skipped # Experts \X Pairs
      BY <2>1 DEF Vouches, Pipe
    <3>1. PICK e \in Experts, q \in Pairs : <<e, q>> \notin pipe.skipped
      <4>1. PICK x \in Experts \X Pairs : x \notin pipe.skipped
        BY <3>0
      <4>2. x = <<x[1], x[2]>> /\ x[1] \in Experts /\ x[2] \in Pairs
        OBVIOUS
      <4> QED  BY <4>1, <4>2
    <3>2. pipe.added[e][q] \in 0 .. 2 /\ pipe.added[e][q] # 0
      BY <2>1, <3>1 DEF Tried, Pipe
    <3> QED  BY <3>2 DEF SomeIn
  <2>3. /\ pipe'.added = pipe.added /\ pipe'.skipped = pipe.skipped
        /\ pipe'.loaded = Vouches(pipe)
    BY <2>1 DEF Pipe
  <2>4. pipe'.loaded => SomeIn(pipe') /\ Tried(pipe', Pairs)
    BY <2>1, <2>2, <2>3 DEF SomeIn, Tried
  <2> QED  BY <2>1, <2>4 DEF LoraInv, DistilledClipHasLora
<1>16. CASE Warm \/ DeltaFails \/ KeepPipe
  BY <1>16 DEF Warm, DeltaFails, KeepPipe, LoraInv, DistilledClipHasLora, SomeIn, Tried
<1>17. CASE UNCHANGED vars
  BY <1>17 DEF vars, LoraInv, DistilledClipHasLora, SomeIn, Tried
<1> QED
  BY <1>1, <1>2, <1>3, <1>4, <1>5, <1>6, <1>7, <1>8, <1>9, <1>10, <1>11, <1>12,
     <1>13, <1>14, <1>15, <1>16, <1>17
  DEF Next

LEMMA LoraInit == Init => LoraInv
  BY DEF Init, LoraInv, DistilledClipHasLora

\* For any experts and any pairs of the LoRA: a clip reported as distilled was drawn
\* with some of the LoRA in the weights, and each pair that is missing from an
\* expert is one the loader tried there and skipped, whichever of the two loaders
\* failed and wherever it stopped.
THEOREM DistilledHaveLora == Spec => []DistilledClipHasLora
<1>1. LoraInv => DistilledClipHasLora
  BY DEF LoraInv
<1> QED  BY <1>1, LoraInit, LoraNext, TypeInvariant, PTL DEF Spec

-----------------------------------------------------------------------------
(* The flow shift *)

\* ShiftAsAsked is inductive: nothing between the setting of the shift and the
\* end of the denoise touches it, the retry without cache included.
LEMMA ShiftNext == TypeInv /\ ShiftAsAsked /\ [Next]_vars => ShiftAsAsked'
<1> SUFFICES ASSUME TypeInv, ShiftAsAsked, [Next]_vars PROVE ShiftAsAsked'
  OBVIOUS
<1> USE NoneAssumption, EngineAssumption
    DEF TypeInv, TypeOK, Bound, ShiftAsAsked, Goto
<1>1. CASE \/ Begin \/ Warm \/ LoadPipe \/ Fuse \/ FuseFails \/ AddPair \/ DeltaEnds
           \/ DeltaFails \/ KeepPipe \/ SetDistill
  <2>1. pc' \in {"load", "fuse", "delta", "offload", "distill", "shift"}
    BY <1>1 DEF Begin, Warm, LoadPipe, Fuse, FuseFails, AddPair, DeltaEnds, DeltaFails,
                KeepPipe, SetDistill
  <2> QED  BY <2>1
<1>2. CASE LoadFails \/ OffloadFails \/ DistillRefused \/ DenoiseFails
  BY <1>2 DEF LoadFails, OffloadFails, DistillRefused, DenoiseFails, Raise
<1>3. CASE ApplyFlowShift
  BY <1>3 DEF ApplyFlowShift, Pipe
<1>4. CASE ResetCaches
  BY <1>4 DEF ResetCaches, Pipe
<1>5. CASE EnableCache
  BY <1>5 DEF EnableCache, Pipe
<1>6. CASE Denoise
  BY <1>6 DEF Denoise
<1>7. CASE RetryUncached
  BY <1>7, UsedKeeps DEF RetryUncached
<1>8. CASE UNCHANGED vars
  BY <1>8 DEF vars
<1> QED
  BY <1>1, <1>2, <1>3, <1>4, <1>5, <1>6, <1>7, <1>8 DEF Next

LEMMA ShiftInit == Init => ShiftAsAsked
  BY DEF Init, ShiftAsAsked

\* A shot is drawn at its own flow shift unless the rebuild of the scheduler
\* failed for this very shot.
THEOREM ShiftsOwn == Spec => []ShiftAsAsked
  BY ShiftInit, ShiftNext, TypeInvariant, PTL DEF Spec

-----------------------------------------------------------------------------
(* The feature cache *)

\* From the reset on, an expert that gave up its cache has none, or one of this
\* shot that no denoise has used; the cached retry passes through the reset
\* again.
CacheInv ==
    pc \in {"enable", "denoise"} => \A e \in Cached(pipe) \ failed :
        ~pipe.cache[e].used /\ pipe.cache[e].mode = shot.cache

\* Every step keeps CacheInv.
LEMMA CacheNext == TypeInv /\ CacheInv /\ [Next]_vars => CacheInv'
<1> SUFFICES ASSUME TypeInv, CacheInv, [Next]_vars PROVE CacheInv'
  OBVIOUS
<1> USE NoneAssumption, EngineAssumption DEF TypeInv, TypeOK, Bound, CacheInv, Goto
<1>1. CASE \/ Begin \/ Warm \/ LoadPipe \/ Fuse \/ FuseFails \/ AddPair \/ DeltaEnds
           \/ DeltaFails \/ KeepPipe \/ SetDistill \/ ApplyFlowShift
  <2>1. pc' \in {"load", "fuse", "delta", "offload", "distill", "shift", "reset"}
    BY <1>1 DEF Begin, Warm, LoadPipe, Fuse, FuseFails, AddPair, DeltaEnds, DeltaFails,
                KeepPipe, SetDistill, ApplyFlowShift
  <2> QED  BY <2>1
<1>2. CASE LoadFails \/ OffloadFails \/ DistillRefused \/ DenoiseFails
  BY <1>2 DEF LoadFails, OffloadFails, DistillRefused, DenoiseFails, Raise
<1>3. CASE Denoise \/ RetryUncached
  BY <1>3 DEF Denoise, RetryUncached
<1>4. CASE ResetCaches
  <2>1. PICK kept \in SUBSET Cached(pipe) :
          /\ pipe' = [pipe EXCEPT !.cache =
                        [e \in Experts |-> IF e \in Dropped(pipe, kept)
                                           THEN None ELSE @[e]]]
          /\ failed' = (failed \ Experts) \cup kept
    BY <1>4 DEF ResetCaches
  <2>2. pipe \in Pipe
    BY <1>4 DEF ResetCaches
  <2>3. Cached(pipe') \subseteq kept
    BY <2>1, <2>2 DEF Cached, Dropped, Pipe
  <2> QED  BY <2>1, <2>3
<1>5. CASE EnableCache
  BY <1>5 DEF EnableCache, Cached, Pipe
<1>6. CASE UNCHANGED vars
  BY <1>6 DEF vars, Cached
<1> QED
  BY <1>1, <1>2, <1>3, <1>4, <1>5, <1>6 DEF Next

LEMMA CacheInit == Init => CacheInv
  BY DEF Init, CacheInv

\* A denoise starts from no other shot's residuals, in any number of experts, but
\* in one that refused to drop its cache.
THEOREM NoResiduals == Spec => []CacheNeverLeaks
<1>1. CacheInv => CacheNeverLeaks
  BY DEF CacheInv, CacheNeverLeaks
<1> QED  BY <1>1, CacheInit, CacheNext, TypeInvariant, PTL DEF Spec
-----------------------------------------------------------------------------
(* The steps left *)

Rank(p) ==
    IF p = "load" THEN 9 ELSE IF p = "fuse" THEN 8 ELSE IF p = "delta" THEN 7
    ELSE IF p = "offload" THEN 6 ELSE IF p = "distill" THEN 5 ELSE IF p = "shift" THEN 4
    ELSE IF p = "reset" THEN 3 ELSE IF p = "enable" THEN 2
    ELSE IF p = "denoise" THEN 1 ELSE 0

\* The shot ends, uses up its one retry, goes on to a later point, or has one pair fewer
\* to add or one expert fewer to set a cache for: a descent, as long as the pairs and
\* the experts are finitely many.
MovesOn ==
    \/ pc' = "idle"
    \/ ~retried /\ retried'
    \/ /\ retried' = retried
       /\ \/ Rank(pc') < Rank(pc)
          \/ pc' = pc /\ left' \subseteq left /\ left' # left
          \/ pc' = pc /\ todo' \subseteq todo /\ todo' # todo

\* Whatever the caches answer, a shot is tried at most twice and each try goes straight
\* on: the step ShotEnds rests on.
THEOREM ShotsMoveOn == Spec => [][pc # "idle" => MovesOn]_vars
<1>1. ASSUME TypeInv, Next, pc # "idle" PROVE MovesOn
  <2>1. CASE \/ Warm \/ LoadPipe \/ Fuse \/ FuseFails \/ DeltaEnds \/ DeltaFails
             \/ KeepPipe \/ SetDistill \/ ApplyFlowShift
    <3>1. /\ retried' = retried
          /\ \/ pc = "load" /\ pc' \in {"fuse", "offload", "distill"}
             \/ pc = "fuse" /\ pc' \in {"delta", "offload"}
             \/ pc = "delta" /\ pc' = "offload"
             \/ pc = "offload" /\ pc' = "distill"
             \/ pc = "distill" /\ pc' = "shift"
             \/ pc = "shift" /\ pc' = "reset"
      BY <2>1 DEF Warm, LoadPipe, Fuse, FuseFails, DeltaEnds, DeltaFails, KeepPipe,
                  SetDistill, ApplyFlowShift, Goto
    <3>2. Rank(pc') < Rank(pc)
      BY <3>1 DEF Rank
    <3> QED BY <3>1, <3>2, Zenon DEF MovesOn
  <2>2. CASE \/ LoadFails \/ OffloadFails \/ DistillRefused \/ DenoiseFails
             \/ Denoise
    BY <2>2 DEF LoadFails, OffloadFails, DistillRefused, DenoiseFails, Denoise, Raise,
                Goto, MovesOn
  <2>3. CASE ResetCaches
    BY <2>3 DEF ResetCaches, MovesOn, Rank
  <2>4. CASE EnableCache
    BY <2>4 DEF EnableCache, MovesOn, Rank
  <2>5. CASE RetryUncached
    BY <2>5 DEF RetryUncached, GiveUpAfter, MovesOn
  <2>6. CASE AddPair
    BY <2>6 DEF AddPair, MovesOn
  <2> QED BY <1>1, <2>1, <2>2, <2>3, <2>4, <2>5, <2>6 DEF Next, Begin, Goto
<1>2. TypeInv /\ [Next]_vars => [pc # "idle" => MovesOn]_vars
  BY <1>1
<1> QED BY <1>2, TypeInvariant, PTL DEF Spec
=============================================================================
