------------------------- MODULE FilmAssembly_proofs -------------------------
(***************************************************************************)
(* Theorems about FilmAssembly, for every storyboard, every clip length    *)
(* and every set of faults.                                                *)
(*                                                                         *)
(* The invariant says what is in each file and list at each point of the   *)
(* job: the raw clip of an id is the one drawn for its last scene, the     *)
(* finished clip is what finish_clip makes of it, the cut built so far     *)
(* holds the animated scenes met so far, each at its Place, and a          *)
(* published film is the whole merge of that cut.                          *)
(***************************************************************************)
EXTENDS FilmAssembly, Integers, FiniteSetTheorems, WellFoundedInduction, TLAPS

-----------------------------------------------------------------------------
(* The storyboard *)

LEMMA LeastNatural ==
  ASSUME NEW T \in SUBSET Nat, T # {}
  PROVE  \E n \in T : \A m \in T : n <= m
<1>1. PICK x \in T : \A y \in T : ~(<<y, x>> \in OpToRel(<, Nat))
  BY NatLessThanWellFounded, WFMin
<1>2. \A y \in T : ~(y < x)
  BY <1>1 DEF OpToRel
<1> QED BY <1>2

LEMMA StoryTyped ==
  ASSUME story \in Stories
  PROVE  /\ story \in Seq(Ids) /\ Len(story) \in 1..MaxScenes
         /\ DOMAIN story = 1..Len(story)
BY BoundsAssumption DEF Stories

\* The last scene of an id exists.
LEMMA LastScene ==
  ASSUME story \in Stories, NEW k \in DOMAIN story
  PROVE  /\ SceneOf(story[k]) \in DOMAIN story
         /\ SceneOf(story[k]) \in 1..MaxScenes
         /\ story[SceneOf(story[k])] = story[k]
<1> DEFINE T == {n \in DOMAIN story : story[n] = story[k]}
           U == {Len(story) - n : n \in T}
<1>1. /\ Len(story) \in 1..MaxScenes /\ DOMAIN story = 1..Len(story)
  BY StoryTyped
<1>2. U \in SUBSET Nat /\ U # {}
  BY <1>1
<1>3. PICK u \in U : \A v \in U : u <= v
  BY <1>2, LeastNatural
<1>4. PICK n \in T : u = Len(story) - n
  BY <1>3
<1>5. \A m \in T : m <= n
  <2> TAKE m \in T
  <2>1. Len(story) - m \in U
    OBVIOUS
  <2>2. Len(story) - n <= Len(story) - m
    BY <2>1, <1>3, <1>4
  <2>3. m \in Int /\ n \in Int /\ Len(story) \in Int
    BY <1>1
  <2> QED BY <2>2, <2>3
<1>6. \E l \in DOMAIN story :
        story[l] = story[k] /\ \A m \in DOMAIN story : story[m] = story[k] => m <= l
  BY <1>4, <1>5
<1>7. SceneOf(story[k]) \in DOMAIN story /\ story[SceneOf(story[k])] = story[k]
  BY <1>6 DEF SceneOf
<1> QED BY <1>1, <1>7, BoundsAssumption

Kept(n) == {m \in 1..n : m \in Filmed}

LEMMA PlaceBound ==
  ASSUME NEW n \in Nat
  PROVE  IsFiniteSet(Kept(n)) /\ Place(n) \in Nat /\ Place(n) <= n
<1>1. IsFiniteSet(1..n) /\ Cardinality(1..n) = n
  BY FS_Interval
<1>2. Kept(n) \in SUBSET (1..n)
  BY DEF Kept
<1> QED BY <1>1, <1>2, FS_Subset, FS_CardinalityType DEF Place, Kept

LEMMA PlaceNone == Place(0) = 0
BY PlaceBound

LEMMA PlaceStep ==
  ASSUME NEW n \in Nat
  PROVE  Place(n + 1) = IF n + 1 \in Filmed THEN Place(n) + 1 ELSE Place(n)
<1>1. IsFiniteSet(Kept(n)) /\ n + 1 \notin Kept(n)
  BY PlaceBound DEF Kept
<1>2. CASE n + 1 \in Filmed
  <2>1. Kept(n + 1) = Kept(n) \cup {n + 1}
    BY <1>2 DEF Kept
  <2>2. Cardinality(Kept(n + 1)) = Cardinality(Kept(n)) + 1
    BY <1>1, <2>1, FS_AddElement
  <2> QED BY <1>2, <2>2 DEF Place, Kept
<1>3. CASE n + 1 \notin Filmed
  <2>1. Kept(n + 1) = Kept(n)
    BY <1>3 DEF Kept
  <2> QED BY <1>3, <2>1 DEF Place, Kept
<1> QED BY <1>2, <1>3

LEMMA PlaceGrows ==
  ASSUME NEW k \in Nat, NEW n \in 0..k
  PROVE  Place(n) <= Place(k)
<1>1. IsFiniteSet(Kept(k)) /\ Kept(n) \in SUBSET Kept(k)
  BY PlaceBound DEF Kept
<1> QED BY <1>1, FS_Subset DEF Place, Kept

\* A kept scene has a place of its own.
LEMMA PlaceOf ==
  ASSUME NEW n \in Nat \ {0}, n \in Filmed
  PROVE  Place(n) \in Nat \ {0} /\ Place(n) = Place(n - 1) + 1
<1>1. n - 1 \in Nat /\ (n - 1) + 1 = n
  OBVIOUS
<1>2. Place(n) = Place(n - 1) + 1
  BY <1>1, PlaceStep
<1> QED BY <1>1, <1>2, PlaceBound

-----------------------------------------------------------------------------
(* The invariant *)

Late == {"order", "audio", "deliver", "copy", "reencode", "upload", "probe",
         "state", "done"}

\* Ids with a scene that is animated.
Drawn == {story[m] : m \in animated}

\* What Animate writes for an id.
RawOf(i) == [scene |-> SceneOf(i), frames |-> frames[i], finished |-> FALSE,
             rate |-> 1]

FilesInv ==
    /\ \A i \in Ids : files["clips"][i] # None =>
         files["clips"][i] = RawOf(i) /\ \E k \in DOMAIN story : story[k] = i
    /\ \A i \in Ids : files["finished"][i] # None =>
         files["clips"][i] # None /\ files["finished"][i] = FinishOf(RawOf(i))

There(entry) == FileOf(entry) # None

OutDir == IF FinishEnabled THEN "finished" ELSE "clips"

\* The lists of clips before the cut: what they name is there, the animated scenes
\* met so far are in, and a list is not longer than what it was made from.
OutInv ==
    /\ \A n \in DOMAIN out : There(out[n]) /\ out[n].id \in Drawn
    /\ \A n \in DOMAIN finished : There(finished[n])
    /\ pc = "animate" => /\ at - 1 <= Len(story) /\ Len(out) <= at - 1
                         /\ finished = <<>>
                         /\ \A n \in 1..(at - 1) : n \in animated =>
                              Has(out, story[n])
    /\ pc # "animate" => Len(out) <= Len(story)
    /\ pc \in Late \cup {"finish"} =>
         \A n \in animated : Has(out, story[n])
    /\ pc \in {"animate", "finish"} => \A n \in DOMAIN out : out[n].dir = "clips"
    /\ pc = "finish" => /\ FinishEnabled /\ at - 1 = Len(finished)
                        /\ Len(finished) <= Len(out)
                        /\ \A n \in DOMAIN finished :
                             finished[n] = [id |-> out[n].id, dir |-> "finished"]
    /\ pc \in Late => \A n \in DOMAIN out : out[n].dir = OutDir

\* Scenes the cut has been told of.
Met == IF pc = "order" THEN at - 1 ELSE Len(story)

CutInv ==
    /\ pc \in {"animate", "finish"} => ordered = <<>>
    /\ \A n \in DOMAIN ordered : There(ordered[n]) /\ ordered[n].dir = OutDir
    /\ pc \in Late =>
         /\ Met \in 0..Len(story) /\ Len(ordered) = Place(Met)
         /\ \A n \in 1..Met : n \in Filmed => ordered[Place(n)].id = story[n]

\* The cut is that of the whole storyboard.
WholeCut ==
    /\ Len(ordered) = Place(Len(story))
    /\ \A n \in Filmed : ordered[Place(n)].id = story[n]

\* The bed has been looked for, and is a track if that is what the job names.
BedKnown == bed = "track" <=> job.audio = "track"

\* What is delivered: each object the clip of its id, the manifest the cut with all its
\* objects there, the film the whole merge; and what is there by when.  A job that
\* fails keeps what it has published.
DeliveryInv ==
    /\ \A i \in Ids : clipObj[i] # None => clipObj[i] = files[OutDir][i]
    /\ pc = "audio" => at = 1
    /\ pc = "deliver" =>
         /\ at - 1 <= Len(ordered)
         /\ \A n \in 1..(at - 1) : clipObj[ordered[n].id] # None
    /\ manifest # None => /\ pc \in {"state", "done", "failed"} /\ manifest = ordered
                          /\ WholeCut
                          /\ \A n \in DOMAIN ordered : clipObj[ordered[n].id] # None
    /\ pc \in {"deliver", "copy", "reencode", "upload"} => BedKnown
    /\ pc \in {"copy", "reencode", "upload"} => ~job.offloaded
    /\ pc = "upload" => full = Merge
    /\ film # None => /\ pc \in {"probe", "state", "done", "failed"} /\ film = Merge
                      /\ WholeCut /\ BedKnown
    /\ pc = "probe" => ~job.offloaded /\ film # None
    /\ pc \in {"state", "done"} =>
         IF job.offloaded THEN manifest # None ELSE film # None \/ ordered = <<>>

FilmInv == TypeOK /\ FilesInv /\ OutInv /\ CutInv /\ DeliveryInv

-----------------------------------------------------------------------------
(* Types *)

LEMMA ClipsTyped ==
  ASSUME TypeOK, NEW k \in DOMAIN story
  PROVE  /\ RawOf(story[k]) \in Clip /\ FinishOf(RawOf(story[k])) \in Clip
         /\ story[k] \in Ids
         /\ RawOf(story[k]) # None /\ FinishOf(RawOf(story[k])) # None
<1> DEFINE c == RawOf(story[k])
<1>1. story[k] \in Ids /\ SceneOf(story[k]) \in 1..MaxScenes
  BY StoryTyped, LastScene DEF TypeOK
<1>2. frames[story[k]] \in 1..MaxFrames
  BY <1>1 DEF TypeOK
<1>3. c \in Clip /\ c.frames \in 1..MaxFrames /\ c.rate = 1
  BY <1>1, <1>2, BoundsAssumption DEF RawOf, Clip
<1> HIDE DEF c
<1>4. [c EXCEPT !.finished = TRUE] \in Clip
  BY <1>3 DEF Clip
<1>5. ASSUME c.frames > 1
      PROVE  [c EXCEPT !.frames = 2 * c.frames - 1, !.rate = 2 * c.rate,
                       !.finished = TRUE] \in Clip
  <2>1. 2 * c.frames - 1 \in 1..(2 * MaxFrames) /\ 2 * c.rate \in {1, 2}
    BY <1>3, BoundsAssumption
  <2> QED BY <2>1, <1>3 DEF Clip
<1>6. FinishOf(c) \in Clip
  BY <1>4, <1>5 DEF FinishOf, Interpolates
<1>7. c \in Clip /\ c # None /\ FinishOf(c) # None
  BY <1>3, <1>6, NoneAssumption
<1> QED BY <1>1, <1>6, <1>7 DEF c

LEMMA EntryOf ==
  ASSUME NEW list \in Seq(Entry)
  PROVE  /\ Len(list) \in Nat /\ DOMAIN list = 1..Len(list)
         /\ \A n \in DOMAIN list : list[n].dir \in Directories /\ list[n].id \in Ids
<1>1. \A n \in DOMAIN list : list[n] \in Entry
  OBVIOUS
<1> QED BY <1>1 DEF Entry

LEMMA MergeTyped ==
  ASSUME TypeOK, CutInv
  PROVE  /\ Merge \in Film /\ Leftovers \subseteq Film \cup {None}
         /\ Merge # None /\ Merge.whole
<1> DEFINE p == [n \in DOMAIN ordered |-> FileOf(ordered[n])]
<1>1. \A n \in DOMAIN ordered : FileOf(ordered[n]) \in Clip
  <2> TAKE n \in DOMAIN ordered
  <2>1. ordered \in Seq(Entry) /\ files \in [Directories -> [Ids -> Clip \cup {None}]]
    BY DEF TypeOK
  <2>2. FileOf(ordered[n]) \in Clip \cup {None}
    BY <2>1, EntryOf DEF FileOf
  <2> QED BY <2>2 DEF CutInv, There
<1>2. DOMAIN ordered = 1..Len(ordered) /\ Len(ordered) \in Nat
  BY DEF TypeOK
<1>3. p \in Seq(Clip)
  BY <1>1, <1>2
<1>4. (bed = "track") \in BOOLEAN
  OBVIOUS
<1> HIDE DEF p
<1>5. /\ [pieces |-> p, whole |-> TRUE, sound |-> bed = "track"] \in Film
      /\ [[pieces |-> p, whole |-> TRUE, sound |-> bed = "track"]
            EXCEPT !.whole = FALSE] \in Film
  BY <1>3, <1>4 DEF Film
<1>6. Merge = [pieces |-> p, whole |-> TRUE, sound |-> bed = "track"]
  BY DEF Merge, p
<1>7. Merge \in Film /\ [Merge EXCEPT !.whole = FALSE] \in Film /\ Merge.whole
  BY <1>5, <1>6
<1> QED BY <1>7, NoneAssumption DEF Leftovers

LEMMA TypeNext == FilmInv /\ [Next]_vars => TypeOK'
<1> SUFFICES ASSUME FilmInv, [Next]_vars PROVE TypeOK'
  OBVIOUS
<1> USE DEF FilmInv
<1>1. /\ DOMAIN story = 1..Len(story) /\ Len(story) \in 1..MaxScenes
      /\ MaxScenes \in Nat \ {0} /\ at \in Nat \ {0}
      /\ out \in Seq(Entry) /\ ordered \in Seq(Entry) /\ finished \in Seq(Entry)
      /\ files \in [Directories -> [Ids -> Clip \cup {None}]]
  BY StoryTyped, BoundsAssumption DEF TypeOK
<1>2. CASE Animate
  <2>1. /\ at \in DOMAIN story /\ RawOf(story[at]) \in Clip /\ story[at] \in Ids
        /\ files' = [files EXCEPT !["clips"][story[at]] = RawOf(story[at])]
        /\ out' = Append(out, [id |-> story[at], dir |-> "clips"])
        /\ at' = at + 1
    BY <1>2, ClipsTyped DEF Animate, RawOf
  <2>2. files' \in [Directories -> [Ids -> Clip \cup {None}]]
    BY <2>1, <1>1 DEF Directories
  <2>3. [id |-> story[at], dir |-> "clips"] \in Entry
    BY <2>1 DEF Entry, Directories
  <2>4. out' \in Seq(Entry)
    BY <1>1, <2>1, <2>3
  <2>5. at' \in 1..(MaxScenes + 1)
    BY <1>1, <2>1
  <2> QED BY <1>2, <2>2, <2>4, <2>5 DEF Animate, TypeOK, fixed, r2
<1>3. CASE SkipScene \/ DropScene
  <2>1. at' \in 1..(MaxScenes + 1)
    BY <1>1, <1>3 DEF SkipScene, DropScene
  <2> QED BY <1>3, <2>1 DEF SkipScene, DropScene, TypeOK, fixed, local, r2
<1>4. CASE EndScenes \/ EndOrder
  <2>1. at' \in 1..(MaxScenes + 1)
    BY <1>1, <1>4 DEF EndScenes, EndOrder
  <2> QED BY <1>4, <2>1 DEF EndScenes, EndOrder, TypeOK, Busy, fixed, local, r2
<1>5. CASE FinishClip
  <2>1. /\ at \in DOMAIN out /\ out[at].id \in Ids /\ out[at].dir = "clips"
        /\ There(out[at])
    BY <1>1, <1>5, EntryOf DEF FinishClip, OutInv
  <2>2. FileOf(out[at]) = RawOf(out[at].id) /\ \E k \in DOMAIN story : story[k] = out[at].id
    BY <2>1 DEF There, FileOf, FilesInv
  <2>3. FinishOf(FileOf(out[at])) \in Clip
    BY <2>2, ClipsTyped
  <2>4. files' = [files EXCEPT !["finished"][out[at].id] = FinishOf(FileOf(out[at]))]
    BY <1>5 DEF FinishClip, FileOf
  <2>5. files' \in [Directories -> [Ids -> Clip \cup {None}]]
    BY <2>1, <2>3, <2>4, <1>1 DEF Directories
  <2>6. [id |-> out[at].id, dir |-> "finished"] \in Entry
    BY <2>1 DEF Entry, Directories
  <2>7. finished' \in Seq(Entry)
    BY <1>1, <1>5, <2>6 DEF FinishClip
  <2>8. at' \in 1..(MaxScenes + 1)
    <3>1. Len(out) <= Len(story) /\ Len(out) \in Nat /\ at \in 1..Len(out)
      BY <1>1, <1>5, <2>1, EntryOf DEF OutInv, FinishClip
    <3> QED BY <1>1, <1>5, <3>1 DEF FinishClip
  <2> QED BY <1>5, <2>5, <2>7, <2>8 DEF FinishClip, TypeOK, fixed, r2
<1>6. CASE EndFinish
  BY <1>1, <1>6 DEF EndFinish, Delivered, TypeOK, Busy, fixed, r2
<1>7. CASE OrderClip
  <2>1. /\ at \in DOMAIN story /\ Has(out, story[at])
        /\ ordered' = Append(ordered, ById(out, story[at])) /\ at' = at + 1
    BY <1>7 DEF OrderClip, InCut
  <2>2. ById(out, story[at]) \in Entry
    <3>1. \E n \in DOMAIN out : ById(out, story[at]) = out[n]
      BY <2>1 DEF Has, ById
    <3> QED BY <3>1, <1>1
  <2>3. ordered' \in Seq(Entry) /\ at' \in 1..(MaxScenes + 1)
    BY <1>1, <2>1, <2>2
  <2> QED BY <1>7, <2>3 DEF OrderClip, TypeOK, fixed, r2
<1>8. CASE FetchAudio
  BY <1>8 DEF FetchAudio, TypeOK, Busy, fixed, r2
<1>9. CASE PutClip
  <2>1. /\ at \in DOMAIN ordered /\ at' = at + 1
        /\ clipObj' = [clipObj EXCEPT ![ordered[at].id] = FileOf(ordered[at])]
    BY <1>9 DEF PutClip
  <2>2. ordered[at].id \in Ids /\ FileOf(ordered[at]) \in Clip \cup {None}
    BY <1>1, <2>1, EntryOf DEF FileOf
  <2>3. clipObj' \in [Ids -> Clip \cup {None}]
    BY <2>1, <2>2 DEF TypeOK
  <2>4. at' \in 1..(MaxScenes + 1)
    <3>1. Len(ordered) = Place(Len(story)) /\ Place(Len(story)) <= Len(story)
      BY <1>1, <1>9, PlaceBound DEF PutClip, CutInv, Late, Met
    <3>2. at \in 1..Len(ordered) /\ Len(ordered) \in Nat
      BY <1>1, <2>1, EntryOf
    <3> QED BY <1>1, <2>1, <3>1, <3>2
  <2> QED BY <1>9, <2>3, <2>4 DEF PutClip, TypeOK, fixed, local
<1>10. CASE PutManifest
  BY <1>1, <1>10 DEF PutManifest, TypeOK, Busy, fixed, local
<1>11. CASE \/ NothingToMerge \/ BeginMerge \/ ProbeFilm \/ PutState \/ StageFails
            \/ StoreFails \/ ProbeFails
  BY <1>11 DEF NothingToMerge, BeginMerge, ProbeFilm, PutState, StageFails, StoreFails,
     ProbeFails, TypeOK, Busy, fixed, local, r2
<1>12. CASE StreamCopy \/ Reencode \/ CopyRefused \/ ReencodeFails
  <2>1. full' \in Film \cup {None}
    BY <1>12, MergeTyped DEF StreamCopy, Reencode, MergeSucceeds, CopyRefused,
       ReencodeFails
  <2> QED BY <1>12, <2>1 DEF StreamCopy, Reencode, MergeSucceeds, CopyRefused,
          ReencodeFails, RedoRaises, TypeOK, Busy, fixed, r2
<1>13. CASE PutFilm
  BY <1>13 DEF PutFilm, TypeOK, Busy, fixed, local
<1>14. CASE UNCHANGED vars
  BY <1>14 DEF vars, TypeOK
<1> QED BY <1>2, <1>3, <1>4, <1>5, <1>6, <1>7, <1>8, <1>9, <1>10, <1>11, <1>12,
           <1>13, <1>14 DEF Next

-----------------------------------------------------------------------------
(* Files *)

\* What is written for an id does not change.
LEMMA SameClips ==
  ASSUME UNCHANGED fixed
  PROVE  /\ \A i : RawOf(i)' = RawOf(i) /\ \A c : FinishOf(c)' = FinishOf(c)
         /\ OutDir' = OutDir /\ FinishEnabled' = FinishEnabled
         /\ \A n : Place(n)' = Place(n)
         /\ Filmed' = Filmed /\ Drawn' = Drawn
BY DEF fixed, RawOf, SceneOf, FinishOf, Interpolates, OutDir, FinishEnabled, Place, Filmed,
   Drawn

LEMMA FilesKept ==
  ASSUME FilesInv, UNCHANGED <<fixed, files>>
  PROVE  FilesInv'
BY SameClips DEF FilesInv, fixed

LEMMA FilesNext == FilmInv /\ [Next]_vars => FilesInv'
<1> SUFFICES ASSUME FilmInv, [Next]_vars PROVE FilesInv'
  OBVIOUS
<1> USE DEF FilmInv
<1>1. /\ DOMAIN story = 1..Len(story) /\ out \in Seq(Entry)
      /\ files \in [Directories -> [Ids -> Clip \cup {None}]]
  BY StoryTyped DEF TypeOK
<1>2. CASE Animate
  <2>1. /\ at \in DOMAIN story /\ story[at] \in Ids /\ UNCHANGED fixed
        /\ files' = [files EXCEPT !["clips"][story[at]] = RawOf(story[at])]
        /\ RawOf(story[at]) # None
    BY <1>2, ClipsTyped DEF Animate, RawOf
  <2>2. \A i \in Ids :
          /\ files'["clips"][i] = IF i = story[at] THEN RawOf(i) ELSE files["clips"][i]
          /\ files'["finished"][i] = files["finished"][i]
    BY <1>1, <2>1 DEF Directories
  <2> QED BY <2>1, <2>2, SameClips DEF FilesInv, fixed
<1>3. CASE FinishClip
  <2>1. /\ at \in DOMAIN out /\ out[at].id \in Ids /\ out[at].dir = "clips"
        /\ There(out[at]) /\ UNCHANGED fixed
    BY <1>1, <1>3, EntryOf DEF FinishClip, OutInv
  <2>2. FileOf(out[at]) = RawOf(out[at].id) /\ files["clips"][out[at].id] # None
    BY <2>1 DEF There, FileOf, FilesInv
  <2>3. files' = [files EXCEPT !["finished"][out[at].id] = FinishOf(RawOf(out[at].id))]
    BY <1>3, <2>2 DEF FinishClip, FileOf
  <2>4. \A i \in Ids :
          /\ files'["clips"][i] = files["clips"][i]
          /\ files'["finished"][i] = IF i = out[at].id THEN FinishOf(RawOf(i))
                                     ELSE files["finished"][i]
    BY <1>1, <2>1, <2>3 DEF Directories
  <2> QED BY <2>1, <2>2, <2>4, SameClips DEF FilesInv, fixed
<1>4. ASSUME ~Animate, ~FinishClip PROVE UNCHANGED <<fixed, files>>
  BY <1>4 DEF Next, SkipScene, EndScenes, EndFinish, OrderClip, DropScene, EndOrder,
     FetchAudio, PutClip, PutManifest, NothingToMerge, BeginMerge, StreamCopy,
     Reencode, MergeSucceeds, CopyRefused, ReencodeFails, PutFilm,
     ProbeFilm, PutState, StageFails, StoreFails, ProbeFails, fixed, local, vars
<1> QED BY <1>2, <1>3, <1>4, FilesKept

\* A clip file, once there, stays what it is; so do the settings.
LEMMA FilesGrow ==
  ASSUME FilmInv, [Next]_vars
  PROVE  /\ UNCHANGED fixed
         /\ \A d \in Directories, i \in Ids : files[d][i] # None =>
              files'[d][i] = files[d][i]
<1> USE DEF FilmInv
<1>1. files \in [Directories -> [Ids -> Clip \cup {None}]] /\ out \in Seq(Entry)
  BY DEF TypeOK
<1>2. CASE Animate
  <2>1. /\ at \in DOMAIN story /\ story[at] \in Ids /\ UNCHANGED fixed
        /\ files' = [files EXCEPT !["clips"][story[at]] = RawOf(story[at])]
    BY <1>2, ClipsTyped DEF Animate, RawOf
  <2>2. \A d \in Directories, i \in Ids :
          files'[d][i] = IF d = "clips" /\ i = story[at] THEN RawOf(i) ELSE files[d][i]
    BY <1>1, <2>1 DEF Directories
  <2> QED BY <2>1, <2>2 DEF FilesInv
<1>3. CASE FinishClip
  <2>1. /\ at \in DOMAIN out /\ out[at].id \in Ids /\ out[at].dir = "clips"
        /\ There(out[at]) /\ UNCHANGED fixed
    BY <1>1, <1>3, EntryOf DEF FinishClip, OutInv
  <2>2. FileOf(out[at]) = RawOf(out[at].id)
    BY <2>1 DEF There, FileOf, FilesInv
  <2>3. files' = [files EXCEPT !["finished"][out[at].id] = FinishOf(RawOf(out[at].id))]
    BY <1>3, <2>2 DEF FinishClip, FileOf
  <2>4. \A d \in Directories, i \in Ids :
          files'[d][i] = IF d = "finished" /\ i = out[at].id THEN FinishOf(RawOf(i))
                         ELSE files[d][i]
    BY <1>1, <2>1, <2>3 DEF Directories
  <2> QED BY <2>1, <2>4 DEF FilesInv
<1>4. ASSUME ~Animate, ~FinishClip PROVE UNCHANGED <<fixed, files>>
  BY <1>4 DEF Next, SkipScene, EndScenes, EndFinish, OrderClip, DropScene, EndOrder,
     FetchAudio, PutClip, PutManifest, NothingToMerge, BeginMerge, StreamCopy,
     Reencode, MergeSucceeds, CopyRefused, ReencodeFails, PutFilm,
     ProbeFilm, PutState, StageFails, StoreFails, ProbeFails, fixed, local, vars
<1> QED BY <1>2, <1>3, <1>4

LEMMA EntriesStay ==
  ASSUME FilmInv, [Next]_vars
  PROVE  \A e \in Entry : files[e.dir][e.id] # None =>
           files'[e.dir][e.id] = files[e.dir][e.id]
BY FilesGrow DEF Entry

-----------------------------------------------------------------------------
(* Lists *)

LEMMA AppendIs ==
  ASSUME NEW list \in Seq(Entry), NEW e \in Entry
  PROVE  /\ Append(list, e) \in Seq(Entry)
         /\ Len(Append(list, e)) = Len(list) + 1
         /\ DOMAIN list = 1..Len(list)
         /\ DOMAIN Append(list, e) = 1..(Len(list) + 1)
         /\ \A n \in 1..Len(list) : Append(list, e)[n] = list[n]
         /\ Append(list, e)[Len(list) + 1] = e
OBVIOUS

LEMMA OutNext == FilmInv /\ [Next]_vars => OutInv'
<1> SUFFICES ASSUME FilmInv, [Next]_vars PROVE OutInv'
  OBVIOUS
<1> USE DEF FilmInv
<1>1. /\ DOMAIN story = 1..Len(story) /\ Len(story) \in Nat /\ at \in Nat \ {0}
      /\ out \in Seq(Entry) /\ Len(out) \in Nat /\ DOMAIN out = 1..Len(out)
      /\ finished \in Seq(Entry) /\ Len(finished) \in Nat
      /\ DOMAIN finished = 1..Len(finished)
      /\ story' = story /\ animated' = animated /\ UNCHANGED fixed
      /\ animated \subseteq DOMAIN story /\ Drawn' = Drawn
      /\ OutDir' = OutDir /\ FinishEnabled' = FinishEnabled
  BY StoryTyped, EntryOf, FilesGrow, SameClips DEF TypeOK, fixed
<1>2. ASSUME UNCHANGED <<out, finished>>
      PROVE  /\ \A n \in DOMAIN out : There(out[n])' /\ out[n].id \in Drawn
             /\ \A n \in DOMAIN finished : There(finished[n])'
  <2>1. \A n \in DOMAIN out : out[n] \in Entry
    BY <1>1
  <2>2. \A n \in DOMAIN finished : finished[n] \in Entry
    BY <1>1
  <2> QED BY <1>2, <2>1, <2>2, EntriesStay DEF OutInv, There, FileOf
<1>3. CASE Animate
  <2> DEFINE e == [id |-> story[at], dir |-> "clips"]
  <2>1. /\ pc = "animate" /\ pc' = pc /\ at \in DOMAIN story /\ at' = at + 1
        /\ out' = Append(out, e) /\ finished' = finished
        /\ at \in animated /\ story[at] \in Drawn /\ story[at] \in Ids /\ RawOf(story[at]) # None
        /\ files' = [files EXCEPT !["clips"][story[at]] = RawOf(story[at])]
    BY <1>3, ClipsTyped DEF Animate, RawOf, Drawn
  <2>2. e \in Entry /\ e.id = story[at] /\ e.dir = "clips"
    BY <2>1 DEF Entry, Directories
  <2>3. files'["clips"][story[at]] # None
    BY <2>1 DEF TypeOK, Directories
  <2> HIDE DEF e
  <2>4. /\ Len(out') = Len(out) + 1 /\ DOMAIN out' = 1..(Len(out) + 1)
        /\ \A n \in 1..Len(out) : out'[n] = out[n]
        /\ out'[Len(out) + 1] = e
    BY <1>1, <2>1, <2>2, AppendIs
  <2>5. ASSUME NEW n \in DOMAIN out'
        PROVE  There(out[n])' /\ out'[n].id \in Drawn /\ out'[n].dir = "clips"
    <3>1. CASE n \in 1..Len(out)
      <4>1. out[n] \in Entry
        BY <1>1, <3>1
      <4> QED BY <1>1, <2>1, <2>4, <3>1, <4>1, EntriesStay DEF OutInv, There, FileOf
    <3>2. CASE n = Len(out) + 1
      BY <2>1, <2>2, <2>3, <2>4, <3>2 DEF There, FileOf
    <3> QED BY <1>1, <2>4, <3>1, <3>2
  <2>6. \A n \in 1..at : n \in animated => Has(out', story[n])
    <3> SUFFICES ASSUME NEW n \in 1..at, n \in animated
                 PROVE  \E k \in DOMAIN out' : out'[k].id = story[n]
      BY DEF Has
    <3>1. CASE n = at
      BY <1>1, <2>2, <2>4, <3>1
    <3>2. CASE n \in 1..(at - 1)
      <4>1. PICK k \in DOMAIN out : out[k].id = story[n]
        BY <2>1, <3>2 DEF OutInv, Has
      <4> QED BY <1>1, <2>4, <4>1
    <3> QED BY <1>1, <3>1, <3>2
  <2>7. /\ at' - 1 = at /\ at <= Len(story) /\ Len(out') <= at
    <3>1. Len(out) <= at - 1 /\ Len(out') = Len(out) + 1
      BY <2>1, <2>4 DEF OutInv
    <3> QED BY <1>1, <2>1, <3>1
  <2> QED BY <1>1, <2>1, <2>5, <2>6, <2>7 DEF OutInv, Late, Has
<1>4. CASE SkipScene
  <2>1. /\ pc = "animate" /\ pc' = pc /\ at \in 1..Len(story) /\ at' = at + 1
        /\ UNCHANGED <<out, finished>> /\ at \notin animated
    BY <1>1, <1>4 DEF SkipScene, local
  <2>2. \A n \in 1..(at' - 1) : n \in animated => Has(out, story[n])
    BY <1>1, <2>1 DEF OutInv
  <2> QED BY <1>1, <1>2, <2>1, <2>2 DEF OutInv, Late, Has
<1>5. CASE EndScenes
  <2>1. /\ pc = "animate" /\ at > Len(story) /\ UNCHANGED <<out, finished>>
        /\ pc' = IF FinishEnabled /\ out # <<>> THEN "finish" ELSE "order"
        /\ at' = 1
    BY <1>5 DEF EndScenes, local
  <2>2. /\ at - 1 = Len(story) /\ finished = <<>> /\ Len(finished) = 0
    BY <1>1, <2>1 DEF OutInv
  <2>3. pc' = "order" => \A n \in DOMAIN out : out[n].dir = OutDir
    BY <1>1, <2>1 DEF OutInv, OutDir
  <2> QED BY <1>1, <1>2, <2>1, <2>2, <2>3 DEF OutInv, Late, Has
<1>6. CASE FinishClip
  <2> DEFINE e == [id |-> out[at].id, dir |-> "finished"]
  <2>1. /\ pc = "finish" /\ pc' = pc /\ at \in DOMAIN out /\ at' = at + 1
        /\ out' = out /\ finished' = Append(finished, e)
        /\ files' = [files EXCEPT !["finished"][out[at].id] =
                        FinishOf(files[out[at].dir][out[at].id])]
        /\ out[at].dir = "clips" /\ There(out[at]) /\ out[at].id \in Ids
    BY <1>1, <1>6, EntryOf DEF FinishClip, OutInv
  <2>2. e \in Entry /\ e.id = out[at].id /\ e.dir = "finished"
    BY <2>1 DEF Entry, Directories
  <2>3. files'["finished"][out[at].id] # None
    <3>1. FileOf(out[at]) = RawOf(out[at].id) /\ \E k \in DOMAIN story : story[k] = out[at].id
      BY <2>1 DEF There, FileOf, FilesInv
    <3> QED BY <2>1, <3>1, ClipsTyped DEF TypeOK, Directories, FileOf
  <2> HIDE DEF e
  <2>4. /\ Len(finished') = Len(finished) + 1
        /\ DOMAIN finished' = 1..(Len(finished) + 1)
        /\ \A n \in 1..Len(finished) : finished'[n] = finished[n]
        /\ finished'[Len(finished) + 1] = e
    BY <1>1, <2>1, <2>2, AppendIs
  <2>5. /\ at - 1 = Len(finished) /\ at <= Len(out) /\ FinishEnabled
    BY <1>1, <2>1 DEF OutInv
  <2>6. ASSUME NEW n \in DOMAIN finished'
        PROVE  /\ There(finished[n])'
               /\ finished'[n] = [id |-> out[n].id, dir |-> "finished"]
    <3>1. CASE n \in 1..Len(finished)
      <4>1. finished[n] \in Entry
        BY <1>1, <3>1
      <4> QED BY <1>1, <2>1, <2>4, <3>1, <4>1, EntriesStay DEF OutInv, There, FileOf
    <3>2. CASE n = Len(finished) + 1
      <4>1. n = at
        BY <1>1, <2>5, <3>2
      <4> QED BY <2>1, <2>2, <2>3, <2>4, <3>2, <4>1 DEF There, FileOf, e
    <3> QED BY <1>1, <2>4, <3>1, <3>2
  <2>7. \A n \in DOMAIN out : There(out[n])'
    <3>1. \A n \in DOMAIN out : out[n] \in Entry
      BY <1>1
    <3> QED BY <2>1, <3>1, EntriesStay DEF OutInv, There, FileOf
  <2>8. at' - 1 = Len(finished') /\ Len(finished') <= Len(out)
    BY <1>1, <2>1, <2>4, <2>5
  <2> QED BY <1>1, <2>1, <2>5, <2>6, <2>7, <2>8 DEF OutInv, Late, Has
<1>7. CASE EndFinish
  <2>1. /\ pc = "finish" /\ pc' = "order" /\ at > Len(out) /\ at' = 1
        /\ out' = finished /\ finished' = finished /\ files' = files
    BY <1>7 DEF EndFinish, Delivered
  <2>2. /\ Len(finished) = Len(out) /\ Len(out) <= Len(story) /\ OutDir = "finished"
        /\ \A n \in DOMAIN finished : There(finished[n]) /\ finished[n].id = out[n].id
                                    /\ finished[n].dir = "finished"
        /\ \A n \in DOMAIN out : out[n].id \in Drawn
        /\ \A n \in animated : Has(out, story[n])
    <3>1. /\ at - 1 = Len(finished) /\ Len(finished) <= Len(out) /\ FinishEnabled
          /\ Len(out) <= Len(story)
          /\ \A n \in DOMAIN finished :
               finished[n] = [id |-> out[n].id, dir |-> "finished"]
      BY <2>1 DEF OutInv
    <3>2. at \in Nat /\ Len(out) \in Nat /\ Len(finished) \in Nat /\ at > Len(out)
      BY <1>1, <2>1
    <3>3. Len(finished) = Len(out)
      BY <3>1, <3>2
    <3>4. OutDir = "finished"
      BY <3>1 DEF OutDir
    <3> QED BY <2>1, <3>1, <3>3, <3>4 DEF OutInv
  <2>3. \A n \in animated : Has(finished, story[n])
    BY <1>1, <2>2 DEF Has
  <2>4. \A n \in DOMAIN out' : There(out[n])' /\ out'[n].id \in Drawn
    BY <1>1, <2>1, <2>2 DEF There, FileOf
  <2>5. \A n \in DOMAIN finished' : There(finished[n])'
    BY <1>1, <2>1, <2>2 DEF There, FileOf
  <2> QED BY <1>1, <2>1, <2>2, <2>3, <2>4, <2>5 DEF OutInv, Late, Has
<1>8. CASE \/ OrderClip \/ DropScene \/ EndOrder \/ FetchAudio \/ PutClip
           \/ PutManifest \/ NothingToMerge \/ BeginMerge \/ StreamCopy \/ Reencode
           \/ CopyRefused \/ ReencodeFails \/ PutFilm
           \/ ProbeFilm \/ PutState \/ StageFails \/ StoreFails \/ ProbeFails
  <2>1. UNCHANGED <<out, finished>>
    BY <1>8 DEF OrderClip, DropScene, EndOrder, FetchAudio, PutClip, PutManifest,
       NothingToMerge, BeginMerge, StreamCopy, Reencode, MergeSucceeds, CopyRefused,
       ReencodeFails, PutFilm,
     ProbeFilm, PutState, StageFails, StoreFails, ProbeFails, local
  <2>2. pc' = "failed" \/ (pc \in Late /\ pc' \in Late)
    BY <1>8 DEF OrderClip, DropScene, EndOrder, FetchAudio, PutClip, PutManifest,
       NothingToMerge, BeginMerge, StreamCopy, Reencode, MergeSucceeds, CopyRefused,
       ReencodeFails, RedoRaises, PutFilm,
     ProbeFilm, PutState, StageFails, StoreFails, ProbeFails, Late
  <2>3. Len(out) <= Len(story)
    <3>1. CASE pc = "animate"
      <4>1. StageFails /\ at <= Len(story)
        BY <1>1, <1>8, <3>1 DEF OrderClip, DropScene, EndOrder, FetchAudio, PutClip,
           PutManifest, NothingToMerge, BeginMerge, StreamCopy, Reencode,
           MergeSucceeds, CopyRefused, ReencodeFails, PutFilm,
     ProbeFilm, PutState, StageFails, StoreFails, ProbeFails
      <4> QED BY <1>1, <3>1, <4>1 DEF OutInv
    <3> QED BY <3>1 DEF OutInv
  <2> QED BY <1>1, <1>2, <2>1, <2>2, <2>3 DEF OutInv, Late, Has
<1>9. CASE UNCHANGED vars
  <2>1. UNCHANGED <<out, finished, pc, at>>
    BY <1>9 DEF vars
  <2> QED BY <1>1, <1>2, <2>1 DEF OutInv, Late, Has
<1> QED BY <1>3, <1>4, <1>5, <1>6, <1>7, <1>8, <1>9 DEF Next

-----------------------------------------------------------------------------
(* The cut *)

LEMMA CutNext == FilmInv /\ [Next]_vars => CutInv'
<1> SUFFICES ASSUME FilmInv, [Next]_vars PROVE CutInv'
  OBVIOUS
<1> USE DEF FilmInv
<1>1. /\ DOMAIN story = 1..Len(story) /\ Len(story) \in Nat /\ at \in Nat \ {0}
      /\ out \in Seq(Entry) /\ DOMAIN out = 1..Len(out)
      /\ ordered \in Seq(Entry) /\ Len(ordered) \in Nat
      /\ DOMAIN ordered = 1..Len(ordered)
      /\ story' = story /\ animated' = animated
      /\ OutDir' = OutDir /\ \A n : Place(n)' = Place(n)
      /\ Filmed' = Filmed /\ animated \subseteq DOMAIN story
  BY StoryTyped, EntryOf, FilesGrow, SameClips DEF TypeOK, fixed
<1>2. ASSUME UNCHANGED ordered
      PROVE  \A n \in DOMAIN ordered : There(ordered[n])' /\ ordered[n].dir = OutDir
  <2>1. \A n \in DOMAIN ordered : ordered[n] \in Entry
    BY <1>1
  <2> QED BY <1>2, <2>1, EntriesStay DEF CutInv, There, FileOf
<1>3. CASE Animate \/ SkipScene \/ FinishClip
  <2>1. pc' = pc /\ pc \in {"animate", "finish"} /\ UNCHANGED ordered
    BY <1>3 DEF Animate, SkipScene, FinishClip, local
  <2> QED BY <1>1, <1>2, <2>1 DEF CutInv, Late
<1>4. CASE EndScenes \/ EndFinish
  <2>1. pc' \in {"finish", "order"} /\ at' = 1 /\ ordered' = ordered /\ ordered = <<>>
    BY <1>4 DEF EndScenes, EndFinish, local, CutInv
  <2>2. pc' = "order" => Met' = 0
    BY <2>1 DEF Met
  <2>3. Len(ordered) = Place(0)
    BY <2>1, PlaceNone
  <2> QED BY <1>1, <1>2, <2>1, <2>2, <2>3 DEF CutInv, Late
<1>5. CASE OrderClip
  <2> DEFINE e == ById(out, story[at])
  <2>1. /\ pc = "order" /\ pc' = pc /\ at \in 1..Len(story) /\ at' = at + 1
        /\ ordered' = Append(ordered, e) /\ files' = files
        /\ \E k \in DOMAIN out : out[k].id = story[at]
    BY <1>1, <1>5 DEF OrderClip, InCut, Has
  <2>2. PICK k \in DOMAIN out : e = out[k] /\ out[k].id = story[at]
    BY <2>1 DEF ById
  <2>3. /\ e \in Entry /\ e.id = story[at] /\ at \in Filmed
        /\ There(e) /\ e.dir = OutDir
    BY <1>1, <2>1, <2>2 DEF OutInv, Late, Filmed, Drawn
  <2> HIDE DEF e
  <2>4. /\ Len(ordered') = Len(ordered) + 1 /\ DOMAIN ordered' = 1..(Len(ordered) + 1)
        /\ \A n \in 1..Len(ordered) : ordered'[n] = ordered[n]
        /\ ordered'[Len(ordered) + 1] = e
    BY <1>1, <2>1, <2>3, AppendIs
  <2>5. /\ Len(ordered) = Place(at - 1) /\ Place(at) = Place(at - 1) + 1
        /\ at - 1 \in Nat /\ Place(at - 1) \in Nat
        /\ \A n \in 1..(at - 1) : n \in Filmed =>
             ordered[Place(n)].id = story[n]
    <3>1. at \in Nat \ {0} /\ at - 1 \in Nat
      BY <1>1, <2>1
    <3>2. Place(at) = Place(at - 1) + 1
      BY <2>3, <3>1, PlaceOf
    <3>3. Place(at - 1) \in Nat
      BY <3>1, PlaceBound
    <3> QED BY <2>1, <3>1, <3>2, <3>3 DEF CutInv, Late, Met
  <2>6. Met' = at /\ at \in 0..Len(story) /\ Len(ordered') = Place(at)
    BY <1>1, <2>1, <2>4, <2>5 DEF Met
  <2>7. ASSUME NEW n \in 1..at, n \in Filmed
        PROVE  ordered'[Place(n)].id = story[n]
    <3>1. CASE n = at
      BY <2>3, <2>4, <2>5, <3>1
    <3>2. CASE n \in 1..(at - 1)
      <4>1. n \in Nat \ {0} /\ n \in 0..(at - 1)
        BY <1>1, <3>2
      <4>2. Place(n) \in Nat \ {0} /\ Place(n) <= Place(at - 1)
        BY <2>5, <2>7, <4>1, PlaceOf, PlaceGrows
      <4>3. Place(n) \in 1..Len(ordered)
        BY <2>5, <4>2
      <4> QED BY <2>4, <2>5, <2>7, <3>2, <4>3
    <3> QED BY <1>1, <3>1, <3>2
  <2>8. ASSUME NEW n \in DOMAIN ordered'
        PROVE  There(ordered[n])' /\ ordered'[n].dir = OutDir
    <3>1. CASE n \in 1..Len(ordered)
      BY <1>1, <2>1, <2>4, <3>1 DEF CutInv, There, FileOf
    <3>2. CASE n = Len(ordered) + 1
      BY <2>1, <2>3, <2>4, <3>2 DEF There, FileOf
    <3> QED BY <1>1, <2>4, <3>1, <3>2
  <2> QED BY <1>1, <2>1, <2>6, <2>7, <2>8 DEF CutInv, Late
<1>6. CASE DropScene
  <2>1. /\ pc = "order" /\ pc' = pc /\ at \in 1..Len(story) /\ at' = at + 1
        /\ ordered' = ordered /\ ~Has(out, story[at])
    BY <1>1, <1>6 DEF DropScene, InCut, local
  <2>2. at \notin Filmed
    BY <1>1, <2>1 DEF OutInv, Late, Filmed, Has
  <2>3. at - 1 \in Nat /\ (at - 1) + 1 = at
    BY <1>1
  <2>4. Place(at) = Place(at - 1)
    BY <2>2, <2>3, PlaceStep
  <2>5. /\ Met' = at /\ at \in 0..Len(story) /\ Len(ordered) = Place(at - 1)
        /\ \A n \in 1..(at - 1) : n \in Filmed =>
             ordered[Place(n)].id = story[n]
    BY <1>1, <2>1 DEF CutInv, Late, Met
  <2>6. \A n \in 1..at : n \in Filmed => ordered[Place(n)].id = story[n]
    BY <1>1, <2>2, <2>5
  <2> QED BY <1>1, <1>2, <2>1, <2>4, <2>5, <2>6 DEF CutInv, Late
<1>7. CASE EndOrder
  <2>1. pc = "order" /\ at > Len(story) /\ pc' = "audio" /\ ordered' = ordered
    BY <1>7 DEF EndOrder, local
  <2>2. Met \in 0..Len(story) /\ Met = at - 1
    BY <2>1 DEF CutInv, Late, Met
  <2>3. Met = Len(story) /\ Met' = Len(story)
    BY <1>1, <2>1, <2>2 DEF Met
  <2> QED BY <1>1, <1>2, <2>1, <2>3 DEF CutInv, Late
<1>8. CASE \/ FetchAudio \/ PutClip \/ PutManifest \/ NothingToMerge \/ BeginMerge
           \/ StreamCopy \/ Reencode \/ CopyRefused \/ ReencodeFails \/ PutFilm
           \/ ProbeFilm \/ PutState \/ StageFails \/ StoreFails \/ ProbeFails
  <2>1. UNCHANGED ordered
    BY <1>8 DEF FetchAudio, PutClip, PutManifest, NothingToMerge, BeginMerge,
       StreamCopy, Reencode, MergeSucceeds, CopyRefused, ReencodeFails, PutFilm,
       ProbeFilm, PutState, StageFails, StoreFails, ProbeFails, local
  <2>2. pc' = "failed" \/ (pc \in Late \ {"order"} /\ pc' \in Late \ {"order"})
    BY <1>8 DEF FetchAudio, PutClip, PutManifest, NothingToMerge, BeginMerge,
       StreamCopy, Reencode, MergeSucceeds, CopyRefused, ReencodeFails, RedoRaises,
       PutFilm,
     ProbeFilm, PutState, StageFails, StoreFails, ProbeFails, Late
  <2>3. pc' # "failed" => Met' = Met
    BY <1>1, <2>2 DEF Met
  <2> QED BY <1>1, <1>2, <2>1, <2>2, <2>3 DEF CutInv, Late
<1>9. CASE UNCHANGED vars
  <2>1. UNCHANGED <<ordered, pc, at>>
    BY <1>9 DEF vars
  <2>2. Met' = Met
    BY <1>1, <2>1 DEF Met
  <2> QED BY <1>1, <1>2, <2>1, <2>2 DEF CutInv, Late
<1> QED BY <1>3, <1>4, <1>5, <1>6, <1>7, <1>8, <1>9 DEF Next

-----------------------------------------------------------------------------
(* Delivery *)

\* With the cut built, it is that of the whole storyboard.
LEMMA CutIsWhole ==
  ASSUME FilmInv, pc \in Late \ {"order"}
  PROVE  WholeCut
<1>1. Met = Len(story) /\ Filmed \subseteq 1..Len(story)
  BY StoryTyped DEF Met, Filmed, FilmInv, TypeOK
<1> QED BY <1>1 DEF FilmInv, CutInv, Late, WholeCut

\* A published manifest or film, and how the job stands, as long as the objects and what
\* they were made from stay.
Published ==
    /\ manifest # None => /\ manifest = ordered /\ WholeCut
                          /\ \A n \in DOMAIN ordered : clipObj[ordered[n].id] # None
    /\ film # None => film = Merge /\ WholeCut /\ BedKnown

LEMMA PublishedStays ==
  ASSUME FilmInv, [Next]_vars, UNCHANGED <<files, ordered, bed>>
  PROVE  /\ Merge' = Merge /\ WholeCut' = WholeCut /\ BedKnown' = BedKnown
         /\ UNCHANGED <<clipObj, manifest, film>> => Published'
<1>1. story' = story /\ job' = job /\ Filmed' = Filmed /\ \A n : Place(n)' = Place(n)
  BY FilesGrow, SameClips DEF fixed
<1>2. Merge' = Merge
  BY DEF Merge, FileOf
<1>3. WholeCut' = WholeCut /\ BedKnown' = BedKnown
  BY <1>1 DEF WholeCut, BedKnown
<1>4. Published
  BY DEF FilmInv, DeliveryInv, Published
<1> QED BY <1>2, <1>3, <1>4 DEF Published

LEMMA DeliveryNext == FilmInv /\ [Next]_vars => DeliveryInv'
<1> SUFFICES ASSUME FilmInv, [Next]_vars PROVE DeliveryInv'
  OBVIOUS
<1> USE DEF FilmInv
<1>1. /\ at \in Nat \ {0} /\ clipObj \in [Ids -> Clip \cup {None}]
      /\ ordered \in Seq(Entry) /\ Len(ordered) \in Nat
      /\ DOMAIN ordered = 1..Len(ordered)
      /\ OutDir' = OutDir /\ OutDir \in Directories /\ job' = job
  BY EntryOf, FilesGrow, SameClips DEF TypeOK, OutDir, Directories, fixed
<1>2. ASSUME UNCHANGED clipObj
      PROVE  \A i \in Ids : clipObj[i] # None => clipObj[i] = files'[OutDir][i]
  BY <1>1, <1>2, FilesGrow DEF DeliveryInv
<1>3. CASE \/ Animate \/ SkipScene \/ EndScenes \/ FinishClip \/ EndFinish \/ OrderClip
           \/ DropScene \/ EndOrder
  <2>1. /\ pc \in {"animate", "finish", "order"}
        /\ pc' \in {"animate", "finish", "order", "audio"} /\ (pc' = "audio" => at' = 1)
        /\ UNCHANGED <<clipObj, manifest, film>>
    BY <1>3 DEF Animate, SkipScene, EndScenes, FinishClip, EndFinish, OrderClip,
       DropScene, EndOrder, r2
  <2> QED BY <1>1, <1>2, <2>1 DEF DeliveryInv
<1>4. CASE FetchAudio
  <2>1. /\ pc = "audio" /\ pc' = "deliver" /\ at' = at
        /\ bed' = IF job.audio \in {"streamless", "track"} THEN job.audio ELSE None
        /\ UNCHANGED <<clipObj, manifest, film>>
    BY <1>4 DEF FetchAudio, r2
  <2>2. BedKnown'
    <3>1. job.audio \in Beds
      BY DEF TypeOK, Job
    <3> QED BY <1>1, <2>1, <3>1, NoneAssumption DEF BedKnown, Beds
  <2> QED BY <1>1, <1>2, <2>1, <2>2 DEF DeliveryInv
<1>5. CASE PutClip
  <2>1. /\ pc = "deliver" /\ pc' = pc /\ at \in 1..Len(ordered) /\ at' = at + 1
        /\ clipObj' = [clipObj EXCEPT ![ordered[at].id] = FileOf(ordered[at])]
        /\ UNCHANGED <<files, ordered, bed, manifest, film>>
    BY <1>1, <1>5 DEF PutClip, local
  <2>2. /\ ordered[at].id \in Ids /\ ordered[at].dir = OutDir /\ There(ordered[at])
    BY <1>1, <2>1, EntryOf DEF CutInv
  <2>3. \A i \in Ids : clipObj'[i] = IF i = ordered[at].id THEN FileOf(ordered[at])
                                    ELSE clipObj[i]
    BY <1>1, <2>1, <2>2
  <2>4. \A i \in Ids : clipObj'[i] # None => clipObj'[i] = files'[OutDir][i]
    BY <2>1, <2>2, <2>3 DEF DeliveryInv, FileOf
  <2>5. \A n \in 1..at : clipObj'[ordered[n].id] # None
    <3>1. \A n \in 1..at : n = at \/ n \in 1..(at - 1)
      BY <1>1
    <3>2. \A n \in 1..at : ordered[n].id \in Ids
      BY <1>1, <2>1, EntryOf
    <3> QED BY <2>1, <2>2, <2>3, <3>1, <3>2 DEF DeliveryInv, There
  <2>6. BedKnown' /\ manifest' = None /\ film' = None
    BY <2>1, PublishedStays DEF DeliveryInv
  <2> QED BY <1>1, <2>1, <2>4, <2>5, <2>6 DEF DeliveryInv
<1>6. CASE PutManifest
  <2>1. /\ pc = "deliver" /\ pc' = "state" /\ at > Len(ordered) /\ manifest' = ordered
        /\ job.offloaded /\ UNCHANGED <<files, ordered, bed, clipObj, film>>
    BY <1>6 DEF PutManifest, local
  <2>2. at - 1 = Len(ordered)
    <3>1. at - 1 <= Len(ordered)
      BY <2>1 DEF DeliveryInv
    <3> QED BY <1>1, <2>1, <3>1
  <2>3. \A n \in DOMAIN ordered : clipObj[ordered[n].id] # None
    BY <1>1, <2>1, <2>2 DEF DeliveryInv
  <2>4. WholeCut'
    BY <2>1, CutIsWhole, PublishedStays DEF Late
  <2>5. film' = None /\ manifest' # None
    BY <1>1, <2>1, NoneAssumption DEF DeliveryInv
  <2> QED BY <1>1, <1>2, <2>1, <2>3, <2>4, <2>5 DEF DeliveryInv
<1>7. CASE NothingToMerge \/ BeginMerge
  <2>1. /\ pc = "deliver" /\ ~job.offloaded
        /\ \/ pc' = "state" /\ ordered = <<>>
           \/ pc' = "copy"
        /\ UNCHANGED <<files, ordered, bed, clipObj, manifest, film>>
    BY <1>7 DEF NothingToMerge, BeginMerge, r2, local
  <2>2. manifest' = None /\ film' = None /\ BedKnown'
    BY <2>1, PublishedStays DEF DeliveryInv
  <2> QED BY <1>1, <1>2, <2>1, <2>2 DEF DeliveryInv
<1>8. CASE StreamCopy \/ Reencode
  <2>1. /\ pc \in {"copy", "reencode"} /\ pc' = "upload" /\ full' = Merge
        /\ UNCHANGED <<files, ordered, bed, clipObj, manifest, film>>
    BY <1>8 DEF StreamCopy, Reencode, MergeSucceeds, r2
  <2>2. Merge' = Merge /\ manifest' = None /\ film' = None /\ BedKnown'
    BY <2>1, PublishedStays DEF DeliveryInv
  <2> QED BY <1>1, <1>2, <2>1, <2>2 DEF DeliveryInv
<1>9. CASE CopyRefused
  <2>1. /\ pc = "copy" /\ pc' = "reencode"
        /\ UNCHANGED <<files, ordered, bed, clipObj, manifest, film>>
    BY <1>9 DEF CopyRefused, r2
  <2>2. manifest' = None /\ film' = None /\ BedKnown'
    BY <2>1, PublishedStays DEF DeliveryInv
  <2> QED BY <1>1, <1>2, <2>1, <2>2 DEF DeliveryInv
<1>10. CASE PutFilm
  <2>1. /\ pc = "upload" /\ pc' = "probe" /\ film' = full
        /\ UNCHANGED <<files, ordered, bed, clipObj, manifest>>
    BY <1>10 DEF PutFilm, local
  <2>2. /\ Merge' = Merge /\ full = Merge /\ Merge # None
        /\ WholeCut' /\ BedKnown' /\ manifest' = None
    BY <2>1, CutIsWhole, PublishedStays, MergeTyped DEF Late, DeliveryInv
  <2> QED BY <1>1, <1>2, <2>1, <2>2 DEF DeliveryInv
<1>11. CASE ProbeFilm \/ PutState
  <2>1. /\ \/ pc = "probe" /\ pc' = "state"
           \/ pc = "state" /\ pc' = "done"
        /\ UNCHANGED <<files, ordered, bed, clipObj, manifest, film>>
    BY <1>11 DEF ProbeFilm, PutState, r2, local
  <2>2. Published'
    BY <2>1, PublishedStays
  <2>3. pc' \in {"state", "done"} /\ (pc = "probe" => manifest' = None)
    BY <2>1 DEF DeliveryInv
  <2>4. IF job.offloaded THEN manifest # None ELSE film # None \/ ordered = <<>>
    BY <2>1 DEF DeliveryInv
  <2> QED BY <1>1, <1>2, <2>1, <2>2, <2>3, <2>4 DEF DeliveryInv, Published
<1>12. CASE StageFails \/ StoreFails \/ ProbeFails \/ ReencodeFails
  <2>1. /\ pc' = "failed" /\ UNCHANGED <<files, ordered, bed, clipObj, manifest, film>>
    BY <1>12 DEF StageFails, StoreFails, ProbeFails, ReencodeFails, RedoRaises, r2, local
  <2>2. Published'
    BY <2>1, PublishedStays
  <2> QED BY <1>1, <1>2, <2>1, <2>2 DEF DeliveryInv, Published
<1>13. CASE UNCHANGED vars
  <2>1. UNCHANGED <<pc, at, files, ordered, bed, full, clipObj, manifest, film>>
    BY <1>13 DEF vars
  <2>2. Merge' = Merge /\ WholeCut' = WholeCut /\ BedKnown' = BedKnown
    BY <2>1, PublishedStays
  <2> QED BY <1>1, <1>2, <2>1, <2>2 DEF DeliveryInv
<1> QED BY <1>3, <1>4, <1>5, <1>6, <1>7, <1>8, <1>9, <1>10, <1>11, <1>12, <1>13 DEF Next

-----------------------------------------------------------------------------
(* Theorems *)

LEMMA FilmInit == Init => FilmInv
<1> SUFFICES ASSUME Init PROVE FilmInv
  OBVIOUS
<1>1. TypeOK
  <2>1. files \in [Directories -> [Ids -> Clip \cup {None}]]
    BY DEF Init
  <2>2. out \in Seq(Entry) /\ finished \in Seq(Entry) /\ ordered \in Seq(Entry)
    BY DEF Init
  <2>3. at \in 1..(MaxScenes + 1)
    BY BoundsAssumption DEF Init
  <2> QED BY <2>1, <2>2, <2>3 DEF Init, TypeOK, Busy
<1>2. FilesInv
  BY DEF Init, FilesInv, Directories
<1>3. OutInv
  BY <1>1, StoryTyped DEF Init, OutInv, Late
<1>4. CutInv /\ DeliveryInv
  BY DEF Init, CutInv, DeliveryInv, Late
<1> QED BY <1>1, <1>2, <1>3, <1>4 DEF FilmInv

LEMMA FilmInvariant == Spec => []FilmInv
<1>1. FilmInv /\ [Next]_vars => FilmInv'
  BY TypeNext, FilesNext, OutNext, CutNext, DeliveryNext DEF FilmInv
<1> QED BY <1>1, FilmInit, PTL DEF Spec

\* Every variable has its type.
THEOREM FilmTyped == Spec => []TypeOK
<1>1. FilmInv => TypeOK
  BY DEF FilmInv
<1> QED BY <1>1, FilmInvariant, PTL

\* What reaches the film key is a merge ffmpeg finished, with sound if the job names a
\* track, whether the job then ends well or fails on the probes or on the upload of
\* the state; and a job that ends well has published what was asked of it.
THEOREM FilmsWhole == Spec => []OnlyWholeFilm
<1>1. ASSUME FilmInv PROVE OnlyWholeFilm
  <2>1. film # None => film.whole /\ (film.sound <=> job.audio = "track")
    <3> SUFFICES ASSUME film # None
                 PROVE  film.whole /\ (film.sound <=> job.audio = "track")
      OBVIOUS
    <3>1. film = Merge /\ BedKnown
      BY <1>1 DEF FilmInv, DeliveryInv
    <3>2. film.whole /\ (film.sound <=> bed = "track")
      BY <3>1 DEF Merge
    <3> QED BY <3>1, <3>2 DEF BedKnown
  <2>2. ASSUME pc = "done", ~job.offloaded, animated # {}
        PROVE  film # None
    <3>1. PICK n \in animated : TRUE
      BY <2>2
    <3>2. /\ DOMAIN story = 1..Len(story) /\ Len(story) \in Nat
          /\ n \in Filmed /\ n \in Nat \ {0} /\ n \in 0..Len(story)
      BY <1>1, <3>1, StoryTyped DEF FilmInv, TypeOK, Filmed
    <3>3. Place(n) \in Nat \ {0} /\ Place(n) <= Place(Len(story))
      BY <3>2, PlaceOf, PlaceGrows
    <3>4. Len(ordered) = Place(Len(story)) /\ Place(Len(story)) \in Nat
      BY <1>1, <2>2, <3>2, CutIsWhole, PlaceBound DEF WholeCut, Late
    <3>5. ordered # <<>>
      BY <3>3, <3>4
    <3> QED BY <1>1, <2>2, <3>5 DEF FilmInv, DeliveryInv
  <2> QED BY <1>1, <2>1, <2>2 DEF FilmInv, DeliveryInv, OnlyWholeFilm
<1>2. FilmInv => OnlyWholeFilm
  BY <1>1
<1> QED BY <1>2, FilmInvariant, PTL

LEMMA FinishKeepsScene ==
  ASSUME NEW i
  PROVE  /\ RawOf(i).scene = SceneOf(i) /\ RawOf(i).finished = FALSE
         /\ RawOf(i).rate = 1
         /\ FinishOf(RawOf(i)).scene = SceneOf(i)
         /\ FinishOf(RawOf(i)).finished = TRUE
BY DEF FinishOf, RawOf

\* The clip of a scene shows the last scene of its id, finished or not.
LEMMA DeliveredShows ==
  ASSUME FilmInv, NEW n \in DOMAIN story, files[OutDir][story[n]] # None
  PROVE  files[OutDir][story[n]].scene = SceneOf(story[n])
<1>1. story[n] \in Ids
  BY StoryTyped DEF FilmInv, TypeOK
<1>2. files[OutDir][story[n]] \in {RawOf(story[n]), FinishOf(RawOf(story[n]))}
  BY <1>1 DEF FilmInv, FilesInv, OutDir
<1> QED BY <1>2, FinishKeepsScene

\* The film, and the manifest with its objects, has one piece for every scene whose id
\* was animated, in storyboard order, and each piece shows the last scene of its id.
THEOREM CutsFollowStory == Spec => []CutFollowsStory
<1>1. ASSUME FilmInv PROVE CutFollowsStory
  <2> USE DEF FilmInv
  <2>1. /\ DOMAIN story = 1..Len(story) /\ Len(story) \in Nat
        /\ Filmed \subseteq DOMAIN story
        /\ ordered \in Seq(Entry) /\ DOMAIN ordered = 1..Len(ordered)
        /\ Len(ordered) \in Nat
    BY <1>1, StoryTyped, EntryOf DEF TypeOK, Filmed
  <2>2. ASSUME WholeCut
        PROVE  /\ Len(ordered) = Place(Len(story))
               /\ \A n \in Filmed :
                    /\ Place(n) \in DOMAIN ordered
                    /\ ordered[Place(n)].id = story[n]
                    /\ ordered[Place(n)].dir = OutDir
                    /\ files[OutDir][story[n]] # None
    <3>1. /\ Len(ordered) = Place(Len(story))
          /\ \A n \in Filmed : ordered[Place(n)].id = story[n]
      BY <2>2 DEF WholeCut
    <3>2. ASSUME NEW n \in Filmed
          PROVE  Place(n) \in DOMAIN ordered
      <4>1. n \in Nat \ {0} /\ n \in 0..Len(story)
        BY <2>1
      <4> QED BY <2>1, <3>1, <3>2, <4>1, PlaceOf, PlaceGrows
    <3> QED BY <1>1, <2>1, <3>1, <3>2 DEF CutInv, There, FileOf
  <2>3. ASSUME film # None
        PROVE  /\ Len(film.pieces) = Place(Len(story))
               /\ \A n \in Filmed : film.pieces[Place(n)].scene = SceneOf(story[n])
    <3>1. film = Merge /\ WholeCut
      BY <1>1, <2>3 DEF DeliveryInv
    <3>2. film.pieces = [n \in DOMAIN ordered |-> FileOf(ordered[n])]
      BY <3>1 DEF Merge
    <3>3. Len(film.pieces) = Len(ordered)
      BY <2>1, <3>2
    <3>4. ASSUME NEW n \in Filmed
          PROVE  film.pieces[Place(n)].scene = SceneOf(story[n])
      <4>1. /\ n \in DOMAIN story /\ files[OutDir][story[n]] # None
            /\ film.pieces[Place(n)] = files[OutDir][story[n]]
        BY <2>1, <2>2, <3>1, <3>2, <3>4 DEF FileOf
      <4>2. files[OutDir][story[n]].scene = SceneOf(story[n])
        BY <1>1, <4>1, DeliveredShows
      <4> QED BY <4>1, <4>2
    <3> QED BY <2>2, <3>1, <3>3, <3>4
  <2>4. ASSUME manifest # None
        PROVE  /\ Len(manifest) = Place(Len(story))
               /\ \A n \in Filmed :
                    /\ manifest[Place(n)].id = story[n]
                    /\ clipObj[story[n]] # None
                    /\ clipObj[story[n]].scene = SceneOf(story[n])
    <3>1. /\ manifest = ordered /\ WholeCut
          /\ \A n \in DOMAIN ordered : clipObj[ordered[n].id] # None
      BY <1>1, <2>4 DEF DeliveryInv
    <3>2. ASSUME NEW n \in Filmed
          PROVE  /\ clipObj[story[n]] # None
                 /\ clipObj[story[n]].scene = SceneOf(story[n])
      <4>1. /\ clipObj[story[n]] # None /\ story[n] \in Ids /\ n \in DOMAIN story
            /\ files[OutDir][story[n]] # None
        <5>1. n \in DOMAIN story /\ story[n] \in Ids
          BY <1>1, <2>1, StoryTyped DEF TypeOK
        <5>2. /\ Place(n) \in DOMAIN ordered /\ ordered[Place(n)].id = story[n]
              /\ files[OutDir][story[n]] # None
          BY <2>2, <3>1
        <5> QED BY <3>1, <5>1, <5>2
      <4>2. clipObj[story[n]] = files[OutDir][story[n]]
        BY <1>1, <4>1 DEF DeliveryInv
      <4>3. files[OutDir][story[n]].scene = SceneOf(story[n])
        BY <1>1, <4>1, DeliveredShows
      <4> QED BY <4>1, <4>2, <4>3
    <3> QED BY <2>2, <3>1, <3>2
  <2> QED BY <2>3, <2>4 DEF CutFollowsStory
<1>2. FilmInv => CutFollowsStory
  BY <1>1
<1> QED BY <1>2, FilmInvariant, PTL

\* A delivered clip: raw without finishing, and otherwise what finish_clip makes of it.
LEMMA DeliveredClip ==
  ASSUME FilmInv, NEW i \in Ids, files[OutDir][i] # None
  PROVE  LET c == files[OutDir][i]
         IN  c.finished = FinishEnabled
             /\ (c.frames > 1 => c.rate = IF job.interpolate /\ job.double THEN 2 ELSE 1)
<1> USE DEF FilmInv
<1>1. PICK k \in DOMAIN story : story[k] = i
  BY DEF FilesInv, OutDir
<1>2. RawOf(i) \in Clip /\ frames[i] \in 1..MaxFrames
  BY <1>1, ClipsTyped DEF TypeOK
<1>3. CASE FinishEnabled
  <2>1. files[OutDir][i] = FinishOf(RawOf(i))
    BY <1>3 DEF FilesInv, OutDir
  <2>2. CASE Interpolates(RawOf(i))
    <3>1. /\ FinishOf(RawOf(i)) = [RawOf(i) EXCEPT !.frames = 2 * RawOf(i).frames - 1,
                                    !.rate = 2 * RawOf(i).rate, !.finished = TRUE]
      BY <2>2 DEF FinishOf
    <3>2. DOMAIN RawOf(i) = {"scene", "frames", "finished", "rate"}
      BY DEF RawOf
    <3>3. FinishOf(RawOf(i)).rate = 2 * RawOf(i).rate
      BY <3>1, <3>2
    <3>4. RawOf(i).rate = 1
      BY FinishKeepsScene
    <3>5. FinishOf(RawOf(i)).rate = 2
      BY <3>3, <3>4
    <3> QED BY <1>3, <2>1, <2>2, <3>5, FinishKeepsScene DEF Interpolates
  <2>3. CASE ~Interpolates(RawOf(i))
    <3>1. FinishOf(RawOf(i)) = [RawOf(i) EXCEPT !.finished = TRUE]
      BY <2>3 DEF FinishOf
    <3>2. /\ FinishOf(RawOf(i)).rate = 1 /\ FinishOf(RawOf(i)).finished = TRUE
          /\ FinishOf(RawOf(i)).frames = RawOf(i).frames
      BY <3>1 DEF RawOf
    <3> QED BY <1>3, <2>1, <2>3, <3>2 DEF Interpolates
  <2> QED BY <2>2, <2>3
<1>4. CASE ~FinishEnabled
  <2>1. files[OutDir][i] = RawOf(i)
    BY <1>4 DEF FilesInv, OutDir
  <2>2. FinishEnabled = FALSE /\ ~(job.interpolate /\ job.double)
    BY <1>4 DEF FinishEnabled, TypeOK, Job
  <2> QED BY <2>1, <2>2, FinishKeepsScene
<1> QED BY <1>3, <1>4

\* With finishing on no raw clip is delivered, and all clips with a pair of frames are
\* delivered at one rate.
THEOREM FinishedDelivered == Spec => []DeliveredAsFinished
<1>1. ASSUME FilmInv PROVE DeliveredAsFinished
  <2> USE DEF FilmInv
  <2>1. ordered \in Seq(Entry)
    BY <1>1 DEF TypeOK
  <2>2. ASSUME film # None, NEW n \in DOMAIN film.pieces
        PROVE  \E i \in Ids : files[OutDir][i] # None /\ film.pieces[n] = files[OutDir][i]
    <3>1. film = Merge
      BY <1>1, <2>2 DEF DeliveryInv
    <3>2. n \in DOMAIN ordered /\ film.pieces[n] = FileOf(ordered[n])
      BY <2>2, <3>1 DEF Merge
    <3> QED BY <1>1, <2>1, <3>2, EntryOf DEF CutInv, There, FileOf
  <2>3. ASSUME NEW i \in Ids, clipObj[i] # None
        PROVE  clipObj[i] = files[OutDir][i]
    BY <1>1, <2>3 DEF DeliveryInv
  <2> DEFINE pieces == (IF film # None THEN {film.pieces[n] : n \in DOMAIN film.pieces}
                        ELSE {}) \cup ({clipObj[i] : i \in Ids} \ {None})
  <2>4. ASSUME NEW c \in pieces
        PROVE  /\ c.finished = FinishEnabled
               /\ c.frames > 1 => c.rate = IF job.interpolate /\ job.double THEN 2 ELSE 1
    <3>1. \E i \in Ids : files[OutDir][i] # None /\ c = files[OutDir][i]
      BY <2>2, <2>3, <2>4
    <3> QED BY <1>1, <3>1, DeliveredClip
  <2> HIDE DEF pieces
  <2>5. /\ \A c \in pieces : c.finished = FinishEnabled
        /\ \A c, d \in pieces : c.frames > 1 /\ d.frames > 1 => c.rate = d.rate
    BY <2>4
  <2> QED BY <2>5 DEF DeliveredAsFinished, pieces
<1>2. FilmInv => DeliveredAsFinished
  BY <1>1
<1> QED BY <1>2, FilmInvariant, PTL
-----------------------------------------------------------------------------
(* The steps left *)

\* Steps of the job not yet taken, at most: the scenes, clips and pieces still to be
\* gone through, and what comes after them.
Left ==
    IF pc = "animate" THEN (Len(story) + 1 - at) + 3 * Len(story) + 13
    ELSE IF pc = "finish" THEN (Len(out) + 1 - at) + 2 * Len(story) + 11
    ELSE IF pc = "order" THEN (Len(story) + 1 - at) + Len(story) + 9
    ELSE IF pc = "audio" THEN Len(story) + 8
    ELSE IF pc = "deliver" THEN (Len(ordered) + 1 - at) + 6
    ELSE IF pc = "copy" THEN 5
    ELSE IF pc = "reencode" THEN 4
    ELSE IF pc = "upload" THEN 3
    ELSE IF pc = "probe" THEN 2
    ELSE IF pc = "state" THEN 1
    ELSE 0

LEMMA Counts ==
  ASSUME FilmInv
  PROVE  /\ Len(story) \in Nat /\ Len(out) \in Nat /\ Len(ordered) \in Nat
         /\ at \in Nat \ {0}
         /\ DOMAIN story = 1..Len(story) /\ DOMAIN out = 1..Len(out)
         /\ DOMAIN ordered = 1..Len(ordered)
<1>1. out \in Seq(Entry) /\ ordered \in Seq(Entry)
  BY DEF FilmInv, TypeOK
<1> QED BY <1>1, StoryTyped, BoundsAssumption, EntryOf DEF FilmInv, TypeOK

\* The cut has no more pieces than the storyboard has scenes.
LEMMA CutBound ==
  ASSUME FilmInv, pc \in {"order", "audio", "deliver"}
  PROVE  Len(ordered) <= Len(story) /\ (pc = "order" => at - 1 <= Len(story))
<1>1. Met \in 0..Len(story) /\ Len(ordered) = Place(Met)
  BY DEF FilmInv, CutInv, Late
<1>2. Met \in Nat
  BY <1>1, Counts
<1>3. Place(Met) <= Met
  BY <1>2, PlaceBound
<1>4. pc = "order" => Met = at - 1
  BY DEF Met
<1> QED BY <1>1, <1>2, <1>3, <1>4, Counts

LEMMA LeftBound ==
  ASSUME FilmInv
  PROVE  Left \in 0..(4 * Len(story) + 13)
<1>1. pc = "animate" => at - 1 <= Len(story)
  BY DEF FilmInv, OutInv
<1>2. pc = "finish" => at - 1 <= Len(out) /\ Len(out) <= Len(story)
  BY DEF FilmInv, OutInv
<1>3. pc = "deliver" => at - 1 <= Len(ordered)
  BY DEF FilmInv, DeliveryInv
<1> QED BY <1>1, <1>2, <1>3, Counts, CutBound DEF Left

\* A film job never goes back: every step, of whichever branch and with whatever
\* failures, leaves fewer to take, so a job over n scenes ends within 4n + 13.
THEOREM FilmRunsOut ==
  Spec => /\ [](Left \in 0..(4 * Len(story) + 13))
          /\ [][Left' < Left]_vars
<1>1. ASSUME FilmInv, FilmInv', Next PROVE Left' < Left
  <2> USE <1>1, Counts
  <2>1. /\ pc = "animate" => at - 1 <= Len(story)
        /\ pc = "finish" => at - 1 <= Len(out)
        /\ pc = "deliver" => at - 1 <= Len(ordered)
    BY DEF FilmInv, OutInv, DeliveryInv
  <2>2. CASE Animate
    BY <2>2 DEF Animate, fixed, Left
  <2>3. CASE SkipScene \/ DropScene
    BY <2>3 DEF SkipScene, DropScene, fixed, local, Left
  <2>4. CASE EndScenes
    BY <2>4 DEF EndScenes, fixed, local, Left, FilmInv, OutInv
  <2>5. CASE FinishClip
    BY <2>5 DEF FinishClip, fixed, Left
  <2>6. CASE EndFinish
    BY <2>6 DEF EndFinish, fixed, Left, FilmInv, OutInv
  <2>7. CASE OrderClip
    BY <2>7 DEF OrderClip, fixed, Left
  <2>8. CASE EndOrder
    BY <2>8, CutBound DEF EndOrder, fixed, local, Left
  <2>9. CASE FetchAudio
    BY <2>9, CutBound DEF FetchAudio, fixed, Left, FilmInv, DeliveryInv
  <2>10. CASE PutClip
    BY <2>10 DEF PutClip, fixed, local, Left
  <2>11. CASE PutManifest \/ NothingToMerge \/ BeginMerge
    BY <2>1, <2>11 DEF PutManifest, NothingToMerge, BeginMerge, fixed, local, Left
  <2>12. CASE \/ StreamCopy \/ Reencode \/ CopyRefused \/ ReencodeFails \/ PutFilm
              \/ ProbeFilm \/ PutState
    BY <2>12 DEF StreamCopy, Reencode, MergeSucceeds, CopyRefused, ReencodeFails,
       RedoRaises, PutFilm, ProbeFilm, PutState, Left
  <2>13. CASE StageFails \/ StoreFails \/ ProbeFails
    <3>1. /\ pc' = "failed"
          /\ pc \in {"animate", "finish", "deliver", "upload", "probe", "state"}
      BY <2>13 DEF StageFails, StoreFails, ProbeFails
    <3> QED BY <2>1, <3>1 DEF Left
  <2> QED BY <1>1, <2>2, <2>3, <2>4, <2>5, <2>6, <2>7, <2>8, <2>9, <2>10, <2>11, <2>12,
             <2>13 DEF Next
<1>2. FilmInv /\ FilmInv' /\ [Next]_vars => [Left' < Left]_vars
  BY <1>1
<1>3. FilmInv => Left \in 0..(4 * Len(story) + 13)
  BY LeftBound
<1> QED BY <1>2, <1>3, FilmInvariant, PTL DEF Spec
=============================================================================
