------------------------ MODULE WarmKeyframes_proofs ------------------------
(***************************************************************************)
(* Theorems about WarmKeyframes, for every set of scenes, slots and looks  *)
(* and every set of faults.                                                *)
(*                                                                         *)
(* The invariant has two parts.  Of a loaded pipeline, whatever it is      *)
(* doing: the few-step LoRA is attached exactly if its loader attached it, *)
(* the recorded base is that LoRA and nothing else, what is active is      *)
(* attached, and identity tokens are there during an InstantID call only.  *)
(* Of the pipeline in use: each step of render_keyframe has put what it    *)
(* is responsible for into the state a fresh pipeline would be in.         *)
(***************************************************************************)
EXTENDS WarmKeyframes, TLAPS

-----------------------------------------------------------------------------
(* The invariant *)

FewBase(q) == IF q.few THEN {Distill} ELSE {}

Sound(q) ==
    /\ q.attached[Distill] = IF q.few THEN Few ELSE None
    /\ q.base # None => q.base = FewBase(q)
    /\ q.base = None => Attached(q) = FewBase(q)
    /\ q.active \subseteq Attached(q)

PipesInv ==
    \A p \in Pipes : pipe[p] # None =>
        /\ Sound(pipe[p])
        /\ p = "instantid" => pipe[p].ip = 0
        /\ pipe[p].tokens # None => pc = "draw" /\ at = p

\* What a scene asks of a pipeline under a name.
AskedOf(s, few, n) ==
    IF n = Distill THEN IF s.few /\ few THEN Few ELSE None
    ELSE IF n \in Bound(s) THEN s.lora[n] ELSE None

Weighted(q) == [n \in Names |-> IF n \in q.active THEN q.attached[n] ELSE None]

StepInv ==
    /\ pc # "idle" => scene \in Scenes
    /\ at = "instantid" => pc # "idle" /\ UsesInstantID(scene)
    /\ pc \notin {"idle", "load"} => pipe[at] # None
    /\ pc \in {"strip", "attach", "face", "ip", "draw"} =>
         pipe[at].sched = SchedulerFor(scene.sched, Pristine)
    /\ pc \in {"attach", "face", "ip", "draw"} =>
         /\ pipe[at].base # None
         /\ todo \subseteq Bound(scene)
         /\ \A slot \in Slots :
              pipe[at].attached[slot] = IF slot \in Bound(scene) \ todo
                                        THEN scene.lora[slot] ELSE None
    /\ pc \in {"face", "ip", "draw"} =>
         \A n \in Names : Weighted(pipe[at])[n] = AskedOf(scene, pipe[at].few, n)
    /\ pc = "face" => at = "instantid"
    /\ pc = "ip" => at = "keyframe"
    /\ pc = "draw" =>
         /\ pipe[at].ip = IF at = "instantid" THEN 0 ELSE Encoders(scene)
         /\ pipe[at].tokens = IF at = "instantid" THEN scene.ref[Head(scene.chars)]
                              ELSE None

WarmInv == TypeOK /\ PipesInv /\ StepInv /\ DrawnAsAsked

-----------------------------------------------------------------------------
(* Scenes, and what is written to a pipeline *)

LEMMA SceneTyped ==
  ASSUME NEW s \in Scenes
  PROVE  /\ s \in Scene /\ s.chars \in Seq(Slots) /\ s.sched \in SchedulerNames
         /\ s.lora \in [Slots -> Looks \cup {None}]
         /\ s.ref \in [Slots -> Looks \cup {None}]
         /\ Bound(s) \subseteq Slots /\ Encoders(s) \in Nat
         /\ \A slot \in Bound(s) : s.lora[slot] \in Looks
         /\ UsesInstantID(s) => /\ Head(s.chars) \in Slots
                               /\ Engine(s) = "single"
<1>1. /\ s \in Scene /\ s.chars \in Seq(Slots) /\ s.sched \in SchedulerNames
      /\ s.lora \in [Slots -> Looks \cup {None}]
      /\ s.ref \in [Slots -> Looks \cup {None}]
  BY ScenesAssumption DEF Scene
<1>2. Shown(s) \subseteq Slots
  BY <1>1 DEF Shown
<1>3. UsesInstantID(s) => Head(s.chars) \in Slots /\ Engine(s) = "single"
  <2> SUFFICES ASSUME UsesInstantID(s) PROVE Head(s.chars) \in Slots
    BY DEF UsesInstantID
  <2>1. Shown(s) # {} /\ Engine(s) = "single"
    BY DEF UsesInstantID, Referenced
  <2>2. s.chars # <<>>
    BY <2>1 DEF Shown
  <2> QED BY <1>1, <2>2
<1>4. Encoders(s) \in Nat
  BY <1>1 DEF Encoders
<1>5. Bound(s) \subseteq Slots /\ \A slot \in Bound(s) : s.lora[slot] \in Looks
  BY <1>1, <1>2 DEF Bound
<1> QED BY <1>1, <1>3, <1>4, <1>5

LEMMA SchedulerTyped ==
  ASSUME NEW n \in SchedulerNames, NEW q
  PROVE  SchedulerFor(n, q) \in Scheduler /\ SchedulerFor(n, q) = SchedulerFor(n, Pristine)
<1>1. KindOf(n) \in Kinds /\ SettingsOf(n) \in SUBSET Settings
  BY DEF KindOf, SettingsOf, Kinds, Settings, SchedulerNames
<1> QED BY <1>1 DEF SchedulerFor, Scheduler

LEMMA PipeTyped ==
  ASSUME NEW q \in Pipe
  PROVE  /\ q.attached \in [Names -> Looks \cup {Few, None}]
         /\ q.active \in SUBSET Names /\ q.few \in BOOLEAN
         /\ q.base \in (SUBSET Names) \cup {None} /\ q.sched \in Scheduler
         /\ q.ip \in Nat /\ q.tokens \in Looks \cup {None}
         /\ q # None
BY NoneAssumption DEF Pipe

\* A pipeline written back with some of its fields changed.
LEMMA Sets ==
  ASSUME NEW q \in Pipe
  PROVE  /\ \A x \in Scheduler :
              LET r == [q EXCEPT !.sched = x]
              IN  /\ r \in Pipe /\ r.sched = x
                  /\ r.attached = q.attached /\ r.active = q.active /\ r.few = q.few
                  /\ r.base = q.base /\ r.ip = q.ip /\ r.tokens = q.tokens
         /\ \A x \in Nat :
              LET r == [q EXCEPT !.ip = x]
              IN  /\ r \in Pipe /\ r.ip = x
                  /\ r.attached = q.attached /\ r.active = q.active /\ r.few = q.few
                  /\ r.base = q.base /\ r.sched = q.sched /\ r.tokens = q.tokens
         /\ \A x \in Looks \cup {None} :
              LET r == [q EXCEPT !.tokens = x]
              IN  /\ r \in Pipe /\ r.tokens = x
                  /\ r.attached = q.attached /\ r.active = q.active /\ r.few = q.few
                  /\ r.base = q.base /\ r.sched = q.sched /\ r.ip = q.ip
         /\ \A x \in SUBSET Names :
              LET r == [q EXCEPT !.active = x]
              IN  /\ r \in Pipe /\ r.active = x
                  /\ r.attached = q.attached /\ r.few = q.few /\ r.base = q.base
                  /\ r.sched = q.sched /\ r.ip = q.ip /\ r.tokens = q.tokens
<1> QED BY DEF Pipe

-----------------------------------------------------------------------------
(* Steps *)

LEMMA InUse ==
  ASSUME WarmInv, pc \notin {"idle", "load"}
  PROVE  /\ at \in Pipes /\ pipe[at] \in Pipe /\ Sound(pipe[at])
         /\ scene \in Scenes /\ (at = "instantid" => pipe[at].ip = 0)
         /\ pc # "draw" => pipe[at].tokens = None
BY DEF WarmInv, TypeOK, StepInv, PipesInv

\* A step that writes a sound pipeline back.
LEMMA SetKeeps ==
  ASSUME WarmInv, NEW r \in Pipe, Set(at, r), Sound(r),
         at = "instantid" => r.ip = 0,
         r.tokens # None => pc' = "draw" /\ at' = at
  PROVE  /\ PipesInv' /\ pipe' \in [Pipes -> Pipe \cup {None}]
         /\ pipe'[at] = r
<1>1. /\ at \in Pipes /\ pipe' \in [Pipes -> Pipe \cup {None}] /\ pipe'[at] = r
      /\ \A p \in Pipes \ {at} : pipe'[p] = pipe[p]
  BY DEF WarmInv, TypeOK, Set
<1>2. ASSUME NEW p \in Pipes, pipe'[p] # None
      PROVE  /\ Sound(pipe'[p]) /\ (p = "instantid" => pipe'[p].ip = 0)
             /\ (pipe'[p].tokens # None => pc' = "draw" /\ at' = p)
  <2>1. CASE p = at
    BY <1>1, <2>1
  <2>2. CASE p # at
    BY <1>1, <1>2, <2>2 DEF WarmInv, PipesInv
  <2> QED BY <2>1, <2>2
<1>3. PipesInv'
  BY <1>2 DEF PipesInv, Sound, FewBase, Attached
<1> QED BY <1>1, <1>3

LEMMA KeepPipes ==
  ASSUME WarmInv, UNCHANGED pipe, pc = "draw" => pipe[at].tokens = None
  PROVE  PipesInv' /\ pipe' \in [Pipes -> Pipe \cup {None}]
BY DEF WarmInv, TypeOK, PipesInv

\* The job fails, and leaves sound pipelines behind.
LEMMA RaiseKeeps ==
  ASSUME WarmInv, NEW from, Raise(from), PipesInv',
         pipe' \in [Pipes -> Pipe \cup {None}]
  PROVE  WarmInv'
BY DEF Raise, WarmInv, TypeOK, StepInv, DrawnAsAsked, Pipes

LEMMA StepsKeep ==
  ASSUME WarmInv, PipesInv', StepInv',
         pipe' \in [Pipes -> Pipe \cup {None}],
         pc' \in {"load", "sched", "strip", "attach", "face", "ip", "draw"},
         scene' \in Scenes, at' \in Pipes, todo' \in SUBSET Slots,
         drawn' \in {None, drawn}
  PROVE  WarmInv'
<1>1. TypeOK'
  BY DEF WarmInv, TypeOK
<1>2. drawn' = None \/ drawn' = Asked(drawn')
  BY DEF WarmInv, DrawnAsAsked
<1> QED BY <1>1, <1>2 DEF WarmInv, DrawnAsAsked, Asked

LEMMA LoadedSound ==
  ASSUME NEW few \in BOOLEAN
  PROVE  /\ Loaded(few) \in Pipe /\ Sound(Loaded(few))
         /\ Loaded(few).ip = 0 /\ Loaded(few).tokens = None
<1> DEFINE a == [n \in Names |-> IF n = Distill /\ few THEN Few ELSE None]
           b == IF few THEN {Distill} ELSE {}
<1>1. /\ a \in [Names -> Looks \cup {Few, None}] /\ b \in SUBSET Names
      /\ Distill \in Names /\ a[Distill] = IF few THEN Few ELSE None
      /\ b = {n \in Names : a[n] # None}
  BY ScenesAssumption DEF Names
<1>2. Pristine \in Scheduler
  BY DEF Pristine, Scheduler, Kinds
<1> HIDE DEF a, b
<1>3. Loaded(few) = [attached |-> a, active |-> b, few |-> few, base |-> None,
                     sched |-> Pristine, ip |-> 0, tokens |-> None]
  BY DEF Loaded, a, b
<1>4. /\ Loaded(few) \in Pipe /\ Loaded(few).attached = a /\ Loaded(few).active = b
      /\ Loaded(few).few = few /\ Loaded(few).base = None
      /\ Loaded(few).ip = 0 /\ Loaded(few).tokens = None
  BY <1>1, <1>2, <1>3 DEF Pipe
<1>5. Attached(Loaded(few)) = b /\ FewBase(Loaded(few)) = b
  BY <1>1, <1>4 DEF Attached, FewBase, b
<1> QED BY <1>1, <1>4, <1>5 DEF Sound

\* Sampler, encoders and tokens have no part in soundness.
LEMMA SoundSame ==
  ASSUME NEW q, NEW r, Sound(q), r.attached = q.attached, r.active = q.active,
         r.few = q.few, r.base = q.base
  PROVE  Sound(r) /\ Weighted(r) = Weighted(q)
BY DEF Sound, FewBase, Attached, Weighted

\* The steps that bind adapters.
LEMMA StripSound ==
  ASSUME NEW q \in Pipe, Sound(q)
  PROVE  LET r == [q EXCEPT
                     !.base = BaseOf(q),
                     !.attached = [n \in Names |->
                                     IF n \in Stale(q) THEN None ELSE q.attached[n]],
                     !.active = q.active \ Stale(q)]
         IN  /\ r \in Pipe /\ Sound(r) /\ r.base # None
             /\ r.sched = q.sched /\ r.ip = q.ip /\ r.tokens = q.tokens
             /\ \A slot \in Slots : r.attached[slot] = None
<1> DEFINE a == [n \in Names |-> IF n \in Stale(q) THEN None ELSE q.attached[n]]
           y == q.active \ Stale(q)
           r == [q EXCEPT !.base = BaseOf(q), !.attached = a, !.active = y]
<1>1. /\ q.attached \in [Names -> Looks \cup {Few, None}] /\ q.active \in SUBSET Names
      /\ q.few \in BOOLEAN
  BY PipeTyped
<1>2. BaseOf(q) = FewBase(q) /\ FewBase(q) \in SUBSET Names /\ FewBase(q) # None
  BY NoneAssumption DEF BaseOf, Sound, FewBase, Names
<1>3. a \in [Names -> Looks \cup {Few, None}] /\ y \in SUBSET Names
  BY <1>1
<1>4. \A slot \in Slots : a[slot] = None
  BY <1>2, ScenesAssumption DEF Stale, Attached, FewBase, Names
<1>5. a[Distill] = IF q.few THEN Few ELSE None
  BY <1>2 DEF Stale, Attached, FewBase, Names, Sound
<1>6. y \subseteq {n \in Names : a[n] # None}
  BY <1>1 DEF Stale, Attached, Sound
<1> DEFINE b == BaseOf(q)
<1>b. b \in SUBSET Names
  BY <1>2
<1>r. r = [q EXCEPT !.base = b, !.attached = a, !.active = y]
  OBVIOUS
<1> HIDE DEF a, y, b
<1>7. /\ r \in Pipe /\ r.attached = a /\ r.base = b /\ r.active = y
      /\ r.few = q.few /\ r.sched = q.sched /\ r.ip = q.ip /\ r.tokens = q.tokens
  BY <1>3, <1>b, <1>r DEF Pipe
<1> HIDE DEF r
<1>8. Sound(r)
  BY <1>2, <1>5, <1>6, <1>7 DEF Sound, FewBase, Attached, b
<1>9. r.base # None /\ \A slot \in Slots : r.attached[slot] = None
  BY <1>2, <1>4, <1>7, ScenesAssumption DEF b, Names
<1> QED BY <1>7, <1>8, <1>9 DEF r, a, y

LEMMA AttachSound ==
  ASSUME NEW q \in Pipe, Sound(q), NEW slot \in Slots, NEW look \in Looks,
         q.attached[slot] = None, q.base # None
  PROVE  LET r == [q EXCEPT !.attached[slot] = look]
         IN  /\ r \in Pipe /\ Sound(r)
             /\ r.sched = q.sched /\ r.ip = q.ip /\ r.tokens = q.tokens
             /\ r.base = q.base
             /\ r.attached = [q.attached EXCEPT ![slot] = look]
<1> DEFINE a == [q.attached EXCEPT ![slot] = look]
           r == [q EXCEPT !.attached[slot] = look]
<1>1. /\ q.attached \in [Names -> Looks \cup {Few, None}] /\ q.active \in SUBSET Names
      /\ q.few \in BOOLEAN
  BY PipeTyped
<1>2. slot \in Names /\ slot # Distill /\ look # None
  BY ScenesAssumption DEF Names
<1>3. a \in [Names -> Looks \cup {Few, None}] /\ a[Distill] = q.attached[Distill]
  BY <1>1, <1>2
<1>4. \A n \in Names : q.attached[n] # None => a[n] # None
  BY <1>1, <1>2
<1> HIDE DEF a
<1>5. r = [q EXCEPT !.attached = a]
  BY DEF Pipe, a
<1>6. /\ r \in Pipe /\ r.attached = a /\ r.base = q.base /\ r.active = q.active
      /\ r.few = q.few /\ r.sched = q.sched /\ r.ip = q.ip /\ r.tokens = q.tokens
  BY <1>3, <1>5 DEF Pipe
<1> HIDE DEF r
<1>7. Sound(r)
  BY <1>1, <1>3, <1>4, <1>6 DEF Sound, FewBase, Attached
<1> QED BY <1>6, <1>7 DEF r, a

\* set_adapters weights exactly what the scene asks for, ...
LEMMA ActivateSound ==
  ASSUME NEW q \in Pipe, Sound(q), NEW s \in Scenes, q.base # None,
         \A slot \in Slots :
           q.attached[slot] = IF slot \in Bound(s) THEN s.lora[slot] ELSE None
  PROVE  LET r == [q EXCEPT !.active = Active(q, s)]
         IN  /\ r \in Pipe /\ Sound(r) /\ r.base # None /\ r.few = q.few
             /\ r.sched = q.sched /\ r.ip = q.ip /\ r.tokens = q.tokens
             /\ r.attached = q.attached
             /\ \A n \in Names : Weighted(r)[n] = AskedOf(s, q.few, n)
<1> DEFINE y == Active(q, s)
           r == [q EXCEPT !.active = y]
<1>1. /\ q.attached \in [Names -> Looks \cup {Few, None}] /\ q.active \in SUBSET Names
      /\ q.few \in BOOLEAN
  BY PipeTyped
<1>2. /\ Bound(s) \subseteq Slots /\ \A slot \in Bound(s) : s.lora[slot] \in Looks
      /\ None \notin Looks /\ Few # None /\ Distill \notin Slots
      /\ Names = Slots \cup {Distill}
  BY SceneTyped, ScenesAssumption DEF Names
<1>3. /\ q.base = FewBase(q) /\ q.active \subseteq Attached(q)
      /\ q.attached[Distill] = IF q.few THEN Few ELSE None
  BY DEF Sound
<1>4. Attached(q) = FewBase(q) \cup Bound(s)
  BY <1>1, <1>2, <1>3 DEF Attached, FewBase
<1>5. y = (IF s.few THEN FewBase(q) ELSE {}) \cup Bound(s)
  <2>1. CASE q.base \cup Bound(s) = {}
    <3>1. FewBase(q) = {} /\ Bound(s) = {} /\ q.active = {}
      BY <1>3, <1>4, <2>1
    <3> QED BY <2>1, <3>1 DEF Active
  <2>2. CASE q.base \cup Bound(s) # {}
    BY <1>3, <2>2 DEF Active, FewBase
  <2> QED BY <2>1, <2>2
<1>6. y \in SUBSET Names /\ y \subseteq Attached(q)
  BY <1>2, <1>4, <1>5 DEF Attached, FewBase
<1> HIDE DEF y
<1>7. /\ r \in Pipe /\ r.attached = q.attached /\ r.base = q.base /\ r.active = y
      /\ r.few = q.few /\ r.sched = q.sched /\ r.ip = q.ip /\ r.tokens = q.tokens
  BY <1>6, Sets
<1> HIDE DEF r
<1>8. Sound(r)
  BY <1>3, <1>6, <1>7 DEF Sound, FewBase, Attached
<1>9. ASSUME NEW n \in Names
      PROVE  Weighted(r)[n] = AskedOf(s, q.few, n)
  <2>1. Weighted(r)[n] = IF n \in y THEN q.attached[n] ELSE None
    BY <1>7 DEF Weighted
  <2>2. CASE n = Distill
    BY <1>2, <1>3, <1>5, <2>1, <2>2 DEF FewBase, AskedOf
  <2>3. CASE n # Distill
    BY <1>2, <1>5, <2>1, <2>3 DEF FewBase, AskedOf
  <2> QED BY <2>2, <2>3
<1> QED BY <1>7, <1>8, <1>9 DEF r, y

\* ... and the call then injects what a fresh pipeline would have injected.
LEMMA DrawsAsAsked ==
  ASSUME WarmInv, pc = "draw"
  PROVE  Injected \in Drawn /\ Injected = Asked(Injected)
<1> DEFINE q == pipe[at]
<1>1. /\ at \in Pipes /\ q \in Pipe /\ scene \in Scenes /\ scene \in Scene
  BY InUse, SceneTyped
<1>2. /\ q.sched = SchedulerFor(scene.sched, Pristine)
      /\ \A n \in Names : Weighted(q)[n] = AskedOf(scene, q.few, n)
      /\ q.ip = IF at = "instantid" THEN 0 ELSE Encoders(scene)
      /\ q.tokens = IF at = "instantid" THEN scene.ref[Head(scene.chars)] ELSE None
  BY DEF WarmInv, StepInv
<1>3. Weighted(q) = [n \in Names |-> AskedOf(scene, q.few, n)]
  BY <1>2 DEF Weighted
<1>4. Injected = [scene |-> scene, on |-> at, few |-> q.few, sched |-> q.sched,
                  ip |-> q.ip, adapters |-> Weighted(q), tokens |-> q.tokens]
  BY DEF Injected, Weighted
<1>5. /\ Injected.scene = scene /\ Injected.on = at /\ Injected.few = q.few
  BY <1>4
<1>6. Injected = Asked(Injected)
  <2>1. Asked(Injected) =
          [scene |-> scene, on |-> at, few |-> q.few,
           sched |-> SchedulerFor(scene.sched, Pristine),
           ip |-> IF at = "instantid" THEN 0 ELSE Encoders(scene),
           adapters |-> [n \in Names |-> AskedOf(scene, q.few, n)],
           tokens |-> IF at = "instantid" THEN scene.ref[Head(scene.chars)] ELSE None]
    <3> HIDE DEF q
    <3> QED BY <1>5 DEF Asked, AskedOf
  <2> HIDE DEF q
  <2> QED BY <1>2, <1>3, <1>4, <2>1
<1>7. Injected \in Drawn
  <2>1. Weighted(q) \in [Names -> Looks \cup {Few, None}]
    BY <1>1, PipeTyped DEF Weighted
  <2>2. /\ q.few \in BOOLEAN /\ q.sched \in Scheduler /\ q.ip \in Nat
        /\ q.tokens \in Looks \cup {None}
    BY <1>1, PipeTyped
  <2> HIDE DEF q
  <2> QED BY <1>1, <1>4, <2>1, <2>2 DEF Drawn
<1> QED BY <1>6, <1>7

LEMMA InitWarm == Init => WarmInv
<1> SUFFICES ASSUME Init PROVE WarmInv
  OBVIOUS
<1>1. TypeOK
  BY DEF Init, TypeOK, Pipes
<1> QED BY <1>1 DEF Init, WarmInv, PipesInv, StepInv, DrawnAsAsked, Pipes

-----------------------------------------------------------------------------
(* Every step keeps the invariant *)

LEMMA BeginKeeps == ASSUME WarmInv, Begin PROVE WarmInv'
<1>1. /\ pc = "idle" /\ pc' = "load" /\ scene' \in Scenes /\ at' \in Pipes
      /\ at' = "instantid" => UsesInstantID(scene')
      /\ UNCHANGED pipe /\ todo' = todo /\ drawn' = None
  BY DEF Begin, Goto, Pipes
<1>2. PipesInv' /\ pipe' \in [Pipes -> Pipe \cup {None}]
  BY <1>1, KeepPipes
<1>3. StepInv'
  BY <1>1 DEF StepInv
<1> QED BY <1>1, <1>2, <1>3, StepsKeep DEF WarmInv, TypeOK

LEMMA LoadKeeps == ASSUME WarmInv, LoadPipe PROVE WarmInv'
<1>1. /\ pc = "load" /\ pc' = "sched" /\ UNCHANGED <<scene, at, todo, drawn>>
      /\ scene \in Scenes /\ at \in Pipes /\ todo \in SUBSET Slots
      /\ at = "instantid" => UsesInstantID(scene)
  BY DEF LoadPipe, Goto, WarmInv, TypeOK, StepInv
<1>2. PipesInv' /\ pipe' \in [Pipes -> Pipe \cup {None}] /\ pipe'[at] # None
  <2>1. CASE pipe[at] # None /\ UNCHANGED pipe
    BY <1>1, <2>1, KeepPipes
  <2>2. ASSUME NEW few \in BOOLEAN, Set(at, Loaded(few))
        PROVE  PipesInv' /\ pipe' \in [Pipes -> Pipe \cup {None}] /\ pipe'[at] # None
    BY <2>2, LoadedSound, SetKeeps, PipeTyped
  <2> QED BY <2>1, <2>2 DEF LoadPipe
<1>3. StepInv'
  BY <1>1, <1>2 DEF StepInv
<1> QED BY <1>1, <1>2, <1>3, StepsKeep

LEMMA SchedulerKeeps == ASSUME WarmInv, ApplyScheduler PROVE WarmInv'
<1> DEFINE q == pipe[at]
           x == SchedulerFor(scene.sched, q.sched)
           r == [q EXCEPT !.sched = x]
<1>1. /\ pc = "sched" /\ pc' = "strip" /\ UNCHANGED <<scene, at, todo, drawn>>
      /\ Set(at, r) /\ todo \in SUBSET Slots
      /\ at = "instantid" => UsesInstantID(scene)
  BY DEF ApplyScheduler, Goto, WarmInv, TypeOK, StepInv
<1>2. /\ at \in Pipes /\ q \in Pipe /\ Sound(q) /\ scene \in Scenes
      /\ at = "instantid" => q.ip = 0
      /\ q.tokens = None
  BY <1>1, InUse
<1>3. x \in Scheduler /\ x = SchedulerFor(scene.sched, Pristine)
  BY <1>2, SceneTyped, SchedulerTyped
<1> HIDE DEF q, x
<1>4. /\ r \in Pipe /\ r.sched = x
      /\ r.attached = q.attached /\ r.active = q.active /\ r.few = q.few
      /\ r.base = q.base /\ r.ip = q.ip /\ r.tokens = q.tokens
  BY <1>2, <1>3, Sets
<1> HIDE DEF r
<1>5. Sound(r)
  BY <1>2, <1>4, SoundSame
<1>6. PipesInv' /\ pipe' \in [Pipes -> Pipe \cup {None}] /\ pipe'[at] = r /\ r # None
  BY <1>1, <1>2, <1>4, <1>5, SetKeeps, PipeTyped
<1>7. StepInv'
  BY <1>1, <1>2, <1>3, <1>4, <1>6 DEF StepInv
<1> QED BY <1>1, <1>2, <1>6, <1>7, StepsKeep

LEMMA StripKeeps == ASSUME WarmInv, StripStale PROVE WarmInv'
<1> DEFINE q == pipe[at]
           r == [q EXCEPT
                  !.base = BaseOf(q),
                  !.attached = [n \in Names |->
                                  IF n \in Stale(q) THEN None ELSE q.attached[n]],
                  !.active = q.active \ Stale(q)]
<1>1. /\ pc = "strip" /\ pc' = "attach" /\ UNCHANGED <<scene, at, drawn>>
      /\ todo' = Bound(scene) /\ Set(at, r)
      /\ at = "instantid" => UsesInstantID(scene)
      /\ q.sched = SchedulerFor(scene.sched, Pristine)
  BY DEF StripStale, Goto, WarmInv, StepInv
<1>2. /\ at \in Pipes /\ q \in Pipe /\ Sound(q) /\ scene \in Scenes
      /\ at = "instantid" => q.ip = 0
      /\ q.tokens = None /\ Bound(scene) \subseteq Slots
  BY <1>1, InUse, SceneTyped
<1> HIDE DEF q
<1>3. /\ r \in Pipe /\ Sound(r) /\ r.base # None
      /\ r.sched = q.sched /\ r.ip = q.ip /\ r.tokens = q.tokens
      /\ \A slot \in Slots : r.attached[slot] = None
  BY <1>2, StripSound
<1> HIDE DEF r
<1>4. PipesInv' /\ pipe' \in [Pipes -> Pipe \cup {None}] /\ pipe'[at] = r /\ r # None
  BY <1>1, <1>2, <1>3, SetKeeps, PipeTyped
<1>5. StepInv'
  BY <1>1, <1>2, <1>3, <1>4 DEF StepInv
<1> QED BY <1>1, <1>2, <1>4, <1>5, StepsKeep

LEMMA AttachKeeps == ASSUME WarmInv, AttachLora PROVE WarmInv'
<1> DEFINE q == pipe[at]
<1>1. PICK slot \in todo :
         /\ q.attached[slot] = None
         /\ Set(at, [q EXCEPT !.attached[slot] = scene.lora[slot]])
         /\ todo' = todo \ {slot}
  BY DEF AttachLora
<1> DEFINE r == [q EXCEPT !.attached[slot] = scene.lora[slot]]
<1>2. /\ pc = "attach" /\ pc' = "attach" /\ UNCHANGED <<scene, at, drawn>>
      /\ at = "instantid" => UsesInstantID(scene)
      /\ q.sched = SchedulerFor(scene.sched, Pristine)
      /\ q.base # None /\ todo \subseteq Bound(scene)
      /\ \A c \in Slots : q.attached[c] = IF c \in Bound(scene) \ todo
                                          THEN scene.lora[c] ELSE None
  BY DEF AttachLora, WarmInv, StepInv
<1>3. /\ at \in Pipes /\ q \in Pipe /\ Sound(q) /\ scene \in Scenes
      /\ at = "instantid" => q.ip = 0
      /\ q.tokens = None /\ Bound(scene) \subseteq Slots
      /\ \A c \in Bound(scene) : scene.lora[c] \in Looks
  BY <1>2, InUse, SceneTyped
<1>4. slot \in Slots /\ slot \in Bound(scene) /\ scene.lora[slot] \in Looks
      /\ slot \in Names
  BY <1>2, <1>3 DEF Names
<1>5. q.attached \in [Names -> Looks \cup {Few, None}]
  BY <1>3, PipeTyped
<1>s. Set(at, r) /\ todo' = todo \ {slot} /\ q.attached[slot] = None
  BY <1>1
<1> HIDE DEF q
<1>6. /\ r \in Pipe /\ Sound(r) /\ r.base = q.base
      /\ r.sched = q.sched /\ r.ip = q.ip /\ r.tokens = q.tokens
      /\ r.attached = [q.attached EXCEPT ![slot] = scene.lora[slot]]
  BY <1>2, <1>3, <1>4, <1>s, AttachSound
<1> HIDE DEF r
<1>7. PipesInv' /\ pipe' \in [Pipes -> Pipe \cup {None}] /\ pipe'[at] = r /\ r # None
  BY <1>s, <1>2, <1>3, <1>6, SetKeeps, PipeTyped
<1>8. \A c \in Slots : r.attached[c] = IF c \in Bound(scene) \ (todo \ {slot})
                                      THEN scene.lora[c] ELSE None
  BY <1>2, <1>4, <1>5, <1>6 DEF Names
<1>9. StepInv'
  BY <1>s, <1>2, <1>3, <1>6, <1>7, <1>8 DEF StepInv
<1> QED BY <1>s, <1>2, <1>3, <1>7, <1>9, StepsKeep

LEMMA ActivateKeeps == ASSUME WarmInv, Activate PROVE WarmInv'
<1> DEFINE q == pipe[at]
           r == [q EXCEPT !.active = Active(q, scene)]
<1>1. /\ pc = "attach" /\ UNCHANGED <<scene, at, todo, drawn>> /\ todo = {}
      /\ pc' = IF at = "instantid" THEN "face" ELSE "ip"
      /\ Set(at, r)
      /\ at = "instantid" => UsesInstantID(scene)
      /\ q.sched = SchedulerFor(scene.sched, Pristine) /\ q.base # None
      /\ \A c \in Slots : q.attached[c] = IF c \in Bound(scene) \ {}
                                          THEN scene.lora[c] ELSE None
  BY DEF Activate, Goto, WarmInv, StepInv
<1>2. /\ at \in Pipes /\ q \in Pipe /\ Sound(q) /\ scene \in Scenes
      /\ at = "instantid" => q.ip = 0
      /\ q.tokens = None
  BY <1>1, InUse
<1> HIDE DEF q
<1>3. /\ r \in Pipe /\ Sound(r) /\ r.base # None /\ r.few = q.few
      /\ r.sched = q.sched /\ r.ip = q.ip /\ r.tokens = q.tokens
      /\ r.attached = q.attached
      /\ \A n \in Names : Weighted(r)[n] = AskedOf(scene, q.few, n)
  BY <1>1, <1>2, ActivateSound
<1> HIDE DEF r
<1>4. PipesInv' /\ pipe' \in [Pipes -> Pipe \cup {None}] /\ pipe'[at] = r /\ r # None
  BY <1>1, <1>2, <1>3, SetKeeps, PipeTyped
<1>5. \A n \in Names : Weighted(pipe'[at])[n] = AskedOf(scene, pipe'[at].few, n)
  BY <1>3, <1>4
<1>6. pc' \in {"face", "ip"} /\ (pc' = "face" => at = "instantid")
      /\ (pc' = "ip" => at = "keyframe")
  BY <1>1, <1>2 DEF Pipes
<1>7. StepInv'
  BY <1>1, <1>2, <1>3, <1>4, <1>5, <1>6 DEF StepInv, Weighted, AskedOf
<1> QED BY <1>1, <1>2, <1>4, <1>6, <1>7, StepsKeep

LEMMA FaceFoundKeeps == ASSUME WarmInv, FaceFound PROVE WarmInv'
<1> DEFINE q == pipe[at]
           x == scene.ref[Head(scene.chars)]
           r == [q EXCEPT !.tokens = x]
<1>1. /\ pc = "face" /\ pc' = "draw" /\ UNCHANGED <<scene, at, todo, drawn>>
      /\ Set(at, r) /\ at = "instantid" /\ UsesInstantID(scene)
      /\ q.sched = SchedulerFor(scene.sched, Pristine) /\ q.base # None
      /\ todo \subseteq Bound(scene)
      /\ \A c \in Slots : q.attached[c] = IF c \in Bound(scene) \ todo
                                          THEN scene.lora[c] ELSE None
      /\ \A n \in Names : Weighted(q)[n] = AskedOf(scene, q.few, n)
  BY DEF FaceFound, Goto, WarmInv, StepInv
<1>2. /\ at \in Pipes /\ q \in Pipe /\ Sound(q) /\ scene \in Scenes /\ q.ip = 0
      /\ todo \in SUBSET Slots
  BY <1>1, InUse DEF WarmInv, TypeOK
<1>3. x \in Looks \cup {None}
  BY <1>1, <1>2, SceneTyped
<1> HIDE DEF q, x
<1>4. /\ r \in Pipe /\ r.tokens = x
      /\ r.attached = q.attached /\ r.active = q.active /\ r.few = q.few
      /\ r.base = q.base /\ r.sched = q.sched /\ r.ip = q.ip
  BY <1>2, <1>3, Sets
<1> HIDE DEF r
<1>5. Sound(r) /\ Weighted(r) = Weighted(q)
  BY <1>2, <1>4, SoundSame
<1>6. PipesInv' /\ pipe' \in [Pipes -> Pipe \cup {None}] /\ pipe'[at] = r /\ r # None
  BY <1>1, <1>2, <1>4, <1>5, SetKeeps, PipeTyped
<1>7. \A n \in Names : Weighted(pipe'[at])[n] = AskedOf(scene, pipe'[at].few, n)
  BY <1>1, <1>4, <1>5, <1>6
<1>8. StepInv'
  BY <1>1, <1>2, <1>4, <1>6, <1>7 DEF StepInv, Weighted, AskedOf, x
<1> QED BY <1>1, <1>2, <1>6, <1>8, StepsKeep

LEMMA NoFaceKeeps == ASSUME WarmInv, NoFace PROVE WarmInv'
<1>1. /\ pc = "face" /\ pc' = "load" /\ at' = "keyframe"
      /\ UNCHANGED <<pipe, scene, todo, drawn>> /\ scene \in Scenes
      /\ todo \in SUBSET Slots
  BY DEF NoFace, Goto, WarmInv, StepInv, TypeOK
<1>2. PipesInv' /\ pipe' \in [Pipes -> Pipe \cup {None}]
  BY <1>1, KeepPipes
<1>3. StepInv'
  BY <1>1 DEF StepInv
<1> QED BY <1>1, <1>2, <1>3, StepsKeep DEF Pipes

LEMMA EncodersKeep == ASSUME WarmInv, EncodersReady PROVE WarmInv'
<1> DEFINE q == pipe[at]
           x == IF EnoughEncoders(q.ip, Encoders(scene)) THEN q.ip ELSE Encoders(scene)
           r == [q EXCEPT !.ip = x]
<1>1. /\ pc = "ip" /\ pc' = "draw" /\ UNCHANGED <<scene, at, todo, drawn>>
      /\ Set(at, r) /\ at = "keyframe"
      /\ q.sched = SchedulerFor(scene.sched, Pristine) /\ q.base # None
      /\ todo \subseteq Bound(scene)
      /\ \A c \in Slots : q.attached[c] = IF c \in Bound(scene) \ todo
                                          THEN scene.lora[c] ELSE None
      /\ \A n \in Names : Weighted(q)[n] = AskedOf(scene, q.few, n)
  BY DEF EncodersReady, Goto, WarmInv, StepInv
<1>2. /\ at \in Pipes /\ q \in Pipe /\ Sound(q) /\ scene \in Scenes
      /\ q.tokens = None /\ todo \in SUBSET Slots
  BY <1>1, InUse DEF WarmInv, TypeOK
<1>3. x = Encoders(scene) /\ x \in Nat
  BY <1>2, SceneTyped DEF EnoughEncoders
<1> HIDE DEF q, x
<1>4. /\ r \in Pipe /\ r.ip = x
      /\ r.attached = q.attached /\ r.active = q.active /\ r.few = q.few
      /\ r.base = q.base /\ r.sched = q.sched /\ r.tokens = q.tokens
  BY <1>2, <1>3, Sets
<1> HIDE DEF r
<1>5. Sound(r) /\ Weighted(r) = Weighted(q)
  BY <1>2, <1>4, SoundSame
<1>6. PipesInv' /\ pipe' \in [Pipes -> Pipe \cup {None}] /\ pipe'[at] = r /\ r # None
  BY <1>1, <1>2, <1>4, <1>5, SetKeeps, PipeTyped
<1>7. \A n \in Names : Weighted(pipe'[at])[n] = AskedOf(scene, pipe'[at].few, n)
  BY <1>1, <1>4, <1>5, <1>6
<1>8. StepInv'
  BY <1>1, <1>2, <1>3, <1>4, <1>6, <1>7 DEF StepInv, Weighted, AskedOf
<1> QED BY <1>1, <1>2, <1>6, <1>8, StepsKeep

LEMMA EncodersFailKeeps == ASSUME WarmInv, EncodersFail PROVE WarmInv'
<1> DEFINE q == pipe[at]
           r == [q EXCEPT !.ip = 0]
<1>1. pc = "ip" /\ Raise("ip") /\ Set(at, r)
  BY DEF EncodersFail, Raise
<1>2. at \in Pipes /\ q \in Pipe /\ Sound(q) /\ q.tokens = None
  BY <1>1, InUse
<1> HIDE DEF q
<1>3. /\ r \in Pipe /\ r.ip = 0
      /\ r.attached = q.attached /\ r.active = q.active /\ r.few = q.few
      /\ r.base = q.base /\ r.tokens = q.tokens
  BY <1>2, Sets
<1> HIDE DEF r
<1>4. Sound(r)
  BY <1>2, <1>3, SoundSame
<1>5. PipesInv' /\ pipe' \in [Pipes -> Pipe \cup {None}]
  BY <1>1, <1>2, <1>3, <1>4, SetKeeps
<1> QED BY <1>1, <1>5, RaiseKeeps

LEMMA ActivateFailKeeps == ASSUME WarmInv, ActivateFails PROVE WarmInv'
<1> DEFINE q == pipe[at]
<1>1. PICK y \in SUBSET Attached(q) : Set(at, [q EXCEPT !.active = y])
  BY DEF ActivateFails
<1> DEFINE r == [q EXCEPT !.active = y]
<1>2. pc = "attach" /\ Raise("attach") /\ Set(at, r)
  BY <1>1 DEF ActivateFails, Raise
<1>3. at \in Pipes /\ q \in Pipe /\ Sound(q) /\ q.tokens = None
      /\ (at = "instantid" => q.ip = 0)
  BY <1>2, InUse
<1>4. y \in SUBSET Names /\ y \subseteq Attached(q)
  BY DEF Attached
<1> HIDE DEF q
<1>5. /\ r \in Pipe /\ r.active = y
      /\ r.attached = q.attached /\ r.few = q.few /\ r.base = q.base
      /\ r.ip = q.ip /\ r.tokens = q.tokens
  BY <1>3, <1>4, Sets
<1> HIDE DEF r
<1>6. Sound(r)
  BY <1>3, <1>4, <1>5 DEF Sound, FewBase, Attached
<1>7. PipesInv' /\ pipe' \in [Pipes -> Pipe \cup {None}]
  BY <1>2, <1>3, <1>5, <1>6, SetKeeps
<1> QED BY <1>2, <1>7, RaiseKeeps

\* A scene that goes with nothing written to its pipeline.
LEMMA RaisesKeep ==
  ASSUME WarmInv, LoadFails \/ AttachFails \/ FaceFails \/ ReferenceBroken
                  \/ ReferenceMissing
  PROVE  WarmInv'
<1>1. ASSUME NEW from, Raise(from), UNCHANGED pipe, pc = "draw" => pipe[at].tokens = None
      PROVE  WarmInv'
  <2>1. PipesInv' /\ pipe' \in [Pipes -> Pipe \cup {None}]
    BY <1>1, KeepPipes
  <2> QED BY <1>1, <2>1, RaiseKeeps
<1>2. CASE LoadFails
  BY <1>1, <1>2 DEF LoadFails, Raise
<1>3. CASE AttachFails
  BY <1>1, <1>3 DEF AttachFails, Raise
<1>4. CASE FaceFails
  BY <1>1, <1>4 DEF FaceFails, Raise
<1>5. ASSUME Raise("draw"), UNCHANGED pipe, Engine(scene) = "regional" PROVE WarmInv'
  <2>1. pc = "draw"
    BY <1>5 DEF Raise
  <2>2. at # "instantid"
    BY <1>5, <2>1 DEF WarmInv, StepInv, UsesInstantID
  <2>3. pipe[at].tokens = None
    BY <2>1, <2>2 DEF WarmInv, StepInv
  <2> QED BY <1>1, <1>5, <2>3
<1>6. CASE ReferenceBroken
  BY <1>1, <1>5, <1>6 DEF ReferenceBroken, Raise
<1>7. CASE ReferenceMissing
  BY <1>5, <1>7 DEF ReferenceMissing
<1> QED BY <1>2, <1>3, <1>4, <1>6, <1>7

\* The call, or its failure, clears the tokens.
LEMMA Cleared ==
  ASSUME WarmInv, pc = "draw", Set(at, ClearTokens(pipe[at]))
  PROVE  PipesInv' /\ pipe' \in [Pipes -> Pipe \cup {None}]
<1> DEFINE q == pipe[at]
           r == [q EXCEPT !.tokens = None]
<1>1. /\ at \in Pipes /\ q \in Pipe /\ Sound(q) /\ Set(at, r)
      /\ at = "instantid" => q.ip = 0
  BY InUse DEF ClearTokens
<1> HIDE DEF q
<1>2. /\ r \in Pipe /\ r.tokens = None
      /\ r.attached = q.attached /\ r.active = q.active /\ r.few = q.few
      /\ r.base = q.base /\ r.ip = q.ip
  BY <1>1, Sets
<1> HIDE DEF r
<1>3. Sound(r)
  BY <1>1, <1>2, SoundSame
<1> QED BY <1>1, <1>2, <1>3, SetKeeps

LEMMA DrawKeeps == ASSUME WarmInv, Draw \/ DrawFails PROVE WarmInv'
<1>1. pc = "draw" /\ Set(at, ClearTokens(pipe[at]))
  BY DEF Draw, DrawFails, Goto, Raise
<1>2. PipesInv' /\ pipe' \in [Pipes -> Pipe \cup {None}]
  BY <1>1, Cleared
<1>3. CASE Draw
  <2>1. /\ pc' = "idle" /\ scene' = None /\ at' = "keyframe" /\ todo' = todo
        /\ drawn' = Injected
    BY <1>3 DEF Draw, Goto
  <2>2. drawn' \in Drawn /\ drawn' = Asked(drawn')
    BY <1>1, <2>1, DrawsAsAsked
  <2>3. TypeOK'
    BY <1>2, <2>1, <2>2 DEF WarmInv, TypeOK, Pipes
  <2>4. StepInv' /\ DrawnAsAsked'
    BY <2>1, <2>2 DEF StepInv, DrawnAsAsked, Asked
  <2> QED BY <1>2, <2>3, <2>4 DEF WarmInv
<1>4. CASE DrawFails
  BY <1>2, <1>4, RaiseKeeps DEF DrawFails
<1> QED BY <1>3, <1>4

LEMMA StutterKeeps == ASSUME WarmInv, UNCHANGED vars PROVE WarmInv'
<1>1. UNCHANGED pipe /\ UNCHANGED pc /\ UNCHANGED scene /\ UNCHANGED at
      /\ UNCHANGED todo /\ UNCHANGED drawn
  BY DEF vars
<1>2. TypeOK'
  BY <1>1 DEF WarmInv, TypeOK
<1>3. PipesInv'
  BY <1>1 DEF WarmInv, PipesInv
<1>4. StepInv'
  BY <1>1 DEF WarmInv, StepInv, Weighted, AskedOf
<1>5. DrawnAsAsked'
  BY <1>1 DEF WarmInv, DrawnAsAsked, Asked
<1> QED BY <1>2, <1>3, <1>4, <1>5 DEF WarmInv

LEMMA NextWarm == WarmInv /\ [Next]_vars => WarmInv'
BY BeginKeeps, LoadKeeps, SchedulerKeeps, StripKeeps, AttachKeeps, ActivateKeeps,
   ActivateFailKeeps,
   FaceFoundKeeps, NoFaceKeeps, EncodersKeep, EncodersFailKeeps, RaisesKeep, DrawKeeps,
   StutterKeeps
   DEF Next

LEMMA WarmAlways == Spec => []WarmInv
BY InitWarm, NextWarm, PTL DEF Spec

-----------------------------------------------------------------------------
(* Theorems *)

\* Type correctness of the two warm pipelines.
THEOREM WarmTyped == Spec => []TypeOK
<1>1. WarmInv => TypeOK
  BY DEF WarmInv
<1> QED BY <1>1, WarmAlways, PTL

\* render_keyframe: whatever scenes a pipeline drew or gave up before, of any
\* projects and in any order, the image is the one of a pipeline loaded for this
\* scene alone.
THEOREM ScenesApart == Spec => []DrawnAsAsked
<1>1. WarmInv => DrawnAsAsked
  BY DEF WarmInv
<1> QED BY <1>1, WarmAlways, PTL

\* _bind_loras: the base adapters recorded for a pipeline are the few-step LoRA
\* its loader attached and nothing else, for the life of the process.
THEOREM BaseFewStep == Spec => []BaseIsFewStep
<1>1. WarmInv => BaseIsFewStep
  <2> SUFFICES ASSUME WarmInv, NEW p \in Pipes, pipe[p] # None, pipe[p].base # None
               PROVE  pipe[p].base = FewBase(pipe[p])
    BY DEF BaseIsFewStep, FewBase
  <2> QED BY DEF WarmInv, PipesInv, Sound
<1> QED BY <1>1, WarmAlways, PTL

\* _render_instantid: between two scenes no identity is left on a pipeline,
\* however the scene before ended.
THEOREM NoTokensLeft == Spec => []TokensCleared
<1>1. WarmInv => TokensCleared
  BY DEF WarmInv, PipesInv, TokensCleared
<1> QED BY <1>1, WarmAlways, PTL
=============================================================================
