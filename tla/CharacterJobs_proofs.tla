------------------------ MODULE CharacterJobs_proofs ------------------------
(***************************************************************************)
(* Theorems about CharacterJobs, and the training loop inside it, for      *)
(* every set of bundles, slots and images, every configuration of the      *)
(* trainer and every set of faults.                                        *)
(***************************************************************************)
EXTENDS CharacterJobs, Integers, TLAPS

-----------------------------------------------------------------------------
(* Arithmetic of the accumulation window *)

LEMMA ProductGrows ==
  ASSUME NEW p \in Int, NEW q \in Int, NEW d \in Nat, p >= q
  PROVE  p * d >= q * d
OBVIOUS

LEMMA OneMore ==
  ASSUME NEW p \in Int, NEW d \in Nat
  PROVE  (p + 1) * d = p * d + d
OBVIOUS

\* A smaller quotient leaves the number behind, whatever the remainder.
LEMMA QuotientBound ==
  ASSUME NEW d \in Nat \ {0}, NEW p \in Int, NEW q \in Int,
         NEW r \in Int, NEW s \in Int, 0 <= s, r < d,
         p * d + r = q * d + s
  PROVE  ~(p < q)
<1>1. SUFFICES ASSUME q >= p + 1 PROVE FALSE
  OBVIOUS
<1>2. q * d >= (p + 1) * d
  BY <1>1, ProductGrows
<1>3. (p + 1) * d = p * d + d
  BY OneMore
<1>4. p * d \in Int /\ q * d \in Int /\ (p + 1) * d \in Int
  OBVIOUS
<1> QED BY <1>2, <1>3, <1>4

\* A number is decomposed by a divisor in one way.
LEMMA Division ==
  ASSUME NEW d \in Nat \ {0}, NEW n \in Nat, NEW q \in Nat, NEW r \in Nat,
         r < d, n = q * d + r
  PROVE  n \div d = q /\ n % d = r
<1>1. n \div d \in Int /\ n % d \in Int /\ 0 <= n % d /\ n % d < d
  OBVIOUS
<1>2. n = (n \div d) * d + (n % d)
  OBVIOUS
<1>3. ~(n \div d < q) /\ ~(q < n \div d)
  BY <1>1, <1>2, QuotientBound
<1>4. n \div d = q
  BY <1>1, <1>3
<1>5. q * d \in Int
  OBVIOUS
<1> QED BY <1>1, <1>2, <1>4, <1>5

\* The accumulation window fills exactly when the next step is a multiple of its
\* length.
LEMMA WindowFull ==
  ASSUME NEW d \in Nat \ {0}, NEW q \in Nat, NEW r \in Nat, r < d,
         NEW n \in Nat, n = q * d + r
  PROVE  /\ (n + 1) % d = 0 <=> r + 1 = d
         /\ r + 1 = d => n + 1 = (q + 1) * d
<1>1. q * d \in Nat
  OBVIOUS
<1>2. CASE r + 1 = d
  <2>1. n + 1 = (q + 1) * d + 0
    BY <1>1, <1>2, OneMore
  <2>2. (n + 1) % d = 0
    BY <2>1, Division
  <2> QED BY <1>2, <2>1, <2>2
<1>3. CASE r + 1 < d
  <2>1. n + 1 = q * d + (r + 1)
    BY <1>1
  <2>2. (n + 1) % d = r + 1
    BY <2>1, <1>3, Division
  <2> QED BY <1>3, <2>2
<1> QED BY <1>2, <1>3

LEMMA FullWindows ==
  ASSUME NEW d \in Nat, NEW q \in Nat, NEW r \in Nat, r < d,
         NEW n \in Nat, n = q * d + r
  PROVE  q * d <= n /\ n < (q + 1) * d
<1>1. q * d \in Nat /\ (q + 1) * d = q * d + d
  BY OneMore
<1> QED BY <1>1

-----------------------------------------------------------------------------
(* Types *)

LEMMA KnobsTyped ==
  ASSUME NEW k \in Knobs
  PROVE  k.steps \in Nat \ {0} /\ k.accumulation \in Nat \ {0} /\ k.saveEvery \in Nat
BY KnobsAssumption DEF Knobs

LEMMA BlanksTyped ==
    NoTree \in Tree /\ [s \in Slots |-> None] \in [Slots -> Adapter \cup {None}]
BY DEF NoTree, Tree

LEMMA OverlayTyped ==
  ASSUME NEW t \in Tree, NEW b \in Bundles
  PROVE  /\ Overlay(t, b) \in Tree
         /\ Overlay(t, b).trained = t.trained
         /\ Overlay(t, b).refs = [s \in Slots |-> [i \in Images |->
                                   IF i \in b.refs[s] THEN b ELSE t.refs[s][i]]]
<1> DEFINE refs == [s \in Slots |-> [i \in Images |->
                      IF i \in b.refs[s] THEN b ELSE t.refs[s][i]]]
<1>1. refs \in [Slots -> [Images -> Bundles \cup {None}]]
  BY DEF Tree
<1>2. Overlay(t, b) = [t EXCEPT !.story    = IF b.use = None THEN t.story ELSE b,
                                !.registry = IF b.cast = None THEN t.registry ELSE b,
                                !.refs     = refs]
  BY DEF Overlay
<1> HIDE DEF refs
<1>3. /\ Overlay(t, b) \in Tree
      /\ Overlay(t, b).trained = t.trained
      /\ Overlay(t, b).refs = refs
  BY <1>1, <1>2 DEF Tree
<1> QED BY <1>3 DEF refs

\* A tree that is a part of the state's is a tree.
LEMMA PartTyped ==
  ASSUME TypeOK, RestorePart
  PROVE  \E t \in Tree : Restored(t, {})
<1>1. PICK y \in {state.story, None}, r \in {state.registry, None},
           I \in [Slots -> SUBSET Images], M \in SUBSET state.trained :
        Restored([story    |-> y,
                  registry |-> r,
                  refs     |-> [s \in Slots |-> [i \in Images |->
                                  IF i \in I[s] THEN state.refs[s][i] ELSE None]],
                  trained  |-> M], {})
  BY DEF RestorePart
<1>2. state \in Tree
  BY DEF RestorePart, TypeOK
<1>3. [s \in Slots |-> [i \in Images |->
         IF i \in I[s] THEN state.refs[s][i] ELSE None]]
        \in [Slots -> [Images -> Bundles \cup {None}]]
  BY <1>2 DEF Tree
<1>4. /\ y \in {b \in Bundles : b.use # None} \cup {None}
      /\ r \in {b \in Bundles : b.cast # None} \cup {None} /\ M \in SUBSET Slots
  BY <1>2 DEF Tree
<1> DEFINE refs == [s \in Slots |-> [i \in Images |->
                      IF i \in I[s] THEN state.refs[s][i] ELSE None]]
           t == [story |-> y, registry |-> r, refs |-> refs, trained |-> M]
<1> HIDE DEF refs
<1>5. t \in Tree
  BY <1>2, <1>3, <1>4 DEF Tree, refs
<1> QED BY <1>1, <1>5 DEF refs

\* The adapter of a training that drew the images D of the slot.
Fit(D) == [from    |-> [i \in Images |-> IF i \in D THEN tree.refs[slot][i] ELSE None],
           updates |-> updates]

LEMMA EndFits ==
  ASSUME TypeOK, EndSlot
  PROVE  /\ slot \in Slots /\ training /\ pc = "train"
         /\ \E D \in Draws : /\ Fit(D) \in Adapter
                             /\ \A s \in Slots :
                                  loras'[s] = IF s = slot THEN Fit(D) ELSE loras[s]
                             /\ loras' = [loras EXCEPT ![slot] = Fit(D)]
<1>1. slot \in Slots /\ training /\ pc = "train"
  BY DEF EndSlot, FinalSaved, Trained, TypeOK
<1>2. PICK D \in Draws : loras' = [loras EXCEPT ![slot] = Fit(D)]
  BY DEF EndSlot, Fit
<1>3. [i \in Images |-> IF i \in D THEN tree.refs[slot][i] ELSE None]
        \in [Images -> Bundles \cup {None}]
  BY <1>1 DEF TypeOK, Tree
<1>4. Fit(D) \in Adapter
  BY <1>3 DEF Fit, Adapter, TypeOK, TrainerTypeOK
<1>5. \A s \in Slots : loras'[s] = IF s = slot THEN Fit(D) ELSE loras[s]
  BY <1>1, <1>2 DEF TypeOK
<1> QED BY <1>1, <1>2, <1>4, <1>5

LEMMA StopTyped ==
  ASSUME TrainerTypeOK, StopTraining
  PROVE  TrainerTypeOK' /\ ~training'
<1>1. knobs' \in Knobs /\ step' \in 0..knobs'.steps
  BY KnobsTyped DEF TrainerTypeOK, StopTraining
<1> QED BY <1>1 DEF TrainerTypeOK, StopTraining

LEMMA DropTyped ==
  ASSUME TypeOK, DropJob, TrainerTypeOK', ~training', UNCHANGED adapters,
         state' \in Tree \cup {None}
  PROVE  TypeOK'
BY BlanksTyped DEF TypeOK, DropJob

LEMMA RestoredTyped ==
  ASSUME TypeOK, NEW t \in Tree, NEW k \in SUBSET Slots, Restored(t, k)
  PROVE  TypeOK'
BY DEF TypeOK, Restored, Goto, TrainerTypeOK, trainer, r2

LEMMA StepTyped ==
  ASSUME TrainerTypeOK, TrainStep
  PROVE  TrainerTypeOK'
<1>1. knobs \in Knobs /\ knobs.steps \in Nat /\ step \in Nat /\ updates \in Nat
  BY KnobsAssumption DEF TrainerTypeOK, Knobs
<1>2. step' \in 0..knobs'.steps /\ knobs' \in Knobs /\ training' \in BOOLEAN
  BY <1>1 DEF TrainStep, TrainerTypeOK, StepsLeft
<1>3. pending' \in Nat /\ updates' \in Nat
  BY DEF TrainStep, TrainerTypeOK
<1>4. checkpoints' \in SUBSET Checkpoint
  BY <1>1, <1>3 DEF TrainStep, TrainerTypeOK, Checkpoint
<1> QED BY <1>2, <1>3, <1>4 DEF TrainerTypeOK

LEMMA TypeNext == TypeOK /\ [Next]_vars => TypeOK'
<1> SUFFICES ASSUME TypeOK, [Next]_vars PROVE TypeOK'
  OBVIOUS
<1> USE DEF Goto
<1>1. CASE Receive
  BY <1>1, NoneAssumption DEF Receive, TypeOK, TrainerTypeOK, trainer, r2
<1>2. CASE RestoreState
  <2>1. state \in Tree /\ state.trained \in SUBSET Slots
    BY <1>2 DEF RestoreState, TypeOK, Tree
  <2> QED BY <1>2, <2>1, RestoredTyped DEF RestoreState
<1>3. CASE RestoreNothing
  BY <1>3, BlanksTyped, RestoredTyped DEF RestoreNothing
<1>4. CASE RestorePart
  BY <1>4, PartTyped, RestoredTyped
<1>5. CASE ExtractBundle
  <2>1. bundle \in Bundles /\ tree' \in Tree
    BY <1>5, OverlayTyped DEF ExtractBundle, TypeOK
  <2>2. tree'.story.use \in SUBSET Slots
    BY <1>5, <2>1, BundlesAssumption DEF ExtractBundle, Extractable, Tree, Bundle
  <2> QED BY <1>5, <2>1, <2>2 DEF ExtractBundle, TypeOK, TrainerTypeOK, trainer, r2
<1>6. CASE RefuseBundle
  BY <1>6, DropTyped DEF RefuseBundle, trainer, r2, TypeOK, TrainerTypeOK
<1>7. CASE BeginSlot
  BY <1>7 DEF BeginSlot, BeginTraining, TypeOK, TrainerTypeOK, r2
<1>8. CASE SkipSlot
  BY <1>8 DEF SkipSlot, TypeOK, TrainerTypeOK, trainer, r2
<1>9. CASE TrainingFails
  BY <1>9, StopTyped, DropTyped DEF TrainingFails, TypeOK, r2
<1>10. CASE StepSlot
  BY <1>10, StepTyped DEF StepSlot, TrainStep, TypeOK, job, r2
<1>11. CASE EndSlot
  <2>1. loras' \in [Slots -> Adapter \cup {None}]
    BY <1>11, EndFits DEF TypeOK
  <2>2. TrainerTypeOK' /\ ~training'
    BY <1>11, StopTyped DEF EndSlot, TypeOK
  <2> QED BY <1>11, <2>1, <2>2 DEF EndSlot, TypeOK, r2
<1>12. CASE SlotsDone
  BY <1>12 DEF SlotsDone, TypeOK, TrainerTypeOK, trainer, job, r2
<1>13. CASE PutLora
  <2>1. PICK s \in Slots :
          /\ loras[s] # None
          /\ adapters' = [adapters EXCEPT ![s] = loras[s]]
          /\ loras'    = [loras EXCEPT ![s] = None]
          /\ tree'     = [tree EXCEPT !.trained = tree.trained \cup {s}]
    BY <1>13 DEF PutLora
  <2>2. /\ adapters' \in [Slots -> Adapter \cup {None}]
        /\ loras' \in [Slots -> Adapter \cup {None}]
    BY <2>1 DEF TypeOK
  <2>3. tree' \in Tree
    BY <2>1 DEF TypeOK, Tree
  <2> QED BY <1>13, <2>2, <2>3 DEF PutLora, TypeOK, TrainerTypeOK, trainer
<1>14. CASE PutState
  BY <1>14, DropTyped DEF PutState, TypeOK, TrainerTypeOK, trainer
<1>15. CASE UploadFails
  BY <1>15, DropTyped DEF UploadFails, TypeOK, TrainerTypeOK, trainer, r2
<1>16. CASE UNCHANGED vars
  BY <1>16 DEF vars, TypeOK, TrainerTypeOK, trainer
<1> QED BY <1>1, <1>2, <1>3, <1>4, <1>5, <1>6, <1>7, <1>8, <1>9, <1>10, <1>11,
           <1>12, <1>13, <1>14, <1>15, <1>16 DEF Next

LEMMA TypeInit == Init => TypeOK
<1> SUFFICES ASSUME Init PROVE TypeOK
  OBVIOUS
<1>1. knobs \in Knobs /\ step \in 0..knobs.steps
  BY KnobsTyped DEF Init, TrainerInit
<1>2. TrainerTypeOK /\ ~training
  BY <1>1 DEF Init, TrainerInit, TrainerTypeOK
<1> QED BY <1>2, BlanksTyped DEF Init, TypeOK

\* Every variable has its type throughout a series of jobs.
THEOREM CharactersTyped == Spec => []TypeOK
<1> QED BY TypeInit, TypeNext, PTL DEF Spec

-----------------------------------------------------------------------------
(* The training loop *)

\* The strengthening of the trainer's invariants: outside a call its counters are 0.
TrainerInv ==
    /\ GradientsAccounted /\ CheckpointsAsDue
    /\ ~training => step = 0 /\ updates = 0

LEMMA StopCounts ==
  ASSUME TrainerTypeOK, StopTraining
  PROVE  TrainerInv'
<1>1. knobs' \in Knobs
  BY DEF TrainerTypeOK, StopTraining
<1>2. knobs'.accumulation \in Nat \ {0}
  BY <1>1, KnobsTyped
<1>3. 0 * knobs'.accumulation = 0
  BY <1>2
<1> QED BY <1>2, <1>3 DEF StopTraining, TrainerInv, GradientsAccounted, CheckpointsAsDue

LEMMA StepCounts ==
  ASSUME TrainerTypeOK, TrainerInv, TrainStep
  PROVE  TrainerInv'
<1> DEFINE d == knobs.accumulation
<1>1. /\ knobs \in Knobs /\ knobs' = knobs
      /\ step \in Nat /\ pending \in Nat /\ updates \in Nat /\ step < knobs.steps
      /\ step' = step + 1
  BY KnobsTyped DEF TrainerTypeOK, TrainStep, StepsLeft
<1>2. d \in Nat \ {0} /\ knobs.steps \in Nat
  BY <1>1, KnobsTyped
<1>3. step = updates * d + pending /\ pending < d
  BY DEF TrainerInv, GradientsAccounted
<1>4. OptimizerSteps <=> pending + 1 = d
  BY <1>1, <1>2, <1>3, WindowFull DEF OptimizerSteps
<1>5. GradientsAccounted'
  <2>1. CASE pending + 1 = d
    <3>1. step' = (updates + 1) * d
      BY <2>1, <1>1, <1>2, <1>3, WindowFull
    <3>2. pending' = 0 /\ updates' = updates + 1
      BY <2>1, <1>4 DEF TrainStep
    <3>3. (updates + 1) * d \in Nat
      BY <1>1, <1>2
    <3> HIDE DEF d
    <3>4. step' = updates' * d + pending' /\ pending' < d
      BY <3>1, <3>2, <3>3, <1>2
    <3> QED BY <3>4, <1>1 DEF GradientsAccounted, d
  <2>2. CASE pending + 1 < d
    <3>1. pending' = pending + 1 /\ updates' = updates
      BY <2>2, <1>1, <1>2, <1>4 DEF TrainStep
    <3>2. updates * d \in Nat
      BY <1>1, <1>2
    <3> HIDE DEF d
    <3>3. step' = updates' * d + pending' /\ pending' < d
      BY <3>1, <3>2, <2>2, <1>1, <1>3
    <3> QED BY <3>3, <1>1 DEF GradientsAccounted, d
  <2> QED BY <2>1, <2>2, <1>1, <1>2, <1>3
<1>6. updates' * d <= step' /\ step' < (updates' + 1) * d
  <2>1. updates' \in Nat /\ pending' \in Nat /\ step' \in Nat /\ d \in Nat
    BY <1>1, <1>2 DEF TrainStep
  <2>2. step' = updates' * d + pending' /\ pending' < d
    BY <1>1, <1>5 DEF GradientsAccounted
  <2> HIDE DEF d
  <2> QED BY <2>1, <2>2, FullWindows
<1>7. ASSUME NEW c \in checkpoints'
      PROVE  /\ 0 < c.step /\ c.step < knobs.steps /\ c.step <= step'
             /\ knobs.saveEvery # 0 /\ c.step % knobs.saveEvery = 0
             /\ c.updates * d <= c.step
             /\ c.step < (c.updates + 1) * d
  <2>1. CASE c \in checkpoints
    <3>1. c.step \in Nat
      BY <2>1 DEF TrainerTypeOK, Checkpoint
    <3> QED BY <2>1, <3>1, <1>1 DEF TrainerInv, CheckpointsAsDue
  <2>2. CASE c \notin checkpoints
    <3>1. Checkpoints /\ c = [step |-> step', updates |-> updates']
      BY <2>2 DEF TrainStep
    <3>2. c.step = step + 1 /\ c.updates = updates'
      BY <3>1, <1>1
    <3>3. c.updates * d <= c.step /\ c.step < (c.updates + 1) * d
      BY <3>2, <1>1, <1>6
    <3> QED BY <3>1, <3>2, <3>3, <1>1, <1>2 DEF Checkpoints
  <2> QED BY <2>1, <2>2
<1>8. training'
  BY DEF TrainStep
<1> QED BY <1>1, <1>5, <1>7, <1>8 DEF TrainerInv, CheckpointsAsDue

LEMMA TrainerNext == TypeOK /\ TrainerInv /\ [Next]_vars => TrainerInv'
<1> SUFFICES ASSUME TypeOK, TrainerInv, [Next]_vars PROVE TrainerInv'
  OBVIOUS
<1>1. ASSUME UNCHANGED <<knobs, trainer>> PROVE TrainerInv'
  BY <1>1 DEF trainer, TrainerInv, GradientsAccounted, CheckpointsAsDue
<1>2. ASSUME BeginTraining PROVE TrainerInv'
  BY <1>2 DEF BeginTraining, TrainerInv, GradientsAccounted, CheckpointsAsDue
<1>3. CASE BeginSlot
  BY <1>2, <1>3 DEF BeginSlot
<1>4. CASE StepSlot
  BY <1>4, StepCounts DEF StepSlot, TypeOK
<1>5. CASE TrainingFails \/ EndSlot
  BY <1>5, StopCounts DEF TrainingFails, EndSlot, TypeOK
<1>6. CASE \/ Receive \/ RestoreState \/ RestoreNothing \/ RestorePart
           \/ ExtractBundle \/ RefuseBundle \/ SkipSlot \/ SlotsDone
           \/ PutLora \/ PutState \/ UploadFails \/ UNCHANGED vars
  BY <1>1, <1>6 DEF Receive, RestoreState, RestoreNothing, RestorePart, Restored,
     ExtractBundle, RefuseBundle, SkipSlot, SlotsDone, PutLora, PutState,
     UploadFails, vars, trainer
<1> QED BY <1>3, <1>4, <1>5, <1>6 DEF Next

LEMMA TrainerStarts == Init => TrainerInv
<1> SUFFICES ASSUME Init PROVE TrainerInv
  OBVIOUS
<1>1. knobs.accumulation \in Nat \ {0}
  BY KnobsTyped DEF Init, TrainerInit
<1>2. 0 * knobs.accumulation = 0
  BY <1>1
<1> QED BY <1>1, <1>2
        DEF Init, TrainerInit, TrainerInv, GradientsAccounted, CheckpointsAsDue

\* No gradient is lost or counted twice before the end of a run, whatever the length
\* of the accumulation window; a checkpoint is due at its step and holds the updates of
\* the full windows before.
THEOREM Accounted == Spec => []UpdatesAccounted
<1>1. TrainerInv => UpdatesAccounted
  BY DEF TrainerInv, UpdatesAccounted
<1> QED BY <1>1, TypeInit, TypeNext, TrainerStarts, TrainerNext, PTL DEF Spec

-----------------------------------------------------------------------------
(* Adapters *)

Carried == \A s \in Slots : \A i \in bundle.refs[s] : tree.refs[s][i] = bundle

Fitted ==
    \A s \in Slots : loras[s] # None =>
        \A i \in bundle.refs[s] : loras[s].from[i] \in {bundle, None}

\* The strengthening of AdapterSawBundle: from the extraction on, the tree has the
\* bundle's images; before it, the job has trained nothing.
SawInv ==
    /\ Fitted
    /\ pc \in {"train", "upload"} => Carried
    /\ pc \notin {"train", "upload"} => \A s \in Slots : loras[s] = None

LEMMA SawNext == TypeOK /\ SawInv /\ [Next]_vars => SawInv'
<1> SUFFICES ASSUME TypeOK, SawInv, [Next]_vars PROVE SawInv'
  OBVIOUS
<1> USE DEF Goto
<1>1. ASSUME DropJob PROVE SawInv'
  BY <1>1 DEF DropJob, SawInv, Fitted
<1>2. CASE Receive
  BY <1>2 DEF Receive, SawInv, Fitted
<1>3. CASE RestoreState \/ RestoreNothing \/ RestorePart
  BY <1>3 DEF RestoreState, RestoreNothing, RestorePart, Restored, SawInv,
     Fitted
<1>4. CASE ExtractBundle
  <2>1. tree \in Tree /\ bundle \in Bundles /\ bundle \in Bundle
    BY <1>4, BundlesAssumption DEF ExtractBundle, TypeOK
  <2>2. \A s \in Slots : bundle.refs[s] \subseteq Images
    BY <2>1 DEF Bundle
  <2>3. Carried'
    <3>1. tree'.refs = [s \in Slots |-> [i \in Images |->
                          IF i \in bundle.refs[s] THEN bundle ELSE tree.refs[s][i]]]
      BY <1>4, <2>1, OverlayTyped DEF ExtractBundle
    <3>2. \A s \in Slots : \A i \in bundle.refs[s] : tree'.refs[s][i] = bundle
      BY <2>2, <3>1
    <3> QED BY <1>4, <3>2 DEF ExtractBundle, Carried
  <2>4. UNCHANGED <<loras, bundle>> /\ \A s \in Slots : loras[s] = None
    BY <1>4 DEF ExtractBundle, SawInv
  <2> QED BY <1>4, <2>3, <2>4 DEF ExtractBundle, SawInv, Fitted
<1>5. CASE EndSlot
  <2>1. /\ slot \in Slots /\ pc = "train" /\ UNCHANGED <<pc, bundle, tree>>
        /\ bundle \in Bundle
    BY <1>5, EndFits, BundlesAssumption DEF EndSlot, TypeOK
  <2>2. PICK D \in Draws :
          \A s \in Slots : loras'[s] = IF s = slot THEN Fit(D) ELSE loras[s]
    BY <1>5, EndFits
  <2>3. \A i \in bundle.refs[slot] : Fit(D).from[i] \in {bundle, None}
    <3>1. bundle.refs[slot] \subseteq Images /\ Carried
      BY <2>1 DEF Bundle, SawInv
    <3> QED BY <2>1, <3>1 DEF Fit, Carried
  <2>4. Fitted'
    BY <2>1, <2>2, <2>3 DEF SawInv, Fitted
  <2> QED BY <2>1, <2>4 DEF SawInv, Carried
<1>6. CASE PutLora
  <2>1. /\ pc = "upload" /\ UNCHANGED <<pc, bundle>> /\ tree'.refs = tree.refs
        /\ ~training'
        /\ \A s \in Slots : loras'[s] \in {loras[s], None}
    BY <1>6 DEF PutLora, TypeOK, Tree, trainer
  <2> QED BY <2>1 DEF SawInv, Fitted, Carried
<1>7. CASE BeginSlot \/ SkipSlot \/ StepSlot \/ SlotsDone
  BY <1>7 DEF BeginSlot, SkipSlot, StepSlot, SlotsDone, job, SawInv,
     Fitted, Carried
<1>8. CASE RefuseBundle \/ TrainingFails \/ PutState \/ UploadFails
  BY <1>1, <1>8 DEF RefuseBundle, TrainingFails, PutState, UploadFails
<1>9. CASE UNCHANGED vars
  BY <1>9 DEF vars, SawInv, Fitted, Carried
<1> QED BY <1>2, <1>3, <1>4, <1>5, <1>6, <1>7, <1>8, <1>9 DEF Next

LEMMA SawInit == Init => SawInv
BY DEF Init, SawInv, Fitted

\* A training draws from every image its own job's bundle carries for the slot, and no
\* adapter was fit to another version of one, whatever an earlier job or a part of its
\* state left in the tree.
THEOREM AdaptersSawBundle == Spec => []AdapterSawBundle
<1>1. TypeOK /\ SawInv => AdapterSawBundle
  BY DEF TypeOK, SawInv, Fitted, Carried, AdapterSawBundle
<1> QED BY <1>1, TypeInit, TypeNext, SawInit, SawNext, PTL DEF Spec

\* Whole: with the updates of a run of max_steps.
Whole(a) == a.updates = knobs.steps \div knobs.accumulation

LEMMA CompleteNext ==
    TypeOK /\ TrainerInv /\ AdapterComplete /\ [Next]_vars => AdapterComplete'
<1> SUFFICES ASSUME TypeOK, TrainerInv, AdapterComplete, [Next]_vars
             PROVE  AdapterComplete'
  OBVIOUS
<1> USE DEF Goto
<1>1. \A s \in Slots : /\ loras[s] # None => Whole(loras[s])
                       /\ adapters[s] # None => Whole(adapters[s])
  BY DEF AdapterComplete, Whole
<1>2. ASSUME knobs' = knobs,
             \A s \in Slots : /\ loras'[s] # None => Whole(loras'[s])
                              /\ adapters'[s] # None => Whole(adapters'[s])
      PROVE  AdapterComplete'
  BY <1>2 DEF AdapterComplete, Whole
<1>3. ASSUME UNCHANGED <<knobs, loras, adapters>> PROVE AdapterComplete'
  BY <1>1, <1>2, <1>3
<1>4. ASSUME UNCHANGED <<knobs, adapters>>, DropJob PROVE AdapterComplete'
  BY <1>1, <1>2, <1>4 DEF DropJob
<1>5. CASE \/ Receive \/ RestoreState \/ RestoreNothing \/ RestorePart
           \/ ExtractBundle \/ BeginSlot \/ SkipSlot \/ StepSlot \/ SlotsDone
           \/ UNCHANGED vars
  <2>1. UNCHANGED <<knobs, loras, adapters>>
    BY <1>5 DEF Receive, RestoreState, RestoreNothing, RestorePart, Restored,
       ExtractBundle, BeginSlot, BeginTraining, SkipSlot, StepSlot, TrainStep,
       SlotsDone, job, vars, trainer, r2
  <2> QED BY <2>1, <1>3
<1>6. CASE EndSlot
  <2>1. step = knobs.steps /\ UNCHANGED <<knobs, adapters>>
    BY <1>6 DEF EndSlot, FinalSaved, Trained, StopTraining, r2
  <2>2. PICK D \in Draws :
          \A s \in Slots : loras'[s] = IF s = slot THEN Fit(D) ELSE loras[s]
    BY <1>6, EndFits
  <2>3. Whole(Fit(D))
    <3>1. /\ knobs.accumulation \in Nat \ {0} /\ knobs.steps \in Nat
          /\ updates \in Nat /\ pending \in Nat
      BY KnobsTyped DEF TypeOK, TrainerTypeOK
    <3>2. updates = knobs.steps \div knobs.accumulation
      BY <2>1, <3>1, Division DEF TrainerInv, GradientsAccounted
    <3> QED BY <3>2 DEF Whole, Fit
  <2> QED BY <1>1, <1>2, <2>1, <2>2, <2>3
<1>7. CASE PutLora
  <2>1. /\ UNCHANGED knobs
        /\ \A s \in Slots : /\ loras'[s] \in {loras[s], None}
                            /\ adapters'[s] \in {loras[s], adapters[s]}
    BY <1>7 DEF PutLora, TypeOK, trainer
  <2> QED BY <2>1, <1>1, <1>2
<1>8. CASE RefuseBundle \/ TrainingFails \/ PutState \/ UploadFails
  <2>1. UNCHANGED <<knobs, adapters>> /\ DropJob
    BY <1>8 DEF RefuseBundle, TrainingFails, StopTraining, PutState, UploadFails, r2,
       trainer
  <2> QED BY <2>1, <1>4
<1> QED BY <1>5, <1>6, <1>7, <1>8 DEF Next

LEMMA CompleteInit == Init => AdapterComplete
BY DEF Init, TrainerInit, AdapterComplete

\* An adapter in R2 has the updates of all full windows of a whole run, and no others.
THEOREM AdaptersComplete == Spec => []AdapterComplete
<1> QED BY TypeInit, TypeNext, TrainerStarts, TrainerNext, CompleteInit,
           CompleteNext, PTL DEF Spec
=============================================================================
