---------------------------- MODULE CharacterJobs ----------------------------
(***************************************************************************)
(* The characters of a project over a series of jobs: contract.py          *)
(* Bundle.extract over the tree that handler.py _restore_prior_state left, *)
(* the training of the slots the plan kept (LoraTraining), the upload of   *)
(* the adapters with their markers, and r2.py put_dir_as_tar.              *)
(*                                                                         *)
(* A file is known by the bundle it came from.  A bundle carries a         *)
(* storyboard (or not), a registry (or not) and reference images; the      *)
(* refs_dir of every storyboard is the default, characters/refs.  The jobs *)
(* are those whose action trains, without pretrained adapters;             *)
(* IncrementalRender has the others.  One worker, one job after the other. *)
(*                                                                         *)
(* Faults: "restore" (an existing state tar cannot be fetched), "extract"  *)
(* (its extraction stops part way), "job" (a call of the job raises).      *)
(***************************************************************************)
EXTENDS LoraTraining

CONSTANTS
    Slots,    \* character slots
    Images,   \* names of reference images
    Bundles,  \* bundles the control plane may send
    Faults,   \* see above
    None      \* absent value

\* A bundle: whether every member is safe to extract, the slots its storyboard uses
\* (None without storyboard.yaml), the slots its registry defines (None without
\* registry.json), the images under characters/refs/<slot>.
Bundle == [safe: BOOLEAN, use: (SUBSET Slots) \cup {None},
           cast: (SUBSET Slots) \cup {None}, refs: [Slots -> SUBSET Images]]

ASSUME BundlesAssumption == Bundles \subseteq Bundle

VARIABLES
    pc,        \* where the job is
    bundle,    \* the job's bundle
    tree,      \* workdir/project
    known,     \* trained_slots of the restored state
    planned,   \* slots of plan.lora.train still to do
    slot,      \* the slot in training
    loras,     \* outputs.loras: the adapter of each slot this job trained
    \* R2
    state,     \* the state tar, or None
    adapters   \* the LoRA objects

job  == <<bundle, tree, known, planned, slot, loras>>
r2   == <<state, adapters>>
vars == <<knobs, trainer, pc, bundle, tree, known, planned, slot, loras, state,
          adapters>>

-----------------------------------------------------------------------------
(* Types *)

\* Which bundle each file is from: one that carries it.
Tree == [story: {b \in Bundles : b.use # None} \cup {None},
         registry: {b \in Bundles : b.cast # None} \cup {None},
         refs: [Slots -> [Images -> Bundles \cup {None}]],
         trained: SUBSET Slots]

\* An adapter: the images drawn for it, and what the optimizer made of them.
Adapter == [from: [Images -> Bundles \cup {None}], updates: Nat]

\* An absent object is none of the objects that could be there.
ASSUME NoneAssumption ==
    None \notin Bundles /\ None \notin Tree /\ None \notin Adapter /\ None \notin Slots

NoTree == [story |-> None, registry |-> None,
           refs |-> [s \in Slots |-> [i \in Images |-> None]], trained |-> {}]

-----------------------------------------------------------------------------

Init ==
    /\ TrainerInit
    /\ pc = "idle" /\ bundle = None
    /\ tree = NoTree /\ known = {} /\ planned = {} /\ slot = None
    /\ loras = [s \in Slots |-> None]
    /\ state = None
    /\ adapters = [s \in Slots |-> None]

Goto(from, to) == pc = from /\ pc' = to

\* The job's objects go with it.
DropJob ==
    /\ pc' = "idle" /\ bundle' = None
    /\ tree' = NoTree /\ known' = {} /\ planned' = {} /\ slot' = None
    /\ loras' = [s \in Slots |-> None]

Receive ==
    /\ Goto("idle", "restore")
    /\ bundle' \in Bundles
    /\ UNCHANGED <<knobs, trainer, tree, known, planned, slot, loras, r2>>

Restored(t, k) ==
    /\ Goto("restore", "extract")
    /\ tree' = t /\ known' = k
    /\ UNCHANGED <<knobs, trainer, bundle, planned, slot, loras, r2>>

RestoreState == state # None /\ Restored(state, state.trained)

RestoreNothing == (state = None \/ "restore" \in Faults) /\ Restored(NoTree, {})

\* A tar of a directory has its members sorted: the reference images come before the
\* registry, the registry before the markers, those before the storyboard.  The end of
\* the tar or the scan of the markers may raise too, with everything extracted.  Nothing
\* was scanned: known is empty.
RestorePart ==
    /\ "extract" \in Faults /\ state # None
    /\ \E y \in {state.story, None}, r \in {state.registry, None},
          I \in [Slots -> SUBSET Images], M \in SUBSET state.trained :
         LET t == [story    |-> y,
                   registry |-> r,
                   refs     |-> [s \in Slots |-> [i \in Images |->
                                   IF i \in I[s] THEN state.refs[s][i] ELSE None]],
                   trained  |-> M]
         IN  /\ r # None => t.refs = state.refs
             /\ M # {} => t.refs = state.refs /\ r = state.registry
             /\ y # None => t = state
             /\ Restored(t, {})

\* Seeded bug: a file that is there already is kept.
OverlayKeeping(t, b) ==
    [t EXCEPT !.story    = IF @ # None \/ b.use = None THEN @ ELSE b,
              !.registry = IF @ # None \/ b.cast = None THEN @ ELSE b,
              !.refs     = [s \in Slots |-> [i \in Images |->
                              IF @[s][i] # None \/ i \notin b.refs[s]
                              THEN @[s][i] ELSE b]]]

\* extractall: the bundle's files replace those of their name, and nothing else of the
\* restored tree goes away.
Overlay(t, b) ==
    [t EXCEPT !.story    = IF b.use = None THEN @ ELSE b,
              !.registry = IF b.cast = None THEN @ ELSE b,
              !.refs     = [s \in Slots |-> [i \in Images |->
                              IF i \in b.refs[s] THEN b ELSE @[s][i]]]]

\* _safe_extract looks at every member before it writes one, and a tree without
\* storyboard.yaml is refused.
Extractable == bundle.safe /\ Overlay(tree, bundle).story # None

\* Bundle.extract, then plan(): what the storyboard uses and nothing says is trained.
ExtractBundle ==
    /\ Goto("extract", "train")
    /\ Extractable
    /\ tree'    = Overlay(tree, bundle)
    /\ planned' = tree'.story.use \ known
    /\ UNCHANGED <<knobs, trainer, bundle, known, slot, loras, r2>>

RefuseBundle ==
    /\ pc = "extract" /\ ~Extractable
    /\ DropJob
    /\ UNCHANGED <<knobs, trainer, r2>>

-----------------------------------------------------------------------------
(* execute(): the planned slots one after the other *)

\* cast.characters: what the registry in the tree defines, or nobody.
Cast == IF tree.registry = None THEN {} ELSE tree.registry.cast

RefPaths(s) == {i \in Images : tree.refs[s][i] # None}

Trainable(s) == RefPaths(s) # {}

BeginSlot ==
    /\ pc = "train" /\ ~training
    /\ \E s \in planned \cap Cast :
         /\ Trainable(s)
         /\ slot' = s
         /\ planned' = planned \ {s}
    /\ BeginTraining
    /\ UNCHANGED <<pc, bundle, tree, known, loras, r2>>

\* A slot the cast does not define is passed over.
SkipSlot ==
    /\ pc = "train" /\ ~training
    /\ \E s \in planned \ Cast : planned' = planned \ {s}
    /\ UNCHANGED <<knobs, trainer, pc, bundle, tree, known, slot, loras, r2>>

\* "has no reference images to train on", or an image, a load or a step raises: the job
\* fails with everything it trained so far.
TrainingFails ==
    /\ pc = "train"
    /\ \/ ~training /\ \E s \in planned \cap Cast : ~Trainable(s)
       \/ training /\ "job" \in Faults
    /\ DropJob
    /\ StopTraining
    /\ UNCHANGED r2

StepSlot ==
    /\ pc = "train"
    /\ TrainStep
    /\ UNCHANGED <<pc, job, r2>>

\* Seeded bug: the last checkpoint is handed out as the adapter.
Halfway == Trained \/ (training /\ checkpoints # {})

FinalSaved == Trained

\* One image of the slot is drawn at each step: in a short run some are never drawn.
Draws == {D \in SUBSET RefPaths(slot) : D # {} /\ Cardinality(D) <= knobs.steps}

EndSlot ==
    /\ pc = "train" /\ FinalSaved
    /\ \E D \in Draws :
         loras' = [loras EXCEPT ![slot] =
                     [from    |-> [i \in Images |->
                                     IF i \in D THEN tree.refs[slot][i] ELSE None],
                      updates |-> updates]]
    /\ slot' = None
    /\ StopTraining
    /\ UNCHANGED <<pc, bundle, tree, known, planned, r2>>

SlotsDone ==
    /\ Goto("train", "upload")
    /\ ~training /\ planned = {}
    /\ UNCHANGED <<knobs, trainer, job, r2>>

-----------------------------------------------------------------------------
(* _finish *)

PutLora ==
    /\ pc = "upload"
    /\ \E s \in Slots :
         /\ loras[s] # None
         /\ adapters' = [adapters EXCEPT ![s] = loras[s]]
         /\ loras'    = [loras EXCEPT ![s] = None]
         /\ tree'     = [tree EXCEPT !.trained = @ \cup {s}]
    /\ UNCHANGED <<knobs, trainer, pc, bundle, known, planned, slot, state>>

PutState ==
    /\ pc = "upload" /\ \A s \in Slots : loras[s] = None
    /\ state' = tree
    /\ DropJob
    /\ UNCHANGED <<knobs, trainer, adapters>>

UploadFails ==
    /\ pc = "upload" /\ "job" \in Faults
    /\ DropJob
    /\ UNCHANGED <<knobs, trainer, r2>>

Next ==
    \/ Receive \/ RestoreState \/ RestoreNothing \/ RestorePart
    \/ ExtractBundle \/ RefuseBundle
    \/ BeginSlot \/ SkipSlot \/ TrainingFails \/ StepSlot \/ EndSlot \/ SlotsDone
    \/ PutLora \/ PutState \/ UploadFails

Spec == Init /\ [][Next]_vars

-----------------------------------------------------------------------------
(* Properties *)

TypeOK ==
    /\ TrainerTypeOK
    /\ pc \in {"idle", "restore", "extract", "train", "upload"}
    /\ bundle \in Bundles \cup {None} /\ (pc = "idle" <=> bundle = None)
    /\ tree \in Tree /\ known \in SUBSET Slots /\ planned \in SUBSET Slots
    /\ slot \in Slots \cup {None}
    /\ loras \in [Slots -> Adapter \cup {None}]
    /\ state \in Tree \cup {None}
    /\ adapters \in [Slots -> Adapter \cup {None}]
    /\ training => pc = "train" /\ slot \in Slots

\* Whatever the restore left of an earlier job, a training draws from all images its own
\* job's bundle carries for the slot, and no adapter was fit to an earlier version of
\* one of them (Bundle.extract runs after the restore and over it).
AdapterSawBundle ==
    /\ training => \A i \in bundle.refs[slot] : tree.refs[slot][i] = bundle
    /\ \A s \in Slots : loras[s] # None =>
          \A i \in bundle.refs[s] : loras[s].from[i] \in {bundle, None}

\* An adapter that leaves the trainer, and one in R2 after any series of jobs, has every
\* full accumulation window of a run of max_steps: never a checkpoint, never a part.
AdapterComplete ==
    \A s \in Slots : \A a \in {loras[s], adapters[s]} \ {None} :
        a.updates = knobs.steps \div knobs.accumulation
=============================================================================
