--------------------------- MODULE RenderPlanner ---------------------------
(***************************************************************************)
(* The CPU planner of vivijure_backend/orchestrator.py: which character    *)
(* LoRAs a job has to train, and how each scene of the storyboard comes by *)
(* its keyframe.  Pure operators over a request record; the state machines *)
(* that plan (IncrementalRender) extend this module.                       *)
(*                                                                         *)
(* A request carries what the planner, the pipeline and the finish read    *)
(* off the job and the bundle:                                             *)
(*   action      the parsed Action                                         *)
(*   config      the keyframe configuration: the values kf_hash folds      *)
(*               (params), the base model it names (model) and a value the *)
(*               renderer reads but kf_hash does not fold (scheduler)      *)
(*   prompt      prompt and style of the storyboard, references of the     *)
(*               cast: what the bundle says the image should show          *)
(*   shots       scene ids of the storyboard                               *)
(*   use         use_characters of the storyboard                          *)
(*   cast        slots that characters/registry.json defines               *)
(*   slotsOf     character_slots of each scene (at most max_slots of them) *)
(*   start       scenes that carry a start_image                           *)
(*   authored    scenes whose start_image file is in the bundle            *)
(*   scope       process_shot_ids; {} is both null and the empty list,     *)
(*               which the code treats alike                               *)
(*   pretrained  slots of pretrained_loras, each naming an adapter an      *)
(*               earlier job of this project uploaded, by its R2 key       *)
(*   local       those of them that name a file on the worker instead      *)
(*   offloaded   the finish_offloaded override                             *)
(***************************************************************************)
EXTENDS FiniteSets

CONSTANTS
    Shots,       \* scene ids
    Slots,       \* character slots
    Params,      \* values of the hashed keyframe parameters
    Models,      \* keyframe base-model repositories
    Schedulers,  \* values of a keyframe parameter that kf_hash leaves out
    Prompts,     \* values of the bundle's prompt and references
    None         \* absent value

Actions == {"render", "preview", "finalize", "regen_shot", "train_lora"}

Modes == {"generate", "reuse", "inject"}

Config == [params: Params, model: Models, scheduler: Schedulers]

Hash == [params: Params, model: Models]

Request ==
    [action: Actions, config: Config, prompt: Prompts, shots: SUBSET Shots,
     use: SUBSET Slots, cast: SUBSET Slots, slotsOf: [Shots -> SUBSET Slots],
     start: SUBSET Shots, authored: SUBSET Shots, scope: SUBSET Shots,
     pretrained: SUBSET Slots, local: SUBSET Slots, offloaded: BOOLEAN]

Plan == [train: SUBSET Slots, mode: [Shots -> Modes \cup {None}]]

-----------------------------------------------------------------------------

\* The hash is taken to be injective on the fields it folds: equal hashes are
\* equal fields.
KfHash(c) == [params |-> c.params, model |-> c.model]

WantI2V(r) == r.action \in {"render", "finalize"}

WantKeyframe(r) == r.action \in {"render", "preview", "regen_shot"}

\* validate(): what the planner refuses before any GPU work.
Valid(r) ==
    /\ r.shots # {}
    /\ \A s \in r.shots : r.slotsOf[s] \subseteq r.use
    /\ r.scope \subseteq r.shots

InScope(r) == IF r.scope = {} THEN r.shots ELSE r.shots \cap r.scope

\* A train-only job plans no scene.
PlannedShots(r) == IF WantI2V(r) \/ WantKeyframe(r) THEN InScope(r) ELSE {}

SlotsToTrain(r, trained) ==
    IF r.action = "finalize" THEN {} ELSE r.use \ (trained \cup r.pretrained)

\* Seeded bug: any stored keyframe is reused.
ModeIgnoringHash(r, s, existing, hash) ==
    IF r.action = "finalize" THEN "reuse"
    ELSE IF s \in r.start THEN "inject"
    ELSE IF WantKeyframe(r) /\ s \in existing THEN "reuse"
    ELSE "generate"

\* A keyframe without a stored hash (hash[s] = None, old state) is reused.
KeyframeMode(r, s, existing, hash) ==
    IF r.action = "finalize" THEN "reuse"
    ELSE IF s \in r.start THEN "inject"
    ELSE IF /\ WantKeyframe(r)
            /\ s \in existing
            /\ hash[s] \in {None, KfHash(r.config)}
         THEN "reuse"
    ELSE "generate"

\* plan(): trained and existing come from the restored project state.
MakePlan(r, trained, existing, hash) ==
    [train |-> SlotsToTrain(r, trained),
     mode  |-> [s \in Shots |->
                  IF s \in PlannedShots(r)
                  THEN KeyframeMode(r, s, existing, hash) ELSE None]]
=============================================================================
