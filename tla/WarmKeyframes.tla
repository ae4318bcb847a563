--------------------------- MODULE WarmKeyframes ---------------------------
(***************************************************************************)
(* The keyframe engine of keyframe.py on a warm worker.  The two SDXL      *)
(* pipelines of models.ModelServer are process globals: whatever a scene   *)
(* attaches to one (character LoRAs, IP-Adapter encoders, a scheduler, the *)
(* identity tokens of InstantID) is still there when the next scene, of    *)
(* this job or of another project's, comes to it, and a scene may be given *)
(* up after any of those steps.                                            *)
(*                                                                         *)
(* A scene record is what render_keyframe is handed:                       *)
(*   chars    character_slots, in order                                    *)
(*   lora     adapter of each slot in lora_paths, None for a slot without  *)
(*   ref      first reference image of each slot, None without one         *)
(*   face     whether insightface finds a face in the lead's reference     *)
(*   method   identity_method ("both" does here what ip_adapter does)      *)
(*   cap      max_slots                                                    *)
(*   few      few_step               sched scheduler                       *)
(*                                                                         *)
(* diffusers is external: attaching under a name in use raises; deleting   *)
(* an adapter takes it out of the active set; a scheduler built from the   *)
(* configuration of another starts with that one's settings.               *)
(*                                                                         *)
(* Faults: "weights" (a model, an adapter or an encoder cannot be loaded,  *)
(* an adapter's keys match no module, the adapters cannot be made active), *)
(* "distill" (the few-step LoRA cannot be loaded: logged, the pipeline     *)
(* goes without), "image" (a reference cannot be opened), "draw" (the      *)
(* pipeline call raises).                                                  *)
(***************************************************************************)
EXTENDS Naturals, Sequences

CONSTANTS
    Slots,   \* character slots
    Looks,   \* identities an adapter or a reference can carry
    Scenes,  \* the scenes that jobs bring, in any order and number
    Faults,
    None     \* absent value

Distill == "distill"           \* DISTILL_ADAPTER
Few     == "few-step weights"  \* what is attached under that name
Names   == Slots \cup {Distill}
Pipes   == {"keyframe", "instantid"}

\* A scheduler: its class, and the settings its configuration has beside the
\* pristine ones.
Kinds     == {"pristine", "DDIM", "DPMSolver", "Euler", "EulerA", "UniPC"}
Settings  == {"trailing", "karras"}
Scheduler == [kind: Kinds, settings: SUBSET Settings]
Pristine  == [kind |-> "pristine", settings |-> {}]

SchedulerNames ==
    {"ddim_trailing", "ddim", "dpmpp_2m_karras", "dpmpp_2m", "euler",
     "euler_ancestral", "unipc", "tcd"}

Scene ==
    [chars: Seq(Slots), lora: [Slots -> Looks \cup {None}],
     ref: [Slots -> Looks \cup {None}], face: BOOLEAN,
     method: {"ip_adapter", "instantid"}, cap: Nat \ {0}, few: BOOLEAN,
     sched: SchedulerNames]

ASSUME ScenesAssumption ==
    /\ Scenes \subseteq Scene
    /\ Distill \notin Slots /\ None \notin Looks /\ Few \notin Looks
    /\ None \notin Scene /\ None \notin Slots /\ None # Few
    /\ Faults \subseteq {"weights", "distill", "image", "draw"}

VARIABLES
    pipe,   \* per pipeline: None before it is loaded, then its state
    pc,     \* what render_keyframe does next
    scene,  \* the scene it renders
    at,     \* the pipeline it renders it on
    todo,   \* slots whose adapter is still to be attached
    drawn   \* what went into the latest image, None while one is on its way

vars == <<pipe, pc, scene, at, todo, drawn>>

Pipe ==
    [attached: [Names -> Looks \cup {Few, None}], active: SUBSET Names,
     few: BOOLEAN, base: (SUBSET Names) \cup {None}, sched: Scheduler,
     ip: Nat, tokens: Looks \cup {None}]

Drawn ==
    [scene: Scene, on: Pipes, few: BOOLEAN, sched: Scheduler, ip: Nat,
     adapters: [Names -> Looks \cup {Few, None}], tokens: Looks \cup {None}]

\* An absent pipeline, image or base is none of those that could be there.
ASSUME NoneAssumption ==
    None \notin Pipe /\ None \notin Drawn /\ \A S \in SUBSET Names : None # S

TypeOK ==
    /\ pipe \in [Pipes -> Pipe \cup {None}]
    /\ pc \in {"idle", "load", "sched", "strip", "attach", "face", "ip",
               "draw"}
    /\ scene \in Scenes \cup {None}
    /\ at \in Pipes
    /\ todo \in SUBSET Slots
    /\ drawn \in Drawn \cup {None}

Init ==
    /\ pipe = [p \in Pipes |-> None]
    /\ pc = "idle" /\ scene = None /\ at = "keyframe" /\ todo = {}
    /\ drawn = None

-----------------------------------------------------------------------------
(* What a scene asks for *)

\* engine_for
Engine(s) ==
    IF 2 <= Len(s.chars) /\ Len(s.chars) <= s.cap THEN "regional" ELSE "single"

\* A single-engine scene shows its first character, however many it names.
Shown(s) ==
    IF Engine(s) = "regional" THEN {s.chars[i] : i \in 1 .. Len(s.chars)}
    ELSE IF s.chars = <<>> THEN {} ELSE {Head(s.chars)}

Bound(s) == {slot \in Shown(s) : s.lora[slot] # None}

Referenced(s) == {slot \in Shown(s) : s.ref[slot] # None}

UsesInstantID(s) ==
    /\ Engine(s) = "single"
    /\ s.method = "instantid"
    /\ Referenced(s) # {}

\* IP-Adapter encoders the scene's call hands an image to; the regional engine
\* wants one for each of its characters.
Encoders(s) ==
    IF Engine(s) = "regional" THEN Len(s.chars)
    ELSE IF Referenced(s) = {} THEN 0 ELSE 1

KindOf(name) ==
    CASE name \in {"ddim_trailing", "ddim"}       -> "DDIM"
      [] name \in {"dpmpp_2m_karras", "dpmpp_2m"} -> "DPMSolver"
      [] name = "euler"           -> "Euler"
      [] name = "euler_ancestral" -> "EulerA"
      [] name = "unipc"           -> "UniPC"
      [] OTHER                    -> "pristine"

SettingsOf(name) ==
    CASE name = "ddim_trailing"   -> {"trailing"}
      [] name = "dpmpp_2m_karras" -> {"karras"}
      [] OTHER                    -> {}

\* Seeded bug: a sampler built from the configuration of the one before.
CompoundedScheduler(name, current) ==
    [kind |-> KindOf(name), settings |-> SettingsOf(name) \cup current.settings]

\* Seeded bug: the configured name taken for the class.
SchedulerNamed(name, current) == [kind |-> name, settings |-> {}]

\* _apply_scheduler: every sampler is built from the pristine configuration,
\* whichever the current one is.
SchedulerFor(name, current) ==
    [kind |-> KindOf(name), settings |-> SettingsOf(name)]

-----------------------------------------------------------------------------
(* Steps of render_keyframe *)

Set(p, fields) == pipe' = [pipe EXCEPT ![p] = fields]

Goto(from, to) == pc = from /\ pc' = to

\* The exception leaves the engine, fails the job and leaves the pipelines as
\* they are.
Raise(from) ==
    /\ pc = from /\ pc' = "idle"
    /\ scene' = None /\ todo' = {} /\ drawn' = None
    /\ at' = "keyframe"

Begin ==
    /\ Goto("idle", "load")
    /\ \E s \in Scenes :
         /\ scene' = s
         /\ at' = IF UsesInstantID(s) THEN "instantid" ELSE "keyframe"
    /\ drawn' = None
    /\ UNCHANGED <<pipe, todo>>

\* A pipeline as its loader leaves it; few is whether the few-step LoRA attached.
Loaded(few) ==
    [attached |-> [n \in Names |-> IF n = Distill /\ few THEN Few ELSE None],
     active |-> IF few THEN {Distill} ELSE {},
     few |-> few, base |-> None, sched |-> Pristine, ip |-> 0, tokens |-> None]

\* keyframe_pipeline, instantid_pipeline: loaded once, then cached.
LoadPipe ==
    /\ Goto("load", "sched")
    /\ \/ pipe[at] # None /\ UNCHANGED pipe
       \/ pipe[at] = None /\ Set(at, Loaded(TRUE))
       \/ pipe[at] = None /\ "distill" \in Faults /\ Set(at, Loaded(FALSE))
    /\ UNCHANGED <<scene, at, todo, drawn>>

LoadFails ==
    /\ Raise("load")
    /\ "weights" \in Faults
    /\ pipe[at] = None
    /\ UNCHANGED pipe

ApplyScheduler ==
    /\ Goto("sched", "strip")
    /\ Set(at, [pipe[at] EXCEPT !.sched = SchedulerFor(scene.sched, @)])
    /\ UNCHANGED <<scene, at, todo, drawn>>

\* _adapter_names
Attached(p) == {n \in Names : p.attached[n] # None}

\* _bind_loras first records the base adapters, the first time it comes to the
\* pipeline, ...
BaseOf(p) == IF p.base = None THEN Attached(p) ELSE p.base

\* Seeded bug: every adapter goes, the few-step one with the others.
EverythingStale(p) == Attached(p)

\* ... then deletes the adapters of the scene before ...
Stale(p) == Attached(p) \ BaseOf(p)

StripStale ==
    LET p == pipe[at] IN
    /\ Goto("strip", "attach")
    /\ Set(at, [p EXCEPT
                 !.base = BaseOf(p),
                 !.attached = [n \in Names |-> IF n \in Stale(p) THEN None ELSE @[n]],
                 !.active = @ \ Stale(p)])
    /\ todo' = Bound(scene)
    /\ UNCHANGED <<scene, at, drawn>>

\* ... and attaches this one's, in an order left open.
AttachLora ==
    /\ pc = "attach"
    /\ \E slot \in todo :
         /\ pipe[at].attached[slot] = None
         /\ Set(at, [pipe[at] EXCEPT !.attached[slot] = scene.lora[slot]])
         /\ todo' = todo \ {slot}
    /\ UNCHANGED <<pc, scene, at, drawn>>

\* The name is in use, the file cannot be loaded, or it registered no adapter.
AttachFails ==
    /\ Raise("attach")
    /\ \E slot \in todo : "weights" \in Faults \/ pipe[at].attached[slot] # None
    /\ UNCHANGED pipe

\* set_adapters: base adapters at 1.0 except the few-step one, which follows
\* few_step; with nothing attached nothing is set.
Active(p, s) ==
    IF p.base \cup Bound(s) = {} THEN p.active
    ELSE (IF s.few THEN p.base ELSE p.base \ {Distill}) \cup Bound(s)

Activate ==
    /\ todo = {}
    /\ Goto("attach", IF at = "instantid" THEN "face" ELSE "ip")
    /\ Set(at, [pipe[at] EXCEPT !.active = Active(pipe[at], scene)])
    /\ UNCHANGED <<scene, at, todo, drawn>>

\* set_adapters raises, with any of the pipeline's adapters active by then; without a
\* name it is not called.
ActivateFails ==
    /\ Raise("attach")
    /\ "weights" \in Faults /\ todo = {}
    /\ pipe[at].base \cup Bound(scene) # {}
    /\ \E names \in SUBSET Attached(pipe[at]) :
         Set(at, [pipe[at] EXCEPT !.active = names])

\* _render_instantid: the embedded reference goes to the attention processors.
FaceFound ==
    /\ Goto("face", "draw")
    /\ scene.face
    /\ Set(at, [pipe[at] EXCEPT !.tokens = scene.ref[Head(scene.chars)]])
    /\ UNCHANGED <<scene, at, todo, drawn>>

\* Without a face the scene starts again on the shared keyframe pipeline.
NoFace ==
    /\ Goto("face", "load")
    /\ ~scene.face
    /\ at' = "keyframe"
    /\ UNCHANGED <<pipe, scene, todo, drawn>>

\* The reference cannot be opened, or the face analyzer not loaded.
FaceFails ==
    /\ Raise("face")
    /\ {"weights", "image"} \cap Faults # {}
    /\ UNCHANGED pipe

\* Seeded bug: more encoders than wanted will do.
AtLeastEncoders(loaded, n) == loaded >= n

\* _ensure_ip_adapter: exactly n encoders; another count is unloaded first.
EnoughEncoders(loaded, n) == loaded = n

EncodersReady ==
    /\ Goto("ip", "draw")
    /\ Set(at, [pipe[at] EXCEPT !.ip =
                 IF EnoughEncoders(@, Encoders(scene)) THEN @ ELSE Encoders(scene)])
    /\ UNCHANGED <<scene, at, todo, drawn>>

EncodersFail ==
    /\ Raise("ip")
    /\ "weights" \in Faults
    /\ ~EnoughEncoders(pipe[at].ip, Encoders(scene)) /\ Encoders(scene) > 0
    /\ Set(at, [pipe[at] EXCEPT !.ip = 0])

\* A reference cannot be opened: the single engine opens its one before it turns to
\* the encoders, the regional engine opens its own after.
ReferenceBroken ==
    /\ \/ Raise("ip") /\ Engine(scene) = "single"
       \/ Raise("draw") /\ Engine(scene) = "regional"
    /\ "image" \in Faults /\ Referenced(scene) # {}
    /\ UNCHANGED pipe

\* The regional engine indexes the reference of every character.
ReferenceMissing ==
    /\ Raise("draw")
    /\ Engine(scene) = "regional" /\ Referenced(scene) # Shown(scene)
    /\ UNCHANGED pipe

\* What the pipeline call injects into the image.
Injected ==
    LET p == pipe[at] IN
    [scene |-> scene, on |-> at, few |-> p.few, sched |-> p.sched, ip |-> p.ip,
     adapters |-> [n \in Names |-> IF n \in p.active THEN p.attached[n] ELSE None],
     tokens |-> p.tokens]

\* Seeded bug: the tokens stay on the processors.
KeepTokens(p) == p

\* The finally clause of _render_instantid, after the call or its failure.
ClearTokens(p) == [p EXCEPT !.tokens = None]

Draw ==
    /\ Goto("draw", "idle")
    /\ Engine(scene) = "regional" => Referenced(scene) = Shown(scene)
    /\ drawn' = Injected
    /\ Set(at, ClearTokens(pipe[at]))
    /\ scene' = None /\ at' = "keyframe"
    /\ UNCHANGED todo

DrawFails ==
    /\ Raise("draw")
    /\ "draw" \in Faults
    /\ Set(at, ClearTokens(pipe[at]))

Next ==
    \/ Begin \/ LoadPipe \/ LoadFails \/ ApplyScheduler
    \/ StripStale \/ AttachLora \/ AttachFails \/ Activate
    \/ ActivateFails
    \/ FaceFound \/ NoFace \/ FaceFails
    \/ EncodersReady \/ EncodersFail \/ ReferenceBroken \/ ReferenceMissing
    \/ Draw \/ DrawFails

Spec == Init /\ [][Next]_vars

-----------------------------------------------------------------------------
(* Properties *)

\* What a pipeline that was loaded for this scene alone would have injected.
Asked(d) ==
    LET s == d.scene IN
    [scene |-> s, on |-> d.on, few |-> d.few,
     sched |-> SchedulerFor(s.sched, Pristine),
     ip |-> IF d.on = "instantid" THEN 0 ELSE Encoders(s),
     adapters |-> [n \in Names |->
                     IF n = Distill
                     THEN IF s.few /\ d.few THEN Few ELSE None
                     ELSE IF n \in Bound(s) THEN s.lora[n] ELSE None],
     tokens |-> IF d.on = "instantid" THEN s.ref[Head(s.chars)] ELSE None]

\* No image depends on the scenes the pipeline drew, or gave up, before it: the
\* sampler, the identities, their weights and the few-step LoRA are those of a
\* pipeline loaded for this scene alone.
DrawnAsAsked == drawn # None => drawn = Asked(drawn)

\* The base adapters a pipeline recorded are the ones its loader attached, for
\* good; a character adapter is never taken for one of them.
BaseIsFewStep ==
    \A p \in Pipes : pipe[p] # None /\ pipe[p].base # None =>
        pipe[p].base = IF pipe[p].few THEN {Distill} ELSE {}

\* No identity outlives the scene it was embedded for, however that scene ends.
TokensCleared == pc = "idle" => \A p \in Pipes : pipe[p] # None => pipe[p].tokens = None
=============================================================================
