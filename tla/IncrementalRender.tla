------------------------- MODULE IncrementalRender -------------------------
(***************************************************************************)
(* The life of render jobs on one project: worker.py, harness/handler.py   *)
(* and pipeline.py around the R2 objects of that project.                  *)
(*                                                                         *)
(* A worker takes one job at a time.  It restores the project state tar    *)
(* into its work directory, extracts the bundle over it, plans, trains and *)
(* draws, uploads every artifact, and last of all uploads the project tree *)
(* as the next state tar.  Several workers may hold jobs of one project at *)
(* once: the state, film, keyframe and clip keys carry the project but no  *)
(* job id.  A job may fail at any call that can raise; a worker may die    *)
(* between any two steps.  What happens inside a GPU stage touches nothing *)
(* another job can see, so each stage is one step.                         *)
(*                                                                         *)
(* Faults names the failures the environment may cause:                    *)
(*   "job"      a call of the job raises (store, ffmpeg, GPU stage)        *)
(*   "crash"    the worker process dies; the next job meets a cold worker  *)
(*   "restore"  the fetch of an existing state tar fails                   *)
(*   "extract"  the extraction of the state tar stops part way             *)
(*   "scan"     listing the restored keyframes stops part way              *)
(*   "hash"     the best-effort write of a keyframe's .hash file fails     *)
(***************************************************************************)
EXTENDS RenderPlanner

CONSTANTS
    Workers,   \* worker processes
    Requests,  \* the requests the control plane may submit
    Faults,    \* see above
    Authored   \* the image of a start_image file

ASSUME RequestsAssumption == Requests \subseteq Request

ASSUME FaultsAssumption ==
    Faults \subseteq {"job", "crash", "restore", "extract", "scan", "hash"}

VARIABLES
    \* R2 objects of the project
    state,     \* projects/<project>/state.tar.gz: the project tree, or None
    adapters,  \* slots whose LoRA key holds an object
    kfObj,     \* keyframe objects
    film,      \* the full.mp4 object: what each shot was animated from
    clipObj,   \* per-shot clip objects of the off-GPU finish
    manifest,  \* shots the manifest object lists, or None
    \* worker processes
    server,    \* model the process-global ModelServer was built with, or None
    pc,        \* where the worker's job is
    req,       \* the job's request
    tree,      \* workdir/project
    known,     \* what _restore_prior_state returned
    plan,      \* the RenderPlan
    made,      \* Outputs of execute
    result     \* the RenderResult

r2   == <<state, adapters, kfObj, film, clipObj, manifest>>
vars == <<state, adapters, kfObj, film, clipObj, manifest,
          server, pc, req, tree, known, plan, made, result>>

-----------------------------------------------------------------------------
(* Types *)

\* An image is what determined it: the parameters it was drawn with, the model
\* that drew it, and the slots whose adapter was bound.
Image == [params: Params, model: Models, scheduler: Schedulers,
          prompt: Prompts, ids: SUBSET Slots]

Source == Image \cup {Authored}

Tree == [kf: [Shots -> Image \cup {None}], hash: [Shots -> Hash \cup {None}],
         trained: SUBSET Slots]

Output == [lora: SUBSET Slots, kf: [Shots -> Image \cup {None}],
           hash: [Shots -> Hash \cup {None}],
           clip: [Shots -> Source \cup {None}]]

Result == [lora: SUBSET Slots, kf: SUBSET Shots, clips: SUBSET Shots,
           manifest: BOOLEAN, output: BOOLEAN, state: BOOLEAN]

Resting == {"idle", "done", "failed"}

Busy == {"restore", "bundle", "stage", "train", "scenes", "loras",
         "keyframes", "film", "state", "respond"}

NoTree   == [kf |-> [s \in Shots |-> None], hash |-> [s \in Shots |-> None],
             trained |-> {}]
NoKnown  == [trained |-> {}, kf |-> {}]
NoPlan   == [train |-> {}, mode |-> [s \in Shots |-> None]]
NoOutput == [lora |-> {}, kf |-> [s \in Shots |-> None],
             hash |-> [s \in Shots |-> None], clip |-> [s \in Shots |-> None]]
NoResult == [lora |-> {}, kf |-> {}, clips |-> {}, manifest |-> FALSE,
             output |-> FALSE, state |-> FALSE]

\* An absent object is none of the objects that could be there.
ASSUME NoneAssumption ==
    /\ None \notin Tree /\ None \notin Hash /\ None \notin Modes
    /\ None \notin Source /\ None \notin [Shots -> Source \cup {None}]

Present(f) == {s \in Shots : f[s] # None}

-----------------------------------------------------------------------------
(* Steps of a job *)

Init ==
    /\ state = None /\ adapters = {} /\ manifest = None
    /\ kfObj   = [s \in Shots |-> None]
    /\ film    = None
    /\ clipObj = [s \in Shots |-> None]
    /\ server  = [w \in Workers |-> None]
    /\ pc      = [w \in Workers |-> "idle"]
    /\ req     = [w \in Workers |-> None]
    /\ tree    = [w \in Workers |-> NoTree]
    /\ known   = [w \in Workers |-> NoKnown]
    /\ plan    = [w \in Workers |-> NoPlan]
    /\ made    = [w \in Workers |-> NoOutput]
    /\ result  = [w \in Workers |-> NoResult]

Goto(w, from, to) == pc[w] = from /\ pc' = [pc EXCEPT ![w] = to]

\* The per-job objects go with the job, and no other job sees its work directory:
\* each has a fresh one.
DropJob(w) ==
    /\ req'    = [req EXCEPT ![w] = None]
    /\ tree'   = [tree EXCEPT ![w] = NoTree]
    /\ known'  = [known EXCEPT ![w] = NoKnown]
    /\ plan'   = [plan EXCEPT ![w] = NoPlan]
    /\ made'   = [made EXCEPT ![w] = NoOutput]

\* The exception propagates to RunPod: no response.
Abort(w) ==
    /\ pc' = [pc EXCEPT ![w] = "failed"]
    /\ DropJob(w)
    /\ result' = [result EXCEPT ![w] = NoResult]
    /\ UNCHANGED <<r2, server>>

\* Seeded bug: the first job of a process leaves the server unbuilt.
ServerUnbuilt(w, r) == server[w]

\* _server(): the specs are those of the first job of the process.
ServerFor(w, r) == IF server[w] = None THEN r.config.model ELSE server[w]

\* worker.handler builds the pipeline over the process-global ModelServer and
\* hands over to the harness.
Receive(w, r) ==
    /\ pc[w] \in Resting
    /\ pc'     = [pc EXCEPT ![w] = "restore"]
    /\ req'    = [req EXCEPT ![w] = r]
    /\ server' = [server EXCEPT ![w] = ServerFor(w, r)]
    /\ result' = [result EXCEPT ![w] = NoResult]
    /\ UNCHANGED <<r2, tree, known, plan, made>>

Restored(w, t, k) ==
    /\ Goto(w, "restore", "bundle")
    /\ tree'  = [tree EXCEPT ![w] = t]
    /\ known' = [known EXCEPT ![w] = k]
    /\ UNCHANGED <<r2, server, req, plan, made, result>>

\* Seeded bug: the tar is rooted at its directory name, so the restored files
\* land one level below the bundle root.
RestoreStateNested(w) ==
    /\ state # None
    /\ Restored(w, NoTree,
                [trained |-> state.trained, kf |-> Present(state.kf)])

RestoreState(w) ==
    /\ state # None
    /\ Restored(w, state, [trained |-> state.trained, kf |-> Present(state.kf)])

\* No prior state, or the fetch failed: the exception is swallowed.
RestoreNothing(w) ==
    /\ state = None \/ "restore" \in Faults
    /\ Restored(w, NoTree, NoKnown)

\* The members before the fault are on disk; tar.add sorts names, so keyframes
\* come before loras, and a .hash just before its PNG.  The exception skips the
\* scan: both sets stay empty.
RestorePart(w) ==
    /\ "extract" \in Faults /\ state # None
    /\ \E K \in SUBSET Present(state.kf), M \in SUBSET state.trained,
          H \in SUBSET Shots :
         /\ K \subseteq H /\ \A s, t \in H \ K : s = t
         /\ K = Present(state.kf) \/ (M = {} /\ H \subseteq Present(state.kf))
         /\ K = Present(state.kf) => H = Shots
         /\ Restored(w,
              [kf      |-> [s \in Shots |-> IF s \in K THEN state.kf[s] ELSE None],
               hash    |-> [s \in Shots |-> IF s \in H THEN state.hash[s] ELSE None],
               trained |-> M],
              NoKnown)

\* The marker set is computed before the keyframe listing that fails.
RestoreScanFails(w) ==
    /\ "scan" \in Faults /\ state # None
    /\ \E K \in SUBSET Present(state.kf) :
         Restored(w, state, [trained |-> state.trained, kf |-> K])

\* Bundle.extract leaves keyframes/ and loras/ of the restored tree alone; then
\* validate() and plan().
LoadBundle(w) ==
    /\ Goto(w, "bundle", "stage")
    /\ Valid(req[w])
    /\ plan'  = [plan EXCEPT ![w] = MakePlan(req[w], known[w].trained,
                                             known[w].kf, tree[w].hash)]
    /\ known' = [known EXCEPT ![w] = NoKnown]
    /\ UNCHANGED <<r2, server, req, tree, made, result>>

RejectJob(w) == pc[w] = "bundle" /\ ~Valid(req[w]) /\ Abort(w)

\* Seeded bug: a pretrained adapter that cannot be fetched is skipped.
StageableBestEffort(w) == TRUE

\* A reference that is a file on the worker is taken as it is.
Stageable(w) == req[w].pretrained \ req[w].local \subseteq adapters

\* Every pretrained adapter is there before any GPU work, or the job fails.
StageLoras(w) ==
    /\ Goto(w, "stage", "train")
    /\ Stageable(w)
    /\ UNCHANGED <<r2, server, req, tree, known, plan, made, result>>

StagingFails(w) == pc[w] = "stage" /\ ~Stageable(w) /\ Abort(w)

\* A planned slot the cast does not define is skipped.
Train(w) ==
    /\ Goto(w, "train", "scenes")
    /\ made' = [made EXCEPT ![w].lora = plan[w].train \cap req[w].cast]
    /\ UNCHANGED <<r2, server, req, tree, known, plan, result>>

\* Adapters on local disk when the keyframes are drawn: the ones this job
\* trained and the staged ones.
LoraPaths(w) == made[w].lora \cup req[w].pretrained

Draw(w, s) ==
    [params |-> req[w].config.params, model |-> server[w],
     scheduler |-> req[w].config.scheduler, prompt |-> req[w].prompt,
     ids |-> req[w].slotsOf[s] \cap LoraPaths(w)]

Drawn(w) == {s \in Shots : plan[w].mode[s] = "generate"}

\* Seeded bug: looks for the keyframe only where this job draws.
ResolveInWorkdir(w, s) ==
    CASE plan[w].mode[s] = "generate" -> Draw(w, s)
      [] plan[w].mode[s] = "inject" /\ s \in req[w].authored -> Authored
      [] OTHER -> None

\* The keyframe the shot is animated from; None skips the shot.
ResolveKeyframe(w, s) ==
    CASE plan[w].mode[s] = "generate" -> Draw(w, s)
      [] plan[w].mode[s] = "inject"   -> IF s \in req[w].authored
                                         THEN Authored ELSE None
      [] plan[w].mode[s] = "reuse"    -> tree[w].kf[s]
      [] OTHER                        -> None

\* The scene loop of execute() and the finishing stage over its clips.  The
\* shots of unhashed lose their .hash write, which is swallowed.
RenderScenes(w) ==
    /\ Goto(w, "scenes", "loras")
    /\ \E unhashed \in SUBSET Drawn(w) :
         /\ unhashed # {} => "hash" \in Faults
         /\ made' = [made EXCEPT
              ![w].kf   = [s \in Shots |-> IF s \in Drawn(w) THEN Draw(w, s)
                                           ELSE None],
              ![w].hash = [s \in Shots |-> IF s \in Drawn(w) \ unhashed
                                           THEN KfHash(req[w].config) ELSE None],
              ![w].clip = [s \in Shots |-> IF WantI2V(req[w])
                                           THEN ResolveKeyframe(w, s) ELSE None]]
    /\ UNCHANGED <<r2, server, req, tree, known, plan, result>>

-----------------------------------------------------------------------------
(* _finish: artifacts to R2, then the tree *)

\* Seeded bug: a failed upload of an adapter is swallowed.
PutLoraBestEffort(w, slot) ==
    /\ pc[w] = "loras"
    /\ slot \in made[w].lora \ result[w].lora
    /\ adapters' \in {adapters, adapters \cup {slot}}
    /\ result'   = [result EXCEPT ![w].lora = @ \cup {slot}]
    /\ tree'     = [tree EXCEPT ![w].trained = @ \cup {slot}]
    /\ UNCHANGED <<state, kfObj, film, clipObj, manifest, server, pc, req,
                   known, plan, made>>

\* Upload one trained adapter, name it in the response, leave its marker in the
\* tree.
PutLora(w, slot) ==
    /\ pc[w] = "loras"
    /\ slot \in made[w].lora \ result[w].lora
    /\ adapters' = adapters \cup {slot}
    /\ result'   = [result EXCEPT ![w].lora = @ \cup {slot}]
    /\ tree'     = [tree EXCEPT ![w].trained = @ \cup {slot}]
    /\ UNCHANGED <<state, kfObj, film, clipObj, manifest, server, pc, req,
                   known, plan, made>>

\* Pretrained references pass through to the response; result.lora has the slots
\* whose reference is an R2 key.
PassPretrained(w) ==
    /\ Goto(w, "loras", "keyframes")
    /\ made[w].lora \subseteq result[w].lora
    /\ result' = [result EXCEPT ![w].lora = @ \cup (req[w].pretrained \ req[w].local)]
    /\ UNCHANGED <<r2, server, req, tree, known, plan, made>>

\* Seeded bugs: the PNG is not copied into the tree; a hash already in the tree
\* is kept.
TreeWithoutKeyframe(w, s) == tree[w]

TreeKeepingHash(w, s) ==
    [tree[w] EXCEPT !.kf[s]   = made[w].kf[s],
                    !.hash[s] = IF @ = None THEN made[w].hash[s] ELSE @]

\* The PNG replaces the one in the tree; the hash does if it was written.
TreeWithKeyframe(w, s) ==
    [tree[w] EXCEPT !.kf[s]   = made[w].kf[s],
                    !.hash[s] = IF made[w].hash[s] = None THEN @
                                ELSE made[w].hash[s]]

\* Upload one keyframe and copy it into the tree.
PutKeyframe(w, s) ==
    /\ pc[w] = "keyframes"
    /\ s \in Present(made[w].kf) \ result[w].kf
    /\ kfObj'  = [kfObj EXCEPT ![s] = made[w].kf[s]]
    /\ result' = [result EXCEPT ![w].kf = @ \cup {s}]
    /\ tree'   = [tree EXCEPT ![w] = TreeWithKeyframe(w, s)]
    /\ UNCHANGED <<state, adapters, film, clipObj, manifest, server, pc, req,
                   known, plan, made>>

KeyframesUp(w) ==
    /\ Goto(w, "keyframes", "film")
    /\ Present(made[w].kf) \subseteq result[w].kf
    /\ UNCHANGED <<r2, server, req, tree, known, plan, made, result>>

\* Off-GPU finish: the clips one by one, then the manifest that lists them.
PutClip(w, s) ==
    /\ pc[w] = "film" /\ req[w].offloaded
    /\ s \in Present(made[w].clip) \ result[w].clips
    /\ clipObj' = [clipObj EXCEPT ![s] = made[w].clip[s]]
    /\ result'  = [result EXCEPT ![w].clips = @ \cup {s}]
    /\ UNCHANGED <<state, adapters, kfObj, film, manifest, server, pc, req, tree,
                   known, plan, made>>

\* Seeded bug: the manifest does not wait for the clips it lists.
ClipsUpUnchecked(w) == TRUE

ClipsUp(w) == Present(made[w].clip) \subseteq result[w].clips

PutManifest(w) ==
    /\ Goto(w, "film", "state")
    /\ req[w].offloaded /\ ClipsUp(w)
    /\ manifest' = Present(made[w].clip)
    /\ result'   = [result EXCEPT ![w].manifest = TRUE]
    /\ UNCHANGED <<state, adapters, kfObj, film, clipObj, server, req, tree,
                   known, plan, made>>

\* Normal finish: the clips are merged and the film uploaded.
PutFilm(w) ==
    /\ Goto(w, "film", "state")
    /\ ~req[w].offloaded /\ Present(made[w].clip) # {}
    /\ film'   = made[w].clip
    /\ result' = [result EXCEPT ![w].output = TRUE]
    /\ UNCHANGED <<state, adapters, kfObj, clipObj, manifest, server, req, tree,
                   known, plan, made>>

\* Nothing to merge: no film object, output_key stays null.
NoFilm(w) ==
    /\ Goto(w, "film", "state")
    /\ ~req[w].offloaded /\ Present(made[w].clip) = {}
    /\ UNCHANGED <<r2, server, req, tree, known, plan, made, result>>

\* Seeded bug: the state is what this job made, without the tree it restored.
OutputTree(w) ==
    [kf |-> made[w].kf, hash |-> made[w].hash, trained |-> made[w].lora]

SavedTree(w) == tree[w]

PutState(w) ==
    /\ Goto(w, "state", "respond")
    /\ state'  = SavedTree(w)
    /\ result' = [result EXCEPT ![w].state = TRUE]
    /\ UNCHANGED <<adapters, kfObj, film, clipObj, manifest, server, req, tree,
                   known, plan, made>>

\* The response is returned; it stays readable in result until the next job.
Respond(w) ==
    /\ Goto(w, "respond", "done")
    /\ DropJob(w)
    /\ UNCHANGED <<r2, server, result>>

-----------------------------------------------------------------------------
(* Failures, and the specification *)

\* Past the upload of the state nothing is left that raises.
FailJob(w) == "job" \in Faults /\ pc[w] \in Busy \ {"respond"} /\ Abort(w)

Crash(w) ==
    /\ "crash" \in Faults /\ server[w] # None
    /\ pc'     = [pc EXCEPT ![w] = "idle"]
    /\ server' = [server EXCEPT ![w] = None]
    /\ result' = [result EXCEPT ![w] = NoResult]
    /\ DropJob(w)
    /\ UNCHANGED r2

Step(w) ==
    \/ RestoreState(w) \/ RestoreNothing(w) \/ RestorePart(w)
    \/ RestoreScanFails(w)
    \/ LoadBundle(w) \/ RejectJob(w)
    \/ StageLoras(w) \/ StagingFails(w)
    \/ Train(w) \/ RenderScenes(w)
    \/ \E slot \in Slots : PutLora(w, slot)
    \/ PassPretrained(w)
    \/ \E s \in Shots : PutKeyframe(w, s)
    \/ KeyframesUp(w)
    \/ \E s \in Shots : PutClip(w, s)
    \/ PutManifest(w) \/ PutFilm(w) \/ NoFilm(w)
    \/ PutState(w) \/ Respond(w)

Next ==
    \E w \in Workers :
        \/ \E r \in Requests : Receive(w, r)
        \/ Step(w)
        \/ FailJob(w)
        \/ Crash(w)

Spec == Init /\ [][Next]_vars

-----------------------------------------------------------------------------
(* Properties *)

TypeOK ==
    /\ state \in Tree \cup {None}
    /\ adapters \in SUBSET Slots
    /\ kfObj \in [Shots -> Image \cup {None}]
    /\ film \in [Shots -> Source \cup {None}] \cup {None}
    /\ clipObj \in [Shots -> Source \cup {None}]
    /\ manifest \in (SUBSET Shots) \cup {None}
    /\ server \in [Workers -> Models \cup {None}]
    /\ pc \in [Workers -> Resting \cup Busy]
    /\ req \in [Workers -> Requests \cup {None}]
    /\ tree \in [Workers -> Tree]
    /\ known \in [Workers -> [trained: SUBSET Slots, kf: SUBSET Shots]]
    /\ plan \in [Workers -> Plan]
    /\ made \in [Workers -> Output]
    /\ result \in [Workers -> Result]

\* The persisted tree, with nothing in it on a fresh project.
Persisted == IF state = None THEN NoTree ELSE state

\* A .trained marker in the project state makes every later job skip the slot's
\* training, so the adapter it stands for must already be in R2: whatever the
\* failures and whoever else is finishing (_finish uploads, then marks).
TrainedMarkerBacked == Persisted.trained \subseteq adapters

\* The hash kf_hash would give for what drew the image.
HashOf(image) == [params |-> image.params, model |-> image.model]

Vouched(t) ==
    \A s \in Shots : t.kf[s] # None /\ t.hash[s] # None =>
        t.hash[s] = HashOf(t.kf[s])

\* A stored hash is the licence to reuse a keyframe: it must be the hash of the
\* parameters and model that drew the PNG it sits next to.
HashVouchesForImage == Vouched(Persisted)

\* When a drawing job reuses a keyframe on the strength of its hash, the image is
\* the one it would have drawn, but for the adapters bound.
ReuseIsExact ==
    \A w \in Workers, s \in Shots :
        /\ pc[w] \in {"stage", "train", "scenes"}
        /\ plan[w].mode[s] = "reuse" /\ WantKeyframe(req[w])
        /\ tree[w].hash[s] # None
        => /\ tree[w].kf[s] # None
           /\ tree[w].kf[s].params    = req[w].config.params
           /\ tree[w].kf[s].model     = req[w].config.model
           /\ tree[w].kf[s].scheduler = req[w].config.scheduler
           /\ tree[w].kf[s].prompt    = req[w].prompt

\* Every R2 key a response names holds an object, and so does the project state,
\* whichever other jobs ran in between and whichever of them failed.
ResponseBacked ==
    \A w \in Workers : pc[w] = "done" =>
        /\ result[w].lora \subseteq adapters
        /\ result[w].kf \subseteq Present(kfObj)
        /\ result[w].clips \subseteq Present(clipObj)
        /\ result[w].output => film # None
        /\ state # None

\* A published manifest lists only clips that are in R2: the off-GPU muxer never
\* chases a missing object.
ManifestBacked == manifest # None => manifest \subseteq Present(clipObj)

\* No step loses a persisted keyframe or a training marker.  LedgerSpec implies it
\* for one job at a time; a second worker, or a job that saves its tree after a
\* restore that failed, breaks it.
StateOnlyGrows ==
    [][/\ Present(Persisted.kf) \subseteq Present(Persisted'.kf)
       /\ Persisted.trained \subseteq Persisted'.trained]_vars

\* A delivered film shows the keyframes of the state saved with it: a later
\* finalize or preview continues from what the user was shown.
FilmShowsSavedKeyframes ==
    \A w \in Workers : pc[w] = "respond" /\ result[w].output =>
        \A s \in Shots : film[s] \in {None, Authored, Persisted.kf[s]}

\* A delivered film has every shot the job was asked for that the state saved with
\* it has a keyframe of: execute() drops a shot whose keyframe it does not find, so a
\* film may come out short without an error.  The one excuse is a start_image whose
\* file the bundle lacks.
FilmHasEveryShot ==
    \A w \in Workers : pc[w] = "respond" /\ result[w].output =>
        \A s \in InScope(req[w]) \ (req[w].start \ req[w].authored) :
            Persisted.kf[s] # None => film[s] # None

\* The project's promise, read off the R2 objects: ProjectLedger, as long as one job
\* runs at a time and the state tar can be read.
Ledger == INSTANCE ProjectLedger
    WITH published <- state

LedgerSpec == Ledger!Spec

\* A slot whose training the plan skipped because its LoRA exists is still drawn
\* with its adapter bound.
IdentityKept ==
    \A w \in Workers, s \in Shots :
        pc[w] = "loras" /\ made[w].kf[s] # None =>
            req[w].slotsOf[s] \cap (tree[w].trained \cup made[w].lora
                                    \cup req[w].pretrained)
            \subseteq made[w].kf[s].ids
=============================================================================
