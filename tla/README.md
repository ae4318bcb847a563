# Verification of vivijure-backend

TLA+ models of the vivijure GPU render worker (`src/vivijure_backend`), the TLC
configurations that check them on small instances, and TLAPS proofs of the
properties that hold for every instance. Paths below are relative to
`src/src/vivijure_backend` of the repository unless they say otherwise.

The worker renders a storyboard: it trains a LoRA per character, draws a
keyframe per shot, animates each keyframe, finishes the clips and merges them
into a film. Its state lives in four places with four lifetimes, and most of
what can go wrong goes wrong between two of them:

| state | lifetime | who writes it |
|---|---|---|
| R2 objects of a project (state tar, adapters, keyframes, clips, film, manifest) | the project | every job of the project, from any worker |
| R2 objects of a job (event log, snapshot) | the job id, across redeliveries | the emitter of each delivery |
| model cache on disk and its sentinels | the container | main thread and prefetch thread |
| warm pipelines (SDXL, Wan), `ModelServer` | the process | every scene of every job |

## 1. Inventory

### Components

| component | state it keeps | operations | what makes it correct |
|---|---|---|---|
| **Render planner** `orchestrator.py` | none (pure) | `validate`, `_slots_to_train`, `_keyframe_mode`, `kf_hash`, `plan` | trains exactly what is missing; reuses a keyframe only when it is the one the job would draw |
| **Job life cycle** `harness/handler.py`, `pipeline.py`, `worker.py` | work directory, outputs of the job, R2 objects of the project, the process-global `ModelServer` | restore, extract, stage, train, draw, animate, finish, upload, save, respond | what the state, a response or a manifest points at exists; nothing done is done again; a film has every shot |
| **Model mirror** `harness/models_mirror.py`, `harness/r2.py` | cache, symlink markers, two sentinels, prefetch thread | `ensure_models`, `start_i2v_prefetch`, `ensure_i2v_models` | a sentinel tells the truth; two pulls never overlap; a job never hangs on the prefetch |
| **Progress channel** `harness/progress.py`, `harness/keys.py` | events and snapshot in memory, two R2 objects per job | `emit`, `complete`, `error`, `_write_r2` | a poller reads a true prefix of what happened; no failure of the channel fails a render |
| **Keyframe engine** `keyframe.py`, `models.py` | adapters, active set, scheduler, encoders and identity tokens on two warm SDXL pipelines | `render_keyframe` and what it calls | an image does not depend on the scenes drawn before it |
| **Image-to-video engine** `i2v.py`, `models.py` | distill LoRA in the weights, flow shift, feature caches of two experts | `animate` and what it calls | a distilled clip lacks no more of its LoRA than the loader skipped, no residual of another shot |
| **Shot numbers** `config.py`, `i2v.py`, `keyframe.py`, `finish.py` | none (pure) | clamps, `snap_frames`, `region_boxes`, `output_fps`, passes | the frame count is one the model accepts, duration is kept, regions tile the canvas |
| **Input contract** `contract.py` | none (files on disk) | tolerant parsing, `Bundle.extract` over the restored tree | what a bundle carries is what the job uses; an unsafe or incomplete tree is refused whole |
| **LoRA trainer** `lora_train.py` | steps, accumulated gradients, checkpoints of one call | `train_slot` per planned slot | an adapter is drawn from the images of its bundle, none of them stale, and has every full window of its run |
| **Finish stage** `finish.py` | none (cached GPU models) | `finish_clip` over the clips of a film | finished clips, all of them, replace the raw ones |
| **Film assembly** `assemble.py` | work files, `full.mp4` | order, manifest, stream copy, re-encode, audio bed | the cut is the storyboard's; only a whole film is published |
| **Registry loaders, `device.py`, `routing.py`** | constants, caches | loaders, classification | table look-ups |
| **Deployment, scripts** (outside the package) | none at run time | image builds | not part of the running worker |

### Interactions

```
control plane --job--> worker.handler --> harness.handler --> run_job
                          |                   |  ensure_models / start_i2v_prefetch (mirror)
                    ModelServer (global)      |  restore state tar, extract bundle
                          |                   |  Pipeline.execute: plan -> train -> keyframes -> i2v -> finish
                          +-- warm SDXL, Wan -+  _finish: uploads, state tar, response
                                              |  ProgressEmitter -> R2 log, then snapshot
```

* The planner reads what `_restore_prior_state` found; what a job saves is what
  the next one plans from. Nothing but the state tar carries that knowledge.
* Jobs of one project meet in R2 only: keys carry the project but no job id,
  the progress keys excepted. There is no lock and no version check.
* The main thread and the prefetch thread meet in the model cache and in a
  thread handle.
* Scenes of different jobs meet on the warm pipelines.
* A bundle meets the files of earlier bundles in the work tree: it is extracted
  over the restored state, and the trainer reads whatever lies there.
* Scenes that share an id meet in one clip file, one object and one entry of
  `scenes_by_id`.

### What is hard

Concurrent jobs that read, modify and write one state tar; an exception at any
of about twenty calls between the first upload and the last; best-effort calls
whose exceptions are swallowed (restore, hash file, progress, symlinks, flow
shift, feature cache, LoRA loaders, the audio
bed); processes that die mid-pull or mid-job and
jobs delivered again; process-wide state that outlives the job that set it;
integer boundaries in the frame, rate, region and training-step arithmetic. `PROJECT.json`
lists forty such places ("hazards"), each at its line, with the properties that
cover it or the reason why none does.

## 2. Modules

| module | models | checked by | proved in |
|---|---|---|---|
| `RenderPlanner` | the planner, as operators on a request record | through `IncrementalRender` | used by `IncrementalRender_proofs` |
| `IncrementalRender` | the life of jobs of one project on any number of workers | `IncrementalSerial`, `IncrementalShared`, `IncrementalFaulty`, two runs that exhibit findings | `IncrementalRender_proofs` |
| `ProjectLedger` | what incremental rendering promises, without workers or jobs (abstract) | refined by `IncrementalRender` in `IncrementalSerial` | `IncrementalRender_proofs` (the refinement) |
| `LoraTraining` | the training loop: windows, updates, checkpoints | through `CharacterJobs` | `CharacterJobs_proofs` |
| `CharacterJobs` | bundles over restored trees, and the adapters trained from them, job after job; composes `LoraTraining` | `CharacterJobs` | `CharacterJobs_proofs` |
| `FilmAssembly` | scene loop, finishing loop, ordering, manifest, merge, audio bed of one job | `FilmAssembly` | `FilmAssembly_proofs` |
| `ModelMirror` | cold pull, prefetch thread, lazy pull | `ModelMirror` | `ModelMirror_proofs` |
| `ProgressChannel` | emitter, its two objects, the calls that drive it | `ProgressChannel` | `ProgressChannel_proofs` |
| `ProgressFeed` | what the channel promises a poller: a log replaced whole, a snapshot that is its summary (abstract) | refined by `ProgressChannel` in its run | `ProgressChannel_proofs` (the refinement) |
| `WarmKeyframes` | scenes on the warm SDXL pipelines | `WarmKeyframes` | `WarmKeyframes_proofs` |
| `WarmI2V` | shots on the warm Wan pipeline | `WarmI2V` | `WarmI2V_proofs` |
| `ShotMath` | the numbers of a shot, end to end | `ShotMath` | `ShotMath_proofs` |

`MC*` modules only hold the constants of the runs. Definitions introduced by
"Seeded bug" are never used by a specification: each is a plausible mistake in
the operator defined right after it, and shows that a property notices it.

### IncrementalRender

| variable | code |
|---|---|
| `state` | `projects/<project>/state.tar.gz`: keyframes, `.hash` files and `.trained` markers of the tree |
| `adapters`, `kfObj`, `clipObj`, `film`, `manifest` | the other R2 objects of the project |
| `server` | `worker._SERVER`, built from the first job of the process |
| `pc`, `req` | where `run_job` / `execute` / `_finish` is, and its request |
| `tree` | `workdir/project` |
| `known` | `(trained, existing_keyframes)` returned by `_restore_prior_state` |
| `plan`, `made`, `result` | `RenderPlan`, `Outputs`, `RenderResult` |

One action per step whose effect another job, or a failure, can tell apart:
restore (four outcomes: restored, nothing or swallowed fetch, extraction cut
short, scan cut short), `LoadBundle` (extract, validate, plan), `StageLoras`,
`Train`, `RenderScenes`, one `PutLora` / `PutKeyframe` / `PutClip` per upload,
`PassPretrained`, `KeyframesUp`, `PutManifest` / `PutFilm` / `NoFilm`,
`PutState`, `Respond`. A GPU stage is one step: until `_finish` uploads, nothing
it does is visible outside the job. `FailJob` is an exception at any call,
`Crash` the death of the process.

An image is a record of what determined it (parameters, model, scheduler,
prompt, bound adapters), a hash the record of what `kf_hash` folds, taken to be
injective. A pretrained reference is an R2 key or, as in a pre-staged deployment, a
file on the worker (`local`), which is not fetched. Uploads inside a loop happen in any order, which includes the code's.

### CharacterJobs and LoraTraining

| variable | code |
|---|---|
| `tree` | `workdir/project`: which bundle each of `storyboard.yaml`, `registry.json` and the reference images is from, and the `.trained` markers |
| `known`, `planned` | the trained slots the restore reported, the slots of the plan still to train |
| `slot`, `training`, `step`, `pending`, `updates`, `checkpoints` | the call of `train_slot`: steps, gradients since the last optimizer step, optimizer steps, `checkpoint-<n>` directories |
| `loras`, `state`, `adapters` | `outputs.loras`, the state tar, the LoRA objects |

`IncrementalRender` takes training as one step and a bundle as the prompt of its
request; here both are opened up. A file is known by the bundle it came from, so
that a property can say whose image an adapter was fit to. The restore has three
outcomes (whole, none, cut short: the tar is sorted, so what a part can hold is
not arbitrary; when only the scan fails the tree is whole and nothing is known),
`Overlay` is `extractall`, `Extractable` the two ways a bundle is
refused. `TrainStep` is one turn of the loop; the images it draws are random, so
`EndSlot` records any set of them (`Draws`) that a run of its length can have met.

### FilmAssembly

The job (`story`, `animated`, `frames`, `job`) is chosen once: storyboards with
repeated ids, any set of their positions to animate, clips of one or more frames,
every combination of finishing switches, delivery and audio bed. `files`, `out`,
`finished`, `ordered` are the work directory and the lists `execute` and
`_finish` hand on; `full` is `full.mp4`. After the film or the manifest is up the
job may still fail, in a probe of the film or the upload of the state. A clip remembers the storyboard
position it was animated for: with repeated ids that is the last of them, as in
`scenes_by_id`. A merge that fails leaves nothing or a partial file
(`Leftovers`), and fails for certain when the bed has no audio stream.

### ModelMirror

`copy`, `markers`, `sentinel`, `i2vDone` are the disk and survive a `Crash`
(`unlinked` is history: the links the latest walk logged as lost);
`handle`, `pc`, `pulling`, `todo` are the process. `ensure_i2v_models` is
written once for both callers, as in the code: `Join(x)` waits only in the main
thread. `PlainLegs` are the cold legs outside the HF home (antelopev2, RIFE, GFPGAN):
they have no links to rebuild. A copy is two steps, so a failure or a death leaves a partial leg.
`creds` is chosen at the start: without R2 credentials every pull is skipped.

### ProgressChannel

`log` and `snap` are the R2 objects with the delivery that wrote them; `events`
and `view` the emitter's memory. `emit` is three steps (memory, log, snapshot):
another job, a crash, or a poller can come between any two. `lost` and `cause`
are observers: whether the latest emit reached R2, and what raised.
`ProgressFeed` knows nothing of emitters, phases or failures: a delivery tells a
story, the log is replaced by the whole story so far, the snapshot by the summary of
the log that is there, and a last word is the last. `Feed` maps `events` to the
story and `attempt` to the delivery; everything else stutters.

### WarmKeyframes and WarmI2V

Every step of `render_keyframe` and `animate` that changes a warm pipeline is an
action, every exception one that leaves the pipeline as it is at that point. In
`WarmI2V` `failed` observes which best-effort settings of the shot failed; the
code only prints it. `added` counts, for each expert and each pair of the distill
LoRA, how often its delta is in the weights, and `skipped` observes what the latest
loader left out: diffusers fuses into the experts it picks, the LightX2V loop goes
pair by pair and skips an expert that has no such matrix. Either may stop half way
and leave what it has added. Scenes and shots come in any order and number.

### ShotMath

The clamps, layout, frame count, interpolation and encoding of one shot, as the
steps a request goes through; the state carries every intermediate number, so
that a property can relate the override to the finished clip.

## 3. Runs

| run | question | bounds | distinct states |
|---|---|---|---|
| `IncrementalSerial` | Does the project state evolve as `ProjectLedger` promises, with failing jobs and a dying worker? Does a film show the keyframes saved with it, and every shot? | 1 worker, 2 shots, 1 slot, 2 parameter sets, 10 requests covering every action, faults job, crash | 2.64 M |
| `IncrementalShared` | With two jobs of one project in flight, does everything the state, a response and the manifest name exist? | 2 workers (symmetric), 2 shots, 1 slot, 3 requests, faults job, crash, restore | 1.03 M |
| `IncrementalFaulty` | When the restore fails in every way the code swallows, is reuse still exact? | 1 worker, 1 shot, 2 slots, 2 parameter sets, 2 schedulers, 2 prompts, 5 requests, faults job, restore, extract, scan | 247 k |
| `CharacterJobs` | Over jobs whose bundles gain, drop and lack files, is each adapter drawn from its bundle's images, and of a whole run? | 2 slots, 2 images, 5 bundles, up to 3 steps, windows of 1 and 2, checkpoints off or every step, every fault | 769 k |
| `FilmAssembly` | Is what is delivered the storyboard's cut, finished and whole; does the job end? | 2 ids, up to 3 scenes, clips of 1 and 2 frames, every job, every fault | 464 k |
| `ModelMirror` | Do sentinels tell the truth, do pulls exclude each other, does a job ever hang? | 2 cold legs, one of them plain, 2 repositories, faults pull, link, crash | 1 660 |
| `ProgressChannel` | Does the channel implement `ProgressFeed`; is what a poller reads true, whatever writes are lost; is the outcome reported, and final? | 2 jobs, 1 stage, one redelivery, every fault | 509 k |
| `WarmKeyframes` | Is each image the one a freshly loaded pipeline would draw? | 12 scenes, 2 slots, 2 identities, every fault | 133 k |
| `WarmI2V` | Distill and feature cache over any sequence of shots | 2 experts, 2 pairs, 2 flow shifts, 3 cache modes, every fault | 226 k |
| `ShotMath` | Frame count, duration, regions over overrides on, inside and outside their bounds | 3 700 requests | 25 k |
| `IdentityLost`, `WarmModelHash` | the findings below: TLC must find the statement violated | smallest instance that shows it | stops at the counterexample |

Why the bounds suffice. The properties of `IncrementalRender` speak of one shot
or slot at a time and of pairs of jobs: two shots separate "in scope" from
"not in scope" and "drawn" from "reused", two parameter sets separate a hash
that matches from one that does not, two workers give every interleaving of a
reader and a writer of the state. What is proved below holds at any size. Jobs
are not counted: a worker takes any number of them one after the other, and the
project state is whatever that history left. `ProgressChannel` bounds
deliveries (`MaxAttempts`); one job with a redelivery and one without are all
the ways two keys can differ. `WarmKeyframes` needs two scenes to leak from one
to the next; its twelve cover the engines, the adapters a slot has or lacks,
the same slot in two projects, and every exception. `FilmAssembly` needs three
scenes of two ids to have a repeated id next to, before and after another one,
and clips of one and of two frames, which is all interpolation tells apart.
`CharacterJobs` needs two bundles to leave files of one under the other, two
slots for a job that fails after its first adapter, and three steps for a full
and an unfinished window of two; every larger run is in the theorems.

Deadlock is checked in all runs except `ProgressChannel`, `ShotMath` and
`FilmAssembly`, whose systems do stop: every job delivered and ended, the shot
finished, the one job done or failed.

### What the runs do not promise

* `LedgerSpec` is checked for one job at a time and a readable state tar.
  With two workers the later `PutState` overwrites the earlier one's work, and
  after a swallowed restore failure a job saves its own smaller tree over the
  good one. `StateOnlyGrows` in `IncrementalRender` states what is lost. It
  holds in neither case; without them it is theorem `StateGrows`, which asks less
  than the ledger does. Work is redone; nothing is wrongly reused.
* `HashVouchesForImage` needs the hash file to be written. With the "hash" fault
  a redrawn PNG can keep the hash of the old one. It needs one base model too; what
  is left without that is theorem `ReusesParams`.
* `SentinelHonest` and `LoadsWholeMirror` excuse the links that a walk gave up on
  (`unlinked`): `_reconstruct_symlinks` logs a link it cannot make, and the sentinel
  is written all the same. Any other marker, and any leg not whole, violates them.
* `PollerSeesPrefix` and `TerminalIsFinal` are per delivery: a redelivery starts
  its log from nothing.
* `OutcomeReported` excuses the causes that have no emitter (R2 configuration,
  setup before the emitter) and an outcome whose own write was lost.
* `CacheNeverLeaks` excuses an expert that refused to drop its cache; `ShiftAsAsked`
  (proved, in no run) a scheduler that could not be rebuilt for this very shot.
* `RegionsApart` needs strips wider than the gutter; configuration admits others.
* `FilmHasEveryShot` excuses a `start_image` whose file the bundle lacks, and shots of
  which the project has no keyframe: a finalize that comes first makes no film of them.
* `ReuseIsExact` holds in `IncrementalFaulty` because its requests differ in a
  parameter `kf_hash` folds whenever they differ in scheduler or prompt (finding 3).
* `DistilledClipHasLora` does not say that the LoRA is whole. One pair in one expert
  satisfies the code's gate, and the property asks no more than that whatever is not in
  the weights was tried and skipped. It does not count either: a LoRA may be in twice,
  when the first loader raised after its fuse.
* `CutFollowsStory` states which scene each piece shows: of several scenes with one id,
  the last, at every position of the id. The others are lost; that is the code's doing.
* `OnlyWholeFilm` lets a job that fails after its upload leave a film or a manifest
  behind, as the code does; what is left is whole.
* `AdapterSawBundle` says that the bundle's own images are all there to draw from and
  win. The images an earlier bundle left behind are there too, and in a run of few steps
  an image may never be drawn.
* `AdapterComplete` counts full windows: the gradients of the last, unfinished one
  are dropped, all of them when the run is shorter than a window.
* `DeliveredAsFinished` speaks of clips with a pair of frames: a clip of one frame is
  encoded at its own rate.

### Fairness

`handler()` is one synchronous call and RunPod gives a worker one job at a time,
so a worker that holds a job keeps executing it: weak fairness of `Step(j)` in
`ProgressChannel` and of the engine's steps in `WarmI2V`; `FilmAssembly` is such a call, with weak fairness of its
whole next-state relation. In `ModelMirror` both threads are scheduled and an rclone
copy ends or raises: weak fairness of `Main` and of `Lazy("thread")`. Nothing
obliges the control plane to submit or redeliver, or a fault to happen or to
stop happening. No strong fairness is used.

## 4. Proofs

Checked by tlapm for every value of the constants that meets the named
assumptions.

`IncrementalRender_proofs`

* `TypeCorrect`. The inductive invariant `TypeInv` is `TypeOK` and `Bound`: a
  busy worker has a request and a built server. Without `Bound` the
  record a keyframe is drawn from would not be an image.
* `MarkersBacked`: a `.trained` marker in the state has its adapter in R2, for
  any number of workers and all faults. `TrainedMarkerBacked` is not inductive,
  since `PutState` publishes whatever the tree holds: `MarkerInv` adds that every
  work tree is backed as well. It rests on adapters never being deleted and on
  `_finish` uploading before it marks.
* `ResponsesBacked`: every key a response names holds an object. `ResponseInv`
  claims it from the moment a key enters the result, and that staged
  pretrained adapters exist.
* `ManifestsBacked`: what the manifest lists has a clip object; from the half of
  `ResponseInv` that speaks of clips.
* `HashesVouch`: `Faithful => (Spec => []HashVouchesForImage)`, where `Faithful`
  says that the hash file is always written (`Written`) and that all requests name
  one base model. Both halves are needed: the "hash" fault and run `WarmModelHash`
  break the property. The inductive part is `ParamsInv`, which needs `Written` only:
  a keyframe and the hash beside it, in the state, a work tree or the hands of a
  job, are of the same parameters.
* `ReusesExact`: `Faithful` and `HashDetermines` give `Spec => []ReuseIsExact`.
  `HashDetermines` speaks of requests only: those that agree in the parameters
  `kf_hash` folds agree in scheduler and prompt, which it leaves out (finding 3). They
  may otherwise have any number of each. Any number of workers, every other fault.
  `OriginInv` says that every image, in the state, a tree or the hands of a job, has
  the parameters, scheduler and prompt of one request; `HashInv` that the hash beside it
  is of those parameters; `ReuseInv` that a
  reported keyframe is in the tree and that the tree a plan was made for does not
  change before its scenes are drawn. Equal hashes then lead back to equal requests.
* `ReusesParams`: `Written => (Spec => []ReuseHasParams)`, any number of models,
  schedulers and prompts, warm workers that kept another model included: the part of
  `ReuseIsExact` that findings 2 and 3 leave standing. From `ParamsInv` and
  `ReuseInv`.
* `FilmsShowSaved`: `Alone => (Spec => []FilmShowsSavedKeyframes)`, where `Alone`
  says one worker, for every fault. `FilmInv` follows the clips from the scene loop
  to the film: each is of the authored image or of the keyframe the saved tree will
  hold.
* `FilmsComplete`: `Alone => (Spec => []FilmHasEveryShot)`. `CoverInv` carries from
  the plan to the film that each shot in scope is to be drawn, injected, or reused
  from a keyframe that is in the tree.
* `StateGrows`: `Readable => (Spec => StateOnlyGrows)`, where `Readable` is `Alone`
  without the "restore" and "extract" faults; any models, and hash files written or
  not. `GrowInv` says that the work tree of the one running job holds no less than
  the state it will replace; `StateWritten`, that nothing else writes the state.
* `ImplementsLedger`: `Orderly => (Spec => LedgerSpec)`, where `Orderly` is
  `Readable` and `Faithful`. `LedgerInv` adds to `GrowInv` that each shot of the
  work tree is as it was restored or drawn anew with its hash; `MarkerInv` and
  `HashInv` supply the adapters and the hashes. Each hypothesis is needed: see "What
  the runs do not promise".
* `JobsMoveOn`: see "Descent" below.

`CharacterJobs_proofs`

* `CharactersTyped`, `Accounted`: for any slots, images, bundles and knobs.
  `TrainerInv` is `UpdatesAccounted` (gradients between updates, and checkpoints at
  their cadence) with the counters at 0 outside a call; the products with the
  window rest on arithmetic facts stated as lemmas.
* `AdaptersSawBundle`: `SawInv` says that from extraction on the tree carries the
  bundle's images as the bundle has them, and the adapters in hand were drawn from it.
* `AdaptersComplete`: `AdapterComplete` speaks of the adapters in hand and in R2 and is
  inductive beside `TrainerInv`; the quotient comes from `GradientsAccounted` at the
  last step.

`FilmAssembly_proofs`

* `FilmTyped`, `FilmsWhole`, `CutsFollowStory`, `FinishedDelivered`: storyboards of any
  length, repeated ids, every fault. `FilmInv` is five parts: every listed clip has
  its file and the file shows its scene (`FilesInv`), the list names each animated
  scene's id from one directory (`OutInv`), what was ordered so far is one clip for every
  filmed scene met, at its place (`CutInv`), and what was uploaded is what lies in
  the files (`DeliveryInv`).

`ProgressChannel_proofs`

* `ChannelTyped`, `OutcomesReported`, `TerminalsFinal`: any jobs, stages,
  redeliveries and faults. `R2Inv` relates the two objects to the memory of the
  delivery that wrote them, `MemoryInv` the emitter's view to where the job is.
* `PollersSeePrefix`: `FeedInv` says that the view in memory is the summary of the
  events, that between the two writes the log in R2 is all of them, and that a
  snapshot in R2 is the summary of a beginning of the log. `SummaryGrows` carries
  it over an emit: the summary of a longer story is the view `emit` computes. A
  lost log write holds the snapshot back (`_write` leaves at the first exception);
  without that order the invariant fails, and mutants show it.
* `AnnouncedDone`: `ScriptInv` says which event stands at which place of the story at
  each point of the job.
* `ImplementsFeed`: `Spec => FeedSpec`. `StoryInv` is the three invariants together;
  `StepIsFeedStep` maps an emit to a telling, each write to its replacement, a
  delivery to a new story, and every pass, failure, swallowed write and crash to a
  stutter.
* `DeliveriesRunOut`: see "Descent" below.

`WarmKeyframes_proofs`

* `WarmTyped`, `ScenesApart`, `NoTokensLeft`, `BaseFewStep`: any slots, looks, scenes and
  faults. `PipesInv` says what may be on a pipeline between scenes, and that the
  base adapters recorded are the few-step LoRA or nothing; `StepInv` what each
  step of the scene in hand has already put right. Their conjunction is what makes
  a warm pipeline as good as a fresh one at the denoise.

`ShotMath_proofs`

* `FramesFit`, `PlaysAsAnimated`, `RegionsFill`: any overrides whatever, not only those of
  the run. `CfgInv` bounds what the clamps let through, `BoxInv` and `FrameInv`
  what the steps make of it. The arithmetic of `SnapFrames`, of the strips and of
  the passes is in lemmas.

`ModelMirror_proofs`

* `MirrorTyped`, `PullsAlternate`, `PrefetchFirst`, `SentinelsHonest`, `LoadsWhole`:
  any legs, repositories and faults, links that cannot be made among them
  (`NoLinkLost`: without those nothing is excused). `Turns` says that a live handle
  and a running thread are the same thing and that the main thread is past its
  join only when the thread is gone; `Progressing` says what each pull has
  already copied at each point, which is what the sentinel relies on.

`WarmI2V_proofs`

* `MovesTyped`, `DistilledHaveLora`, `ShiftsOwn`, `NoResiduals`: for any experts,
  pairs, flow shifts and faults. `LoraInv` relates the flags of the pipeline to its
  weights and to what its loader skipped, and the gate of `_set_distill` to every later point of the shot;
  `ShiftAsAsked` is inductive as it stands; `CacheInv` extends `CacheNeverLeaks`
  back to the point where caches are enabled, since the denoise alone does not
  remember who filled them.

Descent

Liveness itself (`DeliveredEnds`, `I2VDecided`, `ShotEnds`, `FilmEnds`)
is beyond the prover, which has neither fairness nor ENABLED. What it rests on is
proved, for render jobs too, whose end no run checks, for every value of the constants: no step goes round.

| theorem | what descends with every step |
|---|---|
| `JobsMoveOn` | the point of the job, and within the three upload loops the set still to upload; other jobs never add to it |
| `DeliveriesRunOut` | a number, 3n + 18 at the delivery of a job of n stages: points ahead times an event and its two writes |
| `PullsMoveOn` | the point of each thread, and within a pull the legs still to copy; the other thread never adds to them |
| `ShotsMoveOn` | the one retry, then the point of the shot, then the experts without a cache |
| `FilmRunsOut` | a number, at most 4n + 13 for n scenes, and it is a natural number throughout |

The orders on sets are well founded when shots, slots, legs and experts are finitely
many, as they are. What stays with TLC is that a step is possible wherever the job is
not at its end, and that fairness then takes it.

Only model-checked: the four liveness properties, as said. Every invariant and action
property that a passing run checks is stated by a theorem. What a poller's counts are
needs no induction over sequences: `Summary` counts with `Cardinality` over positions,
so that an appended event adds at most one position.

## 5. Findings

Shown by a run (the run fails by design):

1. `IdentityLost`: a second preview skips training on the strength of a marker,
   but nothing fetches the adapter it stands for; the character is drawn
   without its LoRA.
2. `WarmModelHash`: a warm worker draws with the model it has and stores the hash
   of the model that was asked for.

Met while modelling, documented in `PROJECT.json` with the quoted lines:

3. a new bundle of the same project with another prompt reuses the old keyframe;
   the state tar is keyed by project, so it is not "naturally stale";
4. `regen_shot` with unchanged parameters redraws nothing;
5. an audio bed without an audio stream fails the job, though "audio is optional";
6. a run shorter than the accumulation window publishes an untrained adapter;
7. an adapter is trained on images the bundle no longer has, and a bundle
   without a storyboard is accepted over a restored tree;
8. the manifest for an off-GPU finisher names files of the worker's own disk;
9. the LoRA trainer's base model and the renderer's may differ; captions raise
   where their doc says they do not;
10. the distill delta may reach one Wan expert only, or a few pairs of it, and counts as
    loaded;
11. a symlink of the model cache that cannot be rebuilt is logged, and the sentinel
    that "is written only after the pull fully succeeds" is written all the same;
12. finalize drops shots with a `start_image`; a few-step LoRA that fails to load
    does not fall back to full-step; the Wan distill LoRA is never toggled off; a
    flow shift that cannot be rebuilt keeps another shot's value; one-frame clips
    are encoded at another rate; `target_fps` can lengthen a clip; wide gutters
    invert region boxes; a redelivered job truncates the "append-only" log.

## 6. Not modelled

* Denoising, face restoration, RIFE, the training loss and its optimizer: GPU calls
  that yield a value or raise.
* The text of playlists, command lines and captions; what ffprobe reports;
  `load_manifest`.
* Prompts, masks, skeletons, scales: no property tells them apart.
* Parsing of YAML and JSON, field by field.
* The loaders of `models.py` beyond what they leave on a warm pipeline: specs,
  precision matrix, fp8 quantisation, attention back-ends, offload. Set once, changed
  by no scene.
* `device.py`, `routing.py`: constant tables and one classification of a card,
  stateless look-ups with a unit test per row.
* The work directory is never removed, so a worker's disk can fill up. Space is
  not modelled; the failures it causes are (`job`, `restore`, `extract`). A PNG
  cut short on a full disk is not told apart from a missing one.
* Two jobs whose project names reduce to one key, and jobs without an id: a naming
  rule of the control plane.
* Owner metadata, which changes no other state.

## 7. Plan

Done: every component with control state, each with its theorems, and the refinements
of `ProjectLedger` and `ProgressFeed`. What is left, in this order:

1. **Composition** of jobs with the model mirror and the warm pipelines in one module,
   for the properties that cross them (a job whose i2v pull fails after its keyframes
   are drawn).
2. **Descent for the remaining loops**: scenes on the warm SDXL pipelines and the
   training loop, which no run checks for liveness.
3. **`load_manifest` and an external finisher**, once the repository has one.
