---------------------------- MODULE FilmAssembly ----------------------------
(***************************************************************************)
(* From resolved keyframes to the delivered film: the scene loop and the   *)
(* finishing stage of pipeline.py execute(), finish_clip, the clip half of *)
(* harness/handler.py _finish, and assemble.py around ffmpeg.              *)
(*                                                                         *)
(* One job.  The storyboard, the shots that have a keyframe to animate,    *)
(* the length of each clip, the finishing and delivery settings and the    *)
(* audio bed are chosen once and never change.  Nothing checks that scene  *)
(* ids are distinct: scenes of one id share one entry of scenes_by_id (the *)
(* last), one clip file and one object key.                                *)
(*                                                                         *)
(* Faults names what may go wrong:                                         *)
(*   "stage"   animating or finishing a clip raises                        *)
(*   "store"   an upload raises                                            *)
(*   "probe"   ffprobe cannot be run on the merged film, or its answer read *)
(*   "ffmpeg"  a merge of good inputs exits with an error                  *)
(***************************************************************************)
EXTENDS Sequences, Naturals, FiniteSets

CONSTANTS
    Ids,        \* scene ids
    MaxScenes,  \* scenes of a storyboard
    MaxFrames,  \* frames of an animated clip
    Faults,     \* see above
    None        \* absent value

ASSUME BoundsAssumption == MaxScenes \in Nat \ {0} /\ MaxFrames \in Nat \ {0}

VARIABLES
    \* the job, fixed
    story,     \* ids of storyboard.scenes
    animated,  \* positions of scenes the plan animates and that have a keyframe
    frames,    \* frames of the clip of each id
    job,       \* finishing settings, delivery and audio bed
    \* execute() and _finish
    pc,        \* where the job is
    at,        \* position of the loop
    files,     \* clips/<id>.mp4 and finished/<id>.mp4 in the work directory
    out,       \* out.clips: id and directory of each clip
    finished,  \* the list the finishing loop builds
    ordered,   \* the clips in storyboard order
    bed,       \* the audio track the merge mixes in, or None
    full,      \* full.mp4 in the work directory
    \* R2 objects of the project
    clipObj, manifest, film

fixed == <<story, animated, frames, job>>
local == <<files, out, finished, ordered, bed, full>>
r2    == <<clipObj, manifest, film>>
vars  == <<story, animated, frames, job, pc, at, files, out, finished, ordered,
           bed, full, clipObj, manifest, film>>

-----------------------------------------------------------------------------
(* Types *)

Directories == {"clips", "finished"}

\* What the bed object turns out to be: not asked for, not in the store, a file
\* without an audio stream, a track.
Beds == {"none", "missing", "streamless", "track"}

\* FinishConfig's switches (double: factor 2 rather than 1), and the delivery.
Job == [interpolate: BOOLEAN, double: BOOLEAN, restore: BOOLEAN,
        offloaded: BOOLEAN, audio: Beds]

\* A clip file: the storyboard position it was animated for, its frames, the
\* passes it went through, and its rate in multiples of the source rate.
Clip == [scene: 1..MaxScenes, frames: 1..(2 * MaxFrames), finished: BOOLEAN,
         rate: {1, 2}]

Entry == [id: Ids, dir: Directories]

\* A merge: the clips it plays, whether ffmpeg finished it, its sound.
Film == [pieces: Seq(Clip), whole: BOOLEAN, sound: BOOLEAN]

Stories == UNION {[1..n -> Ids] : n \in 1..MaxScenes}

Busy == {"animate", "finish", "order", "audio", "deliver", "copy", "reencode",
         "upload", "probe", "state"}

ASSUME NoneAssumption ==
    None \notin Clip /\ None \notin Film /\ None \notin Beds /\ None \notin Seq(Entry)

-----------------------------------------------------------------------------
(* Scenes *)

Init ==
    /\ story \in Stories
    /\ animated \in SUBSET DOMAIN story
    /\ frames \in [Ids -> 1..MaxFrames]
    /\ job \in Job
    /\ pc = "animate" /\ at = 1
    /\ files = [d \in Directories |-> [i \in Ids |-> None]]
    /\ out = <<>> /\ finished = <<>> /\ ordered = <<>>
    /\ bed = None /\ full = None
    /\ clipObj = [i \in Ids |-> None]
    /\ manifest = None /\ film = None

\* scenes_by_id: of several scenes with one id, the last.
SceneOf(id) ==
    CHOOSE n \in DOMAIN story :
        story[n] = id /\ \A m \in DOMAIN story : story[m] = id => m <= n

\* Draw the clip of the next planned scene into clips/<id>.mp4.
Animate ==
    /\ pc = "animate" /\ at \in DOMAIN story
    /\ at \in animated
    /\ files' = [files EXCEPT !["clips"][story[at]] =
                    [scene |-> SceneOf(story[at]), frames |-> frames[story[at]],
                     finished |-> FALSE, rate |-> 1]]
    /\ out' = Append(out, [id |-> story[at], dir |-> "clips"])
    /\ at'  = at + 1
    /\ UNCHANGED <<fixed, pc, finished, ordered, bed, full, r2>>

\* Not in the plan, not to be animated, or without a keyframe.
SkipScene ==
    /\ pc = "animate" /\ at \in DOMAIN story
    /\ at \notin animated
    /\ at' = at + 1
    /\ UNCHANGED <<fixed, pc, local, r2>>

FinishEnabled == job.interpolate \/ job.restore

EndScenes ==
    /\ pc = "animate" /\ at > Len(story)
    /\ pc' = IF FinishEnabled /\ out # <<>> THEN "finish" ELSE "order"
    /\ at' = 1
    /\ UNCHANGED <<fixed, local, r2>>

\* A clip of one frame has no pair to interpolate; factor 1 makes no pass.
Interpolates(clip) == job.interpolate /\ job.double /\ clip.frames > 1

\* Seeded bug: a frame is put before the first and after the last one, too.
FinishPadded(clip) == [clip EXCEPT !.frames = 2 * @ + 1, !.finished = TRUE]

\* finish_clip: N frames become 2N-1 at twice the rate, or stay as they are; the
\* clip is re-encoded either way.
FinishOf(clip) ==
    IF Interpolates(clip)
    THEN [clip EXCEPT !.frames = 2 * @ - 1, !.rate = 2 * @, !.finished = TRUE]
    ELSE [clip EXCEPT !.finished = TRUE]

FinishClip ==
    /\ pc = "finish" /\ at \in DOMAIN out
    /\ files' = [files EXCEPT !["finished"][out[at].id] =
                    FinishOf(files[out[at].dir][out[at].id])]
    /\ finished' = Append(finished, [id |-> out[at].id, dir |-> "finished"])
    /\ at' = at + 1
    /\ UNCHANGED <<fixed, pc, out, ordered, bed, full, r2>>

\* Seeded bug: the finished clips do not replace the raw ones.
RawClips == out

Delivered == finished

EndFinish ==
    /\ pc = "finish" /\ at > Len(out)
    /\ out' = Delivered
    /\ pc'  = "order" /\ at' = 1
    /\ UNCHANGED <<fixed, files, finished, ordered, bed, full, r2>>

-----------------------------------------------------------------------------
(* _finish *)

Has(clips, id) == \E n \in DOMAIN clips : clips[n].id = id

\* by_id: entries of one id name one file, so it does not matter which of them stays.
ById(clips, id) == clips[CHOOSE n \in DOMAIN clips : clips[n].id = id]

\* Seeded bug: each clip is used up by the first scene of its id.
OncePerId(id) == Has(out, id) /\ ~Has(ordered, id)

InCut(id) == Has(out, id)

\* order_for_storyboard, scene by scene: the clip of the scene, or nothing.
OrderClip ==
    /\ pc = "order" /\ at \in DOMAIN story
    /\ InCut(story[at])
    /\ ordered' = Append(ordered, ById(out, story[at]))
    /\ at' = at + 1
    /\ UNCHANGED <<fixed, pc, files, out, finished, bed, full, r2>>

DropScene ==
    /\ pc = "order" /\ at \in DOMAIN story
    /\ ~InCut(story[at])
    /\ at' = at + 1
    /\ UNCHANGED <<fixed, pc, local, r2>>

EndOrder ==
    /\ pc = "order" /\ at > Len(story)
    /\ pc' = "audio" /\ at' = 1
    /\ UNCHANGED <<fixed, local, r2>>

\* A bed that is not there is reported and the film goes out silent.
FetchAudio ==
    /\ pc = "audio" /\ pc' = "deliver"
    /\ bed' = IF job.audio \in {"streamless", "track"} THEN job.audio ELSE None
    /\ UNCHANGED <<fixed, at, files, out, finished, ordered, full, r2>>

FileOf(entry) == files[entry.dir][entry.id]

PutClip ==
    /\ pc = "deliver" /\ job.offloaded /\ at \in DOMAIN ordered
    /\ clipObj' = [clipObj EXCEPT ![ordered[at].id] = FileOf(ordered[at])]
    /\ at' = at + 1
    /\ UNCHANGED <<fixed, pc, local, manifest, film>>

PutManifest ==
    /\ pc = "deliver" /\ job.offloaded /\ at > Len(ordered)
    /\ manifest' = ordered
    /\ pc' = "state"
    /\ UNCHANGED <<fixed, at, local, clipObj, film>>

NothingToMerge ==
    /\ pc = "deliver" /\ ~job.offloaded /\ ordered = <<>>
    /\ pc' = "state"
    /\ UNCHANGED <<fixed, at, local, r2>>

\* assemble() found every clip file and wrote the playlist.
BeginMerge ==
    /\ pc = "deliver" /\ ~job.offloaded /\ ordered # <<>>
    /\ pc' = "copy"
    /\ UNCHANGED <<fixed, at, local, r2>>

-----------------------------------------------------------------------------
(* assemble: ffmpeg *)

\* The merge maps the first audio stream of the bed; a bed without one is an error,
\* whether the pictures are copied or encoded.
Muxable == bed # "streamless"

Merge == [pieces |-> [n \in DOMAIN ordered |-> FileOf(ordered[n])],
          whole |-> TRUE, sound |-> bed = "track"]

\* What an ffmpeg that exits with an error leaves at full.mp4.
Leftovers == {None} \cup {[Merge EXCEPT !.whole = FALSE]}

MergeSucceeds(from) ==
    /\ pc = from /\ Muxable
    /\ full' = Merge
    /\ pc' = "upload"
    /\ UNCHANGED <<fixed, at, files, out, finished, ordered, bed, r2>>

StreamCopy == MergeSucceeds("copy")

Reencode == MergeSucceeds("reencode")

\* Stream copy refused: encode to a common form.
CopyRefused ==
    /\ pc = "copy" /\ (~Muxable \/ "ffmpeg" \in Faults)
    /\ full' \in Leftovers
    /\ pc' = "reencode"
    /\ UNCHANGED <<fixed, at, files, out, finished, ordered, bed, r2>>

\* Seeded bugs: the return code of the second run is not looked at; the merge is
\* tried from the start again.
RedoUnchecked == pc' = "upload"

RedoAgain == pc' = "copy"

RedoRaises == pc' = "failed"

ReencodeFails ==
    /\ pc = "reencode" /\ (~Muxable \/ "ffmpeg" \in Faults)
    /\ full' \in Leftovers
    /\ RedoRaises
    /\ UNCHANGED <<fixed, at, files, out, finished, ordered, bed, r2>>

PutFilm ==
    /\ pc = "upload" /\ pc' = "probe"
    /\ film' = full
    /\ UNCHANGED <<fixed, at, local, clipObj, manifest>>

\* probe_duration and probe_has_audio, once the film is up.
ProbeFilm ==
    /\ pc = "probe" /\ pc' = "state"
    /\ UNCHANGED <<fixed, at, local, r2>>

\* The project's state goes up last, and the job returns its response.
PutState ==
    /\ pc = "state" /\ pc' = "done"
    /\ UNCHANGED <<fixed, at, local, r2>>

-----------------------------------------------------------------------------
(* Failures, and the specification *)

StageFails ==
    /\ "stage" \in Faults
    /\ \/ pc = "animate" /\ at \in animated
       \/ pc = "finish" /\ at \in DOMAIN out
    /\ pc' = "failed"
    /\ UNCHANGED <<fixed, at, local, r2>>

StoreFails ==
    /\ "store" \in Faults
    /\ pc \in {"upload", "state"} \/ (pc = "deliver" /\ job.offloaded)
    /\ pc' = "failed"
    /\ UNCHANGED <<fixed, at, local, r2>>

ProbeFails ==
    /\ "probe" \in Faults
    /\ pc = "probe" /\ pc' = "failed"
    /\ UNCHANGED <<fixed, at, local, r2>>

Next ==
    \/ Animate \/ SkipScene \/ EndScenes \/ FinishClip \/ EndFinish
    \/ OrderClip \/ DropScene \/ EndOrder \/ FetchAudio \/ PutClip \/ PutManifest
    \/ NothingToMerge \/ BeginMerge \/ StreamCopy \/ Reencode
    \/ CopyRefused \/ ReencodeFails \/ PutFilm \/ ProbeFilm \/ PutState
    \/ StageFails \/ StoreFails \/ ProbeFails

Spec == Init /\ [][Next]_vars

\* One synchronous call: it goes on until it returns or raises.
FairSpec == Spec /\ WF_vars(Next)

-----------------------------------------------------------------------------
(* Properties *)

TypeOK ==
    /\ story \in Stories /\ animated \in SUBSET DOMAIN story
    /\ frames \in [Ids -> 1..MaxFrames] /\ job \in Job
    /\ pc \in Busy \cup {"done", "failed"}
    /\ at \in 1..(MaxScenes + 1)
    /\ files \in [Directories -> [Ids -> Clip \cup {None}]]
    /\ out \in Seq(Entry) /\ finished \in Seq(Entry) /\ ordered \in Seq(Entry)
    /\ bed \in {None, "streamless", "track"}
    /\ full \in Film \cup {None} /\ film \in Film \cup {None}
    /\ clipObj \in [Ids -> Clip \cup {None}]
    /\ manifest \in Seq(Entry) \cup {None}

\* Scenes whose id was animated, at their own position or at another of that id.
Filmed == {n \in DOMAIN story : \E m \in animated : story[m] = story[n]}

\* The place in the cut of the scene at position n: filmed scenes up to it.
Place(n) == Cardinality({m \in 1..n : m \in Filmed})

\* The film, or the manifest with its clip objects, has one piece for every storyboard
\* scene whose id was animated, in storyboard order (order_for_storyboard: "a stray
\* clip must not wander into the cut").  Each piece shows that scene, or, where
\* scenes share an id, the last of them: scenes_by_id knows no other, and it then
\* stands at every position of the id, also at one the plan did not animate.
CutFollowsStory ==
    /\ film # None =>
         /\ Len(film.pieces) = Place(Len(story))
         /\ \A n \in Filmed : film.pieces[Place(n)].scene = SceneOf(story[n])
    /\ manifest # None =>
         /\ Len(manifest) = Place(Len(story))
         /\ \A n \in Filmed :
              /\ manifest[Place(n)].id = story[n]
              /\ clipObj[story[n]] # None
              /\ clipObj[story[n]].scene = SceneOf(story[n])

\* With finishing on, no raw clip is delivered, merged or off-GPU; and clips that
\* have a pair of frames are all delivered at one rate, so that a stream copy plays
\* each as it was animated (the comment at pipeline.py l.232: "Every clip runs the
\* same finish params and is re-encoded uniformly").
DeliveredAsFinished ==
    LET pieces == (IF film # None THEN {film.pieces[n] : n \in DOMAIN film.pieces}
                   ELSE {}) \cup ({clipObj[i] : i \in Ids} \ {None})
    IN  /\ \A c \in pieces : c.finished = FinishEnabled
        /\ \A c, d \in pieces : c.frames > 1 /\ d.frames > 1 => c.rate = d.rate

\* A film is published only when ffmpeg finished it, and with sound exactly when the
\* bed turned out to be a track: what a refused copy or a failed encode leaves at
\* full.mp4 never reaches the project's film key, from a job that ends well or from
\* one that fails after the upload.  A job that ends well has published what was
\* asked of it: the manifest, or the film if there is a clip to show.
OnlyWholeFilm ==
    /\ film # None => film.whole /\ (film.sound <=> job.audio = "track")
    /\ pc = "done" => IF job.offloaded THEN manifest # None
                      ELSE animated # {} => film # None

\* The merge is tried twice at most: the job ends.
FilmEnds == <>(pc \in {"done", "failed"})
=============================================================================
