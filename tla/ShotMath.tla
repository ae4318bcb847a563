----------------------------- MODULE ShotMath -----------------------------
(***************************************************************************)
(* The numbers of one shot, from the render_overrides of the request to    *)
(* the finished clip: the clamps of config.py, the regions of a            *)
(* multi-character keyframe (keyframe.region_boxes), the frame count the   *)
(* temporal VAE accepts (i2v.snap_frames), the passes of the interpolator  *)
(* and the frame rate the clip is encoded at (finish.py).                  *)
(*                                                                         *)
(* Durations are in half seconds: round(seconds * fps) then rounds halves, *)
(* to the even neighbour.  An override that is absent or not a number is   *)
(* None.  External: the i2v model returns the number of frames it is asked *)
(* for, and the clip's container gives back the fps it was encoded at.     *)
(***************************************************************************)
EXTENDS Integers, Sequences

CONSTANTS
    Requests,  \* the requests to follow
    None       \* absent value

Tiers  == {"draft", "standard", "final"}
Caches == {"none", "easycache", "mixcache"}

Override == Int \cup {None}

\* The knobs of render_overrides, the quality tier, and of the scene its
\* target_seconds and how many characters it shows.
Request ==
    [tier: Tiers, distill: BOOLEAN \cup {None}, cache: Caches \cup {None},
     fps: Override, numFrames: Override, halves: Override,
     interpolate: BOOLEAN \cup {None}, factor: Override, target: Override,
     width: Override, height: Override, gutter: Override, slots: Override,
     target_halves: Nat \cup {None}, chars: Nat]

ASSUME RequestsAssumption ==
    Requests \subseteq Request /\ None \notin Int \cup BOOLEAN \cup Caches

VARIABLES
    req,     \* the request
    stage,   \* where the shot is
    cfg,     \* the typed configuration
    boxes,   \* left, top, right and bottom of each character's region
    frames,  \* frames of the clip
    source,  \* frames the i2v model made
    passes,  \* interpolation passes still to make
    fps      \* rate of the finished clip

vars == <<req, stage, cfg, boxes, frames, source, passes, fps>>

\* A few-step render is never cached: the image-to-video engine counts on it.
Config ==
    {c \in [distill: BOOLEAN, cache: Caches, fps: 1 .. 120, numFrames: 1 .. 256,
            halves: 1 .. 120, interpolate: BOOLEAN, factor: {1, 2, 4, 8},
            target: 0 .. 120, width: 512 .. 2048, height: 512 .. 2048,
            gutter: 0 .. 256, slots: 1 .. 4] : c.distill => c.cache = "none"}

Box == [left: Int, top: Int, right: Int, bottom: Int]

TypeOK ==
    /\ req \in Request
    /\ stage \in {"request", "keyframe", "animate", "finish", "interpolate",
                  "done"}
    /\ cfg \in Config \cup {None}
    /\ boxes \in Seq(Box)
    /\ frames \in Nat /\ source \in 0 .. 256
    /\ passes \in 0 .. 3
    /\ fps \in Nat

Init ==
    /\ req \in Requests
    /\ stage = "request" /\ cfg = None /\ boxes = <<>>
    /\ frames = 0 /\ source = 0 /\ passes = 0 /\ fps = 0

-----------------------------------------------------------------------------
(* config.py *)

Least(a, b)    == IF a <= b THEN a ELSE b
Greatest(a, b) == IF a >= b THEN a ELSE b

\* _clamp, _clamp_int
Clamp(value, lo, hi, default) ==
    IF value = None THEN default ELSE Greatest(lo, Least(hi, value))

Or(value, default) == IF value = None THEN default ELSE value

\* Seeded bug: the nearest power of two.
NearestFactor(f) == CASE f <= 1 -> 1 [] f = 2 -> 2 [] f \in 3 .. 5 -> 4 [] OTHER -> 8

\* snap_factor: the largest power of two that is not more than asked, up to 8.
SnapFactor(f) ==
    CASE f <= 1 -> 1 [] f \in {2, 3} -> 2 [] f \in 4 .. 7 -> 4 [] OTHER -> 8

\* I2VConfig.from_dict clears the cache of a distilled render.
CacheFor(distill, cache) == IF distill THEN "none" ELSE cache

\* The baselines of for_tier.
TierCache == [draft |-> "none", standard |-> "easycache", final |-> "mixcache"]

\* I2VConfig, FinishConfig, KeyframeConfig and MultiCharConfig.from_dict.
FromDict(r) ==
    LET distill == Or(r.distill, r.tier = "draft") IN
    [distill     |-> distill,
     cache       |-> CacheFor(distill, Or(r.cache, TierCache[r.tier])),
     fps         |-> Clamp(r.fps, 1, 120, 16),
     numFrames   |-> Clamp(r.numFrames, 1, 256, 81),
     halves      |-> Clamp(r.halves, 1, 120, 10),
     interpolate |-> Or(r.interpolate, r.tier # "draft"),
     factor      |-> SnapFactor(Clamp(r.factor, 1, 8, 2)),
     target      |-> Clamp(r.target, 0, 120, 0),
     width       |-> Clamp(r.width, 512, 2048, 1024),
     height      |-> Clamp(r.height, 512, 2048, 1024),
     gutter      |-> Clamp(r.gutter, 0, 256, 64),
     slots       |-> Clamp(r.slots, 1, 4, 2)]

Goto(from, to) == stage = from /\ stage' = to

Configure ==
    /\ Goto("request", "keyframe")
    /\ cfg' = FromDict(req)
    /\ UNCHANGED <<req, boxes, frames, source, passes, fps>>

-----------------------------------------------------------------------------
(* keyframe.region_boxes *)

\* Seeded bug: the last region is as wide as the others.
EqualEnd(i, n, step, length) == i * step

\* The last region takes the remainder of the division.
BandEnd(i, n, step, length) == IF i = n THEN length ELSE i * step

\* Half the gutter is taken off every edge two regions share; vertical strips.
RegionBoxes(width, height, n, gutter) ==
    IF n <= 1 THEN <<[left |-> 0, top |-> 0, right |-> width, bottom |-> height]>>
    ELSE LET half == gutter \div 2
             step == width \div n
         IN [i \in 1 .. n |->
               [left   |-> (i - 1) * step + (IF i > 1 THEN half ELSE 0),
                top    |-> 0,
                right  |-> BandEnd(i, n, step, width) - (IF i < n THEN half ELSE 0),
                bottom |-> height]]

\* engine_for: two characters or more, as many as the engine takes, get regions.
Layout ==
    /\ Goto("keyframe", "animate")
    /\ boxes' = IF 2 <= req.chars /\ req.chars <= cfg.slots
                THEN RegionBoxes(cfg.width, cfg.height, req.chars, cfg.gutter)
                ELSE <<>>
    /\ UNCHANGED <<req, cfg, frames, source, passes, fps>>

-----------------------------------------------------------------------------
(* i2v_params_from: the frame count *)

RoundHalves(n) == IF n % 4 = 1 THEN n \div 2 ELSE (n + 1) \div 2

\* Seeded bug: the count is rounded down to 4k + 1.
SnapDown(n) == LET m == Least(256, Greatest(1, n)) IN m - ((m - 1) % 4)

\* snap_frames with the default ceiling: up to 4k + 1, then down below 256.
SnapFrames(n) ==
    LET m       == Greatest(1, n)
        snapped == m + ((4 - ((m - 1) % 4)) % 4)
    IN IF snapped <= 256 THEN snapped ELSE 253

\* The duration of the scene, or seconds_per_shot when it names none.
Halves(r, c) ==
    IF r.target_halves # None /\ r.target_halves # 0 THEN r.target_halves ELSE c.halves

\* I2VConfig.frames_for
FramesFor(halves, c) ==
    IF halves = 0 THEN c.numFrames
    ELSE Greatest(1, Least(256, RoundHalves(halves * c.fps)))

Animate ==
    /\ Goto("animate", IF cfg.interpolate THEN "finish" ELSE "done")
    /\ source' = SnapFrames(FramesFor(Halves(req, cfg), cfg))
    /\ frames' = source'
    /\ fps' = cfg.fps
    /\ UNCHANGED <<req, cfg, boxes, passes>>

-----------------------------------------------------------------------------
(* finish.py; face restoration keeps frames and rate, and is left out *)

InterpolationPasses(factor) ==
    CASE factor = 1 -> 0 [] factor = 2 -> 1
      [] factor = 4 -> 2 [] factor = 8 -> 3

\* finish_clip: a clip of one frame has no pair to interpolate between.
BeginFinish ==
    /\ Goto("finish", "interpolate")
    /\ passes' = IF frames > 1 THEN InterpolationPasses(cfg.factor) ELSE 0
    /\ UNCHANGED <<req, cfg, boxes, frames, source, fps>>

\* _interpolate_once: a frame between every two.
InterpolateOnce ==
    /\ stage = "interpolate" /\ passes > 0
    /\ passes' = passes - 1
    /\ frames' = frames + (frames - 1)
    /\ UNCHANGED <<req, stage, cfg, boxes, source, fps>>

\* Seeded bug: the target rate is the rate, not a cap on it.
TargetFps(src, c) == IF c.target > 0 THEN c.target ELSE src * c.factor

\* output_fps: interpolation multiplies the rate, target_fps caps it.
OutputFps(src, c) ==
    IF c.target > 0 THEN Least(src * c.factor, c.target) ELSE src * c.factor

Interpolated == frames > source

\* A clip that was not interpolated keeps its rate.
Encode ==
    /\ stage = "interpolate" /\ passes = 0
    /\ stage' = "done"
    /\ fps' = IF Interpolated THEN OutputFps(cfg.fps, cfg) ELSE cfg.fps
    /\ UNCHANGED <<req, cfg, boxes, frames, source, passes>>

Next ==
    Configure \/ Layout \/ Animate \/ BeginFinish \/ InterpolateOnce \/ Encode

Spec == Init /\ [][Next]_vars

-----------------------------------------------------------------------------
(* Properties *)

\* The i2v model is asked for 4k + 1 frames, for no more than it can make, and
\* for no fewer than the scene's duration takes while it can make that many,
\* whatever duration, rate and overrides came together.
FramesAccepted ==
    source # 0 =>
        /\ source % 4 = 1 /\ source <= 256
        /\ source >= Least(253, RoundHalves(Halves(req, cfg) * cfg.fps))

\* The interpolator never makes more of a clip than was asked for, and not less
\* than half of it: pass by pass, over the snapped factor.
InterpolatedAsAsked ==
    stage = "done" /\ Interpolated =>
        LET asked == Clamp(req.factor, 1, 8, 2) IN
        /\ frames - 1 <= (source - 1) * asked
        /\ 2 * (frames - 1) > (source - 1) * asked

\* Interpolation keeps the duration of a clip, unless target_fps caps the rate;
\* then it plays longer, and never faster than the model made it.
DurationKept ==
    stage = "done" =>
        /\ (source - 1) * fps <= (frames - 1) * cfg.fps
        /\ (source - 1) * fps < (frames - 1) * cfg.fps =>
              cfg.target # 0 /\ fps = cfg.target

\* Interpolation adds the frames asked for and no speed.
FilmPlaysAsAnimated == InterpolatedAsAsked /\ DurationKept

\* Regions fill the canvas from edge to edge, with the gutter and nothing else
\* between them, as long as a region is wider than the gutter.
RegionsApart ==
    boxes # <<>> /\ 2 * (cfg.gutter \div 2) < cfg.width \div Len(boxes) =>
        /\ boxes[1].left = 0 /\ boxes[Len(boxes)].right = cfg.width
        /\ \A i \in 1 .. Len(boxes) : boxes[i].left < boxes[i].right
        /\ \A i \in 1 .. Len(boxes) - 1 :
              boxes[i + 1].left - boxes[i].right = 2 * (cfg.gutter \div 2)
=============================================================================
