--------------------------- MODULE ShotMath_proofs ---------------------------
(***************************************************************************)
(* Theorems about ShotMath, for every override, duration and rate: the     *)
(* frame count the image-to-video model takes, the frames and the rate     *)
(* after interpolation, the regions of a multi-character keyframe.         *)
(*                                                                         *)
(* The invariant follows one shot.  While passes are left the frames made  *)
(* so far, doubled once per pass, are the frames of the snapped factor; in *)
(* the end they are those frames, or the clip was left as it was.          *)
(***************************************************************************)
EXTENDS ShotMath, TLAPS

-----------------------------------------------------------------------------
(* The invariant *)

\* 2^p
Doublings(p) == CASE p = 0 -> 1 [] p = 1 -> 2 [] p = 2 -> 4 [] p = 3 -> 8

Early == {"request", "keyframe", "animate"}

CfgInv ==
    /\ req \in Requests
    /\ stage \in Early \cup {"finish", "interpolate", "done"}
    /\ stage = "request" => cfg = None
    /\ stage # "request" => cfg = FromDict(req)

BoxInv ==
    \/ boxes = <<>>
    \/ /\ cfg = FromDict(req) /\ stage # "request"
       /\ \E n \in 2 .. 4 : boxes = RegionBoxes(cfg.width, cfg.height, n, cfg.gutter)

FrameInv ==
    /\ source \in Nat /\ frames \in Nat /\ passes \in 0 .. 3 /\ fps \in Nat
    /\ stage \in Early => source = 0 /\ frames = 0 /\ passes = 0 /\ fps = 0
    /\ stage \notin Early => source = SnapFrames(FramesFor(Halves(req, cfg), cfg))
    /\ stage = "finish" => frames = source /\ fps = cfg.fps /\ passes = 0
    /\ stage = "interpolate" =>
         /\ fps = cfg.fps
         /\ source = 1 => passes = 0 /\ frames = 1
         /\ source > 1 => (frames - 1) * Doublings(passes) = (source - 1) * cfg.factor
    /\ stage = "done" =>
         /\ passes = 0
         /\ \/ frames = source /\ fps = cfg.fps
            \/ /\ source > 1 /\ frames - 1 = (source - 1) * cfg.factor
               /\ fps = OutputFps(cfg.fps, cfg)

ShotInv == CfgInv /\ BoxInv /\ FrameInv

-----------------------------------------------------------------------------
(* The helpers *)

LEMMA Snapped ==
  ASSUME NEW f \in 1 .. 8
  PROVE  /\ SnapFactor(f) \in {1, 2, 4, 8}
         /\ SnapFactor(f) <= f /\ f < 2 * SnapFactor(f)
<1>1. f \in {1, 2, 3, 4, 5, 6, 7, 8}
  OBVIOUS
<1> QED BY <1>1 DEF SnapFactor

\* The configuration is typed, whatever overrides came.
LEMMA FromDictTyped ==
  ASSUME NEW r \in Requests
  PROVE  /\ FromDict(r) \in Config
         /\ FromDict(r).factor = SnapFactor(Clamp(r.factor, 1, 8, 2))
         /\ Clamp(r.factor, 1, 8, 2) \in 1 .. 8
<1> DEFINE distill == Or(r.distill, r.tier = "draft")
           cache   == CacheFor(distill, Or(r.cache, TierCache[r.tier]))
           factor  == SnapFactor(Clamp(r.factor, 1, 8, 2))
<1>1. /\ r.tier \in Tiers /\ r.distill \in BOOLEAN \cup {None}
      /\ r.cache \in Caches \cup {None} /\ r.interpolate \in BOOLEAN \cup {None}
      /\ r.fps \in Override /\ r.numFrames \in Override /\ r.halves \in Override
      /\ r.factor \in Override /\ r.target \in Override /\ r.width \in Override
      /\ r.height \in Override /\ r.gutter \in Override /\ r.slots \in Override
  BY RequestsAssumption DEF Request
<1>2. distill \in BOOLEAN /\ Or(r.interpolate, r.tier # "draft") \in BOOLEAN
  BY <1>1 DEF Or
<1>3. cache \in Caches /\ (distill => cache = "none")
  BY <1>1, <1>2 DEF CacheFor, Or, TierCache, Tiers, Caches
<1>n. None \notin Int
  BY RequestsAssumption
<1>4. /\ Clamp(r.fps, 1, 120, 16) \in 1 .. 120
      /\ Clamp(r.numFrames, 1, 256, 81) \in 1 .. 256
      /\ Clamp(r.halves, 1, 120, 10) \in 1 .. 120
      /\ Clamp(r.factor, 1, 8, 2) \in 1 .. 8
      /\ Clamp(r.target, 0, 120, 0) \in 0 .. 120
  <2>1. Clamp(r.fps, 1, 120, 16) \in 1 .. 120
    BY <1>1, <1>n DEF Clamp, Least, Greatest, Override
  <2>2. Clamp(r.numFrames, 1, 256, 81) \in 1 .. 256
    BY <1>1, <1>n DEF Clamp, Least, Greatest, Override
  <2>3. Clamp(r.halves, 1, 120, 10) \in 1 .. 120
    BY <1>1, <1>n DEF Clamp, Least, Greatest, Override
  <2>4. Clamp(r.factor, 1, 8, 2) \in 1 .. 8
    BY <1>1, <1>n DEF Clamp, Least, Greatest, Override
  <2>5. Clamp(r.target, 0, 120, 0) \in 0 .. 120
    BY <1>1, <1>n DEF Clamp, Least, Greatest, Override
  <2> QED BY <2>1, <2>2, <2>3, <2>4, <2>5
<1>5. /\ Clamp(r.width, 512, 2048, 1024) \in 512 .. 2048
      /\ Clamp(r.height, 512, 2048, 1024) \in 512 .. 2048
      /\ Clamp(r.gutter, 0, 256, 64) \in 0 .. 256
      /\ Clamp(r.slots, 1, 4, 2) \in 1 .. 4
  <2>1. Clamp(r.width, 512, 2048, 1024) \in 512 .. 2048
    BY <1>1, <1>n DEF Clamp, Least, Greatest, Override
  <2>2. Clamp(r.height, 512, 2048, 1024) \in 512 .. 2048
    BY <1>1, <1>n DEF Clamp, Least, Greatest, Override
  <2>3. Clamp(r.gutter, 0, 256, 64) \in 0 .. 256
    BY <1>1, <1>n DEF Clamp, Least, Greatest, Override
  <2>4. Clamp(r.slots, 1, 4, 2) \in 1 .. 4
    BY <1>1, <1>n DEF Clamp, Least, Greatest, Override
  <2> QED BY <2>1, <2>2, <2>3, <2>4
<1>6. factor \in {1, 2, 4, 8}
  BY <1>4, Snapped
<1> HIDE DEF distill, cache, factor
<1>7. FromDict(r) =
        [distill     |-> distill,
         cache       |-> cache,
         fps         |-> Clamp(r.fps, 1, 120, 16),
         numFrames   |-> Clamp(r.numFrames, 1, 256, 81),
         halves      |-> Clamp(r.halves, 1, 120, 10),
         interpolate |-> Or(r.interpolate, r.tier # "draft"),
         factor      |-> factor,
         target      |-> Clamp(r.target, 0, 120, 0),
         width       |-> Clamp(r.width, 512, 2048, 1024),
         height      |-> Clamp(r.height, 512, 2048, 1024),
         gutter      |-> Clamp(r.gutter, 0, 256, 64),
         slots       |-> Clamp(r.slots, 1, 4, 2)]
  BY DEF FromDict, distill, cache, factor
<1>8. FromDict(r) \in Config
  BY <1>2, <1>3, <1>4, <1>5, <1>6, <1>7 DEF Config
<1>9. FromDict(r).factor = factor
  BY <1>7
<1> QED BY <1>4, <1>8, <1>9 DEF factor

LEMMA ConfigTyped ==
  ASSUME NEW c \in Config
  PROVE  /\ c.fps \in 1 .. 120 /\ c.numFrames \in 1 .. 256 /\ c.halves \in 1 .. 120
         /\ c.factor \in {1, 2, 4, 8} /\ c.target \in 0 .. 120
         /\ c.width \in 512 .. 2048 /\ c.height \in 512 .. 2048
         /\ c.gutter \in 0 .. 256 /\ c.slots \in 1 .. 4
         /\ (c.distill => c.cache = "none")
BY DEF Config

LEMMA Rounded ==
  ASSUME NEW n \in Nat
  PROVE  RoundHalves(n) \in Nat
BY DEF RoundHalves

\* snap_frames: 4k + 1, no more than 256, and not below what was asked for
\* while that can be had.
LEMMA Framed ==
  ASSUME NEW r \in Requests, NEW c \in Config
  PROVE  LET s == SnapFrames(FramesFor(Halves(r, c), c))
         IN  /\ s \in 1 .. 256 /\ s % 4 = 1
             /\ s >= Least(253, RoundHalves(Halves(r, c) * c.fps))
<1> DEFINE h == Halves(r, c)
           f == RoundHalves(h * c.fps)
<1>1. r.target_halves \in Nat \cup {None} /\ None \notin Int
  BY RequestsAssumption DEF Request
<1>2. c.halves \in 1 .. 120 /\ c.fps \in 1 .. 120
  BY ConfigTyped
<1>3. h \in Nat /\ h # 0
  BY <1>1, <1>2 DEF Halves
<1>4. h * c.fps \in Nat
  BY <1>2, <1>3
<1>5. f \in Nat
  BY <1>4, Rounded
<1>6. FramesFor(h, c) = Greatest(1, Least(256, f))
  BY <1>3 DEF FramesFor
<1> HIDE DEF h, f
<1>7. FramesFor(h, c) \in 1 .. 256 /\ (FramesFor(h, c) >= f \/ FramesFor(h, c) = 256)
  BY <1>5, <1>6 DEF Greatest, Least
<1>8. PICK n \in 1 .. 256 : n = FramesFor(h, c) /\ (n >= f \/ n = 256)
  BY <1>7
<1> DEFINE s == SnapFrames(FramesFor(h, c))
           k == (n - 1) % 4
           snapped == n + ((4 - k) % 4)
<1>9. s = IF snapped <= 256 THEN snapped ELSE 253
  BY <1>8 DEF SnapFrames, Greatest
<1>10. k \in {0, 1, 2, 3} /\ (n - 1 - k) % 4 = 0 /\ n \in Nat
  BY <1>8
<1>11. snapped \in Nat /\ snapped >= n /\ snapped % 4 = 1
  BY <1>10
<1> HIDE DEF s, snapped
<1>12. s \in Nat /\ s <= 256 /\ s >= 1 /\ (s % 4) = 1 /\ (s >= n \/ s = 253)
  BY <1>8, <1>9, <1>11
<1>13. s >= Least(253, f)
  BY <1>5, <1>8, <1>12 DEF Least
<1> QED BY <1>12, <1>13 DEF s, h, f

LEMMA Passes ==
  ASSUME NEW f \in {1, 2, 4, 8}
  PROVE  /\ InterpolationPasses(f) \in 0 .. 3
         /\ Doublings(InterpolationPasses(f)) = f
BY DEF InterpolationPasses, Doublings

LEMMA Halved ==
  ASSUME NEW p \in 1 .. 3
  PROVE  p - 1 \in 0 .. 3 /\ Doublings(p) = 2 * Doublings(p - 1)
         /\ Doublings(p - 1) \in {1, 2, 4, 8}
<1>1. p \in {1, 2, 3}
  OBVIOUS
<1> QED BY <1>1 DEF Doublings

LEMMA Monotone ==
  ASSUME NEW d \in Nat, NEW x \in Nat, NEW y \in Nat, x <= y
  PROVE  d * x <= d * y
<1>1. PICK k \in Nat : y = x + k
  <2>1. y - x \in Nat /\ y = x + (y - x)
    OBVIOUS
  <2> QED BY <2>1
<1>2. d * y = d * x + d * k /\ d * k \in Nat
  BY <1>1
<1> QED BY <1>2

\* Interpolated frames and rate, once for every factor.
LEMMA Multiplied ==
  ASSUME NEW d \in Nat, NEW f \in {1, 2, 4, 8}, NEW x \in Nat
  PROVE  d * f \in Nat /\ d * (x * f) = (d * f) * x
<1>1. d * x \in Nat
  OBVIOUS
<1>2. CASE f = 1
  BY <1>2
<1>3. CASE f = 2
  <2>1. d * (x * 2) = 2 * (d * x) /\ (d * 2) * x = 2 * (d * x)
    BY <1>1
  <2> QED BY <1>3, <2>1
<1>4. CASE f = 4
  <2>1. d * (x * 4) = 4 * (d * x) /\ (d * 4) * x = 4 * (d * x)
    BY <1>1
  <2> QED BY <1>4, <2>1
<1>5. CASE f = 8
  <2>1. d * (x * 8) = 8 * (d * x) /\ (d * 8) * x = 8 * (d * x)
    BY <1>1
  <2> QED BY <1>5, <2>1
<1> QED BY <1>2, <1>3, <1>4, <1>5

\* Twice the frames over half the passes is the same film.
LEMMA OnePass ==
  ASSUME NEW g \in Nat, NEW b \in {1, 2, 4, 8}, NEW w \in Nat, g >= 1,
         (g - 1) * (2 * b) = w
  PROVE  ((g + (g - 1)) - 1) * b = w
<1>1. CASE b = 1
  BY <1>1
<1>2. CASE b = 2
  BY <1>2
<1>3. CASE b = 4
  BY <1>3
<1>4. CASE b = 8
  BY <1>4
<1> QED BY <1>1, <1>2, <1>3, <1>4

\* What RegionsApart says of a layout.
Apart(bs, w, half) ==
    /\ bs[1].left = 0 /\ bs[Len(bs)].right = w
    /\ \A i \in 1 .. Len(bs) : bs[i].left < bs[i].right
    /\ \A i \in 1 .. Len(bs) - 1 : bs[i + 1].left - bs[i].right = 2 * half

Widths  == 512 .. 2048
Gutters == 0 .. 256
Several == 2 .. 4

Fills(bs, w, g) == 2 * (g \div 2) < w \div Len(bs) => Apart(bs, w, g \div 2)

LEMMA Divided ==
  ASSUME NEW w \in Nat, NEW n \in {2, 3, 4}
  PROVE  w \div n \in Nat /\ n * (w \div n) <= w
<1>1. CASE n = 2
  BY <1>1
<1>2. CASE n = 3
  BY <1>2
<1>3. CASE n = 4
  BY <1>3
<1> QED BY <1>1, <1>2, <1>3

LEMMA Strips ==
  ASSUME NEW w \in Widths, NEW g \in Gutters, NEW n \in Several, NEW h, NEW bs,
         bs = RegionBoxes(w, h, n, g)
  PROVE  Fills(bs, w, g)
<1> DEFINE half == g \div 2
           step == w \div n
<1>1. n \in {2, 3, 4} /\ w \in Nat /\ g \in Nat /\ n >= 2
  BY DEF Widths, Gutters, Several
<1>2. step \in Nat /\ half \in Nat /\ n * step <= w
  BY <1>1, Divided
<1> HIDE DEF half, step
<1>3. bs = [i \in 1 .. n |->
               [left   |-> (i - 1) * step + (IF i > 1 THEN half ELSE 0),
                top    |-> 0,
                right  |-> BandEnd(i, n, step, w) - (IF i < n THEN half ELSE 0),
                bottom |-> h]]
  BY <1>1 DEF RegionBoxes, half, step
<1>4. Len(bs) = n
  BY <1>1, <1>3
<1>5. \A i \in 1 .. n :
        /\ bs[i].left  = (i - 1) * step + (IF i > 1 THEN half ELSE 0)
        /\ bs[i].right = (IF i = n THEN w ELSE i * step) - (IF i < n THEN half ELSE 0)
  BY <1>3 DEF BandEnd
<1>6. ASSUME 2 * half < step
      PROVE  /\ \A i \in 1 .. n : bs[i].left < bs[i].right
             /\ \A i \in 1 .. n - 1 : bs[i + 1].left - bs[i].right = 2 * half
             /\ bs[1].left = 0 /\ bs[n].right = w
  <2>1. CASE n = 2
    BY <1>1, <1>2, <1>5, <1>6, <2>1
  <2>2. CASE n = 3
    BY <1>1, <1>2, <1>5, <1>6, <2>2
  <2>3. CASE n = 4
    BY <1>1, <1>2, <1>5, <1>6, <2>3
  <2> QED BY <1>1, <2>1, <2>2, <2>3
<1>7. 2 * half < step => Apart(bs, w, half)
  BY <1>4, <1>6 DEF Apart
<1> QED BY <1>4, <1>7 DEF half, step, Fills

-----------------------------------------------------------------------------
(* Every step keeps the invariant *)

LEMMA InitShot == Init => ShotInv
BY DEF Init, ShotInv, CfgInv, BoxInv, FrameInv, Early

LEMMA Configured ==
  ASSUME ShotInv, stage # "request"
  PROVE  /\ cfg \in Config /\ req \in Requests
         /\ cfg.factor = SnapFactor(Clamp(req.factor, 1, 8, 2))
         /\ Clamp(req.factor, 1, 8, 2) \in 1 .. 8
<1>1. cfg = FromDict(req) /\ req \in Requests
  BY DEF ShotInv, CfgInv
<1> QED BY <1>1, FromDictTyped

LEMMA Canvas ==
  ASSUME ShotInv, stage # "request"
  PROVE  cfg.width \in Widths /\ cfg.gutter \in Gutters
BY Configured, ConfigTyped DEF Widths, Gutters

LEMMA ConfigureKeeps == ASSUME ShotInv, Configure PROVE ShotInv'
<1>1. /\ stage = "request" /\ stage' = "keyframe" /\ cfg' = FromDict(req)
      /\ UNCHANGED <<req, boxes, frames, source, passes, fps>>
  BY DEF Configure, Goto
<1>2. CfgInv'
  BY <1>1 DEF ShotInv, CfgInv, Early
<1>3. BoxInv'
  BY <1>1 DEF ShotInv, BoxInv
<1>4. FrameInv'
  BY <1>1 DEF ShotInv, FrameInv, Early
<1> QED BY <1>2, <1>3, <1>4 DEF ShotInv

LEMMA LayoutKeeps == ASSUME ShotInv, Layout PROVE ShotInv'
<1>1. /\ stage = "keyframe" /\ stage' = "animate"
      /\ UNCHANGED <<req, cfg, frames, source, passes, fps>>
  BY DEF Layout, Goto
<1>2. cfg \in Config /\ req \in Requests /\ cfg = FromDict(req)
  BY <1>1, Configured DEF ShotInv, CfgInv
<1>3. CfgInv' /\ FrameInv'
  BY <1>1 DEF ShotInv, CfgInv, FrameInv, Early
<1>4. BoxInv'
  <2>1. CASE 2 <= req.chars /\ req.chars <= cfg.slots
    <3>1. req.chars \in Nat /\ cfg.slots \in 1 .. 4
      BY <1>2, ConfigTyped, RequestsAssumption DEF Request
    <3>2. req.chars \in 2 .. 4
      BY <2>1, <3>1
    <3>3. boxes' = RegionBoxes(cfg.width, cfg.height, req.chars, cfg.gutter)
      BY <2>1 DEF Layout
    <3> QED BY <1>1, <1>2, <3>2, <3>3 DEF BoxInv
  <2>2. CASE ~(2 <= req.chars /\ req.chars <= cfg.slots)
    BY <2>2 DEF Layout, BoxInv
  <2> QED BY <2>1, <2>2
<1> QED BY <1>3, <1>4 DEF ShotInv

LEMMA AnimateKeeps == ASSUME ShotInv, Animate PROVE ShotInv'
<1>1. /\ stage = "animate" /\ stage' \in {"finish", "done"}
      /\ source' = SnapFrames(FramesFor(Halves(req, cfg), cfg))
      /\ frames' = source' /\ fps' = cfg.fps
      /\ UNCHANGED <<req, cfg, boxes, passes>>
  BY DEF Animate, Goto
<1>2. cfg \in Config /\ req \in Requests
  BY <1>1, Configured
<1>3. source' \in 1 .. 256 /\ cfg.fps \in 1 .. 120
  BY <1>1, <1>2, Framed, ConfigTyped
<1>4. CfgInv' /\ BoxInv'
  BY <1>1 DEF ShotInv, CfgInv, BoxInv, Early
<1>5. FrameInv'
  BY <1>1, <1>3 DEF ShotInv, FrameInv, Early
<1> QED BY <1>4, <1>5 DEF ShotInv

LEMMA BeginFinishKeeps == ASSUME ShotInv, BeginFinish PROVE ShotInv'
<1>1. /\ stage = "finish" /\ stage' = "interpolate"
      /\ passes' = IF frames > 1 THEN InterpolationPasses(cfg.factor) ELSE 0
      /\ UNCHANGED <<req, cfg, boxes, frames, source, fps>>
  BY DEF BeginFinish, Goto
<1>2. cfg \in Config /\ req \in Requests /\ cfg.factor \in {1, 2, 4, 8}
  BY <1>1, Configured, ConfigTyped
<1>3. /\ source = SnapFrames(FramesFor(Halves(req, cfg), cfg)) /\ source \in Nat
      /\ frames = source /\ fps = cfg.fps /\ fps \in Nat
  BY <1>1 DEF ShotInv, FrameInv, Early
<1>4. /\ InterpolationPasses(cfg.factor) \in 0 .. 3
      /\ Doublings(InterpolationPasses(cfg.factor)) = cfg.factor
  BY <1>2, Passes
<1>5. source >= 1
  BY <1>2, <1>3, Framed
<1>6. CfgInv' /\ BoxInv'
  BY <1>1 DEF ShotInv, CfgInv, BoxInv, Early
<1>7. FrameInv'
  <2>1. CASE frames > 1
    BY <1>1, <1>3, <1>4, <2>1 DEF FrameInv, Early, Doublings
  <2>2. CASE ~(frames > 1)
    BY <1>1, <1>3, <1>5, <2>2 DEF FrameInv, Early, Doublings
  <2> QED BY <2>1, <2>2
<1> QED BY <1>6, <1>7 DEF ShotInv

LEMMA PassKeeps == ASSUME ShotInv, InterpolateOnce PROVE ShotInv'
<1>1. /\ stage = "interpolate" /\ passes > 0 /\ passes' = passes - 1
      /\ frames' = frames + (frames - 1)
      /\ UNCHANGED <<req, stage, cfg, boxes, source, fps>>
  BY DEF InterpolateOnce
<1>2. /\ source = SnapFrames(FramesFor(Halves(req, cfg), cfg))
      /\ source \in Nat /\ frames \in Nat /\ passes \in 0 .. 3 /\ fps \in Nat
      /\ fps = cfg.fps
      /\ source = 1 => passes = 0
      /\ source > 1 => (frames - 1) * Doublings(passes) = (source - 1) * cfg.factor
  BY <1>1 DEF ShotInv, FrameInv, Early
<1>3. cfg \in Config /\ req \in Requests /\ cfg.factor \in {1, 2, 4, 8}
  BY <1>1, Configured, ConfigTyped
<1>4. source > 1 /\ passes \in 1 .. 3
  <2>1. source \in 1 .. 256
    BY <1>2, <1>3, Framed
  <2> QED BY <1>1, <1>2, <2>1
<1>5. /\ passes' \in 0 .. 3 /\ Doublings(passes) = 2 * Doublings(passes')
      /\ Doublings(passes') \in {1, 2, 4, 8}
  BY <1>1, <1>4, Halved
<1>6. (source - 1) * cfg.factor \in Nat /\ (source - 1) * cfg.factor > 0
  BY <1>3, <1>4, <1>2
<1>7. frames >= 1
  <2>1. (frames - 1) * (2 * Doublings(passes')) > 0
    BY <1>2, <1>4, <1>5, <1>6
  <2>2. Doublings(passes') > 0
    BY <1>5
  <2> QED BY <1>2, <1>5, <2>1, <2>2
<1>8. frames' \in Nat /\ (frames' - 1) * Doublings(passes') = (source - 1) * cfg.factor
  BY <1>1, <1>2, <1>4, <1>5, <1>6, <1>7, OnePass
<1>9. FrameInv'
  BY <1>1, <1>2, <1>4, <1>5, <1>8 DEF FrameInv, Early
<1>10. CfgInv' /\ BoxInv'
  BY <1>1 DEF ShotInv, CfgInv, BoxInv
<1> QED BY <1>9, <1>10 DEF ShotInv

LEMMA EncodeKeeps == ASSUME ShotInv, Encode PROVE ShotInv'
<1>1. /\ stage = "interpolate" /\ passes = 0 /\ stage' = "done"
      /\ fps' = IF Interpolated THEN OutputFps(cfg.fps, cfg) ELSE cfg.fps
      /\ UNCHANGED <<req, cfg, boxes, frames, source, passes>>
  BY DEF Encode
<1>2. /\ source = SnapFrames(FramesFor(Halves(req, cfg), cfg))
      /\ source \in Nat /\ frames \in Nat
      /\ source = 1 => frames = 1
      /\ source > 1 => (frames - 1) * Doublings(0) = (source - 1) * cfg.factor
  BY <1>1 DEF ShotInv, FrameInv, Early
<1>3. cfg \in Config /\ req \in Requests /\ cfg.factor \in {1, 2, 4, 8}
      /\ cfg.fps \in 1 .. 120 /\ cfg.target \in 0 .. 120
  BY <1>1, Configured, ConfigTyped
<1>4. source >= 1
  BY <1>2, <1>3, Framed
<1>5. source > 1 => frames - 1 = (source - 1) * cfg.factor
  BY <1>2 DEF Doublings
<1>6. OutputFps(cfg.fps, cfg) \in Nat
  BY <1>3 DEF OutputFps, Least
<1>7. \/ frames = source /\ fps' = cfg.fps
      \/ /\ source > 1 /\ frames - 1 = (source - 1) * cfg.factor
         /\ fps' = OutputFps(cfg.fps, cfg)
  <2>1. CASE Interpolated
    BY <1>1, <1>2, <1>4, <1>5, <2>1 DEF Interpolated
  <2>2. CASE ~Interpolated
    <3>1. frames <= source
      BY <1>2, <2>2 DEF Interpolated
    <3>2. source > 1 => frames - 1 >= source - 1
      BY <1>2, <1>3, <1>5
    <3> QED BY <1>1, <1>2, <1>4, <2>2, <3>1, <3>2
  <2> QED BY <2>1, <2>2
<1>8. FrameInv'
  BY <1>1, <1>2, <1>3, <1>6, <1>7 DEF FrameInv, Early
<1>9. CfgInv' /\ BoxInv'
  BY <1>1 DEF ShotInv, CfgInv, BoxInv
<1> QED BY <1>8, <1>9 DEF ShotInv

LEMMA NextShot == ShotInv /\ [Next]_vars => ShotInv'
<1> SUFFICES ASSUME ShotInv, [Next]_vars PROVE ShotInv'
  OBVIOUS
<1>1. CASE UNCHANGED vars
  BY <1>1 DEF vars, ShotInv, CfgInv, BoxInv, FrameInv
<1> QED BY <1>1, ConfigureKeeps, LayoutKeeps, AnimateKeeps, BeginFinishKeeps, PassKeeps,
           EncodeKeeps DEF Next

LEMMA ShotAlways == Spec => []ShotInv
BY InitShot, NextShot, PTL DEF Spec

-----------------------------------------------------------------------------
(* Theorems *)

\* i2v_params_from and snap_frames: for every override and duration the model is
\* asked for 4k + 1 frames within its limit, enough for the scene.
THEOREM FramesFit == Spec => []FramesAccepted
<1>1. ShotInv => FramesAccepted
  <2> SUFFICES ASSUME ShotInv, source # 0
               PROVE  /\ source % 4 = 1 /\ source <= 256
                      /\ source >= Least(253, RoundHalves(Halves(req, cfg) * cfg.fps))
    BY DEF FramesAccepted
  <2>1. source = SnapFrames(FramesFor(Halves(req, cfg), cfg)) /\ stage # "request"
    BY DEF ShotInv, FrameInv, Early
  <2>2. cfg \in Config /\ req \in Requests
    BY <2>1, Configured
  <2> QED BY <2>1, <2>2, Framed
<1> QED BY <1>1, ShotAlways, PTL

\* finish_clip: for every factor, rate and cap, interpolation makes the frames of
\* the factor asked for, snapped, and never lets the clip play faster.
THEOREM PlaysAsAnimated == Spec => []FilmPlaysAsAnimated
<1>1. ShotInv => FilmPlaysAsAnimated
  <2> SUFFICES ASSUME ShotInv, stage = "done"
               PROVE  InterpolatedAsAsked /\ DurationKept
    BY DEF FilmPlaysAsAnimated, InterpolatedAsAsked, DurationKept
  <2> DEFINE asked == Clamp(req.factor, 1, 8, 2)
             d == source - 1
             x == cfg.fps
             f == cfg.factor
  <2>1. /\ cfg \in Config /\ req \in Requests /\ f = SnapFactor(asked)
        /\ asked \in 1 .. 8
    BY Configured
  <2>2. /\ f \in {1, 2, 4, 8} /\ x \in 1 .. 120 /\ cfg.target \in 0 .. 120
        /\ f <= asked /\ asked < 2 * f
    BY <2>1, ConfigTyped, Snapped
  <2>3. source \in 1 .. 256 /\ d \in Nat /\ frames \in Nat /\ fps \in Nat
    <3>1. source = SnapFrames(FramesFor(Halves(req, cfg), cfg)) /\ frames \in Nat
          /\ fps \in Nat
      BY DEF ShotInv, FrameInv, Early
    <3> QED BY <2>1, <3>1, Framed
  <2>4. \/ frames = source /\ fps = x
        \/ source > 1 /\ frames - 1 = d * f /\ fps = OutputFps(x, cfg)
    BY DEF ShotInv, FrameInv
  <2>5. CASE frames = source /\ fps = x
    BY <2>3, <2>5 DEF InterpolatedAsAsked, DurationKept, Interpolated
  <2>6. CASE source > 1 /\ frames - 1 = d * f /\ fps = OutputFps(x, cfg)
    <3>1. d * f <= d * asked /\ d * asked < d * (2 * f) /\ d * (2 * f) = 2 * (d * f)
      <4>1. d \in Nat /\ d > 0 /\ f \in Nat /\ asked \in Nat /\ asked + 1 <= 2 * f
        BY <2>1, <2>2, <2>3, <2>6
      <4> HIDE DEF d, f, asked
      <4>2. d * f <= d * asked
        BY <2>2, <4>1, Monotone
      <4>3. d * (asked + 1) <= d * (2 * f) /\ d * (asked + 1) = d * asked + d
        BY <4>1, Monotone
      <4>4. d * (2 * f) = 2 * (d * f) /\ d * asked \in Nat /\ d * f \in Nat
        BY <4>1
      <4> QED BY <4>1, <4>2, <4>3, <4>4
    <3>2. InterpolatedAsAsked
      BY <2>6, <3>1 DEF InterpolatedAsAsked
    <3>3. d * f \in Nat /\ d * (x * f) = (d * f) * x
      BY <2>2, <2>3, Multiplied
    <3>4. fps \in Nat /\ x * f \in Nat /\ fps <= x * f
          /\ (fps # x * f => cfg.target # 0 /\ fps = cfg.target)
      BY <2>2, <2>6 DEF OutputFps, Least
    <3>5. d * fps <= d * (x * f)
      BY <2>3, <3>4, Monotone
    <3>6. /\ d * fps <= (frames - 1) * x
          /\ d * fps < (frames - 1) * x => cfg.target # 0 /\ fps = cfg.target
      <4> HIDE DEF d, x, f
      <4>1. (frames - 1) * x = d * (x * f)
        BY <2>6, <3>3
      <4>2. d * (x * f) \in Nat /\ d * fps \in Nat
        BY <2>3, <3>4
      <4>3. d * fps # d * (x * f) => fps # x * f
        OBVIOUS
      <4> QED BY <3>4, <3>5, <4>1, <4>2, <4>3
    <3>7. DurationKept
      BY <3>6 DEF DurationKept
    <3> QED BY <3>2, <3>7
  <2> QED BY <2>4, <2>5, <2>6
<1> QED BY <1>1, ShotAlways, PTL

\* region_boxes: for every canvas, gutter and number of characters the regions
\* fill the canvas with just the gutter between them.
THEOREM RegionsFill == Spec => []RegionsApart
<1>1. ShotInv => RegionsApart
  <2> SUFFICES ASSUME ShotInv PROVE RegionsApart
    OBVIOUS
  <2>1. CASE boxes = <<>>
    BY <2>1 DEF RegionsApart
  <2>2. CASE /\ stage # "request"
             /\ \E n \in 2 .. 4 :
                  boxes = RegionBoxes(cfg.width, cfg.height, n, cfg.gutter)
    <3>1. cfg.width \in Widths /\ cfg.gutter \in Gutters
      BY <2>2, Canvas
    <3>2. PICK n \in Several : boxes = RegionBoxes(cfg.width, cfg.height, n, cfg.gutter)
      BY <2>2 DEF Several
    <3>3. Fills(boxes, cfg.width, cfg.gutter)
      BY <3>1, <3>2, Strips
    <3> QED BY <3>3 DEF Fills, Apart, RegionsApart
  <2> QED BY <2>1, <2>2 DEF ShotInv, BoxInv
<1> QED BY <1>1, ShotAlways, PTL
=============================================================================
