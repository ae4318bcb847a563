---------------------------- MODULE MCShotMath ----------------------------
(***************************************************************************)
(* Requests whose overrides lie on, inside and outside the bounds of the   *)
(* configuration, a few knobs at a time.                                   *)
(***************************************************************************)
EXTENDS ShotMath

Plain ==
    [tier |-> "standard", distill |-> None, cache |-> None, fps |-> None,
     numFrames |-> None, halves |-> None, interpolate |-> None,
     factor |-> None, target |-> None, width |-> None, height |-> None,
     gutter |-> None, slots |-> None, target_halves |-> None, chars |-> 1]

\* Durations and rates: what the frame count depends on.
Timings ==
    {[Plain EXCEPT !.fps = f, !.target_halves = t, !.halves = h, !.numFrames = n] :
        f \in {None, 0, 1, 3, 16, 25, 120, 200}, t \in {None} \cup 0 .. 34,
        h \in {None, 0, 7}, n \in {None, 300}}

\* Interpolation: factor, cap and rate, and clips of one frame.
Finishes ==
    {[Plain EXCEPT !.fps = f, !.factor = k, !.target = c, !.target_halves = t,
                   !.interpolate = i] :
        f \in {1, 16, 24}, k \in {None} \cup -1 .. 9, c \in {None, 0, 20, 60, 130},
        t \in {1, 5, 10}, i \in {None, FALSE}}

\* Canvas, gutter and how many characters share it.
Layouts ==
    {[Plain EXCEPT !.width = w, !.gutter = g, !.slots = s, !.chars = n] :
        w \in {None, 100, 513, 768, 1025, 4096}, g \in {None, -1, 0, 63, 128, 255, 300},
        s \in {None, 3, 4, 9}, n \in 0 .. 5}

\* Tiers, few-step sampling and feature caches.
Accelerated ==
    {[Plain EXCEPT !.tier = t, !.distill = d, !.cache = c] :
        t \in Tiers, d \in BOOLEAN \cup {None}, c \in Caches \cup {None}}

AllRequests == Timings \cup Finishes \cup Layouts \cup Accelerated
=============================================================================
