-------------------------- MODULE MCWarmKeyframes --------------------------
(***************************************************************************)
(* Scenes of two projects for one warm worker.                             *)
(***************************************************************************)
EXTENDS WarmKeyframes, TLC

CONSTANTS aria, bren

Both(x, y) == [slot \in Slots |-> IF slot = "A" THEN x ELSE y]

Shot(chars, lora, ref, few, sched) ==
    [chars |-> chars, lora |-> lora, ref |-> ref, face |-> TRUE,
     method |-> "ip_adapter", cap |-> 2, few |-> few, sched |-> sched]

Drafted(chars, lora, ref)  == Shot(chars, lora, ref, TRUE, "ddim_trailing")
Finished(chars, lora, ref) == Shot(chars, lora, ref, FALSE, "dpmpp_2m_karras")

Cast == Both(aria, bren)

InstantID(shot, face) == [shot EXCEPT !.method = "instantid", !.face = face]

\* No character, one with and without adapter or reference, another project's
\* character in the same slot, a two-shot, one over its cap, one with a
\* reference missing; InstantID with and without a face, and for a character it
\* does not serve.
TwoProjects ==
    {Drafted(<<>>, Cast, Cast),
     Shot(<<>>, Cast, Cast, FALSE, "tcd"),
     Finished(<<"A">>, Both(bren, None), Both(bren, None)),
     Shot(<<"A">>, Both(None, None), Both(None, None), TRUE, "euler"),
     Drafted(<<"A", "B">>, Cast, Cast),
     Finished(<<"B", "A">>, Both(aria, None), Cast),
     [Drafted(<<"A", "B">>, Cast, Cast) EXCEPT !.cap = 1],
     Drafted(<<"A", "B">>, Cast, Both(aria, None)),
     InstantID(Drafted(<<"A">>, Cast, Cast), TRUE),
     InstantID(Finished(<<"A">>, Both(bren, None), Both(bren, None)), TRUE),
     InstantID(Drafted(<<"B">>, Cast, Cast), FALSE),
     InstantID(Drafted(<<"A", "B">>, Cast, Cast), TRUE)}
=============================================================================
