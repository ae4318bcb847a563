------------------------- MODULE MCProgressChannel -------------------------
(***************************************************************************)
(* The instance of ProgressChannel that TLC checks.                        *)
(***************************************************************************)
EXTENDS ProgressChannel

\* The last upload, that of the project state.
OneStage == <<"upload_done">>

\* One job is delivered again after a crash, the other is not.
OneRedelivery == [j \in Jobs |-> IF j = "j1" THEN 2 ELSE 1]
=============================================================================
