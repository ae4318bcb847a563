--------------------------- MODULE ProjectLedger ---------------------------
(***************************************************************************)
(* What incremental rendering promises a project, without workers, jobs or *)
(* plans: adapters appear; now and then a new project state is published,  *)
(* all at once.  A publication keeps every keyframe and marker of the      *)
(* state before it, except that some shots carry a newly drawn keyframe    *)
(* with the hash of what drew it, and marks only slots whose adapter is    *)
(* there to be reused.  Jobs that fail or die publish nothing.             *)
(*                                                                         *)
(* IncrementalRender implements it (see IncrementalRender!LedgerSpec)      *)
(* while one job of the project runs at a time and the state tar can be    *)
(* read; the module's README section says what is lost otherwise.          *)
(***************************************************************************)
CONSTANTS
    Shots, Slots,
    Image,        \* possible keyframes
    HashOf(_),    \* the hash of what drew an image
    None

VARIABLES
    published,    \* the project state, or None
    adapters      \* slots whose adapter exists

vars == <<published, adapters>>

Nothing == [kf |-> [s \in Shots |-> None], hash |-> [s \in Shots |-> None],
            trained |-> {}]

Current == IF published = None THEN Nothing ELSE published

Init == published = None /\ adapters = {}

AddAdapter ==
    /\ \E slot \in Slots : adapters' = adapters \cup {slot}
    /\ UNCHANGED published

Publish ==
    /\ published' # None
    /\ published'.trained \subseteq adapters
    /\ Current.trained \subseteq published'.trained
    /\ DOMAIN published'.kf = Shots /\ DOMAIN published'.hash = Shots
    /\ \A s \in Shots :
         \/ /\ published'.kf[s]   = Current.kf[s]
            /\ published'.hash[s] = Current.hash[s]
         \/ /\ published'.kf[s] \in Image
            /\ published'.hash[s] = HashOf(published'.kf[s])
    /\ UNCHANGED adapters

Next == AddAdapter \/ Publish

Spec == Init /\ [][Next]_vars
=============================================================================
