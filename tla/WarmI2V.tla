------------------------------ MODULE WarmI2V ------------------------------
(***************************************************************************)
(* The image-to-video engine of i2v.py on a warm worker.  The Wan pipeline *)
(* of models.ModelServer is a process global: the distill LoRA is baked    *)
(* into the weights of its experts once, while it is loaded, by one of two *)
(* loaders, and every shot sets the flow shift and the feature cache of    *)
(* the experts on what the shot before left.  Each of these settings is    *)
(* best-effort: a failure is printed and the shot goes on.                 *)
(*                                                                         *)
(* diffusers is external: a fuse that returns has put the LoRA into one    *)
(* expert or more, which of them is its choice; an expert with a cache     *)
(* refuses another one; a denoise leaves residuals in the caches of the    *)
(* experts it runs.                                                        *)
(*                                                                         *)
(* Faults: "weights" (the mirror or the pipeline cannot be loaded), "lora" *)
(* (a distill loader raises, with part of the LoRA in the weights),        *)
(* "shift" (the scheduler has no shift or cannot be rebuilt), "reset" and  *)
(* "cache" (a cache cannot be disabled, enabled), "context" (the build has *)
(* no cache context: a cached denoise raises), "draw" (a denoise raises).  *)
(***************************************************************************)
EXTENDS Naturals

CONSTANTS
    Experts,      \* transformer, transformer_2
    Pairs,        \* the (lora_A, lora_B) pairs of the distill LoRA
    FlowShifts,   \* values of flow_shift
    LoadedShift,  \* the shift of the scheduler the pipeline is loaded with
    Faults,
    None          \* absent value

CacheModes == {"none", "easycache", "mixcache"}

\* What animate is handed.  I2VConfig never pairs distill with a cache.
Shot == {s \in [distill: BOOLEAN, shift: FlowShifts, cache: CacheModes] :
            s.distill => s.cache = "none"}

ASSUME EngineAssumption ==
    /\ LoadedShift \in FlowShifts /\ None \notin FlowShifts \cup Shot
    /\ Experts # {} /\ "shift" \notin Experts /\ Pairs # {}
    /\ Faults \subseteq {"weights", "lora", "shift", "reset", "cache",
                         "context", "draw"}

VARIABLES
    wanted,   \* VJ_I2V_DISTILL of the endpoint
    pipe,     \* None before it is loaded, then its state
    pc,       \* what animate does next
    left,     \* pairs the LightX2V loop has still to add
    shot,     \* the shot it animates
    todo,     \* experts whose cache is still to be enabled
    failed,   \* settings of this shot that failed: experts not reset, "shift"
    retried,  \* whether the denoise is the one without cache
    clip      \* what went into the latest clip, None while one is on its way

vars == <<wanted, pipe, pc, left, shot, todo, failed, retried, clip>>

\* A cache that was set up, and whether it holds the residuals of a denoise.
Cache == [mode: CacheModes \ {"none"}, used: BOOLEAN]

Pipe ==
    [loaded: BOOLEAN,  \* _vj_i2v_distill_loaded; _vj_i2v_distill_fused is equal
     added: [Experts -> [Pairs -> 0 .. 2]],  \* times a pair is in the weights
     skipped: SUBSET (Experts \X Pairs),     \* history: what the latest loader
                                             \* tried to add and left out
     shift: FlowShifts, cache: [Experts -> Cache \cup {None}]]

\* A clip, with what the weights held when it was drawn.
Clip ==
    [shot: Shot, added: [Experts -> [Pairs -> 0 .. 2]],
     skipped: SUBSET (Experts \X Pairs)]

\* An absent object is none of the objects that could be there.
ASSUME NoneAssumption == None \notin Pipe /\ None \notin Cache

TypeOK ==
    /\ wanted \in BOOLEAN
    /\ pipe \in Pipe \cup {None}
    /\ pc \in {"idle", "load", "fuse", "delta", "offload", "distill", "shift",
              "reset", "enable", "denoise"}
    /\ left \in SUBSET Pairs
    /\ shot \in Shot \cup {None}
    /\ todo \in SUBSET Experts
    /\ failed \in SUBSET (Experts \cup {"shift"})
    /\ retried \in BOOLEAN
    /\ clip \in Clip \cup {None}

Init ==
    /\ wanted \in BOOLEAN
    /\ pipe = None /\ pc = "idle" /\ left = {} /\ shot = None /\ todo = {}
    /\ failed = {} /\ retried = FALSE /\ clip = None

Goto(from, to) == pc = from /\ pc' = to

\* The exception leaves the engine and fails the job.
Raise(from) ==
    /\ pc = from /\ pc' = "idle"
    /\ shot' = None /\ left' = {} /\ todo' = {} /\ failed' = {}
    /\ retried' = FALSE /\ clip' = None
    /\ UNCHANGED wanted

-----------------------------------------------------------------------------
(* Loading the pipeline *)

Begin ==
    /\ Goto("idle", "load")
    /\ shot' \in Shot
    /\ clip' = None
    /\ UNCHANGED <<wanted, pipe, left, todo, failed, retried>>

LoadFails ==
    /\ Raise("load")
    /\ "weights" \in Faults
    /\ pipe = None
    /\ UNCHANGED pipe

\* i2v_pipeline hands out the pipeline it has, or starts to load one.
Warm ==
    /\ Goto("load", "distill")
    /\ pipe # None
    /\ UNCHANGED <<wanted, pipe, left, shot, todo, failed, retried, clip>>

LoadPipe ==
    /\ Goto("load", IF wanted THEN "fuse" ELSE "offload")
    /\ pipe = None
    /\ pipe' = [loaded |-> FALSE, added |-> [e \in Experts |-> [q \in Pairs |-> 0]],
                skipped |-> {}, shift |-> LoadedShift,
                cache |-> [e \in Experts |-> None]]
    /\ UNCHANGED <<wanted, left, shot, todo, failed, retried, clip>>

\* The weights p with the pairs qs added to the experts es.
Add(p, es, qs) ==
    [p EXCEPT !.added = [e \in Experts |-> [q \in Pairs |->
        IF e \in es /\ q \in qs THEN @[e][q] + 1 ELSE @[e][q]]]]

\* _try_diffusers_distill: the LoRA is fused into the experts diffusers picks.
Fuse ==
    /\ Goto("fuse", "offload")
    /\ \E es \in (SUBSET Experts) \ {{}} :
         pipe' = [Add(pipe, es, Pairs) EXCEPT !.loaded = TRUE,
                                             !.skipped = (Experts \ es) \X Pairs]
    /\ UNCHANGED <<wanted, left, shot, todo, failed, retried, clip>>

\* It raises on the way, and what it has fused by then stays.
FuseFails ==
    /\ Goto("fuse", "delta")
    /\ "lora" \in Faults
    /\ \E es \in SUBSET Experts : pipe' = Add(pipe, es, Pairs)
    /\ left' = Pairs
    /\ UNCHANGED <<wanted, shot, todo, failed, retried, clip>>

\* _apply_lora_delta_to_wan, one turn of its loop: the pair goes into each expert
\* that has the matrix; AttributeError and RuntimeError skip the expert.
AddPair ==
    /\ pc = "delta"
    /\ \E q \in left, es \in SUBSET Experts :
         /\ left' = left \ {q}
         /\ pipe' = [Add(pipe, es, {q}) EXCEPT !.skipped =
                                                  @ \cup (Experts \ es) \X {q}]
    /\ UNCHANGED <<wanted, pc, shot, todo, failed, retried, clip>>

\* Seeded bug: a loop that could add nothing counts as a success.
VouchesAnyway(p) == TRUE

\* applied # 0 at the end of the loop.
Vouches(p) == p.skipped # Experts \X Pairs

DeltaEnds ==
    /\ Goto("delta", "offload")
    /\ left = {}
    /\ pipe' = [pipe EXCEPT !.loaded = Vouches(pipe)]
    /\ UNCHANGED <<wanted, left, shot, todo, failed, retried, clip>>

\* Any other exception ends the loop; the pairs it has added stay.
DeltaFails ==
    /\ Goto("delta", "offload")
    /\ "lora" \in Faults
    /\ left' = {}
    /\ UNCHANGED <<wanted, pipe, shot, todo, failed, retried, clip>>

\* The rest of i2v_pipeline, and the pipeline is kept; or it raises, and is not.
KeepPipe ==
    /\ Goto("offload", "distill")
    /\ UNCHANGED <<wanted, pipe, left, shot, todo, failed, retried, clip>>

OffloadFails ==
    /\ Raise("offload")
    /\ "weights" \in Faults
    /\ pipe' = None

-----------------------------------------------------------------------------
(* Settings of the shot *)

\* _set_distill refuses a distilled shot on weights without the LoRA; with the
\* LoRA fused there is nothing to set.
DistillServed(p, s) == p.loaded \/ ~s.distill

SetDistill ==
    /\ Goto("distill", "shift")
    /\ DistillServed(pipe, shot)
    /\ UNCHANGED <<wanted, pipe, left, shot, todo, failed, retried, clip>>

DistillRefused ==
    /\ Raise("distill")
    /\ ~DistillServed(pipe, shot)
    /\ UNCHANGED pipe

\* _apply_flow_shift; one that fails keeps the scheduler that is there.
ApplyFlowShift ==
    /\ Goto("shift", "reset")
    /\ \/ pipe' = [pipe EXCEPT !.shift = shot.shift] /\ UNCHANGED failed
       \/ /\ "shift" \in Faults /\ pipe.shift # shot.shift
          /\ failed' = failed \cup {"shift"} /\ UNCHANGED pipe
    /\ UNCHANGED <<wanted, left, shot, todo, retried, clip>>

Cached(p) == {e \in Experts : p.cache[e] # None}

\* Seeded bug: only the first expert's cache is disabled.
DroppedFirst(p, kept) == (Cached(p) \ kept) \cap {CHOOSE e \in Experts : TRUE}

Dropped(p, kept) == Cached(p) \ kept

\* Seeded bug: "none" is a cache like the others.
AnyMode(s) == TRUE

WantsCache(s) == s.cache # "none"

\* _set_feature_cache: first every expert's cache is disabled, ...
ResetCaches ==
    /\ pc = "reset"
    /\ \E kept \in IF "reset" \in Faults THEN SUBSET Cached(pipe) ELSE {{}} :
         /\ pipe' = [pipe EXCEPT !.cache =
                       [e \in Experts |-> IF e \in Dropped(pipe, kept)
                                          THEN None ELSE @[e]]]
         /\ failed' = (failed \ Experts) \cup kept
    /\ IF WantsCache(shot) /\ ~retried
       THEN todo' = Experts /\ pc' = "enable"
       ELSE todo' = {} /\ pc' = "denoise"
    /\ UNCHANGED <<wanted, left, shot, retried, clip>>

\* ... then each gets the shot's, unless it still has one or cannot have it.
EnableCache ==
    /\ pc = "enable"
    /\ \E e \in todo :
         /\ todo' = todo \ {e}
         /\ \/ /\ pipe.cache[e] = None
               /\ pipe' = [pipe EXCEPT !.cache[e] =
                             [mode |-> shot.cache, used |-> FALSE]]
            \/ /\ pipe.cache[e] # None \/ "cache" \in Faults
               /\ UNCHANGED pipe
    /\ pc' = IF todo' = {} THEN "denoise" ELSE pc
    /\ UNCHANGED <<wanted, left, shot, failed, retried, clip>>

-----------------------------------------------------------------------------
(* The denoise *)

Used(p) == [p EXCEPT !.cache = [e \in Experts |->
                IF p.cache[e] = None THEN None ELSE [p.cache[e] EXCEPT !.used = TRUE]]]

Denoise ==
    /\ Goto("denoise", "idle")
    /\ pipe' = Used(pipe)
    /\ clip' = [shot |-> shot, added |-> pipe.added, skipped |-> pipe.skipped]
    /\ shot' = None /\ failed' = {} /\ retried' = FALSE
    /\ UNCHANGED <<wanted, left, todo>>

\* Seeded bug: the denoise without cache is followed by another one.
KeepRetrying(again) == FALSE

GiveUpAfter(again) == again

\* "No context is set": once, the caches are cleared and the shot runs again.
RetryUncached ==
    /\ Goto("denoise", "reset")
    /\ "context" \in Faults /\ Cached(pipe) # {} /\ ~GiveUpAfter(retried)
    /\ retried' = TRUE
    /\ pipe' = Used(pipe)
    /\ UNCHANGED <<wanted, left, shot, todo, failed, clip>>

DenoiseFails ==
    /\ Raise("denoise")
    /\ \/ "draw" \in Faults
       \/ "context" \in Faults /\ Cached(pipe) # {} /\ GiveUpAfter(retried)
    /\ pipe' = Used(pipe)

Next ==
    \/ Begin \/ LoadFails \/ Warm \/ LoadPipe
    \/ Fuse \/ FuseFails \/ AddPair \/ DeltaEnds \/ DeltaFails
    \/ KeepPipe \/ OffloadFails
    \/ SetDistill \/ DistillRefused
    \/ ApplyFlowShift \/ ResetCaches \/ EnableCache
    \/ Denoise \/ RetryUncached \/ DenoiseFails

Spec == Init /\ [][Next]_vars

\* The engine goes on with a shot it has begun; shots come when they come.
FairSpec == Spec /\ WF_vars(pc # "idle" /\ Next)

-----------------------------------------------------------------------------
(* Properties *)

\* A clip reported as distilled was drawn with some of the LoRA in the weights,
\* and the loader that vouched for it tried every pair in every expert: what is
\* not in the weights it left out.  It may have left out much (an expert, all
\* pairs but one) and says so to nobody, and the gate of _set_distill asks for
\* no more: such a clip is drawn in four steps like any other.
DistilledClipHasLora ==
    clip # None /\ clip.shot.distill =>
        /\ \E e \in Experts, q \in Pairs : clip.added[e][q] > 0
        /\ \A e \in Experts, q \in Pairs :
              clip.added[e][q] = 0 => <<e, q>> \in clip.skipped

\* A denoise starts from no other shot's residuals, in either expert, unless
\* that expert refused to drop its cache.
CacheNeverLeaks ==
    pc = "denoise" => \A e \in Cached(pipe) \ failed :
        ~pipe.cache[e].used /\ pipe.cache[e].mode = shot.cache

\* A shot is drawn at its own flow shift, whatever the one before asked for,
\* unless the rebuild of the scheduler failed for this very shot.
ShiftAsAsked ==
    pc \in {"reset", "enable", "denoise"} /\ "shift" \notin failed =>
        pipe.shift = shot.shift

\* A shot ends, in a clip or an exception: the retry without cache is the last.
ShotEnds == pc # "idle" ~> pc = "idle"
=============================================================================
