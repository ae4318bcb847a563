---------------------------- MODULE ModelMirror ----------------------------
(***************************************************************************)
(* The cold-start model mirror of harness/models_mirror.py on one worker   *)
(* process: the blocking pull of ensure_models before every job, the eager *)
(* background pull of the i2v repositories (start_i2v_prefetch), and the   *)
(* call of ensure_i2v_models on the first i2v use, which joins the         *)
(* background thread and pulls by itself if that thread failed.            *)
(*                                                                         *)
(* The model cache is on disk and outlives the process.  A pull is one     *)
(* rclone copy per leg; while it runs the leg is partial, and a killed or  *)
(* failed copy leaves it so.  rclone brings HF-cache symlinks as marker    *)
(* files; a later step rebuilds the links of the whole HF cache.  The legs *)
(* that are plain files beside it have no links.                           *)
(*                                                                         *)
(* Faults: "pull" (rclone is missing, its configuration incomplete, it     *)
(* exits non-zero, a marker cannot be read or the sentinel not written:    *)
(* the pull raises), "link" (a symlink cannot be rebuilt: logged and left  *)
(* as a marker) and "crash" (the process dies).                            *)
(***************************************************************************)
EXTENDS FiniteSets

CONSTANTS
    ColdLegs,  \* copies of the cold-start pull: hf-cache, antelopev2, ...
    PlainLegs, \* those of them that are outside the HF cache
    Repos,     \* I2V_LAZY_REPOS
    Faults

ASSUME LegsAssumption ==
    /\ ColdLegs # {} /\ Repos # {} /\ ColdLegs \cap Repos = {}
    /\ PlainLegs \subseteq ColdLegs
    /\ Faults \subseteq {"pull", "link", "crash"}

Legs   == ColdLegs \cup Repos
Actors == {"main", "thread"}

VARIABLES
    creds,     \* whether the endpoint gives its workers R2 credentials
    copy,      \* per leg: absent, partial or full on disk
    markers,   \* legs of the HF cache whose symlinks are still marker files
    unlinked,  \* legs whose latest walk logged a link it could not rebuild
    sentinel,  \* .vj-mirror-complete
    i2vDone,   \* .vj-i2v-mirror-complete
    handle,    \* _i2v_prefetch_thread: none, alive or dead
    pc,        \* where each actor is; "out" is a thread that does not exist
    pulling,   \* per actor: legs being copied (at most one)
    todo       \* per actor: legs of the current pull not copied yet

disk == <<creds, copy, markers, unlinked, sentinel, i2vDone>>
vars == <<creds, copy, markers, unlinked, sentinel, i2vDone,
          handle, pc, pulling, todo>>

LazyAt   == {"join", "check", "pull", "link", "mark"}
MainAt   == LazyAt \cup {"idle", "cold", "coldpull", "coldlink", "coldmark",
                         "prefetch", "work", "loaded"}
ThreadAt == LazyAt \cup {"out"}

TypeOK ==
    /\ creds \in BOOLEAN
    /\ copy \in [Legs -> {"absent", "partial", "full"}]
    /\ markers \in SUBSET (Legs \ PlainLegs) /\ unlinked \in SUBSET (Legs \ PlainLegs)
    /\ sentinel \in BOOLEAN /\ i2vDone \in BOOLEAN
    /\ handle \in {"none", "alive", "dead"}
    /\ pc \in [Actors -> MainAt \cup ThreadAt]
    /\ pc["main"] \in MainAt /\ pc["thread"] \in ThreadAt
    /\ pulling \in [Actors -> SUBSET Legs]
    /\ todo \in [Actors -> SUBSET Legs]

Init ==
    /\ creds \in BOOLEAN
    /\ copy = [l \in Legs |-> "absent"] /\ markers = {} /\ unlinked = {}
    /\ sentinel = FALSE /\ i2vDone = FALSE
    /\ handle = "none"
    /\ pc = [x \in Actors |-> IF x = "main" THEN "idle" ELSE "out"]
    /\ pulling = [x \in Actors |-> {}]
    /\ todo    = [x \in Actors |-> {}]

Goto(x, from, to) == pc[x] = from /\ pc' = [pc EXCEPT ![x] = to]

-----------------------------------------------------------------------------
(* One rclone copy, in whichever pull *)

BeginCopy(x, at) ==
    /\ pc[x] = at /\ pulling[x] = {}
    /\ \E l \in todo[x] :
         /\ pulling' = [pulling EXCEPT ![x] = {l}]
         /\ copy'    = [copy EXCEPT ![l] = IF @ = "full" THEN @ ELSE "partial"]
    /\ UNCHANGED <<creds, markers, unlinked, sentinel, i2vDone, handle, pc, todo>>

EndCopy(x, at) ==
    /\ pc[x] = at
    /\ \E l \in pulling[x] :
         /\ copy'     = [copy EXCEPT ![l] = "full"]
         /\ markers'  = markers \cup ({l} \ PlainLegs)
         /\ unlinked' = unlinked \ {l}
         /\ todo'     = [todo EXCEPT ![x] = @ \ {l}]
    /\ pulling' = [pulling EXCEPT ![x] = {}]
    /\ UNCHANGED <<creds, sentinel, i2vDone, handle, pc>>

\* _reconstruct_symlinks walks the whole HF cache, whoever pulled it.  A link that cannot
\* be made is logged, its marker stays, and the call goes on to the sentinel.
RebuildLinks(x, from, to) ==
    /\ Goto(x, from, to)
    /\ \E left \in SUBSET markers :
         /\ left # {} => "link" \in Faults
         /\ markers' = left /\ unlinked' = left
    /\ UNCHANGED <<creds, copy, sentinel, i2vDone, handle, pulling, todo>>

-----------------------------------------------------------------------------
(* ensure_models and start_i2v_prefetch, at the head of every job *)

StartJob == Goto("main", "idle", "cold") /\ UNCHANGED <<disk, handle, pulling, todo>>

\* Warm worker, or no credentials: nothing to pull.
ColdSkip ==
    /\ Goto("main", "cold", "prefetch")
    /\ sentinel \/ ~creds
    /\ UNCHANGED <<disk, handle, pulling, todo>>

ColdPull ==
    /\ Goto("main", "cold", "coldpull")
    /\ ~sentinel /\ creds
    /\ todo' = [todo EXCEPT !["main"] = ColdLegs]
    /\ UNCHANGED <<disk, handle, pulling>>

ColdCopied ==
    /\ Goto("main", "coldpull", "coldlink")
    /\ todo["main"] = {}
    /\ UNCHANGED <<disk, handle, pulling, todo>>

ColdLinks == RebuildLinks("main", "coldlink", "coldmark")

ColdMark ==
    /\ Goto("main", "coldmark", "prefetch")
    /\ sentinel' = TRUE
    /\ UNCHANGED <<creds, copy, markers, unlinked, i2vDone, handle, pulling, todo>>

\* A handle that exists is returned as it is, running or not.
StartPrefetch ==
    /\ Goto("main", "prefetch", "work")
    /\ handle # "none" \/ i2vDone \/ ~creds
    /\ UNCHANGED <<disk, handle, pulling, todo>>

SpawnPrefetch ==
    /\ pc["main"] = "prefetch"
    /\ handle = "none" /\ ~i2vDone /\ creds
    /\ handle' = "alive"
    /\ pc' = [pc EXCEPT !["main"] = "work", !["thread"] = "join"]
    /\ UNCHANGED <<disk, pulling, todo>>

\* The rest of the job: without i2v, or into i2v_pipeline().
EndJob ==
    /\ Goto("main", "work", "idle")
    /\ UNCHANGED <<disk, handle, pulling, todo>>

NeedI2V ==
    /\ Goto("main", "work", "join")
    /\ UNCHANGED <<disk, handle, pulling, todo>>

-----------------------------------------------------------------------------
(* ensure_i2v_models, called by the main thread or by the prefetch thread *)

\* Seeded bugs: no join; the main thread waits for the sentinel instead.
JoinNothing(x) == TRUE
JoinSentinel(x) == x = "main" /\ handle # "none" => i2vDone

\* The main thread waits for a running prefetch; the prefetch thread does not
\* join itself.
JoinReturns(x) == x = "main" => handle # "alive"

Join(x) ==
    /\ Goto(x, "join", "check")
    /\ JoinReturns(x)
    /\ UNCHANGED <<disk, handle, pulling, todo>>

\* Seeded bug: the prefetch thread goes on to load the pipeline.
ReturnLoaded(x) ==
    /\ pc'     = [pc EXCEPT ![x] = "loaded"]
    /\ handle' = handle

\* The call returns: the main thread loads the pipeline, the prefetch thread ends.
Return(x) ==
    /\ pc'     = [pc EXCEPT ![x] = IF x = "main" THEN "loaded" ELSE "out"]
    /\ handle' = IF x = "thread" THEN "dead" ELSE handle

\* The call raises: the job fails, or the thread logs the error and ends.
Raise(x) ==
    /\ pc'      = [pc EXCEPT ![x] = IF x = "main" THEN "idle" ELSE "out"]
    /\ handle'  = IF x = "thread" THEN "dead" ELSE handle
    /\ pulling' = [pulling EXCEPT ![x] = {}]
    /\ todo'    = [todo EXCEPT ![x] = {}]
    /\ UNCHANGED disk

AlreadyMirrored(x) ==
    /\ pc[x] = "check"
    /\ i2vDone \/ ~creds
    /\ Return(x)
    /\ UNCHANGED <<disk, pulling, todo>>

LazyPull(x) ==
    /\ Goto(x, "check", "pull")
    /\ ~i2vDone /\ creds
    /\ todo' = [todo EXCEPT ![x] = Repos]
    /\ UNCHANGED <<disk, handle, pulling>>

\* Seeded bug: the lazy pull leaves the links to the cold-start pull's walk.
ReposUnwalked(x) ==
    /\ Goto(x, "pull", "mark")
    /\ todo[x] = {}
    /\ UNCHANGED <<disk, handle, pulling, todo>>

ReposCopied(x) ==
    /\ Goto(x, "pull", "link")
    /\ todo[x] = {}
    /\ UNCHANGED <<disk, handle, pulling, todo>>

LazyLinks(x) == RebuildLinks(x, "link", "mark")

LazyMark(x) ==
    /\ pc[x] = "mark"
    /\ i2vDone' = TRUE
    /\ Return(x)
    /\ UNCHANGED <<creds, copy, markers, unlinked, sentinel, pulling, todo>>

\* The Wan pipeline loads from the cache; the job goes on to its end.
Load ==
    /\ Goto("main", "loaded", "idle")
    /\ UNCHANGED <<disk, handle, pulling, todo>>

-----------------------------------------------------------------------------

\* Seeded bugs: the exit status of rclone is not checked; a failed pull is
\* logged in the foreground too.
CopySkipped(x) ==
    /\ pulling' = [pulling EXCEPT ![x] = {}]
    /\ todo'    = [todo EXCEPT ![x] = @ \ pulling[x]]
    /\ UNCHANGED <<disk, handle, pc>>

GiveUp(x) ==
    /\ Return(x)
    /\ pulling' = [pulling EXCEPT ![x] = {}]
    /\ todo'    = [todo EXCEPT ![x] = {}]
    /\ UNCHANGED disk

PullRaises(x) == Raise(x)

PullFails(x) ==
    /\ "pull" \in Faults
    /\ pc[x] \in {"coldpull", "coldlink", "coldmark", "pull", "link", "mark"}
    /\ PullRaises(x)

\* The thread is a daemon: it dies with the process.
Crash ==
    /\ "crash" \in Faults
    /\ pc' = [x \in Actors |-> IF x = "main" THEN "idle" ELSE "out"]
    /\ handle' = "none"
    /\ pulling' = [x \in Actors |-> {}] /\ todo' = [x \in Actors |-> {}]
    /\ UNCHANGED disk

Lazy(x) ==
    \/ Join(x) \/ AlreadyMirrored(x) \/ LazyPull(x)
    \/ BeginCopy(x, "pull") \/ EndCopy(x, "pull") \/ ReposCopied(x)
    \/ LazyLinks(x) \/ LazyMark(x)

Main ==
    \/ ColdSkip \/ ColdPull
    \/ BeginCopy("main", "coldpull") \/ EndCopy("main", "coldpull")
    \/ ColdCopied \/ ColdLinks \/ ColdMark
    \/ StartPrefetch \/ SpawnPrefetch \/ EndJob \/ NeedI2V \/ Load
    \/ Lazy("main")

Next ==
    \/ StartJob \/ Main \/ Lazy("thread")
    \/ \E x \in Actors : PullFails(x)
    \/ Crash

Spec == Init /\ [][Next]_vars

\* Both threads run; a copy that goes on comes to an end.
FairSpec == Spec /\ WF_vars(Main) /\ WF_vars(Lazy("thread"))

-----------------------------------------------------------------------------
(* Properties *)

\* Two pulls never write the cache at once: an i2v pull in the foreground never
\* overlaps the prefetch, and the prefetch never overlaps the cold-start pull.
OnePullAtATime == pulling["main"] = {} \/ pulling["thread"] = {}

Whole(l) == copy[l] = "full" /\ (l \in markers => l \in unlinked)

\* A completion sentinel is the truth about the disk, across failed pulls, killed
\* processes and the other thread's work: every leg whole, every link rebuilt but for
\* the ones the walk gave up on, which the sentinel does not tell of.
SentinelHonest ==
    /\ sentinel => \A l \in ColdLegs : Whole(l)
    /\ i2vDone  => \A l \in Repos : Whole(l)

\* The Wan pipeline loads only from a whole mirror (without credentials the
\* weights are the image's own).
LoadsWholeMirror ==
    pc["main"] = "loaded" /\ creds => \A l \in Repos : Whole(l)

\* The job itself waits for an i2v pull from the network only after a prefetch was
\* tried and failed.
SerialPullOnlyAfterFailure ==
    pulling["main"] \cap Repos # {} => handle = "dead"

\* A job that asks for the i2v pipeline gets it or fails: it never waits for ever
\* on the prefetch thread.
I2VDecided == pc["main"] = "join" ~> pc["main"] \in {"loaded", "idle"}
=============================================================================
