-------------------------- MODULE ProgressChannel --------------------------
(***************************************************************************)
(* The progress channel of harness/progress.py, driven by handler() and    *)
(* run_job() of harness/handler.py, for the jobs of one project.           *)
(*                                                                         *)
(* A job keeps its events and a snapshot in memory.  Each emit rewrites    *)
(* two R2 objects keyed by job id, the whole log and then the snapshot,    *)
(* inside one try whose exception is swallowed: a failed log write skips   *)
(* the snapshot, and the next emit makes up for both.  A poller reads      *)
(* either object between any two steps.  stdout and the RunPod hook, which *)
(* feed nothing back, are left out.                                        *)
(*                                                                         *)
(* The job itself is a list of stages, any of which may raise; it reports  *)
(* a stage once it is done.  What raises before run_job's emitter exists   *)
(* is reported by an emitter of its own (the mirror) or to nobody: the R2  *)
(* configuration, and the setup around it (reading the request, building   *)
(* the pipeline, the work directory).  A crashed worker's job may be       *)
(* delivered again under its id, with the memory of the first lost.        *)
(***************************************************************************)
EXTENDS Naturals, Sequences, SequencesExt, FiniteSets

CONSTANTS
    Jobs,         \* job ids of the project
    Stages,       \* the event of each stage, in order
    Counted,      \* _COUNTED: events the snapshot counts
    MaxAttempts,  \* per job, a bound on its deliveries
    Faults        \* "put", "config", "mirror", "setup", "stage", "crash"

Kinds == {"started", "mirror_done", "complete", "error"} \cup Range(Stages)

ASSUME ChannelAssumption ==
    /\ Stages \in Seq(STRING)
    /\ Range(Stages) \cap {"started", "mirror_done", "complete", "error"} = {}
    /\ Counted \subseteq STRING
    /\ MaxAttempts \in [Jobs -> Nat \ {0}]
    /\ Faults \subseteq {"put", "config", "mirror", "setup", "stage", "crash"}

VARIABLES
    log,      \* R2: per key, the event stream and the delivery that wrote it
    snap,     \* R2: per key, the snapshot and the delivery that wrote it
    phase,    \* per job: where handler() is
    attempt,  \* deliveries of the job so far
    work,     \* stages done by this delivery
    events,   \* the emitter's _events
    view,     \* the emitter's _snapshot
    put,      \* object the emit under way writes next
    lost,     \* the latest emit did not reach R2 in full
    cause     \* what raised, for a job that fails

vars == <<log, snap, phase, attempt, work, events, view, put, lost, cause>>

Blank == [status |-> "running", n |-> 0, counts |-> 0, last |-> "none"]

NoLog  == [attempt |-> 0, evs |-> <<>>]
NoSnap == [attempt |-> 0, view |-> Blank]

Phases == {"queued", "config", "mirror", "setup", "mirrored", "work",
           "respond", "raise", "done", "failed", "dead"}

View == [status: {"running", "complete", "error"}, n: Nat, counts: Nat,
         last: Kinds \cup {"none"}]

TypeOK ==
    /\ log \in [Jobs -> [attempt: Nat, evs: Seq(Kinds)]]
    /\ snap \in [Jobs -> [attempt: Nat, view: View]]
    /\ phase \in [Jobs -> Phases]
    /\ attempt \in [Jobs -> Nat] /\ \A j \in Jobs : attempt[j] <= MaxAttempts[j]
    /\ work \in [Jobs -> 0..Len(Stages)]
    /\ events \in [Jobs -> Seq(Kinds)]
    /\ view \in [Jobs -> View]
    /\ put \in [Jobs -> {"none", "log", "snap"}]
    /\ lost \in [Jobs -> BOOLEAN]
    /\ cause \in [Jobs -> {"none", "config", "mirror", "setup", "stage"}]

Init ==
    /\ log     = [j \in Jobs |-> NoLog]
    /\ snap    = [j \in Jobs |-> NoSnap]
    /\ phase   = [j \in Jobs |-> "queued"]
    /\ attempt = [j \in Jobs |-> 0]
    /\ work    = [j \in Jobs |-> 0]
    /\ events  = [j \in Jobs |-> <<>>]
    /\ view    = [j \in Jobs |-> Blank]
    /\ put     = [j \in Jobs |-> "none"]
    /\ lost    = [j \in Jobs |-> FALSE]
    /\ cause   = [j \in Jobs |-> "none"]

-----------------------------------------------------------------------------
(* The emitter *)

\* Seeded bug: the key of the objects leaves the job id out.
KeyOfProject(j) == CHOOSE k \in Jobs : TRUE

Key(j) == j

\* Seeded bug: the status is the event.
StatusOfEvent(status, ev) == ev

StatusAfter(status, ev) ==
    IF ev \in {"error", "complete"} THEN ev ELSE status

ViewAfter(v, ev) ==
    [status |-> StatusAfter(v.status, ev), n |-> v.n + 1,
     counts |-> v.counts + (IF ev \in Counted THEN 1 ELSE 0), last |-> ev]

\* emit() up to the first write.
Emit(j, ev) ==
    /\ events' = [events EXCEPT ![j] = Append(@, ev)]
    /\ view'   = [view EXCEPT ![j] = ViewAfter(@, ev)]
    /\ put'    = [put EXCEPT ![j] = "log"]

NoEmit == UNCHANGED <<events, view, put>>

\* Seeded bug: only the new event is sent, appended to what is there.
AppendedStream(j) ==
    Append(IF log[Key(j)].attempt = attempt[j] THEN log[Key(j)].evs ELSE <<>>,
           events[j][Len(events[j])])

Stream(j) == events[j]

PutLog(j) ==
    /\ put[j] = "log"
    /\ log' = [log EXCEPT ![Key(j)] = [attempt |-> attempt[j], evs |-> Stream(j)]]
    /\ put' = [put EXCEPT ![j] = "snap"]
    /\ UNCHANGED <<snap, phase, attempt, work, events, view, lost, cause>>

PutSnap(j) ==
    /\ put[j] = "snap"
    /\ snap' = [snap EXCEPT ![Key(j)] = [attempt |-> attempt[j], view |-> view[j]]]
    /\ put'  = [put EXCEPT ![j] = "none"]
    /\ lost' = [lost EXCEPT ![j] = FALSE]
    /\ UNCHANGED <<log, phase, attempt, work, events, view, cause>>

\* Seeded bugs: each write has a try of its own; both are tried again until they
\* succeed.
GoOnToSnap(j) ==
    /\ put'  = [put EXCEPT ![j] = IF @ = "log" THEN "snap" ELSE "none"]
    /\ UNCHANGED <<phase, cause>>

WriteBothAgain(j) ==
    /\ put' = [put EXCEPT ![j] = "log"]
    /\ UNCHANGED <<phase, cause>>

\* The exception ends the write; the job does not notice.
Swallow(j) ==
    /\ put' = [put EXCEPT ![j] = "none"]
    /\ UNCHANGED <<phase, cause>>

PutFails(j) ==
    /\ "put" \in Faults /\ put[j] # "none"
    /\ Swallow(j)
    /\ lost' = [lost EXCEPT ![j] = TRUE]
    /\ UNCHANGED <<log, snap, attempt, work, events, view>>

-----------------------------------------------------------------------------
(* handler() and run_job() *)

\* The call goes on only when the emit before it has returned.
Goto(j, from, to) ==
    /\ phase[j] = from /\ put[j] = "none"
    /\ phase' = [phase EXCEPT ![j] = to]
    /\ UNCHANGED <<log, snap, lost>>

\* A new delivery builds a new emitter.
Deliver(j) ==
    /\ attempt[j] < MaxAttempts[j]
    /\ Goto(j, IF attempt[j] = 0 THEN "queued" ELSE "dead", "config")
    /\ attempt' = [attempt EXCEPT ![j] = @ + 1]
    /\ work'    = [work EXCEPT ![j] = 0]
    /\ events'  = [events EXCEPT ![j] = <<>>]
    /\ view'    = [view EXCEPT ![j] = Blank]
    /\ UNCHANGED <<put, cause>>

Pass(j, from, to) ==
    /\ Goto(j, from, to) /\ NoEmit
    /\ UNCHANGED <<attempt, work, cause>>

\* The exception leaves handler() with nothing written: R2 is the failure, or
\* the setup (request, work directory, pipeline) failed where run_job has no
\* emitter yet.
RaiseSilently(j, from) ==
    /\ from \in Faults
    /\ Goto(j, from, "failed") /\ NoEmit
    /\ cause' = [cause EXCEPT ![j] = from]
    /\ UNCHANGED <<attempt, work>>

MirrorFails(j) ==
    /\ "mirror" \in Faults
    /\ Goto(j, "mirror", "raise") /\ Emit(j, "error")
    /\ cause' = [cause EXCEPT ![j] = "mirror"]
    /\ UNCHANGED <<attempt, work>>

Start(j) ==
    /\ Goto(j, "setup", "mirrored") /\ Emit(j, "started")
    /\ UNCHANGED <<attempt, work, cause>>

MirrorDone(j) ==
    /\ Goto(j, "mirrored", "work") /\ Emit(j, "mirror_done")
    /\ UNCHANGED <<attempt, work, cause>>

\* The next stage: LoRA, keyframe, clip, merge, upload.
DoStage(j) ==
    /\ Goto(j, "work", "work")
    /\ work[j] < Len(Stages)
    /\ Emit(j, Stages[work[j] + 1])
    /\ work' = [work EXCEPT ![j] = @ + 1]
    /\ UNCHANGED <<attempt, cause>>

\* Seeded bug: the failure is not reported.
NoReport(j) == NoEmit

Report(j) == Emit(j, "error")

StageFails(j) ==
    /\ "stage" \in Faults
    /\ Goto(j, "work", "raise") /\ Report(j)
    /\ cause' = [cause EXCEPT ![j] = "stage"]
    /\ UNCHANGED <<attempt, work>>

\* Seeded bug: complete is emitted before the last upload, the state's.
CompleteEarly(j) ==
    /\ work[j] + 1 >= Len(Stages)
    /\ Goto(j, "work", "respond") /\ Emit(j, "complete")
    /\ UNCHANGED <<attempt, work, cause>>

Complete(j) ==
    /\ work[j] = Len(Stages)
    /\ Goto(j, "work", "respond") /\ Emit(j, "complete")
    /\ UNCHANGED <<attempt, work, cause>>

Crash(j) ==
    /\ "crash" \in Faults /\ phase[j] \notin {"queued", "done", "failed", "dead"}
    /\ phase'  = [phase EXCEPT ![j] = "dead"]
    /\ put'    = [put EXCEPT ![j] = "none"]
    /\ lost'   = [lost EXCEPT ![j] = @ \/ put[j] # "none"]
    /\ UNCHANGED <<log, snap, attempt, work, events, view, cause>>

Step(j) ==
    \/ PutLog(j) \/ PutSnap(j) \/ PutFails(j)
    \/ Pass(j, "config", "mirror") \/ RaiseSilently(j, "config")
    \/ Pass(j, "mirror", "setup") \/ MirrorFails(j)
    \/ Start(j) \/ RaiseSilently(j, "setup")
    \/ MirrorDone(j) \/ DoStage(j) \/ StageFails(j) \/ Complete(j)
    \/ Pass(j, "respond", "done") \/ Pass(j, "raise", "failed")

Next == \E j \in Jobs : Deliver(j) \/ Step(j) \/ Crash(j)

Spec == Init /\ [][Next]_vars

\* handler() is one synchronous call: a delivered job keeps going.
FairSpec == Spec /\ \A j \in Jobs : WF_vars(Step(j))

-----------------------------------------------------------------------------
(* Properties *)

Upto(s, n) == SubSeq(s, 1, n)

Summary(evs) ==
    [status |-> IF "error" \in Range(evs) THEN "error"
                ELSE IF "complete" \in Range(evs) THEN "complete" ELSE "running",
     n      |-> Len(evs),
     counts |-> Cardinality({i \in DOMAIN evs : evs[i] \in Counted}),
     last   |-> IF evs = <<>> THEN "none" ELSE evs[Len(evs)]]

\* The log in R2 is what the job emitted up to some point, with no gap and no
\* event of another job, whichever writes were lost: the next write heals it.
LogIsWhole ==
    \A j \in Jobs : log[j].attempt = attempt[j] => IsPrefix(log[j].evs, events[j])

\* A poller never finds in the snapshot what it cannot find in the log: the log
\* is written first, and a lost log write holds the snapshot back.
SnapshotWithinLog ==
    \A j \in Jobs :
        /\ snap[j].attempt <= log[j].attempt
        /\ snap[j].attempt = log[j].attempt =>
             /\ snap[j].view.n <= Len(log[j].evs)
             /\ snap[j].view = Summary(Upto(log[j].evs, snap[j].view.n))

\* What a poller reads, whenever it reads: no gap in the log, and no snapshot
\* ahead of it.
PollerSeesPrefix == LogIsWhole /\ SnapshotWithinLog

\* Nothing is announced that has not happened, or out of turn: a stage event in the log
\* is that of a stage done, at its place, and "complete" is there only when every
\* artifact and the state are uploaded.
AnnouncedIsDone ==
    \A j \in Jobs : log[j].attempt = attempt[j] =>
        \A i \in DOMAIN log[j].evs :
            /\ log[j].evs[i] \in Range(Stages) =>
                 i - 2 \in 1..work[j] /\ log[j].evs[i] = Stages[i - 2]
            /\ log[j].evs[i] = "complete" => work[j] = Len(Stages)

Feed == INSTANCE ProgressFeed WITH
            epoch <- attempt, story <- events, LastWords <- {"complete", "error"}

\* What ProgressFeed promises a poller, this two-object, best-effort channel keeps:
\* the log is always replaced by the whole story of the latest delivery, the snapshot
\* always by the summary of the log that is in R2, and the last word is the last.
FeedSpec == Feed!Spec

\* A job that ended with its last emit in R2 shows the right outcome, a failed
\* mirror included; only a bad R2 configuration or a failed setup, which have no
\* emitter, leave no trace.
OutcomeReported ==
    \A j \in Jobs :
        ~lost[j] /\ cause[j] \notin {"config", "setup"} =>
            /\ phase[j] = "done"   => snap[j].view.status = "complete"
            /\ phase[j] = "failed" => snap[j].view.status = "error"

\* Within one delivery a snapshot that says complete or error never changes again.
TerminalIsFinal ==
    [][\A j \in Jobs :
          /\ snap[j].view.status # "running"
          /\ snap'[j].attempt = snap[j].attempt
          => snap'[j].view = snap[j].view]_vars

\* However many writes are lost, a delivered job comes to its end.
DeliveredEnds ==
    \A j \in Jobs : phase[j] = "config" ~> phase[j] \in {"done", "failed", "dead"}
=============================================================================
