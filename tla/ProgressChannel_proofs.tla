----------------------- MODULE ProgressChannel_proofs -----------------------
(***************************************************************************)
(* Theorems about ProgressChannel, for any jobs, stages, deliveries and    *)
(* faults.                                                                 *)
(*                                                                         *)
(* The invariant speaks of one job at a time, since no two jobs share an   *)
(* object.  Of what is in R2, the log and the snapshot come from a         *)
(* delivery that has begun; one written by the latest delivery is part of  *)
(* its memory, and is all of it when no write was lost.  Of the memory,    *)
(* the status in the snapshot is that of the place the job is at: once it  *)
(* is complete or error, nothing more is emitted.  StoryInv adds what a    *)
(* poller relies on (the snapshot is a summary of a beginning of the log)  *)
(* and what the job has told at each place.                                *)
(***************************************************************************)
EXTENDS ProgressChannel, FiniteSetTheorems, TLAPS

-----------------------------------------------------------------------------
(* The invariant *)

R2Inv(j) ==
    /\ log[j].attempt <= attempt[j] /\ snap[j].attempt <= attempt[j]
    /\ log[j].attempt = attempt[j] => IsPrefix(log[j].evs, events[j])
    /\ put[j] = "none" /\ ~lost[j] /\ view[j].n > 0 =>
         snap[j] = [attempt |-> attempt[j], view |-> view[j]]
    /\ snap[j].attempt = attempt[j] /\ snap[j].view.status # "running" =>
         snap[j].view = view[j]

Running == {"config", "mirror", "setup", "mirrored", "work"}

MemoryInv(j) ==
    /\ phase[j] = "queued" => attempt[j] = 0
    /\ phase[j] \in {"queued", "done", "failed", "dead"} => put[j] = "none"
    /\ phase[j] \in Running \cup {"queued"} => view[j].status = "running"
    /\ phase[j] \in {"respond", "done"} =>
         view[j].status = "complete" /\ view[j].n > 0
    /\ phase[j] = "raise" \/ (phase[j] = "failed" /\ cause[j] \notin {"config", "setup"}) =>
         view[j].status = "error" /\ view[j].n > 0

ChannelInv == TypeOK /\ \A j \in Jobs : R2Inv(j) /\ MemoryInv(j)

-----------------------------------------------------------------------------
(* Types *)

Keeps(j) ==
    /\ log'[j] = log[j] /\ snap'[j] = snap[j] /\ phase'[j] = phase[j]
    /\ attempt'[j] = attempt[j] /\ work'[j] = work[j] /\ events'[j] = events[j]
    /\ view'[j] = view[j] /\ put'[j] = put[j] /\ lost'[j] = lost[j]
    /\ cause'[j] = cause[j]

\* What one job does leaves the others alone.
LEMMA OthersKeep ==
  ASSUME ChannelInv, NEW k \in Jobs, \A j \in Jobs \ {k} : Keeps(j),
         R2Inv(k)', MemoryInv(k)', TypeOK'
  PROVE  ChannelInv'
<1>1. ASSUME NEW j \in Jobs, j # k PROVE R2Inv(j)' /\ MemoryInv(j)'
  <2>1. R2Inv(j) /\ MemoryInv(j) /\ Keeps(j)
    BY <1>1 DEF ChannelInv
  <2> QED BY <2>1 DEF R2Inv, MemoryInv, Keeps
<1> QED BY <1>1 DEF ChannelInv

LEMMA Typed ==
  ASSUME ChannelInv, NEW j \in Jobs
  PROVE  /\ log[j] \in [attempt: Nat, evs: Seq(Kinds)] /\ log[j].attempt \in Nat
         /\ log[j].evs \in Seq(Kinds) /\ snap[j] \in [attempt: Nat, view: View]
         /\ snap[j].attempt \in Nat
         /\ snap[j].view \in View /\ phase[j] \in Phases /\ attempt[j] \in Nat
         /\ attempt[j] <= MaxAttempts[j] /\ work[j] \in 0 .. Len(Stages)
         /\ events[j] \in Seq(Kinds) /\ view[j] \in View /\ view[j].n \in Nat
         /\ put[j] \in {"none", "log", "snap"} /\ lost[j] \in BOOLEAN
BY DEF ChannelInv, TypeOK, View

LEMMA ViewTyped ==
  ASSUME NEW v \in View, NEW ev \in Kinds
  PROVE  /\ ViewAfter(v, ev) \in View /\ ViewAfter(v, ev).n > 0
         /\ ViewAfter(v, ev).status = StatusAfter(v.status, ev)
<1>1. StatusAfter(v.status, ev) \in {"running", "complete", "error"}
  BY DEF StatusAfter, View
<1>2. v.n + 1 \in Nat /\ v.n + 1 > 0
  BY DEF View
<1>3. v.counts + (IF ev \in Counted THEN 1 ELSE 0) \in Nat
  BY DEF View
<1> QED BY <1>1, <1>2, <1>3 DEF ViewAfter, View

LEMMA BlankTyped == Blank \in View /\ Blank.status = "running" /\ ~(Blank.n > 0)
BY DEF Blank, View

LEMMA KindsKnown ==
  /\ "started" \in Kinds /\ "mirror_done" \in Kinds /\ "complete" \in Kinds
  /\ "error" \in Kinds /\ Range(Stages) \subseteq Kinds
BY DEF Kinds

LEMMA PrefixSelf ==
  ASSUME NEW s \in Seq(Kinds)
  PROVE  IsPrefix(s, s)
BY DEF IsPrefix

LEMMA PrefixGrows ==
  ASSUME NEW s \in Seq(Kinds), NEW t \in Seq(Kinds), NEW ev \in Kinds, IsPrefix(s, t)
  PROVE  IsPrefix(s, Append(t, ev))
BY DEF IsPrefix

-----------------------------------------------------------------------------
(* Every step keeps the invariant *)

Causes == {"none", "config", "mirror", "setup", "stage"}

LEMMA InitChannel == Init => ChannelInv
<1> SUFFICES ASSUME Init PROVE ChannelInv
  OBVIOUS
<1>1. NoLog \in [attempt: Nat, evs: Seq(Kinds)] /\ NoSnap \in [attempt: Nat, view: View]
  BY BlankTyped DEF NoLog, NoSnap
<1>2. 0 \in 0 .. Len(Stages) /\ \A j \in Jobs : 0 <= MaxAttempts[j]
  BY ChannelAssumption
<1>3. TypeOK
  BY <1>1, <1>2, BlankTyped DEF Init, TypeOK, Phases
<1>4. ASSUME NEW j \in Jobs PROVE R2Inv(j) /\ MemoryInv(j)
  <2>1. /\ log[j] = NoLog /\ snap[j] = NoSnap /\ phase[j] = "queued"
        /\ attempt[j] = 0 /\ events[j] = <<>> /\ view[j] = Blank /\ put[j] = "none"
    BY DEF Init
  <2>2. IsPrefix(<<>>, <<>>)
    BY DEF IsPrefix
  <2>3. R2Inv(j)
    BY <2>1, <2>2, BlankTyped DEF R2Inv, NoLog, NoSnap
  <2> QED BY <2>1, <2>3, BlankTyped DEF MemoryInv, Running
<1> QED BY <1>3, <1>4 DEF ChannelInv

LEMMA EmitKeeps ==
  ASSUME ChannelInv, NEW k \in Jobs, NEW ev \in Kinds, Emit(k, ev), put[k] = "none",
         phase[k] \in Running, NEW to \in {"raise", "mirrored", "work", "respond"},
         phase' = [phase EXCEPT ![k] = to],
         to = "raise" => ev = "error", to = "respond" => ev = "complete",
         to \in {"mirrored", "work"} => ev \notin {"error", "complete"},
         UNCHANGED <<log, snap, attempt, lost>>,
         work' \in [Jobs -> 0 .. Len(Stages)], cause' \in [Jobs -> Causes],
         \A j \in Jobs \ {k} : work'[j] = work[j] /\ cause'[j] = cause[j]
  PROVE  ChannelInv'
<1>1. /\ events' = [events EXCEPT ![k] = Append(events[k], ev)]
      /\ view' = [view EXCEPT ![k] = ViewAfter(view[k], ev)]
      /\ put' = [put EXCEPT ![k] = "log"]
  BY DEF Emit
<1>2. /\ view[k] \in View /\ events[k] \in Seq(Kinds) /\ log[k].evs \in Seq(Kinds)
      /\ R2Inv(k) /\ MemoryInv(k)
  BY Typed DEF ChannelInv
<1>3. /\ ViewAfter(view[k], ev) \in View /\ ViewAfter(view[k], ev).n > 0
      /\ ViewAfter(view[k], ev).status = StatusAfter("running", ev)
  BY <1>2, ViewTyped DEF MemoryInv
<1>4. Append(events[k], ev) \in Seq(Kinds)
  BY <1>2
<1>5. TypeOK'
  BY <1>1, <1>3, <1>4 DEF ChannelInv, TypeOK, Phases, Causes
<1>6. /\ events'[k] = Append(events[k], ev) /\ view'[k] = ViewAfter(view[k], ev)
      /\ put'[k] = "log" /\ phase'[k] = to /\ UNCHANGED <<log, snap, attempt, lost>>
  BY <1>1 DEF ChannelInv, TypeOK
<1>7. R2Inv(k)'
  <2>1. log[k].attempt = attempt[k] => IsPrefix(log[k].evs, Append(events[k], ev))
    BY <1>2, PrefixGrows DEF R2Inv
  <2>2. ~(snap[k].attempt = attempt[k] /\ snap[k].view.status # "running")
    BY <1>2 DEF R2Inv, MemoryInv
  <2> QED BY <1>2, <1>6, <2>1, <2>2 DEF R2Inv
<1>8. MemoryInv(k)'
  BY <1>3, <1>6 DEF MemoryInv, Running, StatusAfter
<1>9. \A j \in Jobs \ {k} : Keeps(j)
  BY <1>1 DEF ChannelInv, TypeOK, Keeps
<1> QED BY <1>5, <1>7, <1>8, <1>9, OthersKeep

LEMMA QuietKeeps ==
  ASSUME ChannelInv, NEW k \in Jobs, NEW to \in Phases, put[k] = "none",
         phase' = [phase EXCEPT ![k] = to], cause' \in [Jobs -> Causes],
         \A j \in Jobs \ {k} : cause'[j] = cause[j],
         UNCHANGED <<log, snap, lost, events, view, put, attempt, work>>,
         MemoryInv(k)'
  PROVE  ChannelInv'
<1>1. TypeOK'
  BY DEF ChannelInv, TypeOK, Causes
<1>2. R2Inv(k)'
  BY DEF ChannelInv, R2Inv
<1>3. \A j \in Jobs \ {k} : Keeps(j)
  BY DEF ChannelInv, TypeOK, Keeps
<1> QED BY <1>1, <1>2, <1>3, OthersKeep

LEMMA PassKeeps ==
  ASSUME ChannelInv, NEW k \in Jobs,
         \/ Pass(k, "config", "mirror") \/ Pass(k, "mirror", "setup")
         \/ Pass(k, "respond", "done") \/ Pass(k, "raise", "failed")
  PROVE  ChannelInv'
<1>1. ASSUME NEW from \in Phases, NEW to \in Phases, Pass(k, from, to),
             <<from, to>> \in {<<"config", "mirror">>, <<"mirror", "setup">>,
                              <<"respond", "done">>, <<"raise", "failed">>}
      PROVE  ChannelInv'
  <2>1. /\ phase[k] = from /\ put[k] = "none" /\ phase' = [phase EXCEPT ![k] = to]
        /\ UNCHANGED <<log, snap, lost, events, view, put, attempt, work, cause>>
    BY <1>1 DEF Pass, Goto, NoEmit
  <2>2. phase'[k] = to /\ MemoryInv(k)
    BY <2>1 DEF ChannelInv, TypeOK
  <2>3. MemoryInv(k)'
    BY <1>1, <2>1, <2>2 DEF MemoryInv, Running
  <2>4. cause' \in [Jobs -> Causes] /\ \A j \in Jobs \ {k} : cause'[j] = cause[j]
    BY <2>1 DEF ChannelInv, TypeOK, Causes
  <2> QED BY <2>1, <2>3, <2>4, QuietKeeps
<1> QED BY <1>1 DEF Phases

LEMMA SilentKeeps ==
  ASSUME ChannelInv, NEW k \in Jobs, NEW from \in {"config", "setup"},
         RaiseSilently(k, from)
  PROVE  ChannelInv'
<1>1. /\ phase[k] = from /\ put[k] = "none" /\ phase' = [phase EXCEPT ![k] = "failed"]
      /\ cause' = [cause EXCEPT ![k] = from]
      /\ UNCHANGED <<log, snap, lost, events, view, put, attempt, work>>
  BY DEF RaiseSilently, Goto, NoEmit
<1>2. phase'[k] = "failed" /\ cause'[k] = from /\ put'[k] = "none"
  BY <1>1 DEF ChannelInv, TypeOK
<1>3. MemoryInv(k)'
  BY <1>2 DEF MemoryInv, Running
<1>4. cause' \in [Jobs -> Causes] /\ \A j \in Jobs \ {k} : cause'[j] = cause[j]
  BY <1>1 DEF ChannelInv, TypeOK, Causes
<1>5. "failed" \in Phases
  BY DEF Phases
<1> QED BY <1>1, <1>3, <1>4, <1>5, QuietKeeps

LEMMA EmittersKeep ==
  ASSUME ChannelInv, NEW k \in Jobs,
         \/ MirrorFails(k) \/ Start(k) \/ MirrorDone(k) \/ DoStage(k)
         \/ StageFails(k) \/ Complete(k)
  PROVE  ChannelInv'
<1>0. /\ work \in [Jobs -> 0 .. Len(Stages)] /\ cause \in [Jobs -> Causes]
      /\ work[k] \in 0 .. Len(Stages) /\ Len(Stages) \in Nat
  BY ChannelAssumption DEF ChannelInv, TypeOK, Causes
<1>1. CASE MirrorFails(k)
  <2>1. /\ phase[k] = "mirror" /\ put[k] = "none" /\ Emit(k, "error")
        /\ phase' = [phase EXCEPT ![k] = "raise"]
        /\ UNCHANGED <<log, snap, attempt, lost>> /\ work' = work
        /\ cause' = [cause EXCEPT ![k] = "mirror"]
    BY <1>1 DEF MirrorFails, Goto
  <2>2. cause' \in [Jobs -> Causes] /\ \A j \in Jobs \ {k} : cause'[j] = cause[j]
    BY <1>0, <2>1 DEF Causes
  <2> QED BY <1>0, <2>1, <2>2, KindsKnown, EmitKeeps DEF Running
<1>2. CASE Start(k)
  <2>1. /\ phase[k] = "setup" /\ put[k] = "none" /\ Emit(k, "started")
        /\ phase' = [phase EXCEPT ![k] = "mirrored"]
        /\ UNCHANGED <<log, snap, attempt, lost>> /\ work' = work /\ cause' = cause
    BY <1>2 DEF Start, Goto
  <2> QED BY <1>0, <2>1, KindsKnown, EmitKeeps DEF Running
<1>3. CASE MirrorDone(k)
  <2>1. /\ phase[k] = "mirrored" /\ put[k] = "none" /\ Emit(k, "mirror_done")
        /\ phase' = [phase EXCEPT ![k] = "work"]
        /\ UNCHANGED <<log, snap, attempt, lost>> /\ work' = work /\ cause' = cause
    BY <1>3 DEF MirrorDone, Goto
  <2> QED BY <1>0, <2>1, KindsKnown, EmitKeeps DEF Running
<1>4. CASE DoStage(k)
  <2> DEFINE ev == Stages[work[k] + 1]
  <2>1. /\ phase[k] = "work" /\ put[k] = "none" /\ Emit(k, ev)
        /\ phase' = [phase EXCEPT ![k] = "work"] /\ work[k] < Len(Stages)
        /\ UNCHANGED <<log, snap, attempt, lost>>
        /\ work' = [work EXCEPT ![k] = work[k] + 1] /\ cause' = cause
    BY <1>4 DEF DoStage, Goto
  <2>2. work' \in [Jobs -> 0 .. Len(Stages)] /\ \A j \in Jobs \ {k} : work'[j] = work[j]
    BY <1>0, <2>1
  <2>3. ev \in Range(Stages)
    <3>1. work[k] + 1 \in 1 .. Len(Stages) /\ Stages \in Seq(STRING)
      BY <1>0, <2>1, ChannelAssumption
    <3> QED BY <3>1 DEF Range
  <2>4. ev \in Kinds /\ ev \notin {"error", "complete"}
    BY <2>3, KindsKnown, ChannelAssumption
  <2> HIDE DEF ev
  <2> QED BY <1>0, <2>1, <2>2, <2>4, EmitKeeps DEF Running
<1>5. CASE StageFails(k)
  <2>1. /\ phase[k] = "work" /\ put[k] = "none" /\ Emit(k, "error")
        /\ phase' = [phase EXCEPT ![k] = "raise"]
        /\ UNCHANGED <<log, snap, attempt, lost>> /\ work' = work
        /\ cause' = [cause EXCEPT ![k] = "stage"]
    BY <1>5 DEF StageFails, Report, Goto
  <2>2. cause' \in [Jobs -> Causes] /\ \A j \in Jobs \ {k} : cause'[j] = cause[j]
    BY <1>0, <2>1 DEF Causes
  <2> QED BY <1>0, <2>1, <2>2, KindsKnown, EmitKeeps DEF Running
<1>6. CASE Complete(k)
  <2>1. /\ phase[k] = "work" /\ put[k] = "none" /\ Emit(k, "complete")
        /\ phase' = [phase EXCEPT ![k] = "respond"]
        /\ UNCHANGED <<log, snap, attempt, lost>> /\ work' = work /\ cause' = cause
    BY <1>6 DEF Complete, Goto
  <2> QED BY <1>0, <2>1, KindsKnown, EmitKeeps DEF Running
<1> QED BY <1>1, <1>2, <1>3, <1>4, <1>5, <1>6

LEMMA WritesKeep ==
  ASSUME ChannelInv, NEW k \in Jobs, PutLog(k) \/ PutSnap(k) \/ PutFails(k)
  PROVE  ChannelInv'
<1>0. /\ R2Inv(k) /\ MemoryInv(k) /\ events[k] \in Seq(Kinds) /\ attempt[k] \in Nat
      /\ view[k] \in View /\ view[k].n \in Nat
  BY Typed DEF ChannelInv
<1>1. CASE PutLog(k)
  <2> DEFINE l == [attempt |-> attempt[k], evs |-> events[k]]
  <2>1. /\ put[k] = "log" /\ log' = [log EXCEPT ![k] = l]
        /\ put' = [put EXCEPT ![k] = "snap"]
        /\ UNCHANGED <<snap, phase, attempt, work, events, view, lost, cause>>
    BY <1>1 DEF PutLog, Key, Stream
  <2>2. l \in [attempt: Nat, evs: Seq(Kinds)] /\ l.attempt = attempt[k]
        /\ l.evs = events[k]
    BY <1>0
  <2> HIDE DEF l
  <2>3. TypeOK'
    BY <2>1, <2>2 DEF ChannelInv, TypeOK
  <2>4. log'[k] = l /\ put'[k] = "snap"
    BY <2>1 DEF ChannelInv, TypeOK
  <2>5. R2Inv(k)'
    BY <1>0, <2>1, <2>2, <2>4, PrefixSelf DEF R2Inv
  <2>6. MemoryInv(k)'
    BY <1>0, <2>1, <2>4 DEF MemoryInv
  <2>7. \A j \in Jobs \ {k} : Keeps(j)
    BY <2>1 DEF ChannelInv, TypeOK, Keeps
  <2> QED BY <2>3, <2>5, <2>6, <2>7, OthersKeep
<1>2. CASE PutSnap(k)
  <2> DEFINE v == [attempt |-> attempt[k], view |-> view[k]]
  <2>1. /\ put[k] = "snap" /\ snap' = [snap EXCEPT ![k] = v]
        /\ put' = [put EXCEPT ![k] = "none"] /\ lost' = [lost EXCEPT ![k] = FALSE]
        /\ UNCHANGED <<log, phase, attempt, work, events, view, cause>>
    BY <1>2 DEF PutSnap, Key
  <2>2. v \in [attempt: Nat, view: View] /\ v.attempt = attempt[k] /\ v.view = view[k]
    BY <1>0
  <2>3. TypeOK'
    BY <2>1, <2>2 DEF ChannelInv, TypeOK
  <2>4. snap'[k] = v /\ put'[k] = "none"
    BY <2>1 DEF ChannelInv, TypeOK
  <2>5. R2Inv(k)'
    BY <1>0, <2>1, <2>2, <2>4 DEF R2Inv
  <2>6. MemoryInv(k)'
    BY <1>0, <2>1, <2>4 DEF MemoryInv
  <2>7. \A j \in Jobs \ {k} : Keeps(j)
    BY <2>1 DEF ChannelInv, TypeOK, Keeps
  <2> QED BY <2>3, <2>5, <2>6, <2>7, OthersKeep
<1>3. CASE PutFails(k)
  <2>1. /\ put[k] # "none" /\ put' = [put EXCEPT ![k] = "none"]
        /\ lost' = [lost EXCEPT ![k] = TRUE]
        /\ UNCHANGED <<log, snap, phase, attempt, work, events, view, cause>>
    BY <1>3 DEF PutFails, Swallow
  <2>2. TypeOK'
    BY <2>1 DEF ChannelInv, TypeOK
  <2>3. put'[k] = "none" /\ lost'[k] = TRUE
    BY <2>1 DEF ChannelInv, TypeOK
  <2>4. R2Inv(k)' /\ MemoryInv(k)'
    BY <1>0, <2>1, <2>3 DEF R2Inv, MemoryInv
  <2>5. \A j \in Jobs \ {k} : Keeps(j)
    BY <2>1 DEF ChannelInv, TypeOK, Keeps
  <2> QED BY <2>2, <2>4, <2>5, OthersKeep
<1> QED BY <1>1, <1>2, <1>3

LEMMA DeliverKeeps == ASSUME ChannelInv, NEW k \in Jobs, Deliver(k) PROVE ChannelInv'
<1>1. /\ attempt[k] < MaxAttempts[k] /\ put[k] = "none"
      /\ phase' = [phase EXCEPT ![k] = "config"]
      /\ attempt' = [attempt EXCEPT ![k] = attempt[k] + 1]
      /\ work' = [work EXCEPT ![k] = 0] /\ events' = [events EXCEPT ![k] = <<>>]
      /\ view' = [view EXCEPT ![k] = Blank]
      /\ UNCHANGED <<log, snap, lost, put, cause>>
  BY DEF Deliver, Goto
<1>2. /\ R2Inv(k) /\ attempt[k] \in Nat /\ MaxAttempts[k] \in Nat
      /\ log[k].attempt \in Nat /\ snap[k].attempt \in Nat
  BY Typed, ChannelAssumption DEF ChannelInv
<1>3. attempt[k] + 1 \in Nat /\ attempt[k] + 1 <= MaxAttempts[k] /\ Len(Stages) \in Nat
  BY <1>1, <1>2, ChannelAssumption
<1>4. TypeOK'
  BY <1>1, <1>3, BlankTyped DEF ChannelInv, TypeOK, Phases
<1>5. /\ phase'[k] = "config" /\ attempt'[k] = attempt[k] + 1 /\ events'[k] = <<>>
      /\ view'[k] = Blank /\ put'[k] = "none"
  BY <1>1 DEF ChannelInv, TypeOK
<1>6. R2Inv(k)' /\ MemoryInv(k)'
  BY <1>1, <1>2, <1>5, BlankTyped DEF R2Inv, MemoryInv, Running
<1>7. \A j \in Jobs \ {k} : Keeps(j)
  BY <1>1 DEF ChannelInv, TypeOK, Keeps
<1> QED BY <1>4, <1>6, <1>7, OthersKeep

LEMMA CrashKeeps == ASSUME ChannelInv, NEW k \in Jobs, Crash(k) PROVE ChannelInv'
<1>1. /\ phase' = [phase EXCEPT ![k] = "dead"] /\ put' = [put EXCEPT ![k] = "none"]
      /\ lost' = [lost EXCEPT ![k] = lost[k] \/ put[k] # "none"]
      /\ UNCHANGED <<log, snap, attempt, work, events, view, cause>>
  BY DEF Crash
<1>2. R2Inv(k) /\ lost[k] \in BOOLEAN
  BY Typed DEF ChannelInv
<1>3. (lost[k] \/ put[k] # "none") \in BOOLEAN
  OBVIOUS
<1>4. TypeOK'
  BY <1>1, <1>3 DEF ChannelInv, TypeOK, Phases
<1>5. /\ phase'[k] = "dead" /\ put'[k] = "none"
      /\ lost'[k] = (lost[k] \/ put[k] # "none")
  BY <1>1 DEF ChannelInv, TypeOK
<1>6. R2Inv(k)'
  BY <1>1, <1>2, <1>5 DEF R2Inv
<1>7. MemoryInv(k)'
  BY <1>5 DEF MemoryInv, Running
<1>8. \A j \in Jobs \ {k} : Keeps(j)
  BY <1>1 DEF ChannelInv, TypeOK, Keeps
<1> QED BY <1>4, <1>6, <1>7, <1>8, OthersKeep

LEMMA NextChannel == ChannelInv /\ [Next]_vars => ChannelInv'
<1> SUFFICES ASSUME ChannelInv, [Next]_vars PROVE ChannelInv'
  OBVIOUS
<1>1. CASE UNCHANGED vars
  <2>1. TypeOK'
    BY <1>1 DEF vars, ChannelInv, TypeOK
  <2>2. ASSUME NEW j \in Jobs PROVE R2Inv(j)' /\ MemoryInv(j)'
    BY <1>1 DEF vars, ChannelInv, R2Inv, MemoryInv
  <2> QED BY <2>1, <2>2 DEF ChannelInv
<1>2. ASSUME NEW k \in Jobs, Step(k) PROVE ChannelInv'
  BY <1>2, WritesKeep, PassKeeps, SilentKeeps, EmittersKeep DEF Step
<1> QED BY <1>1, <1>2, DeliverKeeps, CrashKeeps DEF Next

LEMMA ChannelAlways == Spec => []ChannelInv
BY InitChannel, NextChannel, PTL DEF Spec

-----------------------------------------------------------------------------
(* The summary of a story *)

CountedIn(s) == {i \in DOMAIN s : s[i] \in Counted}

LEMMA CountedFinite ==
  ASSUME NEW s \in Seq(Kinds)
  PROVE  IsFiniteSet(CountedIn(s)) /\ Cardinality(CountedIn(s)) \in Nat
<1>1. IsFiniteSet(1 .. Len(s))
  BY FS_Interval
<1>2. CountedIn(s) \in SUBSET (1 .. Len(s))
  BY DEF CountedIn
<1> QED BY <1>1, <1>2, FS_Subset, FS_CardinalityType

LEMMA CountedGrows ==
  ASSUME NEW s \in Seq(Kinds), NEW ev \in Kinds
  PROVE  Cardinality(CountedIn(Append(s, ev))) =
           Cardinality(CountedIn(s)) + (IF ev \in Counted THEN 1 ELSE 0)
<1>1. CASE ev \in Counted
  <2>1. CountedIn(Append(s, ev)) = CountedIn(s) \cup {Len(s) + 1}
    BY <1>1 DEF CountedIn
  <2>2. Len(s) + 1 \notin CountedIn(s)
    BY DEF CountedIn
  <2> QED BY <1>1, <2>1, <2>2, CountedFinite, FS_AddElement
<1>2. CASE ev \notin Counted
  <2>1. CountedIn(Append(s, ev)) = CountedIn(s)
    BY <1>2 DEF CountedIn
  <2> QED BY <1>2, <2>1, CountedFinite
<1> QED BY <1>1, <1>2

LEMMA SummaryTyped ==
  ASSUME NEW s \in Seq(Kinds)
  PROVE  /\ Summary(s).n = Len(s) /\ Summary(s).counts = Cardinality(CountedIn(s))
         /\ Summary(s).last = (IF s = <<>> THEN "none" ELSE s[Len(s)])
         /\ Summary(s).status = "running" <=>
              \A i \in DOMAIN s : s[i] \notin {"complete", "error"}
BY DEF Summary, CountedIn, Range

LEMMA SummaryGrows ==
  ASSUME NEW s \in Seq(Kinds), NEW ev \in Kinds, Summary(s).status = "running"
  PROVE  ViewAfter(Summary(s), ev) = Summary(Append(s, ev))
<1> DEFINE t == Append(s, ev)
<1>0. /\ \A i \in DOMAIN s : s[i] \notin {"complete", "error"}
      /\ t \in Seq(Kinds) /\ t # <<>> /\ Len(t) = Len(s) + 1 /\ t[Len(t)] = ev
      /\ DOMAIN t = DOMAIN s \cup {Len(t)} /\ \A i \in DOMAIN s : t[i] = s[i]
  BY SummaryTyped
<1> HIDE DEF t
<1>1. CASE ev = "error"
  <2>1. Summary(t).status = "error"
    BY <1>0, <1>1 DEF Summary, Range
  <2> QED BY <1>0, <1>1, <2>1, SummaryTyped, CountedGrows DEF ViewAfter, StatusAfter, Summary, CountedIn, t
<1>2. CASE ev = "complete"
  <2>1. Summary(t).status = "complete"
    BY <1>0, <1>2 DEF Summary, Range
  <2> QED BY <1>0, <1>2, <2>1, SummaryTyped, CountedGrows DEF ViewAfter, StatusAfter, Summary, CountedIn, t
<1>3. CASE ev \notin {"error", "complete"}
  <2>1. Summary(t).status = "running"
    BY <1>0, <1>3 DEF Summary, Range
  <2> QED BY <1>0, <1>3, <2>1, SummaryTyped, CountedGrows DEF ViewAfter, StatusAfter, Summary, CountedIn, t
<1> QED BY <1>1, <1>2, <1>3

LEMMA SummaryOfNothing == Summary(<<>>) = Blank
<1>1. CountedIn(<<>>) = {}
  BY DEF CountedIn
<1> QED BY <1>1, FS_EmptySet DEF Summary, Blank, CountedIn, Range

-----------------------------------------------------------------------------
(* What a step is to whoever polls *)

Begins(k) ==
    /\ put[k] = "none"
    /\ phase' = [phase EXCEPT ![k] = "config"]
    /\ attempt' = [attempt EXCEPT ![k] = @ + 1]
    /\ work' = [work EXCEPT ![k] = 0] /\ events' = [events EXCEPT ![k] = <<>>]
    /\ view' = [view EXCEPT ![k] = Blank]
    /\ UNCHANGED <<log, snap, put>>

\* One line of run_job's script: at `from`, say `ev` and go to `to` with w stages done.
Line(k, from, ev, to, w) ==
    \/ from = "mirror"   /\ ev = "error"             /\ to = "raise"    /\ w = work[k]
    \/ from = "setup"    /\ ev = "started"           /\ to = "mirrored" /\ w = work[k]
    \/ from = "mirrored" /\ ev = "mirror_done"       /\ to = "work"     /\ w = work[k]
    \/ from = "work"     /\ ev = "error"             /\ to = "raise"    /\ w = work[k]
    \/ from = "work"     /\ ev = Stages[work[k] + 1] /\ to = "work"
       /\ work[k] < Len(Stages) /\ w = work[k] + 1
    \/ from = "work"     /\ ev = "complete"          /\ to = "respond"  /\ w = work[k]
       /\ work[k] = Len(Stages)

Tells(k, ev, to, w) ==
    /\ Line(k, phase[k], ev, to, w)
    /\ put[k] = "none" /\ Emit(k, ev)
    /\ phase' = [phase EXCEPT ![k] = to] /\ work' = [work EXCEPT ![k] = w]
    /\ UNCHANGED <<log, snap, attempt>>

\* Nothing in memory or in R2 changes: a lost write, a raise, a crash, a return.
Silent(k, to) ==
    /\ to \in {phase[k], "failed", "done", "dead"}
       \/ <<phase[k], to>> \in {<<"config", "mirror">>, <<"mirror", "setup">>}
    /\ phase' = [phase EXCEPT ![k] = to]
    /\ put' = put \/ put' = [put EXCEPT ![k] = "none"]
    /\ UNCHANGED <<log, snap, attempt, work, events, view>>

LEMMA StepKinds ==
  ASSUME TypeOK, NEW k \in Jobs, Deliver(k) \/ Step(k) \/ Crash(k)
  PROVE  \/ Begins(k) \/ PutLog(k) \/ PutSnap(k)
         \/ \E ev \in Kinds, to \in Phases, w \in 0 .. Len(Stages) : Tells(k, ev, to, w)
         \/ \E to \in Phases : Silent(k, to)
<1>0. /\ work \in [Jobs -> 0 .. Len(Stages)] /\ work[k] \in 0 .. Len(Stages)
      /\ Len(Stages) \in Nat /\ phase \in [Jobs -> Phases] /\ phase[k] \in Phases
      /\ work = [work EXCEPT ![k] = work[k]] /\ phase = [phase EXCEPT ![k] = phase[k]]
  BY ChannelAssumption DEF TypeOK
<1>1. ASSUME NEW from, NEW to \in Phases, NEW ev \in Kinds, NEW w \in 0 .. Len(Stages),
             Goto(k, from, to), Emit(k, ev), Line(k, from, ev, to, w),
             work' = [work EXCEPT ![k] = w], attempt' = attempt
      PROVE  \E e \in Kinds, p \in Phases, n \in 0 .. Len(Stages) : Tells(k, e, p, n)
  <2>1. Tells(k, ev, to, w)
    BY <1>1 DEF Tells, Goto
  <2> QED BY <2>1
<1>2. {"raise", "mirrored", "work", "respond", "mirror", "setup", "failed", "done", "dead"}
        \subseteq Phases
  BY DEF Phases
<1>3. CASE Deliver(k)
  BY <1>3 DEF Deliver, Goto, Begins
<1>4. CASE MirrorFails(k)
  <2>1. /\ Goto(k, "mirror", "raise") /\ Emit(k, "error") /\ work' = work
        /\ attempt' = attempt /\ Line(k, "mirror", "error", "raise", work[k])
    BY <1>4 DEF MirrorFails, Line
  <2> QED BY <1>0, <1>1, <1>2, <2>1, KindsKnown
<1>5. CASE Start(k)
  <2>1. /\ Goto(k, "setup", "mirrored") /\ Emit(k, "started") /\ work' = work
        /\ attempt' = attempt /\ Line(k, "setup", "started", "mirrored", work[k])
    BY <1>5 DEF Start, Line
  <2> QED BY <1>0, <1>1, <1>2, <2>1, KindsKnown
<1>6. CASE MirrorDone(k)
  <2>1. /\ Goto(k, "mirrored", "work") /\ Emit(k, "mirror_done") /\ work' = work
        /\ attempt' = attempt /\ Line(k, "mirrored", "mirror_done", "work", work[k])
    BY <1>6 DEF MirrorDone, Line
  <2> QED BY <1>0, <1>1, <1>2, <2>1, KindsKnown
<1>7. CASE DoStage(k)
  <2> DEFINE ev == Stages[work[k] + 1]
  <2>1. /\ Goto(k, "work", "work") /\ Emit(k, ev) /\ work[k] < Len(Stages)
        /\ work' = [work EXCEPT ![k] = work[k] + 1] /\ attempt' = attempt
    BY <1>7 DEF DoStage
  <2>2. Line(k, "work", ev, "work", work[k] + 1)
    BY <2>1 DEF Line
  <2>3. work[k] + 1 \in 0 .. Len(Stages) /\ work[k] + 1 \in 1 .. Len(Stages)
    BY <1>0, <2>1
  <2>4. ev \in Kinds
    BY <2>3, KindsKnown, ChannelAssumption DEF Range
  <2> HIDE DEF ev
  <2> QED BY <1>1, <1>2, <2>1, <2>2, <2>3, <2>4
<1>8. CASE StageFails(k)
  <2>1. /\ Goto(k, "work", "raise") /\ Emit(k, "error") /\ work' = work
        /\ attempt' = attempt /\ Line(k, "work", "error", "raise", work[k])
    BY <1>8 DEF StageFails, Report, Line
  <2> QED BY <1>0, <1>1, <1>2, <2>1, KindsKnown
<1>9. CASE Complete(k)
  <2>1. /\ Goto(k, "work", "respond") /\ Emit(k, "complete") /\ work' = work
        /\ attempt' = attempt /\ Line(k, "work", "complete", "respond", work[k])
    BY <1>9 DEF Complete, Line
  <2> QED BY <1>0, <1>1, <1>2, <2>1, KindsKnown
<1>10. CASE PutFails(k)
  <2>1. Silent(k, phase[k])
    BY <1>0, <1>10 DEF PutFails, Swallow, Silent
  <2> QED BY <1>0, <2>1
<1>11. ASSUME NEW from, NEW to \in Phases, Pass(k, from, to),
              to \in {"failed", "done"}
              \/ <<from, to>> \in {<<"config", "mirror">>, <<"mirror", "setup">>}
       PROVE  \E p \in Phases : Silent(k, p)
  <2>1. Silent(k, to)
    BY <1>11 DEF Pass, Goto, NoEmit, Silent
  <2> QED BY <2>1
<1>12. ASSUME NEW from, RaiseSilently(k, from) PROVE \E p \in Phases : Silent(k, p)
  <2>1. Silent(k, "failed")
    BY <1>12 DEF RaiseSilently, Goto, NoEmit, Silent
  <2> QED BY <1>2, <2>1
<1>13. CASE Crash(k)
  <2>1. Silent(k, "dead")
    BY <1>13 DEF Crash, Silent
  <2> QED BY <1>2, <2>1
<1> QED BY <1>2, <1>3, <1>4, <1>5, <1>6, <1>7, <1>8, <1>9, <1>10, <1>11, <1>12, <1>13 DEF Step

-----------------------------------------------------------------------------
(* What whoever polls may rely on *)

\* The snapshot in memory is the summary of the events; between its two writes the log in
\* R2 is all of them, so the snapshot about to be written is the summary of that log, and
\* a snapshot in R2 stays the summary of a beginning of it.
FeedInv(j) ==
    /\ view[j] = Summary(events[j])
    /\ put[j] = "snap" => log[j] = [attempt |-> attempt[j], evs |-> events[j]]
    /\ snap[j].attempt <= log[j].attempt
    /\ snap[j].attempt = log[j].attempt =>
         /\ snap[j].view.n <= Len(log[j].evs)
         /\ snap[j].view = Summary(Upto(log[j].evs, snap[j].view.n))

\* run_job tells its story in order: where it is, how much has been told, and of what.
ScriptInv(j) ==
    /\ phase[j] \in {"config", "mirror", "setup"} => events[j] = <<>>
    /\ phase[j] \in {"config", "mirror", "setup", "mirrored"} => work[j] = 0
    /\ phase[j] = "mirrored" => Len(events[j]) = 1
    /\ phase[j] = "work" => Len(events[j]) = work[j] + 2
    /\ \A i \in DOMAIN events[j] :
         /\ events[j][i] \in Range(Stages) =>
              i - 2 \in 1 .. work[j] /\ events[j][i] = Stages[i - 2]
         /\ events[j][i] = "complete" => work[j] = Len(Stages)

StoryInv == ChannelInv /\ \A j \in Jobs : FeedInv(j) /\ ScriptInv(j)

LEMMA PrefixAt ==
  ASSUME NEW s \in Seq(Kinds), NEW t \in Seq(Kinds), IsPrefix(s, t)
  PROVE  Len(s) <= Len(t) /\ \A i \in 1 .. Len(s) : s[i] = t[i]
<1>1. Len(s) <= Len(t) /\ SubSeq(s, 1, Len(s)) = SubSeq(t, 1, Len(s))
  BY DEF IsPrefix
<1>2. ASSUME NEW i \in 1 .. Len(s) PROVE s[i] = t[i]
  <2>1. SubSeq(s, 1, Len(s))[i] = s[i] /\ SubSeq(t, 1, Len(s))[i] = t[i]
    BY <1>1
  <2> QED BY <1>1, <2>1
<1> QED BY <1>1, <1>2

LEMMA UptoPrefix ==
  ASSUME NEW s \in Seq(Kinds), NEW t \in Seq(Kinds), IsPrefix(s, t), NEW n \in 0 .. Len(s)
  PROVE  Upto(s, n) = Upto(t, n)
<1>1. n \in 0 .. Len(t) /\ \A i \in 1 .. n : s[i] = t[i]
  BY PrefixAt
<1>2. SubSeq(s, 1, n) = [i \in 1 .. n |-> s[i]]
  OBVIOUS
<1>3. SubSeq(t, 1, n) = [i \in 1 .. n |-> t[i]]
  BY <1>1
<1> QED BY <1>1, <1>2, <1>3 DEF Upto

LEMMA UptoAll == ASSUME NEW s \in Seq(Kinds) PROVE Upto(s, Len(s)) = s
BY DEF Upto

LEMMA InitStory == Init => StoryInv
<1> SUFFICES ASSUME Init, NEW j \in Jobs PROVE FeedInv(j) /\ ScriptInv(j)
  BY InitChannel DEF StoryInv
<1>1. /\ log[j] = NoLog /\ snap[j] = NoSnap /\ phase[j] = "queued"
      /\ events[j] = <<>> /\ view[j] = Blank /\ put[j] = "none"
  BY DEF Init
<1>2. Upto(<<>>, 0) = <<>>
  BY DEF Upto
<1>3. FeedInv(j)
  BY <1>1, <1>2, SummaryOfNothing DEF FeedInv, NoLog, NoSnap, Blank
<1> QED BY <1>1, <1>3 DEF ScriptInv

LEMMA TellKeepsStory ==
  ASSUME StoryInv, NEW k \in Jobs, NEW ev \in Kinds, NEW to \in Phases,
         NEW w \in 0 .. Len(Stages), Tells(k, ev, to, w)
  PROVE  FeedInv(k)' /\ ScriptInv(k)'
<1>0. /\ TypeOK /\ R2Inv(k) /\ MemoryInv(k) /\ FeedInv(k) /\ ScriptInv(k)
      /\ events[k] \in Seq(Kinds) /\ work[k] \in 0 .. Len(Stages) /\ Len(Stages) \in Nat
  BY ChannelAssumption DEF StoryInv, ChannelInv, TypeOK
<1>1. /\ events'[k] = Append(events[k], ev) /\ view'[k] = ViewAfter(view[k], ev)
      /\ put'[k] = "log" /\ phase'[k] = to /\ work'[k] = w
      /\ UNCHANGED <<log, snap, attempt>>
  BY <1>0 DEF Tells, Emit, TypeOK
<1>2. /\ phase[k] \in {"mirror", "setup", "mirrored", "work"}
      /\ view[k].status = "running" /\ Summary(events[k]).status = "running"
  BY <1>0 DEF Tells, Line, MemoryInv, Running, FeedInv
<1>3. FeedInv(k)'
  <2>1. view'[k] = Summary(events'[k])
    BY <1>0, <1>1, <1>2, SummaryGrows DEF FeedInv
  <2> QED BY <1>0, <1>1, <2>1 DEF FeedInv
<1>4. ScriptInv(k)'
  <2>1. /\ \A i \in DOMAIN events[k] : events[k][i] \notin {"complete", "error"}
        /\ Line(k, phase[k], ev, to, w)
    BY <1>0, <1>2, SummaryTyped DEF Tells
  <2>2. /\ Len(events'[k]) = Len(events[k]) + 1 /\ events'[k][Len(events[k]) + 1] = ev
        /\ DOMAIN events'[k] = DOMAIN events[k] \cup {Len(events[k]) + 1}
        /\ \A i \in DOMAIN events[k] : i \in Nat /\ events'[k][i] = events[k][i]
        /\ Len(<<>>) = 0
    BY <1>0, <1>1
  <2>3. /\ to = "mirrored" => Len(events[k]) = 0 /\ w = 0
        /\ to = "work" => Len(events[k]) + 1 = w + 2
        /\ to \notin {"config", "mirror", "setup"} /\ w >= work[k]
    BY <1>0, <2>1, <2>2 DEF Line, ScriptInv
  <2>4. ev \in Range(Stages) =>
          Len(events[k]) + 1 - 2 \in 1 .. w /\ ev = Stages[Len(events[k]) + 1 - 2]
    <3>1. CASE ev \in Range(Stages)
      <4>1. phase[k] = "work" /\ ev = Stages[work[k] + 1] /\ w = work[k] + 1
        BY <2>1, <3>1, ChannelAssumption DEF Line
      <4>2. Len(events[k]) + 1 - 2 = w
        BY <1>0, <4>1 DEF ScriptInv
      <4> QED BY <1>0, <4>1, <4>2
    <3> QED BY <3>1
  <2>5. ev = "complete" => w = Len(Stages)
    <3>1. \A i \in 1 .. Len(Stages) : Stages[i] # "complete"
      BY ChannelAssumption DEF Range
    <3> QED BY <1>0, <2>1, <3>1 DEF Line
  <2>6. ASSUME NEW i \in DOMAIN events'[k]
        PROVE  /\ events'[k][i] \in Range(Stages) =>
                    i - 2 \in 1 .. w /\ events'[k][i] = Stages[i - 2]
               /\ events'[k][i] = "complete" => w = Len(Stages)
    <3>1. CASE i = Len(events[k]) + 1
      BY <2>2, <2>4, <2>5, <3>1
    <3>2. CASE i \in DOMAIN events[k]
      <4>1. /\ events'[k][i] = events[k][i] /\ events[k][i] # "complete" /\ i \in Nat
            /\ events[k][i] \in Range(Stages) =>
                 i - 2 \in 1 .. work[k] /\ events[k][i] = Stages[i - 2]
        BY <1>0, <2>1, <2>2, <3>2 DEF ScriptInv
      <4>2. 1 .. work[k] \subseteq 1 .. w
        BY <1>0, <2>3
      <4> QED BY <4>1, <4>2
    <3> QED BY <2>2, <2>6, <3>1, <3>2
  <2> QED BY <1>1, <2>2, <2>3, <2>6 DEF ScriptInv
<1> QED BY <1>3, <1>4

LEMMA StepKeepsStory ==
  ASSUME StoryInv, NEW k \in Jobs, Deliver(k) \/ Step(k) \/ Crash(k)
  PROVE  FeedInv(k)' /\ ScriptInv(k)'
<1>0. /\ TypeOK /\ R2Inv(k) /\ MemoryInv(k) /\ FeedInv(k) /\ ScriptInv(k)
      /\ events[k] \in Seq(Kinds) /\ attempt[k] \in Nat
      /\ log[k].attempt \in Nat /\ snap[k].attempt \in Nat /\ snap[k].view.n \in Nat
      /\ log[k].evs \in Seq(Kinds)
  BY Typed DEF StoryInv, ChannelInv, View
<1>1. CASE Begins(k)
  <2>1. /\ phase'[k] = "config" /\ work'[k] = 0 /\ events'[k] = <<>> /\ view'[k] = Blank
        /\ put'[k] = "none" /\ UNCHANGED <<log, snap>>
    BY <1>0, <1>1 DEF Begins, TypeOK
  <2> QED BY <1>0, <2>1, SummaryOfNothing DEF FeedInv, ScriptInv
<1>2. CASE PutLog(k)
  <2>1. /\ log'[k] = [attempt |-> attempt[k], evs |-> events[k]]
        /\ UNCHANGED <<snap, phase, attempt, work, events, view>>
    BY <1>0, <1>2 DEF PutLog, Key, Stream, TypeOK
  <2>2. snap[k].attempt <= attempt[k]
    BY <1>0 DEF R2Inv
  <2>3. ASSUME snap[k].attempt = attempt[k]
        PROVE  /\ snap[k].view.n <= Len(events[k])
               /\ snap[k].view = Summary(Upto(events[k], snap[k].view.n))
    <3>1. log[k].attempt = attempt[k] /\ IsPrefix(log[k].evs, events[k])
      BY <1>0, <2>3 DEF FeedInv, R2Inv
    <3>2. /\ snap[k].view.n \in 0 .. Len(log[k].evs)
          /\ snap[k].view = Summary(Upto(log[k].evs, snap[k].view.n))
      BY <1>0, <2>3, <3>1 DEF FeedInv
    <3> QED BY <1>0, <3>1, <3>2, UptoPrefix, PrefixAt
  <2> QED BY <1>0, <2>1, <2>2, <2>3 DEF FeedInv, ScriptInv
<1>3. CASE PutSnap(k)
  <2>1. /\ put[k] = "snap" /\ put'[k] = "none"
        /\ snap'[k] = [attempt |-> attempt[k], view |-> view[k]]
        /\ UNCHANGED <<log, phase, attempt, work, events, view>>
    BY <1>0, <1>3 DEF PutSnap, Key, TypeOK
  <2>2. log[k].attempt = attempt[k] /\ log[k].evs = events[k]
    BY <1>0, <2>1 DEF FeedInv
  <2>3. view[k] = Summary(events[k]) /\ view[k].n = Len(events[k])
    BY <1>0, SummaryTyped DEF FeedInv
  <2> QED BY <1>0, <2>1, <2>2, <2>3, UptoAll DEF FeedInv, ScriptInv
<1>4. ASSUME NEW ev \in Kinds, NEW to \in Phases, NEW w \in 0 .. Len(Stages),
             Tells(k, ev, to, w)
      PROVE  FeedInv(k)' /\ ScriptInv(k)'
  BY <1>4, TellKeepsStory
<1>5. ASSUME NEW to \in Phases, Silent(k, to) PROVE FeedInv(k)' /\ ScriptInv(k)'
  <2>1. /\ phase'[k] = to /\ put'[k] \in {put[k], "none"}
        /\ UNCHANGED <<log, snap, attempt, work, events, view>>
    BY <1>0, <1>5 DEF Silent, TypeOK
  <2> QED BY <1>0, <1>5, <2>1 DEF Silent, FeedInv, ScriptInv
<1> QED BY <1>0, <1>1, <1>2, <1>3, <1>4, <1>5, StepKinds

LEMMA StepLeavesOthers ==
  ASSUME TypeOK, NEW k \in Jobs, Deliver(k) \/ Step(k) \/ Crash(k),
         NEW j \in Jobs, j # k, FeedInv(j), ScriptInv(j)
  PROVE  FeedInv(j)' /\ ScriptInv(j)'
<1> DEFINE Same == /\ log'[j] = log[j] /\ snap'[j] = snap[j] /\ phase'[j] = phase[j]
                   /\ attempt'[j] = attempt[j] /\ work'[j] = work[j]
                   /\ events'[j] = events[j] /\ view'[j] = view[j] /\ put'[j] = put[j]
<1>1. Begins(k) => Same
  BY DEF Begins, TypeOK
<1>2. PutLog(k) \/ PutSnap(k) => Same
  BY DEF PutLog, PutSnap, Key, TypeOK
<1>3. ASSUME NEW ev \in Kinds, NEW to \in Phases, NEW w \in 0 .. Len(Stages),
             Tells(k, ev, to, w)
      PROVE  Same
  BY <1>3 DEF Tells, Emit, TypeOK
<1>4. ASSUME NEW to \in Phases, Silent(k, to) PROVE Same
  BY <1>4 DEF Silent, TypeOK
<1>5. Same
  BY <1>1, <1>2, <1>3, <1>4, StepKinds
<1> QED BY <1>5 DEF FeedInv, ScriptInv

LEMMA NextStory == StoryInv /\ [Next]_vars => StoryInv'
<1> SUFFICES ASSUME StoryInv, [Next]_vars PROVE StoryInv'
  OBVIOUS
<1>1. ChannelInv'
  BY NextChannel DEF StoryInv
<1>2. CASE UNCHANGED vars
  BY <1>1, <1>2 DEF vars, StoryInv, FeedInv, ScriptInv
<1>3. ASSUME NEW k \in Jobs, Deliver(k) \/ Step(k) \/ Crash(k), NEW j \in Jobs
      PROVE  FeedInv(j)' /\ ScriptInv(j)'
  BY <1>3, StepKeepsStory, StepLeavesOthers DEF StoryInv, ChannelInv
<1> QED BY <1>1, <1>2, <1>3 DEF Next, StoryInv

LEMMA StoryAlways == Spec => []StoryInv
BY InitStory, NextStory, PTL DEF Spec

LEMMA StepIsFeedStep ==
  ASSUME StoryInv, NEW k \in Jobs, Deliver(k) \/ Step(k) \/ Crash(k)
  PROVE  Feed!Next \/ UNCHANGED Feed!vars
<1>0. /\ TypeOK /\ MemoryInv(k) /\ FeedInv(k)
      /\ events[k] \in Seq(Kinds) /\ log[k] \in [attempt: Nat, evs: Seq(Kinds)]
  BY Typed DEF StoryInv, ChannelInv
<1>1. CASE Begins(k)
  <2>1. Feed!Begin(k)
    BY <1>1 DEF Begins, Feed!Begin
  <2> QED BY <2>1 DEF Feed!Next
<1>2. CASE PutLog(k)
  <2>1. Feed!Publish(k)
    BY <1>2 DEF PutLog, Key, Stream, Feed!Publish
  <2> QED BY <2>1 DEF Feed!Next
<1>3. CASE PutSnap(k)
  <2>1. /\ put[k] = "snap" /\ log[k].attempt = attempt[k]
        /\ Summary(log[k].evs) = view[k]
    BY <1>0, <1>3 DEF PutSnap, FeedInv
  <2>2. Feed!Summarise(k)
    BY <1>3, <2>1 DEF PutSnap, Key, Feed!Summarise
  <2> QED BY <2>2 DEF Feed!Next
<1>4. ASSUME NEW ev \in Kinds, NEW to \in Phases, NEW w \in 0 .. Len(Stages),
             Tells(k, ev, to, w)
      PROVE  Feed!Next
  <2>1. Summary(events[k]).status = "running"
    BY <1>0, <1>4 DEF Tells, Line, MemoryInv, Running, FeedInv
  <2>2. \A n \in DOMAIN events[k] : events[k][n] \notin {"complete", "error"}
    BY <1>0, <2>1, SummaryTyped
  <2>3. events' = [events EXCEPT ![k] = Append(@, ev)] /\ UNCHANGED <<attempt, log, snap>>
    BY <1>4 DEF Tells, Emit
  <2>4. Feed!Tell(k)
    BY <2>2, <2>3 DEF Feed!Tell
  <2> QED BY <2>4 DEF Feed!Next
<1>5. ASSUME NEW to \in Phases, Silent(k, to) PROVE UNCHANGED Feed!vars
  BY <1>5 DEF Silent, Feed!vars
<1> QED BY <1>0, <1>1, <1>2, <1>3, <1>4, <1>5, StepKinds

-----------------------------------------------------------------------------
(* Theorems *)

\* Type correctness of the progress channel.
THEOREM ChannelTyped == Spec => []TypeOK
<1>1. ChannelInv => TypeOK
  BY DEF ChannelInv
<1> QED BY <1>1, ChannelAlways, PTL

\* ProgressEmitter._write, one try around two writes: whichever writes were lost and
\* whoever crashed in between, the log of the latest delivery has no gap and no snapshot
\* says what the log it belongs to does not.
THEOREM PollersSeePrefix == Spec => []PollerSeesPrefix
<1>1. StoryInv => PollerSeesPrefix
  BY DEF StoryInv, ChannelInv, R2Inv, FeedInv, PollerSeesPrefix, LogIsWhole,
     SnapshotWithinLog
<1> QED BY <1>1, StoryAlways, PTL

\* run_job(): a stage in the log is a stage done, in its turn, and "complete" is there only
\* once the last artifact is uploaded.
THEOREM AnnouncedDone == Spec => []AnnouncedIsDone
<1>1. StoryInv => AnnouncedIsDone
  <2> SUFFICES ASSUME StoryInv, NEW j \in Jobs, log[j].attempt = attempt[j],
                      NEW i \in DOMAIN log[j].evs
               PROVE  /\ log[j].evs[i] \in Range(Stages) =>
                           i - 2 \in 1 .. work[j] /\ log[j].evs[i] = Stages[i - 2]
                      /\ log[j].evs[i] = "complete" => work[j] = Len(Stages)
    BY DEF AnnouncedIsDone
  <2>1. /\ log[j].evs \in Seq(Kinds) /\ events[j] \in Seq(Kinds) /\ ScriptInv(j)
        /\ IsPrefix(log[j].evs, events[j])
    BY Typed DEF StoryInv, ChannelInv, R2Inv
  <2>2. i \in DOMAIN events[j] /\ log[j].evs[i] = events[j][i]
    BY <2>1, PrefixAt
  <2> QED BY <2>1, <2>2 DEF ScriptInv
<1> QED BY <1>1, StoryAlways, PTL

\* handler() and run_job(): a job whose last emit reached R2 shows its outcome,
\* whatever failed and however often it was delivered.
THEOREM OutcomesReported == Spec => []OutcomeReported
<1>1. ChannelInv => OutcomeReported
  <2> SUFFICES ASSUME ChannelInv, NEW j \in Jobs, ~lost[j],
                      cause[j] \notin {"config", "setup"},
                      phase[j] \in {"done", "failed"}
               PROVE  /\ phase[j] = "done"   => snap[j].view.status = "complete"
                      /\ phase[j] = "failed" => snap[j].view.status = "error"
    BY DEF OutcomeReported
  <2>1. R2Inv(j) /\ MemoryInv(j)
    BY DEF ChannelInv
  <2>2. put[j] = "none" /\ view[j].n > 0
    BY <2>1 DEF MemoryInv
  <2>3. snap[j].view = view[j]
    BY <2>1, <2>2 DEF R2Inv
  <2> QED BY <2>1, <2>3 DEF MemoryInv
<1> QED BY <1>1, ChannelAlways, PTL

\* A snapshot that says complete or error is the last of its delivery.
THEOREM TerminalsFinal == Spec => TerminalIsFinal
<1> DEFINE Final(j) == /\ snap[j].view.status # "running"
                       /\ snap'[j].attempt = snap[j].attempt
                       => snap'[j].view = snap[j].view
<1>1. ASSUME ChannelInv, NEW k \in Jobs, Deliver(k) \/ Step(k) \/ Crash(k), NEW j \in Jobs
      PROVE  Final(j)
  <2>1. CASE PutSnap(k)
    <3>1. snap' = [snap EXCEPT ![k] = [attempt |-> attempt[k], view |-> view[k]]]
      BY <2>1 DEF PutSnap, Key
    <3>2. CASE j = k
      <4>1. snap'[j] = [attempt |-> attempt[j], view |-> view[j]]
        BY <1>1, <3>1, <3>2 DEF ChannelInv, TypeOK
      <4> QED BY <1>1, <4>1 DEF ChannelInv, R2Inv
    <3>3. CASE j # k
      BY <1>1, <3>1, <3>3 DEF ChannelInv, TypeOK
    <3> QED BY <3>2, <3>3
  <2>2. CASE ~PutSnap(k)
    <3>1. UNCHANGED snap
      BY <1>1, <2>2 DEF Deliver, Step, Crash, PutLog, PutFails, Pass, RaiseSilently,
         MirrorFails, Start, MirrorDone, DoStage, StageFails, Complete, Goto
    <3> QED BY <3>1
  <2> QED BY <2>1, <2>2
<1>2. ChannelInv /\ [Next]_vars => [\A j \in Jobs : Final(j)]_vars
  BY <1>1 DEF Next
<1> QED BY <1>2, ChannelAlways, PTL DEF Spec, TerminalIsFinal

\* The two objects that _write replaces one after the other, either of which may fail or be
\* cut short by a crash, and the redelivered job that starts both anew, are an
\* implementation of ProgressFeed: to a poller the log jumps from story to story and the
\* snapshot from summary of the log to summary of the log.
THEOREM ImplementsFeed == Spec => FeedSpec
<1>1. Init => Feed!Init
  BY SummaryOfNothing DEF Init, Feed!Init, Feed!Nobody, NoLog, NoSnap
<1>2. StoryInv /\ [Next]_vars => [Feed!Next]_Feed!vars
  <2>1. UNCHANGED vars => UNCHANGED Feed!vars
    BY DEF vars, Feed!vars
  <2> QED BY <2>1, StepIsFeedStep DEF Next
<1> QED BY <1>1, <1>2, StoryAlways, PTL DEF Spec, FeedSpec, Feed!Spec
-----------------------------------------------------------------------------
(* The steps left *)

\* Three steps, an event and its two writes, for each point the delivery has yet to
\* reach, and the writes of the event in hand.
Ahead(j) ==
    IF phase[j] = "config" THEN Len(Stages) + 6
    ELSE IF phase[j] = "mirror" THEN Len(Stages) + 5
    ELSE IF phase[j] = "setup" THEN Len(Stages) + 4
    ELSE IF phase[j] = "mirrored" THEN Len(Stages) + 3
    ELSE IF phase[j] = "work" THEN Len(Stages) - work[j] + 2
    ELSE IF phase[j] \in {"respond", "raise"} THEN 1
    ELSE 0

Writes(j) == IF put[j] = "log" THEN 2 ELSE IF put[j] = "snap" THEN 1 ELSE 0

Left(j) == 3 * Ahead(j) + Writes(j)

\* What one job does leaves what the others have left to do.
LEMMA OthersLeft ==
  ASSUME ChannelInv, NEW k \in Jobs, Deliver(k) \/ Step(k) \/ Crash(k),
         NEW j \in Jobs, j # k
  PROVE  Left(j)' = Left(j)
<1>1. phase'[j] = phase[j] /\ work'[j] = work[j] /\ put'[j] = put[j]
  <2> USE DEF ChannelInv, TypeOK, Goto, Emit, NoEmit
  <2>1. CASE Deliver(k) \/ Crash(k)
    BY <2>1 DEF Deliver, Crash
  <2>2. CASE PutLog(k) \/ PutSnap(k) \/ PutFails(k)
    BY <2>2 DEF PutLog, PutSnap, PutFails, Swallow
  <2>3. CASE Start(k) \/ MirrorDone(k) \/ MirrorFails(k) \/ StageFails(k) \/ Complete(k)
    BY <2>3 DEF Start, MirrorDone, MirrorFails, StageFails, Report, Complete
  <2>4. CASE DoStage(k)
    BY <2>4 DEF DoStage
  <2>5. ASSUME NEW from, NEW to, Pass(k, from, to)
        PROVE  phase'[j] = phase[j] /\ work'[j] = work[j] /\ put'[j] = put[j]
    BY <2>5 DEF Pass
  <2>6. ASSUME NEW from, RaiseSilently(k, from)
        PROVE  phase'[j] = phase[j] /\ work'[j] = work[j] /\ put'[j] = put[j]
    BY <2>6 DEF RaiseSilently
  <2> QED BY <2>1, <2>2, <2>3, <2>4, <2>5, <2>6 DEF Step
<1> QED BY <1>1 DEF Left, Ahead, Writes

LEMMA StepRunsDown ==
  ASSUME ChannelInv, NEW j \in Jobs, Step(j)
  PROVE  Left(j)' < Left(j)
<1>1. Len(Stages) \in Nat /\ work[j] \in 0..Len(Stages)
  BY Typed, ChannelAssumption
<1> DEFINE Moved(from, to) ==
      /\ phase[j] = from /\ phase'[j] = to /\ put[j] = "none"
      /\ put'[j] \in {"none", "log"}
<1>2. ASSUME NEW from, NEW to, Moved(from, to), UNCHANGED work,
             \/ <<from, to>> \in {<<"config", "mirror">>, <<"mirror", "setup">>,
                                  <<"setup", "mirrored">>, <<"mirrored", "work">>}
             \/ from \in Running /\ to \in {"raise", "respond", "failed"}
             \/ from \in {"respond", "raise"} /\ to \in {"done", "failed"} /\ put'[j] = "none",
             to = "failed" => put'[j] = "none",
             to = "respond" => work[j] = Len(Stages)
      PROVE  Left(j)' < Left(j)
  <2>1. Ahead(j)' + 1 <= Ahead(j)
    BY <1>1, <1>2 DEF Ahead, Running
  <2>2. Writes(j) = 0 /\ Writes(j)' \in 0..2
    BY <1>2 DEF Writes
  <2>3. Ahead(j) \in Int /\ Ahead(j)' \in Int
    BY <1>1, <1>2 DEF Ahead
  <2> HIDE DEF Moved
  <2> QED BY <2>1, <2>2, <2>3 DEF Left
<1> USE DEF ChannelInv, TypeOK, Goto
<1>3. CASE PutLog(j) \/ PutSnap(j) \/ PutFails(j)
  <2>1. phase'[j] = phase[j] /\ work'[j] = work[j] /\ Writes(j)' < Writes(j)
        /\ Writes(j) \in Int /\ Writes(j)' \in Int
    BY <1>3 DEF PutLog, PutSnap, PutFails, Swallow, Writes
  <2>2. Ahead(j)' = Ahead(j) /\ Ahead(j) \in Int
    BY <1>1, <2>1 DEF Ahead
  <2> QED BY <2>1, <2>2 DEF Left
<1>4. CASE DoStage(j)
  <2>1. /\ phase[j] = "work" /\ phase'[j] = "work" /\ work'[j] = work[j] + 1
        /\ put[j] = "none" /\ put'[j] = "log"
    BY <1>4 DEF DoStage, Emit
  <2> QED BY <1>1, <2>1 DEF Left, Ahead, Writes
<1>5. ASSUME NEW from, NEW to, Pass(j, from, to),
             <<from, to>> \in {<<"config", "mirror">>, <<"mirror", "setup">>,
                              <<"respond", "done">>, <<"raise", "failed">>}
      PROVE  Left(j)' < Left(j)
  <2>1. Moved(from, to) /\ UNCHANGED work /\ put'[j] = "none"
    BY <1>5 DEF Pass, NoEmit
  <2> QED BY <1>2, <1>5, <2>1
<1>6. ASSUME NEW from \in {"config", "setup"}, RaiseSilently(j, from)
      PROVE  Left(j)' < Left(j)
  <2>1. Moved(from, "failed") /\ UNCHANGED work /\ put'[j] = "none"
    BY <1>6 DEF RaiseSilently, NoEmit
  <2> QED BY <1>2, <2>1 DEF Running
<1>7. CASE MirrorFails(j) \/ StageFails(j)
  <2>1. \E from \in {"mirror", "work"} : Moved(from, "raise") /\ UNCHANGED work
    BY <1>7 DEF MirrorFails, StageFails, Report, Emit
  <2> QED BY <1>2, <2>1 DEF Running
<1>8. CASE Start(j)
  <2>1. Moved("setup", "mirrored") /\ UNCHANGED work
    BY <1>8 DEF Start, Emit
  <2> QED BY <1>2, <2>1
<1>9. CASE MirrorDone(j)
  <2>1. Moved("mirrored", "work") /\ UNCHANGED work
    BY <1>9 DEF MirrorDone, Emit
  <2> QED BY <1>2, <2>1
<1>10. CASE Complete(j)
  <2>1. Moved("work", "respond") /\ UNCHANGED work /\ work[j] = Len(Stages)
    BY <1>10 DEF Complete, Emit
  <2> QED BY <1>2, <2>1 DEF Running
<1> QED BY <1>3, <1>4, <1>5, <1>6, <1>7, <1>8, <1>9, <1>10 DEF Step

\* Every step of a delivered job leaves it fewer to take, whatever is lost or fails on
\* the way and whatever the other jobs do: a delivery over n stages is at its end within
\* 3n + 18 steps.  DeliveredEnds rests on it.
THEOREM DeliveriesRunOut ==
  Spec => [][\A j \in Jobs :
               /\ Left(j) \in Nat
               /\ Deliver(j) => Left(j)' = 3 * Len(Stages) + 18
               /\ Step(j) => Left(j)' < Left(j)
               /\ ~Deliver(j) => Left(j)' <= Left(j)]_vars
<1> DEFINE RunsOut(j) == /\ Left(j) \in Nat
                         /\ Deliver(j) => Left(j)' = 3 * Len(Stages) + 18
                         /\ Step(j) => Left(j)' < Left(j)
                         /\ ~Deliver(j) => Left(j)' <= Left(j)
<1>0. Len(Stages) \in Nat
  BY ChannelAssumption
<1>1. ASSUME ChannelInv, ChannelInv', Next, NEW j \in Jobs PROVE RunsOut(j)
  <2>1. Left(j) \in Nat /\ Left(j)' \in Nat
    <3>1. work[j] \in 0..Len(Stages) /\ work'[j] \in 0..Len(Stages)
      BY <1>1 DEF ChannelInv, TypeOK
    <3>2. /\ Ahead(j) \in Nat /\ Ahead(j)' \in Nat
          /\ Writes(j) \in Nat /\ Writes(j)' \in Nat
      BY <1>0, <3>1 DEF Ahead, Writes
    <3> QED BY <3>2 DEF Left
  <2>2. Deliver(j) => Left(j)' = 3 * Len(Stages) + 18
    <3>1. Deliver(j) => phase'[j] = "config" /\ put'[j] = "none"
      BY <1>1 DEF Deliver, Goto, ChannelInv, TypeOK
    <3> QED BY <1>0, <3>1 DEF Left, Ahead, Writes
  <2>3. Step(j) => Left(j)' < Left(j)
    BY <1>1, StepRunsDown
  <2>4. Crash(j) => Left(j)' <= Left(j)
    <3>1. Crash(j) => phase'[j] = "dead" /\ put'[j] = "none"
      BY <1>1 DEF Crash, ChannelInv, TypeOK
    <3>2. phase'[j] = "dead" /\ put'[j] = "none" => Left(j)' = 0
      BY DEF Left, Ahead, Writes
    <3> QED BY <2>1, <3>1, <3>2
  <2>5. PICK k \in Jobs : Deliver(k) \/ Step(k) \/ Crash(k)
    BY <1>1 DEF Next
  <2>6. k # j => Left(j)' = Left(j)
    BY <1>1, <2>5, OthersLeft
  <2> HIDE DEF Left
  <2> QED BY <2>1, <2>2, <2>3, <2>4, <2>5, <2>6
<1> HIDE DEF RunsOut
<1>2. ChannelInv /\ ChannelInv' /\ [Next]_vars => [\A j \in Jobs : RunsOut(j)]_vars
  BY <1>1
<1> QED BY <1>2, ChannelAlways, PTL DEF Spec, RunsOut
=============================================================================
