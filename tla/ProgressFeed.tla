---------------------------- MODULE ProgressFeed ----------------------------
(***************************************************************************)
(* What the progress channel promises whoever polls the two objects of a   *)
(* job, without phases, faults or writes under way.  A delivery tells a    *)
(* story, event by event, and says nothing after its last word.  Now and   *)
(* then the whole story so far replaces the log; now and then the summary  *)
(* of the log in the store, and of nothing else, replaces the snapshot.    *)
(* Writes that are lost, and crashes, are just "later" or "never".         *)
(*                                                                         *)
(* ProgressChannel implements it (see ProgressChannel!FeedSpec).           *)
(***************************************************************************)
EXTENDS Naturals, Sequences

CONSTANTS
    Jobs,
    Kinds,       \* events
    LastWords,   \* events after which nothing is told
    Summary(_)   \* what a snapshot says of a story

VARIABLES
    epoch,  \* deliveries of each job
    story,  \* the events of its latest delivery
    log,    \* the log object: a story and whose it is
    snap    \* the snapshot object: a summary and whose it is

vars == <<epoch, story, log, snap>>

Nobody == 0

Init ==
    /\ epoch = [j \in Jobs |-> Nobody]
    /\ story = [j \in Jobs |-> <<>>]
    /\ log   = [j \in Jobs |-> [attempt |-> Nobody, evs |-> <<>>]]
    /\ snap  = [j \in Jobs |-> [attempt |-> Nobody, view |-> Summary(<<>>)]]

Begin(j) ==
    /\ epoch' = [epoch EXCEPT ![j] = @ + 1]
    /\ story' = [story EXCEPT ![j] = <<>>]
    /\ UNCHANGED <<log, snap>>

Tell(j) ==
    /\ \A n \in DOMAIN story[j] : story[j][n] \notin LastWords
    /\ \E ev \in Kinds : story' = [story EXCEPT ![j] = Append(@, ev)]
    /\ UNCHANGED <<epoch, log, snap>>

Publish(j) ==
    /\ log' = [log EXCEPT ![j] = [attempt |-> epoch[j], evs |-> story[j]]]
    /\ UNCHANGED <<epoch, story, snap>>

Summarise(j) ==
    /\ snap' = [snap EXCEPT ![j] = [attempt |-> log[j].attempt,
                                    view    |-> Summary(log[j].evs)]]
    /\ UNCHANGED <<epoch, story, log>>

Next == \E j \in Jobs : Begin(j) \/ Tell(j) \/ Publish(j) \/ Summarise(j)

Spec == Init /\ [][Next]_vars
=============================================================================
