-------------------------------- MODULE KillIndex --------------------------------
(***************************************************************************)
(* The rolling index of zkill/live.rs: the killstream's events in the      *)
(* order in which they arrived, pruned from the front whenever one is      *)
(* pushed, and read by the features that count kills.                      *)
(*                                                                         *)
(* An event is the time it says it happened at.  The feed decides it: an   *)
(* event may be late, and its time may even be in the future.              *)
(***************************************************************************)
EXTENDS Naturals, Sequences, FiniteSetsExt

CONSTANTS
    Window,     \* KILL_INDEX_WINDOW_SECS
    MaxEvents,  \* MAX_KILL_INDEX_EVENTS
    MaxNow,     \* bound on the time
    Delays,     \* how long after it happened an event may arrive
    Ahead       \* how far in the future an event may say it happened

IndexAssumption ==
    /\ Window \in Nat /\ MaxEvents \in Nat /\ MaxNow \in Nat
    /\ Delays \subseteq Nat /\ Ahead \subseteq Nat

VARIABLES
    now,        \* the time
    events,     \* KillIndex::events, the oldest arrival first
    last        \* history: the event that arrived last

indexVars == <<now, events, last>>

IndexInit == now = 0 /\ events = <<>> /\ last = 0

Cutoff == IF now > Window THEN now - Window ELSE 0

(* Mutant: an event just in the window goes.                               *)
PruneEdge(arrived) ==
    LET kept == {i \in 1..Len(arrived) : arrived[i] > Cutoff}
    IN  IF kept = {} THEN <<>> ELSE SubSeq(arrived, Min(kept), Len(arrived))

(* KillIndex::prune stops at the first event that is not too old.          *)
Prune(arrived) ==
    LET kept == {i \in 1..Len(arrived) : arrived[i] >= Cutoff}
    IN  IF kept = {} THEN <<>> ELSE SubSeq(arrived, Min(kept), Len(arrived))

(* The oldest arrivals go, whatever their times.                           *)
Cap(pruned) ==
    IF Len(pruned) > MaxEvents THEN SubSeq(pruned, Len(pruned) - MaxEvents + 1, Len(pruned)) ELSE pruned

Push(t) ==
    /\ events' = Cap(Prune(Append(events, t)))
    /\ last' = t
    /\ UNCHANGED now

(* Time passes, with the socket open and quiet, or closed.                 *)
Tick ==
    /\ now < MaxNow
    /\ now' = now + 1
    /\ UNCHANGED <<events, last>>

Times == {now - d : d \in {d \in Delays : d <= now}} \cup {now + a : a \in Ahead}

IndexNext == Tick \/ \E t \in Times : Push(t)

IndexSpec == IndexInit /\ [][IndexNext]_indexVars

-----------------------------------------------------------------------------
(* Properties                                                              *)

(* What happened in the window is there to be counted: when an event       *)
(* arrives the older arrivals that go were all too old, in whatever order  *)
(* they happened, except that a full index gives up its oldest arrival;    *)
(* and what stays keeps the order in which it arrived.                     *)
NoneLost ==
    now' = now =>
        LET all == Append(events, last')
            gone == Len(all) - Len(events')
        IN  /\ events' = SubSeq(all, gone + 1, Len(all))
            /\ \/ \A i \in 1..gone : all[i] < Cutoff
               \/ Len(events) = MaxEvents /\ gone = 1

RecentKept == [][NoneLost]_indexVars

=============================================================================
