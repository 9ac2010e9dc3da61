------------------------------ MODULE MCFeeds ------------------------------
(***************************************************************************)
(* Small instances, for TLC, of what keeps up with the outside world, and  *)
(* of the ways through it: ZkillStream, KillIndex, SdeUpdate, SdeReaders,  *)
(* AuthTokens while nobody logs in, and Routing.                           *)
(*                                                                         *)
(* They share no state, so a run takes one of them at a time, which focus  *)
(* names; the others rest where they begin.                                *)
(***************************************************************************)
EXTENDS ZkillStream, KillIndex, SdeUpdate, SdeReaders, AuthTokens, Routing

CONSTANTS u1, pilot

VARIABLE focus

all == <<streamVars, indexVars, uVars, readVars, vars, rVars, focus>>

(* Nothing is asked, of no graph.                                          *)
Unused ==
    /\ job = "none" /\ ask = [origin |-> 0]
    /\ gates = <<>> /\ chain = <<>> /\ hisec = {} /\ adj = <<>> /\ dist = <<>> /\ prev = <<>> /\ heap = {} /\ answer = <<>>

ASSUME IndexAssumption /\ UpdateAssumption /\ NoneIsNoFile /\ RoutingAssumption

(* Every task asks the one AuthState for the same pilot.                   *)
OnePilotFor == [t \in Callers |-> pilot]
OneStateVia == [t \in Callers |-> Main]

-----------------------------------------------------------------------------
(* Three graphs of six systems, ladders joined, one in two parts and a     *)
(* ring, and chains that join what gates do not.                           *)

Ladder == <<(<<2, 3, 4>>), <<1, 5>>, <<1, 5, 6>>, <<1, 6>>, <<2, 3>>, <<3, 4>>>>
Apart == <<(<<2>>), <<1, 3>>, <<2>>, <<5>>, <<4>>, <<>>>>
Ring == <<(<<2, 4>>), <<1, 5>>, <<5, 6>>, <<1, 6>>, <<2, 3>>, <<3, 4>>>>
Graphs == {Ladder, Apart, Ring}

Link(a, b, scope, eol, mass, critical) ==
    [a |-> a, b |-> b, scope |-> scope, eol |-> eol, mass |-> mass, critical |-> critical]
SomeChains ==
    {<<>>, <<Link(1, 4, "wormhole", TRUE, 2, FALSE)>>,
     <<Link(3, 6, "wormhole", FALSE, 1, TRUE), Link(6, 4, "jumpbridge", FALSE, 0, FALSE)>>}

-----------------------------------------------------------------------------

(* What begins in several ways rests in one: no database, nobody logged in. *)
FeedsInit ==
    /\ StreamInit /\ IndexInit /\ UpdateInit /\ ReadInit /\ Init
    /\ \/ focus \in {"stream", "index", "sde", "updates", "readers", "refresh"} /\ Unused
       \/ focus = "paths" /\ RouteInit
    /\ focus \notin {"sde", "updates"} => db = None
    /\ focus # "readers" => installed = 0
    /\ focus # "refresh" => roster = {}

(* One update meets every dump and fault, several meet a few; and nothing  *)
(* is claimed of what two overlapping downloads leave.                     *)
Within ==
    /\ focus = "sde" => \A u \in Updates \ {u1} : stage'[u] = "idle"
    /\ focus = "updates" => ~overlapped /\ published' <= 2 /\ faults' <= 1

FeedsNext ==
    /\ UNCHANGED focus
    /\ \/ focus = "stream" /\ StreamNext /\ UNCHANGED <<indexVars, uVars, readVars, vars, rVars>>
       \/ focus = "index" /\ IndexNext /\ UNCHANGED <<streamVars, uVars, readVars, vars, rVars>>
       \/ focus \in {"sde", "updates"} /\ UpdateNext /\ Within /\ UNCHANGED <<streamVars, indexVars, readVars, vars, rVars>>
       \/ focus = "readers" /\ ReadNext /\ UNCHANGED <<streamVars, indexVars, uVars, vars, rVars>>
       \/ focus = "refresh" /\ Next /\ UNCHANGED <<streamVars, indexVars, uVars, readVars, rVars>>
       \/ focus = "paths" /\ RouteNext /\ UNCHANGED <<streamVars, indexVars, uVars, readVars, vars>>

(* ZkillStream's fairness while the stream runs: calls are executed, and   *)
(* the loop waits for its timers only; and SdeUpdate's: an update that is  *)
(* begun goes on, and another one begins.                                  *)
FeedsFairness ==
    /\ WF_streamVars(focus = "stream" /\ Commands) /\ WF_streamVars(focus = "stream" /\ Loop)
    /\ \A u \in Updates : WF_uVars(focus \in {"sde", "updates"} /\ Update(u) /\ Within)

FeedsSpec == FeedsInit /\ [][FeedsNext]_all /\ FeedsFairness

=============================================================================
