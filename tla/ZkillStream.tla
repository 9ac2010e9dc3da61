------------------------------- MODULE ZkillStream -------------------------------
(***************************************************************************)
(* The lazy killstream connection of zkill/live.rs: features of the        *)
(* frontend take a lease while they are mounted (useZkillStreamLease), the *)
(* leases are counted, and one loop connects while the count is not zero   *)
(* and winds down some time after it becomes zero.                         *)
(*                                                                         *)
(* The frontend's calls are synchronous commands, which run one at a time  *)
(* in the order in which they arrive.  Time is counted in idle checks.     *)
(***************************************************************************)
EXTENDS Naturals, Sequences, FiniteSets

CONSTANTS
    Features,       \* parts of the frontend that take leases
    GraceChecks,    \* IDLE_GRACE_SECS in units of IDLE_CHECK_SECS
    MaxMounts,      \* bound on mounts
    MaxLost,        \* bound on calls that do not reach the backend
    MaxReloads,     \* bound on reloads of the webview
    MaxBreaks       \* bound on failed attempts and lost connections

ASSUME StreamAssumption ==
    /\ GraceChecks \in Nat \ {0}
    /\ {MaxMounts, MaxLost, MaxReloads, MaxBreaks} \subseteq Nat

VARIABLES
    mounted,    \* features that are mounted
    calls,      \* calls on their way to the backend, each with its feature
    consumers,  \* the count of leases
    notified,   \* the loop's Notified future: "none", "armed" or "woken"
    loop,       \* where the loop is
    idle,       \* checks since the first that found no lease; 0 is idle_since = None
    connected,  \* the flag of the status command
    bounds      \* history: how often each bounded thing has happened

frontend == <<mounted, calls>>
streamVars == <<frontend, consumers, notified, loop, idle, connected, bounds>>

Bounded(what, limit) ==
    /\ bounds[what] < limit
    /\ bounds' = [bounds EXCEPT ![what] = @ + 1]

StreamInit ==
    /\ mounted = {} /\ calls = <<>>
    /\ consumers = 0
    /\ notified = "none"
    /\ loop = "checking"
    /\ idle = 0
    /\ connected = FALSE
    /\ bounds = [what \in {"mounts", "lost", "reloads", "breaks"} |-> 0]

-----------------------------------------------------------------------------
(* The frontend                                                            *)

Mount(f) ==
    /\ f \notin mounted
    /\ Bounded("mounts", MaxMounts)
    /\ mounted' = mounted \cup {f}
    /\ calls' = Append(calls, <<"subscribe", f>>)
    /\ UNCHANGED <<consumers, notified, loop, idle, connected>>

(* The effect's cleanup unsubscribes whatever became of the subscription.  *)
Unmount(f) ==
    /\ f \in mounted
    /\ mounted' = mounted \ {f}
    /\ calls' = Append(calls, <<"unsubscribe", f>>)
    /\ UNCHANGED <<consumers, notified, loop, idle, connected, bounds>>

(* The page goes without any cleanup; calls on their way may still arrive. *)
Reload ==
    /\ Bounded("reloads", MaxReloads)
    /\ mounted' = {}
    /\ \E n \in 0..Len(calls) : calls' = SubSeq(calls, 1, n)
    /\ UNCHANGED <<consumers, notified, loop, idle, connected>>

(* A call fails; the frontend logs it and goes on.                         *)
Lose ==
    /\ calls # <<>>
    /\ Bounded("lost", MaxLost)
    /\ calls' = Tail(calls)
    /\ UNCHANGED <<mounted, consumers, notified, loop, idle, connected>>

-----------------------------------------------------------------------------
(* The commands                                                            *)

Arrives(command) ==
    /\ calls # <<>> /\ Head(calls)[1] = command
    /\ calls' = Tail(calls)

NotifyWaiters == notified' = IF notified = "armed" THEN "woken" ELSE notified

(* Mutant: a flag where a count is needed.                                 *)
SubscribeFlag ==
    /\ Arrives("subscribe")
    /\ consumers' = 1
    /\ NotifyWaiters
    /\ UNCHANGED <<mounted, loop, idle, connected, bounds>>

Subscribe ==
    /\ Arrives("subscribe")
    /\ consumers' = consumers + 1
    /\ NotifyWaiters
    /\ UNCHANGED <<mounted, loop, idle, connected, bounds>>

Unsubscribe ==
    /\ Arrives("unsubscribe")
    /\ consumers' = IF consumers = 0 THEN 0 ELSE consumers - 1
    /\ UNCHANGED <<mounted, notified, loop, idle, connected, bounds>>

-----------------------------------------------------------------------------
(* wait_for_consumers                                                      *)

LoopStep(from, to) == loop = from /\ loop' = to

Check ==
    /\ LoopStep("checking", IF consumers > 0 THEN "connecting" ELSE "arming")
    /\ UNCHANGED <<frontend, consumers, notified, idle, connected, bounds>>

(* Mutant: the count is not looked at again.                               *)
ArmAndPark ==
    /\ LoopStep("arming", "parked")
    /\ notified' = "armed"
    /\ UNCHANGED <<frontend, consumers, idle, connected, bounds>>

Arm ==
    /\ LoopStep("arming", "checking again")
    /\ notified' = "armed"
    /\ UNCHANGED <<frontend, consumers, idle, connected, bounds>>

CheckAgain ==
    /\ LoopStep("checking again", IF consumers > 0 THEN "connecting" ELSE "parked")
    /\ notified' = IF consumers > 0 THEN "none" ELSE notified
    /\ UNCHANGED <<frontend, consumers, idle, connected, bounds>>

Woken ==
    /\ notified = "woken"
    /\ LoopStep("parked", "checking")
    /\ notified' = "none"
    /\ UNCHANGED <<frontend, consumers, idle, connected, bounds>>

-----------------------------------------------------------------------------
(* spawn and run_once                                                      *)

Connect ==
    /\ LoopStep("connecting", "reading")
    /\ connected' = TRUE
    /\ idle' = 0
    /\ UNCHANGED <<frontend, consumers, notified, bounds>>

ConnectFails ==
    /\ Bounded("breaks", MaxBreaks)
    /\ LoopStep("connecting", "pausing")
    /\ connected' = FALSE
    /\ UNCHANGED <<frontend, consumers, notified, idle>>

(* The peer closes the connection, or reading from it fails.               *)
Disconnect ==
    /\ Bounded("breaks", MaxBreaks)
    /\ LoopStep("reading", "pausing")
    /\ connected' = FALSE
    /\ UNCHANGED <<frontend, consumers, notified, idle>>

CheckSubscribed ==
    /\ consumers > 0
    /\ LoopStep("reading", "reading")
    /\ idle' = 0
    /\ UNCHANGED <<frontend, consumers, notified, connected, bounds>>

(* Mutant: the time since the last lease starts again with each check.     *)
CheckRestarts ==
    /\ consumers = 0 /\ idle < GraceChecks
    /\ LoopStep("reading", "reading")
    /\ idle' = 1
    /\ UNCHANGED <<frontend, consumers, notified, connected, bounds>>

CheckIdle ==
    /\ consumers = 0 /\ idle < GraceChecks
    /\ LoopStep("reading", "reading")
    /\ idle' = idle + 1
    /\ UNCHANGED <<frontend, consumers, notified, connected, bounds>>

WindDown ==
    /\ consumers = 0 /\ idle = GraceChecks
    /\ LoopStep("reading", "pausing")
    /\ connected' = FALSE
    /\ UNCHANGED <<frontend, consumers, notified, idle, bounds>>

(* The backoff has passed.                                                 *)
Pause ==
    /\ LoopStep("pausing", "checking")
    /\ UNCHANGED <<frontend, consumers, notified, idle, connected, bounds>>

-----------------------------------------------------------------------------
Frontend == (\E f \in Features : Mount(f) \/ Unmount(f)) \/ Reload \/ Lose
Commands == Subscribe \/ Unsubscribe
Loop ==
    \/ Check \/ Arm \/ CheckAgain \/ Woken
    \/ Connect \/ CheckSubscribed \/ CheckIdle \/ WindDown \/ Pause

StreamNext == Frontend \/ Commands \/ Loop \/ ConnectFails \/ Disconnect

StreamSpec == StreamInit /\ [][StreamNext]_streamVars

(* Calls are executed, and the loop is a task of the runtime that waits    *)
(* for nothing but its timers, its wake-up and the socket.                 *)
FairStreamSpec == StreamSpec /\ WF_streamVars(Commands) /\ WF_streamVars(Loop)

-----------------------------------------------------------------------------
(* Properties                                                              *)

(* "degrades to the old always-on behavior, never to a missing stream"     *)
(* (zkill_stream_subscribe): once the calls have arrived, and none was     *)
(* lost, there is a lease for each mounted feature, whatever the webview's *)
(* reloads have left behind.                                               *)
NeverMissing == calls = <<>> /\ bounds["lost"] = 0 => Cardinality(mounted) <= consumers

(* "a subscribe landing between the check and the await can't be missed"   *)
(* (wait_for_consumers), nor one that lands anywhere else: as long as no   *)
(* call was lost, whoever is mounted has the stream in the end, or leaves. *)
FeaturesServed ==
    \A f \in Features :
        f \in mounted ~> (loop = "reading" \/ f \notin mounted \/ bounds["lost"] > 0)

(* "an abandoned stream still winds down" (IDLE_GRACE_SECS): the socket    *)
(* does not stay open when nobody holds a lease.                           *)
WindsDown == (loop = "reading" /\ consumers = 0) ~> (loop # "reading" \/ consumers > 0)

StreamServes == FeaturesServed /\ WindsDown

=============================================================================
