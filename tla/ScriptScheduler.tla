--------------------------- MODULE ScriptScheduler ---------------------------
(***************************************************************************)
(* The script loop and the commands that edit what it runs:                *)
(* modules/scripts/scheduler.rs, commands.rs and store.rs, with the way    *)
(* engine.rs ends a run or lets go of it.                                  *)
(*                                                                         *)
(* scripts_save and scripts_delete are synchronous commands: they run on   *)
(* the main thread, one at a time.  The loop is one task, each run of a    *)
(* script a thread of its own; all of them interleave with the commands.   *)
(*                                                                         *)
(* A script is its interval in minutes (0: not in the Run state) and its   *)
(* life: each creation of an id starts a new one.                          *)
(***************************************************************************)
EXTENDS Naturals, FiniteSets

CONSTANTS
    Ids,            \* slugs
    Intervals,      \* what the interval of an armed script can be
    Stored,         \* the intervals on disk at launch: [Ids -> Nat], 0 unarmed
    MaxMinute,      \* bound on the clock
    MaxEdits,       \* bound on saves and deletes
    MaxOtherRuns,   \* bound on the runs the loop does not wait for
    Crashes         \* can the application be killed and started again?

ASSUME SchedulerAssumption ==
    /\ Intervals \subseteq Nat \ {0}
    /\ Stored \in [Ids -> Intervals \cup {0}]
    /\ MaxMinute \in Nat /\ MaxEdits \in Nat /\ MaxOtherRuns \in Nat
    /\ Crashes \in BOOLEAN

VARIABLES
    disk,       \* the document "scripts": the script of each id
    torn,       \* is it being rewritten (truncated, not yet filled)?
    kv,         \* kv[id]: the life that last wrote the private store; 0: none
    cmd,        \* where the command on the main thread is
    edited,     \* the script set that command saves
    target,     \* the id it saves or deletes
    armed,      \* SchedulerState::armed
    woken,      \* was the loop's Notified future notified?
    loop,       \* where the loop is
    seen,       \* the script set it loaded last
    minute,     \* minutes since it was armed
    inFlight,   \* scripts already executing, as the loop knows them
    runs,       \* the runs going on
    now,        \* the clock, in minutes
    nextTick,   \* the deadline of the ticker
    edits       \* history: number of commands and lives so far

store == <<disk, torn, kv>>
command == <<cmd, edited, target, edits>>
timeline == <<minute, now, nextTick>>
running == <<inFlight, runs>>
schedulerVars == <<store, command, armed, woken, loop, seen, timeline, running>>

NoScript == [every |-> 0, life |-> 0]
NoScripts == [id \in Ids |-> NoScript]

Present(id, scripts) == scripts[id].life # 0

(* is_armed                                                                *)
IsArmed(script) == script.every > 0

AnyArmed(scripts) == \E id \in Ids : IsArmed(scripts[id])

IsDue(script) == IsArmed(script) /\ minute % script.every = 0

(* store::load: what cannot be read or parsed is no scripts at all.        *)
Loaded == IF torn THEN NoScripts ELSE disk

SchedulerInit ==
    /\ disk = [id \in Ids |-> [every |-> Stored[id], life |-> 1]]
    /\ torn = FALSE
    /\ kv = [id \in Ids |-> 0]
    /\ cmd = "idle"
    /\ edited = NoScripts
    /\ target \in Ids
    /\ armed = FALSE
    /\ woken = FALSE
    /\ loop = "launch"
    /\ seen = NoScripts
    /\ minute = 0
    /\ inFlight = {}
    /\ runs = {}
    /\ now = 1
    /\ nextTick = 1
    /\ edits = 1

-----------------------------------------------------------------------------
(* scripts_save and scripts_delete                                         *)

BeginWrite(id, scripts) ==
    /\ cmd = "idle"
    /\ edits <= MaxEdits
    /\ edits' = edits + 1
    /\ target' = id
    /\ edited' = scripts
    /\ cmd' = "opening"
    /\ UNCHANGED <<store, armed, woken, loop, seen, timeline, running>>

(* A new script (its minted id is one the loaded set lacks), or an edit.   *)
ScriptsSave(id, every) ==
    BeginWrite(id, [Loaded EXCEPT ![id] =
        [every |-> every, life |-> IF Present(id, Loaded) THEN @.life ELSE edits + 1]])

ScriptsDelete(id) ==
    /\ Present(id, Loaded)
    /\ BeginWrite(id, [Loaded EXCEPT ![id] = NoScript])

(* save_data writes in place: the file is truncated, then filled.          *)
OpenFile ==
    /\ cmd = "opening"
    /\ torn' = TRUE
    /\ cmd' = "writing"
    /\ UNCHANGED <<disk, kv, edited, target, edits, armed, woken, loop, seen, timeline, running>>

Written ==
    /\ cmd = "writing"
    /\ disk' = edited
    /\ torn' = FALSE
    /\ cmd' = IF Present(target, edited) THEN "arming" ELSE "clearing"
    /\ UNCHANGED <<kv, edited, target, edits, armed, woken, loop, seen, timeline, running>>

(* The write fails before it touched the file, or after it truncated it.   *)
WriteFails ==
    /\ \/ cmd = "opening" /\ disk' = disk
       \/ cmd = "writing" /\ disk' = NoScripts
    /\ torn' = FALSE
    /\ cmd' = "idle"
    /\ UNCHANGED <<kv, edited, target, edits, armed, woken, loop, seen, timeline, running>>

(* clear_kv                                                                *)
ClearKv ==
    /\ cmd = "clearing"
    /\ kv' = [kv EXCEPT ![target] = 0]
    /\ cmd' = "arming"
    /\ UNCHANGED <<disk, torn, edited, target, edits, armed, woken, loop, seen, timeline, running>>

(* Mutant: the swap forgets to look at what it replaced.                   *)
SetArmedSilently ==
    /\ cmd = "arming"
    /\ armed' = AnyArmed(edited)
    /\ cmd' = "idle"
    /\ UNCHANGED <<store, edited, target, edits, woken, loop, seen, timeline, running>>

(* set_armed: the swap, and after it the notification.                     *)
SetArmed ==
    /\ cmd = "arming"
    /\ armed' = AnyArmed(edited)
    /\ cmd' = IF AnyArmed(edited) /\ ~armed THEN "notifying" ELSE "idle"
    /\ UNCHANGED <<store, edited, target, edits, woken, loop, seen, timeline, running>>

NotifyWaiters ==
    /\ cmd = "notifying"
    /\ woken' = (woken \/ loop \in {"recheck", "parked"})
    /\ cmd' = "idle"
    /\ UNCHANGED <<store, edited, target, edits, armed, loop, seen, timeline, running>>

Command ==
    \/ \E id \in Ids : ScriptsDelete(id) \/ \E every \in Intervals \cup {0} : ScriptsSave(id, every)
    \/ OpenFile \/ Written \/ WriteFails \/ ClearKv \/ SetArmed \/ NotifyWaiters

-----------------------------------------------------------------------------
(* The loop                                                                *)

LoopAt(here, there) == loop = here /\ loop' = there

(* Seed the flag: load, then set.                                          *)
Seed ==
    /\ LoopAt("launch", "seeding")
    /\ seen' = Loaded
    /\ UNCHANGED <<store, command, armed, woken, timeline, running>>

Seeded ==
    /\ LoopAt("seeding", "check")
    /\ armed' = AnyArmed(seen)
    /\ UNCHANGED <<store, command, woken, seen, timeline, running>>

Check ==
    /\ LoopAt("check", IF armed THEN "ticking" ELSE "wait")
    /\ UNCHANGED <<store, command, armed, woken, seen, timeline, running>>

(* wait_for_armed: look, register, look again, sleep.                      *)
Look ==
    /\ LoopAt("wait", IF armed THEN "ticking" ELSE "recheck")
    /\ minute' = IF armed THEN 0 ELSE minute
    /\ woken' = FALSE
    /\ UNCHANGED <<store, command, armed, seen, now, nextTick, running>>

(* Mutant: no second look between registering and sleeping, and what was   *)
(* notified before the sleep is not remembered.                            *)
SleepAtOnce ==
    /\ LoopAt("recheck", "parked")
    /\ woken' = FALSE
    /\ UNCHANGED <<store, command, armed, seen, timeline, running>>

LookAgain ==
    /\ LoopAt("recheck", IF armed THEN "ticking" ELSE "parked")
    /\ minute' = IF armed THEN 0 ELSE minute
    /\ UNCHANGED <<store, command, armed, woken, seen, now, nextTick, running>>

Awake ==
    /\ LoopAt("parked", "wait")
    /\ woken
    /\ UNCHANGED <<store, command, armed, woken, seen, timeline, running>>

(* The ticker never skips a deadline it missed (MissedTickBehavior::Burst). *)
Tick ==
    /\ LoopAt("ticking", "loading")
    /\ nextTick <= now
    /\ nextTick' = nextTick + 1
    /\ UNCHANGED <<store, command, armed, woken, seen, minute, now, running>>

Load ==
    /\ LoopAt("loading", "loaded")
    /\ seen' = Loaded
    /\ UNCHANGED <<store, command, armed, woken, timeline, running>>

Rearm ==
    /\ LoopAt("loaded", "starting")
    /\ armed' = AnyArmed(seen)
    /\ UNCHANGED <<store, command, woken, seen, timeline, running>>

Run(id, life, by) == [id |-> id, life |-> life, by |-> by, at |-> now]

(* Every due script starts, but for those in flight.                       *)
Started == {id \in Ids : IsDue(seen[id]) /\ id \notin inFlight}

StartDue ==
    /\ LoopAt("starting", "check")
    /\ inFlight' = inFlight \cup Started
    /\ runs' = runs \cup {Run(id, seen[id].life, "loop") : id \in Started}
    /\ minute' = minute + 1
    /\ UNCHANGED <<store, command, armed, woken, seen, now, nextTick>>

Loop == Seed \/ Seeded \/ Check \/ Look \/ LookAgain \/ Awake \/ Tick \/ Load \/ Rearm \/ StartDue

-----------------------------------------------------------------------------
(* Runs                                                                    *)

RoomForAnother == Cardinality({r \in runs : r.by # "loop"}) < MaxOtherRuns

(* scripts_run, of a stored script.                                        *)
ScriptsRun(id) ==
    /\ Present(id, Loaded)
    /\ RoomForAnother
    /\ runs' = runs \cup {Run(id, Loaded[id].life, "user")}
    /\ UNCHANGED <<store, command, armed, woken, loop, seen, timeline, inFlight>>

(* kv_set, from a run that goes on.                                        *)
KvSet(r) ==
    /\ kv' = [kv EXCEPT ![r.id] = r.life]
    /\ UNCHANGED <<disk, torn, command, armed, woken, loop, seen, timeline, running>>

(* Mutant: the entry of a run that failed is left in the set.              *)
RunKeepsEntry(r) ==
    /\ runs' = runs \ {r}
    /\ inFlight' \in {inFlight, IF r.by = "loop" THEN inFlight \ {r.id} ELSE inFlight}
    /\ UNCHANGED <<store, command, armed, woken, loop, seen, timeline>>

RunEnds(r) ==
    /\ runs' = runs \ {r}
    /\ inFlight' = IF r.by = "loop" THEN inFlight \ {r.id} ELSE inFlight
    /\ UNCHANGED <<store, command, armed, woken, loop, seen, timeline>>

(* Over its memory limit and deaf to the interrupt: execute_watched        *)
(* returns an error and its thread runs on.                                *)
RunDetached(r) ==
    /\ r.by # "nobody"
    /\ r.by = "user" \/ RoomForAnother
    /\ runs' = (runs \ {r}) \cup {[r EXCEPT !.by = "nobody"]}
    /\ inFlight' = IF r.by = "loop" THEN inFlight \ {r.id} ELSE inFlight
    /\ UNCHANGED <<store, command, armed, woken, loop, seen, timeline>>

(* Time passes while the loop sleeps: its own steps take none.             *)
Minute ==
    /\ now < MaxMinute
    /\ loop = "parked" \/ (loop = "ticking" /\ nextTick > now)
    /\ now' = now + 1
    /\ UNCHANGED <<store, command, armed, woken, loop, seen, minute, nextTick, running>>

(* Killed and started again: memory is lost, a torn file stays torn.       *)
Relaunch ==
    /\ Crashes
    /\ disk' = Loaded
    /\ torn' = FALSE
    /\ cmd' = "idle"
    /\ armed' = FALSE /\ woken' = FALSE
    /\ loop' = "launch"
    /\ seen' = NoScripts
    /\ minute' = 0
    /\ inFlight' = {} /\ runs' = {}
    /\ nextTick' = now
    /\ UNCHANGED <<kv, edited, target, edits, now>>

SchedulerNext ==
    \/ Command
    \/ Loop
    \/ \E id \in Ids : ScriptsRun(id)
    \/ \E r \in runs : KvSet(r) \/ RunEnds(r) \/ RunDetached(r)
    \/ Minute
    \/ Relaunch

SchedulerSpec == SchedulerInit /\ [][SchedulerNext]_schedulerVars

CommandGoesOn == OpenFile \/ Written \/ WriteFails \/ ClearKv \/ SetArmed \/ NotifyWaiters

(* Both schedulers run what can run; time passes; the engine's limits end  *)
(* every run.                                                              *)
FairScheduler ==
    /\ SchedulerSpec
    /\ WF_schedulerVars(Loop) /\ WF_schedulerVars(Minute)
    /\ WF_schedulerVars(CommandGoesOn)
    /\ WF_schedulerVars(\E r \in runs : RunEnds(r))

-----------------------------------------------------------------------------
(* Properties                                                              *)

ScriptSet == [Ids -> [every : Nat, life : Nat]]

SchedulerTypeOK ==
    /\ disk \in ScriptSet /\ edited \in ScriptSet /\ seen \in ScriptSet
    /\ torn \in BOOLEAN /\ armed \in BOOLEAN /\ woken \in BOOLEAN
    /\ kv \in [Ids -> Nat]
    /\ cmd \in {"idle", "opening", "writing", "clearing", "arming", "notifying"}
    /\ target \in Ids
    /\ loop \in {"launch", "seeding", "check", "wait", "recheck", "parked",
                 "ticking", "loading", "loaded", "starting"}
    /\ inFlight \subseteq Ids
    /\ runs \subseteq [id : Ids, life : Nat, by : {"loop", "user", "nobody"}, at : Nat]
    /\ minute \in Nat /\ now \in Nat /\ nextTick \in Nat
    /\ edits \in Nat

(* "so an arm landing between the check and the await can't be missed"     *)
(* (wait_for_armed): the loop never sleeps on with the flag set, unless    *)
(* the notification is still to come.                                      *)
NoLostWakeup == loop = "parked" /\ armed => woken \/ cmd = "notifying"

(* in_flight is what it is for: a script is in it exactly while the loop   *)
(* waits for its run, and it waits for one at most, also when the script   *)
(* was deleted and made again meanwhile.                                   *)
InFlightIsTheRun ==
    /\ \A id \in Ids : id \in inFlight <=> \E r \in runs : r.by = "loop" /\ r.id = id
    /\ \A r, s \in runs : r.by = "loop" /\ s.by = "loop" /\ r.id = s.id => r = s

(* With the flag set the loop goes on ticking, as far as the clock goes.    *)
ArmedTicks == armed ~> (loop = "loading" \/ ~armed \/ (loop = "ticking" /\ now = MaxMinute))

(* "State is read from storage each tick, so arming/disarming a script (a  *)
(* save) takes effect on the next minute with no scheduler restart"        *)
(* (scheduler.rs): with no command under way the loop is not asleep while  *)
(* a stored script is armed.                                               *)
SaveTakesEffect == loop = "parked" /\ cmd = "idle" /\ ~woken => ~AnyArmed(disk)

=============================================================================
