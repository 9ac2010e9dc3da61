--------------------------- MODULE ExtensionProofs ---------------------------
(***************************************************************************)
(* Theorems about what users add to the program.  The script loop, for any *)
(* set of scripts, intervals, edits and runs (ScriptScheduler); the plugin *)
(* runtime, for any number of invoking threads and commands                *)
(* (PluginRuntime); and the folder their setups are shared through, for    *)
(* any number of devices and runs (FolderSync).                            *)
(***************************************************************************)
EXTENDS ScriptScheduler, PluginRuntime, FolderSync, TLAPS

USE SchedulerAssumption, PluginAssumption

LEMMA LoadedType == ASSUME SchedulerTypeOK PROVE Loaded \in ScriptSet
BY DEF SchedulerTypeOK, Loaded, ScriptSet, NoScripts, NoScript

LEMMA SchedulerTypeStep == ASSUME SchedulerTypeOK, [SchedulerNext]_schedulerVars PROVE SchedulerTypeOK'
<1> USE DEF SchedulerTypeOK
<1>1. ASSUME NEW id \in Ids, ScriptsDelete(id) PROVE SchedulerTypeOK'
  <2>1. [Loaded EXCEPT ![id] = NoScript] \in ScriptSet
    BY LoadedType DEF ScriptSet, NoScript
  <2>2. QED BY <1>1, <2>1 DEF ScriptsDelete, BeginWrite, store, timeline, running
<1>2. ASSUME NEW id \in Ids, NEW every \in Intervals \cup {0}, ScriptsSave(id, every) PROVE SchedulerTypeOK'
  <2>1. Loaded[id].life \in Nat BY LoadedType DEF ScriptSet
  <2> DEFINE s == [every |-> every, life |-> IF Present(id, Loaded) THEN Loaded[id].life ELSE edits + 1]
  <2>2. s \in [every : Nat, life : Nat] BY <2>1
  <2>3. [Loaded EXCEPT ![id] = s] \in ScriptSet BY <2>2, LoadedType DEF ScriptSet
  <2>4. BeginWrite(id, [Loaded EXCEPT ![id] = s]) BY <1>2 DEF ScriptsSave
  <2>5. QED BY <2>3, <2>4 DEF BeginWrite, store, timeline, running
<1>3. CASE OpenFile \/ Written
  <2>1. CASE OpenFile BY <2>1 DEF OpenFile, timeline, running
  <2>2. CASE Written BY <2>2 DEF Written, timeline, running
  <2>3. QED BY <1>3, <2>1, <2>2
<1>4. CASE WriteFails
  <2>1. NoScripts \in ScriptSet BY DEF NoScripts, NoScript, ScriptSet
  <2>2. disk' \in ScriptSet BY <1>4, <2>1 DEF WriteFails
  <2>3. QED BY <1>4, <2>2 DEF WriteFails, timeline, running
<1>5. CASE ClearKv
  BY <1>5 DEF ClearKv, timeline, running
<1>6. CASE SetArmed
  <2>1. AnyArmed(edited) \in BOOLEAN BY DEF AnyArmed
  <2> HIDE DEF SchedulerTypeOK
  <2>2. armed' \in BOOLEAN BY <1>6, <2>1 DEF SetArmed
  <2>3. cmd' \in {"idle", "notifying"} BY <1>6 DEF SetArmed
  <2>4. QED BY <1>6, <2>2, <2>3 DEF SetArmed, store, timeline, running, SchedulerTypeOK
<1>7. CASE NotifyWaiters
  BY <1>7 DEF NotifyWaiters, store, timeline, running
<1>8. CASE Seed \/ Load
  BY <1>8, LoadedType DEF Seed, Load, LoopAt, store, command, timeline, running
<1>9. CASE Seeded \/ Rearm
  BY <1>9 DEF Seeded, Rearm, LoopAt, AnyArmed, store, command, timeline, running
<1>10. CASE Check \/ Awake
  BY <1>10 DEF Check, Awake, LoopAt, store, command, timeline, running
<1>11. CASE Look \/ LookAgain
  <2>1. loop' \in {"ticking", "recheck", "parked"}
    BY <1>11, Zenon DEF Look, LookAgain, LoopAt
  <2>2. minute' \in {0, minute}
    BY <1>11, Zenon DEF Look, LookAgain
  <2>3. woken' \in BOOLEAN
    BY <1>11 DEF Look, LookAgain
  <2>4. UNCHANGED <<store, command, armed, seen, now, nextTick, running>>
    BY <1>11 DEF Look, LookAgain
  <2>5. QED BY <2>1, <2>2, <2>3, <2>4 DEF store, command, running
<1>12. CASE Tick
  BY <1>12 DEF Tick, LoopAt, store, command, timeline, running
<1>13. CASE StartDue
  <2>1. {Run(id, seen[id].life, "loop") : id \in Started} \subseteq
           [id : Ids, life : Nat, by : {"loop", "user", "nobody"}, at : Nat]
    BY DEF Started, Run, ScriptSet
  <2>2. QED BY <1>13, <2>1 DEF StartDue, LoopAt, Started, store, command, timeline, running
<1>14. ASSUME NEW id \in Ids, ScriptsRun(id) PROVE SchedulerTypeOK'
  <2>1. Run(id, Loaded[id].life, "user") \in
           [id : Ids, life : Nat, by : {"loop", "user", "nobody"}, at : Nat]
    BY LoadedType DEF Run, ScriptSet
  <2>2. QED BY <1>14, <2>1 DEF ScriptsRun, store, command, timeline
<1>15. ASSUME NEW r \in runs, KvSet(r) PROVE SchedulerTypeOK'
  BY <1>15 DEF KvSet, command, timeline, running
<1>16. ASSUME NEW r \in runs, RunEnds(r) PROVE SchedulerTypeOK'
  BY <1>16 DEF RunEnds, store, command, timeline
<1>17. ASSUME NEW r \in runs, RunDetached(r) PROVE SchedulerTypeOK'
  BY <1>17 DEF RunDetached, store, command, timeline
<1>18. CASE Minute
  BY <1>18 DEF Minute, store, command, running
<1>19. CASE Relaunch
  <2>1. NoScripts \in ScriptSet BY DEF NoScripts, NoScript, ScriptSet
  <2>2. QED BY <1>19, <2>1, LoadedType DEF Relaunch
<1>20. CASE UNCHANGED schedulerVars
  BY <1>20 DEF schedulerVars, store, command, timeline, running
<1>21. QED
  BY <1>1, <1>2, <1>3, <1>4, <1>5, <1>6, <1>7, <1>8, <1>9, <1>10, <1>11, <1>12, <1>13,
     <1>14, <1>15, <1>16, <1>17, <1>18, <1>19, <1>20 DEF SchedulerNext, Command, Loop

(* Every variable has its type in every reachable state.                   *)
THEOREM SchedulerTyped == SchedulerSpec => []SchedulerTypeOK
<1>1. ASSUME SchedulerInit PROVE SchedulerTypeOK
  <2>1. disk \in ScriptSet
    <3>1. \A id \in Ids : Stored[id] \in Intervals \cup {0}
      BY SchedulerAssumption
    <3>2. Intervals \cup {0} \subseteq Nat
      BY SchedulerAssumption
    <3>3. \A id \in Ids : [every |-> Stored[id], life |-> 1] \in [every : Nat, life : Nat]
      BY <3>1, <3>2
    <3>4. QED BY <1>1, <3>3 DEF SchedulerInit, ScriptSet
  <2>2. NoScripts \in ScriptSet BY DEF NoScripts, NoScript, ScriptSet
  <2>3. QED BY <1>1, <2>1, <2>2 DEF SchedulerInit, SchedulerTypeOK
<1>2. QED BY <1>1, SchedulerTypeStep, PTL DEF SchedulerSpec

-----------------------------------------------------------------------------
(* The loop never sleeps on with the flag set, unless the notification is  *)
(* still to come.                                                          *)
THEOREM WakeupsNotLost == SchedulerSpec => []NoLostWakeup
<1>1. SchedulerInit => NoLostWakeup
  BY DEF SchedulerInit, NoLostWakeup
<1>2. NoLostWakeup /\ [SchedulerNext]_schedulerVars => NoLostWakeup'
  <2> SUFFICES ASSUME NoLostWakeup, [SchedulerNext]_schedulerVars PROVE NoLostWakeup'
    OBVIOUS
  <2> USE DEF NoLostWakeup
  <2>1. CASE Command
    <3>1. CASE \E id \in Ids : ScriptsDelete(id) \/ \E every \in Intervals \cup {0} : ScriptsSave(id, every)
      <4>1. \A i, s : BeginWrite(i, s) => cmd = "idle" /\ UNCHANGED <<loop, armed, woken>>
        BY DEF BeginWrite
      <4>2. cmd = "idle" /\ UNCHANGED <<loop, armed, woken>>
        BY <3>1, <4>1 DEF ScriptsDelete, ScriptsSave
      <4> QED BY <4>2
    <3>2. CASE OpenFile \/ Written \/ WriteFails
      <4>1. cmd # "notifying" /\ UNCHANGED <<loop, armed, woken>>
        BY <3>2 DEF OpenFile, Written, WriteFails
      <4> QED BY <4>1
    <3>3. CASE ClearKv \/ SetArmed \/ NotifyWaiters
      BY <3>3 DEF ClearKv, SetArmed, NotifyWaiters
    <3>4. QED BY <2>1, <3>1, <3>2, <3>3 DEF Command
  <2>2. CASE Loop
    BY <2>2 DEF Loop, Seed, Seeded, Check, Look, LookAgain, Awake, Tick, Load, Rearm, StartDue,
                LoopAt, command
  <2>3. ASSUME NEW r \in runs, KvSet(r) \/ RunEnds(r) \/ RunDetached(r) PROVE NoLostWakeup'
    BY <2>3 DEF KvSet, RunEnds, RunDetached, command
  <2>4. CASE \E id \in Ids : ScriptsRun(id)
    BY <2>4 DEF ScriptsRun, command
  <2>5. CASE Minute \/ Relaunch \/ UNCHANGED schedulerVars
    BY <2>5 DEF Minute, Relaunch, schedulerVars, command
  <2>6. QED BY <2>1, <2>2, <2>3, <2>4, <2>5 DEF SchedulerNext
<1>3. QED BY <1>1, <1>2, PTL DEF SchedulerSpec

-----------------------------------------------------------------------------
(* The in-flight set is exactly the runs the loop waits for, one for each  *)
(* script at most.                                                         *)
THEOREM InFlightExact == SchedulerSpec => []InFlightIsTheRun
<1>1. SchedulerInit => InFlightIsTheRun
  BY DEF SchedulerInit, InFlightIsTheRun
<1>2. SchedulerTypeOK /\ InFlightIsTheRun /\ [SchedulerNext]_schedulerVars => InFlightIsTheRun'
  <2> SUFFICES ASSUME SchedulerTypeOK, InFlightIsTheRun, [SchedulerNext]_schedulerVars PROVE InFlightIsTheRun'
    OBVIOUS
  <2> USE DEF InFlightIsTheRun
  <2>1. CASE UNCHANGED running
    BY <2>1 DEF running
  <2>2. CASE StartDue
    <3>1. /\ inFlight' = inFlight \cup Started
          /\ runs' = runs \cup {Run(id, seen[id].life, "loop") : id \in Started}
      BY <2>2 DEF StartDue
    <3>2. Started \subseteq Ids /\ Started \cap inFlight = {}
      BY DEF Started
    <3>3. \A id \in Started : Run(id, seen[id].life, "loop").id = id /\ Run(id, seen[id].life, "loop").by = "loop"
      BY DEF Run
    <3>4. ASSUME NEW id \in Ids
          PROVE  id \in inFlight' <=> \E r \in runs' : r.by = "loop" /\ r.id = id
      BY <3>1, <3>2, <3>3
    <3>5. ASSUME NEW r \in runs', NEW s \in runs', r.by = "loop", s.by = "loop", r.id = s.id
          PROVE  r = s
      <4>1. r \in runs => r.id \in inFlight BY <3>5 DEF SchedulerTypeOK
      <4>2. s \in runs => s.id \in inFlight BY <3>5 DEF SchedulerTypeOK
      <4>3. r \notin runs => r.id \in Started /\ r = Run(r.id, seen[r.id].life, "loop")
        BY <3>1, <3>3
      <4>4. s \notin runs => s.id \in Started /\ s = Run(s.id, seen[s.id].life, "loop")
        BY <3>1, <3>3
      <4>5. QED BY <3>2, <3>5, <4>1, <4>2, <4>3, <4>4
    <3>6. QED BY <3>4, <3>5
  <2>3. ASSUME NEW id \in Ids, ScriptsRun(id) PROVE InFlightIsTheRun'
    <3>1. runs' = runs \cup {Run(id, Loaded[id].life, "user")} /\ inFlight' = inFlight
      BY <2>3 DEF ScriptsRun
    <3>2. Run(id, Loaded[id].life, "user").by = "user" BY DEF Run
    <3>3. QED BY <3>1, <3>2
  <2>4. ASSUME NEW r \in runs, RunEnds(r) PROVE InFlightIsTheRun'
    BY <2>4 DEF RunEnds, SchedulerTypeOK
  <2>5. ASSUME NEW r \in runs, RunDetached(r) PROVE InFlightIsTheRun'
    <3> DEFINE d == [r EXCEPT !.by = "nobody"]
    <3>1. runs' = (runs \ {r}) \cup {d}
      BY <2>5 DEF RunDetached
    <3>2. d.by = "nobody" BY DEF SchedulerTypeOK
    <3>3. inFlight' = IF r.by = "loop" THEN inFlight \ {r.id} ELSE inFlight
      BY <2>5 DEF RunDetached
    <3> HIDE DEF d
    <3>4. QED BY <3>1, <3>2, <3>3 DEF SchedulerTypeOK
  <2>6. CASE Relaunch
    BY <2>6 DEF Relaunch
  <2>7. CASE Command
    <3>1. CASE \E id \in Ids : ScriptsDelete(id) \/ \E every \in Intervals \cup {0} : ScriptsSave(id, every)
      <4>1. \A i, s : BeginWrite(i, s) => UNCHANGED running
        BY DEF BeginWrite
      <4>2. PICK id \in Ids : ScriptsDelete(id) \/ \E every \in Intervals \cup {0} : ScriptsSave(id, every)
        BY <3>1
      <4>3. CASE ScriptsDelete(id)
        BY <2>1, <4>1, <4>3 DEF ScriptsDelete
      <4>4. ASSUME NEW every \in Intervals \cup {0}, ScriptsSave(id, every) PROVE InFlightIsTheRun'
        BY <2>1, <4>1, <4>4 DEF ScriptsSave
      <4> QED BY <4>2, <4>3, <4>4
    <3>2. CASE OpenFile \/ Written \/ WriteFails
      BY <2>1, <3>2 DEF OpenFile, Written, WriteFails
    <3>3. CASE ClearKv \/ SetArmed \/ NotifyWaiters
      BY <2>1, <3>3 DEF ClearKv, SetArmed, NotifyWaiters
    <3>4. QED BY <2>7, <3>1, <3>2, <3>3 DEF Command
  <2>8. CASE Loop
    BY <2>1, <2>2, <2>8 DEF Loop, Seed, Seeded, Check, Look, LookAgain, Awake, Tick, Load, Rearm
  <2>9. QED
    BY <2>1, <2>2, <2>3, <2>4, <2>5, <2>6, <2>7, <2>8 DEF SchedulerNext, KvSet, Minute, schedulerVars
<1>3. QED BY <1>1, <1>2, SchedulerTyped, PTL DEF SchedulerSpec

-----------------------------------------------------------------------------
(* The plugin runtime.                                                     *)
LEMMA TypeStep == ASSUME TypeOK, [Next]_vars PROVE TypeOK'
<1> USE DEF TypeOK, registry, callers, control, numbering
<1>1. NoInstance \in Instance BY DEF NoInstance, Instance
<1>2. ASSUME NEW c \in Callers, ReadManifest(c) \/ CheckActive(c) \/ StartCall(c) PROVE TypeOK'
  <2>1. CASE ReadManifest(c) \/ StartCall(c)
    <3>1. CASE ReadManifest(c) BY <3>1 DEF ReadManifest, Goto
    <3>2. CASE StartCall(c) BY <3>2 DEF StartCall, Goto
    <3>3. QED BY <2>1, <3>1, <3>2
  <2>2. CASE CheckActive(c) /\ active
    <3>1. Goto(c, "allowed") /\ UNCHANGED <<registry, folder, loaded, granted, began, hold, built, failed, control>>
      BY <2>2, Zenon DEF CheckActive
    <3>2. QED BY <3>1 DEF Goto
  <2>3. CASE CheckActive(c) /\ ~active
    <3>1. Ends(c) /\ UNCHANGED <<registry, folder, loaded, built, failed, control>>
      BY <2>3, Zenon DEF CheckActive
    <3>2. QED BY <1>1, <3>1 DEF Ends, Settled, Goto
  <2>4. QED BY <1>2, <2>1, <2>2, <2>3
<1>3. ASSUME NEW c \in Callers, Lookup(c) PROVE TypeOK'
  BY <1>1, <1>3 DEF Lookup, Ends, Settled, Goto
<1>4. ASSUME NEW c \in Callers, Build(c) PROVE TypeOK'
  <2>1. [no |-> built + 1, wasm |-> folder, grants |-> granted[c], since |-> began[c]] \in Instance
    BY DEF Instance
  <2>2. QED BY <1>4, <2>1 DEF Build, Settled, Goto
<1>5. ASSUME NEW c \in Callers, BuildFails(c) \/ CallOk(c) PROVE TypeOK'
  <2>1. Ends(c) /\ UNCHANGED <<registry, folder, loaded, built, failed, control>>
    BY <1>5 DEF BuildFails, CallOk
  <2>2. QED BY <1>1, <2>1 DEF Ends, Settled, Goto
<1>6. ASSUME NEW c \in Callers, Insert(c) PROVE TypeOK'
  BY <1>6 DEF Insert, Goto
<1>7. ASSUME NEW c \in Callers, CallFails(c) PROVE TypeOK'
  BY <1>7 DEF CallFails, Goto, Instance
<1>8. ASSUME NEW c \in Callers, EvictOwn(c) PROVE TypeOK'
  BY <1>1, <1>8 DEF EvictOwn, Ends, Settled, Goto
<1>9. CASE Activate \/ Deactivate \/ Disuse
  <2>1. active' \in BOOLEAN /\ saved' \in BOOLEAN
    BY <1>9, Zenon DEF Activate, Deactivate, Disuse, Persist, PersistFails
  <2>2. UNCHANGED <<manifest, folder, loaded, callers, scanned, install, evictions, numbering>>
    BY <1>9 DEF Activate, Deactivate, Disuse
  <2>3. commands' \in Nat
    <3>1. Begin("activate") \/ Begin("deactivate") \/ commands' = commands
      BY <1>9, Zenon DEF Activate, Deactivate, Disuse
    <3>2. QED BY <3>1 DEF Begin
  <2>4. main' \in {"idle", "evict", "delete"}
    <3>1. CASE Activate BY <3>1 DEF Activate, Begin
    <3>2. CASE Deactivate \/ Disuse BY <3>2, Zenon DEF Deactivate, Disuse
    <3>3. QED BY <1>9, <3>1, <3>2
  <2>5. QED BY <2>1, <2>2, <2>3, <2>4
<1>10. CASE Rescan
  <2>1. active' \in BOOLEAN BY <1>10 DEF Rescan
  <2>2. saved' \in BOOLEAN BY <1>10, <2>1 DEF Rescan, Persist, PersistFails
  <2>3. main' \in {"idle", "evict"} BY <1>10, Zenon DEF Rescan
  <2>4. QED BY <1>10, <2>1, <2>2, <2>3 DEF Rescan
<1>11. CASE Discover \/ Remove
  <2>1. CASE Discover
    BY <2>1 DEF Discover, Begin
  <2>2. CASE Remove
    BY <1>1, <2>2 DEF Remove, Begin, Evict
  <2>3. QED BY <1>11, <2>1, <2>2
<1>12. CASE Forget \/ Delete
  <2>1. main' \in {"idle", "disuse"}
    BY <1>12, Zenon DEF Forget, Delete
  <2>2. CASE Forget
    BY <2>1, <2>2 DEF Forget
  <2>3. CASE Delete
    BY <2>3 DEF Delete
  <2>4. QED BY <1>12, <2>2, <2>3
<1>13. CASE MainEvicts
  BY <1>1, <1>13 DEF MainEvicts, Evict
<1>14. CASE SwapOut
  BY <1>14 DEF SwapOut, InstallStep
<1>15. CASE SwapIn \/ SwapFails \/ Register
  <2>1. byHand' \in BOOLEAN /\ overtaken' \in BOOLEAN
    BY <1>15 DEF SwapIn, SwapFails, Register
  <2>2. QED BY <1>15, <2>1 DEF SwapIn, SwapFails, Register, InstallStep
<1>16. CASE InstallEvicts
  BY <1>1, <1>16 DEF InstallEvicts, InstallStep, Evict
<1>17. CASE Drop
  BY <1>17 DEF Drop
<1>18. CASE Restart
  <2>1. active' \in BOOLEAN /\ byHand' \in BOOLEAN /\ overtaken' \in BOOLEAN
    BY <1>18, Zenon DEF Restart
  <2>2. QED BY <1>1, <1>18, <2>1 DEF Restart
<1>19. CASE UNCHANGED vars
  BY <1>19 DEF vars
<1>20. QED
  BY <1>2, <1>3, <1>4, <1>5, <1>6, <1>7, <1>8, <1>9, <1>10, <1>11, <1>12, <1>13, <1>14, <1>15,
     <1>16, <1>17, <1>18, <1>19
  DEF Next, Invoke, Main, Install

(* Every variable has its type in every reachable state.                   *)
THEOREM TypeCorrect == Spec => []TypeOK
<1>1. Init => TypeOK
  <2> SUFFICES ASSUME Init PROVE TypeOK
    OBVIOUS
  <2>1. active \in BOOLEAN /\ saved \in BOOLEAN /\ byHand \in BOOLEAN /\ overtaken \in BOOLEAN
    BY DEF Init
  <2>2. NoInstance \in Instance
    BY DEF Instance, NoInstance
  <2>3. QED BY <2>1, <2>2 DEF Init, TypeOK
<1>2. QED BY <1>1, TypeStep, PTL DEF Spec

-----------------------------------------------------------------------------
(* The per-plugin mutex: whoever calls an instance, or evicts it after a   *)
(* failure, is alone with it.                                              *)
LockExclusive ==
    \A c, d \in Callers :
        /\ pc[c] \in {"calling", "evicting"}
        /\ pc[d] \in {"calling", "evicting"}
        /\ hold[c].no = hold[d].no
        => c = d

(* No instance runs two calls at once.                                     *)
THEOREM OneCall == Spec => []OneCallPerInstance
<1>1. Init => LockExclusive
  BY DEF Init, LockExclusive
<1>2. TypeOK /\ LockExclusive /\ [Next]_vars => LockExclusive'
  <2> SUFFICES ASSUME TypeOK, LockExclusive, [Next]_vars PROVE LockExclusive'
    OBVIOUS
  <2> USE DEF LockExclusive, TypeOK
  <2>1. CASE UNCHANGED <<pc, hold>>
    BY <2>1
  <2>2. ASSUME NEW c \in Callers, StartCall(c) PROVE LockExclusive'
    BY <2>2 DEF StartCall, LockFree, Goto
  <2>3. ASSUME NEW c \in Callers, CallFails(c) PROVE LockExclusive'
    BY <2>3 DEF CallFails, Goto
  <2>4. ASSUME NEW c \in Callers,
               pc'[c] \notin {"calling", "evicting"},
               \A d \in Callers \ {c} : pc'[d] = pc[d] /\ hold'[d] = hold[d]
        PROVE  LockExclusive'
    BY <2>4
  <2>5. ASSUME NEW c \in Callers, Invoke(c) PROVE LockExclusive'
    BY <2>2, <2>3, <2>4, <2>5
    DEF Invoke, ReadManifest, CheckActive, Lookup, Build, BuildFails, Insert, CallOk, EvictOwn,
        Ends, Settled, Goto
  <2>6. CASE Main \/ Install \/ Drop
    BY <2>1, <2>6 DEF Main, Activate, Deactivate, Discover, Rescan, Remove, Forget, Disuse, Delete, MainEvicts, Install,
                      SwapOut, SwapIn, SwapFails, Register, InstallEvicts, Drop, callers
  <2>7. CASE Restart
    BY <2>7 DEF Restart
  <2>8. QED BY <2>1, <2>5, <2>6, <2>7 DEF Next, vars, callers
<1>3. LockExclusive => OneCallPerInstance
  BY DEF LockExclusive, OneCallPerInstance
<1>4. QED BY <1>1, <1>2, <1>3, TypeCorrect, PTL DEF Spec

-----------------------------------------------------------------------------
(* What an install is about to register is a version.                      *)
SomeVersion == versions # 0

(* The active set stays within the registry.                               *)
THEOREM ActiveInstalled == Spec => []ActiveIsInstalled
<1>1. Init => ActiveIsInstalled /\ SomeVersion
  BY DEF Init, ActiveIsInstalled, SomeVersion
<1>2. TypeOK /\ ActiveIsInstalled /\ SomeVersion /\ [Next]_vars => (ActiveIsInstalled /\ SomeVersion)'
  <2> SUFFICES ASSUME TypeOK, ActiveIsInstalled, SomeVersion, [Next]_vars
               PROVE  (ActiveIsInstalled /\ SomeVersion)'
    OBVIOUS
  <2> USE DEF ActiveIsInstalled, SomeVersion, registry, control, numbering
  <2>1. ASSUME NEW c \in Callers, Invoke(c) PROVE (ActiveIsInstalled /\ SomeVersion)'
    BY <2>1 DEF Invoke, ReadManifest, CheckActive, Lookup, Build, BuildFails, Insert, StartCall,
                CallOk, CallFails, EvictOwn
  <2>2. CASE Activate \/ Deactivate \/ Discover \/ Rescan \/ Remove
    <3>1. versions' = versions
      BY <2>2 DEF Activate, Deactivate, Discover, Rescan, Remove
    <3>2. active' => manifest' # 0
      <4>1. CASE Rescan
        <5>1. manifest' = scanned /\ active' = (active /\ scanned # 0)
          BY <4>1 DEF Rescan
        <5>2. QED BY <5>1
      <4>2. CASE Activate \/ Deactivate \/ Discover \/ Remove
        BY <4>2 DEF Activate, Deactivate, Discover, Remove, Begin
      <4>3. QED BY <2>2, <4>1, <4>2
    <3>3. QED BY <3>1, <3>2
  <2>3. CASE Forget \/ Disuse \/ Delete \/ MainEvicts
    <3>1. CASE Forget
      BY <3>1 DEF Forget
    <3>2. CASE Disuse
      BY <3>2 DEF Disuse
    <3>3. CASE Delete \/ MainEvicts
      BY <3>3 DEF Delete, MainEvicts
    <3>4. QED BY <2>3, <3>1, <3>2, <3>3
  <2>4. CASE SwapOut \/ SwapIn \/ SwapFails \/ Register \/ InstallEvicts
    BY <2>4 DEF SwapOut, SwapIn, SwapFails, Register, InstallEvicts, TypeOK
  <2>5. CASE Drop
    BY <2>5 DEF Drop, TypeOK
  <2>6. CASE Restart \/ UNCHANGED vars
    <3>1. CASE Restart
      <4>1. manifest' = folder /\ active' = (saved /\ folder # 0) /\ versions' = versions
        BY <3>1 DEF Restart
      <4>2. QED BY <4>1
    <3>2. CASE UNCHANGED vars
      BY <3>2 DEF vars
    <3>3. QED BY <2>6, <3>1, <3>2
  <2>7. QED BY <2>1, <2>2, <2>3, <2>4, <2>5, <2>6 DEF Next, Main, Install
<1>3. QED BY <1>1, <1>2, TypeCorrect, PTL DEF Spec

-----------------------------------------------------------------------------
(* Whoever evicts after a failure holds the instance that failed.          *)
EvictingFailed == \A c \in Callers : pc[c] = "evicting" => hold[c].no \in failed

(* An instance no call failed on leaves the map only by a command.         *)
THEOREM FreshKept == Spec => FreshInstanceKept
<1>1. Init => EvictingFailed
  BY DEF Init, EvictingFailed
<1>2. TypeOK /\ EvictingFailed /\ [Next]_vars => EvictingFailed'
  <2> SUFFICES ASSUME TypeOK, EvictingFailed, [Next]_vars PROVE EvictingFailed'
    OBVIOUS
  <2> USE DEF EvictingFailed, TypeOK, callers
  <2>1. ASSUME NEW c \in Callers, Invoke(c) PROVE EvictingFailed'
    BY <2>1 DEF Invoke, ReadManifest, CheckActive, Lookup, Build, BuildFails, Insert, StartCall,
                CallOk, CallFails, EvictOwn, Ends, Settled, Goto
  <2>2. CASE Main
    BY <2>2 DEF Main, Activate, Deactivate, Discover, Rescan, Remove, Forget, Disuse, Delete, MainEvicts
  <2>3. CASE Install
    BY <2>3 DEF Install, SwapOut, SwapIn, SwapFails, Register, InstallEvicts
  <2>4. CASE Drop \/ Restart \/ UNCHANGED vars
    BY <2>4 DEF Drop, Restart, vars
  <2>5. QED BY <2>1, <2>2, <2>3, <2>4 DEF Next
<1>3. TypeOK /\ EvictingFailed /\ [Next]_vars =>
        [loaded # NoInstance /\ loaded' = NoInstance =>
          loaded.no \in failed \/ evictions' # evictions \/ commands' # commands]_vars
  <2> SUFFICES ASSUME TypeOK, EvictingFailed, [Next]_vars, loaded # NoInstance, loaded' = NoInstance,
                      evictions' = evictions, commands' = commands
               PROVE  loaded.no \in failed
    OBVIOUS
  <2> USE DEF TypeOK
  <2>1. ASSUME NEW c \in Callers, EvictOwn(c) PROVE loaded.no \in failed
    BY <2>1 DEF EvictOwn, EvictingFailed
  <2>2. ASSUME NEW c \in Callers, Insert(c) PROVE FALSE
    BY <2>2 DEF Insert
  <2>3. ASSUME NEW c \in Callers, Invoke(c) PROVE loaded.no \in failed
    BY <2>1, <2>2, <2>3 DEF Invoke, ReadManifest, CheckActive, Lookup, Build, BuildFails, StartCall,
                CallOk, CallFails, Ends, Settled
  <2>4. ~Evict
    BY DEF Evict
  <2>5. commands' # commands + 1
    OBVIOUS
  <2>6. ~Main
    BY <2>4, <2>5 DEF Main, Activate, Deactivate, Discover, Rescan, Remove, Forget, Disuse, Delete, MainEvicts, Begin
  <2>7. ~Install
    BY <2>4 DEF Install, SwapOut, SwapIn, SwapFails, Register, InstallEvicts
  <2>8. ~Drop /\ ~Restart
    BY <2>5 DEF Drop, Restart
  <2>9. ~UNCHANGED vars
    BY DEF vars
  <2>10. QED BY <2>3, <2>6, <2>7, <2>8, <2>9 DEF Next
<1>4. QED BY <1>1, <1>2, <1>3, TypeCorrect, PTL DEF Spec, FreshInstanceKept

-----------------------------------------------------------------------------
(* Why what was built since the last eviction is current: the folder only  *)
(* changes by hand, by a removal, or in an install that evicts at its end. *)

(* Nothing is under way that would replace what the folder holds.          *)
Quiet == install = "idle" /\ ~byHand /\ ~overtaken /\ folder # 0

(* The registry, the folder and what a rescan saw of it in the stages of   *)
(* an install.                                                             *)
StagesAgree ==
    /\ install = "swapping" => folder = 0
    /\ install \in {"registering", "evicting"} => folder \in {0, versions} /\ ~byHand
    /\ install = "evicting" /\ ~overtaken => manifest \in {0, versions}
    /\ install \in {"registering", "evicting"} /\ ~overtaken /\ main = "rescan" => scanned \in {0, versions}
    /\ Quiet /\ main = "rescan" => scanned \in {0, folder}

RegistryAgrees == Quiet => manifest \in {0, folder}

(* What was read, or built, since the last eviction.                       *)
ReadCurrent(c) ==
    /\ began[c] <= evictions
    /\ Quiet /\ began[c] = evictions /\ pc[c] \in {"known", "allowed", "cold"} => granted[c] = folder

Current(x) ==
    /\ x.since <= evictions
    /\ Quiet /\ x # NoInstance /\ x.since = evictions => x.wasm = folder /\ x.grants = folder

CurrentInv ==
    /\ StagesAgree
    /\ RegistryAgrees
    /\ Current(loaded)
    /\ \A c \in Callers : ReadCurrent(c) /\ Current(hold[c])

LEMMA NoneCurrent == TypeOK => Current(NoInstance)
BY DEF TypeOK, Current, NoInstance

(* What an invocation does, it does from what it holds.                    *)
LEMMA InvokeKeepsCurrent ==
    ASSUME TypeOK, CurrentInv, NEW c \in Callers, Invoke(c)
    PROVE  CurrentInv'
<1> USE DEF TypeOK, control, numbering, registry
<1>1. UNCHANGED <<install, folder, versions, manifest, byHand, overtaken, main, scanned, evictions>>
  BY DEF Invoke, ReadManifest, CheckActive, Lookup, Build, BuildFails, Insert, StartCall, CallOk,
         CallFails, EvictOwn
<1>2. StagesAgree' /\ RegistryAgrees' /\ (Quiet' <=> Quiet)
  BY <1>1 DEF CurrentInv, StagesAgree, RegistryAgrees, Quiet
<1>3. \A x : Current(x) => Current(x)'
  BY <1>1, <1>2 DEF Current
<1>4. \A d \in Callers \ {c} :
        pc'[d] = pc[d] /\ granted'[d] = granted[d] /\ began'[d] = began[d] /\ hold'[d] = hold[d]
  BY DEF Invoke, ReadManifest, CheckActive, Lookup, Build, BuildFails, Insert, StartCall, CallOk,
         CallFails, EvictOwn, Ends, Settled, Goto
<1>5. \A d \in Callers \ {c} : ReadCurrent(d)' /\ Current(hold[d])'
  BY <1>1, <1>2, <1>4 DEF CurrentInv, ReadCurrent, Current
<1>6. ASSUME ReadCurrent(c)', Current(hold[c])', Current(loaded)' PROVE CurrentInv'
  BY <1>2, <1>5, <1>6 DEF CurrentInv
<1>7. CASE ReadManifest(c)
  <2>1. granted'[c] = manifest /\ manifest # 0 /\ began'[c] = evictions
    BY <1>7 DEF ReadManifest
  <2>2. ReadCurrent(c)'
    BY <1>1, <1>2, <2>1 DEF CurrentInv, RegistryAgrees, ReadCurrent
  <2>3. loaded' = loaded /\ hold' = hold
    BY <1>7 DEF ReadManifest
  <2> QED
    BY <1>1, <1>2, <1>6, <2>2, <2>3 DEF CurrentInv, Current
<1>8. ASSUME Ends(c), loaded' \in {loaded, NoInstance} PROVE CurrentInv'
  <2>1. pc'[c] = "idle" /\ began'[c] = 0 /\ hold'[c] = NoInstance
    BY <1>8 DEF Ends, Goto, Settled
  <2>2. ReadCurrent(c)' /\ Current(hold[c])'
    BY <1>1, <2>1 DEF ReadCurrent, Current, NoInstance
  <2>3. Current(loaded)'
    BY <1>1, <1>2, <1>8 DEF CurrentInv, Current, NoInstance
  <2> QED
    BY <1>6, <2>2, <2>3
<1>9. CASE BuildFails(c) \/ CallOk(c) \/ EvictOwn(c)
  BY <1>8, <1>9 DEF BuildFails, CallOk, EvictOwn
<1>10. CASE CheckActive(c)
  <2>1. CASE active
    <3>1. /\ pc[c] = "known" /\ pc'[c] = "allowed" /\ granted' = granted /\ began' = began
          /\ hold' = hold /\ loaded' = loaded
      <4>1. pc[c] = "known" /\ Goto(c, "allowed") /\ UNCHANGED <<granted, began, hold, loaded>>
        BY <1>10, <2>1, Zenon DEF CheckActive
      <4> QED
        BY <4>1 DEF Goto
    <3> QED
      BY <1>1, <1>2, <1>6, <3>1 DEF CurrentInv, ReadCurrent, Current
  <2>2. CASE ~active
    <3>1. Ends(c) /\ loaded' = loaded
      BY <1>10, <2>2, Zenon DEF CheckActive
    <3> QED
      BY <1>8, <3>1
  <2> QED
    BY <2>1, <2>2
<1>11. CASE Lookup(c)
  <2>1. CASE Ends(c)
    BY <1>8, <1>11, <2>1 DEF Lookup
  <2>2. CASE ~Ends(c)
    <3>1. /\ hold'[c] = loaded /\ loaded' = loaded /\ pc[c] = "allowed"
          /\ \/ pc'[c] = "queued" /\ began'[c] = 0
             \/ pc'[c] = "cold" /\ granted' = granted /\ began' = began
      BY <1>11, <2>2 DEF Lookup, Goto, Settled
    <3>2. ReadCurrent(c)'
      BY <1>1, <1>2, <3>1 DEF CurrentInv, ReadCurrent
    <3>3. Current(loaded)'
      BY <1>1, <1>2, <3>1 DEF CurrentInv, Current
    <3>4. Current(hold[c])'
      BY <3>1, <3>3 DEF Current
    <3> QED
      BY <1>6, <3>2, <3>3, <3>4
  <2> QED
    BY <2>1, <2>2
<1>12. CASE Build(c)
  <2>1. /\ pc[c] = "cold" /\ pc'[c] = "built" /\ began'[c] = 0 /\ loaded' = loaded
        /\ hold'[c] = [no |-> built + 1, wasm |-> folder, grants |-> granted[c], since |-> began[c]]
    BY <1>12 DEF Build, Goto, Settled
  <2>2. hold'[c].since = began[c] /\ hold'[c].wasm = folder /\ hold'[c].grants = granted[c]
    BY <2>1
  <2>3. ReadCurrent(c)' /\ Current(loaded)'
    BY <1>1, <1>2, <2>1 DEF CurrentInv, ReadCurrent, Current
  <2>4. Current(hold[c])'
    BY <1>1, <1>2, <2>1, <2>2 DEF CurrentInv, ReadCurrent, Current
  <2> QED
    BY <1>6, <2>3, <2>4
<1>13. CASE Insert(c)
  <2>1. /\ pc'[c] = "queued" /\ began' = began /\ hold'[c] = loaded'
        /\ loaded' \in {loaded, hold[c]}
    BY <1>13 DEF Insert, Goto
  <2>2. Current(loaded)'
    BY <1>1, <1>2, <2>1 DEF CurrentInv, Current
  <2>3. Current(hold[c])' /\ ReadCurrent(c)'
    BY <1>1, <2>1, <2>2 DEF CurrentInv, ReadCurrent, Current
  <2> QED
    BY <1>6, <2>2, <2>3
<1>14. CASE StartCall(c) \/ CallFails(c)
  <2>1. pc'[c] \in {"calling", "evicting"} /\ began' = began /\ hold' = hold /\ loaded' = loaded
    BY <1>14 DEF StartCall, CallFails, Goto
  <2> QED
    BY <1>1, <1>2, <1>6, <2>1 DEF CurrentInv, ReadCurrent, Current
<1> QED
  BY <1>7, <1>9, <1>10, <1>11, <1>12, <1>13, <1>14 DEF Invoke

(* A step of the commands or an install either evicts, or leaves the       *)
(* folder, or ends the quiet.                                              *)
LEMMA CommandKeepsCurrent ==
    ASSUME TypeOK, CurrentInv, UNCHANGED callers,
           StagesAgree', RegistryAgrees', evictions' \in Nat,
           \/ evictions' = evictions /\ loaded' = loaded /\ (Quiet' => Quiet /\ folder' = folder)
           \/ evictions' = evictions + 1 /\ loaded' = NoInstance
    PROVE  CurrentInv'
<1> USE DEF TypeOK, callers
<1>1. CASE evictions' = evictions /\ loaded' = loaded /\ (Quiet' => Quiet /\ folder' = folder)
  BY <1>1 DEF CurrentInv, ReadCurrent, Current
<1>2. CASE evictions' = evictions + 1 /\ loaded' = NoInstance
  <2>1. \A c \in Callers : began[c] < evictions' /\ hold[c].since < evictions'
    BY <1>2 DEF CurrentInv, ReadCurrent, Current, Instance
  <2>2. \A c \in Callers : ReadCurrent(c)' /\ Current(hold[c])'
    BY <2>1 DEF ReadCurrent, Current, Instance
  <2>3. Current(loaded)'
    BY <1>2 DEF Current, NoInstance
  <2> QED
    BY <2>2, <2>3 DEF CurrentInv
<1> QED
  BY <1>1, <1>2

LEMMA CurrentStep == ASSUME TypeOK, CurrentInv, [Next]_vars PROVE CurrentInv'
<1> USE DEF TypeOK, registry, control, numbering
<1>0. TypeOK' /\ StagesAgree /\ RegistryAgrees
  BY TypeStep DEF CurrentInv
<1>1. CASE UNCHANGED vars
  BY <1>1 DEF vars, callers, CurrentInv, StagesAgree, RegistryAgrees, Quiet, ReadCurrent, Current
<1>2. ASSUME NEW c \in Callers, Invoke(c) PROVE CurrentInv'
  BY <1>2, InvokeKeepsCurrent
<1>3. CASE Activate \/ Deactivate \/ Disuse
  <2>1. /\ main' # "rescan"
        /\ UNCHANGED <<manifest, folder, loaded, callers, install, evictions, versions, byHand, overtaken>>
    <3>1. CASE Activate BY <3>1 DEF Activate, Begin
    <3>2. CASE Deactivate BY <3>2 DEF Deactivate
    <3>3. CASE Disuse BY <3>3 DEF Disuse
    <3> QED BY <1>3, <3>1, <3>2, <3>3
  <2> QED
    BY <1>0, <2>1, CommandKeepsCurrent DEF StagesAgree, RegistryAgrees, Quiet
<1>4. CASE Discover \/ Rescan
  <2>1. UNCHANGED <<folder, loaded, callers, install, evictions, versions, byHand, overtaken>>
    BY <1>4 DEF Discover, Rescan
  <2>2. CASE Discover
    <3>1. manifest' = manifest /\ scanned' = folder
      BY <2>2 DEF Discover
    <3> QED
      BY <1>0, <2>1, <3>1, CommandKeepsCurrent DEF StagesAgree, RegistryAgrees, Quiet
  <2>3. CASE Rescan
    <3>1. manifest' = scanned /\ main = "rescan" /\ main' # "rescan"
      <4>1. manifest' = scanned /\ main = "rescan"
        BY <2>3 DEF Rescan
      <4>2. main' \in {"evict", "idle"}
        BY <2>3, Zenon DEF Rescan
      <4> QED
        BY <4>1, <4>2
    <3> QED
      BY <1>0, <2>1, <3>1, CommandKeepsCurrent DEF StagesAgree, RegistryAgrees, Quiet
  <2> QED
    BY <1>4, <2>2, <2>3
<1>5. CASE Remove \/ MainEvicts
  <2>1. /\ evictions' = evictions + 1 /\ loaded' = NoInstance /\ main' # "rescan"
        /\ UNCHANGED <<manifest, folder, callers, install, versions, byHand, overtaken>>
    BY <1>5 DEF Remove, MainEvicts, Evict
  <2> QED
    BY <1>0, <2>1, CommandKeepsCurrent DEF StagesAgree, RegistryAgrees, Quiet
<1>6. CASE Forget \/ Delete
  <2>1. /\ manifest' \in {0, manifest} /\ folder' \in {0, folder} /\ main' # "rescan"
        /\ UNCHANGED <<loaded, callers, install, evictions, versions, byHand, overtaken>>
    <3>1. CASE Forget
      <4>1. main' \in {"idle", "disuse"}
        BY <3>1, Zenon DEF Forget
      <4> QED
        BY <3>1, <4>1 DEF Forget
    <3>2. CASE Delete BY <3>2 DEF Delete
    <3> QED
      BY <1>6, <3>1, <3>2
  <2> QED
    BY <1>0, <2>1, CommandKeepsCurrent DEF StagesAgree, RegistryAgrees, Quiet
<1>7. CASE SwapOut
  <2>1. /\ folder' = 0 /\ install' = "swapping"
        /\ UNCHANGED <<loaded, callers, evictions>>
    BY <1>7 DEF SwapOut, InstallStep
  <2> QED
    BY <1>0, <2>1, CommandKeepsCurrent DEF StagesAgree, RegistryAgrees, Quiet
<1>8. CASE SwapIn
  <2>1. /\ folder' = versions /\ versions' = versions /\ install' = "registering"
        /\ byHand' = FALSE /\ overtaken' = (main = "rescan")
        /\ UNCHANGED <<loaded, callers, main, evictions>>
    BY <1>8 DEF SwapIn, InstallStep
  <2> QED
    BY <1>0, <2>1, CommandKeepsCurrent DEF StagesAgree, RegistryAgrees, Quiet
<1>9. CASE SwapFails
  <2>1. /\ install = "swapping" /\ install' = "idle" /\ UNCHANGED <<folder, loaded, callers, evictions>>
    BY <1>9 DEF SwapFails, InstallStep
  <2> QED
    BY <1>0, <2>1, CommandKeepsCurrent DEF StagesAgree, RegistryAgrees, Quiet
<1>10. CASE Register
  <2>1. /\ install = "registering" /\ install' = "evicting" /\ manifest' = versions
        /\ overtaken' = (overtaken /\ main = "rescan")
        /\ UNCHANGED <<folder, versions, byHand, loaded, callers, main, scanned, evictions>>
    BY <1>10 DEF Register, InstallStep
  <2> QED
    BY <1>0, <2>1, CommandKeepsCurrent DEF StagesAgree, RegistryAgrees, Quiet
<1>11. CASE InstallEvicts
  <2>1. /\ install = "evicting" /\ install' = "idle" /\ evictions' = evictions + 1 /\ loaded' = NoInstance
        /\ UNCHANGED <<manifest, folder, versions, byHand, overtaken, main, scanned, callers>>
    BY <1>11 DEF InstallEvicts, InstallStep, Evict
  <2> QED
    BY <1>0, <2>1, CommandKeepsCurrent DEF StagesAgree, RegistryAgrees, Quiet
<1>12. CASE Drop
  <2>1. install' = "idle" /\ ~Quiet' /\ UNCHANGED <<loaded, callers, evictions>>
    BY <1>12 DEF Drop, Quiet
  <2> QED
    BY <1>0, <2>1, CommandKeepsCurrent DEF StagesAgree, RegistryAgrees
<1>13. CASE Restart
  <2>1. /\ manifest' = folder /\ folder' = folder /\ install' = "idle" /\ evictions' = evictions
        /\ main' = "idle"
        /\ loaded' = NoInstance
        /\ \A c \in Callers : pc'[c] = "idle" /\ began'[c] = 0 /\ hold'[c] = NoInstance
    BY <1>13 DEF Restart
  <2> QED
    BY <2>1 DEF CurrentInv, StagesAgree, RegistryAgrees, ReadCurrent, Current, NoInstance, Quiet
<1> QED
  BY <1>1, <1>2, <1>3, <1>4, <1>5, <1>6, <1>7, <1>8, <1>9, <1>10, <1>11, <1>12, <1>13
  DEF Next, Main, Install

(* An instance whose invocation began after the last eviction runs the     *)
(* wasm and the grants installed: swap, register, evict is a sound order.  *)
THEOREM BuiltSince == Spec => []BuiltSinceIsCurrent
<1>1. Init => CurrentInv
  BY DEF Init, CurrentInv, StagesAgree, RegistryAgrees, ReadCurrent, Current, NoInstance, Quiet
<1>2. TypeOK /\ CurrentInv => BuiltSinceIsCurrent
  BY DEF TypeOK, CurrentInv, RegistryAgrees, Current, Quiet, BuiltSinceIsCurrent
<1>3. QED BY <1>1, <1>2, CurrentStep, TypeCorrect, PTL DEF Spec

-----------------------------------------------------------------------------
(* The folder sync, where nothing falls between a run's decision and its   *)
(* setMeta.                                                                *)
FolderFiles == [at : {"absent", "torn", "whole"}, ts : Nat, data : Nat]
SyncRuns == [at : {"idle", "read", "decide", "apply", "applied", "export", "truncate", "fill"},
             does : {"sync", "pull", "push"}, seen : FolderFiles, ts : Nat, data : Nat]

SyncTypeOK ==
    /\ clock \in Nat /\ data \in [Devices -> Nat] /\ meta \in [Devices -> Nat]
    /\ saving \in [Devices -> BOOLEAN] /\ file \in FolderFiles
    /\ run \in [Devices -> [Kinds -> SyncRuns]]
    /\ changes \in Nat /\ touched \in [Devices -> [data : Nat, ts : Nat]]

(* No time lies ahead of the clock, and nothing but a pull sets a manifest *)
(* to a time before what was touched on the device last.                   *)
RunTimes(d, r) ==
    /\ r.ts <= clock /\ r.seen.ts <= clock
    /\ r.does = "pull" /\ r.at # "idle" => Pulled(d)
    /\ WillSet(r) /\ ~Pulled(d) => touched[d].ts <= r.ts

DeviceTimes(d) ==
    /\ meta[d] <= clock /\ touched[d].ts <= clock
    /\ ~Pulled(d) => touched[d].ts <= meta[d]
    /\ \A k \in Kinds : RunTimes(d, run[d][k])

SyncInv == SyncTypeOK /\ file.ts <= clock /\ \A d \in Devices : DeviceTimes(d)

LEMMA FieldsOf ==
    ASSUME SyncTypeOK, NEW d \in Devices, NEW k \in Kinds
    PROVE  /\ run[d][k] \in SyncRuns /\ run[d][k].seen \in FolderFiles /\ run[d][k].ts \in Nat
           /\ run[d][k].seen.ts \in Nat /\ run[d][k].data \in Nat /\ run[d][k].seen.data \in Nat
           /\ file.ts \in Nat /\ meta[d] \in Nat /\ data[d] \in Nat
           /\ touched[d].ts \in Nat /\ touched[d].data \in Nat
<1>1. run[d][k] \in SyncRuns /\ touched[d] \in [data : Nat, ts : Nat]
  BY DEF SyncTypeOK
<1>2. run[d][k].seen \in FolderFiles
  BY <1>1 DEF SyncRuns
<1> QED
  BY <1>1, <1>2 DEF SyncTypeOK, SyncRuns, FolderFiles

LEMMA IdleIs ==
    ASSUME clock \in Nat, NEW d
    PROVE  Idle \in SyncRuns /\ RunTimes(d, Idle) /\ ~WillSet(Idle)
BY DEF Idle, Unread, SyncRuns, FolderFiles, RunTimes, WillSet

LEMMA SyncStarts == SyncInit => SyncInv
<1> SUFFICES ASSUME SyncInit PROVE SyncInv
    OBVIOUS
<1>1. clock \in Nat /\ clock = 0 /\ \A d \in Devices, k \in Kinds : run[d][k] = Idle
  BY DEF SyncInit
<1>2. SyncTypeOK
  BY <1>1, IdleIs DEF SyncInit, SyncTypeOK, Unread, FolderFiles
<1>3. ASSUME NEW d \in Devices PROVE DeviceTimes(d)
  <2>1. \A k \in Kinds : RunTimes(d, run[d][k])
    BY <1>1, IdleIs
  <2> QED
    BY <1>1, <2>1 DEF DeviceTimes, SyncInit
<1> QED
  BY <1>1, <1>2, <1>3 DEF SyncInv, SyncInit, Unread

(* Another record in place of a run's, which keeps the promises of a run,  *)
(* keeps the invariant.                                                    *)
LEMMA RunBecomes ==
    ASSUME SyncInv, NEW d \in Devices, NEW k \in Kinds, NEW r \in SyncRuns, Becomes(d, k, r),
           clock' \in Nat, clock <= clock', file' \in FolderFiles, file'.ts <= clock',
           data' \in [Devices -> Nat], UNCHANGED <<meta, saving, touched>>, changes' \in Nat,
           r.ts <= clock', r.seen.ts <= clock', pressed \subseteq pressed',
           r.does = "pull" /\ r.at # "idle" => Pulled(d)',
           WillSet(r) /\ ~Pulled(d)' => touched[d].ts <= r.ts
    PROVE  SyncInv'
<1>1. SyncTypeOK /\ run' \in [Devices -> [Kinds -> SyncRuns]]
  BY DEF Becomes, SyncInv, SyncTypeOK
<1>2. SyncTypeOK'
  BY <1>1 DEF SyncTypeOK
<1>3. ASSUME NEW e \in Devices PROVE DeviceTimes(e)'
  <2>1. Pulled(e) => Pulled(e)'
    BY DEF Pulled
  <2>2. DeviceTimes(e) /\ meta[e] \in Nat /\ touched[e].ts \in Nat
    BY <1>1, FieldsOf DEF SyncInv, Kinds
  <2>3. ASSUME NEW j \in Kinds PROVE RunTimes(e, run[e][j])'
    <3>0. run[e][j].ts \in Nat /\ run[e][j].seen.ts \in Nat /\ clock \in Nat
      BY <1>1, FieldsOf DEF SyncTypeOK
    <3>1. CASE e = d /\ j = k
      <4>1. run'[e][j] = r
        BY <1>1, <3>1 DEF Becomes, SyncTypeOK
      <4> QED
        BY <3>1, <4>1 DEF RunTimes, WillSet
    <3>2. CASE ~(e = d /\ j = k)
      <4>1. run'[e][j] = run[e][j]
        BY <1>1, <3>2 DEF Becomes, SyncTypeOK
      <4>2. RunTimes(e, run[e][j])
        BY <2>2 DEF DeviceTimes
      <4> QED
        BY <2>1, <3>0, <4>1, <4>2 DEF RunTimes, WillSet
    <3> QED
      BY <3>1, <3>2
  <2>4. meta'[e] <= clock' /\ touched'[e].ts <= clock'
    BY <1>1, <2>2 DEF DeviceTimes, SyncTypeOK
  <2> QED
    BY <2>1, <2>2, <2>3, <2>4 DEF DeviceTimes
<1> QED
  BY <1>2, <1>3 DEF SyncInv

LEMMA RunMoves ==
    ASSUME SyncInv, NEW d \in Devices, NEW k \in Kinds, Step(d, k)
    PROVE  SyncInv'
<1> DEFINE r == run[d][k]
<1>0. /\ UNCHANGED <<clock, saving, changes, pressed, touched>> /\ SyncTypeOK
      /\ r \in SyncRuns /\ r.seen \in FolderFiles /\ RunTimes(d, r) /\ file.ts <= clock /\ DeviceTimes(d)
  BY FieldsOf DEF Step, SyncInv, DeviceTimes
<1>1. /\ clock \in Nat /\ clock' \in Nat /\ clock <= clock' /\ file \in FolderFiles /\ changes' \in Nat
      /\ data \in [Devices -> Nat] /\ meta[d] \in Nat /\ meta[d] <= clock /\ touched[d].ts \in Nat
      /\ r.ts \in Nat /\ r.seen.ts \in Nat /\ r.data \in Nat /\ r.seen.data \in Nat /\ data[d] \in Nat
      /\ clock' = clock /\ (Pulled(d)' <=> Pulled(d))
  BY <1>0, FieldsOf DEF SyncTypeOK, DeviceTimes, Pulled
<1>2. ASSUME NEW q \in SyncRuns, Becomes(d, k, q), file' \in FolderFiles, file'.ts <= clock,
             data' \in [Devices -> Nat], meta' = meta, q.ts <= clock, q.seen.ts <= clock,
             q.does = "pull" /\ q.at # "idle" => Pulled(d),
             WillSet(q) /\ ~Pulled(d) => touched[d].ts <= q.ts
      PROVE  SyncInv'
  BY <1>0, <1>1, <1>2, RunBecomes
<1> HIDE DEF r
<1>3. CASE ReadFolder(d, k)
  <2> DEFINE q == [r EXCEPT !.at = "decide", !.seen = file]
  <2>1. Becomes(d, k, q) /\ r.at = "read" /\ UNCHANGED <<data, meta, file>>
    BY <1>3 DEF ReadFolder, r
  <2>2. q \in SyncRuns /\ q.at = "decide" /\ q.does = r.does /\ q.ts = r.ts /\ q.seen = file
    BY <1>0, <1>1 DEF SyncRuns
  <2> HIDE DEF q
  <2> QED
    BY <1>0, <1>1, <1>2, <2>1, <2>2 DEF RunTimes, WillSet
<1>4. CASE Decide(d, k)
  <2>0. r.at = "decide" /\ UNCHANGED <<data, meta, file>>
    BY <1>4 DEF Decide, r
  <2>1. CASE Becomes(d, k, [r EXCEPT !.at = "apply", !.ts = r.seen.ts])
             /\ (r.does = "pull" \/ DecideSync(meta[d], r.seen) = "import")
    <3> DEFINE q == [r EXCEPT !.at = "apply", !.ts = r.seen.ts]
    <3>1. q \in SyncRuns /\ q.at = "apply" /\ q.does = r.does /\ q.ts = r.seen.ts /\ q.seen = r.seen
      BY <1>0, <1>1 DEF SyncRuns
    <3>2. r.does = "pull" \/ r.seen.ts > meta[d]
      BY <2>1 DEF DecideSync
    <3>3. ~Pulled(d) => touched[d].ts <= q.ts
      BY <1>0, <1>1, <2>0, <3>1, <3>2 DEF RunTimes, DeviceTimes
    <3>4. Becomes(d, k, q)
      BY <2>1
    <3> HIDE DEF q
    <3> QED
      BY <1>0, <1>1, <1>2, <2>0, <3>1, <3>3, <3>4 DEF RunTimes
  <2>2. CASE Becomes(d, k, [r EXCEPT !.at = "export", !.ts = meta[d]])
    <3> DEFINE q == [r EXCEPT !.at = "export", !.ts = meta[d]]
    <3>1. q \in SyncRuns /\ q.at = "export" /\ q.does = r.does /\ q.ts = meta[d] /\ q.seen = r.seen
      BY <1>0, <1>1 DEF SyncRuns
    <3>2. Becomes(d, k, q)
      BY <2>2
    <3> HIDE DEF q
    <3> QED
      BY <1>0, <1>1, <1>2, <2>0, <3>1, <3>2 DEF RunTimes, DeviceTimes
  <2>3. CASE Becomes(d, k, Idle)
    BY <1>0, <1>1, <1>2, <2>0, <2>3, IdleIs DEF RunTimes
  <2> QED
    BY <1>4, <2>1, <2>2, <2>3 DEF Decide, r
<1>5. CASE Apply(d, k)
  <2> DEFINE q == [r EXCEPT !.at = "applied"]
  <2>1. Becomes(d, k, q) /\ r.at = "apply" /\ UNCHANGED <<meta, file>> /\ data' \in [Devices -> Nat]
    BY <1>1, <1>5 DEF Apply, r
  <2>2. q \in SyncRuns /\ q.at = "applied" /\ q.does = r.does /\ q.ts = r.ts /\ q.seen = r.seen
    BY <1>0 DEF SyncRuns
  <2> HIDE DEF q
  <2> QED
    BY <1>0, <1>1, <1>2, <2>1, <2>2 DEF RunTimes, WillSet
<1>6. CASE Export(d, k)
  <2> DEFINE q == [r EXCEPT !.at = "truncate", !.data = data[d]]
  <2>1. Becomes(d, k, q) /\ r.at = "export" /\ UNCHANGED <<data, meta, file>>
    BY <1>6 DEF Export, r
  <2>2. q \in SyncRuns /\ q.at = "truncate" /\ q.does = r.does /\ q.ts = r.ts /\ q.seen = r.seen
    BY <1>0, <1>1 DEF SyncRuns
  <2> HIDE DEF q
  <2> QED
    BY <1>0, <1>1, <1>2, <2>1, <2>2 DEF RunTimes, WillSet
<1>7. CASE Truncate(d, k)
  <2> DEFINE q == [r EXCEPT !.at = "fill"]
  <2>1. Becomes(d, k, q) /\ r.at = "truncate" /\ UNCHANGED <<data, meta>> /\ file' = Torn
    BY <1>7 DEF Truncate, r
  <2>2. q \in SyncRuns /\ q.at = "fill" /\ q.does = r.does /\ q.ts = r.ts /\ q.seen = r.seen
    BY <1>0 DEF SyncRuns
  <2>3. file' \in FolderFiles /\ file'.ts <= clock
    BY <1>1, <2>1 DEF Torn, Unread, FolderFiles
  <2> HIDE DEF q
  <2> QED
    BY <1>0, <1>1, <1>2, <2>1, <2>2, <2>3 DEF RunTimes, WillSet
<1>8. CASE Fill(d, k)
  <2> DEFINE q == [r EXCEPT !.at = "applied"]
  <2>1. UNCHANGED <<data, meta>> /\ r.at = "fill" /\ file' = [at |-> "whole", ts |-> r.ts, data |-> r.data]
        /\ Becomes(d, k, IF r.does = "push" THEN q ELSE Idle)
    BY <1>8 DEF Fill, r
  <2>2. q \in SyncRuns /\ q.at = "applied" /\ q.does = r.does /\ q.ts = r.ts /\ q.seen = r.seen
    BY <1>0 DEF SyncRuns
  <2>3. file' \in FolderFiles /\ file'.ts <= clock
    BY <1>0, <1>1, <2>1 DEF FolderFiles, RunTimes
  <2> HIDE DEF q
  <2>4. CASE r.does = "push"
    BY <1>0, <1>1, <1>2, <2>1, <2>2, <2>3, <2>4 DEF RunTimes, WillSet
  <2>5. CASE r.does # "push"
    BY <1>0, <1>1, <1>2, <2>1, <2>3, <2>5, IdleIs DEF RunTimes
  <2> QED
    BY <2>4, <2>5
<1>9. CASE SetMeta(d, k)
  <2>1. Becomes(d, k, Idle) /\ r.at = "applied" /\ UNCHANGED <<data, file>>
        /\ meta' = [meta EXCEPT ![d] = r.ts]
    BY <1>9 DEF SetMeta, r
  <2>2. run' \in [Devices -> [Kinds -> SyncRuns]] /\ meta' \in [Devices -> Nat]
    BY <1>0, <1>1, <2>1, IdleIs DEF Becomes, SyncTypeOK
  <2>3. SyncTypeOK'
    BY <1>0, <2>1, <2>2 DEF SyncTypeOK
  <2>4. ASSUME NEW e \in Devices PROVE DeviceTimes(e)'
    <3>1. DeviceTimes(e) /\ (Pulled(e)' <=> Pulled(e)) /\ UNCHANGED <<clock, touched>>
      BY <1>0 DEF SyncInv, Pulled
    <3>2. meta'[e] = IF e = d THEN r.ts ELSE meta[e]
      BY <1>0, <2>1 DEF SyncTypeOK
    <3>3. meta'[e] <= clock /\ (~Pulled(e) => touched[e].ts <= meta'[e])
      BY <1>0, <2>1, <3>1, <3>2 DEF DeviceTimes, RunTimes, WillSet
    <3>4. ASSUME NEW j \in Kinds PROVE RunTimes(e, run[e][j])'
      <4>1. run'[e][j] = run[e][j] \/ run'[e][j] = Idle
        BY <1>0, <2>1 DEF Becomes, SyncTypeOK
      <4>2. RunTimes(e, run[e][j]) /\ RunTimes(e, Idle)
        BY <1>1, <3>1, IdleIs DEF DeviceTimes
      <4> QED
        BY <3>1, <4>1, <4>2 DEF RunTimes
    <3> QED
      BY <3>1, <3>3, <3>4 DEF DeviceTimes
  <2> QED
    BY <1>0, <2>1, <2>3, <2>4 DEF SyncInv
<1> QED
  BY <1>3, <1>4, <1>5, <1>6, <1>7, <1>8, <1>9 DEF Step

LEMMA RunIsIdle ==
    ASSUME SyncInv, NEW d \in Devices, NEW k \in Kinds, Becomes(d, k, Idle),
           UNCHANGED <<clock, data, meta, saving, file, changes, pressed, touched>>
    PROVE  SyncInv'
<1>1. SyncTypeOK /\ file.ts <= clock /\ RunTimes(d, Idle) /\ Idle \in SyncRuns /\ ~WillSet(Idle)
  BY IdleIs DEF SyncInv, SyncTypeOK
<1>2. Idle.at = "idle" /\ clock \in Nat /\ file \in FolderFiles /\ data \in [Devices -> Nat] /\ changes \in Nat
  BY <1>1 DEF Idle, SyncTypeOK
<1> QED
  BY <1>1, <1>2, RunBecomes DEF RunTimes

(* A touch is the only step that needs the device to itself: its time is   *)
(* newer than any a run has taken.                                         *)
LEMMA Touches ==
    ASSUME SyncInv, ~Overlapping, NEW d \in Devices, Touch(d)
    PROVE  SyncInv'
<1>1. /\ SyncTypeOK /\ file.ts <= clock /\ clock \in Nat /\ clock' = clock + 1
      /\ UNCHANGED <<data, file, run, changes, pressed>> /\ \A k \in Kinds : ~WillSet(run[d][k])
  BY DEF Touch, Free, SyncInv, SyncTypeOK
<1>2. /\ meta' = [meta EXCEPT ![d] = clock'] /\ saving' = [saving EXCEPT ![d] = FALSE]
      /\ touched' = [touched EXCEPT ![d] = [data |-> data[d], ts |-> clock']]
  BY DEF Touch
<1>3. SyncTypeOK'
  <2>1. data[d] \in Nat /\ clock' \in Nat
    BY <1>1 DEF SyncTypeOK
  <2>2. [data |-> data[d], ts |-> clock'] \in [data : Nat, ts : Nat]
    BY <2>1
  <2>3. meta' \in [Devices -> Nat] /\ saving' \in [Devices -> BOOLEAN]
        /\ touched' \in [Devices -> [data : Nat, ts : Nat]]
    BY <1>1, <1>2, <2>1, <2>2 DEF SyncTypeOK
  <2> QED
    BY <1>1, <2>1, <2>3 DEF SyncTypeOK
<1>4. ASSUME NEW e \in Devices PROVE DeviceTimes(e)'
  <2>1. DeviceTimes(e) /\ (Pulled(e)' <=> Pulled(e)) /\ meta[e] \in Nat /\ touched[e].ts \in Nat
    BY <1>1, FieldsOf DEF SyncInv, Pulled, Kinds
  <2>2. /\ e = d => meta'[e] = clock' /\ touched'[e].ts = clock'
        /\ e # d => meta'[e] = meta[e] /\ touched'[e] = touched[e]
    BY <1>1, <1>2 DEF SyncTypeOK
  <2>3. ASSUME NEW k \in Kinds PROVE RunTimes(e, run[e][k])'
    <3>1. RunTimes(e, run[e][k]) /\ run[e][k].ts \in Nat /\ run[e][k].seen.ts \in Nat
      BY <1>1, <2>1, FieldsOf DEF DeviceTimes
    <3> QED
      BY <1>1, <2>1, <2>2, <3>1 DEF RunTimes
  <2> QED
    BY <1>1, <2>1, <2>2, <2>3 DEF DeviceTimes
<1>5. file'.ts <= clock'
  <2>1. file \in FolderFiles
    BY <1>1 DEF SyncTypeOK
  <2>2. file.ts \in Nat
    BY <2>1 DEF FolderFiles
  <2> QED
    BY <1>1, <2>2
<1> QED
  BY <1>3, <1>4, <1>5 DEF SyncInv

LEMMA Relaunches ==
    ASSUME SyncInv, NEW d \in Devices, SyncRelaunch(d)
    PROVE  SyncInv'
<1>1. /\ SyncTypeOK /\ clock \in Nat /\ UNCHANGED <<clock, data, meta, file, changes, pressed, touched>>
      /\ run' = [run EXCEPT ![d] = [k \in Kinds |-> Idle]] /\ saving' = [saving EXCEPT ![d] = FALSE]
  BY DEF SyncRelaunch, SyncInv, SyncTypeOK
<1>2. SyncTypeOK'
  BY <1>1, IdleIs DEF SyncTypeOK
<1>3. ASSUME NEW e \in Devices PROVE DeviceTimes(e)'
  <2>1. DeviceTimes(e) /\ (Pulled(e)' <=> Pulled(e))
    BY <1>1 DEF SyncInv, Pulled
  <2>2. ASSUME NEW k \in Kinds PROVE RunTimes(e, run[e][k])'
    <3>1. run'[e][k] = run[e][k] \/ run'[e][k] = Idle
      BY <1>1 DEF SyncTypeOK
    <3>2. RunTimes(e, run[e][k]) /\ RunTimes(e, Idle)
      BY <1>1, <2>1, IdleIs DEF DeviceTimes
    <3> QED
      BY <1>1, <2>1, <3>1, <3>2 DEF RunTimes
  <2> QED
    BY <1>1, <2>1, <2>2 DEF DeviceTimes
<1> QED
  BY <1>1, <1>2, <1>3 DEF SyncInv

LEMMA SyncSteps ==
    ASSUME ~Overlapping, SyncInv, [SyncNext]_yVars
    PROVE  SyncInv'
<1>0. /\ SyncTypeOK /\ clock \in Nat /\ file \in FolderFiles /\ file.ts \in Nat /\ file.ts <= clock
      /\ data \in [Devices -> Nat] /\ changes \in Nat /\ Kinds = {"auto", "card"}
      /\ \A d \in Devices : DeviceTimes(d) /\ data[d] \in Nat /\ touched[d].ts \in Nat
  <2>1. SyncTypeOK /\ \A d \in Devices : DeviceTimes(d)
    BY DEF SyncInv
  <2>2. \A d \in Devices : data[d] \in Nat /\ touched[d].ts \in Nat
    BY <2>1, FieldsOf DEF Kinds
  <2>3. file.ts <= clock /\ file \in FolderFiles /\ clock \in Nat
    BY <2>1 DEF SyncInv, SyncTypeOK
  <2>4. file.ts \in Nat
    BY <2>3 DEF FolderFiles
  <2> QED
    BY <2>1, <2>2, <2>3, <2>4 DEF SyncTypeOK, Kinds
<1>1. CASE UNCHANGED yVars
  BY <1>0, <1>1 DEF yVars, SyncInv, SyncTypeOK, DeviceTimes, RunTimes, Pulled
<1>2. ASSUME NEW d \in Devices, Edit(d) PROVE SyncInv'
  <2>1. /\ UNCHANGED <<clock, meta, file, run, pressed, touched>> /\ changes' = changes + 1
        /\ data' = [data EXCEPT ![d] = changes'] /\ saving' = [saving EXCEPT ![d] = TRUE]
    BY <1>2 DEF Edit
  <2>2. SyncTypeOK'
    BY <1>0, <2>1 DEF SyncTypeOK
  <2> QED
    BY <1>0, <2>1, <2>2 DEF SyncInv, DeviceTimes, RunTimes, Pulled
<1>3. ASSUME NEW d \in Devices, Touch(d) PROVE SyncInv'
  BY <1>3, Touches
<1>4. ASSUME NEW d \in Devices, Push(d) PROVE SyncInv'
  <2> DEFINE q == [Idle EXCEPT !.at = "export", !.does = "push", !.ts = clock']
  <2>1. /\ UNCHANGED <<data, meta, saving, file, changes, touched>>
        /\ clock' = clock + 1 /\ pressed \subseteq pressed'
        /\ Becomes(d, "card", q)
    BY <1>4 DEF Push
  <2>2. q \in SyncRuns /\ q.does = "push" /\ q.ts = clock' /\ q.seen.ts = 0
    <3>1. clock' \in Nat /\ Idle \in SyncRuns /\ Idle.seen.ts = 0
      BY <1>0, <2>1, IdleIs DEF Idle, Unread
    <3> HIDE DEF Idle
    <3> QED
      BY <3>1 DEF SyncRuns
  <2>3. touched[d].ts <= clock
    BY <1>0 DEF DeviceTimes
  <2> HIDE DEF q
  <2>4. /\ file'.ts <= clock' /\ q.ts <= clock' /\ q.seen.ts <= clock'
        /\ touched[d].ts <= q.ts /\ clock <= clock' /\ clock' \in Nat
    BY <1>0, <2>1, <2>2, <2>3
  <2> QED
    BY <1>0, <2>1, <2>2, <2>4, RunBecomes
<1>5. ASSUME NEW d \in Devices, SyncRelaunch(d) PROVE SyncInv'
  BY <1>5, Relaunches
<1>6. ASSUME NEW d \in Devices, NEW does \in {"sync", "pull"}, Press(d, does) PROVE SyncInv'
  <2> DEFINE q == [Idle EXCEPT !.at = "read", !.does = does]
  <2>1. /\ UNCHANGED <<clock, data, meta, saving, file, changes, touched>>
        /\ pressed' = pressed \cup {<<d, does>>} /\ Becomes(d, "card", q)
    BY <1>6 DEF Press
  <2>2. q \in SyncRuns /\ q.at = "read" /\ q.does = does /\ q.ts = 0 /\ q.seen.ts = 0
    BY <1>0, IdleIs DEF SyncRuns, Idle, Unread
  <2> HIDE DEF q
  <2>3. (does = "pull" => Pulled(d)') /\ pressed \subseteq pressed' /\ ~WillSet(q)
    BY <2>1, <2>2 DEF Pulled, WillSet
  <2> QED
    BY <1>0, <2>1, <2>2, <2>3, RunBecomes
<1>7. ASSUME NEW d \in Devices, NEW k \in Kinds, Runs(d, k) PROVE SyncInv'
  <2>1. CASE Step(d, k)
    BY <2>1, RunMoves
  <2>2. CASE k = "auto" /\ Schedule(d)
    <3> DEFINE q == [Idle EXCEPT !.at = "read"]
    <3>1. UNCHANGED <<clock, data, meta, saving, file, changes, pressed, touched>> /\ Becomes(d, k, q)
      BY <2>2 DEF Schedule
    <3>2. q \in SyncRuns /\ q.at = "read" /\ q.does = "sync" /\ q.ts = 0 /\ q.seen.ts = 0
      BY <1>0, IdleIs DEF SyncRuns, Idle, Unread
    <3> HIDE DEF q
    <3>3. ~WillSet(q)
      BY <3>2 DEF WillSet
    <3> QED
      BY <1>0, <3>1, <3>2, <3>3, RunBecomes
  <2> QED
    BY <1>7, <2>1, <2>2 DEF Runs
<1>8. ASSUME NEW d \in Devices, NEW k \in Kinds, ReadHalf(d, k) PROVE SyncInv'
  <2> DEFINE r == run[d][k]
             q == [r EXCEPT !.at = "decide", !.seen = file]
  <2>1. /\ UNCHANGED <<clock, data, meta, saving, file, changes, pressed, touched>>
        /\ Becomes(d, k, q) /\ r.at = "read"
    BY <1>8 DEF ReadHalf
  <2>2. r \in SyncRuns /\ RunTimes(d, r) /\ r.ts \in Nat
    BY <1>0, FieldsOf DEF DeviceTimes
  <2> HIDE DEF r
  <2>3. q \in SyncRuns /\ q.at = "decide" /\ q.does = r.does /\ q.ts = r.ts /\ q.seen = file
    BY <1>0, <2>2 DEF SyncRuns
  <2> HIDE DEF q
  <2>4. /\ (q.does = "pull" => Pulled(d)') /\ pressed \subseteq pressed'
        /\ (WillSet(q) /\ ~Pulled(d)' => touched[d].ts <= q.ts)
    BY <2>1, <2>2, <2>3 DEF RunTimes, WillSet, Pulled
  <2> QED
    BY <1>0, <2>1, <2>2, <2>3, <2>4, RunBecomes DEF RunTimes
<1>9. ASSUME NEW d \in Devices, NEW k \in Kinds, Fails(d, k) PROVE SyncInv'
  BY <1>9, RunIsIdle DEF Fails
<1> QED
  BY <1>1, <1>2, <1>3, <1>4, <1>5, <1>6, <1>7, <1>8, <1>9 DEF SyncNext

(* "call this everywhere a synced module's data changes, so the next sync  *)
(* knows this device has the newer copy" (touch, lib/sync/manifest.ts): it *)
(* does, on any number of devices and through failures, torn files and     *)
(* restarts, as long as no edit and no other run falls between a run's     *)
(* decision and its setMeta.                                               *)
THEOREM TouchesAreKept ==
    ASSUME ~Overlapping
    PROVE  SyncSpec => []TouchedIsNewer
<1>1. SyncInit => SyncInv
  BY SyncStarts
<1>2. SyncInv /\ [SyncNext]_yVars => SyncInv'
  BY SyncSteps
<1>3. SyncInv => TouchedIsNewer
  <2> SUFFICES ASSUME SyncInv, NEW d \in Devices, ~Pulled(d) PROVE meta[d] >= touched[d].ts
    BY DEF TouchedIsNewer
  <2>1. meta[d] \in Nat /\ touched[d].ts \in Nat /\ DeviceTimes(d)
    BY FieldsOf DEF SyncInv, Kinds
  <2> QED
    BY <2>1 DEF DeviceTimes
<1> QED
  BY <1>1, <1>2, <1>3, PTL DEF SyncSpec

=============================================================================
