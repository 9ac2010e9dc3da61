-------------------------- MODULE MCScriptScheduler --------------------------
(***************************************************************************)
(* Small instances, for TLC, of what a schedule runs: the scripts          *)
(* (ScriptScheduler) and the folder sync (FolderSync).                     *)
(*                                                                         *)
(* They share no state, so a run takes one of them at a time: focus names  *)
(* it, s1 to s10 are FolderSync's variables, and ScriptScheduler's own     *)
(* rest unless it is the one.                                              *)
(***************************************************************************)
EXTENDS ScriptScheduler

CONSTANTS d1, d2,
          SyncsOverlap  \* FolderSync's Overlapping

VARIABLES focus, s1, s2, s3, s4, s5, s6, s7, s8, s9, s10

slots == <<s1, s2, s3, s4, s5, s6, s7, s8, s9, s10>>
all == <<schedulerVars, focus, slots>>

Blank1 == s1 = 0 /\ s2 = 0 /\ s3 = 0 /\ s4 = 0 /\ s5 = 0 /\ s6 = 0 /\ s7 = 0 /\ s8 = 0 /\ s9 = 0 /\ s10 = 0

(* The scripts on disk at launch run every other minute.                   *)
EveryOther == [id \in Ids |-> 2]

Sharing == {d1, d2}

Sync ==
    INSTANCE FolderSync WITH
        Devices <- Sharing, Overlapping <- SyncsOverlap, MaxActs <- 3,
        clock <- s1, data <- s2, meta <- s3, saving <- s4, file <- s5, run <- s6, changes <- s7, faults <- s8,
        pressed <- s9, touched <- s10

-----------------------------------------------------------------------------

SchedulesInit ==
    /\ SchedulerInit
    /\ \/ focus = "scripts" /\ Blank1
       \/ focus = "sync" /\ Sync!SyncInit

SchedulesNext ==
    /\ UNCHANGED focus
    /\ \/ focus = "scripts" /\ SchedulerNext /\ UNCHANGED slots
       \/ focus = "sync" /\ Sync!SyncNext /\ UNCHANGED schedulerVars

(* For what is asked of one of them alone.  The scripts' commands come     *)
(* once the flag is seeded, every write succeeds, and the loop waits for   *)
(* it: what is shown needs neither a failure nor a half-written file.      *)
ScriptsSpec ==
    /\ SchedulesInit /\ focus = "scripts"
    /\ [][/\ SchedulesNext
          /\ loop \in {"launch", "seeding"} => cmd' = "idle"
          /\ torn => loop' = loop
          /\ ~WriteFails]_all
SyncSpec == (SchedulesInit /\ focus = "sync") /\ [][SchedulesNext]_all

(* ScriptScheduler's fairness while scripts run: the loop's and the        *)
(* commands' steps and the runs come to their end; and FolderSync's: the   *)
(* calls of a run return and the next run comes.                           *)
SchedulesFairness ==
    /\ WF_schedulerVars(focus = "scripts" /\ Loop) /\ WF_schedulerVars(focus = "scripts" /\ Minute)
    /\ WF_schedulerVars(focus = "scripts" /\ CommandGoesOn)
    /\ WF_schedulerVars(focus = "scripts" /\ \E r \in runs : RunEnds(r))
    /\ \A d \in Sharing :
          /\ WF_slots(focus = "sync" /\ Sync!Touch(d))
          /\ \A k \in {"auto", "card"} : WF_slots(focus = "sync" /\ Sync!Runs(d, k))

SchedulesSpec == SchedulesInit /\ [][SchedulesNext]_all /\ SchedulesFairness

-----------------------------------------------------------------------------
(* FolderSync's properties; each says nothing while scripts run.           *)

(* "Keep the same plans and reminders across your devices [...] Newer wins"*)
(* (SyncSettingsCard): the devices end up with the same setups.            *)
Converges == <>[](focus = "sync" => Sync!SyncSettled)

(* "call this everywhere a synced module's data changes, so the next sync  *)
(* knows this device has the newer copy" (touch).                          *)
TouchedIsNewer == focus = "sync" => Sync!TouchedIsNewer

=============================================================================
