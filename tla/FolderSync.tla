----------------------------- MODULE FolderSync -----------------------------
(* The folder sync (lib/sync, SyncScheduler, SyncSettingsCard): devices that
   share a folder exchange a module, here the saved planner setups, through one
   file; the newer updatedAt wins, whole.  A device keeps the time of its copy
   in a manifest.  Every file access and command is awaited, and a run of the
   scheduler and one of the settings card may be under way together.
   A version of the setups is a number: the edit that made it, 0 for none.    *)
EXTENDS Naturals, FiniteSets

CONSTANTS Devices,
          Overlapping,  \* may an edit or another run fall between a run's decision and its setMeta, and the app
                        \* die between an edit and its touch?
          MaxActs       \* edits, faults, and presses, which count twice

VARIABLES clock,        \* Date.now(), the same everywhere
          data,         \* data[d]: the setups stored on d
          meta,         \* meta[d]: their time in d's manifest
          saving,       \* saving[d]: is an edit stored and not yet touched?
          file,         \* the module's file in the folder
          run,          \* run[d][k]: the scheduler's run on d, the card's run
          changes, faults, \* bounds: edits, and what failed
          pressed,      \* ghost, and bound: the card's buttons pressed, and where
          touched       \* ghost: the version last touched on each device, and when

yVars == <<clock, data, meta, saving, file, run, changes, faults, pressed, touched>>

Kinds == {"auto", "card"}
Unread == [at |-> "absent", ts |-> 0, data |-> 0]
Torn == [Unread EXCEPT !.at = "torn"]
Idle == [at |-> "idle", does |-> "sync", seen |-> Unread, ts |-> 0, data |-> 0]

SyncInit ==
  /\ clock = 0 /\ file = Unread
  /\ data = [d \in Devices |-> 0] /\ meta = [d \in Devices |-> 0] /\ saving = [d \in Devices |-> FALSE]
  /\ run = [d \in Devices |-> [k \in Kinds |-> Idle]]
  /\ changes = 0 /\ faults = 0 /\ pressed = {}
  /\ touched = [d \in Devices |-> [data |-> 0, ts |-> 0]]

Acts == changes + faults + 2 * Cardinality(pressed)

Becomes(d, k, r) == run' = [run EXCEPT ![d][k] = r]

(* A run that is going to set the manifest to a time it has fixed.          *)
WillSet(r) == r.at \in {"apply", "applied"} \/ (r.does = "push" /\ r.at # "idle")
Free(d) == Overlapping \/ \A k \in Kinds : ~WillSet(run[d][k])

---------------------------------------------------------------------------
(* The user saves or deletes a setup, ...                                  *)
Edit(d) ==
  /\ Acts < MaxActs /\ ~saving[d] /\ Free(d)
  /\ changes' = changes + 1
  /\ data' = [data EXCEPT ![d] = changes'] /\ saving' = [saving EXCEPT ![d] = TRUE]
  /\ UNCHANGED <<clock, meta, file, run, faults, pressed, touched>>

(* ... and the panel touches the module once the command has answered.      *)
Touch(d) ==
  /\ saving[d] /\ Free(d)
  /\ clock' = clock + 1
  /\ meta' = [meta EXCEPT ![d] = clock']
  /\ touched' = [touched EXCEPT ![d] = [data |-> data[d], ts |-> clock']]
  /\ saving' = [saving EXCEPT ![d] = FALSE]
  /\ UNCHANGED <<data, file, run, changes, faults, pressed>>

---------------------------------------------------------------------------
(* The scheduler syncs on launch, after a change and every few minutes, one
   run at a time.                                                           *)
Schedule(d) ==
  /\ run[d]["auto"] = Idle
  /\ Becomes(d, "auto", [Idle EXCEPT !.at = "read"])
  /\ UNCHANGED <<clock, data, meta, saving, file, changes, faults, pressed, touched>>

Press(d, does) ==
  /\ run[d]["card"] = Idle /\ Acts + 1 < MaxActs
  /\ pressed' = pressed \cup {<<d, does>>}
  /\ Becomes(d, "card", [Idle EXCEPT !.at = "read", !.does = does])
  /\ UNCHANGED <<clock, data, meta, saving, file, changes, faults, touched>>

(* pushAll exports under max(getMeta, now), whatever is there.              *)
Push(d) ==
  /\ run[d]["card"] = Idle /\ Acts + 1 < MaxActs /\ Free(d)
  /\ pressed' = pressed \cup {<<d, "push">>} /\ clock' = clock + 1
  /\ Becomes(d, "card", [Idle EXCEPT !.at = "export", !.does = "push", !.ts = clock'])
  /\ UNCHANGED <<data, meta, saving, file, changes, faults, touched>>

---------------------------------------------------------------------------
(* A run has the file truncated and is about to fill it.                    *)
BeingWritten == file = Torn /\ \E d \in Devices, k \in Kinds : run[d][k].at = "fill"

(* syncNow and pullAll: the folder is read once; a file that does not parse
   is as good as none.                                                      *)
ReadFolder(d, k) ==
  /\ run[d][k].at = "read" /\ ~BeingWritten
  /\ Becomes(d, k, [run[d][k] EXCEPT !.at = "decide", !.seen = file])
  /\ UNCHANGED <<data, meta, file>>

(* A read that falls between another's truncation and its write, minutes of
   which lie between two runs, is counted with the faults.                   *)
ReadHalf(d, k) ==
  /\ run[d][k].at = "read" /\ BeingWritten /\ Acts < MaxActs
  /\ faults' = faults + 1
  /\ Becomes(d, k, [run[d][k] EXCEPT !.at = "decide", !.seen = file])
  /\ UNCHANGED <<clock, data, meta, saving, file, changes, pressed, touched>>

(* Mutant: the file wins unless it is older. *)
DecideSyncLoose(localTs, seen) ==
  IF seen.at = "whole" /\ seen.ts >= localTs THEN "import" ELSE "export"

DecideSync(localTs, seen) ==
  IF seen.at = "whole" /\ seen.ts > localTs THEN "import"
  ELSE IF seen.at # "whole" \/ localTs > seen.ts THEN "export"
  ELSE "noop"

Decide(d, k) ==
  /\ run[d][k].at = "decide" /\ Free(d)
  /\ LET r == run[d][k]
         pulls == r.does = "pull"
         decision == DecideSync(meta[d], r.seen)
     IN \/ /\ IF pulls THEN r.seen.at = "whole" ELSE decision = "import"
           /\ Becomes(d, k, [r EXCEPT !.at = "apply", !.ts = r.seen.ts])
        \/ /\ ~pulls /\ decision = "export"
           /\ Becomes(d, k, [r EXCEPT !.at = "export", !.ts = meta[d]])
        \/ /\ IF pulls THEN r.seen.at # "whole" ELSE decision = "noop"
           /\ Becomes(d, k, Idle)
  /\ UNCHANGED <<data, meta, file>>

(* An import: store.apply, and then setMeta.                                *)
Apply(d, k) ==
  /\ run[d][k].at = "apply"
  /\ data' = [data EXCEPT ![d] = run[d][k].seen.data]
  /\ Becomes(d, k, [run[d][k] EXCEPT !.at = "applied"])
  /\ UNCHANGED <<meta, file>>

SetMeta(d, k) ==
  /\ run[d][k].at = "applied"
  /\ meta' = [meta EXCEPT ![d] = run[d][k].ts]
  /\ Becomes(d, k, Idle)
  /\ UNCHANGED <<data, file>>

(* exportStore: the time was taken before the data; sync_folder_write
   truncates the file and fills it.                                         *)
Export(d, k) ==
  /\ run[d][k].at = "export"
  /\ Becomes(d, k, [run[d][k] EXCEPT !.at = "truncate", !.data = data[d]])
  /\ UNCHANGED <<data, meta, file>>

Truncate(d, k) ==
  /\ run[d][k].at = "truncate"
  /\ file' = Torn
  /\ Becomes(d, k, [run[d][k] EXCEPT !.at = "fill"])
  /\ UNCHANGED <<data, meta>>

Fill(d, k) ==
  /\ run[d][k].at = "fill"
  /\ file' = [at |-> "whole", ts |-> run[d][k].ts, data |-> run[d][k].data]
  /\ Becomes(d, k, IF run[d][k].does = "push" THEN [run[d][k] EXCEPT !.at = "applied"] ELSE Idle)
  /\ UNCHANGED <<data, meta>>

Step(d, k) ==
  /\ \/ ReadFolder(d, k) \/ Decide(d, k) \/ Apply(d, k) \/ SetMeta(d, k)
     \/ Export(d, k) \/ Truncate(d, k) \/ Fill(d, k)
  /\ UNCHANGED <<clock, saving, changes, faults, pressed, touched>>

(* A folder that cannot be read or written, or a command that fails, ends
   the run.                                                                 *)
Fails(d, k) ==
  /\ Acts < MaxActs /\ run[d][k].at \in {"read", "apply", "export", "truncate", "fill"}
  /\ faults' = faults + 1
  /\ Becomes(d, k, Idle)
  /\ UNCHANGED <<clock, data, meta, saving, file, changes, pressed, touched>>

(* The app is closed or dies, and starts again.                             *)
SyncRelaunch(d) ==
  /\ Acts < MaxActs /\ (Overlapping \/ ~saving[d])
  /\ faults' = faults + 1
  /\ run' = [run EXCEPT ![d] = [k \in Kinds |-> Idle]]
  /\ saving' = [saving EXCEPT ![d] = FALSE]
  /\ UNCHANGED <<clock, data, meta, file, changes, pressed, touched>>

Runs(d, k) == Step(d, k) \/ (k = "auto" /\ Schedule(d))

SyncNext ==
  \E d \in Devices :
    \/ Edit(d) \/ Touch(d) \/ Push(d) \/ SyncRelaunch(d)
    \/ \E does \in {"sync", "pull"} : Press(d, does)
    \/ \E k \in Kinds : Runs(d, k) \/ ReadHalf(d, k) \/ Fails(d, k)

(* The panel's and the runs' calls return; the scheduler never stops.       *)
SyncFairness == \A d \in Devices : WF_yVars(Touch(d)) /\ \A k \in Kinds : WF_yVars(Runs(d, k))

SyncSpec == SyncInit /\ [][SyncNext]_yVars /\ SyncFairness

---------------------------------------------------------------------------

Newest(v) == \E d \in Devices : touched[d].data = v /\ \A e \in Devices : touched[e].ts <= touched[d].ts

Pulled(d) == <<d, "pull">> \in pressed

InSync ==
  /\ \A d, e \in Devices : data[d] = data[e]
  /\ pressed = {} => \A d \in Devices : Newest(data[d])

(* "call this everywhere a synced module's data changes, so the next sync
   knows this device has the newer copy" (touch): once nothing is under way on
   a device that still has what was touched there, and pulled nothing over it,
   its manifest has not lost the time of the touch.                           *)
TouchedIsNewer ==
  \A d \in Devices :
    ~saving[d] /\ ~Pulled(d) /\ (\A k \in Kinds : run[d][k] = Idle) /\ data[d] = touched[d].data => meta[d] >= touched[d].ts

(* "Keep the same plans and reminders across your devices [...] Newer wins"
   (SyncSettingsCard): through failed calls, torn files and restarts every
   device comes to have the same setups, and, when nobody forced a copy on the
   others, those that were touched last; unless somebody pulls, which may take
   an older time with newer data (decideSync, exportStore, syncNow).          *)
SyncSettled == InSync \/ \E d \in Devices : Pulled(d)

Converges == <>[]SyncSettled

=============================================================================
