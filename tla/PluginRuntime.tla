---------------------------- MODULE PluginRuntime ----------------------------
(***************************************************************************)
(* One plugin in the registry (plugins/mod.rs: PluginRegistry) and in the  *)
(* cache of warm instances (plugins/manager.rs: PluginManager), with the   *)
(* threads that invoke it and the commands that install, remove, activate  *)
(* and deactivate it.  Plugins share nothing but the two mutexes, which no *)
(* step below holds across another step.                                   *)
(*                                                                         *)
(* plugins_set_active, plugins_rescan and plugins_remove are synchronous   *)
(* commands: one at a time, on the main thread.  plugins_install and the   *)
(* invocations run on threads of their own.                                *)
(***************************************************************************)
EXTENDS Naturals

CONSTANTS
    Callers,        \* threads that may invoke the plugin
    Commands,       \* which of activate, deactivate, install, remove, rescan,
                    \* drop (the user changes the folder by hand), restart
    MaxCommands,    \* bound on commands
    MaxInstances    \* bound on instances built

ASSUME PluginAssumption ==
    /\ Commands \subseteq {"activate", "deactivate", "install", "remove", "rescan", "drop", "restart"}
    /\ MaxCommands \in Nat
    /\ MaxInstances \in Nat

VARIABLES
    manifest,   \* the version in the registry; 0: not installed
    active,     \* is it in the active set?
    saved,      \* the active set as persisted
    folder,     \* the version in plugins/<id>; 0: no folder
    loaded,     \* the instance in the manager's map
    pc,         \* where each caller is
    granted,    \* the manifest a caller read
    began,      \* the evictions done when it began
    hold,       \* the instance it holds
    main,       \* the command on the main thread
    scanned,    \* the version a rescan found in the folder
    install,    \* where an install is
    built,      \* history: number of instances built
    failed,     \* history: instances a call failed on
    evictions,  \* history: evictions by commands
    versions,   \* history: number of versions so far
    byHand,     \* history: has the user changed the folder since the last
                \* install or restart?
    overtaken,  \* history: did the last install replace the folder between a
                \* rescan's look at it and the rescan's end?
    commands    \* history: number of commands so far

registry == <<manifest, active, saved>>
callers == <<pc, granted, began, hold, built, failed>>
numbering == <<versions, byHand, overtaken>>
control == <<main, scanned, install, evictions, numbering, commands>>
vars == <<registry, folder, loaded, callers, control>>

NoInstance == [no |-> 0, wasm |-> 0, grants |-> 0, since |-> 0]

Init ==
    /\ manifest = 1 /\ folder = 1 /\ versions = 1
    /\ active = TRUE /\ saved = TRUE
    /\ loaded = NoInstance
    /\ pc = [c \in Callers |-> "idle"]
    /\ granted = [c \in Callers |-> 0]
    /\ began = [c \in Callers |-> 0]
    /\ hold = [c \in Callers |-> NoInstance]
    /\ main = "idle" /\ scanned = 0 /\ install = "idle"
    /\ byHand = FALSE /\ overtaken = FALSE
    /\ built = 0 /\ failed = {} /\ evictions = 0 /\ commands = 0

-----------------------------------------------------------------------------
(* run_plugin and PluginManager::invoke                                    *)

Goto(c, label) == pc' = [pc EXCEPT ![c] = label]

(* What was read to build an instance is dropped once there is one.        *)
Settled(c) == granted' = [granted EXCEPT ![c] = 0] /\ began' = [began EXCEPT ![c] = 0]

(* The invocation returns, with its answer or an error.                    *)
Ends(c) ==
    /\ Goto(c, "idle")
    /\ Settled(c)
    /\ hold' = [hold EXCEPT ![c] = NoInstance]

ReadManifest(c) ==
    /\ pc[c] = "idle"
    /\ manifest # 0
    /\ granted' = [granted EXCEPT ![c] = manifest]
    /\ began' = [began EXCEPT ![c] = evictions]
    /\ Goto(c, "known")
    /\ UNCHANGED <<registry, folder, loaded, hold, built, failed, control>>

CheckActive(c) ==
    /\ pc[c] = "known"
    /\ \/ active /\ Goto(c, "allowed") /\ UNCHANGED <<granted, began, hold>>
       \/ ~active /\ Ends(c)
    /\ UNCHANGED <<registry, folder, loaded, built, failed, control>>

(* load_or_build_plugin: a warm instance, or the file to build one from.   *)
Lookup(c) ==
    /\ pc[c] = "allowed"
    /\ \/ folder = 0 /\ Ends(c)
       \/ /\ folder # 0
          /\ hold' = [hold EXCEPT ![c] = loaded]
          /\ \/ loaded # NoInstance /\ Goto(c, "queued") /\ Settled(c)
             \/ loaded = NoInstance /\ Goto(c, "cold") /\ UNCHANGED <<granted, began>>
    /\ UNCHANGED <<registry, folder, loaded, built, failed, control>>

Build(c) ==
    /\ pc[c] = "cold"
    /\ folder # 0
    /\ built < MaxInstances
    /\ built' = built + 1
    /\ hold' = [hold EXCEPT ![c] =
           [no |-> built + 1, wasm |-> folder, grants |-> granted[c], since |-> began[c]]]
    /\ Settled(c)
    /\ Goto(c, "built")
    /\ UNCHANGED <<registry, folder, loaded, failed, control>>

(* The file cannot be read, or does not compile.                           *)
BuildFails(c) ==
    /\ pc[c] = "cold"
    /\ Ends(c)
    /\ UNCHANGED <<registry, folder, loaded, built, failed, control>>

(* or_insert: the first instance stays, the loser's is dropped.            *)
Insert(c) ==
    /\ pc[c] = "built"
    /\ loaded' = IF loaded = NoInstance THEN hold[c] ELSE loaded
    /\ hold' = [hold EXCEPT ![c] = loaded']
    /\ Goto(c, "queued")
    /\ UNCHANGED <<registry, folder, granted, began, built, failed, control>>

(* Whoever fails evicts with the per-plugin mutex still held.              *)
LockFree(c) ==
    \A d \in Callers : pc[d] \in {"calling", "evicting"} => hold[d].no # hold[c].no

StartCall(c) ==
    /\ pc[c] = "queued"
    /\ LockFree(c)
    /\ Goto(c, "calling")
    /\ UNCHANGED <<registry, folder, loaded, granted, began, hold, built, failed, control>>

CallOk(c) ==
    /\ pc[c] = "calling"
    /\ Ends(c)
    /\ UNCHANGED <<registry, folder, loaded, built, failed, control>>

CallFails(c) ==
    /\ pc[c] = "calling"
    /\ failed' = failed \cup {hold[c].no}
    /\ Goto(c, "evicting")
    /\ UNCHANGED <<registry, folder, loaded, granted, began, hold, built, control>>

(* Mutant: whatever the map holds is evicted.                              *)
EvictAny(c) ==
    /\ pc[c] = "evicting"
    /\ loaded' = NoInstance
    /\ Ends(c)
    /\ UNCHANGED <<registry, folder, built, failed, control>>

(* Mutant: nothing is done when the map holds another instance.            *)
EvictOnlyOwn(c) ==
    /\ pc[c] = "evicting"
    /\ loaded.no = hold[c].no
    /\ loaded' = NoInstance
    /\ Ends(c)
    /\ UNCHANGED <<registry, folder, built, failed, control>>

(* Only if the map still holds this instance.                              *)
EvictOwn(c) ==
    /\ pc[c] = "evicting"
    /\ loaded' = IF loaded.no = hold[c].no THEN NoInstance ELSE loaded
    /\ Ends(c)
    /\ UNCHANGED <<registry, folder, built, failed, control>>

Invoke(c) ==
    \/ ReadManifest(c) \/ CheckActive(c) \/ Lookup(c) \/ Build(c) \/ BuildFails(c)
    \/ Insert(c) \/ StartCall(c) \/ CallOk(c) \/ CallFails(c) \/ EvictOwn(c)

-----------------------------------------------------------------------------
(* The commands of the main thread                                         *)

Begin(command) ==
    /\ command \in Commands
    /\ main = "idle"
    /\ commands < MaxCommands
    /\ commands' = commands + 1

(* evict                                                                   *)
Evict == loaded' = NoInstance /\ evictions' = evictions + 1

(* persist_active fails before it touched the file, or in the middle: what *)
(* cannot be parsed is an empty set.  Memory has changed by then.          *)
PersistFails == saved' \in {saved, FALSE}
Persist(set) == saved' = set \/ PersistFails

Activate ==
    /\ Begin("activate")
    /\ manifest # 0
    /\ active' = TRUE
    /\ Persist(TRUE)
    /\ UNCHANGED <<manifest, folder, loaded, callers, main, scanned, install, evictions, numbering>>

(* A failed persist returns before the eviction.                           *)
Deactivate ==
    /\ Begin("deactivate")
    /\ manifest # 0
    /\ active' = FALSE
    /\ \/ saved' = FALSE /\ main' = "evict"
       \/ PersistFails /\ main' = "idle"
    /\ UNCHANGED <<manifest, folder, loaded, callers, scanned, install, evictions, numbering>>

(* rescan looks at the folder before it takes the registry's locks.        *)
Discover ==
    /\ Begin("rescan")
    /\ scanned' = folder
    /\ main' = "rescan"
    /\ UNCHANGED <<registry, folder, loaded, callers, install, evictions, numbering>>

(* What was active and vanished is evicted; a replaced plugin is not.      *)
Rescan ==
    /\ main = "rescan"
    /\ manifest' = scanned
    /\ active' = (active /\ scanned # 0)
    /\ Persist(active')
    /\ main' = IF active /\ scanned = 0 THEN "evict" ELSE "idle"
    /\ scanned' = 0
    /\ UNCHANGED <<folder, loaded, callers, install, evictions, numbering, commands>>

(* plugins_remove evicts first.                                            *)
Remove ==
    /\ Begin("remove")
    /\ Evict
    /\ main' = "forget"
    /\ UNCHANGED <<registry, folder, callers, scanned, install, numbering>>

(* PluginRegistry::remove: the registry, the active set, the folder.       *)
Forget ==
    /\ main = "forget"
    /\ manifest' = 0
    /\ main' = IF manifest = 0 THEN "idle" ELSE "disuse"
    /\ UNCHANGED <<active, saved, folder, loaded, callers, scanned, install, evictions, numbering, commands>>

Disuse ==
    /\ main = "disuse"
    /\ active' = FALSE
    /\ \/ saved' = FALSE /\ main' = "delete"
       \/ PersistFails /\ main' = "idle"
    /\ UNCHANGED <<manifest, folder, loaded, callers, scanned, install, evictions, numbering, commands>>

Delete ==
    /\ main = "delete"
    /\ folder' \in {0, folder}
    /\ main' = "idle"
    /\ UNCHANGED <<registry, loaded, callers, scanned, install, evictions, numbering, commands>>

MainEvicts ==
    /\ main = "evict"
    /\ Evict
    /\ main' = "idle"
    /\ UNCHANGED <<registry, folder, callers, scanned, install, numbering, commands>>

Main ==
    \/ Activate \/ Deactivate \/ Discover \/ Rescan
    \/ Remove \/ Forget \/ Disuse \/ Delete \/ MainEvicts

-----------------------------------------------------------------------------
(* plugins_install: install_dir, then evict                                *)

InstallStep(from, to) == install = from /\ install' = to

(* The copy in the staging directory is complete: the old folder goes.     *)
SwapOut ==
    /\ "install" \in Commands
    /\ commands < MaxCommands
    /\ commands' = commands + 1
    /\ versions' = versions + 1
    /\ InstallStep("idle", "swapping")
    /\ folder' = 0
    /\ UNCHANGED <<registry, loaded, callers, main, scanned, evictions, byHand, overtaken>>

SwapIn ==
    /\ InstallStep("swapping", "registering")
    /\ folder' = versions
    /\ byHand' = FALSE
    /\ overtaken' = (main = "rescan")
    /\ UNCHANGED <<registry, loaded, callers, main, scanned, evictions, versions, commands>>

(* rename fails: both the old folder and the staged one are gone.          *)
SwapFails ==
    /\ InstallStep("swapping", "idle")
    /\ UNCHANGED <<registry, folder, loaded, callers, main, scanned, evictions, numbering, commands>>

(* Mutant: the old instance is evicted only before the swap, not after.    *)
RegisterEndsInstall ==
    /\ InstallStep("registering", "idle")
    /\ manifest' = versions
    /\ overtaken' = (overtaken /\ main = "rescan")
    /\ UNCHANGED <<active, saved, folder, loaded, callers, main, scanned, evictions, versions, byHand, commands>>

Register ==
    /\ InstallStep("registering", "evicting")
    /\ manifest' = versions
    /\ overtaken' = (overtaken /\ main = "rescan")
    /\ UNCHANGED <<active, saved, folder, loaded, callers, main, scanned, evictions, versions, byHand, commands>>

InstallEvicts ==
    /\ InstallStep("evicting", "idle")
    /\ Evict
    /\ UNCHANGED <<registry, folder, callers, main, scanned, numbering, commands>>

Install == SwapOut \/ SwapIn \/ SwapFails \/ Register \/ InstallEvicts

(* The user drops a folder or deletes it.                                  *)
Drop ==
    /\ "drop" \in Commands
    /\ install = "idle"
    /\ commands < MaxCommands
    /\ commands' = commands + 1
    /\ versions' = versions + 1
    /\ byHand' = TRUE
    /\ folder' \in {0, versions + 1}
    /\ UNCHANGED <<registry, loaded, callers, main, scanned, install, evictions, overtaken>>

(* PluginRegistry::load drops active ids that are not installed.           *)
Restart ==
    /\ "restart" \in Commands
    /\ commands < MaxCommands
    /\ commands' = commands + 1
    /\ manifest' = folder
    /\ active' = (saved /\ folder # 0)
    /\ loaded' = NoInstance
    /\ pc' = [c \in Callers |-> "idle"]
    /\ granted' = [c \in Callers |-> 0]
    /\ began' = [c \in Callers |-> 0]
    /\ hold' = [c \in Callers |-> NoInstance]
    /\ main' = "idle" /\ scanned' = 0 /\ install' = "idle"
    /\ failed' = {} /\ byHand' = FALSE /\ overtaken' = FALSE
    /\ UNCHANGED <<saved, folder, built, evictions, versions>>

Next ==
    \/ \E c \in Callers : Invoke(c)
    \/ Main
    \/ Install
    \/ Drop
    \/ Restart

Spec == Init /\ [][Next]_vars

(* Every step but the choice of a command or an invocation is taken.       *)
FairSpec ==
    /\ Spec
    /\ \A c \in Callers :
        /\ SF_vars(StartCall(c))
        /\ WF_vars(CheckActive(c) \/ Lookup(c) \/ Build(c) \/ BuildFails(c) \/ Insert(c)
                   \/ CallOk(c) \/ CallFails(c) \/ EvictOwn(c))

-----------------------------------------------------------------------------
(* Properties                                                              *)

Instance == [no : Nat, wasm : Nat, grants : Nat, since : Nat]

TypeOK ==
    /\ manifest \in Nat /\ folder \in Nat
    /\ active \in BOOLEAN /\ saved \in BOOLEAN
    /\ loaded \in Instance
    /\ pc \in [Callers -> {"idle", "known", "allowed", "cold", "built", "queued", "calling", "evicting"}]
    /\ granted \in [Callers -> Nat] /\ began \in [Callers -> Nat]
    /\ hold \in [Callers -> Instance]
    /\ main \in {"idle", "evict", "rescan", "forget", "disuse", "delete"}
    /\ scanned \in Nat
    /\ install \in {"idle", "swapping", "registering", "evicting"}
    /\ built \in Nat /\ failed \subseteq Nat /\ evictions \in Nat
    /\ versions \in Nat /\ byHand \in BOOLEAN /\ overtaken \in BOOLEAN /\ commands \in Nat

(* "An Extism Plugin is a single instance and must not run two calls at    *)
(* once" (manager.rs).                                                     *)
OneCallPerInstance ==
    \A c, d \in Callers :
        pc[c] = "calling" /\ pc[d] = "calling" /\ hold[c].no = hold[d].no => c = d

(* The active set never holds a plugin the registry does not know, however *)
(* commands, an install and the user's own hand in the folder interleave,  *)
(* but for the moment a removal needs from the one to the other.           *)
ActiveIsInstalled == active /\ main # "disuse" => manifest # 0

(* "A concurrent evict + rebuild must not have its fresh instance thrown   *)
(* away by our stale failure" (manager.rs): an instance no call failed on  *)
(* leaves the map only by a command.                                       *)
FreshInstanceKept ==
    [][loaded # NoInstance /\ loaded' = NoInstance =>
          loaded.no \in failed \/ evictions' # evictions \/ commands' # commands]_vars

(* An instance built by an invocation that began after the last eviction   *)
(* runs the wasm and the grants of what is installed: an install swaps,    *)
(* registers and evicts in an order that leaves no older one behind.  Not  *)
(* so after the user replaced the folder by hand, nor after an install     *)
(* overtook a rescan: what the rescan read before is put back.             *)
BuiltSinceIsCurrent ==
    /\ main = "idle" /\ install = "idle" /\ ~byHand /\ ~overtaken
    /\ manifest # 0 /\ folder # 0
    /\ loaded # NoInstance /\ loaded.since = evictions
    => loaded.wasm = folder /\ loaded.grants = manifest

(* Every invocation returns.                                               *)
InvocationsReturn == \A c \in Callers : pc[c] # "idle" ~> pc[c] = "idle"

=============================================================================
