------------------------------ MODULE SdeUpdate ------------------------------
(***************************************************************************)
(* Keeping the static data export current: sde/commands.rs (sde_update,    *)
(* auto_refresh, needs_download) and sde/download.rs (download_sde), down  *)
(* to the files they share.                                                *)
(*                                                                         *)
(* sde_update is an asynchronous command, and auto_refresh calls it at     *)
(* startup: nothing keeps two of them from running at once, and both use   *)
(* the same two .part paths.  Creating a file that exists truncates it in  *)
(* place, so what one update has open another one may be writing.          *)
(*                                                                         *)
(* A dump is its number in the order of publication; its md5 is the same   *)
(* number.                                                                 *)
(***************************************************************************)
EXTENDS Naturals

CONSTANTS
    Updates,        \* calls of sde_update that may be running
    Files,          \* file identities (inodes)
    MaxDumps,       \* bound on the dumps published
    MaxFaults,      \* bound on failed steps and crashes
    Forced          \* may an update be forced?

UpdateAssumption ==
    /\ MaxDumps \in Nat \ {0}
    /\ MaxFaults \in Nat
    /\ Forced \in BOOLEAN

None == "none"

NoneIsNoFile == None \notin Files

VARIABLES
    published,  \* the newest dump on the server
    archive,    \* the file at sde.db.gz.part, or None
    partial,    \* the file at sde.sqlite.part, or None
    db,         \* the file at sde.sqlite, or None
    content,    \* content[f]: the dump in it, whether it is whole, who fills it
    sidecar,    \* the md5 recorded beside the database; 0: none
    stage,      \* where each update is
    remote,     \* the md5 it read first; 0: it could not
    fetched,    \* the dump it is downloading
    out,        \* the file it is writing
    source,     \* the archive it reads
    faults,     \* history: faults so far
    overlapped  \* history: have two downloads been under way at once?

paths == <<archive, partial, db>>
updates == <<stage, remote, fetched, out, source>>
uVars == <<published, paths, content, sidecar, updates, faults, overlapped>>

(* dump 0: the parts of several dumps                                      *)
Blank == [dump |-> 0, whole |-> FALSE, by |-> None]

UpdateInit ==
    /\ published = 1
    /\ archive = None /\ partial = None
    /\ \/ /\ db = None
          /\ content = [f \in Files |-> Blank]
          /\ sidecar = 0
       \/ /\ db \in Files
          /\ content = [f \in Files |-> IF f = db THEN [dump |-> 1, whole |-> TRUE, by |-> None] ELSE Blank]
          /\ sidecar = 1
    /\ stage = [u \in Updates |-> "idle"]
    /\ remote = [u \in Updates |-> 0]
    /\ fetched = [u \in Updates |-> 0]
    /\ out = [u \in Updates |-> None]
    /\ source = [u \in Updates |-> None]
    /\ faults = 0
    /\ overlapped = FALSE

StageTo(u, label) == stage' = [stage EXCEPT ![u] = label]
Stage(u, from, to) == stage[u] = from /\ StageTo(u, to)

(* The update returns, and what it knew goes with it.                      *)
Returned(u) == remote' = [remote EXCEPT ![u] = 0] /\ fetched' = [fetched EXCEPT ![u] = 0]

Publish ==
    /\ published < MaxDumps
    /\ published' = published + 1
    /\ UNCHANGED <<paths, content, sidecar, updates, faults, overlapped>>

-----------------------------------------------------------------------------
(* Files                                                                   *)

InUse == {archive, partial, db} \cup {out[u] : u \in Updates} \cup {source[u] : u \in Updates}

(* File::create at a path whose file is f: f itself, truncated, or a file  *)
(* of its own.                                                             *)
CreatedAt(f) == IF f # None THEN {f} ELSE Files \ InUse

Truncate(f, u, dump) == content' = [content EXCEPT ![f] = [dump |-> dump, whole |-> FALSE, by |-> u]]

(* u has written all of dump into f: whole if nobody truncated f since, and *)
(* a mixture if what somebody else put there is not the same dump.         *)
Fill(f, u, dump) ==
    content' = [content EXCEPT ![f] =
        [dump  |-> IF @.dump = dump THEN dump ELSE 0,
         whole |-> @.dump = dump /\ (@.by = u \/ @.whole),
         by    |-> @.by]]

-----------------------------------------------------------------------------
(* sde_update                                                              *)

ReadRemote(u) ==
    /\ Stage(u, "idle", "asked")
    /\ remote' = [remote EXCEPT ![u] = published]
    /\ UNCHANGED <<published, paths, content, sidecar, fetched, out, source, faults, overlapped>>

RemoteUnknown(u) ==
    /\ Stage(u, "idle", "asked")
    /\ faults < MaxFaults
    /\ faults' = faults + 1
    /\ remote' = [remote EXCEPT ![u] = 0]
    /\ UNCHANGED <<published, paths, content, sidecar, fetched, out, source, overlapped>>

NeedsDownload(u, force) ==
    \/ db = None
    \/ force
    \/ sidecar # 0 /\ remote[u] # 0 /\ sidecar # remote[u]

Downloads(u) == stage[u] \notin {"idle", "asked"}

(* auto_refresh leaves the first download to the user.                     *)
Decide(u, force) ==
    /\ stage[u] = "asked"
    /\ \/ NeedsDownload(u, force) /\ StageTo(u, "asking") /\ UNCHANGED <<remote, fetched>>
       \/ ~NeedsDownload(u, force) /\ StageTo(u, "idle") /\ Returned(u)
    /\ overlapped' = \/ overlapped
                     \/ NeedsDownload(u, force) /\ \E v \in Updates \ {u} : Downloads(v)
    /\ UNCHANGED <<published, paths, content, sidecar, out, source, faults>>

Get(u) ==
    /\ Stage(u, "asking", "answered")
    /\ fetched' = [fetched EXCEPT ![u] = published]
    /\ UNCHANGED <<published, paths, content, sidecar, remote, out, source, faults, overlapped>>

CreateArchive(u) ==
    /\ Stage(u, "answered", "streaming")
    /\ \E f \in CreatedAt(archive) :
        /\ archive' = f
        /\ out' = [out EXCEPT ![u] = f]
        /\ Truncate(f, u, fetched[u])
    /\ UNCHANGED <<published, partial, db, sidecar, remote, fetched, source, faults, overlapped>>

Downloaded(u) ==
    /\ Stage(u, "streaming", "archived")
    /\ Fill(out[u], u, fetched[u])
    /\ out' = [out EXCEPT ![u] = None]
    /\ UNCHANGED <<published, paths, sidecar, remote, fetched, source, faults, overlapped>>

(* decompress opens the archive and creates the database file.             *)
OpenArchive(u) ==
    /\ Stage(u, "archived", "decompressing")
    /\ archive # None
    /\ source' = [source EXCEPT ![u] = archive]
    /\ \E f \in CreatedAt(partial) :
        /\ partial' = f
        /\ out' = [out EXCEPT ![u] = f]
        /\ Truncate(f, u, content[archive].dump)
    /\ UNCHANGED <<published, archive, db, sidecar, remote, fetched, faults, overlapped>>

(* gzip's checksum only passes a whole archive.                            *)
Decompressed(u) ==
    /\ Stage(u, "decompressing", "decompressed")
    /\ content[source[u]].whole
    /\ Fill(out[u], u, content[source[u]].dump)
    /\ out' = [out EXCEPT ![u] = None]
    /\ source' = [source EXCEPT ![u] = None]
    /\ UNCHANGED <<published, paths, sidecar, remote, fetched, faults, overlapped>>

(* verify asks for the names of a few tables, which a file that is being   *)
(* written may already have.                                               *)
Verified(u) ==
    /\ Stage(u, "decompressed", "verified")
    /\ partial # None
    /\ UNCHANGED <<published, paths, content, sidecar, remote, fetched, out, source, faults, overlapped>>

(* Mutant: the database is renamed before its content is checked.          *)
SwapUnchecked(u) ==
    /\ \/ Stage(u, "verified", "swapped")
       \/ Stage(u, "decompressing", "swapped")
    /\ partial # None
    /\ db' = partial
    /\ partial' = None
    /\ UNCHANGED <<published, archive, content, sidecar, remote, fetched, out, source, faults, overlapped>>

SwapDatabase(u) ==
    /\ Stage(u, "verified", "swapped")
    /\ partial # None
    /\ db' = partial
    /\ partial' = None
    /\ UNCHANGED <<published, archive, content, sidecar, remote, fetched, out, source, faults, overlapped>>

RemoveArchive(u) ==
    /\ Stage(u, "swapped", "recording")
    /\ archive' = None
    /\ UNCHANGED <<published, partial, db, content, sidecar, remote, fetched, out, source, faults, overlapped>>

(* Mutant: the md5 is read again after the download.                       *)
RecordLatest(u) ==
    /\ Stage(u, "recording", "idle")
    /\ sidecar' = published
    /\ Returned(u)
    /\ UNCHANGED <<published, paths, content, out, source, faults, overlapped>>

Record(u) ==
    /\ Stage(u, "recording", "idle")
    /\ sidecar' = IF remote[u] # 0 THEN remote[u] ELSE sidecar
    /\ Returned(u)
    /\ UNCHANGED <<published, paths, content, out, source, faults, overlapped>>

(* The result of writing the md5 is ignored: the old one stays, or an      *)
(* empty file, which reads as none.                                        *)
RecordFails(u) ==
    /\ Stage(u, "recording", "idle")
    /\ faults < MaxFaults
    /\ faults' = faults + 1
    /\ sidecar' \in {sidecar, 0}
    /\ Returned(u)
    /\ UNCHANGED <<published, paths, content, out, source, overlapped>>

(* A file that should be there is not, or does not decompress.             *)
Impossible(u) ==
    \/ stage[u] = "archived" /\ archive = None
    \/ stage[u] = "decompressing" /\ ~content[source[u]].whole
    \/ stage[u] \in {"decompressed", "verified"} /\ partial = None

(* Any other step of the download may fail; what it left stays.            *)
Fails(u) ==
    /\ Downloads(u) /\ stage[u] \notin {"swapped", "recording"}
    /\ StageTo(u, "idle") /\ Returned(u)
    /\ \/ Impossible(u) /\ faults' = faults
       \/ faults < MaxFaults /\ faults' = faults + 1
    /\ out' = [out EXCEPT ![u] = None]
    /\ source' = [source EXCEPT ![u] = None]
    /\ UNCHANGED <<published, paths, content, sidecar, overlapped>>

Restart ==
    /\ faults < MaxFaults
    /\ faults' = faults + 1
    /\ stage' = [u \in Updates |-> "idle"]
    /\ remote' = [u \in Updates |-> 0]
    /\ fetched' = [u \in Updates |-> 0]
    /\ out' = [u \in Updates |-> None]
    /\ source' = [u \in Updates |-> None]
    /\ UNCHANGED <<published, paths, content, sidecar, overlapped>>

Update(u) ==
    \/ ReadRemote(u) \/ RemoteUnknown(u)
    \/ Decide(u, FALSE) \/ (Forced /\ Decide(u, TRUE))
    \/ Get(u) \/ CreateArchive(u) \/ Downloaded(u) \/ OpenArchive(u) \/ Decompressed(u)
    \/ Verified(u) \/ SwapDatabase(u) \/ RemoveArchive(u) \/ Record(u) \/ RecordFails(u)
    \/ Fails(u)

UpdateNext == Publish \/ Restart \/ \E u \in Updates : Update(u)

UpdateSpec == UpdateInit /\ [][UpdateNext]_uVars

(* The application is used: an update is tried again and again, and what   *)
(* is begun goes on.                                                       *)
FairSpec == UpdateSpec /\ \A u \in Updates : WF_uVars(Update(u))

-----------------------------------------------------------------------------
(* Properties                                                              *)

(* "an interrupted update never corrupts a working database" (sde/mod.rs): *)
(* what lies at sde.sqlite is one dump, all of it.                         *)
DatabaseWhole == db # None => content[db].whole

(* The recorded md5 is never that of a newer dump than the database holds, *)
(* or "future checks would then think the older local database were        *)
(* current" (sde_update).                                                  *)
SidecarNotAhead == db # None => sidecar <= content[db].dump

(* Both, whatever fails or restarts in between (download_sde, sde_update), *)
(* for as long as no two downloads have been under way at once: then they  *)
(* write into each other's files, and neither is sure any more.            *)
DatabaseSound == ~overlapped => DatabaseWhole /\ SidecarNotAhead

(* "this keeps static data current without the user clicking Update"       *)
(* (auto_refresh): as long as nothing fails and no downloads overlap, a    *)
(* database that is behind does not stay behind.                           *)
Published(k) == db # None /\ published = k
Installed(k) == (db # None /\ content[db].dump >= k) \/ faults > 0 \/ overlapped
StaysCurrent == \A k \in 1..MaxDumps : Published(k) ~> Installed(k)

=============================================================================
