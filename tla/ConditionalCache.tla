--------------------------- MODULE ConditionalCache ---------------------------
(***************************************************************************)
(* The conditional HTTP cache: net/conditional_cache.rs (load, store,      *)
(* touch, prune, get_json) and the paged get of esi/cache.rs, for one key. *)
(* A single document is a collection of one page.                          *)
(*                                                                         *)
(* A page's content is its version, and its ETag the same number.  Callers *)
(* interleave at each await: the read and the write of the file, and every *)
(* request.  Creating the file truncates it.                               *)
(***************************************************************************)
EXTENDS Naturals

CONSTANTS
    Callers,     \* tasks that ask for the key
    Pages,       \* number of pages
    NoEntry,     \* no entry, or a file that does not parse
    Ttl,         \* seconds an answer is fresh for
    StaleKept,   \* STALE_RETENTION_SECS
    MaxNow,      \* bound on time
    MaxChanges,  \* bound on the changes of a page
    MaxMishaps   \* bound on failed writes and restarts

CacheAssumption ==
    /\ Pages \in Nat \ {0} /\ MaxChanges \in Nat \ {0}
    /\ Ttl \in Nat /\ StaleKept \in Nat /\ MaxNow \in Nat /\ MaxMishaps \in Nat

PageNumbers == 1..Pages

Entry == [body : [PageNumbers -> Nat], expires : Nat]

NoneIsNoEntry == NoEntry \notin Entry

VARIABLES
    time,       \* seconds
    page,       \* the server's version of each page
    mem,        \* the entry in memory
    disk,       \* the entry on disk
    where,      \* where each caller is
    entry,      \* the entry it loaded
    out,        \* the entry it stores
    walked,     \* the pages it has fetched
    reply,      \* what it answers
    offered,    \* history: the server's pages when it asked
    granted,    \* history: until when the server's answers make a body fresh
    disturbed,  \* history: have two calls been under way at once, or did a write fail?
    mishaps     \* history: faults so far

callers == <<where, entry, out, walked, reply, offered>>
history == <<disturbed, mishaps>>
condVars == <<time, page, mem, disk, callers, granted, history>>

ETag(e) == e.body[1]

Nothing == [p \in PageNumbers |-> 0]

CondInit ==
    /\ time = StaleKept
    /\ page = [p \in PageNumbers |-> 1]
    /\ mem = NoEntry /\ disk = NoEntry
    /\ where = [c \in Callers |-> "idle"]
    /\ entry = [c \in Callers |-> NoEntry]
    /\ out = [c \in Callers |-> NoEntry]
    /\ walked = [c \in Callers |-> 0]
    /\ reply = [c \in Callers |-> Nothing]
    /\ offered = [c \in Callers |-> Nothing]
    /\ granted = [v \in 1..MaxChanges |-> 0]
    /\ disturbed = FALSE
    /\ mishaps = 0

Goto(c, label) == where' = [where EXCEPT ![c] = label]
Passes(c, from, to) == where[c] = from /\ Goto(c, to)

(* A call returns, with its answer or an error.                             *)
Ends(c) ==
    /\ Goto(c, "idle")
    /\ entry' = [entry EXCEPT ![c] = NoEntry]
    /\ out' = [out EXCEPT ![c] = NoEntry]
    /\ walked' = [walked EXCEPT ![c] = 0]
    /\ reply' = [reply EXCEPT ![c] = Nothing]
    /\ offered' = [offered EXCEPT ![c] = Nothing]

SecondPasses ==
    /\ time < MaxNow
    /\ time' = time + 1
    /\ UNCHANGED <<page, mem, disk, callers, granted, history>>

Publish ==
    /\ \E p \in PageNumbers : page[p] < MaxChanges /\ page' = [page EXCEPT ![p] = @ + 1]
    /\ UNCHANGED <<time, mem, disk, callers, granted, history>>

Abandoned(e) == e.expires < time - StaleKept

(* Another key's store sweeps the memory.                                  *)
Sweep ==
    /\ mem # NoEntry /\ Abandoned(mem)
    /\ mem' = NoEntry
    /\ UNCHANGED <<time, page, disk, callers, granted, history>>

-----------------------------------------------------------------------------
(* load                                                                    *)

Begin(c) == disturbed' = (disturbed \/ \E d \in Callers \ {c} : where[d] # "idle")

LoadHit(c) ==
    /\ Passes(c, "idle", "loaded")
    /\ mem # NoEntry
    /\ entry' = [entry EXCEPT ![c] = mem]
    /\ Begin(c)
    /\ UNCHANGED <<time, page, mem, disk, out, walked, reply, offered, granted, mishaps>>

ReadFile(c) ==
    /\ where[c] = "idle" /\ mem = NoEntry
    /\ Goto(c, IF disk = NoEntry THEN "loaded" ELSE "read")
    /\ entry' = [entry EXCEPT ![c] = disk]
    /\ Begin(c)
    /\ UNCHANGED <<time, page, mem, disk, out, walked, reply, offered, granted, mishaps>>

(* Mutant: an entry read back from disk is taken to be fresh.              *)
InsertReadFresh(c) ==
    /\ Passes(c, "read", "loaded")
    /\ mem' = [entry[c] EXCEPT !.expires = time + Ttl]
    /\ UNCHANGED <<time, page, disk, entry, out, walked, reply, offered, granted, history>>

InsertRead(c) ==
    /\ Passes(c, "read", "loaded")
    /\ mem' = entry[c]
    /\ UNCHANGED <<time, page, disk, entry, out, walked, reply, offered, granted, history>>

-----------------------------------------------------------------------------
(* get_json and get_paged                                                  *)

Fresh(e) == e # NoEntry /\ e.expires > time

ServeFresh(c) ==
    /\ Passes(c, "loaded", "served")
    /\ Fresh(entry[c])
    /\ reply' = [reply EXCEPT ![c] = entry[c].body]
    /\ UNCHANGED <<time, page, mem, disk, entry, out, walked, offered, granted, history>>

Ask(c) ==
    /\ Passes(c, "loaded", "asked")
    /\ ~Fresh(entry[c])
    /\ offered' = [offered EXCEPT ![c] = page]
    /\ UNCHANGED <<time, page, mem, disk, entry, out, walked, reply, granted, history>>

(* 304: the tag sent is page one's.                                        *)
NotModified(c) ==
    /\ entry[c] # NoEntry /\ ETag(entry[c]) = page[1]
    /\ Passes(c, "asked", "unmodified")
    /\ reply' = [reply EXCEPT ![c] = entry[c].body]
    /\ UNCHANGED <<time, page, mem, disk, entry, out, walked, offered, granted, history>>

(* 200: the page as it is now; the others follow, one request each.        *)
FetchPage(c) ==
    /\ \/ where[c] = "asked" /\ walked' = [walked EXCEPT ![c] = 1]
       \/ where[c] = "walking" /\ walked' = [walked EXCEPT ![c] = @ + 1]
    /\ Goto(c, IF walked'[c] = Pages THEN "fetched" ELSE "walking")
    /\ reply' = [reply EXCEPT ![c][walked'[c]] = page[walked'[c]]]
    /\ UNCHANGED <<time, page, mem, disk, entry, out, offered, granted, history>>

(* Mutant: after a failure the stale entry is the answer.                  *)
RequestFailsStale(c) ==
    /\ where[c] \in {"asked", "walking", "fetched"}
    /\ Goto(c, IF entry[c] = NoEntry THEN "idle" ELSE "answered")
    /\ reply' = [reply EXCEPT ![c] = IF entry[c] = NoEntry THEN @ ELSE entry[c].body]
    /\ UNCHANGED <<time, page, mem, disk, entry, out, walked, offered, granted, history>>

(* A request fails, or what it answers does not decode.                    *)
RequestFails(c) ==
    /\ where[c] \in {"asked", "walking", "fetched"}
    /\ Ends(c)
    /\ UNCHANGED <<time, page, mem, disk, granted, history>>

Grant(v) == granted' = [granted EXCEPT ![v] = time + Ttl]

Keep(c) ==
    /\ Passes(c, "fetched", "storing")
    /\ out' = [out EXCEPT ![c] = [body |-> reply[c], expires |-> time + Ttl]]
    /\ Grant(reply[c][1])
    /\ UNCHANGED <<time, page, mem, disk, entry, walked, reply, offered, history>>

-----------------------------------------------------------------------------
(* touch                                                                   *)

Touch(c) ==
    /\ Passes(c, "unmodified", "storing")
    /\ mem # NoEntry
    /\ out' = [out EXCEPT ![c] = [mem EXCEPT !.expires = time + Ttl]]
    /\ Grant(ETag(entry[c]))
    /\ UNCHANGED <<time, page, mem, disk, entry, walked, reply, offered, history>>

(* touch does nothing to an entry that has vanished.                       *)
TouchReads(c) ==
    /\ where[c] = "unmodified" /\ mem = NoEntry
    /\ Goto(c, IF disk = NoEntry THEN "answered" ELSE "reread")
    /\ out' = [out EXCEPT ![c] = disk]
    /\ UNCHANGED <<time, page, mem, disk, entry, walked, reply, offered, granted, history>>

TouchRead(c) ==
    /\ Passes(c, "reread", "storing")
    /\ mem' = out[c]
    /\ out' = [out EXCEPT ![c].expires = time + Ttl]
    /\ Grant(ETag(entry[c]))
    /\ UNCHANGED <<time, page, disk, entry, walked, reply, offered, history>>

-----------------------------------------------------------------------------
(* store                                                                   *)

(* Mutant: what is stored only goes to memory.                             *)
CreateFileSkipped(c) ==
    /\ Passes(c, "storing", "written")
    /\ UNCHANGED <<time, page, mem, disk, entry, out, walked, reply, offered, granted, history>>

CreateFile(c) ==
    /\ Passes(c, "storing", "writing")
    /\ disk' = NoEntry
    /\ UNCHANGED <<time, page, mem, entry, out, walked, reply, offered, granted, history>>

(* Over another's write, a shorter one leaves the other's end.             *)
Overlaps(c) == disk # NoEntry \/ \E d \in Callers \ {c} : where[d] = "writing"

WriteFile(c) ==
    /\ Passes(c, "writing", "written")
    /\ disk' \in {out[c]} \cup (IF Overlaps(c) THEN {NoEntry} ELSE {})
    /\ UNCHANGED <<time, page, mem, entry, out, walked, reply, offered, granted, history>>

(* The result of the write is ignored.                                     *)
WriteFails(c) ==
    /\ mishaps < MaxMishaps
    /\ mishaps' = mishaps + 1
    /\ \/ Passes(c, "storing", "written")
       \/ Passes(c, "writing", "written")
    /\ disturbed' = TRUE
    /\ UNCHANGED <<time, page, mem, disk, entry, out, walked, reply, offered, granted>>

InsertStored(c) ==
    /\ Passes(c, "written", "answered")
    /\ mem' = IF Abandoned(out[c]) THEN NoEntry ELSE out[c]
    /\ UNCHANGED <<time, page, disk, entry, out, walked, reply, offered, granted, history>>

Respond(c) ==
    /\ where[c] \in {"served", "answered"}
    /\ Ends(c)
    /\ UNCHANGED <<time, page, mem, disk, granted, history>>

(* The application ends and starts again; prune_disk_startup.              *)
Restart ==
    /\ mishaps < MaxMishaps
    /\ mishaps' = mishaps + 1
    /\ where' = [c \in Callers |-> "idle"]
    /\ entry' = [c \in Callers |-> NoEntry]
    /\ out' = [c \in Callers |-> NoEntry]
    /\ walked' = [c \in Callers |-> 0]
    /\ reply' = [c \in Callers |-> Nothing]
    /\ offered' = [c \in Callers |-> Nothing]
    /\ mem' = NoEntry
    /\ disk' = IF disk # NoEntry /\ Abandoned(disk) THEN NoEntry ELSE disk
    /\ UNCHANGED <<time, page, granted, disturbed>>

Caller(c) ==
    \/ LoadHit(c) \/ ReadFile(c) \/ InsertRead(c)
    \/ ServeFresh(c) \/ Ask(c) \/ NotModified(c) \/ FetchPage(c) \/ RequestFails(c) \/ Keep(c)
    \/ Touch(c) \/ TouchReads(c) \/ TouchRead(c)
    \/ CreateFile(c) \/ WriteFile(c) \/ WriteFails(c) \/ InsertStored(c)
    \/ Respond(c)

CondNext == SecondPasses \/ Publish \/ Sweep \/ Restart \/ \E c \in Callers : Caller(c)

CondSpec == CondInit /\ [][CondNext]_condVars

-----------------------------------------------------------------------------
(* Properties                                                              *)

(* Whoever had to ask the server gets nothing older than when it asked:    *)
(* every page of a walk, the page whose tag was sent after a 304.          *)
AnsweredIsCurrent ==
    \A c \in Callers :
        /\ where[c] = "fetched" => \A p \in PageNumbers : offered[c][p] <= reply[c][p]
        /\ where[c] \in {"unmodified", "answered"} => offered[c][1] <= reply[c][1]

(* "when nothing changed, and we just push the freshness deadline forward  *)
(* and reuse the stored body" (conditional_cache.rs): as long as calls for *)
(* the key came one after the other and every write succeeded, an entry is *)
(* fresh only as long as the server's answers made that body fresh.        *)
FreshIsGranted ==
    ~disturbed =>
        /\ mem # NoEntry => mem.expires <= granted[ETag(mem)]
        /\ disk # NoEntry => disk.expires <= granted[ETag(disk)]

(* "with an in-memory layer in front to avoid re-reading disk": as long as *)
(* calls came one after the other and every write succeeded, what is in    *)
(* memory is what is on disk whenever nobody is storing, restarts included. *)
MemoryIsDisk ==
    /\ ~disturbed /\ mem # NoEntry
    /\ \A c \in Callers : where[c] \notin {"storing", "writing", "written"}
    => mem = disk

(* The cache answers nothing older than the question and extends no        *)
(* deadline on its own (get_json, get_paged, touch, store, load).          *)
ConditionalHonest == AnsweredIsCurrent /\ FreshIsGranted /\ MemoryIsDisk

=============================================================================
