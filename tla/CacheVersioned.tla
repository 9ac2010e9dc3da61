---------------------------- MODULE CacheVersioned ----------------------------
(***************************************************************************)
(* An on-disk cache entry computed from the static data: cache_get_        *)
(* versioned and cache_put_versioned of storage/mod.rs, with the two ways  *)
(* their callers use them.  Routes and maps read the generation first and  *)
(* open the database on a miss; fitting's target profiles and archetypes   *)
(* have the database open when they read the generation.                   *)
(*                                                                         *)
(* A connection is of the version installed when it is opened, which       *)
(* SdeReaders shows of the pool.  Generations are version numbers.         *)
(***************************************************************************)
EXTENDS Naturals

CONSTANTS
    Users,      \* commands that run
    Ways,       \* the ways in which they use the cache
    MaxUpdates  \* bound on the swaps

VARIABLES
    dbVersion,  \* the version of the database
    stored,     \* the generation on the entry and its value's version
    place,      \* where each caller is
    order,      \* in which way it goes
    askedAt,    \* history: the version installed when it began
    stamp,      \* the generation it read
    link,       \* the version its connection reads; 0: it has none
    result      \* the version of what it answers

users == <<place, order, askedAt, stamp, link, result>>
verVars == <<dbVersion, stored, users>>

(* Absent, cut off by a crash or another writer, or expired.               *)
Unreadable == [gen |-> 0, value |-> 0]

VerInit ==
    /\ dbVersion = 1
    /\ stored = Unreadable
    /\ place = [c \in Users |-> "idle"]
    /\ order \in [Users -> Ways]
    /\ askedAt = [c \in Users |-> 0]
    /\ stamp = [c \in Users |-> 0]
    /\ link = [c \in Users |-> 0]
    /\ result = [c \in Users |-> 0]

Advances(c, from, to) == place[c] = from /\ place' = [place EXCEPT ![c] = to]

Update ==
    /\ dbVersion < MaxUpdates
    /\ dbVersion' = dbVersion + 1
    /\ UNCHANGED <<stored, users>>

(* The TTL passes, or the start-up prunes it.                              *)
Expire ==
    /\ stored # Unreadable
    /\ stored' = Unreadable
    /\ UNCHANGED <<dbVersion, users>>

ConnectionFirst(c) == order[c] = "connection first"

StartUse(c) ==
    /\ \E o \in Ways : order' = [order EXCEPT ![c] = o]
    /\ Advances(c, "idle", IF ConnectionFirst(c)' THEN "opening" ELSE "keying")
    /\ askedAt' = [askedAt EXCEPT ![c] = dbVersion]
    /\ UNCHANGED <<dbVersion, stored, stamp, link, result>>

OpenDatabase(c) ==
    /\ Advances(c, "opening", IF ConnectionFirst(c) THEN "keying" ELSE "building")
    /\ link' = [link EXCEPT ![c] = dbVersion]
    /\ UNCHANGED <<dbVersion, stored, order, askedAt, stamp, result>>

ReadStamp(c) ==
    /\ Advances(c, "keying", "looking")
    /\ stamp' = [stamp EXCEPT ![c] = dbVersion]
    /\ UNCHANGED <<dbVersion, stored, order, askedAt, link, result>>

(* Mutant: any entry that has not expired is served, as cache_get does.    *)
HitAnyEntry(c) ==
    /\ stored # Unreadable
    /\ Advances(c, "looking", "answered")
    /\ result' = [result EXCEPT ![c] = stored.value]
    /\ UNCHANGED <<dbVersion, stored, order, askedAt, stamp, link>>

HitEntry(c) ==
    /\ stored # Unreadable /\ stored.gen = stamp[c]
    /\ Advances(c, "looking", "answered")
    /\ result' = [result EXCEPT ![c] = stored.value]
    /\ UNCHANGED <<dbVersion, stored, order, askedAt, stamp, link>>

MissEntry(c) ==
    /\ stored = Unreadable \/ stored.gen # stamp[c]
    /\ Advances(c, "looking", IF ConnectionFirst(c) THEN "building" ELSE "opening")
    /\ UNCHANGED <<dbVersion, stored, order, askedAt, stamp, link, result>>

Build(c) ==
    /\ Advances(c, "building", "creating")
    /\ result' = [result EXCEPT ![c] = link[c]]
    /\ UNCHANGED <<dbVersion, stored, order, askedAt, stamp, link>>

Create(c) ==
    /\ Advances(c, "creating", "writing")
    /\ stored' = Unreadable
    /\ UNCHANGED <<dbVersion, order, askedAt, stamp, link, result>>

(* Mutant: the entry is tagged with the generation there is now.           *)
WriteNow(c) ==
    /\ Advances(c, "writing", "answered")
    /\ stored' \in {Unreadable, [gen |-> dbVersion, value |-> result[c]]}
    /\ UNCHANGED <<dbVersion, order, askedAt, stamp, link, result>>

(* The write's failure is ignored, and another's writes may mix with it.   *)
Write(c) ==
    /\ Advances(c, "writing", "answered")
    /\ stored' \in {Unreadable, [gen |-> stamp[c], value |-> result[c]]}
    /\ UNCHANGED <<dbVersion, order, askedAt, stamp, link, result>>

Replied(c) ==
    /\ Advances(c, "answered", "idle")
    /\ link' = [link EXCEPT ![c] = 0]
    /\ UNCHANGED <<dbVersion, stored, order, askedAt, stamp, result>>

(* The application ends, the file stays.                                   *)
ProgramEnds ==
    /\ place' = [c \in Users |-> "idle"]
    /\ link' = [c \in Users |-> 0]
    /\ UNCHANGED <<dbVersion, stored, order, askedAt, stamp, result>>

UserStep(c) ==
    \/ StartUse(c) \/ OpenDatabase(c) \/ ReadStamp(c) \/ HitEntry(c) \/ MissEntry(c) \/ Build(c) \/ Create(c) \/ Write(c)
    \/ Replied(c)

VerNext == Update \/ Expire \/ ProgramEnds \/ \E c \in Users : UserStep(c)

VerSpec == VerInit /\ [][VerNext]_verVars

-----------------------------------------------------------------------------
(* Properties                                                              *)

(* What callers are promised (FreshReads), as functions of this state.     *)
Stage == [c \in Users |-> IF place[c] \in {"idle", "answered"} THEN place[c] ELSE "asked"]
Since == [c \in Users |-> IF place[c] = "idle" THEN 0 ELSE askedAt[c]]
Answered == [c \in Users |-> IF place[c] = "answered" THEN result[c] ELSE 0]

VersionPromise ==
    INSTANCE FreshReads WITH
        Clients <- Users, current <- dbVersion, state <- Stage, since <- Since, answer <- Answered

(* "an SDE update invalidates the entry immediately" (cache_get_versioned): *)
(* nobody is answered from a database older than when it asked.            *)
VersionedReadsFresh == VersionPromise!Spec

=============================================================================
