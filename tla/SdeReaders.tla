------------------------------ MODULE SdeReaders ------------------------------
(***************************************************************************)
(* Reading the static data while it is replaced: sde/mod.rs (the pool of   *)
(* read-only connections, the whole-table caches) and db/mod.rs (Drop).    *)
(*                                                                         *)
(* A version of the database is the number of the swap that brought it; a  *)
(* generation is what its file's mtime and size identify, and is taken to  *)
(* differ between versions, as the code does.  A connection keeps reading  *)
(* the file it opened.  There is one cache slot here: the slots share      *)
(* nothing but the pool.                                                   *)
(***************************************************************************)
EXTENDS Integers, Sequences, FiniteSets

CONSTANTS
    Readers,        \* threads that read
    MaxVersion      \* bound on the swaps

ASSUME ReadersAssumption == MaxVersion \in Nat \ {0}

VARIABLES
    installed,  \* the version at sde.sqlite; 0: none
    pool,       \* the generation pooled and its idle connections (versions)
    slot,       \* the generation cached and the value's version; 0: empty
    doing,      \* where each reader is
    begun,      \* history: the version installed when it began
    wanted,     \* the generation it looks the slot up by; 0: a plain query
    key,        \* the generation its connection belongs to
    conn,       \* the version its connection reads; 0: it has none
    value       \* the version of what it read

readers == <<doing, begun, wanted, key, conn, value>>
readVars == <<installed, pool, slot, readers>>

ReadInit ==
    /\ installed \in {0, 1}
    /\ pool = [gen |-> 0, idle |-> <<>>]
    /\ slot = [gen |-> 0, value |-> 0]
    /\ doing = [r \in Readers |-> "idle"]
    /\ begun = [r \in Readers |-> 0]
    /\ wanted = [r \in Readers |-> 0]
    /\ key = [r \in Readers |-> 0]
    /\ conn = [r \in Readers |-> 0]
    /\ value = [r \in Readers |-> 0]

Step(r, from, to) == doing[r] = from /\ doing' = [doing EXCEPT ![r] = to]

(* The rename at the end of download_sde.                                  *)
Swap ==
    /\ installed < MaxVersion
    /\ installed' = installed + 1
    /\ UNCHANGED <<pool, slot, readers>>

-----------------------------------------------------------------------------
(* get_or_build                                                            *)

(* A plain query begins with open_from_dir.                                *)
Query(r) ==
    /\ Step(r, "idle", "opening")
    /\ begun' = [begun EXCEPT ![r] = installed]
    /\ wanted' = [wanted EXCEPT ![r] = 0]
    /\ UNCHANGED <<installed, pool, slot, key, conn, value>>

(* A cached table begins with the generation; without a database it fails. *)
Lookup(r) ==
    /\ installed # 0
    /\ Step(r, "idle", "looking")
    /\ begun' = [begun EXCEPT ![r] = installed]
    /\ wanted' = [wanted EXCEPT ![r] = installed]
    /\ UNCHANGED <<installed, pool, slot, key, conn, value>>

(* Mutant: any value cached is served.                                     *)
HitAny(r) ==
    /\ slot.gen # 0
    /\ Step(r, "looking", "answered")
    /\ value' = [value EXCEPT ![r] = slot.value]
    /\ UNCHANGED <<installed, pool, slot, begun, wanted, key, conn>>

Hit(r) ==
    /\ slot.gen = wanted[r]
    /\ Step(r, "looking", "answered")
    /\ value' = [value EXCEPT ![r] = slot.value]
    /\ UNCHANGED <<installed, pool, slot, begun, wanted, key, conn>>

Miss(r) ==
    /\ slot.gen # wanted[r]
    /\ Step(r, "looking", "opening")
    /\ UNCHANGED <<installed, pool, slot, begun, wanted, key, conn, value>>

(* Mutant: what was built is stored under the generation there is now.     *)
StoreNow(r) ==
    /\ Step(r, "storing", "answered")
    /\ slot' = [gen |-> installed, value |-> value[r]]
    /\ UNCHANGED <<installed, pool, begun, wanted, key, conn, value>>

Store(r) ==
    /\ Step(r, "storing", "answered")
    /\ slot' = [gen |-> wanted[r], value |-> value[r]]
    /\ UNCHANGED <<installed, pool, begun, wanted, key, conn, value>>

-----------------------------------------------------------------------------
(* open_from_dir, the query and Drop                                       *)

NotInstalled(r) ==
    /\ installed = 0
    /\ Step(r, "opening", "idle")
    /\ UNCHANGED <<installed, pool, slot, begun, wanted, key, conn, value>>

ReadGeneration(r) ==
    /\ installed # 0
    /\ Step(r, "opening", "keyed")
    /\ key' = [key EXCEPT ![r] = installed]
    /\ UNCHANGED <<installed, pool, slot, begun, wanted, conn, value>>

(* checkout_pooled_connection: pop an idle connection ...                  *)
Popped(r) ==
    /\ pool.gen = key[r] /\ pool.idle # <<>>
    /\ Step(r, "keyed", "connected")
    /\ conn' = [conn EXCEPT ![r] = pool.idle[Len(pool.idle)]]
    /\ pool' = [pool EXCEPT !.idle = SubSeq(@, 1, Len(@) - 1)]
    /\ UNCHANGED <<installed, slot, begun, wanted, key, value>>

(* Mutant: a connection is opened though one is idle.                      *)
NeverReused(r) ==
    /\ Step(r, "keyed", "unconnected")
    /\ pool' = IF pool.gen = key[r] THEN pool ELSE [gen |-> key[r], idle |-> <<>>]
    /\ UNCHANGED <<installed, slot, begun, wanted, key, conn, value>>

(* Mutant: the idle connections survive a change of generation.            *)
NoneIdleKept(r) ==
    /\ pool.gen # key[r] \/ pool.idle = <<>>
    /\ Step(r, "keyed", "unconnected")
    /\ pool' = [pool EXCEPT !.gen = key[r]]
    /\ UNCHANGED <<installed, slot, begun, wanted, key, conn, value>>

(* ... or none, and forget those of another generation.                    *)
NoneIdle(r) ==
    /\ pool.gen # key[r] \/ pool.idle = <<>>
    /\ Step(r, "keyed", "unconnected")
    /\ pool' = IF pool.gen = key[r] THEN pool ELSE [gen |-> key[r], idle |-> <<>>]
    /\ UNCHANGED <<installed, slot, begun, wanted, key, conn, value>>

Open(r) ==
    /\ Step(r, "unconnected", "connected")
    /\ conn' = [conn EXCEPT ![r] = installed]
    /\ UNCHANGED <<installed, pool, slot, begun, wanted, key, value>>

OpenFails(r) ==
    /\ Step(r, "unconnected", "idle")
    /\ UNCHANGED <<installed, pool, slot, begun, wanted, key, conn, value>>

Read(r) ==
    /\ Step(r, "connected", "read")
    /\ value' = [value EXCEPT ![r] = conn[r]]
    /\ UNCHANGED <<installed, pool, slot, begun, wanted, key, conn>>

(* return_pooled_connection                                                *)
HandBack(r) ==
    /\ Step(r, "read", IF wanted[r] = 0 THEN "answered" ELSE "storing")
    /\ pool' = IF pool.gen = key[r] THEN [pool EXCEPT !.idle = Append(@, conn[r])] ELSE pool
    /\ conn' = [conn EXCEPT ![r] = 0]
    /\ UNCHANGED <<installed, slot, begun, wanted, key, value>>

(* The reader is done with what it read.                                   *)
Answer(r) ==
    /\ Step(r, "answered", "idle")
    /\ UNCHANGED <<installed, pool, slot, begun, wanted, key, conn, value>>

Reader(r) ==
    \/ Query(r) \/ Lookup(r) \/ Hit(r) \/ Miss(r) \/ Store(r)
    \/ NotInstalled(r) \/ ReadGeneration(r) \/ Popped(r) \/ NoneIdle(r) \/ Open(r) \/ OpenFails(r)
    \/ Read(r) \/ HandBack(r) \/ Answer(r)

ReadNext == Swap \/ \E r \in Readers : Reader(r)

ReadSpec == ReadInit /\ [][ReadNext]_readVars

-----------------------------------------------------------------------------
(* Properties                                                              *)

(* Every variable has its type; an idle connection reads some version.     *)
ReadersTypeOK ==
    /\ installed \in Nat
    /\ pool \in [gen : Nat, idle : Seq(Nat \ {0})]
    /\ slot \in [gen : Nat, value : Nat]
    /\ doing \in [Readers -> {"idle", "looking", "opening", "keyed", "unconnected", "connected",
                           "read", "storing", "answered"}]
    /\ begun \in [Readers -> Nat] /\ wanted \in [Readers -> Nat] /\ key \in [Readers -> Nat]
    /\ conn \in [Readers -> Nat] /\ value \in [Readers -> Nat]

(* No answer is older than the database that was installed when the call   *)
(* began: a swap "transparently invalidates every slot" (sde/mod.rs).      *)
AnswersFresh == \A r \in Readers : doing[r] = "answered" => begun[r] <= value[r] /\ value[r] <= installed

(* What is kept for the generation installed now is of exactly that        *)
(* version, the idle connections and the cached value.                     *)
KeptIsCurrent ==
    /\ pool.gen = installed => \A i \in 1..Len(pool.idle) : pool.idle[i] = installed
    /\ slot.gen = installed => slot.value = installed

(* "the pool self-sizes to whatever concurrency actually happens"          *)
(* (sde/mod.rs): never more connections, idle and in use, than readers.    *)
UsesPool(r) == doing[r] \in {"unconnected", "connected", "read"} /\ key[r] = pool.gen

PoolSelfSizes ==
    Len(pool.idle) + Cardinality({r \in Readers : UsesPool(r)}) <= Cardinality(Readers)

-----------------------------------------------------------------------------
(* Why: nothing is older than the generation it is kept under.             *)

PoolNotOlder == \A i \in 1..Len(pool.idle) : pool.gen <= pool.idle[i] /\ pool.idle[i] <= installed

SlotNotOlder == slot.gen <= slot.value /\ slot.value <= installed

ReaderNotOlder(r) ==
    /\ wanted[r] <= installed
    /\ doing[r] # "idle" => begun[r] <= installed
    /\ doing[r] # "idle" /\ wanted[r] # 0 => begun[r] <= wanted[r]
    /\ doing[r] = "looking" => wanted[r] # 0
    /\ doing[r] \in {"keyed", "unconnected", "connected", "read"} =>
          key[r] # 0 /\ begun[r] <= key[r] /\ wanted[r] <= key[r] /\ key[r] <= installed
    /\ doing[r] \in {"connected", "read"} => key[r] <= conn[r] /\ conn[r] <= installed
    /\ doing[r] = "read" => value[r] = conn[r]
    /\ doing[r] = "storing" => wanted[r] <= value[r] /\ value[r] <= installed /\ wanted[r] # 0
    /\ doing[r] = "answered" => begun[r] <= value[r] /\ value[r] <= installed

NotOlder ==
    /\ PoolNotOlder
    /\ SlotNotOlder
    /\ \A r \in Readers : ReaderNotOlder(r)

-----------------------------------------------------------------------------
(* What readers are promised, with the pool and the slots out of sight.    *)

Promise ==
    INSTANCE FreshReads WITH
        Clients <- Readers,
        current <- installed,
        state <- [r \in Readers |-> IF doing[r] \in {"idle", "answered"} THEN doing[r] ELSE "asked"],
        since <- [r \in Readers |-> IF doing[r] = "idle" THEN 0 ELSE begun[r]],
        answer <- [r \in Readers |-> IF doing[r] = "answered" THEN value[r] ELSE 0]

(* open_from_dir, the pool and get_or_build answer every question from a   *)
(* database that was installed while it was being answered.                *)
ReadsFresh == Promise!Spec

=============================================================================
