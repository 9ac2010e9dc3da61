------------------------------- MODULE CacheBody -------------------------------
(***************************************************************************)
(* cache_put_if_changed and cache_get_if_changed of storage/mod.rs, as     *)
(* stats_for_characters (zkill/mod.rs) uses them for one character: the    *)
(* body in one file, the hash of the last one written and its deadline in  *)
(* another.                                                                *)
(*                                                                         *)
(* A value stands for its hash.                                            *)
(***************************************************************************)
EXTENDS Naturals, FiniteSets

CONSTANTS
    Batches,     \* calls of stats_for_characters that may be running
    Values,      \* what the provider may answer
    None,        \* no file, or an empty one
    Garbled,     \* a file that does not parse
    MaxFailures  \* bound on failures and crashes

NoneIsNoValue == None \notin Values /\ Garbled \notin Values

VARIABLES
    remote,   \* what the provider answers now
    body,     \* the durable body
    marker,   \* the hash in the marker
    fresh,    \* has the marker's deadline not passed?
    at,       \* where each batch is
    held,     \* what it fetched or read
    failures, \* history: faults so far
    upset     \* history: since a put last began alone with writing its body,
              \* has a put been cut off, or crossed one of another value?

batches == <<at, held>>
bodyVars == <<remote, body, marker, fresh, batches, failures, upset>>

BodyInit ==
    /\ remote \in Values
    /\ body = None /\ marker = None /\ fresh = FALSE
    /\ at = [b \in Batches |-> "idle"]
    /\ held = [b \in Batches |-> None]
    /\ failures = 0 /\ upset = FALSE

Moves(b, from, to) == at[b] = from /\ at' = [at EXCEPT ![b] = to]

Change ==
    /\ \E v \in Values \ {remote} : remote' = v
    /\ UNCHANGED <<body, marker, fresh, batches, failures, upset>>

Lapse ==
    /\ fresh
    /\ fresh' = FALSE
    /\ UNCHANGED <<remote, body, marker, batches, failures, upset>>

-----------------------------------------------------------------------------
(* cache_get_if_changed                                                    *)

MarkerHit(b) ==
    /\ marker # None /\ fresh
    /\ Moves(b, "idle", "reading")
    /\ UNCHANGED <<remote, body, marker, fresh, held, failures, upset>>

MarkerMiss(b) ==
    /\ marker = None \/ ~fresh
    /\ Moves(b, "idle", "fetching")
    /\ UNCHANGED <<remote, body, marker, fresh, held, failures, upset>>

(* load_data: what does not parse is no body.                              *)
ReadBody(b) ==
    /\ Moves(b, "reading", IF body \in Values THEN "served" ELSE "fetching")
    /\ UNCHANGED <<remote, body, marker, fresh, held, failures, upset>>

-----------------------------------------------------------------------------
(* The fetch and cache_put_if_changed.  Both files are written in place:   *)
(* truncated, then filled.                                                 *)

(* Between its fetch and the end of its put.                               *)
Putting(b) == at[b] \in {"comparing", "creating", "writing", "marking", "stamping"}

Alone(b) == \A c \in Batches \ {b} : ~Putting(c)

Fetch(b) ==
    /\ Moves(b, "fetching", "comparing")
    /\ held' = [held EXCEPT ![b] = remote]
    /\ upset' = (upset \/ \E c \in Batches \ {b} : Putting(c) /\ held[c] # remote)
    /\ UNCHANGED <<remote, body, marker, fresh, failures>>

(* The character is left out of the answer.                                *)
FetchFails(b) ==
    /\ Moves(b, "fetching", "idle")
    /\ UNCHANGED <<remote, body, marker, fresh, held, failures, upset>>

(* The marker's hash counts however old it is.                             *)
Unchanged(b) ==
    /\ marker = held[b]
    /\ Moves(b, "comparing", "marking")
    /\ UNCHANGED <<remote, body, marker, fresh, held, failures, upset>>

(* Mutant: the first body is not written.                                  *)
ChangedNotFirst(b) ==
    /\ marker # held[b]
    /\ Moves(b, "comparing", IF marker = None THEN "marking" ELSE "creating")
    /\ UNCHANGED <<remote, body, marker, fresh, held, failures, upset>>

Changed(b) ==
    /\ marker # held[b]
    /\ Moves(b, "comparing", "creating")
    /\ UNCHANGED <<remote, body, marker, fresh, held, failures, upset>>

CreateBody(b) ==
    /\ Moves(b, "creating", "writing")
    /\ body' = None
    /\ upset' = (upset /\ ~Alone(b))
    /\ UNCHANGED <<remote, marker, fresh, held, failures>>

(* Over what another put wrote since: it may be longer.                    *)
WriteBody(b) ==
    /\ Moves(b, "writing", "marking")
    /\ body' \in {held[b]} \cup (IF body \in {None, held[b]} THEN {} ELSE {Garbled})
    /\ UNCHANGED <<remote, marker, fresh, held, failures, upset>>

OpenMarker(b) ==
    /\ Moves(b, "marking", "stamping")
    /\ marker' = None
    /\ UNCHANGED <<remote, body, fresh, held, failures, upset>>

(* Markers are all of one length: the last written stays.                  *)
Mark(b) ==
    /\ Moves(b, "stamping", "idle")
    /\ marker' = held[b] /\ fresh' = TRUE
    /\ UNCHANGED <<remote, body, held, failures, upset>>

Served(b) ==
    /\ Moves(b, "served", "idle")
    /\ UNCHANGED <<remote, body, marker, fresh, held, failures, upset>>

(* Would it leave the marker of another body, if it ended here?            *)
Unfinished(b) == at[b] = "writing" \/ (at[b] = "marking" /\ marker # held[b])

(* Opening or writing a file fails; what was written of it stays.          *)
PutFails(b) ==
    /\ failures < MaxFailures
    /\ failures' = failures + 1
    /\ at[b] \in {"creating", "writing", "marking", "stamping"}
    /\ at' = [at EXCEPT ![b] = "idle"]
    /\ body' \in {body} \cup (IF at[b] = "writing" THEN {Garbled} ELSE {})
    /\ upset' = (upset \/ Unfinished(b))
    /\ UNCHANGED <<remote, marker, fresh, held>>

(* prune_cache_startup drops a marker long out of date, and no body.       *)
Relaunch ==
    /\ failures < MaxFailures
    /\ failures' = failures + 1
    /\ at' = [b \in Batches |-> "idle"]
    /\ body' \in {body} \cup (IF \E b \in Batches : at[b] = "writing" THEN {Garbled} ELSE {})
    /\ marker' \in {marker} \cup (IF fresh THEN {} ELSE {None})
    /\ upset' = (upset \/ \E b \in Batches : Unfinished(b))
    /\ UNCHANGED <<remote, fresh, held>>

Batch(b) ==
    \/ MarkerHit(b) \/ MarkerMiss(b) \/ ReadBody(b) \/ Fetch(b) \/ FetchFails(b)
    \/ Unchanged(b) \/ Changed(b) \/ CreateBody(b) \/ WriteBody(b)
    \/ OpenMarker(b) \/ Mark(b) \/ Served(b) \/ PutFails(b)

BodyNext == Change \/ Lapse \/ Relaunch \/ \E b \in Batches : Batch(b)

BodySpec == BodyInit /\ [][BodyNext]_bodyVars

-----------------------------------------------------------------------------
(* Properties                                                              *)

(* A body is written before its marker (cache_put_if_changed), so that the *)
(* hash never names a body that is not there: what the marker names is what*)
(* the file holds, unless a put was cut off between the two or crossed one *)
(* of another value; and the next put that writes its body alone mends it. *)
MarkerVouches ==
    ~upset /\ (\A b \in Batches : at[b] \notin {"writing", "marking"}) => marker \in {None, body}

=============================================================================
