------------------------------ MODULE FreshReads ------------------------------
(***************************************************************************)
(* What reading the static data promises, whatever is cached on the way:   *)
(* an answer is computed from a database that was installed at some moment *)
(* between the question and the answer.  Connections, pools, generations   *)
(* and cache entries do not appear; SdeReaders and CacheVersioned          *)
(* implement this.                                                         *)
(***************************************************************************)
EXTENDS Naturals

CONSTANTS Clients

VARIABLES
    current,    \* the version of the database; 0: none
    state,      \* of each client: "idle", "asked" or "answered"
    since,      \* the version there was when it asked
    answer      \* the version its answer was computed from

vars == <<current, state, since, answer>>

Init ==
    /\ current \in Nat
    /\ state = [c \in Clients |-> "idle"]
    /\ since = [c \in Clients |-> 0]
    /\ answer = [c \in Clients |-> 0]

Replace ==
    /\ current' = current + 1
    /\ UNCHANGED <<state, since, answer>>

Ask(c) ==
    /\ state[c] = "idle"
    /\ state' = [state EXCEPT ![c] = "asked"]
    /\ since' = [since EXCEPT ![c] = current]
    /\ UNCHANGED <<current, answer>>

Reply(c) ==
    /\ state[c] = "asked"
    /\ state' = [state EXCEPT ![c] = "answered"]
    /\ \E v \in since[c] .. current : answer' = [answer EXCEPT ![c] = v]
    /\ UNCHANGED <<current, since>>

(* The client is done with its answer, or gets none.                       *)
Leave(c) ==
    /\ state[c] # "idle"
    /\ state' = [state EXCEPT ![c] = "idle"]
    /\ since' = [since EXCEPT ![c] = 0]
    /\ answer' = [answer EXCEPT ![c] = 0]
    /\ UNCHANGED current

(* The application ends: every client is gone.                             *)
LeaveAll ==
    /\ state' = [c \in Clients |-> "idle"]
    /\ since' = [c \in Clients |-> 0]
    /\ answer' = [c \in Clients |-> 0]
    /\ UNCHANGED current

Next == Replace \/ LeaveAll \/ \E c \in Clients : Ask(c) \/ Reply(c) \/ Leave(c)

Spec == Init /\ [][Next]_vars

=============================================================================
