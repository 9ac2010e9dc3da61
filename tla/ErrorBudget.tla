------------------------------- MODULE ErrorBudget -------------------------------
(***************************************************************************)
(* The network policy of esi/net.rs: every request to ESI reads the error  *)
(* budget that the last response reported, pauses when it is low, reports  *)
(* what its own response says, and is retried when that is worth it.       *)
(*                                                                         *)
(* Two atomics hold the budget, and calls run concurrently: each load and  *)
(* each store is a step.  Times are kept as what is left of them, in ticks *)
(* of the same clock on both sides.                                        *)
(***************************************************************************)
EXTENDS Integers, FiniteSets

CONSTANTS
    Calls,          \* calls of send_retrying and send_once that may be running
    Once,           \* those of them that are send_once
    Limit,          \* errors that ESI allows in a window
    Window,         \* length of a window
    LowBudget,      \* LOW_BUDGET
    MaxAttempts,    \* MAX_ATTEMPTS
    MaxLost         \* bound on responses that get lost

BudgetAssumption ==
    /\ IsFiniteSet(Calls) /\ Once \subseteq Calls
    /\ {Limit, Window, MaxAttempts} \subseteq Nat \ {0} /\ MaxLost \in Nat
    /\ LowBudget \in 1..Limit

VARIABLES
    left,       \* ESI: what is left of the window
    errors,     \* ESI: errors still allowed in it
    remain,     \* ErrorBudget::remain, -1 when no response has been seen
    resetIn,    \* ErrorBudget::reset_at, 0 when it has passed
    at,         \* where each call is
    attempt,    \* its attempts
    loaded,     \* what it loaded from remain
    answer,     \* the response on its way to it, or just received
    pause,      \* what is left of its pause
    lost        \* history: responses lost so far

esi == <<left, errors>>
budget == <<remain, resetIn>>
calling == <<at, attempt, loaded, answer, pause>>
budgetVars == <<esi, budget, calling, lost>>

NoAnswer == [status |-> "none", remain |-> 0, reset |-> 0]

BudgetInit ==
    /\ left = Window /\ errors = Limit
    /\ remain = -1 /\ resetIn = 0
    /\ at = [c \in Calls |-> "idle"]
    /\ attempt = [c \in Calls |-> 0]
    /\ loaded = [c \in Calls |-> -1]
    /\ answer = [c \in Calls |-> NoAnswer]
    /\ pause = [c \in Calls |-> 0]
    /\ lost = 0

Goes(c, from, to) == at[c] = from /\ at' = [at EXCEPT ![c] = to]

Less(ticks) == IF ticks = 0 THEN 0 ELSE ticks - 1

TimePasses ==
    /\ left' = IF left = 1 THEN Window ELSE left - 1
    /\ errors' = IF left = 1 THEN Limit ELSE errors
    /\ resetIn' = Less(resetIn)
    /\ pause' = [c \in Calls |-> Less(pause[c])]
    /\ UNCHANGED <<remain, at, attempt, loaded, answer, lost>>

-----------------------------------------------------------------------------
(* throttle                                                                *)

Start(c) ==
    /\ Goes(c, "idle", "loading")
    /\ attempt' = [attempt EXCEPT ![c] = 1]
    /\ UNCHANGED <<esi, budget, loaded, answer, pause, lost>>

LoadRemain(c) ==
    /\ Goes(c, "loading", "comparing")
    /\ loaded' = [loaded EXCEPT ![c] = remain]
    /\ UNCHANGED <<esi, budget, attempt, answer, pause, lost>>

(* Mutant: one error fewer is low.                                         *)
LowLate(n) == n \in 0..(LowBudget - 2)

Low(n) == n \in 0..(LowBudget - 1)

(* wait_needed with its second load; the extra second is the cushion.      *)
Throttle(c) ==
    /\ Goes(c, "comparing", IF Low(loaded[c]) /\ resetIn > 0 THEN "throttled" ELSE "sending")
    /\ pause' = [pause EXCEPT ![c] = IF Low(loaded[c]) /\ resetIn > 0 THEN resetIn + 1 ELSE 0]
    /\ loaded' = [loaded EXCEPT ![c] = -1]
    /\ UNCHANGED <<esi, budget, attempt, answer, lost>>

(* The call does not look at the budget again.                             *)
ThrottleEnds(c) ==
    /\ pause[c] = 0
    /\ Goes(c, "throttled", "sending")
    /\ UNCHANGED <<esi, budget, attempt, loaded, answer, pause, lost>>

-----------------------------------------------------------------------------
(* ESI                                                                     *)

Response(status, n) == [status |-> status, remain |-> n, reset |-> left]

(* An error of either kind counts; nothing is served without a budget.     *)
Answer(c) ==
    /\ Goes(c, "sending", "waiting")
    /\ \/ /\ errors > 0
          /\ answer' = [answer EXCEPT ![c] = Response("ok", errors)]
          /\ UNCHANGED errors
       \/ /\ errors > 0
          /\ errors' = errors - 1
          /\ \E status \in {"refused", "failing"} :
                answer' = [answer EXCEPT ![c] = Response(status, errors - 1)]
       \/ /\ errors = 0
          /\ answer' = [answer EXCEPT ![c] = Response("limited", 0)]
          /\ UNCHANGED errors
    /\ UNCHANGED <<left, budget, attempt, loaded, pause, lost>>

-----------------------------------------------------------------------------
(* observe and the retry                                                   *)

ObserveRemain(c) ==
    /\ Goes(c, "waiting", "observing")
    /\ remain' = answer[c].remain
    /\ UNCHANGED <<esi, resetIn, attempt, loaded, answer, pause, lost>>

ObserveReset(c) ==
    /\ Goes(c, "observing", "deciding")
    /\ resetIn' = answer[c].reset
    /\ UNCHANGED <<esi, remain, attempt, loaded, answer, pause, lost>>

Retries(c) == c \notin Once /\ attempt[c] < MaxAttempts

ReturnAnswer(c) ==
    /\ ~Retries(c) \/ answer[c].status \in {"ok", "refused"}
    /\ Goes(c, "deciding", "idle")
    /\ attempt' = [attempt EXCEPT ![c] = 0]
    /\ answer' = [answer EXCEPT ![c] = NoAnswer]
    /\ UNCHANGED <<esi, budget, loaded, pause, lost>>

(* Retry-After, when there is one, asks for the rest of the window.        *)
Retry(c) ==
    /\ Retries(c) /\ answer[c].status \in {"failing", "limited"}
    /\ Goes(c, "deciding", "backing off")
    /\ \E wait \in {1, answer[c].reset} : pause' = [pause EXCEPT ![c] = wait]
    /\ answer' = [answer EXCEPT ![c] = NoAnswer]
    /\ UNCHANGED <<esi, budget, attempt, loaded, lost>>

(* The response does not arrive: a timeout or a broken connection.         *)
LoseResponse(c) ==
    /\ lost < MaxLost
    /\ lost' = lost + 1
    /\ Goes(c, "waiting", IF Retries(c) THEN "backing off" ELSE "idle")
    /\ pause' = [pause EXCEPT ![c] = IF Retries(c) THEN 1 ELSE 0]
    /\ attempt' = [attempt EXCEPT ![c] = IF Retries(c) THEN @ ELSE 0]
    /\ answer' = [answer EXCEPT ![c] = NoAnswer]
    /\ UNCHANGED <<esi, budget, loaded>>

TryAgain(c) ==
    /\ pause[c] = 0
    /\ Goes(c, "backing off", "loading")
    /\ attempt' = [attempt EXCEPT ![c] = @ + 1]
    /\ UNCHANGED <<esi, budget, loaded, answer, pause, lost>>

-----------------------------------------------------------------------------
Running(c) ==
    \/ LoadRemain(c) \/ Throttle(c) \/ ThrottleEnds(c)
    \/ Answer(c)
    \/ ObserveRemain(c) \/ ObserveReset(c) \/ ReturnAnswer(c) \/ Retry(c) \/ TryAgain(c)

BudgetNext == TimePasses \/ \E c \in Calls : Start(c) \/ Running(c) \/ LoseResponse(c)

BudgetSpec == BudgetInit /\ [][BudgetNext]_budgetVars

-----------------------------------------------------------------------------
(* Properties                                                              *)

(* "Blow the budget and ESI returns 420": what LOW_BUDGET keeps back        *)
(* covers what can go wrong between a store and the next load.  A response *)
(* costs one error after the last healthy one; with n calls each of n old  *)
(* responses may overwrite a low budget and let all n through once more;   *)
(* and a response that never comes costs one that nobody learns of.        *)
MarginHolds == errors >= LowBudget - Cardinality(Calls) * Cardinality(Calls) - lost

=============================================================================
