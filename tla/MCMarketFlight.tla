--------------------------- MODULE MCMarketFlight ---------------------------
(***************************************************************************)
(* Small instances, for TLC, of what stands between a market lookup and    *)
(* ESI: MarketFlight, and ErrorBudget below it.                            *)
(*                                                                         *)
(* A fetch is one step of MarketFlight, so a run takes one of the two at a *)
(* time, which focus names; the other rests where it begins.               *)
(***************************************************************************)
EXTENDS MarketFlight, ErrorBudget

CONSTANTS trit, pye, tritHist, pyeHist, hub

VARIABLE focus

all == <<vars, budgetVars, focus>>

(* Two items have aggregates, fetched in batches behind the hub's gate; the *)
(* history of each is behind a gate of its own and may be served stale.    *)
AllLookups ==
    { [gate |-> hub, types |-> {trit, pye}],
      [gate |-> tritHist, types |-> {tritHist}],
      [gate |-> pyeHist, types |-> {pyeHist}] }

Histories == {tritHist, pyeHist}

TwoCaches == [ty \in Types |-> IF ty \in Histories THEN "history" ELSE "aggregates"]

UnevenJitter == [ty \in Types |-> IF ty \in {pye, pyeHist} THEN 1 ELSE 0]
StaleHistory == [ty \in Types |-> IF ty \in Histories THEN 1 ELSE 0]

ASSUME BudgetAssumption

MarketInit == Init /\ BudgetInit /\ focus \in {"flight", "policy"}

MarketNext ==
    /\ UNCHANGED focus
    /\ \/ focus = "flight" /\ Next /\ UNCHANGED budgetVars
       \/ focus = "policy" /\ BudgetNext /\ UNCHANGED vars

(* MarketFlight's fairness; its callers are idle while the other runs.     *)
MarketFairness == \A k \in Callers : SF_vars(Enter(k)) /\ WF_vars(Step(k))

MarketSpec == MarketInit /\ [][MarketNext]_all /\ MarketFairness

=============================================================================
