------------------------- MODULE MarketFlightProofs -------------------------
(***************************************************************************)
(* What TLC shows of the market's single-flight cache on small instances,  *)
(* for any number of callers, types, gates and any lifetimes; and how far  *)
(* the error budget under it can be overdrawn, for any number of calls.    *)
(***************************************************************************)
EXTENDS MarketFlight, ErrorBudget, FiniteSetTheorems, TLAPS

USE FlightAssumption

(* One caller per gate: what the per-key lock gives its holder.            *)
OneFlightPerGate ==
    \A c, d \in Callers :
        pc[c] = "fetching" /\ pc[d] = "fetching" /\ call[c].gate = call[d].gate => c = d

LEMMA ExpiryOfNewIsLater ==
    ASSUME TypeOK, NEW ty \in Types
    PROVE  ExpiryOfNew(ty) \in Nat /\ ExpiryOfNew(ty) > now
<1>1. Jitter[ty] \in Nat OBVIOUS
<1>2. QED BY <1>1 DEF ExpiryOfNew, TypeOK

LEMMA TypeStep == ASSUME TypeOK, [Next]_vars PROVE TypeOK'
<1>1. CASE Tick
  BY <1>1 DEF Tick, TypeOK
<1>2. ASSUME NEW c \in Callers, NEW q \in Lookups, Ask(c, q) PROVE TypeOK'
  <2>1. WithFresh(Nothing, q.types) \in [Types -> Nat]
    BY DEF WithFresh, Nothing, TypeOK
  <2>2. QED BY <1>2, <2>1 DEF Ask, TypeOK
<1>3. ASSUME NEW c \in Callers, Enter(c) PROVE TypeOK'
  <2>1. WithFresh(out[c], Missing(c)) \in [Types -> Nat]
    BY DEF WithFresh, TypeOK
  <2>2. QED BY <1>3, <2>1 DEF Enter, TypeOK
<1>4. ASSUME NEW c \in Callers, FetchOk(c) PROVE TypeOK'
  <2>1. PICK got \in SUBSET Missing(c) :
          /\ Put(got)
          /\ fetched' = [ty \in Types |-> IF ty \in got THEN ExpiryOfNew(ty) ELSE fetched[ty]]
          /\ out' = [out EXCEPT ![c] = [ty \in Types |-> IF ty \in got THEN ExpiryOfNew(ty) ELSE @[ty]]]
    BY <1>4 DEF FetchOk
  <2>2. expiry' \in [Types -> Nat]
    BY <2>1, ExpiryOfNewIsLater DEF Put, SweptByPut, Swept, TypeOK
  <2>3. fetched' \in [Types -> Nat]
    BY <2>1, ExpiryOfNewIsLater DEF TypeOK
  <2>4. [ty \in Types |-> IF ty \in got THEN ExpiryOfNew(ty) ELSE out[c][ty]] \in [Types -> Nat]
    BY ExpiryOfNewIsLater DEF TypeOK
  <2>5. out' \in [Callers -> [Types -> Nat]]
    BY <2>1, <2>4 DEF TypeOK
  <2>6. QED BY <1>4, <2>2, <2>3, <2>5 DEF FetchOk, TypeOK
<1>5. ASSUME NEW c \in Callers, FetchFails(c) PROVE TypeOK'
  <2>1. [ty \in Types |-> IF ty \in Missing(c) THEN expiry[ty] ELSE out[c][ty]] \in [Types -> Nat]
    BY DEF TypeOK
  <2>2. QED BY <1>5, <2>1, ZenonT(40) DEF FetchFails, TypeOK
<1>6. ASSUME NEW c \in Callers, Return(c) PROVE TypeOK'
  BY <1>6 DEF Return, Nothing, TypeOK
<1>7. CASE UNCHANGED vars
  BY <1>7 DEF vars, TypeOK
<1>8. QED BY <1>1, <1>2, <1>3, <1>4, <1>5, <1>6, <1>7 DEF Next, Step

(* Every variable has its type in every reachable state.                   *)
THEOREM TypeCorrect == Spec => []TypeOK
<1>1. Init => TypeOK BY DEF Init, Nothing, TypeOK
<1>2. QED BY <1>1, TypeStep, PTL DEF Spec

-----------------------------------------------------------------------------
(* No two callers fetch at once behind the same gate.                      *)
THEOREM GateIsExclusive == Spec => []OneFlightPerGate
<1>1. Init => OneFlightPerGate
  BY DEF Init, OneFlightPerGate
<1>2. TypeOK /\ OneFlightPerGate /\ [Next]_vars => OneFlightPerGate'
  <2> SUFFICES ASSUME TypeOK, OneFlightPerGate, [Next]_vars PROVE OneFlightPerGate'
    OBVIOUS
  <2>1. CASE Tick
    BY <2>1 DEF Tick, OneFlightPerGate
  <2>2. ASSUME NEW c \in Callers, NEW q \in Lookups, Ask(c, q) PROVE OneFlightPerGate'
    BY <2>2 DEF Ask, OneFlightPerGate, TypeOK
  <2>3. ASSUME NEW c \in Callers, Enter(c) PROVE OneFlightPerGate'
    BY <2>3 DEF Enter, GateFree, OneFlightPerGate, TypeOK
  <2>4. ASSUME NEW c \in Callers, FetchOk(c) PROVE OneFlightPerGate'
    BY <2>4 DEF FetchOk, OneFlightPerGate, TypeOK
  <2>5. ASSUME NEW c \in Callers, FetchFails(c) PROVE OneFlightPerGate'
    BY <2>5 DEF FetchFails, OneFlightPerGate, TypeOK
  <2>6. ASSUME NEW c \in Callers, Return(c) PROVE OneFlightPerGate'
    BY <2>6 DEF Return, OneFlightPerGate, TypeOK
  <2>7. CASE UNCHANGED vars
    BY <2>7 DEF vars, OneFlightPerGate
  <2>8. QED BY <2>1, <2>2, <2>3, <2>4, <2>5, <2>6, <2>7 DEF Next, Step
<1>3. QED BY <1>1, <1>2, TypeCorrect, PTL DEF Spec

(* No type is fetched by two callers at once: types that share a lookup    *)
(* share its gate, and a gate has one holder.                              *)
THEOREM FetchedOnceAlways == Spec => []FetchedOnce
<1>1. TypeOK /\ OneFlightPerGate => FetchedOnce
  BY DEF TypeOK, OneFlightPerGate, FetchedOnce, Missing, NoLookup
<1>2. QED BY <1>1, TypeCorrect, GateIsExclusive, PTL

-----------------------------------------------------------------------------
(* The map keeps the last value of a type while it could be served: no     *)
(* put of another type sweeps it away.                                     *)
LEMMA KeptStep == ASSUME TypeOK, KeptWhileServable, [Next]_vars PROVE KeptWhileServable'
<1>1. CASE Tick
  BY <1>1 DEF Tick, KeptWhileServable, TypeOK
<1>2. CASE UNCHANGED <<now, expiry, fetched>>
  BY <1>2 DEF KeptWhileServable
<1>3. ASSUME NEW c \in Callers, FetchOk(c) PROVE KeptWhileServable'
  <2>1. PICK got \in SUBSET Missing(c) :
          /\ Put(got)
          /\ fetched' = [ty \in Types |-> IF ty \in got THEN ExpiryOfNew(ty) ELSE fetched[ty]]
    BY <1>3 DEF FetchOk
  <2>2. now' = now BY <1>3 DEF FetchOk
  <2>3. \A ty \in Types : expiry'[ty] = IF ty \in got THEN ExpiryOfNew(ty) ELSE SweptByPut(got, ty)
    BY <2>1 DEF Put
  <2>4. \A ty \in Types : fetched'[ty] = IF ty \in got THEN ExpiryOfNew(ty) ELSE fetched[ty]
    BY <2>1
  <2>5. ASSUME NEW ty \in Types
        PROVE  /\ fetched'[ty] + MaxStale[ty] > now' => expiry'[ty] = fetched'[ty]
               /\ expiry'[ty] \in {0, fetched'[ty]}
    <3>1. CASE ty \in got
      BY <2>3, <2>4, <3>1
    <3>2. CASE ty \notin got
      <4>1. expiry'[ty] \in {expiry[ty], Swept(ty)} /\ fetched'[ty] = fetched[ty]
        BY <2>3, <2>4, <3>2 DEF SweptByPut
      <4>2. QED BY <4>1, <2>2 DEF KeptWhileServable, Swept, TypeOK
    <3>3. QED BY <3>1, <3>2
  <2>6. QED BY <2>5 DEF KeptWhileServable
<1>4. QED BY <1>1, <1>2, <1>3
  DEF Next, Step, Ask, Enter, FetchFails, Return, vars

THEOREM KeptAlways == Spec => []KeptWhileServable
<1>1. Init => KeptWhileServable
  BY DEF Init, Nothing, KeptWhileServable
<1>2. QED BY <1>1, KeptStep, TypeCorrect, PTL DEF Spec

(* No fetch is started for a type whose last fetched value has not         *)
(* expired.                                                                *)
THEOREM QuietAlways == Spec => QuietAfterFetch
<1>1. ASSUME TypeOK, KeptWhileServable, [Next]_vars,
             NEW c \in Callers, pc[c] = "queued", pc'[c] = "fetching"
      PROVE  \A ty \in Missing(c)' : now >= fetched[ty]
  <2>1. Enter(c)
    BY <1>1 DEF Next, Step, Tick, Ask, Enter, FetchOk, FetchFails, Return, vars, TypeOK
  <2>2. out'[c] = WithFresh(out[c], Missing(c)) /\ call' = call
    BY <2>1, <1>1 DEF Enter, TypeOK
  <2>3. ASSUME NEW ty \in Missing(c)' PROVE now >= fetched[ty]
    <3>1. ty \in call[c].types /\ out'[c][ty] = 0 /\ ty \in Types
      BY <2>2, <2>3, <1>1 DEF Missing, NoLookup, TypeOK
    <3>2. ~Fresh(ty)
      BY <1>1, <2>2, <3>1 DEF WithFresh, Missing, Fresh, TypeOK
    <3>3. QED BY <1>1, <3>1, <3>2 DEF Fresh, KeptWhileServable, TypeOK
  <2>4. QED BY <2>3
<1>2. TypeOK /\ KeptWhileServable /\ [Next]_vars =>
        [\A c \in Callers :
          pc[c] = "queued" /\ pc'[c] = "fetching" =>
              \A ty \in Missing(c)' : now >= fetched[ty]]_vars
  BY <1>1
<1>3. QED BY <1>2, TypeCorrect, KeptAlways, PTL DEF Spec, QuietAfterFetch

(* A lookup fails only if one of its types has no value within its stale   *)
(* window.                                                                 *)
THEOREM StaleBeatsErrorAlways == Spec => StaleBeatsError
<1>1. ASSUME TypeOK, KeptWhileServable, [Next]_vars,
             NEW c \in Callers, pc[c] # "failed", pc'[c] = "failed"
      PROVE  \E ty \in call[c].types : fetched[ty] = 0 \/ now >= fetched[ty] + MaxStale[ty]
  <2>1. FetchFails(c)
    BY <1>1 DEF Next, Step, Tick, Ask, Enter, FetchOk, FetchFails, Return, vars, TypeOK
  <2>2. PICK ty \in Missing(c) : ~Servable(ty)
    BY <2>1, <1>1 DEF FetchFails, TypeOK
  <2>3. ty \in call[c].types /\ ty \in Types
    BY <2>2, <1>1 DEF Missing, NoLookup, TypeOK
  <2>4. fetched[ty] = 0 \/ now >= fetched[ty] + MaxStale[ty]
    BY <1>1, <2>2, <2>3 DEF Servable, KeptWhileServable, TypeOK
  <2>5. QED BY <2>3, <2>4
<1>2. TypeOK /\ KeptWhileServable /\ [Next]_vars =>
        [\A c \in Callers :
          pc[c] # "failed" /\ pc'[c] = "failed" =>
              \E ty \in call[c].types : fetched[ty] = 0 \/ now >= fetched[ty] + MaxStale[ty]]_vars
  BY <1>1
<1>3. QED BY <1>2, TypeCorrect, KeptAlways, PTL DEF Spec, StaleBeatsError

-----------------------------------------------------------------------------
(* What a caller has in hand was servable when it asked or became so later. *)
InHandServable ==
    \A c \in Callers :
        /\ asked[c] <= now
        /\ \A ty \in Types : out[c][ty] # 0 => out[c][ty] + MaxStale[ty] > asked[c]

LEMMA InHandStep == ASSUME TypeOK, InHandServable, [Next]_vars PROVE InHandServable'
<1>1. CASE Tick
  BY <1>1 DEF Tick, InHandServable, TypeOK
<1>2. ASSUME NEW c \in Callers, NEW q \in Lookups, Ask(c, q) PROVE InHandServable'
  <2>1. \A ty \in Types : WithFresh(Nothing, q.types)[ty] # 0 => WithFresh(Nothing, q.types)[ty] > now
    BY DEF WithFresh, Nothing, Fresh, TypeOK
  <2>2. WithFresh(Nothing, q.types) \in [Types -> Nat]
    BY DEF WithFresh, Nothing, TypeOK
  <2>3. QED BY <1>2, <2>1, <2>2 DEF Ask, InHandServable, TypeOK
<1>3. ASSUME NEW c \in Callers, Enter(c) PROVE InHandServable'
  <2>1. \A ty \in Types : WithFresh(out[c], Missing(c))[ty] # out[c][ty] => WithFresh(out[c], Missing(c))[ty] > now
    BY DEF WithFresh, Fresh, TypeOK
  <2>2. WithFresh(out[c], Missing(c)) \in [Types -> Nat]
    BY DEF WithFresh, TypeOK
  <2>3. QED BY <1>3, <2>1, <2>2 DEF Enter, InHandServable, TypeOK
<1>4. ASSUME NEW c \in Callers, FetchOk(c) PROVE InHandServable'
  <2>1. PICK got \in SUBSET Missing(c) :
          out' = [out EXCEPT ![c] = [ty \in Types |-> IF ty \in got THEN ExpiryOfNew(ty) ELSE @[ty]]]
    BY <1>4 DEF FetchOk
  <2>2. \A ty \in Types : ExpiryOfNew(ty) \in Nat /\ ExpiryOfNew(ty) > now
    BY ExpiryOfNewIsLater
  <2>3. QED BY <1>4, <2>1, <2>2 DEF FetchOk, InHandServable, TypeOK
<1>5. ASSUME NEW c \in Callers, FetchFails(c) PROVE InHandServable'
  <2>1. CASE \A ty \in Missing(c) : Servable(ty)
    <3>1. /\ out' = [out EXCEPT ![c] = [ty \in Types |-> IF ty \in Missing(c) THEN expiry[ty] ELSE out[c][ty]]]
          /\ now' = now /\ asked' = asked
      BY <1>5, <2>1 DEF FetchFails
    <3>2. ASSUME NEW ty \in Types, out'[c][ty] # 0 PROVE out'[c][ty] + MaxStale[ty] > asked[c]
      <4>1. CASE ty \in Missing(c)
        <5>1. out'[c][ty] = expiry[ty] BY <3>1, <4>1 DEF TypeOK
        <5>2. now < expiry[ty] + MaxStale[ty] BY <2>1, <4>1 DEF Servable
        <5>3. asked[c] <= now BY DEF InHandServable
        <5>4. QED BY <5>1, <5>2, <5>3 DEF TypeOK
      <4>2. CASE ty \notin Missing(c)
        <5>1. out'[c][ty] = out[c][ty] BY <3>1, <4>2 DEF TypeOK
        <5>2. QED BY <3>2, <5>1 DEF InHandServable
      <4>3. QED BY <4>1, <4>2
    <3>3. ASSUME NEW d \in Callers, d # c PROVE out'[d] = out[d]
      BY <3>1, <3>3 DEF TypeOK
    <3>4. QED BY <3>1, <3>2, <3>3 DEF InHandServable
  <2>2. CASE ~ \A ty \in Missing(c) : Servable(ty)
    BY <1>5, <2>2 DEF FetchFails, InHandServable
  <2>3. QED BY <2>1, <2>2
<1>6. ASSUME NEW c \in Callers, Return(c) PROVE InHandServable'
  BY <1>6 DEF Return, Nothing, InHandServable, TypeOK
<1>7. CASE UNCHANGED vars
  BY <1>7 DEF vars, InHandServable
<1>8. QED BY <1>1, <1>2, <1>3, <1>4, <1>5, <1>6, <1>7 DEF Next, Step

(* An answer is never a value that could no longer be served when its      *)
(* caller asked: waiting behind the gate does not make it older.           *)
THEOREM AnswersServable == Spec => []AnswerServable
<1>1. Init => InHandServable
  BY DEF Init, Nothing, InHandServable
<1>2. TypeOK /\ InHandServable => AnswerServable
  BY DEF TypeOK, InHandServable, AnswerServable, NoLookup
<1>3. QED BY <1>1, <1>2, InHandStep, TypeCorrect, PTL DEF Spec

-----------------------------------------------------------------------------
(* The error budget: how far it can be overdrawn.                          *)
(*                                                                         *)
(* Once errors fall below LowBudget, a call fails without having looked at *)
(* the budget (it is past its look, or the budget it will look at hides    *)
(* that it is low) or after a response that hides it again was observed.   *)
(* Such a response is one of the n calls' own, so no new ones come; each   *)
(* hides at most twice, once by its remain and once by a reset of a window *)
(* that is over, and each time lets those through that hold none.          *)

HIDE FlightAssumption

Places == {"idle", "loading", "comparing", "throttled", "sending", "waiting", "observing", "deciding", "backing off"}

Responses == [status : {"none", "ok", "refused", "failing", "limited"}, remain : 0..Limit, reset : Nat]

BudgetTypeOK ==
    /\ left \in 1..Window /\ errors \in 0..Limit /\ remain \in -1..Limit /\ resetIn \in Nat
    /\ at \in [Calls -> Places] /\ attempt \in [Calls -> Nat] /\ loaded \in [Calls -> -1..Limit]
    /\ answer \in [Calls -> Responses]
    /\ pause \in [Calls -> Nat] /\ lost \in Nat

\* A call at a place, holding an answer, hides the low budget twice; once.
HidesTwice(place, ans, time) == place = "waiting" /\ ~Low(ans.remain) /\ ans.reset < time
HidesOnce(place, ans, time) ==
    \/ place = "waiting" /\ ~Low(ans.remain) /\ ~(ans.reset < time)
    \/ place = "waiting" /\ Low(ans.remain) /\ ans.reset < time
    \/ place = "observing" /\ ans.reset < time

\* It will send, as things stand, before it has observed another response.
WillSend(place, ans, look, wait, rest, reset, time) ==
    \/ place = "sending"
    \/ place = "throttled" /\ wait < time
    \/ place = "comparing" /\ (~Low(look) \/ reset < time)
    \/ place \in {"idle", "loading", "deciding", "backing off"} /\ (~Low(rest) \/ reset < time)
    \/ place = "observing" /\ ~(ans.reset < time) /\ ~Low(rest)

Twice == {c \in Calls : HidesTwice(at[c], answer[c], left)}
Hiding == {c \in Calls : HidesOnce(at[c], answer[c], left)}
Sending == {c \in Calls : WillSend(at[c], answer[c], loaded[c], pause[c], remain, resetIn, left)}

\* Twice the errors that n calls can still make, a of them hiding twice and b
\* once, after all that will send have sent.
Worth(n, a, b) == 2 * a * (2 * n - a) + 2 * b * (n - a) - b * (b - 1)

Covered(n, errs, a, b, s, gone) ==
    errs < LowBudget => 2 * (LowBudget - errs) + Worth(n, a, b) + 2 * s <= 2 * n * n + 2 * gone

Overdrawn == Covered(Cardinality(Calls), errors, Cardinality(Twice), Cardinality(Hiding), Cardinality(Sending), lost)

BudgetInv == BudgetTypeOK /\ Overdrawn

LEMMA WorthOfFirst ==
    ASSUME NEW n \in Nat, NEW a \in Nat, NEW b \in Nat, a >= 1, a + b <= n
    PROVE  Worth(n, a - 1, b + 1) + 2 * (n - a - b) <= Worth(n, a, b)
BY DEF Worth

LEMMA WorthOfSecond ==
    ASSUME NEW n \in Nat, NEW a \in Nat, NEW b \in Nat, b >= 1, a + b <= n
    PROVE  Worth(n, a, b - 1) + 2 * (n - a - b + 1) <= Worth(n, a, b)
BY DEF Worth

LEMMA WorthOfBoth ==
    ASSUME NEW n \in Nat, NEW a \in Nat, NEW b \in Nat, a >= 1, a + b <= n
    PROVE  Worth(n, a - 1, b) + 2 <= Worth(n, a, b)
BY DEF Worth

LEMMA WorthAtMost ==
    ASSUME NEW n \in Nat, NEW a \in Nat, NEW b \in Nat, a + b < n
    PROVE  2 + Worth(n, a, b) + 2 * (n - a - b - 1) <= 2 * n * n
BY DEF Worth

LEMMA WorthFades ==
    ASSUME NEW n \in Nat, NEW a \in Nat, NEW b \in Nat, NEW x \in Nat, NEW y \in Nat,
           x <= a, a + b <= n, y <= b + x
    PROVE  Worth(n, a - x, b + x - y) + 2 * y <= Worth(n, a, b)
<1>1. Worth(n, a - x, b + x) <= Worth(n, a, b)
    BY DEF Worth
<1>2. \A d, e \in Nat : d + e <= n /\ y <= e => Worth(n, d, e - y) + 2 * y <= Worth(n, d, e)
    BY DEF Worth
<1>3. Worth(n, a - x, b + x - y) + 2 * y <= Worth(n, a - x, b + x)
    BY <1>2
<1>4. /\ Worth(n, a, b) \in Int /\ Worth(n, a - x, b + x) \in Int
      /\ Worth(n, a - x, b + x - y) \in Int
    BY DEF Worth
<1> QED
    BY <1>1, <1>3, <1>4

(* Counting calls.                                                         *)
LEMMA TogetherApart ==
    ASSUME NEW A, NEW B, IsFiniteSet(A), IsFiniteSet(B), A \cap B = {}
    PROVE  /\ IsFiniteSet(A \cup B) /\ Cardinality(A \cup B) \in Nat
           /\ Cardinality(A) \in Nat /\ Cardinality(B) \in Nat
           /\ Cardinality(A \cup B) = Cardinality(A) + Cardinality(B)
<1>1. IsFiniteSet(A \cup B) /\ Cardinality(A \cup B) = Cardinality(A) + Cardinality(B) - Cardinality(A \cap B)
    BY FS_Union
<1>2. Cardinality(A \cap B) = 0
    BY FS_EmptySet
<1>3. Cardinality(A) \in Nat /\ Cardinality(B) \in Nat /\ Cardinality(A \cup B) \in Nat
    BY <1>1, FS_CardinalityType
<1> QED
    BY <1>1, <1>2, <1>3

(* Sets of calls that are apart are together no more than the calls.       *)
LEMMA ApartFit ==
    ASSUME IsFiniteSet(Calls), NEW A \in SUBSET Calls, NEW B \in SUBSET Calls, NEW S \in SUBSET Calls,
           A \cap B = {}, A \cap S = {}, B \cap S = {}
    PROVE  /\ Cardinality(A) \in Nat /\ Cardinality(B) \in Nat /\ Cardinality(S) \in Nat
           /\ Cardinality(Calls) \in Nat
           /\ Cardinality(A) + Cardinality(B) + Cardinality(S) <= Cardinality(Calls)
<1>1. IsFiniteSet(A) /\ IsFiniteSet(B) /\ IsFiniteSet(S)
    BY FS_Subset
<1>2. Cardinality(A) \in Nat /\ Cardinality(B) \in Nat /\ Cardinality(S) \in Nat /\ Cardinality(Calls) \in Nat
    BY <1>1, FS_CardinalityType
<1>3. IsFiniteSet(A \cup B) /\ Cardinality(A \cup B) = Cardinality(A) + Cardinality(B)
    BY <1>1, TogetherApart
<1>4. (A \cup B) \cap S = {}
    OBVIOUS
<1>5. Cardinality((A \cup B) \cup S) = Cardinality(A \cup B) + Cardinality(S)
    BY ONLY <1>1, <1>3, <1>4, TogetherApart, Zenon
<1>6. (A \cup B) \cup S \in SUBSET Calls
    OBVIOUS
<1>7. Cardinality((A \cup B) \cup S) <= Cardinality(Calls)
    BY <1>6, FS_Subset
<1> QED
    BY <1>2, <1>3, <1>5, <1>7

(* What the debt does when the sets change: each is one kind of step.      *)
Apart(A, B, S) ==
    /\ A \in SUBSET Calls /\ B \in SUBSET Calls /\ S \in SUBSET Calls
    /\ A \cap B = {} /\ A \cap S = {} /\ B \cap S = {}

CoveredBy(errs, A, B, S, gone) ==
    Covered(Cardinality(Calls), errs, Cardinality(A), Cardinality(B), Cardinality(S), gone)

LEMMA ApartSizes ==
    ASSUME BudgetAssumption, NEW A, NEW B, NEW S, Apart(A, B, S)
    PROVE  /\ IsFiniteSet(Calls) /\ IsFiniteSet(A) /\ IsFiniteSet(B) /\ IsFiniteSet(S)
           /\ Cardinality(A) \in Nat /\ Cardinality(B) \in Nat /\ Cardinality(S) \in Nat
           /\ Cardinality(Calls) \in Nat
           /\ Cardinality(A) + Cardinality(B) + Cardinality(S) <= Cardinality(Calls)
           /\ LowBudget \in Nat
<1>1. IsFiniteSet(Calls) /\ LowBudget \in Nat
    BY DEF BudgetAssumption
<1>2. IsFiniteSet(A) /\ IsFiniteSet(B) /\ IsFiniteSet(S)
    BY <1>1, FS_Subset DEF Apart
<1> QED
    BY <1>1, <1>2, ApartFit DEF Apart

LEMMA WorthIsInt ==
    ASSUME NEW n \in Int, NEW a \in Int, NEW b \in Int
    PROVE  Worth(n, a, b) \in Int
BY DEF Worth

(* What is owed, with the product as a number.                             *)
LEMMA DebtPaid ==
    ASSUME NEW e \in Nat, NEW n \in Nat, NEW a \in Nat, NEW b \in Nat, NEW s \in Nat,
           NEW x \in Nat, NEW y \in Nat, NEW r \in Nat, NEW d \in Nat, NEW g \in Nat, NEW h \in Nat, g <= h,
           Worth(n, x, y) + 2 * d <= Worth(n, a, b), r <= s + d + (h - g), LowBudget \in Nat,
           2 * (LowBudget - e) + Worth(n, a, b) + 2 * s <= 2 * n * n + 2 * g
    PROVE  2 * (LowBudget - e) + Worth(n, x, y) + 2 * r <= 2 * n * n + 2 * h
<1> DEFINE w == Worth(n, a, b)  v == Worth(n, x, y)  q == 2 * n * n
<1>1. w \in Int /\ v \in Int /\ q \in Int
    BY DEF Worth
<1>2. 2 * (LowBudget - e) + w + 2 * s <= q + 2 * g /\ v + 2 * d <= w
    OBVIOUS
<1> HIDE DEF w, v, q
<1>3. 2 * (LowBudget - e) + v + 2 * r <= q + 2 * h
    BY <1>1, <1>2
<1> QED
    BY <1>3 DEF w, v, q

LEMMA DebtMoves ==
    ASSUME NEW e \in Nat, NEW n \in Nat, NEW a \in Nat, NEW b \in Nat, NEW s \in Nat, NEW r \in Nat, r <= s - 1,
           NEW g \in Nat, LowBudget \in Nat,
           2 * (LowBudget - e) + Worth(n, a, b) + 2 * s <= 2 * n * n + 2 * g
    PROVE  2 * (LowBudget - (e - 1)) + Worth(n, a, b) + 2 * r <= 2 * n * n + 2 * g
<1> DEFINE w == Worth(n, a, b)  q == 2 * n * n
<1>1. w \in Int /\ q \in Int
    BY DEF Worth
<1>2. 2 * (LowBudget - e) + w + 2 * s <= q + 2 * g
    OBVIOUS
<1> HIDE DEF w, q
<1>3. 2 * (LowBudget - (e - 1)) + w + 2 * r <= q + 2 * g
    BY <1>1, <1>2
<1> QED
    BY <1>3 DEF w, q

LEMMA SetsChange ==
    ASSUME BudgetAssumption, NEW A, NEW B, NEW S, Apart(A, B, S), NEW X, NEW Y, NEW R, Apart(X, Y, R),
           NEW e \in Nat, NEW g \in Nat, NEW h \in Nat, g <= h, NEW d \in Nat,
           Worth(Cardinality(Calls), Cardinality(X), Cardinality(Y)) + 2 * d
             <= Worth(Cardinality(Calls), Cardinality(A), Cardinality(B)),
           Cardinality(R) <= Cardinality(S) + d + (h - g),
           CoveredBy(e, A, B, S, g)
    PROVE  CoveredBy(e, X, Y, R, h)
<1> SUFFICES ASSUME e < LowBudget
             PROVE  2 * (LowBudget - e) + Worth(Cardinality(Calls), Cardinality(X), Cardinality(Y))
                      + 2 * Cardinality(R) <= 2 * Cardinality(Calls) * Cardinality(Calls) + 2 * h
    BY DEF CoveredBy, Covered
<1>1. 2 * (LowBudget - e) + Worth(Cardinality(Calls), Cardinality(A), Cardinality(B)) + 2 * Cardinality(S)
          <= 2 * Cardinality(Calls) * Cardinality(Calls) + 2 * g
    BY DEF CoveredBy, Covered
<1>2. /\ Cardinality(A) \in Nat /\ Cardinality(B) \in Nat /\ Cardinality(S) \in Nat
      /\ Cardinality(Calls) \in Nat /\ LowBudget \in Nat
    BY ApartSizes
<1>3. Cardinality(X) \in Nat /\ Cardinality(Y) \in Nat /\ Cardinality(R) \in Nat
    BY ApartSizes
<1> QED
    BY <1>1, <1>2, <1>3, DebtPaid

LEMMA FewerSend ==
    ASSUME BudgetAssumption, NEW A, NEW B, NEW S, NEW T, Apart(A, B, S), Apart(A, B, T), NEW c, T \subseteq S \cup {c},
           NEW e \in Nat, NEW g \in Nat, NEW h \in Nat, g <= h, g < h \/ T \subseteq S, CoveredBy(e, A, B, S, g)
    PROVE  CoveredBy(e, A, B, T, h)
<1>1. Cardinality(S) \in Nat /\ Cardinality(T) \in Nat /\ IsFiniteSet(S) /\ IsFiniteSet(T)
    BY ApartSizes
<1>2. IsFiniteSet(S \cup {c}) /\ Cardinality(S \cup {c}) <= Cardinality(S) + 1
    BY <1>1, FS_AddElement
<1>3. Cardinality(T) <= Cardinality(S) + (h - g)
    <2>1. CASE T \subseteq S
        BY <1>1, <2>1, FS_Subset
    <2>2. CASE g < h
        <3>1. Cardinality(T) <= Cardinality(S \cup {c}) /\ Cardinality(S \cup {c}) \in Nat
            BY <1>2, FS_Subset, FS_CardinalityType
        <3> QED
            BY <1>1, <1>2, <2>2, <3>1
    <2> QED
        BY <2>1, <2>2
<1>4. Worth(Cardinality(Calls), Cardinality(A), Cardinality(B)) \in Int
    BY ApartSizes, WorthIsInt
<1> QED
    BY <1>1, <1>3, <1>4, SetsChange, SMTT(40)

(* A call that hides twice has its remain observed.                        *)
LEMMA FirstShown ==
    ASSUME BudgetAssumption, NEW A, NEW B, NEW S, Apart(A, B, S), NEW c \in A,
           NEW R, Apart(A \ {c}, B \cup {c}, R),
           NEW e \in Nat, NEW g \in Nat, CoveredBy(e, A, B, S, g)
    PROVE  CoveredBy(e, A \ {c}, B \cup {c}, R, g)
<1> DEFINE n == Cardinality(Calls)  a == Cardinality(A)  b == Cardinality(B)
<1>1. c \notin B
    BY DEF Apart
<1>2. Cardinality(A \ {c}) = a - 1 /\ Cardinality(B \cup {c}) = b + 1
    BY <1>1, ApartSizes, FS_AddElement, FS_RemoveElement
<1>3. /\ a \in Nat /\ b \in Nat /\ n \in Nat /\ a + b <= n /\ Cardinality(S) \in Nat
    BY ApartSizes
<1>4. Cardinality(R) \in Nat /\ a - 1 \in Nat /\ (a - 1) + (b + 1) + Cardinality(R) <= n
    BY <1>2, ApartSizes
<1>5. Cardinality(R) <= n - a - b /\ n - a - b \in Nat /\ a >= 1
    BY <1>3, <1>4
<1>6. Worth(n, Cardinality(A \ {c}), Cardinality(B \cup {c})) + 2 * (n - a - b) <= Worth(n, a, b)
    BY <1>2, <1>3, <1>5, WorthOfFirst
<1>7. Cardinality(R) <= Cardinality(S) + (n - a - b) + (g - g)
    BY <1>3, <1>4, <1>5
<1> HIDE DEF n, a, b
<1>8. n - a - b \in Nat /\ g <= g
    BY <1>5
<1> QED
    BY <1>6, <1>7, <1>8, SetsChange DEF n, a, b

(* A call that hides once no longer does.                                  *)
LEMMA LastShown ==
    ASSUME BudgetAssumption, NEW A, NEW B, NEW S, Apart(A, B, S), NEW c \in B,
           NEW R, Apart(A, B \ {c}, R),
           NEW e \in Nat, NEW g \in Nat, NEW h \in Nat, g <= h, CoveredBy(e, A, B, S, g)
    PROVE  CoveredBy(e, A, B \ {c}, R, h)
<1> DEFINE n == Cardinality(Calls)  a == Cardinality(A)  b == Cardinality(B)
<1>2. Cardinality(B \ {c}) = b - 1
    BY ApartSizes, FS_RemoveElement
<1>3. /\ a \in Nat /\ b \in Nat /\ n \in Nat /\ a + b <= n /\ Cardinality(S) \in Nat
    BY ApartSizes
<1>4. Cardinality(R) \in Nat /\ b - 1 \in Nat /\ a + (b - 1) + Cardinality(R) <= n
    BY <1>2, ApartSizes
<1>5. Cardinality(R) <= n - a - b + 1 /\ n - a - b + 1 \in Nat /\ b >= 1
    BY <1>3, <1>4
<1>6. Worth(n, a, Cardinality(B \ {c})) + 2 * (n - a - b + 1) <= Worth(n, a, b)
    BY <1>2, <1>3, <1>5, WorthOfSecond
<1>7. Cardinality(R) <= Cardinality(S) + (n - a - b + 1) + (h - g)
    BY <1>3, <1>4, <1>5
<1> HIDE DEF n, a, b
<1>8. n - a - b + 1 \in Nat
    BY <1>5
<1> QED
    BY <1>6, <1>7, <1>8, SetsChange DEF n, a, b

(* The response of a call that hides twice is lost.                        *)
LEMMA BothLost ==
    ASSUME BudgetAssumption, NEW A, NEW B, NEW S, Apart(A, B, S), NEW c \in A,
           NEW R, Apart(A \ {c}, B, R), R \subseteq S \cup {c},
           NEW e \in Nat, NEW g \in Nat, CoveredBy(e, A, B, S, g)
    PROVE  CoveredBy(e, A \ {c}, B, R, g + 1)
<1> DEFINE n == Cardinality(Calls)  a == Cardinality(A)  b == Cardinality(B)
<1>2. Cardinality(A \ {c}) = a - 1
    BY ApartSizes, FS_RemoveElement
<1>3. /\ a \in Nat /\ b \in Nat /\ n \in Nat /\ a + b <= n /\ Cardinality(S) \in Nat /\ Cardinality(R) \in Nat
      /\ IsFiniteSet(S)
    BY ApartSizes
<1>4. a - 1 \in Nat
    BY <1>2, ApartSizes
<1>5. Cardinality(R) <= Cardinality(S) + 1
    <2>1. IsFiniteSet(S \cup {c}) /\ Cardinality(S \cup {c}) <= Cardinality(S) + 1
        <3>1. IsFiniteSet(S) /\ Cardinality(S) \in Nat
            BY <1>3
        <3> QED
            BY ONLY <3>1, FS_AddElement, SMTT(40)
    <2>2. Cardinality(R) <= Cardinality(S \cup {c}) /\ Cardinality(S \cup {c}) \in Nat
        BY <2>1, FS_Subset, FS_CardinalityType
    <2> QED
        BY <1>3, <2>1, <2>2
<1>6. Worth(n, Cardinality(A \ {c}), b) + 2 <= Worth(n, a, b)
    <2>1. a >= 1
        BY <1>3, <1>4
    <2> QED
        BY <1>2, <1>3, <2>1, WorthOfBoth
<1>7. Cardinality(R) <= Cardinality(S) + 1 + (g + 1 - g)
    BY <1>3, <1>5
<1>8. Worth(n, Cardinality(A \ {c}), b) + 2 * 1 <= Worth(n, a, b)
    BY <1>6
<1>9. g + 1 \in Nat /\ g <= g + 1
    OBVIOUS
<1> HIDE DEF n, a, b
<1> QED
    BY <1>7, <1>8, <1>9, SetsChange DEF n, a, b

(* Time passes: what was hidden may show, and those calls send.            *)
LEMMA SetsFade ==
    ASSUME BudgetAssumption, NEW A, NEW B, NEW S, Apart(A, B, S), NEW X, NEW Y, NEW R, Apart(X, Y, R),
           X \subseteq A, A \ X \subseteq Y, Y \subseteq B \cup (A \ X), R \subseteq S \cup (B \ Y),
           NEW e \in Nat, NEW g \in Nat, CoveredBy(e, A, B, S, g)
    PROVE  CoveredBy(e, X, Y, R, g)
<1> DEFINE n == Cardinality(Calls)  a == Cardinality(A)  b == Cardinality(B)
           x == Cardinality(A \ X)  y == Cardinality(B \ Y)
<1>1. /\ a \in Nat /\ b \in Nat /\ n \in Nat /\ a + b <= n /\ Cardinality(S) \in Nat /\ Cardinality(R) \in Nat
      /\ Cardinality(X) \in Nat /\ Cardinality(Y) \in Nat
      /\ IsFiniteSet(A) /\ IsFiniteSet(B) /\ IsFiniteSet(S) /\ IsFiniteSet(X) /\ IsFiniteSet(Y)
    BY ApartSizes
<1>2. /\ IsFiniteSet(A \ X) /\ IsFiniteSet(B \ Y) /\ IsFiniteSet(B \cap Y)
      /\ x \in Nat /\ y \in Nat /\ Cardinality(B \cap Y) \in Nat
    BY <1>1, FS_Subset, FS_CardinalityType
<1>3. a = Cardinality(X) + x
    <2>1. A = X \cup (A \ X) /\ X \cap (A \ X) = {}
        OBVIOUS
    <2> QED
        BY <1>1, <1>2, <2>1, TogetherApart
<1>4. b = Cardinality(B \cap Y) + y
    <2>1. B = (B \cap Y) \cup (B \ Y) /\ (B \cap Y) \cap (B \ Y) = {}
        OBVIOUS
    <2> QED
        BY <1>1, <1>2, <2>1, TogetherApart
<1>5. Cardinality(Y) = Cardinality(B \cap Y) + x
    <2>1. Y = (B \cap Y) \cup (A \ X) /\ (B \cap Y) \cap (A \ X) = {}
        BY DEF Apart
    <2> QED
        BY <1>1, <1>2, <2>1, TogetherApart
<1>6. Cardinality(R) <= Cardinality(S) + y
    <2>1. S \cap (B \ Y) = {}
        BY DEF Apart
    <2>2. IsFiniteSet(S \cup (B \ Y)) /\ Cardinality(S \cup (B \ Y)) = Cardinality(S) + y
        BY <1>1, <1>2, <2>1, TogetherApart
    <2> QED
        BY <2>2, FS_Subset
<1>7. x <= a /\ y <= b + x /\ Cardinality(X) = a - x /\ Cardinality(Y) = b + x - y
    BY <1>1, <1>2, <1>3, <1>4, <1>5
<1>8. Worth(n, Cardinality(X), Cardinality(Y)) + 2 * y <= Worth(n, a, b)
    BY <1>1, <1>2, <1>7, WorthFades
<1>9. Cardinality(R) <= Cardinality(S) + y + (g - g) /\ g <= g
    BY <1>1, <1>2, <1>6
<1> HIDE DEF n, a, b, x
<1> QED
    BY <1>2, <1>8, <1>9, SetsChange DEF n, a, b, x

LEMMA OneSends ==
    ASSUME BudgetAssumption, NEW A, NEW B, NEW S, NEW c \in S, Apart(A, B, S), NEW T, T \subseteq S \ {c},
           NEW e \in Nat, e >= 1, NEW g \in Nat, e < LowBudget, CoveredBy(e, A, B, S, g)
    PROVE  CoveredBy(e - 1, A, B, T, g)
<1>1. IsFiniteSet(S \ {c}) /\ Cardinality(S \ {c}) = Cardinality(S) - 1
    BY ApartSizes, FS_RemoveElement
<1>2. IsFiniteSet(T) /\ Cardinality(T) <= Cardinality(S) - 1 /\ Cardinality(T) \in Nat
    BY <1>1, FS_Subset, FS_CardinalityType
<1>3. 2 * (LowBudget - e) + Worth(Cardinality(Calls), Cardinality(A), Cardinality(B)) + 2 * Cardinality(S)
          <= 2 * Cardinality(Calls) * Cardinality(Calls) + 2 * g
    BY DEF CoveredBy, Covered
<1>4. 2 * (LowBudget - (e - 1)) + Worth(Cardinality(Calls), Cardinality(A), Cardinality(B)) + 2 * Cardinality(T)
          <= 2 * Cardinality(Calls) * Cardinality(Calls) + 2 * g
    BY <1>2, <1>3, ApartSizes, DebtMoves
<1> QED
    BY <1>4 DEF CoveredBy, Covered

LEMMA FirstLowError ==
    ASSUME BudgetAssumption, NEW A, NEW B, NEW S, NEW c \in Calls, Apart(A, B, S),
           c \notin A, c \notin B, c \notin S, NEW g \in Nat
    PROVE  CoveredBy(LowBudget - 1, A, B, S, g)
<1> DEFINE n == Cardinality(Calls)  a == Cardinality(A)  b == Cardinality(B)  s == Cardinality(S)
<1>1. Apart(A, B, S \cup {c})
    BY DEF Apart
<1>2. Cardinality(S \cup {c}) = s + 1
    BY ApartSizes, FS_AddElement
<1>3. a \in Nat /\ b \in Nat /\ s \in Nat /\ n \in Nat /\ a + b + s + 1 <= n
    BY <1>1, <1>2, ApartSizes
<1>4. 2 + Worth(n, a, b) + 2 * (n - a - b - 1) <= 2 * n * n
    BY <1>3, WorthAtMost
<1>5. Worth(n, a, b) \in Int /\ LowBudget \in Nat
    BY <1>3, WorthIsInt, ApartSizes
<1>6. s <= n - a - b - 1
    BY <1>3
<1> HIDE DEF n, a, b, s
<1>7. 2 * (LowBudget - (LowBudget - 1)) + Worth(n, a, b) + 2 * s <= 2 * n * n + 2 * g
    <2> DEFINE w == Worth(n, a, b)  q == n * n
    <2>1. w \in Int /\ q \in Int /\ 2 * n * n = 2 * q
        BY <1>3, <1>5
    <2> HIDE DEF w, q
    <2> QED
        BY <2>1, <1>3, <1>4, <1>5, <1>6 DEF w, q
<1> QED
    BY <1>7 DEF CoveredBy, Covered, n, a, b, s

-----------------------------------------------------------------------------
(* What the steps do to the sets.                                          *)

\* The other calls stay as they are.
Elsewhere(c) ==
    \A d \in Calls \ {c} : /\ at'[d] = at[d] /\ answer'[d] = answer[d]
                           /\ loaded'[d] = loaded[d] /\ pause'[d] = pause[d]

\* The budget the calls see hides no more than it did.
NoWorse == (Low(remain) => Low(remain')) /\ (resetIn' < left => resetIn < left)

LEMMA BudgetTypeStep ==
    ASSUME BudgetAssumption, BudgetTypeOK, [BudgetNext]_budgetVars
    PROVE  BudgetTypeOK'
<1>0. /\ Limit \in Nat /\ Window \in Nat /\ Window >= 1 /\ LowBudget \in 1..Limit /\ Limit >= 1
    BY DEF BudgetAssumption
<1>n. NoAnswer \in Responses
    BY <1>0 DEF NoAnswer, Responses
<1>m. ASSUME at \in [Calls -> Places], NEW c \in Calls, NEW from, NEW to, Goes(c, from, to), to \in Places
      PROVE  at' \in [Calls -> Places]
    BY <1>m DEF Goes
<1>p. /\ "idle" \in Places /\ "loading" \in Places /\ "comparing" \in Places /\ "throttled" \in Places
      /\ "sending" \in Places /\ "waiting" \in Places /\ "observing" \in Places
      /\ "deciding" \in Places /\ "backing off" \in Places
    BY DEF Places
<1> USE DEF BudgetTypeOK
<1>1. CASE TimePasses
    <2>1. left' \in 1..Window /\ errors' \in 0..Limit /\ resetIn' \in Nat
        BY <1>0, <1>1 DEF TimePasses, Less
    <2>2. pause' \in [Calls -> Nat]
        <3>1. \A c \in Calls : (IF pause[c] = 0 THEN 0 ELSE pause[c] - 1) \in Nat
            OBVIOUS
        <3> QED
            BY <1>1, <3>1 DEF TimePasses, Less
    <2> QED
        BY <1>1, <2>1, <2>2 DEF TimePasses
<1>2. ASSUME NEW c \in Calls, Start(c) PROVE BudgetTypeOK'
    <2>0. at' \in [Calls -> Places]
        BY <1>m, <1>p, <1>2 DEF Start
    <2> QED
        BY <2>0, <1>2 DEF Start, esi, budget
<1>3. ASSUME NEW c \in Calls, LoadRemain(c) PROVE BudgetTypeOK'
    <2>0. at' \in [Calls -> Places]
        BY <1>m, <1>p, <1>3 DEF LoadRemain
    <2> QED
        BY <2>0, <1>3 DEF LoadRemain, esi, budget
<1>4. ASSUME NEW c \in Calls, Throttle(c) PROVE BudgetTypeOK'
    <2>0. at' \in [Calls -> Places]
        BY <1>m, <1>p, <1>4 DEF Throttle
    <2>1. loaded' \in [Calls -> -1..Limit]
        <3>1. -1 \in -1..Limit
            BY <1>0
        <3> QED
            BY <1>4, <3>1 DEF Throttle
    <2>2. pause' \in [Calls -> Nat]
        <3>1. resetIn + 1 \in Nat
            OBVIOUS
        <3> QED
            BY <1>4, <3>1 DEF Throttle
    <2> QED
        BY <2>0, <1>4, <2>1, <2>2 DEF Throttle, esi, budget
<1>5. ASSUME NEW c \in Calls, ThrottleEnds(c) PROVE BudgetTypeOK'
    <2>0. at' \in [Calls -> Places]
        BY <1>m, <1>p, <1>5 DEF ThrottleEnds
    <2> QED
        BY <2>0, <1>5 DEF ThrottleEnds, esi, budget
<1>6. ASSUME NEW c \in Calls, Answer(c) PROVE BudgetTypeOK'
    <2>0. at' \in [Calls -> Places]
        BY <1>m, <1>p, <1>6 DEF Answer
    <2>1. errors' \in 0..Limit
        BY <1>0, <1>6 DEF Answer
    <2>2. answer' \in [Calls -> Responses]
        <3>1. \A k \in 0..Limit, status \in {"ok", "refused", "failing", "limited"} :
                Response(status, k) \in Responses
            BY <1>0 DEF Response, Responses
        <3>2. errors \in 0..Limit /\ 0 \in 0..Limit /\ (errors > 0 => errors - 1 \in 0..Limit)
            BY <1>0
        <3>3. PICK ans \in Responses : answer' = [answer EXCEPT ![c] = ans]
            BY <1>6, <3>1, <3>2 DEF Answer
        <3> QED
            BY <3>3
    <2> QED
        BY <2>0, <1>6, <2>1, <2>2 DEF Answer, budget
<1>7. ASSUME NEW c \in Calls, ObserveRemain(c) PROVE BudgetTypeOK'
    <2>0. at' \in [Calls -> Places]
        BY <1>m, <1>p, <1>7 DEF ObserveRemain
    <2>1. answer[c].remain \in -1..Limit
        <3>1. answer[c] \in Responses
            OBVIOUS
        <3>2. answer[c].remain \in 0..Limit
            BY ONLY <3>1 DEF Responses
        <3> QED
            BY <1>0, <3>2
    <2> QED
        BY <2>0, <1>7, <2>1 DEF ObserveRemain, esi
<1>8. ASSUME NEW c \in Calls, ObserveReset(c) PROVE BudgetTypeOK'
    <2>0. at' \in [Calls -> Places]
        BY <1>m, <1>p, <1>8 DEF ObserveReset
    <2>1. answer[c] \in Responses
        OBVIOUS
    <2>2. answer[c].reset \in Nat
        BY ONLY <2>1 DEF Responses
    <2> QED
        BY <2>0, <1>8, <2>2 DEF ObserveReset, esi
<1>9. ASSUME NEW c \in Calls, ReturnAnswer(c) PROVE BudgetTypeOK'
    <2>0. at' \in [Calls -> Places]
        BY <1>m, <1>p, <1>9 DEF ReturnAnswer
    <2> QED
        BY <2>0, <1>n, <1>9 DEF ReturnAnswer, esi, budget
<1>10. ASSUME NEW c \in Calls, Retry(c) PROVE BudgetTypeOK'
    <2>0. at' \in [Calls -> Places]
        BY <1>m, <1>p, <1>10 DEF Retry
    <2>1. pause' \in [Calls -> Nat]
        <3>1. answer[c] \in Responses
            OBVIOUS
        <3>2. answer[c].reset \in Nat
            BY ONLY <3>1 DEF Responses
        <3>3. PICK w \in {1, answer[c].reset} : pause' = [pause EXCEPT ![c] = w]
            BY <1>10 DEF Retry
        <3>4. w \in Nat
            BY <3>2, <3>3
        <3> QED
            BY <3>3, <3>4
    <2> QED
        BY <2>0, <1>n, <1>10, <2>1 DEF Retry, esi, budget
<1>11. ASSUME NEW c \in Calls, LoseResponse(c) PROVE BudgetTypeOK'
    <2>0. at' \in [Calls -> Places]
        BY <1>m, <1>p, <1>11 DEF LoseResponse
    <2>1. pause' \in [Calls -> Nat] /\ attempt' \in [Calls -> Nat]
        BY <1>11 DEF LoseResponse
    <2>2. lost' \in Nat
        <3>1. lost' = lost + 1 /\ lost \in Nat
            BY <1>11 DEF LoseResponse
        <3> QED
            BY ONLY <3>1
    <2>3. answer' \in [Calls -> Responses]
        BY <1>n, <1>11 DEF LoseResponse
    <2>4. UNCHANGED <<left, errors, remain, resetIn, loaded>>
        BY <1>11 DEF LoseResponse, esi, budget
    <2> QED
        BY <2>0, <2>1, <2>2, <2>3, <2>4
<1>12. ASSUME NEW c \in Calls, TryAgain(c) PROVE BudgetTypeOK'
    <2>0. at' \in [Calls -> Places]
        BY <1>m, <1>p, <1>12 DEF TryAgain
    <2>1. attempt' \in [Calls -> Nat]
        <3>1. attempt[c] + 1 \in Nat
            OBVIOUS
        <3> QED
            BY <1>12, <3>1 DEF TryAgain
    <2> QED
        BY <2>0, <1>12, <2>1 DEF TryAgain, esi, budget
<1>13. CASE UNCHANGED budgetVars
    BY <1>13 DEF budgetVars, esi, budget, calling
<1> QED
    BY <1>1, <1>2, <1>3, <1>4, <1>5, <1>6, <1>7, <1>8, <1>9, <1>10, <1>11, <1>12, <1>13 DEF BudgetNext, Running

LEMMA OthersHide ==
    ASSUME NEW c \in Calls, Elsewhere(c), left' = left
    PROVE  Twice' \ {c} = Twice \ {c} /\ Hiding' \ {c} = Hiding \ {c}
BY DEF Elsewhere, Twice, Hiding

LEMMA OthersSend ==
    ASSUME BudgetTypeOK, BudgetTypeOK', NEW c \in Calls, Elsewhere(c), left' = left, NoWorse
    PROVE  Sending' \subseteq Sending \cup {c}
<1> SUFFICES ASSUME NEW d \in Calls, d # c, d \in Sending' PROVE d \in Sending
    BY DEF Sending
<1>1. at'[d] = at[d] /\ answer'[d] = answer[d] /\ loaded'[d] = loaded[d] /\ pause'[d] = pause[d]
    BY DEF Elsewhere
<1>2. WillSend(at[d], answer[d], loaded[d], pause[d], remain', resetIn', left)
    BY <1>1 DEF Sending
<1>3. WillSend(at[d], answer[d], loaded[d], pause[d], remain, resetIn, left)
    BY <1>2 DEF WillSend, NoWorse
<1> QED
    BY <1>3 DEF Sending

LEMMA SetsApart == Apart(Twice, Hiding, Sending)
BY DEF Apart, Twice, Hiding, Sending, HidesTwice, HidesOnce, WillSend

LEMMA SetsApartNext == Apart(Twice, Hiding, Sending)'
BY DEF Apart, Twice, Hiding, Sending, HidesTwice, HidesOnce, WillSend

(* Steps of one call that neither make an error nor take in a response.    *)
LEMMA QuietStep ==
    ASSUME BudgetAssumption, BudgetInv, BudgetTypeOK', NEW c \in Calls, Elsewhere(c), left' = left, NoWorse,
           errors' = errors, lost' = lost,
           c \in Twice' <=> c \in Twice, c \in Hiding' <=> c \in Hiding, c \in Sending' => c \in Sending
    PROVE  Overdrawn'
<1>1. Twice' = Twice /\ Hiding' = Hiding
    <2>1. Twice' \subseteq Calls /\ Hiding' \subseteq Calls /\ Twice \subseteq Calls /\ Hiding \subseteq Calls
        BY DEF Twice, Hiding
    <2> QED
        BY <2>1, OthersHide
<1>2. Sending' \subseteq Sending
    BY OthersSend DEF BudgetInv
<1>3. Apart(Twice, Hiding, Sending) /\ Apart(Twice, Hiding, Sending')
    BY <1>1, SetsApart, SetsApartNext DEF Apart
<1>4. CoveredBy(errors, Twice, Hiding, Sending, lost)
    BY DEF BudgetInv, Overdrawn, CoveredBy
<1>5. errors \in Nat /\ lost \in Nat
    BY DEF BudgetInv, BudgetTypeOK
<1>6. CoveredBy(errors, Twice, Hiding, Sending', lost)
    <2>1. lost <= lost /\ Sending' \subseteq Sending \cup {c}
        BY <1>2, <1>5
    <2> DEFINE R == Sending'  T == Twice  H == Hiding  S == Sending
    <2>2. Apart(T, H, S) /\ Apart(T, H, R) /\ R \subseteq S \cup {c} /\ R \subseteq S
        BY <1>2, <1>3, <2>1
    <2>3. CoveredBy(errors, T, H, S, lost)
        BY <1>4
    <2> HIDE DEF R, T, H, S
    <2>4. CoveredBy(errors, T, H, R, lost)
        BY <2>1, <2>2, <2>3, <1>5, FewerSend
    <2> QED
        BY <2>4 DEF R, T, H, S
<1> QED
    BY <1>1, <1>6 DEF Overdrawn, CoveredBy

(* A call that hid the low budget twice hides it once, as its remain is    *)
(* observed.                                                               *)
LEMMA ShowStep ==
    ASSUME BudgetAssumption, BudgetInv, NEW c \in Calls, Elsewhere(c), left' = left, errors' = errors, lost' = lost,
           c \in Twice, c \notin Twice', c \in Hiding'
    PROVE  Overdrawn'
<1> DEFINE A == Twice  B == Hiding  S == Sending  R == Sending'
<1>1. Twice' = A \ {c} /\ Hiding' = B \cup {c}
    BY OthersHide
<1>2. Apart(A, B, S) /\ Apart(A \ {c}, B \cup {c}, R) /\ c \in A
    BY <1>1, SetsApart, SetsApartNext DEF Apart
<1>3. CoveredBy(errors, A, B, S, lost)
    BY DEF BudgetInv, Overdrawn, CoveredBy
<1>4. errors \in Nat /\ lost \in Nat
    BY DEF BudgetInv, BudgetTypeOK
<1> HIDE DEF A, B, S, R
<1>5. CoveredBy(errors, A \ {c}, B \cup {c}, R, lost)
    BY <1>2, <1>3, <1>4, FirstShown
<1> QED
    BY <1>1, <1>5 DEF Overdrawn, CoveredBy, R

(* A call that hid it once no longer does, because its answer is observed  *)
(* or lost.                                                                *)
LEMMA ShownStep ==
    ASSUME BudgetAssumption, BudgetInv, BudgetTypeOK', NEW c \in Calls, Elsewhere(c), left' = left,
           errors' = errors, lost <= lost',
           c \in Hiding, c \notin Hiding', c \notin Twice'
    PROVE  Overdrawn'
<1> DEFINE A == Twice  B == Hiding  S == Sending  R == Sending'  h == lost'
<1>0. c \notin A
    BY DEF Twice, Hiding, HidesTwice, HidesOnce
<1>1. Twice' = A /\ Hiding' = B \ {c}
    BY <1>0, OthersHide
<1>2. Apart(A, B, S) /\ Apart(A, B \ {c}, R) /\ c \in B
    BY <1>1, SetsApart, SetsApartNext DEF Apart
<1>3. CoveredBy(errors, A, B, S, lost)
    BY DEF BudgetInv, Overdrawn, CoveredBy
<1>4. errors \in Nat /\ lost \in Nat /\ h \in Nat /\ lost <= h
    BY DEF BudgetInv, BudgetTypeOK
<1> HIDE DEF A, B, S, R, h
<1>5. CoveredBy(errors, A, B \ {c}, R, h)
    BY <1>2, <1>3, <1>4, LastShown
<1> QED
    BY <1>1, <1>5 DEF Overdrawn, CoveredBy, R, h

LEMMA LoseStep ==
    ASSUME BudgetAssumption, BudgetInv, BudgetTypeOK', NEW c \in Calls, LoseResponse(c)
    PROVE  Overdrawn'
<1> DEFINE A == Twice  B == Hiding  S == Sending  R == Sending'
<1>1. Elsewhere(c) /\ left' = left /\ errors' = errors /\ remain' = remain /\ resetIn' = resetIn
    BY DEF LoseResponse, Goes, Elsewhere, esi, budget, BudgetInv, BudgetTypeOK
<1>2. at[c] = "waiting" /\ at'[c] \in {"backing off", "idle"}
    BY DEF LoseResponse, Goes, BudgetInv, BudgetTypeOK
<1>3. c \notin Twice' /\ c \notin Hiding' /\ NoWorse
    BY <1>1, <1>2 DEF Twice, Hiding, HidesTwice, HidesOnce, NoWorse
<1>4. errors \in Nat /\ lost \in Nat
    BY DEF BudgetInv, BudgetTypeOK
<1>5. lost' = lost + 1
    BY DEF LoseResponse
<1>6. R \subseteq S \cup {c}
    BY <1>1, <1>3, OthersSend DEF BudgetInv
<1>7. CoveredBy(errors, A, B, S, lost) /\ Apart(A, B, S)
    BY SetsApart DEF BudgetInv, Overdrawn, CoveredBy
<1>8. CASE c \in Twice
    <2>1. c \notin Hiding
        BY <1>8 DEF Twice, Hiding, HidesTwice, HidesOnce
    <2>2. Twice' = A \ {c} /\ Hiding' = B
        BY <1>1, <1>3, <2>1, OthersHide
    <2>3. Apart(A \ {c}, B, R) /\ c \in A
        BY <1>8, <2>2, SetsApartNext DEF Apart
    <2> HIDE DEF A, B, S, R
    <2>4. CoveredBy(errors, A \ {c}, B, R, lost + 1)
        BY <1>4, <1>6, <1>7, <2>3, BothLost
    <2> QED
        BY <1>1, <1>5, <2>2, <2>4 DEF Overdrawn, CoveredBy, R
<1>9. CASE c \in Hiding
    BY <1>1, <1>3, <1>4, <1>5, <1>9, ShownStep
<1>10. CASE c \notin Twice /\ c \notin Hiding
    <2>1. Twice' = A /\ Hiding' = B
        BY <1>1, <1>3, <1>10, OthersHide
    <2>2. Apart(A, B, R)
        BY <2>1, SetsApartNext DEF Apart
    <2> HIDE DEF A, B, S, R
    <2>3. lost + 1 \in Nat /\ lost <= lost + 1 /\ lost < lost + 1
        BY <1>4
    <2>4. CoveredBy(errors, A, B, R, lost + 1)
        BY <1>4, <1>6, <1>7, <2>2, <2>3, FewerSend
    <2> QED
        BY <1>1, <1>5, <2>1, <2>4 DEF Overdrawn, CoveredBy, R
<1> QED
    BY <1>8, <1>9, <1>10

LEMMA TimeStep ==
    ASSUME BudgetAssumption, BudgetInv, BudgetTypeOK', TimePasses
    PROVE  Overdrawn'
<1> DEFINE A == Twice  B == Hiding  S == Sending  X == Twice'  Y == Hiding'  R == Sending'
<1>1. /\ errors \in Nat /\ lost \in Nat /\ left \in Nat /\ left >= 1 /\ resetIn \in Nat /\ pause \in [Calls -> Nat]
      /\ answer \in [Calls -> Responses]
    BY DEF BudgetInv, BudgetTypeOK
<1>2. CASE left = 1
    <2>1. errors' = Limit /\ LowBudget <= Limit /\ Limit \in Nat /\ LowBudget \in Nat
        BY <1>2 DEF TimePasses, BudgetAssumption
    <2> QED
        BY <2>1 DEF Overdrawn, Covered
<1>3. CASE left # 1
    <2>1. /\ left' = left - 1 /\ errors' = errors /\ lost' = lost /\ remain' = remain
          /\ at' = at /\ answer' = answer /\ loaded' = loaded
          /\ \A t \in Nat : t < left - 1 => t < left
          /\ left - 1 > 0
        BY <1>1, <1>3 DEF TimePasses
    <2>2. \A c \in Calls : answer[c].reset \in Nat
        BY <1>1 DEF Responses
    <2>3. resetIn' < left - 1 => resetIn < left
        BY <1>1, <2>1 DEF TimePasses, Less
    <2>4. \A c \in Calls : pause'[c] < left - 1 => pause[c] < left
        BY <1>1, <2>1 DEF TimePasses, Less
    <2>5. X \subseteq A /\ A \ X \subseteq Y /\ Y \subseteq B \cup (A \ X)
        BY <2>1, <2>2 DEF Twice, Hiding, HidesTwice, HidesOnce
    <2>6. R \subseteq S \cup (B \ Y)
        <3> SUFFICES ASSUME NEW c \in Calls, c \in R, c \notin S PROVE c \in B \ Y
            BY DEF Sending
        <3>1. WillSend(at[c], answer[c], loaded[c], pause'[c], remain, resetIn', left - 1)
            BY <2>1 DEF Sending
        <3>2. ~ WillSend(at[c], answer[c], loaded[c], pause[c], remain, resetIn, left)
            BY DEF Sending
        <3>3. at[c] = "observing" /\ answer[c].reset < left /\ ~(answer[c].reset < left - 1)
            BY <2>3, <2>4, <3>1, <3>2 DEF WillSend
        <3> QED
            BY <2>1, <3>3 DEF Hiding, HidesOnce
    <2>7. CoveredBy(errors, A, B, S, lost) /\ Apart(A, B, S) /\ Apart(X, Y, R)
        BY SetsApart, SetsApartNext DEF BudgetInv, Overdrawn, CoveredBy, Apart
    <2> HIDE DEF A, B, S, X, Y, R
    <2>8. CoveredBy(errors, X, Y, R, lost)
        BY <1>1, <2>5, <2>6, <2>7, SetsFade
    <2> QED
        BY <2>1, <2>8 DEF Overdrawn, CoveredBy, X, Y, R
<1> QED
    BY <1>2, <1>3

LEMMA AnswerStep ==
    ASSUME BudgetAssumption, BudgetInv, BudgetTypeOK', NEW c \in Calls, Answer(c)
    PROVE  Overdrawn'
<1> DEFINE A == Twice  B == Hiding  S == Sending  R == Sending'
<1>1. /\ Elsewhere(c) /\ left' = left /\ lost' = lost /\ remain' = remain /\ resetIn' = resetIn
      /\ at[c] = "sending" /\ at'[c] = "waiting"
    BY DEF Answer, Goes, Elsewhere, budget, BudgetInv, BudgetTypeOK
<1>2. errors \in Nat /\ lost \in Nat /\ left \in Nat /\ LowBudget \in Nat /\ LowBudget >= 1
    BY DEF BudgetInv, BudgetTypeOK, BudgetAssumption
<1>3. /\ errors' = errors \/ (errors > 0 /\ errors' = errors - 1)
      /\ answer'[c].reset = left /\ answer'[c].remain = errors'
    BY <1>2 DEF Answer, Response, BudgetInv, BudgetTypeOK
<1>4. CASE errors' >= LowBudget
    BY <1>2, <1>3, <1>4 DEF Overdrawn, Covered
<1>5. CASE errors' < LowBudget
    <2>1. Low(answer'[c].remain) /\ ~(answer'[c].reset < left)
        BY <1>2, <1>3, <1>5 DEF Low
    <2>2. /\ c \notin Twice /\ c \notin Hiding /\ c \in Sending
          /\ c \notin Twice' /\ c \notin Hiding' /\ c \notin Sending'
        BY <1>1, <2>1 DEF Twice, Hiding, Sending, HidesTwice, HidesOnce, WillSend
    <2>3. NoWorse
        BY <1>1 DEF NoWorse
    <2>4. Twice' = A /\ Hiding' = B
        BY <1>1, <2>2, OthersHide
    <2>5. R \subseteq S \ {c}
        BY <1>1, <2>2, <2>3, OthersSend DEF BudgetInv
    <2>6. CoveredBy(errors, A, B, S, lost) /\ Apart(A, B, S) /\ Apart(A, B, R)
        BY <2>4, SetsApart, SetsApartNext DEF BudgetInv, Overdrawn, CoveredBy, Apart
    <2>7. CASE errors' = errors
        BY <1>1, <2>2, <2>3, <2>7, QuietStep
    <2>8. CASE errors > 0 /\ errors' = errors - 1 /\ errors < LowBudget
        <3>1. c \in S /\ errors >= 1
            BY <1>2, <2>2, <2>8
        <3> HIDE DEF A, B, S, R
        <3>2. CoveredBy(errors - 1, A, B, R, lost)
            BY <1>2, <2>5, <2>6, <2>8, <3>1, OneSends
        <3> QED
            BY <1>1, <2>4, <2>8, <3>2 DEF Overdrawn, CoveredBy, R
    <2>9. CASE errors > 0 /\ errors' = errors - 1 /\ errors >= LowBudget
        <3>1. errors' = LowBudget - 1
            BY <1>2, <1>5, <2>9
        <3>2. c \notin A /\ c \notin B /\ c \notin R
            BY <2>2
        <3> HIDE DEF A, B, S, R
        <3>3. CoveredBy(LowBudget - 1, A, B, R, lost)
            BY <1>2, <2>6, <3>2, FirstLowError
        <3> QED
            BY <1>1, <2>4, <3>1, <3>3 DEF Overdrawn, CoveredBy, R
    <2> QED
        BY <1>2, <1>3, <2>7, <2>8, <2>9
<1> QED
    BY <1>2, <1>3, <1>4, <1>5

LEMMA ObserveRemainStep ==
    ASSUME BudgetAssumption, BudgetInv, BudgetTypeOK', NEW c \in Calls, ObserveRemain(c)
    PROVE  Overdrawn'
<1>1. /\ Elsewhere(c) /\ left' = left /\ errors' = errors /\ lost' = lost /\ resetIn' = resetIn
      /\ at[c] = "waiting" /\ at'[c] = "observing" /\ answer' = answer /\ remain' = answer[c].remain
    BY DEF ObserveRemain, Goes, Elsewhere, esi, BudgetInv, BudgetTypeOK
<1>2. errors \in Nat /\ lost \in Nat
    BY DEF BudgetInv, BudgetTypeOK
<1>3. c \notin Twice'
    BY <1>1 DEF Twice, HidesTwice
<1>4. CASE ~Low(answer[c].remain) /\ answer[c].reset < left
    <2>1. c \in Twice /\ c \in Hiding'
        BY <1>1, <1>4 DEF Twice, Hiding, HidesTwice, HidesOnce
    <2> QED
        BY <1>1, <1>3, <2>1, ShowStep
<1>5. CASE ~Low(answer[c].remain) /\ ~(answer[c].reset < left)
    <2>1. c \in Hiding /\ c \notin Hiding'
        BY <1>1, <1>5 DEF Hiding, HidesOnce
    <2> QED
        BY <1>1, <1>2, <1>3, <2>1, ShownStep
<1>6. CASE Low(answer[c].remain)
    <2>1. (c \in Twice' <=> c \in Twice) /\ (c \in Hiding' <=> c \in Hiding)
        BY <1>1, <1>3, <1>6 DEF Twice, Hiding, HidesTwice, HidesOnce
    <2>2. c \notin Sending' /\ NoWorse
        BY <1>1, <1>6 DEF Sending, WillSend, NoWorse
    <2> QED
        BY <1>1, <2>1, <2>2, QuietStep
<1> QED
    BY <1>4, <1>5, <1>6

LEMMA ObserveResetStep ==
    ASSUME BudgetAssumption, BudgetInv, BudgetTypeOK', NEW c \in Calls, ObserveReset(c)
    PROVE  Overdrawn'
<1>1. /\ Elsewhere(c) /\ left' = left /\ errors' = errors /\ lost' = lost /\ remain' = remain
      /\ at[c] = "observing" /\ at'[c] = "deciding" /\ answer' = answer /\ resetIn' = answer[c].reset
    BY DEF ObserveReset, Goes, Elsewhere, esi, BudgetInv, BudgetTypeOK
<1>2. errors \in Nat /\ lost \in Nat
    BY DEF BudgetInv, BudgetTypeOK
<1>3. c \notin Twice /\ c \notin Twice' /\ c \notin Hiding'
    BY <1>1 DEF Twice, Hiding, HidesTwice, HidesOnce
<1>4. CASE answer[c].reset < left
    <2>1. c \in Hiding
        BY <1>1, <1>4 DEF Hiding, HidesOnce
    <2> QED
        BY <1>1, <1>2, <1>3, <2>1, ShownStep
<1>5. CASE ~(answer[c].reset < left)
    <2>1. c \notin Hiding /\ NoWorse
        BY <1>1, <1>5 DEF Hiding, HidesOnce, NoWorse
    <2>2. c \in Sending' => c \in Sending
        BY <1>1, <1>5 DEF Sending, WillSend
    <2> QED
        BY <1>1, <1>3, <2>1, <2>2, QuietStep
<1> QED
    BY <1>4, <1>5

(* A call that is neither waiting nor observing, before or after, and that *)
(* will send only if it would have, is quiet.                              *)
LEMMA OwnStep ==
    ASSUME BudgetAssumption, BudgetInv, BudgetTypeOK', NEW c \in Calls, Elsewhere(c), UNCHANGED <<esi, budget, lost>>,
           at[c] \notin {"waiting", "observing"}, at'[c] \notin {"waiting", "observing"},
           c \in Sending' => c \in Sending
    PROVE  Overdrawn'
<1>1. c \notin Twice /\ c \notin Twice' /\ c \notin Hiding /\ c \notin Hiding'
    BY DEF Twice, Hiding, HidesTwice, HidesOnce
<1>2. NoWorse /\ left' = left /\ errors' = errors /\ lost' = lost
    BY DEF NoWorse, esi, budget
<1> QED
    BY <1>1, <1>2, QuietStep

LEMMA OverdrawnStep ==
    ASSUME BudgetAssumption, BudgetInv, BudgetTypeOK', [BudgetNext]_budgetVars
    PROVE  Overdrawn'
<1>0. /\ left \in Nat /\ left >= 1 /\ resetIn \in Nat /\ pause \in [Calls -> Nat]
      /\ at \in [Calls -> Places] /\ loaded \in [Calls -> -1..Limit] /\ answer \in [Calls -> Responses]
    BY DEF BudgetInv, BudgetTypeOK
<1>1. ASSUME NEW c \in Calls, Start(c) PROVE Overdrawn'
    <2>1. /\ Elsewhere(c) /\ UNCHANGED <<esi, budget, lost>> /\ at[c] = "idle" /\ at'[c] = "loading"
        BY <1>0, <1>1 DEF Start, Goes, Elsewhere
    <2>2. c \in Sending' => c \in Sending
        BY <2>1 DEF Sending, WillSend, esi, budget
    <2> QED
        BY <2>1, <2>2, OwnStep
<1>2. ASSUME NEW c \in Calls, LoadRemain(c) PROVE Overdrawn'
    <2>1. /\ Elsewhere(c) /\ UNCHANGED <<esi, budget, lost>> /\ at[c] = "loading" /\ at'[c] = "comparing"
          /\ loaded'[c] = remain
        BY <1>0, <1>2 DEF LoadRemain, Goes, Elsewhere
    <2>2. c \in Sending' => c \in Sending
        BY <2>1 DEF Sending, WillSend, esi, budget
    <2> QED
        BY <2>1, <2>2, OwnStep
<1>3. ASSUME NEW c \in Calls, Throttle(c) PROVE Overdrawn'
    <2>1. /\ Elsewhere(c) /\ UNCHANGED <<esi, budget, lost>> /\ at[c] = "comparing"
          /\ \/ at'[c] = "throttled" /\ pause'[c] = resetIn + 1
             \/ at'[c] = "sending" /\ ~(Low(loaded[c]) /\ resetIn > 0)
        BY <1>0, <1>3 DEF Throttle, Goes, Elsewhere
    <2>2. /\ left' = left /\ remain' = remain /\ resetIn' = resetIn
          /\ at'[c] \notin {"waiting", "observing"} /\ at[c] \notin {"waiting", "observing"}
        BY <2>1 DEF esi, budget
    <2>3. resetIn + 1 < left => resetIn < left
        BY <1>0
    <2>4. ~(resetIn > 0) => resetIn < left
        BY <1>0
    <2>5. c \in Sending' => c \in Sending
        BY <2>1, <2>2, <2>3, <2>4 DEF Sending, WillSend
    <2> QED
        BY <2>1, <2>2, <2>5, OwnStep
<1>4. ASSUME NEW c \in Calls, ThrottleEnds(c) PROVE Overdrawn'
    <2>1. /\ Elsewhere(c) /\ UNCHANGED <<esi, budget, lost>> /\ at[c] = "throttled" /\ at'[c] = "sending"
          /\ pause[c] < left
        BY <1>0, <1>4 DEF ThrottleEnds, Goes, Elsewhere
    <2>2. c \in Sending' => c \in Sending
        BY <2>1 DEF Sending, WillSend, esi, budget
    <2> QED
        BY <2>1, <2>2, OwnStep
<1>5. ASSUME NEW c \in Calls, ReturnAnswer(c) PROVE Overdrawn'
    <2>1. /\ Elsewhere(c) /\ UNCHANGED <<esi, budget, lost>> /\ at[c] = "deciding" /\ at'[c] = "idle"
        BY <1>0, <1>5 DEF ReturnAnswer, Goes, Elsewhere
    <2>2. c \in Sending' => c \in Sending
        BY <2>1 DEF Sending, WillSend, esi, budget
    <2> QED
        BY <2>1, <2>2, OwnStep
<1>6. ASSUME NEW c \in Calls, Retry(c) PROVE Overdrawn'
    <2>1. /\ Elsewhere(c) /\ UNCHANGED <<esi, budget, lost>> /\ at[c] = "deciding" /\ at'[c] = "backing off"
        BY <1>0, <1>6 DEF Retry, Goes, Elsewhere
    <2>2. c \in Sending' => c \in Sending
        BY <2>1 DEF Sending, WillSend, esi, budget
    <2> QED
        BY <2>1, <2>2, OwnStep
<1>7. ASSUME NEW c \in Calls, TryAgain(c) PROVE Overdrawn'
    <2>1. /\ Elsewhere(c) /\ UNCHANGED <<esi, budget, lost>> /\ at[c] = "backing off" /\ at'[c] = "loading"
        BY <1>0, <1>7 DEF TryAgain, Goes, Elsewhere
    <2>2. c \in Sending' => c \in Sending
        BY <2>1 DEF Sending, WillSend, esi, budget
    <2> QED
        BY <2>1, <2>2, OwnStep
<1>8. CASE UNCHANGED budgetVars
    <2>1. Twice' = Twice /\ Hiding' = Hiding /\ Sending' = Sending /\ errors' = errors /\ lost' = lost
        BY <1>8 DEF budgetVars, esi, budget, calling, Twice, Hiding, Sending
    <2> QED
        BY <2>1 DEF BudgetInv, Overdrawn
<1> QED
    BY <1>1, <1>2, <1>3, <1>4, <1>5, <1>6, <1>7, <1>8,
       TimeStep, AnswerStep, ObserveRemainStep, ObserveResetStep, LoseStep
    DEF BudgetNext, Running

LEMMA WorthIsNat ==
    ASSUME NEW n \in Nat, NEW a \in Nat, NEW b \in Nat, a + b <= n
    PROVE  Worth(n, a, b) >= 0
BY DEF Worth

LEMMA MarginHigh ==
    ASSUME BudgetAssumption, BudgetInv, ~(errors < LowBudget)
    PROVE  MarginHolds
<1> DEFINE n == Cardinality(Calls)  q == n * n
<1>1. n \in Nat /\ LowBudget \in Nat
    BY SetsApart, ApartSizes
<1>2. q \in Nat
    <2> HIDE DEF n
    <2> QED
        BY <1>1
<1>3. errors \in Nat /\ lost \in Nat
    BY DEF BudgetInv, BudgetTypeOK
<1> HIDE DEF n, q
<1>4. errors >= LowBudget - q - lost
    BY <1>1, <1>2, <1>3
<1> QED
    BY <1>4 DEF MarginHolds, q, n

(* The budget is never overdrawn by more than the square of the number of  *)
(* calls and the responses that got lost, for any number of calls.         *)
THEOREM MarginAlwaysHolds ==
    ASSUME BudgetAssumption
    PROVE  BudgetSpec => []MarginHolds
<1>1. BudgetInit => BudgetInv
    <2>1. /\ Limit \in Nat /\ Window \in Nat /\ Window >= 1 /\ LowBudget \in 1..Limit /\ NoAnswer \in Responses
        BY DEF BudgetAssumption, NoAnswer, Responses
    <2>2. -1 \in -1..Limit /\ 1..Window \subseteq Nat /\ Window \in 1..Window /\ Limit \in 0..Limit
        BY <2>1
    <2>3. "idle" \in Places
        BY DEF Places
    <2>4. BudgetInit => BudgetTypeOK
        BY <2>1, <2>2, <2>3 DEF BudgetInit, BudgetTypeOK
    <2>5. BudgetInit => Overdrawn
        BY <2>1 DEF BudgetInit, Overdrawn, Covered
    <2> QED
        BY <2>4, <2>5 DEF BudgetInv
<1>2. BudgetInv /\ [BudgetNext]_budgetVars => BudgetInv'
    BY BudgetTypeStep, OverdrawnStep DEF BudgetInv
<1>3. BudgetInv => MarginHolds
    <2> SUFFICES ASSUME BudgetInv, errors < LowBudget PROVE MarginHolds
        BY MarginHigh
    <2> DEFINE n == Cardinality(Calls)  a == Cardinality(Twice)  b == Cardinality(Hiding)  s == Cardinality(Sending)
               w == Worth(n, a, b)  q == n * n
    <2>1. /\ n \in Nat /\ a \in Nat /\ b \in Nat /\ s \in Nat /\ a + b + s <= n /\ LowBudget \in Nat
        BY SetsApart, ApartSizes
    <2>2. w >= 0 /\ w \in Int
        <3>1. a + b <= n /\ n \in Int /\ a \in Int /\ b \in Int
            BY <2>1
        <3> HIDE DEF n, a, b
        <3>2. Worth(n, a, b) >= 0
            BY <2>1, <3>1, WorthIsNat
        <3>3. Worth(n, a, b) \in Int
            BY <3>1, WorthIsInt
        <3> QED
            BY <3>2, <3>3
    <2>3. q \in Int /\ 2 * n * n = 2 * q
        BY <2>1
    <2>4. errors \in Nat /\ lost \in Nat
        BY DEF BudgetInv, BudgetTypeOK
    <2>5. 2 * (LowBudget - errors) + w + 2 * s <= 2 * n * n + 2 * lost
        BY DEF BudgetInv, Overdrawn, Covered
    <2> HIDE DEF n, a, b, s, w, q
    <2>6. errors >= LowBudget - q - lost
        BY <2>1, <2>2, <2>3, <2>4, <2>5
    <2> QED
        BY <2>6 DEF MarginHolds, q, n
<1> QED
    BY <1>1, <1>2, <1>3, PTL DEF BudgetSpec

=============================================================================
