----------------------------- MODULE Production -----------------------------
(***************************************************************************)
(* The production ranking (modules/production): for every manufacturable    *)
(* blueprint that is not blacklisted the command resolves a build-or-buy    *)
(* tree, prices it, nets the stock the user owns and ranks the rows by      *)
(* profit; with "sell at best hub" it then reprices the products in place.  *)
(* The user edits the two saved lists at any time, also while a ranking is  *)
(* under way.                                                               *)
(*                                                                          *)
(* Money is an integer.  A division of the code is exact here as long as    *)
(* the instance's prices are multiples of what they are divided by.         *)
(***************************************************************************)
EXTENDS Integers, FiniteSets, Sequences

CONSTANTS
  Blueprints,   \* manufacturable blueprints; each names its product's type
  Types,        \* every product, component and mineral
  Books,        \* [recipe : Types -> NoRecipe or a recipe,
                \*  job : Blueprints -> its recipe, product and invention]
  Markets,      \* [buy, adjusted, sell, hub : Types -> price or NoPrice]
  Requests,     \* [runs, me, stock, build, hub, owned, decryptor]
  NoRecipe, NoPrice, NoInvention, NoChance,
  TreeDepth, BuildDepth,  \* MAX_TREE_DEPTH and MAX_BUILD_DEPTH
  FeeNum, FeeDen,         \* the job fee as a share of the estimated value
  KeepNum, KeepDen,       \* what is left of a sale after tax and broker
  BasicMe,                \* BASE_T2_ME
  MaxEdits                \* bound: edits of the saved lists

VARIABLES book, market, request,  \* what a ranking is asked about
          blacklist, favorites,   \* the saved lists on disk
          filter,                 \* the two lists a running command has read
          prodPhase, rows, edits

prodVars == <<book, market, request, blacklist, favorites, filter, prodPhase,
              rows, edits>>

RECURSIVE SumOver(_, _)
SumOver(f, dom) ==
  IF dom = {} THEN 0
  ELSE LET x == CHOOSE y \in dom : TRUE IN f[x] + SumOver(f, dom \ {x})

Total(seq) == SumOver(seq, DOMAIN seq)

----------------------------------------------------------------------------
(* Prices *)

Buy(t) == market.buy[t]

\* What the job fee is levied on: the adjusted price, or nothing.
EstimatedValue(mats) ==
  Total([i \in DOMAIN mats |->
           LET a == market.adjusted[mats[i].type]
           IN  mats[i].qty * (IF a = NoPrice THEN 0 ELSE a)])

JobFee(eiv) == (eiv * FeeNum) \div FeeDen

(* Mutant: an input is priced only when both costs are known. *)
NeedsBoth(a, b) ==
  IF a = NoPrice \/ b = NoPrice THEN NoPrice ELSE IF a < b THEN a ELSE b

\* The cheaper of two costs either of which may be unknown.
Cheaper(a, b) ==
  IF a = NoPrice THEN b ELSE IF b = NoPrice THEN a ELSE IF a < b THEN a ELSE b

----------------------------------------------------------------------------
(* The build-or-buy tree *)

\* A material becomes a sub-step unless components are not built, the tree is
\* deep enough, or the type is already being built on the way here.
Buildable(t, left, path) ==
  /\ request.build
  /\ left > 0
  /\ t \notin path
  /\ book.recipe[t] # NoRecipe

RECURSIVE BuildUnitCost(_, _, _, _), UnitCost(_, _, _, _)

\* Cost of one unit built from t's recipe, its materials at ME 0; unknown as
\* soon as one material has neither a price nor a priced sub-build.
BuildUnitCost(t, left, path, depth) ==
  LET recipe == book.recipe[t]
      mats   == recipe.mats
      units  == [i \in DOMAIN mats |->
                   UnitCost(mats[i].type, left, path, depth - 1)]
  IN  IF depth = 0 \/ recipe.out <= 0 THEN NoPrice
      ELSE IF \E i \in DOMAIN mats : units[i] = NoPrice THEN NoPrice
      ELSE (Total([i \in DOMAIN mats |-> mats[i].qty * units[i]])
              + JobFee(EstimatedValue(mats))) \div recipe.out

UnitCost(t, left, path, depth) ==
  IF Buildable(t, left, path)
  THEN Cheaper(BuildUnitCost(t, left - 1, path \cup {t}, depth), Buy(t))
  ELSE Buy(t)

\* One per run at least, rounded up over the whole job.
RequiredQuantity(base, runs, me) ==
  LET scaled == (base * runs * (100 - me) + 99) \div 100
  IN  IF scaled < runs THEN runs ELSE scaled

----------------------------------------------------------------------------
(* One row of the ranking *)

\* The researched ME of an owned blueprint, an invented copy's own ME for T2.
EffectiveMe(b) ==
  LET inv == book.job[b].invention
  IN  IF inv # NoInvention
      THEN BasicMe + (IF request.decryptor = NoRecipe THEN 0 ELSE request.decryptor.me)
      ELSE IF b \in DOMAIN request.owned THEN request.owned[b]
      ELSE request.me

\* The materials' lines: only the shortfall over the owned stock is paid.
Line(b, m) ==
  LET need == RequiredQuantity(m.qty, request.runs, EffectiveMe(b))
      own  == request.stock[m.type]
      have == IF own < need THEN own ELSE need
      unit == UnitCost(m.type, TreeDepth, {book.job[b].product}, BuildDepth)
  IN  [type |-> m.type, toSource |-> need - have, unit |-> unit,
       cost |-> IF unit = NoPrice THEN 0 ELSE unit * (need - have)]

\* Datacores, relic and decryptor are bought for every attempt; the runs of a
\* success are paid for by the attempts it takes on average.
Attempt(inv) ==
  inv.cores \o (IF request.decryptor = NoRecipe THEN <<>>
                ELSE <<[type |-> request.decryptor.type, qty |-> 1]>>)

AttemptCost(inv) ==
  LET mats == Attempt(inv)
  IN  Total([i \in DOMAIN mats |->
               mats[i].qty * (IF Buy(mats[i].type) = NoPrice THEN 0 ELSE Buy(mats[i].type))])
        + JobFee(EstimatedValue(mats)) + JobFee(EstimatedValue(inv.copied))

\* Success in hundredths, capped at certainty.
Chance(inv) ==
  LET c == inv.chance * (IF request.decryptor = NoRecipe THEN 1
                         ELSE request.decryptor.factor)
  IN  IF c > 100 THEN 100 ELSE c

RunsPerSuccess(inv) ==
  inv.runs + (IF request.decryptor = NoRecipe THEN 0 ELSE request.decryptor.runs)

InventionCost(b) ==
  LET inv == book.job[b].invention
  IN  IF inv = NoInvention THEN 0
      ELSE LET yielded == Chance(inv) * RunsPerSuccess(inv)
           IN  IF yielded <= 0 THEN 0
               ELSE (AttemptCost(inv) * 100 * request.runs) \div yielded

Revenue(b, price) ==
  (price * book.job[b].out * request.runs * KeepNum) \div KeepDen

GrossRevenue(b, price) == price * book.job[b].out * request.runs

\* evaluate_with_stock: what is unpriced counts as nothing and is reported.
Evaluate(b) ==
  LET job   == book.job[b]
      lines == [i \in DOMAIN job.mats |-> Line(b, job.mats[i])]
      fee   == request.runs * JobFee(EstimatedValue(job.mats))
      sell  == market.sell[job.product]
      cost  == Total([i \in DOMAIN lines |-> lines[i].cost]) + fee + InventionCost(b)
      rev   == IF sell = NoPrice THEN 0 ELSE Revenue(b, sell)
  IN  [cost |-> cost, price |-> sell, revenue |-> rev, profit |-> rev - cost,
       hubbed |-> FALSE, favorite |-> b \in filter.favorites,
       missing |-> {lines[i].type : i \in {j \in DOMAIN lines :
                      lines[j].unit = NoPrice /\ lines[j].toSource > 0}}
                   \cup (IF sell = NoPrice THEN {job.product} ELSE {})
                   \cup (IF job.invention = NoInvention THEN {}
                         ELSE {Attempt(job.invention)[i].type : i \in
                                {j \in DOMAIN Attempt(job.invention) :
                                   Buy(Attempt(job.invention)[j].type) = NoPrice}})]

\* Blacklisted blueprints are dropped, and so is one that is invented with a
\* chance the static data does not know.
Ranked(b) ==
  /\ b \notin filter.blacklist
  /\ \/ book.job[b].invention = NoInvention
     \/ book.job[b].invention.chance # NoChance

\* reprice_product: the cost stays, what follows from the price is recomputed.
Reprice(b, row, price) ==
  [row EXCEPT !.price = price, !.revenue = Revenue(b, price),
              !.profit = Revenue(b, price) - row.cost, !.hubbed = TRUE]

(* Mutant: the hub's price is taken before taxes and fees. *)
AtBestHubGross(b, row) ==
  LET hub == market.hub[book.job[b].product]
      now == IF row.price = NoPrice THEN 0 ELSE row.price
      gross == GrossRevenue(b, hub)
  IN  IF hub # NoPrice /\ hub > now
      THEN [row EXCEPT !.price = hub, !.revenue = gross,
                       !.profit = gross - row.cost, !.hubbed = TRUE]
      ELSE row

\* Only a hub that pays more than the chosen market.
AtBestHub(b, row) ==
  LET hub == market.hub[book.job[b].product]
      now == IF row.price = NoPrice THEN 0 ELSE row.price
  IN  IF hub # NoPrice /\ hub > now THEN Reprice(b, row, hub) ELSE row

\* Most profitable first; equal profits stand in either order.
Orders(table) ==
  {s \in [1..Cardinality(DOMAIN table) -> DOMAIN table] :
     /\ \A i, j \in DOMAIN s : i # j => s[i] # s[j]
     /\ \A i, j \in DOMAIN s : i < j => table[s[i]].profit >= table[s[j]].profit}

----------------------------------------------------------------------------
(* The command and the saved lists *)

NoRows == [x \in {} |-> 0]

ProdInit ==
  /\ book \in Books
  /\ market \in Markets
  /\ request \in Requests
  /\ blacklist = {}
  /\ favorites = {}
  /\ filter = [blacklist |-> {}, favorites |-> {}]
  /\ prodPhase = "idle"
  /\ rows = [table |-> NoRows, order |-> <<>>]
  /\ edits = 0

\* production_set_list
SetList(b) ==
  /\ edits < MaxEdits
  /\ \/ /\ blacklist' = IF b \in blacklist THEN blacklist \ {b} ELSE blacklist \cup {b}
        /\ UNCHANGED favorites
     \/ /\ favorites' = IF b \in favorites THEN favorites \ {b} ELSE favorites \cup {b}
        /\ UNCHANGED blacklist
  /\ edits' = edits + 1
  /\ UNCHANGED <<book, market, request, filter, prodPhase, rows>>

\* The lists are read, then the prices are awaited.
Start ==
  /\ prodPhase = "idle"
  /\ filter' = [blacklist |-> blacklist, favorites |-> favorites]
  /\ prodPhase' = "pricing"
  /\ UNCHANGED <<book, market, request, blacklist, favorites, rows, edits>>

PricesFail ==
  /\ prodPhase = "pricing"
  /\ prodPhase' = "failed"
  /\ UNCHANGED <<book, market, request, blacklist, favorites, filter, rows, edits>>

Answer(table) ==
  /\ rows' \in {[table |-> table, order |-> s] : s \in Orders(table)}
  /\ prodPhase' = "done"

Priced ==
  /\ prodPhase = "pricing"
  /\ LET table == [b \in {x \in Blueprints : Ranked(x)} |-> Evaluate(b)]
     IN  IF request.hub
         THEN /\ rows' = [table |-> table, order |-> <<>>]
              /\ prodPhase' = "hubs"
         ELSE Answer(table)
  /\ UNCHANGED <<book, market, request, blacklist, favorites, filter, edits>>

HubsFail ==
  /\ prodPhase = "hubs"
  /\ prodPhase' = "failed"
  /\ rows' = [table |-> NoRows, order |-> <<>>]
  /\ UNCHANGED <<book, market, request, blacklist, favorites, filter, edits>>

HubsAnswer ==
  /\ prodPhase = "hubs"
  /\ Answer([b \in DOMAIN rows.table |-> AtBestHub(b, rows.table[b])])
  /\ UNCHANGED <<book, market, request, blacklist, favorites, filter, edits>>

ProdNext ==
  \/ \E b \in Blueprints : SetList(b)
  \/ Start \/ Priced \/ PricesFail \/ HubsAnswer \/ HubsFail

ProdSpec == ProdInit /\ [][ProdNext]_prodVars

----------------------------------------------------------------------------
(* Reference: every plan *)

RECURSIVE PlanUnits(_, _, _), PlanTotals(_, _, _)

\* What a unit can cost: bought, or built from materials each sourced by some
\* plan of its own.
PlanUnits(t, left, path) ==
  (IF Buy(t) = NoPrice THEN {} ELSE {Buy(t)})
  \cup (IF ~Buildable(t, left, path) \/ book.recipe[t].out <= 0 THEN {}
        ELSE {(m + JobFee(EstimatedValue(book.recipe[t].mats))) \div book.recipe[t].out :
                m \in PlanTotals(book.recipe[t].mats, left - 1, path \cup {t})})

PlanTotals(mats, left, path) ==
  IF mats = <<>> THEN {0}
  ELSE {Head(mats).qty * u + r : u \in PlanUnits(Head(mats).type, left, path),
                                 r \in PlanTotals(Tail(mats), left, path)}

\* The cheapest way to source what a blueprint's job still needs, or NoPrice.
CheapestPlan(b) ==
  LET job   == book.job[b]
      short == [i \in DOMAIN job.mats |->
                  [type |-> job.mats[i].type, qty |-> Line(b, job.mats[i]).toSource]]
      open  == SelectSeq(short, LAMBDA m : m.qty > 0)
      costs == PlanTotals(open, TreeDepth, {job.product})
  IN  IF costs = {} THEN NoPrice
      ELSE CHOOSE c \in costs : \A d \in costs : c <= d

\* A row that reports no material missing pays for its materials exactly what
\* the cheapest of all build-or-buy plans for the shortfall costs, over the
\* whole tree; a row with a material no plan can source reports it.
\* (engine.rs build_unit_cost and evaluate_with_stock, commands.rs resolve_input)
CheapestSourced ==
  prodPhase \in {"hubs", "done"} =>
    \A b \in DOMAIN rows.table :
      LET row == rows.table[b]
          job == book.job[b]
          mats == {job.mats[i].type : i \in DOMAIN job.mats}
          other == request.runs * JobFee(EstimatedValue(job.mats)) + InventionCost(b)
      IN  IF row.missing \cap mats = {}
          THEN row.cost = CheapestPlan(b) + other
          ELSE CheapestPlan(b) = NoPrice

\* However a row got its price, at the chosen market or at a better hub, its
\* profit is what that price brings after the sale's costs, less its cost; the
\* answer is in order of profit, holds no blueprint that was blacklisted when
\* the command started, and never a hub price below the chosen market's.
\* (commands.rs production_profit, reprice_product)
RankedSound ==
  prodPhase = "done" =>
    /\ DOMAIN rows.table = {b \in Blueprints : Ranked(b)}
    /\ \A i, j \in DOMAIN rows.order :
         i < j => rows.table[rows.order[i]].profit >= rows.table[rows.order[j]].profit
    /\ \A b \in DOMAIN rows.table :
         LET row == rows.table[b]
             own == market.sell[book.job[b].product]
         IN  /\ row.profit = (IF row.price = NoPrice THEN 0 ELSE Revenue(b, row.price)) - row.cost
             /\ own # NoPrice => row.price # NoPrice /\ row.price >= own
=============================================================================
