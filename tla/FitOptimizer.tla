---------------------------- MODULE FitOptimizer ----------------------------
(* optimize_fit: clear or keep the slots of an objective, seed them (a weapon
   rack per hardpoint class, then slot by slot), climb by swaps until none
   helps, fall back to the best fit that met the constraints, arm the drone bay
   and load the weapons.  What a fit is worth, whether it fits its hull, its
   capacitor and its price are the dogma engine's, and operators here.      *)
EXTENDS Integers, Sequences, FiniteSets, SequencesExt

CONSTANTS Types, Slots,  \* the modules and drones there are, and the slots of a fit
          Kinds(_),     \* the slots an objective reworks, in order
          Pool(_, _),   \* the modules of an objective's slot that the meta groups allow, in order
          Polarized, Bonused, \* modules left out; those the hull has a bonus for
          Capacity,     \* slots of each kind
          Hardpoints,   \* of each class of weapons, in order: <<class, how many>>
          ClassOf(_),   \* the hardpoint class of a weapon
          GroupOf(_), UniqueGroups,
          Metric(_, _), Valid(_), CapStable(_), Price(_), \* what the engine says of a fit
          Flight,       \* the drones whose full flight does the most damage, or NoDrones
          Takes(_),     \* whether a charge exists for a weapon
          NoDrones, NoBudget,
          Starts, Objectives, Budgets \* the fits to start from, and what may be asked

VARIABLES wanted,   \* objective, mode, constraints, the user's fit
          phase,    \* the part of the pass that is next
          pos,      \* where it is: a hardpoint class, a slot kind, an item
          fit, current, \* the fit and its score
          improved, \* whether this round of the search changed anything
          fallback  \* the best fit seen that meets the constraints, with its metric

optVars == <<wanted, phase, pos, fit, current, improved, fallback>>

Modules == [type : Types, slot : Slots, charged : BOOLEAN]
Module(type, slot) == [type |-> type, slot |-> slot, charged |-> FALSE]
NoFit == [items |-> <<>>, metric |-> -1]
Items(f, slot) == {i \in DOMAIN f : f[i].slot = slot}
Damage == wanted.objective = "damage"

(* The members of s that are in kept, in their order.                      *)
Picked(s, kept) ==
  LET upTo[n \in 0..Len(s)] ==
        IF n = 0 THEN <<>> ELSE IF s[n] \in kept THEN Append(upTo[n - 1], s[n]) ELSE upTo[n - 1]
  IN  upTo[Len(s)]

(* The candidates of a slot: polarized weapons out, and the hull's bonused
   weapons only, when there are any.                                        *)
Candidates(slot) ==
  LET all == Picked(Pool(wanted.objective, slot), Types \ Polarized)
      bonused == Picked(all, Bonused)
  IN IF Damage /\ slot = "high" /\ bonused # <<>> THEN bonused ELSE all

(* Not two of a group that a fit may have one of, the item at skip aside.  *)
UniqueOk(f, type, skip) ==
  GroupOf(type) \in UniqueGroups =>
    \A i \in DOMAIN f \ {skip} : GroupOf(f[i].type) # GroupOf(type)

---------------------------------------------------------------------------
(* What a trial is worth.                                                  *)
Soft == wanted.capStable \/ wanted.budget # NoBudget
Unstable(f) == wanted.capStable /\ ~CapStable(f)
Meets(f) == ~Unstable(f) /\ (wanted.budget # NoBudget => Price(f) <= wanted.budget + 1)

(* The metric, two fifths of it for every constraint violated, in 25ths.   *)
Score(f) ==
  LET factor(violated) == IF violated THEN 2 ELSE 5
  IN factor(Unstable(f)) * factor(wanted.budget # NoBudget /\ Price(f) > wanted.budget)
       * Metric(wanted.objective, f)

(* Mutant: an equal trial is an improvement. *)
BestOrEqual(trials, above) ==
  LET scores == [k \in DOMAIN trials |-> IF Valid(trials[k]) THEN Score(trials[k]) ELSE -1]
      better == {k \in DOMAIN trials : scores[k] >= above}
  IN IF better = {} THEN 0
     ELSE CHOOSE k \in better : \A l \in better :
            scores[l] < scores[k] \/ (scores[l] = scores[k] /\ k <= l)

(* Mutant: a trial is scored without looking whether it fits. *)
BestUnchecked(trials, above) ==
  LET better == {k \in DOMAIN trials : Score(trials[k]) > above}
  IN IF better = {} THEN 0
     ELSE CHOOSE k \in better : \A l \in better : Score(trials[l]) <= Score(trials[k])

(* The best of the trials in their order: the first that beats the others and
   the given score by more than nothing; 0 when none does.                  *)
Best(trials, above) ==
  LET scores == [k \in DOMAIN trials |-> IF Valid(trials[k]) THEN Score(trials[k]) ELSE above]
      better == {k \in DOMAIN trials : scores[k] > above}
  IN IF better = {} THEN 0
     ELSE CHOOSE k \in better : \A l \in better :
            scores[l] < scores[k] \/ (scores[l] = scores[k] /\ k <= l)

(* The fallback after the trials were evaluated.                           *)
Noted(trials) ==
  LET meeting == {k \in DOMAIN trials : Valid(trials[k]) /\ Meets(trials[k])}
      metric(k) == Metric(wanted.objective, trials[k])
      best == CHOOSE k \in meeting : \A l \in meeting :
                metric(l) < metric(k) \/ (metric(l) = metric(k) /\ k <= l)
  IN IF ~Soft \/ meeting = {} \/ metric(best) <= fallback.metric THEN fallback
     ELSE [items |-> trials[best], metric |-> metric(best)]

(* Evaluates the trials, adopts the best if one beats the score.           *)
Adopt(trials, above) ==
  LET k == Best(trials, above)
  IN /\ fallback' = Noted(trials)
     /\ IF k = 0 THEN UNCHANGED <<fit, current>>
        ELSE fit' = trials[k] /\ current' = Score(trials[k])

Go(next) == phase' = next /\ pos' = 1

---------------------------------------------------------------------------
Relevant(slot) == slot \in ToSet(Kinds(wanted.objective))

(* The items of the user's fit that stay.                                  *)
Kept == IF wanted.mode = "all" THEN Picked(wanted.fit, {m \in Modules : ~Relevant(m.slot)})
        ELSE wanted.fit

Begin ==
  /\ phase = "begin"
  /\ fit' = Kept
  /\ current' = IF Valid(Kept) THEN Score(Kept) ELSE 0
  /\ Go(IF Damage THEN "racks" ELSE "fill")
  /\ UNCHANGED <<wanted, improved, fallback>>

Free(slot) == Capacity[slot] - Cardinality(Items(fit, slot))

(* The user's weapon of a class, when the empty slots only are filled.     *)
Existing(class) ==
  IF wanted.mode = "empty" THEN {i \in Items(fit, "high") : ClassOf(fit[i].type) = class} ELSE {}

RackCandidates(class) ==
  IF Existing(class) # {}
  THEN <<fit[CHOOSE i \in Existing(class) : \A j \in Existing(class) : i <= j].type>>
  ELSE Picked(Candidates("high"), {t \in Types : ClassOf(t) = class})

Copies(type, count) == [k \in 1..count |-> Module(type, "high")]

(* A rack of one weapon type for a hardpoint class, of every size it can have;
   the best one is taken, better than none or not.                          *)
SeedRack ==
  /\ phase = "racks"
  /\ IF pos > Len(Hardpoints) THEN Go("fill") /\ UNCHANGED <<fit, current, fallback>>
     ELSE LET class == Hardpoints[pos][1]
              free == Free("high")
              most == IF free < Hardpoints[pos][2] THEN free ELSE Hardpoints[pos][2]
              cands == RackCandidates(class)
              trials == IF most <= 0 THEN <<>>
                        ELSE [n \in 1..most * Len(cands) |->
                                fit \o Copies(cands[((n - 1) % Len(cands)) + 1],
                                              ((n - 1) \div Len(cands)) + 1)]
          IN /\ Adopt(trials, -1)
             /\ pos' = pos + 1
             /\ phase' = phase
  /\ UNCHANGED <<wanted, improved>>

(* One slot at a time, as long as a candidate improves the fit.            *)
Fill ==
  /\ phase = "fill"
  /\ LET kinds == Kinds(wanted.objective)
     IN IF pos > Len(kinds) THEN Go("swap") /\ UNCHANGED <<fit, current, fallback>>
        ELSE LET slot == kinds[pos]
                 cands == Picked(Candidates(slot), {t \in Types : UniqueOk(fit, t, 0)})
                 trials == IF Free(slot) <= 0 \/ (Damage /\ slot = "high") THEN <<>>
                           ELSE [k \in DOMAIN cands |-> Append(fit, Module(cands[k], slot))]
             IN /\ Adopt(trials, current)
                /\ pos' = IF Best(trials, current) = 0 THEN pos + 1 ELSE pos
                /\ phase' = phase
  /\ UNCHANGED <<wanted, improved>>

Added == Len(Kept) + 1..Len(fit)
With(idxs, type) == [i \in DOMAIN fit |-> IF i \in idxs THEN [fit[i] EXCEPT !.type = type] ELSE fit[i]]
Improves(trials) == /\ Adopt(trials, current)
                   /\ improved' = (improved \/ Best(trials, current) # 0)

(* The next item that was added, re-picked; weapons not one by one.        *)
Swap ==
  /\ phase = "swap"
  /\ LET i == Len(Kept) + pos
     IN IF i > Len(fit)
        THEN Go(IF Damage THEN "classes" ELSE "round") /\ UNCHANGED <<fit, current, fallback, improved>>
        ELSE LET cands == IF ~Relevant(fit[i].slot) \/ (Damage /\ fit[i].slot = "high") THEN <<>>
                          ELSE Picked(Candidates(fit[i].slot),
                                    {t \in Types : t # fit[i].type /\ UniqueOk(fit, t, i)})
             IN /\ Improves([k \in DOMAIN cands |-> With({i}, cands[k])])
                /\ pos' = pos + 1
                /\ phase' = phase
  /\ UNCHANGED wanted

(* The weapons of a class that were added, swapped together.               *)
SwapClass ==
  /\ phase = "classes"
  /\ IF pos > Len(Hardpoints) THEN Go("round") /\ UNCHANGED <<fit, current, fallback, improved>>
     ELSE LET class == Hardpoints[pos][1]
              idxs == {i \in Added : fit[i].slot = "high" /\ ClassOf(fit[i].type) = class}
              first == CHOOSE i \in idxs : \A j \in idxs : i <= j
              cands == IF idxs = {} THEN <<>>
                       ELSE Picked(Candidates("high"),
                                 {t \in Types : ClassOf(t) = class /\ t # fit[first].type})
          IN /\ Improves([k \in DOMAIN cands |-> With(idxs, cands[k])])
             /\ pos' = pos + 1
             /\ phase' = phase
  /\ UNCHANGED wanted

(* Mutant: the search stops after its first round. *)
OneRound ==
  /\ phase = "round"
  /\ Go("enforce")
  /\ improved' = FALSE
  /\ UNCHANGED <<wanted, fit, current, fallback>>

Round ==
  /\ phase = "round"
  /\ Go(IF improved THEN "swap" ELSE "enforce")
  /\ improved' = FALSE
  /\ UNCHANGED <<wanted, fit, current, fallback>>

(* The search may have ended on a fit that violates a constraint.          *)
Enforce ==
  /\ phase = "enforce"
  /\ fit' = IF Soft /\ ~(Valid(fit) /\ Meets(fit)) /\ fallback # NoFit THEN fallback.items ELSE fit
  /\ Go(IF Damage THEN "arm" ELSE "done")
  /\ UNCHANGED <<wanted, current, improved, fallback>>

(* fit_drone_bay and load_ammo: with nothing checked after them.           *)
Droneless(f) == Picked(f, {m \in Modules : m.slot # "drone"})
Armed ==
  IF Flight = NoDrones \/ (wanted.mode = "empty" /\ Items(fit, "drone") # {}) THEN fit
  ELSE Append(Droneless(fit), Module(Flight, "drone"))

Loaded(f) ==
  [i \in DOMAIN f |-> IF f[i].slot = "high" /\ Takes(f[i].type) THEN [f[i] EXCEPT !.charged = TRUE] ELSE f[i]]

Arm ==
  /\ phase = "arm"
  /\ fit' = Loaded(Armed)
  /\ Go("done")
  /\ UNCHANGED <<wanted, current, improved, fallback>>

---------------------------------------------------------------------------
OptInit ==
  /\ wanted \in [objective : Objectives, mode : {"all", "empty"}, capStable : BOOLEAN,
                  budget : Budgets, fit : Starts]
  /\ phase = "begin"
  /\ pos = 1
  /\ fit = wanted.fit
  /\ current = 0
  /\ improved = FALSE
  /\ fallback = NoFit

OptNext == Begin \/ SeedRack \/ Fill \/ Swap \/ SwapClass \/ Round \/ Enforce \/ Arm

(* What a pass is given.                                                   *)
FitAssumption ==
  /\ {"high", "drone"} \subseteq Slots
  /\ Starts \subseteq Seq(Modules)
  /\ Capacity \in [Slots -> Nat] /\ Hardpoints \in Seq(STRING \X Nat)
  /\ Flight \in Types \cup {NoDrones}
  /\ \A o \in Objectives : Kinds(o) \in Seq(Slots) /\ \A s \in Slots : Pool(o, s) \in Seq(Types)

(* What the engine says of the fits: a figure for every objective, and whether
   they are valid, which no drone and no charge changes (evaluate resolves the
   hull, its modules and the skills, and gives drones no volume).           *)
EngineSays(fits) ==
  \A f \in fits :
    /\ \A o \in Objectives : Metric(o, f) \in Nat
    /\ Valid(f) \in BOOLEAN
    /\ Valid(Droneless(f)) = Valid(f) /\ Valid(Loaded(f)) = Valid(f)
    /\ Flight # NoDrones => Valid(Append(f, Module(Flight, "drone"))) = Valid(f)

EngineAssumption == EngineSays(Seq(Modules))

Finished == phase = "done"

(* A step is enabled until the pass is done: weak fairness, stated so that
   nothing has to be tried to see whether it is enabled.                    *)
Fairness == []<>Finished \/ []<><<~Finished>>_optVars

OptSpec == OptInit /\ [][OptNext]_optVars /\ Fairness

---------------------------------------------------------------------------
Prefix(f) == /\ Len(f) >= Len(Kept)
             /\ \A i \in DOMAIN Kept : f[i].type = Kept[i].type /\ f[i].slot = Kept[i].slot

(* The search is over, and nothing added after it.                         *)
Enforced == Soft /\ (phase = "arm" \/ (phase = "done" /\ ~Damage))

(* What the user fitted and the objective does not rework stays in its place,
   all of it when only empty slots are filled, and a fit that was valid after
   the clearing is valid in the end (optimize_fit: "only valid (fitting)
   configurations are kept").  If a fit that was tried met the constraints, so
   does the one the search ends with (enforce_feasible).                    *)
ResultSound ==
  /\ phase \notin {"begin", "done"} => Prefix(fit)
  /\ phase # "begin" /\ Valid(Kept) => Valid(fit)
  /\ Enforced /\ fallback # NoFit => Valid(fit) /\ Meets(fit)

(* The climb ends where no swap of an added module helps (local_search:
   "iterating to a local optimum").                                         *)
LocalOptimum ==
  phase = "enforce" =>
    \A i \in Added : Relevant(fit[i].slot) /\ ~(Damage /\ fit[i].slot = "high") =>
      \A t \in ToSet(Candidates(fit[i].slot)) :
        UniqueOk(fit, t, i) /\ Valid(With({i}, t)) => Score(With({i}, t)) <= current

=============================================================================
