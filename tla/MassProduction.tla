--------------------------- MODULE MassProduction ---------------------------
(***************************************************************************)
(* massprod_plan (modules/massprod/commands.rs): a pasted list of           *)
(* blueprints becomes the materials to buy, either for the copies the       *)
(* roster owns, possibly cut down to a number of runs per blueprint, or for *)
(* one assumed copy of each.  The library answered by ESI is a set of       *)
(* stacks in an order of its own; an original has runs -1.                  *)
(***************************************************************************)
EXTENDS Integers, Sequences, FiniteSets, TLC

CONSTANTS
  Names,        \* blueprint types a line can name; a line may name none
  Unknown,      \* a line that resolves to nothing
  Pastes,       \* sequences of [name, runs] lines, runs a number or NoCap
  Libraries,    \* functions Names -> sequence of stacks [runs, me, qty]
  NoCap,
  Materials,    \* [Names -> sequence of base quantities]
  Tier,         \* [Names -> "t1", "t2" or "special"]
  RunLimit,     \* [Names -> maxProductionLimit, or NoCap where unknown]
  T1Runs, T1Me, T2Me

VARIABLES paste, library, mode, plan

massVars == <<paste, library, mode, plan>>

NoPlan == [matched |-> <<>>, unresolved |-> <<>>, kept |-> <<>>, buy |-> <<>>]

RECURSIVE SumSeq(_)
SumSeq(s) == IF s = <<>> THEN 0 ELSE Head(s) + SumSeq(Tail(s))

\* required_quantity, without a structure bonus.
RequiredQuantity(base, runs, me) ==
  LET scaled == (base * runs * (100 - me) + 99) \div 100
  IN  IF scaled < runs THEN runs ELSE scaled

----------------------------------------------------------------------------
(* The pasted lines *)

\* The resolved types in the order first seen, each with its first line's runs.
RECURSIVE Resolve(_, _)
Resolve(lines, seen) ==
  IF lines = <<>> THEN <<>>
  ELSE LET l == Head(lines)
       IN  IF l.name = Unknown \/ l.name \in seen THEN Resolve(Tail(lines), seen)
           ELSE <<l>> \o Resolve(Tail(lines), seen \cup {l.name})

Unresolved(lines) == SelectSeq(lines, LAMBDA l : l.name = Unknown)

----------------------------------------------------------------------------
(* Owned copies *)

\* A stack of identical copies, or a single one whatever the count says.
StackCount(qty) == IF qty > 0 THEN qty ELSE 1

Copies(b) ==
  [i \in DOMAIN library[b] |->
     [runs |-> library[b][i].runs, me |-> library[b][i].me,
      count |-> StackCount(library[b][i].qty)]]

(* Mutant: the copies are taken in the order they were found. *)
AsFound(copies) == copies

BestMeFirst(copies) == SortSeq(copies, LAMBDA x, y : x.me > y.me)

(* Mutant: the last stack is taken whole. *)
RECURSIVE CapOvershooting(_, _)
CapOvershooting(copies, left) ==
  IF copies = <<>> \/ left <= 0 THEN <<>>
  ELSE LET c == Head(copies)
       IN  IF c.runs <= 0 THEN CapOvershooting(Tail(copies), left)
           ELSE <<c>> \o CapOvershooting(Tail(copies), left - c.runs * c.count)

\* cap_to_runs: whole stacks while they fit, then whole copies of one stack,
\* then one copy for the runs that are left.
RECURSIVE CapToRuns(_, _)
CapToRuns(copies, left) ==
  IF copies = <<>> \/ left <= 0 THEN <<>>
  ELSE LET c     == Head(copies)
           whole == left \div c.runs
           rest  == left % c.runs
       IN  IF c.runs <= 0 THEN CapToRuns(Tail(copies), left)
           ELSE IF c.runs * c.count <= left
           THEN <<c>> \o CapToRuns(Tail(copies), left - c.runs * c.count)
           ELSE (IF whole > 0 THEN <<[c EXCEPT !.count = whole]>> ELSE <<>>)
                \o (IF rest > 0 THEN <<[c EXCEPT !.runs = rest, !.count = 1]>> ELSE <<>>)

Owned(line) ==
  IF line.runs = NoCap THEN Copies(line.name)
  ELSE CapToRuns(BestMeFirst(Copies(line.name)), line.runs)

\* assume_blueprint: one copy at the rule of its tier, or with the line's runs.
Assumed(line) ==
  LET tier == Tier[line.name]
      runs == IF tier = "t2" /\ RunLimit[line.name] # NoCap
              THEN RunLimit[line.name] ELSE T1Runs
      me   == IF tier = "special" THEN 0 ELSE IF tier = "t2" THEN T2Me ELSE T1Me
  IN  <<[runs |-> IF line.runs = NoCap THEN runs
                  ELSE IF line.runs < 0 THEN 0 ELSE line.runs,
         me |-> me, count |-> 1]>>

Counted(copies) == SelectSeq(copies, LAMBDA c : c.runs > 0)

RunsOf(copies) ==
  SumSeq([i \in DOMAIN Counted(copies) |->
            Counted(copies)[i].runs * Counted(copies)[i].count])

\* sum_copy_materials: rounded up per copy, never over several of them.
(* Mutant: all runs are priced at the first copy's efficiency. *)
MaterialOfAveraged(base, copies) ==
  LET n == RunsOf(copies) IN IF n = 0 THEN 0 ELSE RequiredQuantity(base, n, Counted(copies)[1].me)

MaterialOf(base, copies) ==
  SumSeq([i \in DOMAIN Counted(copies) |->
            LET c == Counted(copies)[i]
            IN  RequiredQuantity(base, c.runs, c.me) * c.count])

----------------------------------------------------------------------------
MassInit ==
  /\ paste \in Pastes
  /\ library \in Libraries
  /\ mode \in {"owned", "hypothetical"}
  /\ plan = NoPlan

MassPlan ==
  /\ plan = NoPlan
  /\ LET lines == Resolve(paste, {})
         kept  == [i \in DOMAIN lines |->
                     IF mode = "owned" THEN Owned(lines[i]) ELSE Assumed(lines[i])]
     IN  plan' = [matched |-> lines, unresolved |-> Unresolved(paste), kept |-> kept,
                  buy |-> [i \in DOMAIN lines |->
                             [m \in DOMAIN Materials[lines[i].name] |->
                                MaterialOf(Materials[lines[i].name][m], kept[i])]]]
  /\ UNCHANGED <<paste, library, mode>>

MassNext == MassPlan

MassSpec == MassInit /\ [][MassNext]_massVars

----------------------------------------------------------------------------
(* Reference: physical copies, one by one *)

\* The copies of a sequence of stacks with at least r runs left at a given ME.
AtLeast(copies, me, r) ==
  SumSeq([i \in DOMAIN Counted(copies) |->
            LET c == Counted(copies)[i]
            IN  IF c.me = me /\ c.runs >= r THEN c.count ELSE 0])

AllRuns(copies) == 1..SumSeq([i \in DOMAIN Counted(copies) |-> Counted(copies)[i].runs])

MesOf(copies) == {Counted(copies)[i].me : i \in DOMAIN Counted(copies)}

RunsAt(copies, me) == RunsOf(SelectSeq(copies, LAMBDA c : c.me = me))

\* A plan for owned copies asks for exactly the runs the line asks for, or all
\* the copies have when that is less; every copy it uses is one that is owned,
\* with at least the runs it is used for; and no copy is used while a run is
\* left on a copy with a better material efficiency.
\* (massprod/commands.rs cap_to_runs and massprod_plan)
CapsExactly ==
  plan # NoPlan /\ mode = "owned" =>
    \A i \in DOMAIN plan.matched :
      LET line == plan.matched[i]
          kept == plan.kept[i]
          own  == Copies(line.name)
          want == IF line.runs = NoCap THEN RunsOf(own)
                  ELSE IF line.runs < 0 THEN 0 ELSE line.runs
      IN  /\ RunsOf(kept) = (IF want < RunsOf(own) THEN want ELSE RunsOf(own))
          /\ \A me \in MesOf(kept) : \A r \in AllRuns(kept) :
               AtLeast(kept, me, r) <= AtLeast(own, me, r)
          /\ \A used \in MesOf(kept), better \in MesOf(own) :
               better > used => RunsAt(kept, better) = RunsAt(own, better)

\* The materials are enough to install every copy of the plan as a job of its
\* own, copy by copy at its own runs and efficiency, and not one unit more.
\* (massprod/commands.rs sum_copy_materials)
BuysPerCopy ==
  plan # NoPlan =>
    \A i \in DOMAIN plan.matched : \A m \in DOMAIN plan.buy[i] :
      LET base  == Materials[plan.matched[i].name][m]
          mes   == MesOf(plan.kept[i])
          runs  == AllRuns(plan.kept[i])
          each  == [p \in mes \X runs |->
                      (AtLeast(plan.kept[i], p[1], p[2]) - AtLeast(plan.kept[i], p[1], p[2] + 1))
                        * RequiredQuantity(base, p[2], p[1])]
          RECURSIVE Sum(_)
          Sum(dom) == IF dom = {} THEN 0
                      ELSE LET x == CHOOSE y \in dom : TRUE IN each[x] + Sum(dom \ {x})
      IN  plan.buy[i][m] = Sum(mes \X runs)
=============================================================================
