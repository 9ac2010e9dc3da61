------------------------------ MODULE MCTools ------------------------------
(***************************************************************************)
(* Small instances, for TLC, of what runs beside the game: DpsMeter,       *)
(* McpBridge, TravelTrail, FitOptimizer and Capacitor.                     *)
(*                                                                         *)
(* They share no state, so a run takes one of them at a time, which focus  *)
(* names; the others rest where they begin.                                *)
(***************************************************************************)
EXTENDS DpsMeter, McpBridge, TravelTrail, Fitting

CONSTANT pilot

VARIABLE focus

all == <<vars, mVars, tVars, optVars, capVars, focus>>

(* The pilot's first session and the one after a relog.                    *)
TwoSessions == <<pilot, pilot>>

-----------------------------------------------------------------------------
ASSUME BridgeAssumption /\ TrailAssumption

(* A lane of three systems with gates, and a wormhole system.              *)
Hole(system, life, size) == [at |-> system, life |-> life, size |-> size]
KnownHoles == {{Hole(1, 2, 1), Hole(3, 2, 2), Hole(2, 1, 3)}}
Lane == {<<1, 2>>, <<2, 3>>}

-----------------------------------------------------------------------------
(* A hull with three high slots (two turret hardpoints, one launcher's),   *)
(* two low slots and one mid slot.                                         *)

SlotsOf(o) == IF o = "damage" THEN <<"high", "low">> ELSE <<"mid", "low">>

Market(o, s) ==
    CASE o = "damage" /\ s = "high" -> <<"polarized", "blaster", "rail", "rocket">>
      [] o = "damage" /\ s = "low" -> <<"amp", "coil">>
      [] o = "tank" /\ s = "mid" -> <<"extender", "booster">>
      [] o = "tank" /\ s = "low" -> <<"plate", "control", "relay">>
      [] OTHER -> <<>>

HullSlots == [high |-> 3, mid |-> 1, low |-> 2, drone |-> 0]

WeaponClass(t) ==
    CASE t \in {"polarized", "blaster", "rail"} -> "turret" [] t = "rocket" -> "launcher" [] OTHER -> "none"

Group(t) == IF t = "control" THEN "damage control" ELSE "other"

Stat(d, l, p, c) == [dmg |-> d, load |-> l, price |-> p, drain |-> c]
Stats == [polarized |-> Stat(9, 2, 4, 2), blaster |-> Stat(6, 3, 3, 2), rail |-> Stat(4, 2, 2, 1),
          rocket |-> Stat(3, 1, 1, 0), amp |-> Stat(0, 1, 2, 1), coil |-> Stat(0, 1, 1, 0),
          extender |-> Stat(0, 2, 3, 0), booster |-> Stat(0, 1, 1, 3), plate |-> Stat(0, 3, 1, 0),
          control |-> Stat(0, 1, 2, 1), relay |-> Stat(0, 1, 1, 0), drone |-> Stat(2, 0, 2, 0)]

ModuleTypes == DOMAIN Stats
SlotKinds == DOMAIN HullSlots

Of(f, field) ==
    LET sum[i \in 0..Len(f)] == IF i = 0 THEN 0 ELSE sum[i - 1] + Stats[f[i].type][field]
    IN  sum[Len(f)]

Number(f, t) == Cardinality({i \in DOMAIN f : f[i].type = t})

(* A second amplifier of a kind counts for half (the stacking penalty).    *)
Stacked(n, full) == IF n = 0 THEN 0 ELSE IF n = 1 THEN full ELSE full + (full \div 2)

Worth(o, f) ==
    IF o = "damage"
    THEN Of(f, "dmg") * (4 + Stacked(Number(f, "amp"), 2) + Stacked(Number(f, "coil"), 2))
    ELSE LET relays == Number(f, "relay")
             controls == Number(f, "control")
         IN  4 + 8 * Number(f, "extender") + (3 + 6 * relays) * Number(f, "booster")
               + Stacked(Number(f, "plate"), 5) + 4 * controls + relays * (3 + 6 * controls)

SlotUse(f, s) == Cardinality({i \in DOMAIN f : f[i].slot = s})
Loads(f) == Of(SelectSeq(f, LAMBDA m : m.slot # "drone"), "load")
OnHull(f) == Loads(f) <= 8 /\ \A s \in {"high", "mid", "low"} : SlotUse(f, s) <= HullSlots[s]
Lasts(f) == Of(f, "drain") <= 2
Cost(f) == Of(f, "price") + Cardinality({i \in DOMAIN f : f[i].charged})
IsWeapon(t) == WeaponClass(t) # "none"

Fitted(type, slot) == [type |-> type, slot |-> slot, charged |-> FALSE]
UserFits ==
    {<<>>, <<Fitted("rail", "high")>>, <<Fitted("plate", "low"), Fitted("coil", "low")>>,
     <<Fitted("drone", "drone"), Fitted("booster", "mid")>>,
     <<Fitted("control", "low"), Fitted("rocket", "high")>>,
     <<Fitted("blaster", "high"), Fitted("blaster", "high"), Fitted("plate", "low")>>}

HullHardpoints == <<<<"turret", 2>>, <<"launcher", 1>>>>

(* What the proofs take for granted of the hull and the engine, here of the
   fits of up to two items and those of the user.                           *)
ASSUME FitAssumption /\ EngineSays(UNION {[1..n -> Modules] : n \in 0..2} \cup UserFits)

-----------------------------------------------------------------------------
(* A capacitor of forty units that gains two in a quarter of a millisecond. *)
(* Of its modules, two have full periods that are no whole milliseconds and *)
(* one a whole one of cycles that are not.                                  *)

Gained(level, time) == IF level + 2 * time > 40 THEN 40 ELSE level + 2 * time

Cycle(need, cycle, hold, volume, perCycle, reload) ==
    [need |-> need, cycle |-> cycle, hold |-> hold, volume |-> volume, perCycle |-> perCycle, reload |-> reload]
ModuleCycles ==
    {Cycle(12, 8, 0, 0, 0, 0), Cycle(16, 12, 5, 2, 0, 8), Cycle(20, 8, 7, 1, 2, 16), Cycle(32, 16, 3, 1, 1, 0),
     Cycle(12, 7, 0, 0, 0, 0), Cycle(16, 9, 2, 1, 1, 7), Cycle(20, 10, 2, 1, 1, 8)}

ASSUME CapAssumption

-----------------------------------------------------------------------------
(* What rests begins as it does with the first values.                     *)
FitRests ==
    /\ wanted = [objective |-> "damage", mode |-> "all", capStable |-> FALSE, budget |-> NoBudget, fit |-> <<>>]
    /\ phase = "begin" /\ pos = 1 /\ fit = <<>> /\ current = 0 /\ improved = FALSE /\ fallback = NoFit

CapRests ==
    /\ modules = <<>> /\ dueAt = <<>> /\ shots = <<>> /\ fired = <<>>
    /\ neut = 0 /\ cap = CapSize /\ lastAt = 0 /\ verdict = "running"

ToolsInit ==
    /\ focus \in {"dps", "bridge", "trail", "fit", "cap"}
    /\ Init /\ McpInit /\ TrailInit
    /\ focus # "bridge" => port = 0 /\ ~autostart
    /\ focus # "trail" => at = 1
    /\ IF focus = "fit" THEN OptInit ELSE FitRests
    /\ IF focus = "cap" THEN CapInit ELSE CapRests

ToolsNext ==
    /\ UNCHANGED focus
    /\ \/ focus = "dps" /\ Next /\ UNCHANGED <<mVars, tVars, optVars, capVars>>
       \/ focus = "bridge" /\ McpNext /\ UNCHANGED <<vars, tVars, optVars, capVars>>
       \/ focus = "trail" /\ TrailNext /\ UNCHANGED <<vars, mVars, optVars, capVars>>
       \/ focus = "fit" /\ OptNext /\ UNCHANGED <<vars, mVars, tVars, capVars>>
       \/ focus = "cap" /\ CapNext /\ UNCHANGED <<vars, mVars, tVars, optVars>>

(* The components' fairness: the runtime keeps polling the captures' loops; *)
(* the bridge's thread polls its flag, a tool call ends, and so does the    *)
(* command that waits (a bridge that rests has nothing of that to do);      *)
(* and the optimizer goes on.                                              *)
ToolsFairness ==
    /\ \A g \in Gens : WF_vars(Loop(g))
    /\ McpFairness
    /\ []<>(focus = "fit" => Finished) \/ []<><<~Finished>>_optVars

ToolsSpec == ToolsInit /\ [][ToolsNext]_all /\ ToolsFairness

-----------------------------------------------------------------------------
(* The search of optimize_fit ends, since every swap it takes raises the   *)
(* score (local_search: "iterating to a local optimum").                   *)
SearchEnds == focus = "fit" ~> Finished

=============================================================================
