--------------------------- MODULE FactionWarfare ---------------------------
(* The faction-warfare map (intel/commands.rs): each system's occupier and how
   far it is contested, fetched at most every few minutes; where it lies
   relative to the front; and how fast it moves, from a history of samples
   that each fetch loads, extends and saves without a lock.  An occupier that
   loses a system leaves it uncontested.                                    *)
EXTENDS Integers, Sequences, FiniteSets

CONSTANTS Systems, Edges,  \* the systems and the pairs a stargate joins
          Warzone(_),      \* the warzone of a faction
          Owner(_),        \* a system's owner, which does not change
          Factions(_),     \* who may occupy a system
          Plexed,          \* the systems fought over while we look
          Threshold,       \* of victory points
          VpWindow,          \* VP_WINDOW_MAX_SECS
          MaxSamples,      \* VP_HISTORY_MAX_SAMPLES
          Ttl,             \* of the cached map
          Fetchers, MaxClock

WarAssumption ==
  /\ {VpWindow, Threshold, Ttl, MaxClock} \subseteq Nat /\ MaxSamples \in Nat \ {0}
  /\ \A s \in Systems : Factions(s) # {}

VARIABLES clock, occupier, points,   \* ESI's view of the war
          history,                 \* fw_vp_history: each system's samples
          warMap, warMapAt,        \* the map in the cache, and since when
          at, seen, next           \* each fetch: where it is, what ESI told it,
                                   \* the history it will save

wVars == <<clock, occupier, points, history, warMap, warMapAt, at, seen, next>>

NoMap == [occupier |-> <<>>, front |-> <<>>, delta |-> <<>>]
NoTrend == Threshold + 1

WarInit ==
  /\ clock = 0
  /\ occupier \in [Systems -> UNION {Factions(s) : s \in Systems}]
  /\ \A s \in Systems : occupier[s] \in Factions(s)
  /\ points = [s \in Systems |-> 0]
  /\ history = [s \in Systems |-> <<>>]
  /\ warMap = NoMap /\ warMapAt = 0
  /\ at = [f \in Fetchers |-> "idle"]
  /\ seen = [f \in Fetchers |-> <<>>]
  /\ next = [f \in Fetchers |-> <<>>]

---------------------------------------------------------------------------
(* classify_battlefield                                                    *)

(* Neighbours in the same warzone, which goes by the owner.                *)
Adjacent(a, b) == {a, b} \in Edges /\ Warzone(Owner(a)) # "" /\ Warzone(Owner(a)) = Warzone(Owner(b))

Frontline(occ, a) == \E b \in Systems : Adjacent(a, b) /\ occ[b] # occ[a]

(* Mutant: a system is at the front beside any other holder. *)
ClassifyAnyNeighbour(occ) == [a \in Systems |->
  IF \E b \in Systems : {a, b} \in Edges /\ occ[b] # occ[a] THEN "frontline" ELSE "rearguard"]

Classify(occ) == [a \in Systems |->
  IF Frontline(occ, a) THEN "frontline"
  ELSE IF \E b \in Systems : Adjacent(a, b) /\ occ[b] = occ[a] /\ Frontline(occ, b) THEN "commandops"
  ELSE "rearguard"]

---------------------------------------------------------------------------
(* update_vp_history                                                       *)

(* Mutant: the history outlives a change of holder. *)
ExtendedAlways(samples, sample) ==
  LET all == Append(samples, sample)
  IN IF Len(all) > MaxSamples THEN Tail(all) ELSE all

Extended(samples, sample) ==
  LET kept == IF samples # <<>> /\ samples[Len(samples)].occupier # sample.occupier THEN <<>> ELSE samples
      all == Append(kept, sample)
  IN IF Len(all) > MaxSamples THEN Tail(all) ELSE all

(* Mutant: the oldest sample kept counts, however old. *)
DeltaFront(samples) ==
  LET last == samples[Len(samples)]
  IN IF last.ts > samples[1].ts THEN last.points - samples[1].points ELSE NoTrend

(* The place of the oldest sample in the window; the last is always in it. *)
Oldest(samples) ==
  CHOOSE i \in 1..Len(samples) :
    /\ samples[Len(samples)].ts - samples[i].ts <= VpWindow
    /\ \A j \in 1..(i - 1) : samples[Len(samples)].ts - samples[j].ts > VpWindow

(* What changed since then; none without time between the two.             *)
Delta(samples) ==
  LET last == samples[Len(samples)]
      first == samples[Oldest(samples)]
  IN IF last.ts > first.ts THEN last.points - first.points ELSE NoTrend

---------------------------------------------------------------------------
world == <<clock, occupier, points>>

WarTick == clock < MaxClock /\ clock' = clock + 1 /\ UNCHANGED <<occupier, points, history, warMap, warMapAt, at, seen, next>>

(* Plexing: a system is contested further, or taken.                       *)
Contest ==
  /\ \E s \in Plexed :
       \/ /\ points[s] < Threshold
          /\ points' = [points EXCEPT ![s] = @ + 1]
          /\ UNCHANGED occupier
       \/ /\ points[s] = Threshold
          /\ points' = [points EXCEPT ![s] = 0]
          /\ \E o \in Factions(s) \ {occupier[s]} : occupier' = [occupier EXCEPT ![s] = o]
  /\ UNCHANGED <<clock, history, warMap, warMapAt, at, seen, next>>

(* A map that is still good is the answer, and nothing changes.            *)
Look(f) ==
  /\ at[f] = "idle"
  /\ warMap = NoMap \/ clock - warMapAt >= Ttl
  /\ at' = [at EXCEPT ![f] = "fetch"]
  /\ UNCHANGED <<world, history, warMap, warMapAt, seen, next>>

(* The systems are fetched; kills and jumps are best effort and left out.  *)
Fetch(f) ==
  /\ at[f] = "fetch"
  /\ \/ seen' = [seen EXCEPT ![f] = [occupier |-> occupier, points |-> points]] /\ at' = [at EXCEPT ![f] = "load"]
     \/ at' = [at EXCEPT ![f] = "idle"] /\ UNCHANGED seen
  /\ UNCHANGED <<world, history, warMap, warMapAt, next>>

LoadHistory(f) ==
  /\ at[f] = "load"
  /\ at' = [at EXCEPT ![f] = "save"]
  /\ next' = [next EXCEPT ![f] = [s \in Systems |->
       Extended(history[s], [ts |-> clock, points |-> seen[f].points[s], occupier |-> seen[f].occupier[s]])]]
  /\ UNCHANGED <<world, history, warMap, warMapAt, seen>>

SaveHistory(f) ==
  LET map == [occupier |-> seen[f].occupier, front |-> Classify(seen[f].occupier),
              delta |-> [s \in Systems |-> Delta(next[f][s])]]
  IN /\ at[f] = "save"
     /\ history' = next[f]
     /\ warMap' = map /\ warMapAt' = clock
     /\ at' = [at EXCEPT ![f] = "idle"]
     /\ seen' = [seen EXCEPT ![f] = <<>>] /\ next' = [next EXCEPT ![f] = <<>>]
     /\ UNCHANGED world

WarNext == WarTick \/ Contest \/ \E f \in Fetchers : Look(f) \/ Fetch(f) \/ LoadHistory(f) \/ SaveHistory(f)

WarSpec == WarInit /\ [][WarNext]_wVars

---------------------------------------------------------------------------
(* A front has two sides: on the map that is answered, for as long as it is
   cached, a frontline system has a neighbour across the line that is
   frontline too, and a rearguard has no front next to it.                  *)
FrontHasTwoSides ==
  warMap # NoMap => \A a \in Systems :
    /\ warMap.front[a] = "frontline" =>
         \E b \in Systems : /\ Adjacent(a, b) /\ warMap.front[b] = "frontline"
                            /\ warMap.occupier[b] # warMap.occupier[a]
    /\ warMap.front[a] = "rearguard" =>
         \A b \in Systems : Adjacent(a, b) => warMap.front[b] # "frontline"

(* However fetches overlap, one occupier's samples are never compared with
   another's, nor with one from before the window: what moved since a sample
   of its own occupation can be read off the history that is saved.         *)
TrendWithinOccupation ==
  /\ \A s \in Systems : \A i \in 1..Len(history[s]) :
       /\ history[s][i].occupier = history[s][Len(history[s])].occupier
       /\ i > 1 => history[s][i - 1].ts <= history[s][i].ts
  /\ \A f \in Fetchers : at[f] = "save" => \A s \in Systems :
       Delta(next[f][s]) # NoTrend =>
         \E x \in {next[f][s][i] : i \in 1..Len(next[f][s])} :
           /\ next[f][s][Len(next[f][s])].ts - x.ts <= VpWindow /\ x.occupier = seen[f].occupier[s]
           /\ Delta(next[f][s]) = seen[f].points[s] - x.points

WarSound == FrontHasTwoSides /\ TrendWithinOccupation

=============================================================================
