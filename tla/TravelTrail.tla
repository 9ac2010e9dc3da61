----------------------------- MODULE TravelTrail -----------------------------
(* The travel trail (route/commands.rs): polls of the character's system
   append to one document, the view fills in gaps it finds unknown, and a
   button clears it.  A poll is asynchronous, the others run on the main
   thread; each reads the whole document and writes it back.  The nearest
   known wormhole is looked up from the trail's last entry.                 *)
EXTENDS Integers, Sequences, FiniteSets

CONSTANTS Gated,          \* systems with stargates, as ids
          Wspace,         \* wormhole systems, as ids
          Links,          \* gates between systems, a set of pairs
          Polls,          \* calls of route_location that may be under way
          Feeds,          \* public holes: sets of [at, life, size]
          Cap,            \* BREADCRUMB_CAP
          Far,            \* the jumps gate_distance gives up after
          MaxMoves, MaxPolls, MaxEdits

TrailAssumption == Cap \in Nat

VARIABLES at,             \* where the character is
          trail,          \* route_breadcrumb_<id>: sequence of [sys, gap]
          poll,           \* per call: [step, loc, rows]
          view,           \* the main thread's view: [step, rows]
          moves, polls, edits, \* bounds
          answer          \* the last nearest wormhole: [from, feed, at, jumps]

tVars == <<at, trail, poll, view, moves, polls, edits, answer>>

Systems == Gated \cup Wspace
NoCall == [step |-> "idle", loc |-> 0, rows |-> <<>>]
NoAnswer == [from |-> 0, feed |-> {}, at |-> 0, jumps |-> 0]

TrailInit ==
  /\ at \in Systems
  /\ trail = <<>>
  /\ poll = [p \in Polls |-> NoCall]
  /\ view = NoCall
  /\ moves = 0 /\ polls = 0 /\ edits = 0
  /\ answer = NoAnswer

Beside(s) == {t \in Gated : <<s, t>> \in Links \/ <<t, s>> \in Links}

(* gate_distance: breadth first, up to Far jumps; -1 when not reached.      *)
Jumps(from, to, cap) ==
  LET ring[n \in 0..cap] == IF n = 0 THEN {from} ELSE ring[n - 1] \cup UNION {Beside(s) : s \in ring[n - 1]}
      in == {n \in 0..cap : to \in ring[n]}
  IN IF in = {} THEN -1 ELSE CHOOSE n \in in : \A k \in in : n <= k
GateDistance(from, to) == Jumps(from, to, Far)

(* Mutant: every hop between gates is taken for a single one.               *)
GapToAssumed(prev, to, known) == IF {prev, to} \cap Wspace # {} THEN -1 ELSE IF known THEN 1 ELSE 0

GapTo(prev, to, known) ==
  IF {prev, to} \cap Wspace # {} THEN -1 ELSE IF known THEN GateDistance(prev, to) ELSE 0

---------------------------------------------------------------------------
(* route_location: ask, then load, append and save.                         *)
Ask(p) ==
  /\ poll[p] = NoCall /\ polls < MaxPolls
  /\ polls' = polls + 1
  /\ poll' = [poll EXCEPT ![p].step = "asked"]
  /\ UNCHANGED <<at, trail, view, moves, edits, answer>>

(* ESI answers with where the character is at that moment, or fails.        *)
Answered(p) ==
  /\ poll[p].step = "asked"
  /\ poll' = [poll EXCEPT ![p] = [NoCall EXCEPT !.step = "answered", !.loc = at]]
  /\ UNCHANGED <<at, trail, view, moves, polls, edits, answer>>

Failed(p) ==
  /\ poll[p].step = "asked"
  /\ poll' = [poll EXCEPT ![p] = NoCall]
  /\ UNCHANGED <<at, trail, view, moves, polls, edits, answer>>

LoadTrail(p) ==
  /\ poll[p].step = "answered"
  /\ poll' = [poll EXCEPT ![p].step = "loaded", ![p].rows = trail]
  /\ UNCHANGED <<at, trail, view, moves, polls, edits, answer>>

Capped(rows) == IF Len(rows) > Cap THEN SubSeq(rows, Len(rows) - Cap + 1, Len(rows)) ELSE rows

(* A poll that finds the character where the trail ends writes nothing.     *)
Moved(rows, loc) == rows = <<>> \/ rows[Len(rows)].sys # loc

Append1(rows, loc, known) ==
  LET gap == IF rows = <<>> THEN 0 ELSE GapTo(rows[Len(rows)].sys, loc, known)
  IN Capped(Append(rows, [sys |-> loc, gap |-> gap]))

SavePoll(p) ==
  /\ poll[p].step = "loaded"
  /\ \E known \in BOOLEAN :
       trail' = IF Moved(poll[p].rows, poll[p].loc) THEN Append1(poll[p].rows, poll[p].loc, known) ELSE trail
  /\ poll' = [poll EXCEPT ![p] = NoCall]
  /\ UNCHANGED <<at, view, moves, polls, edits, answer>>

(* route_breadcrumb: entries after the first with an unknown gap are filled
   in, when the gates can be read.                                          *)
View ==
  /\ view = NoCall /\ edits < MaxEdits
  /\ edits' = edits + 1
  /\ view' = [NoCall EXCEPT !.step = "loaded", !.rows = trail]
  /\ UNCHANGED <<at, trail, poll, moves, polls, answer>>

Filled(rows) ==
  [i \in DOMAIN rows |->
     IF i = 1 \/ rows[i].gap # 0 THEN rows[i]
     ELSE [rows[i] EXCEPT !.gap = GapTo(rows[i - 1].sys, rows[i].sys, TRUE)]]

Viewed ==
  /\ view.step = "loaded"
  /\ trail' = IF \E i \in 2..Len(view.rows) : view.rows[i].gap = 0 THEN Filled(view.rows) ELSE trail
  /\ view' = NoCall
  /\ UNCHANGED <<at, poll, moves, polls, edits, answer>>

ViewedNoGates ==
  /\ view.step = "loaded"
  /\ view' = NoCall
  /\ UNCHANGED <<at, trail, poll, moves, polls, edits, answer>>

Clear ==
  /\ view = NoCall /\ edits < MaxEdits
  /\ edits' = edits + 1 /\ trail' = <<>>
  /\ UNCHANGED <<at, poll, view, moves, polls, answer>>

Move ==
  /\ moves < MaxMoves
  /\ \E s \in Systems \ {at} : at' = s
  /\ moves' = moves + 1
  /\ UNCHANGED <<trail, poll, view, polls, edits, answer>>

---------------------------------------------------------------------------
(* candidate_quality: longer life, then a bigger pipe.                      *)
Better(a, b) == a.life > b.life \/ (a.life = b.life /\ a.size > b.size)

(* nearest_all: every target of the first ring that holds one.              *)
NearestAll(from, targets) ==
  LET way(t) == Jumps(from, t, Cardinality(Gated))
      jumps == {way(t) : t \in targets} \ {-1}
      least == CHOOSE n \in jumps : \A k \in jumps : n <= k
  IN IF jumps = {} THEN {} ELSE {t \in targets : way(t) = least}

(* route_nearest_wormhole in known space: one hole per system, the better
   one; among the nearest systems the best again, the highest id last.      *)
Nearest ==
  /\ trail # <<>> /\ answer = NoAnswer
  /\ LET from == trail[Len(trail)].sys
     IN /\ from \in Gated
        /\ \E feed \in Feeds :
             LET usable == {h \in feed : h.at \in Gated}
                 best(s) == CHOOSE h \in usable : h.at = s /\ \A k \in usable : k.at = s => ~Better(k, h)
                 near == NearestAll(from, {h.at : h \in usable})
                 pick == CHOOSE s \in near : \A t \in near \ {s} :
                           Better(best(s), best(t)) \/ (~Better(best(t), best(s)) /\ s > t)
             IN /\ near # {}
                /\ answer' = [from |-> from, feed |-> feed, at |-> pick, jumps |-> Jumps(from, pick, Cardinality(Gated))]
  /\ UNCHANGED <<at, trail, poll, view, moves, polls, edits>>

ForgetAnswer == answer # NoAnswer /\ answer' = NoAnswer /\ UNCHANGED <<at, trail, poll, view, moves, polls, edits>>

TrailNext ==
  \/ \E p \in Polls : Ask(p) \/ Answered(p) \/ Failed(p) \/ LoadTrail(p) \/ SavePoll(p)
  \/ View \/ Viewed \/ ViewedNoGates \/ Clear \/ Move \/ Nearest \/ ForgetAnswer

TrailSpec == TrailInit /\ [][TrailNext]_tVars

---------------------------------------------------------------------------
(* "solid lines only where the hop really was one gate" (route_breadcrumb):
   whatever overlaps, each stored entry's gap is the way from the entry
   before it, or unknown, and no entry repeats the one before.              *)
TrailHonest ==
  \A i \in 2..Len(trail) :
    /\ trail[i].sys # trail[i - 1].sys
    /\ LET pair == {trail[i - 1].sys, trail[i].sys}
       IN trail[i].gap \in IF pair \cap Wspace # {} THEN {-1} ELSE {0, GateDistance(trail[i - 1].sys, trail[i].sys)}

=============================================================================
