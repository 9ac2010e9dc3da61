---------------------------- MODULE BucketFold ----------------------------
(***************************************************************************)
(* The fixed grid of modules/dpsmeter/bucket.rs: a stream of log lines     *)
(* becomes buckets of BucketSecs seconds of event time.  A fold is the     *)
(* sequence of its accumulators, oldest first: the last one is `current',  *)
(* those before it are parked in `recent' for lines that were flushed      *)
(* late.  An accumulator is known by its start and by the lines in it; the *)
(* sums and rows the code derives from those lines are functions of them.  *)
(* A line is a record with a field ts.                                     *)
(***************************************************************************)
EXTENDS Integers, Sequences, FiniteSets, SequencesExt

CONSTANTS BucketSecs, AmendWindow

BucketStart(ts) == ts - (ts % BucketSecs)

Empty(start) == [start |-> start, lines |-> <<>>]

Add(acc, line) == [acc EXCEPT !.lines = Append(@, line)]

\* A stable sort by the stamps: where a line goes, and all of them there.
Place(lines, k) ==
  Cardinality({ j \in DOMAIN lines : lines[j].ts < lines[k].ts \/ (lines[j].ts = lines[k].ts /\ j <= k) })
InOrder(lines) == [i \in 1..Len(lines) |-> lines[CHOOSE k \in DOMAIN lines : Place(lines, k) = i]]

\* What is shipped of an accumulator: its lines in the order of their stamps.
Snapshot(acc) == [acc EXCEPT !.lines = InOrder(@)]

\* Mutant: a stretch without a line has no buckets.
GapSkipped(last, target) == <<>>

\* The empty buckets between the last one and the one at target.
Gap(last, target) ==
  [i \in 1..((target - last) \div BucketSecs - 1) |-> Empty(last + i * BucketSecs)]

\* At most AmendWindow accumulators stay amendable.
Park(all) ==
  IF Len(all) > AmendWindow THEN SubSeq(all, Len(all) - AmendWindow + 1, Len(all)) ELSE all

\* Finalise up to the bucket at target, which becomes the current one.
RollTo(grid, target) ==
  LET gap == Gap(Last(grid).start, target)
  IN  [grid |-> Append(Park(grid \o gap), Empty(target)), out |-> <<Snapshot(Last(grid))>> \o gap]

Into(grid, i, line) == [grid EXCEPT ![i] = Add(@, line)]

\* An older line re-opens its bucket while that is parked, and is clamped into the current one if not.
Push(grid, line) ==
  LET target == BucketStart(line.ts)
      parked == { i \in 1..(Len(grid) - 1) : grid[i].start = target }
  IN  IF grid = <<>> THEN [grid |-> <<Add(Empty(target), line)>>, out |-> <<>>]
      ELSE IF target > Last(grid).start
      THEN LET rolled == RollTo(grid, target)
           IN  [grid |-> Into(rolled.grid, Len(rolled.grid), line), out |-> rolled.out]
      ELSE IF parked = {} THEN [grid |-> Into(grid, Len(grid), line), out |-> <<>>]
      ELSE LET i == CHOOSE i \in parked : TRUE
           IN  [grid |-> Into(grid, i, line), out |-> <<Snapshot(Into(grid, i, line)[i])>>]

AdvanceTo(grid, now) ==
  LET target == BucketStart(now)
  IN  IF grid = <<>> THEN [grid |-> <<Empty(target)>>, out |-> <<>>]
      ELSE IF target <= Last(grid).start THEN [grid |-> grid, out |-> <<>>]
      ELSE RollTo(grid, target)
=============================================================================
