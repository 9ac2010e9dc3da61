----------------------------- MODULE DpsMeter -----------------------------
(***************************************************************************)
(* The DPS meter (modules/dpsmeter/commands.rs): a live capture follows    *)
(* the newest gamelog of a character while the game appends to it, a       *)
(* replay feeds an old log to the same fold on a virtual clock.  At most   *)
(* one of them is meant to run: each claims a number in `generation' and   *)
(* ends when it finds another there.  The chart (the webview's hook and    *)
(* appendBuckets of dpsMeterShared.ts) keeps the buckets it is sent.       *)
(*                                                                         *)
(* Files are numbered in the order in which game sessions create them.  A  *)
(* line is written in two halves at most; sizes and offsets count halves.  *)
(***************************************************************************)
EXTENDS Integers, FiniteSets, Sequences, SequencesExt, BucketFold

CONSTANTS
  Owner,        \* the character of each file, by its number
  Character,    \* the character whose log is followed, or NoCharacter for any
  NoCharacter,
  Grace,        \* LIVE_BUCKET_GRACE_SECS
  RescanTicks,  \* RESCAN_TICKS
  MaxReplay,    \* MAX_PLAYBACK_LOG_BYTES, in lines
  Lags,         \* how long the game may sit on a line
  MaxStep,      \* seconds of a log a poll replays at most
  MaxLines, MaxTime, MaxCaptures, MaxGen   \* bounds: lines in all, the wall clock, captures,
                                           \* captures and stops

ASSUME MeterAssumption ==
  /\ BucketSecs \in Nat \ {0} /\ AmendWindow \in Nat /\ RescanTicks \in Nat \ {0}
  /\ {Grace, MaxReplay, MaxStep, MaxLines, MaxTime, MaxCaptures, MaxGen} \cup Lags \subseteq Nat
  /\ DOMAIN Owner \subseteq Nat \ {0}

VARIABLES
  now,         \* the wall clock, in seconds
  log,         \* for each file the stamps of its lines
  half,        \* the files whose last line is only half written
  created,     \* the files that exist
  recent,      \* the existing files, the one written last first
  generation, paused,   \* DpsState
  request,     \* what the user asked for and the backend has not begun, or Idle
  meter,       \* the captures and replays, by generation
  shown,       \* the chart's buckets
  cleared,     \* history: the generation at which the chart was last emptied,
  writers      \* history: the captures that sent to it since

vars == <<now, log, half, created, recent, generation, paused, request, meter, shown, cleared, writers>>
files == <<log, half, created, recent>>

Files == DOMAIN Owner
Gens == 1..MaxCaptures
Idle == [kind |-> "none", seek |-> 0, lines |-> <<>>]
Off == [kind |-> "none", pc |-> "ended", file |-> 0, from |-> 0, offset |-> 0, tick |-> 0,
        lines |-> <<>>, idx |-> 0, vt |-> 0, grid |-> <<>>,
        batch |-> <<>>, out |-> <<>>, read |-> <<>>]
Line(f, k) == [ts |-> log[f][k], file |-> f, nr |-> k]
Size(f) == 2 * Len(log[f]) - (IF f \in half THEN 1 ELSE 0)
Lines(f, lo, hi) == [i \in 1..(hi - lo + 1) |-> Line(f, lo + i - 1)]

-----------------------------------------------------------------------------
(* The game: a session creates its log and appends to it; what it writes may *)
(* be seconds old, and the reader may find half of a line.                   *)
Create(f) ==
  /\ f \notin created
  /\ \A g \in Files : g < f => g \in created
  /\ created' = created \cup {f} /\ recent' = <<f>> \o recent
  /\ UNCHANGED <<now, log, half, generation, paused, request, meter, shown, cleared, writers>>

\* The files in the order in which they were written last, once f is written.
MovedFirst(f) ==
  LET at == CHOOSE i \in DOMAIN recent : recent[i] = f
  IN  [i \in DOMAIN recent |-> IF i = 1 THEN f ELSE IF i <= at THEN recent[i - 1] ELSE recent[i]]

Latest(f) == \A g \in created : Owner[g] = Owner[f] => g <= f

Write(f) ==
  /\ f \in created /\ Latest(f)
  /\ recent' = MovedFirst(f)
  /\ IF f \in half THEN /\ half' = half \ {f} /\ UNCHANGED log
     ELSE \E lag \in Lags, whole \in BOOLEAN :
            /\ lag <= now
            /\ Cardinality({ x \in Files \X (1..MaxLines) : x[2] \in DOMAIN log[x[1]] }) < MaxLines
            /\ log' = [log EXCEPT ![f] = Append(@, now - lag)]
            /\ half' = IF whole THEN half ELSE half \cup {f}
  /\ UNCHANGED <<now, created, generation, paused, request, meter, shown, cleared, writers>>

Second ==
  /\ now < MaxTime /\ now' = now + 1
  /\ UNCHANGED <<files, generation, paused, request, meter, shown, cleared, writers>>

-----------------------------------------------------------------------------
(* The chart.                                                                *)
Upsert(kept, b) ==
  IF kept = <<>> \/ b.start > Last(kept).start THEN Append(kept, b)
  ELSE [i \in DOMAIN kept |-> IF kept[i].start = b.start THEN b ELSE kept[i]]

Sent(chart, out) ==
  LET kept[i \in 0..Len(out)] ==
        IF i = 0 THEN chart ELSE Upsert(kept[i - 1], out[i])
  IN  kept[Len(out)]

Send(g, out) ==
  /\ shown' = Sent(shown, out)
  /\ writers' = IF out = <<>> THEN writers ELSE writers \cup {g}

-----------------------------------------------------------------------------
(* The commands.  The webview empties the chart before it calls.             *)
AskStart ==
  /\ request = Idle /\ created # {} /\ generation < MaxCaptures
  /\ request' = [Idle EXCEPT !.kind = "live"] /\ shown' = <<>> /\ cleared' = generation /\ writers' = {}
  /\ UNCHANGED <<now, files, generation, paused, meter>>

AskPlayback(f) ==
  /\ request = Idle /\ f \in created /\ generation < MaxCaptures
  /\ \E seek \in {0} \cup { log[f][k] : k \in DOMAIN log[f] } :
       request' = [kind |-> "load", seek |-> seek, lines |-> <<f>>]
  /\ shown' = <<>> /\ cleared' = generation /\ writers' = {}
  /\ UNCHANGED <<now, files, generation, paused, meter>>

\* load_and_resolve_events: the whole file, sorted; refused if it is too large or has no line.
Load ==
  /\ request.kind = "load"
  /\ LET f == request.lines[1]
         whole == Lines(f, 1, Size(f) \div 2)
     IN  request' = IF Len(whole) \in 1..MaxReplay
                    THEN [request EXCEPT !.kind = "replay",
                            !.lines = InOrder(whole)]
                    ELSE Idle
  /\ UNCHANGED <<now, files, generation, paused, meter, shown, cleared, writers>>

Claim == /\ generation < MaxCaptures /\ generation' = generation + 1
         /\ paused' = FALSE /\ request' = Idle

\* pick_newest_gamelog: a log whose header is not written yet belongs to nobody.
Followed(f) == Character = NoCharacter \/ (Owner[f] = Character /\ log[f] # <<>>)

Pick ==
  LET mine == { i \in DOMAIN recent : Followed(recent[i]) }
  IN  IF mine = {} THEN 0 ELSE recent[CHOOSE i \in mine : \A j \in mine : i <= j]

\* dps_start: from the end of the newest log, with the grid anchored at the present.
Start ==
  /\ request.kind = "live" /\ Claim
  /\ meter' = [meter EXCEPT ![generation'] =
       [Off EXCEPT !.kind = "live", !.pc = "poll", !.file = Pick,
          !.from = IF Pick = 0 THEN 0 ELSE Size(Pick), !.offset = IF Pick = 0 THEN 0 ELSE Size(Pick),
          !.grid = AdvanceTo(<<>>, now - Grace).grid]]
  /\ UNCHANGED <<now, files, shown, cleared, writers>>

SeekStart(lines, seek) ==
  LET at == IF seek = 0 \/ seek < Head(lines).ts THEN Head(lines).ts
            ELSE IF seek > Last(lines).ts THEN Last(lines).ts ELSE seek
  IN  [at |-> at, idx |-> Cardinality({ i \in DOMAIN lines : lines[i].ts <= at })]

\* dps_playback once the log is loaded.
Playback ==
  /\ request.kind = "replay" /\ Claim
  /\ LET s == SeekStart(request.lines, request.seek)
     IN  meter' = [meter EXCEPT ![generation'] =
           [Off EXCEPT !.kind = "replay", !.pc = "poll", !.lines = request.lines,
              !.from = s.idx, !.idx = s.idx, !.vt = s.at, !.grid = AdvanceTo(<<>>, s.at).grid]]
  /\ UNCHANGED <<now, files, shown, cleared, writers>>

Stop ==
  /\ generation \in 1..(MaxGen - 1) /\ generation' = generation + 1 /\ paused' = FALSE
  /\ UNCHANGED <<now, files, request, meter, shown, cleared, writers>>

SetPaused(b) ==
  /\ generation > 0 /\ paused # b /\ paused' = b
  /\ UNCHANGED <<now, files, generation, request, meter, shown, cleared, writers>>

-----------------------------------------------------------------------------
(* The loops.  A superseded one ends, also while it is paused.               *)
Superseded(g) == generation # g

\* Mutant: the flag is looked at before the generation.
EndUnlessPaused(g) ==
  /\ meter[g].pc = "poll" /\ Superseded(g) /\ ~paused
  /\ meter' = [meter EXCEPT ![g] = Off]
  /\ UNCHANGED <<now, files, generation, paused, request, shown, cleared, writers>>

End(g) ==
  /\ meter[g].pc = "poll" /\ Superseded(g)
  /\ meter' = [meter EXCEPT ![g] = Off]
  /\ UNCHANGED <<now, files, generation, paused, request, shown, cleared, writers>>

Goes(g) == meter[g].pc = "poll" /\ ~Superseded(g) /\ ~paused

Live(g) ==
  /\ Goes(g) /\ meter[g].kind = "live"
  /\ LET tick == (meter[g].tick + 1) % RescanTicks
         switch == /\ meter[g].file = 0 \/ tick = 0
                   /\ Pick # 0 /\ Pick # meter[g].file
     IN  meter' = [meter EXCEPT ![g].tick = tick, ![g].pc = "read",
                     ![g].file = IF switch THEN Pick ELSE @,
                     ![g].offset = IF switch THEN 0 ELSE @,
                     ![g].from = IF switch THEN 0 ELSE @]
  /\ UNCHANGED <<now, files, generation, paused, request, shown, cleared, writers>>

\* Mutant: a half-written last line counts as read.
AppendedSplit(f, offset) ==
  IF f = 0 THEN [lines |-> <<>>, next |-> offset]
  ELSE [lines |-> Lines(f, (offset + 1) \div 2 + 1, Size(f) \div 2), next |-> Size(f)]

\* read_appended: up to the last whole line; the rest of a line begun before from is no line.
Appended(f, offset) ==
  IF f = 0 THEN [lines |-> <<>>, next |-> offset]
  ELSE LET upto == Size(f) \div 2
       IN  IF 2 * upto <= offset THEN [lines |-> <<>>, next |-> offset]
           ELSE [lines |-> Lines(f, (offset + 1) \div 2 + 1, upto), next |-> 2 * upto]

Read(g) ==
  /\ meter[g].pc = "read"
  /\ LET a == Appended(meter[g].file, meter[g].offset)
     IN  meter' = [meter EXCEPT ![g].pc = "fold", ![g].offset = a.next, ![g].batch = a.lines]
  /\ UNCHANGED <<now, files, generation, paused, request, shown, cleared, writers>>

\* The virtual clock moves on by step seconds of the log.
Replay(g) ==
  /\ Goes(g) /\ meter[g].kind = "replay"
  /\ \E step \in 1..MaxStep :
       LET m == meter[g]
           due == Cardinality({ i \in DOMAIN m.lines : m.lines[i].ts <= m.vt + step })
       IN  meter' = [meter EXCEPT ![g].pc = "fold", ![g].vt = @ + step,
                       ![g].batch = SubSeq(m.lines, m.idx + 1, due),
                       ![g].idx = IF due > @ THEN due ELSE @]
  /\ UNCHANGED <<now, files, generation, paused, request, shown, cleared, writers>>

\* One line of the batch into the fold.
Fold(g) ==
  /\ meter[g].pc = "fold" /\ meter[g].batch # <<>>
  /\ LET p == Push(meter[g].grid, Head(meter[g].batch))
     IN  meter' = [meter EXCEPT ![g].grid = p.grid, ![g].out = @ \o p.out,
                     ![g].batch = Tail(@), ![g].read = Append(@, Head(meter[g].batch))]
  /\ UNCHANGED <<now, files, generation, paused, request, shown, cleared, writers>>

\* The rest of the poll: the clock, and one message to the chart.  A replay is done one bucket
\* past its last line.
Ship(g) ==
  /\ meter[g].pc = "fold" /\ meter[g].batch = <<>>
  /\ LET live == meter[g].kind = "live"
         p == AdvanceTo(meter[g].grid, IF live THEN now - Grace ELSE meter[g].vt)
         done == ~live /\ meter[g].vt > Last(meter[g].lines).ts + BucketSecs
     IN  /\ meter' = [meter EXCEPT ![g].grid = p.grid, ![g].out = <<>>,
                        ![g].pc = IF done THEN "done" ELSE "poll"]
         /\ Send(g, meter[g].out \o p.out)
  /\ UNCHANGED <<now, files, generation, paused, request, cleared>>

-----------------------------------------------------------------------------
Init ==
  /\ now = 0 /\ log = [f \in Files |-> <<>>] /\ half = {} /\ created = {} /\ recent = <<>>
  /\ generation = 0 /\ paused = FALSE /\ request = Idle
  /\ meter = [g \in Gens |-> Off] /\ shown = <<>> /\ cleared = 0 /\ writers = {}

Loop(g) == End(g) \/ Live(g) \/ Replay(g) \/ Read(g) \/ Fold(g) \/ Ship(g)

Next ==
  \/ \E f \in Files : Create(f) \/ Write(f) \/ AskPlayback(f)
  \/ Second \/ AskStart \/ Load \/ Start \/ Playback \/ Stop
  \/ \E b \in BOOLEAN : SetPaused(b)
  \/ \E g \in Gens : Loop(g)

Spec == Init /\ [][Next]_vars

\* The runtime keeps polling the loops.
FairSpec == Spec /\ \A g \in Gens : WF_vars(Loop(g))

-----------------------------------------------------------------------------
(* The chart holds exactly what its capture read: its buckets follow each other  *)
(* without a hole up to the one in progress, every line read is in one of them,  *)
(* once, and in the bucket of its own stamp unless that is older than all that   *)
(* is parked.  It is said of a chart nobody else wrote to.                       *)
Alone(g) == /\ meter[g].pc \in {"poll", "done"} /\ g = generation /\ g > cleared
            /\ shown # <<>> /\ writers = {g}

GridIsLog ==
  \A g \in Gens : Alone(g) =>
    LET grid == shown \o <<Last(meter[g].grid)>>
        Oldest(i) == IF i - AmendWindow > 1 THEN grid[i - AmendWindow].start ELSE grid[1].start
    IN  /\ \A i \in 2..Len(grid) : grid[i].start = grid[i - 1].start + BucketSecs
        /\ \A l \in Range(meter[g].read) : \E i \in DOMAIN grid : \E j \in DOMAIN grid[i].lines :
             \A k \in DOMAIN grid : \A m \in DOMAIN grid[k].lines : grid[k].lines[m] = l <=> k = i /\ m = j
        /\ \A i \in DOMAIN grid : \A l \in Range(grid[i].lines) :
             /\ l \in Range(meter[g].read)
             /\ BucketStart(l.ts) # grid[i].start => BucketStart(l.ts) < Oldest(i)

(* A capture reads the whole lines of the log it follows, from where it began, in *)
(* order, each once, however they were flushed and however often it looked for a  *)
(* newer log.                                                                     *)
FollowsTheLog ==
  \A g \in Gens : meter[g].kind = "live" /\ meter[g].file # 0 =>
    LET got == meter[g].read \o meter[g].batch
        due == Lines(meter[g].file, (meter[g].from + 1) \div 2 + 1, meter[g].offset \div 2)
        before == Len(got) - Len(due)
    IN  /\ before >= 0 /\ SubSeq(got, before + 1, Len(got)) = due
        /\ \A i \in 1..before : got[i].file # meter[g].file

MeterHonest == GridIsLog /\ FollowsTheLog

(* A capture that was replaced or stopped ends, also if it was paused meanwhile.  *)
SupersededEnds ==
  \A g \in Gens : (meter[g].kind # "none" /\ Superseded(g)) ~> (meter[g].pc \in {"ended", "done"})

===========================================================================
