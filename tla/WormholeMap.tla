---------------------------- MODULE WormholeMap ----------------------------
(* The wormhole map (wormholes/store.rs, commands.rs): one document of mapped
   connections, pruned whenever it is loaded, changed by synchronous commands
   of the main thread and merged with the feeds of EVE-Scout and Tripwire by
   asynchronous ones.  Nothing locks the document between load and save.
   A row's label are its two signatures, of the source and of the target, as
   sig_pair normalizes them; a row that lacks one matches any hole between its
   two systems.                                                             *)
EXTENDS Naturals, Sequences, FiniteSets

CONSTANTS Pairs,          \* unordered pairs of systems
          Sigs, NoSig,    \* signatures
          Masses,         \* MassStatus, "fresh" among them
          FeedAnswers,    \* what a feed may answer: sequences of [pair, label, eol, left]
          Manual,         \* what the user may add: records [pair, label, scope]
          Relabels,       \* what the user may change a row's signatures to
          MaxAge, EolGrace,  \* WH_MAX_AGE_HOURS, EOL_GRACE_HOURS
          NoEnd,          \* no time
          MaxHour, MaxChanges, MaxImports

Labels == (Sigs \cup {NoSig}) \X (Sigs \cup {NoSig})
ManualRows == [pair : Pairs, label : Labels, scope : {"wormhole", "stargate", "jumpbridge"}]
FeedRows == [pair : Pairs, label : Labels, eol : BOOLEAN, left : Nat]

WormholeAssumption ==
  /\ "fresh" \in Masses
  /\ Relabels \subseteq Labels /\ Manual \subseteq ManualRows /\ FeedAnswers \subseteq Seq(FeedRows)
  /\ MaxHour \in Nat /\ NoEnd \in Nat \ 0..MaxHour

VARIABLES hour,
          conns,          \* wh_connections, the document
          editing,        \* the main thread's command: [at, rows it loaded, did that prune?]
          scout, trip,    \* each import: [at, rows it loaded, the feed's answer]
          changes, imports  \* bounds

hVars == <<hour, conns, editing, scout, trip, changes, imports>>

Idle == [at |-> "idle", rows |-> <<>>, pruned |-> FALSE, feed |-> <<>>]

WhInit ==
  /\ hour = 0
  /\ conns = <<>>
  /\ editing = Idle /\ scout = Idle /\ trip = Idle
  /\ changes = 0 /\ imports = 0

RowIds(rows) == {rows[i].id : i \in DOMAIN rows}
Highest(ids) == CHOOSE n \in ids \cup {0} : \A k \in ids : k <= n

(* prune: a reported collapse time comes before age and EOL; what is not a
   wormhole stays.                                                          *)
Lives(c) ==
  \/ c.scope # "wormhole"
  \/ /\ hour - c.created < MaxAge
     /\ c.expires = NoEnd \/ hour < c.expires
     /\ c.eol /\ c.stamp # NoEnd => hour - c.stamp < EolGrace

(* The rows at the kept places, in their order.                            *)
Retain(rows, kept) ==
  LET upto[n \in 0..Len(rows)] ==
        IF n = 0 THEN <<>> ELSE IF n \in kept THEN Append(upto[n - 1], rows[n]) ELSE upto[n - 1]
  IN upto[Len(rows)]

Loaded == Retain(conns, {i \in DOMAIN conns : Lives(conns[i])})

Full(c) == NoSig \notin {c.label[1], c.label[2]}

(* Two rows describe the same hole unless both have both signatures, other
   ones; either end may be called the source.                               *)
SameHole(a, b) ==
  /\ a.pair = b.pair
  /\ Full(a) /\ Full(b) => {a.label[1], a.label[2]} = {b.label[1], b.label[2]}

(* Mutant: only rows labelled alike are the same hole. *)
MatchesSpelling(rows, c) == \E i \in DOMAIN rows : rows[i].pair = c.pair /\ rows[i].label = c.label
Matches(rows, c) == \E i \in DOMAIN rows : SameHole(rows[i], c)
FirstMatch(rows, c) ==
  rows[CHOOSE i \in DOMAIN rows : SameHole(rows[i], c) /\ \A j \in 1..(i - 1) : ~SameHole(rows[j], c)]

---------------------------------------------------------------------------
(* The commands of the main thread: load, then change and save.            *)

Command ==
  /\ editing = Idle /\ changes < MaxChanges
  /\ changes' = changes + 1
  /\ editing' = [Idle EXCEPT !.at = "loaded", !.rows = Loaded, !.pruned = Len(Loaded) < Len(conns)]
  /\ UNCHANGED <<hour, conns, scout, trip, imports>>

Saves(rows) ==
  /\ editing.at = "loaded"
  /\ conns' = rows /\ editing' = Idle
  /\ UNCHANGED <<hour, scout, trip, changes, imports>>

(* wh_connections writes back what it pruned.                              *)
SaveView == Saves(IF editing.pruned THEN editing.rows ELSE conns)

AddHole ==
  \E c \in Manual :
    LET row == [id |-> Highest(RowIds(editing.rows)) + 1, pair |-> c.pair, label |-> c.label, scope |-> c.scope,
                mass |-> "fresh", eol |-> FALSE, stamp |-> NoEnd, created |-> hour, expires |-> NoEnd,
                source |-> "manual", edited |-> FALSE]
    IN ~Matches(editing.rows, row) /\ Saves(Append(editing.rows, row))

Flagged(c, eol) ==
  [c EXCEPT !.eol = eol, !.stamp = IF ~eol THEN NoEnd ELSE IF c.eol THEN @ ELSE hour]

(* A row's field edited is history: did the user change its signatures?    *)
Relabelled(c, label) == [c EXCEPT !.label = label, !.edited = c.edited \/ label # c.label]

(* wh_update_connection asks nothing of a changed signature.               *)
Update ==
  \E i \in DOMAIN editing.rows, mass \in Masses, eol \in BOOLEAN :
    /\ \A j \in 1..(i - 1) : editing.rows[j].id # editing.rows[i].id
    /\ \E label \in {editing.rows[i].label} \cup Relabels :
         Saves([editing.rows EXCEPT ![i] = Relabelled([Flagged(editing.rows[i], eol) EXCEPT !.mass = mass], label)])

Delete == \E id \in RowIds(editing.rows) : Saves(Retain(editing.rows, {i \in DOMAIN editing.rows : editing.rows[i].id # id}))

---------------------------------------------------------------------------
(* imported_connection, tripwire_connections                               *)
Imported(f, source) ==
  [id |-> 0, pair |-> f.pair, label |-> f.label, scope |-> "wormhole", mass |-> "fresh", eol |-> f.eol,
   stamp |-> IF f.eol THEN hour ELSE NoEnd, created |-> hour,
   expires |-> IF f.left = NoEnd THEN NoEnd ELSE hour + f.left, source |-> source,
   edited |-> FALSE]

(* Mutant: the feed's row replaces the one that was kept. *)
RefreshedByFeed(prev, c) == [c EXCEPT !.id = prev.id]

OrWas(sig, was) == IF sig = NoSig THEN was ELSE sig

(* The refreshed row keeps its identity and what the user said of it; each
   signature that the feed lacks is the one it had.                         *)
Refreshed(prev, c) ==
  [c EXCEPT !.id = prev.id, !.created = prev.created, !.mass = prev.mass, !.eol = prev.eol \/ c.eol,
            !.stamp = IF ~(prev.eol \/ c.eol) THEN NoEnd ELSE IF prev.stamp # NoEnd THEN prev.stamp ELSE c.stamp,
            !.label = <<OrWas(c.label[1], prev.label[1]), OrWas(c.label[2], prev.label[2])>>,
            !.edited = prev.edited]

(* merge_by_source: rows of other sources stay, and hide what the feed says
   of the same hole; this source's rows go unless the feed still has them.  *)
Merge(existing, feed, source) ==
  LET others == Retain(existing, {i \in DOMAIN existing : existing[i].source # source})
      previous == Retain(existing, {i \in DOMAIN existing : existing[i].source = source})
      step[n \in 0..Len(feed)] ==
        IF n = 0 THEN [out |-> others, next |-> Highest(RowIds(existing)) + 1]
        ELSE LET s == step[n - 1]
                 c == Imported(feed[n], source)
             IN IF Matches(s.out, c) THEN s
                ELSE IF Matches(previous, c)
                     THEN [s EXCEPT !.out = Append(@, Refreshed(FirstMatch(previous, c), c))]
                     ELSE [s EXCEPT !.out = Append(@, [c EXCEPT !.id = s.next]), !.next = @ + 1]
  IN step[Len(feed)].out

(* wh_import_evescout loads before it asks, ...                            *)
ScoutBegin ==
  /\ scout = Idle /\ imports < MaxImports
  /\ imports' = imports + 1
  /\ scout' = [Idle EXCEPT !.at = "asked", !.rows = Loaded]
  /\ UNCHANGED <<hour, conns, editing, trip, changes>>

ScoutFails ==
  /\ scout.at = "asked"
  /\ scout' = Idle
  /\ UNCHANGED <<hour, conns, editing, trip, changes, imports>>

ScoutSave ==
  /\ scout.at = "asked"
  /\ \E feed \in FeedAnswers : conns' = Merge(scout.rows, feed, "evescout")
  /\ scout' = Idle
  /\ UNCHANGED <<hour, editing, trip, changes, imports>>

(* ... wh_tripwire_import when it has been answered; without a configured
   account it fails before it asks.                                         *)
TripLoad ==
  /\ trip = Idle /\ imports < MaxImports
  /\ imports' = imports + 1
  /\ \E feed \in FeedAnswers : trip' = [Idle EXCEPT !.at = "loaded", !.rows = Loaded, !.feed = feed]
  /\ UNCHANGED <<hour, conns, editing, scout, changes>>

TripSave ==
  /\ trip.at = "loaded"
  /\ conns' = Merge(trip.rows, [i \in DOMAIN trip.feed |-> [trip.feed[i] EXCEPT !.left = NoEnd]], "tripwire")
  /\ trip' = Idle
  /\ UNCHANGED <<hour, editing, scout, changes, imports>>

Hour == hour < MaxHour /\ hour' = hour + 1 /\ UNCHANGED <<conns, editing, scout, trip, changes, imports>>

WhNext ==
  \/ Command \/ SaveView \/ AddHole \/ Update \/ Delete
  \/ ScoutBegin \/ ScoutFails \/ ScoutSave \/ TripLoad \/ TripSave \/ Hour

WhSpec == WhInit /\ [][WhNext]_hVars

---------------------------------------------------------------------------
Stored == {conns[i] : i \in DOMAIN conns}

(* Two rows of one hole that are as they were added.                       *)
Distinct(rows) ==
  \A i, j \in DOMAIN rows : i # j /\ SameHole(rows[i], rows[j]) => rows[i].edited \/ rows[j].edited

(* No hole is mapped twice, by the user, by a feed or by two of them
   (validate_new_connection, "drop ... colliding", merge_by_source), even if
   the user's commands and both imports overwrite each other: of two rows that
   match, the user changed the signatures of one (wh_update_connection).    *)
OneRowPerHole == Distinct(conns)

Alone(rows, i) == \A j \in DOMAIN rows : rows[j].id = rows[i].id => j = i

(* "Setting EOL stamps the time so the lifecycle can collapse it after the
   grace window": no command and no refresh starts the clock of a row again
   that it found flagged and leaves flagged, or the row would never go; said
   of a row with an id of its own.                                          *)
EolKept ==
  \A actor \in {editing, scout, trip} \ {editing', scout', trip'} :
    conns' # conns => \A i \in DOMAIN actor.rows : \A d \in Stored' :
      LET c == actor.rows[i]
      IN c.id = d.id /\ Alone(actor.rows, i) /\ c.eol /\ d.eol => d.stamp = c.stamp

EolClockRuns == [][EolKept]_hVars

(* "Manual holes are preserved" (wh_import_evescout): only the user's own
   command, or its age, takes a row that the user added off the map.        *)
ImportKeepsManual ==
  ScoutSave => \A c \in Stored : c.source = "manual" /\ Lives(c) => c \in Stored'

ManualKept == [][ImportKeepsManual]_hVars

=============================================================================
