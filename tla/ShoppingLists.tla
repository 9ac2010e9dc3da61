--------------------------- MODULE ShoppingLists ---------------------------
(* The shopping lists: one JSON document, edited by synchronous commands (each
   loads it, changes it and writes it whole, on the main thread), and the chat
   capture that follows the logs of an EVE channel and adds what is linked
   there.  A list is the quantity it holds of each type; names, order and
   wording are left out.                                                    *)
EXTENDS Integers, Sequences, FiniteSets, SequencesExt

CONSTANTS Bases,      \* the slugs a list's name may give; "default", "production" and "chat" among them
          Targets,    \* the lists the panel may ask the capture to fill, existing or not
          Types, Senders, Channels,
          Logs,       \* the log files, a sequence in the order of their names
          LogOf,      \* the channel of each log file
          MaxQuantity, \* i64::MAX, where a quantity saturates
          Cooldown,   \* CHAT_DEDUP_COOLDOWN_SECS
          Lookback,     \* the day a log is followed, and a cooldown kept, for
          MaxTime, MaxMessages, MaxCommands, MaxMishaps

ShopAssumption == Cooldown \in Nat \ {0} /\ Lookback \in Nat /\ MaxTime \in Nat /\ MaxQuantity \in Nat

VARIABLES doc,        \* shopping_lists.json, as it reads
          gameTime, messages, \* the game: its clock, and every message with the logs that carry it
          locked,     \* the logs that cannot be read now
          ui,         \* the capture panel: whether it listens, to which channel, its next poll the first
          commands, mishaps, \* how many commands and faults there were
          fate        \* ghost, per message: whether it ever was imported, and since it was last out of sight, how often,
                      \* and whether a first poll marked it

shopVars == <<doc, gameTime, messages, locked, ui, commands, mishaps, fate>>

Never == -1
ChatList == <<"chat", 1>>
Builtin == {<<"default", 1>>, <<"production", 1>>}
NoItems == [t \in Types |-> 0]

(* The id of a new list: the slug of its name, numbered until it is unique. *)
SlugId(base, existing) ==
  <<base, CHOOSE n \in 1..Cardinality(existing) + 1 :
            /\ <<base, n>> \notin existing
            /\ \A k \in 1..n - 1 : <<base, k>> \in existing>>

Add(list, t, q) == [list EXCEPT ![t] = IF @ + q > MaxQuantity THEN MaxQuantity ELSE @ + q]

SetQuantities(list, updates) ==
  LET set[n \in 0..Len(updates)] ==
        IF n = 0 THEN list
        ELSE [set[n - 1] EXCEPT ![updates[n][1]] = IF updates[n][2] <= 0 THEN 0 ELSE updates[n][2]]
  IN set[Len(updates)]

(* Everything the source holds of the given types, on top of the target. *)
MoveAll(lists, from, to, types) ==
  [lists EXCEPT ![from] = [t \in Types |-> IF t \in types THEN 0 ELSE @[t]],
                ![to] = [t \in Types |-> IF t \in types THEN Add(@, t, lists[from][t])[t] ELSE @[t]]]

NewChat == [channel |-> "", seen |-> {}, cooldown |-> <<>>]

(* What a document reads as that is missing, or does not parse.            *)
TornDoc == [lists |-> <<>>, chat |-> NewChat]

(* Its lists as a command sees them, with the built-in ones in every case. *)
Lists == [id \in DOMAIN doc.lists \cup Builtin |-> IF id \in DOMAIN doc.lists THEN doc.lists[id] ELSE NoItems]

Save(store) == doc' = store
SaveLists(lists) == Save([doc EXCEPT !.lists = lists])

---------------------------------------------------------------------------
(* The commands that edit a list.                                          *)
Edited == /\ commands' = commands + 1
          /\ UNCHANGED <<gameTime, messages, locked, ui, mishaps, fate>>

CreateList(base) ==
  /\ Edited
  /\ LET id == SlugId(base, DOMAIN Lists)
     IN SaveLists([i \in DOMAIN Lists \cup {id} |-> IF i = id THEN NoItems ELSE Lists[i]])

DeleteList(id) ==
  /\ id \notin Builtin
  /\ Edited
  /\ SaveLists([i \in DOMAIN Lists \ {id} |-> Lists[i]])

AddItem(id, t, quantity) ==
  /\ Edited
  /\ id \in DOMAIN Lists
  /\ SaveLists([Lists EXCEPT ![id] = Add(@, t, IF quantity > 0 THEN quantity ELSE 1)])

SetQuantity(id, t, quantity) ==
  /\ Edited
  /\ id \in DOMAIN Lists
  /\ SaveLists([Lists EXCEPT ![id] = SetQuantities(@, <<<<t, quantity>>>>)])

RemoveItem(id, t) ==
  /\ Edited
  /\ id \in DOMAIN Lists
  /\ SaveLists([Lists EXCEPT ![id][t] = 0])

ClearList(id) ==
  /\ Edited
  /\ id \in DOMAIN Lists
  /\ SaveLists([Lists EXCEPT ![id] = NoItems])

(* Mutant: what was taken from the source is saved though there is no target. *)
MoveItemSaved(from, to, t, quantity) ==
  /\ Edited
  /\ from # to
  /\ from \in DOMAIN Lists
  /\ Lists[from][t] > 0
  /\ LET there == Lists[from][t]
         moved == IF quantity > 0 /\ quantity < there THEN quantity ELSE there
         given == [Lists EXCEPT ![from][t] = @ - moved]
     IN IF to \in DOMAIN Lists
        THEN SaveLists([given EXCEPT ![to] = Add(@, t, moved)])
        ELSE SaveLists(given)

(* The source gives before the target is looked for; nothing is saved when
   there is none.                                                           *)
MoveItem(from, to, t, quantity) ==
  /\ Edited
  /\ from # to
  /\ from \in DOMAIN Lists
  /\ Lists[from][t] > 0
  /\ LET there == Lists[from][t]
         moved == IF quantity > 0 /\ quantity < there THEN quantity ELSE there
         given == [Lists EXCEPT ![from][t] = @ - moved]
     IN IF to \in DOMAIN Lists
        THEN SaveLists([given EXCEPT ![to] = Add(@, t, moved)])
        ELSE UNCHANGED doc

MoveItems(from, to, types) ==
  /\ Edited
  /\ from # to
  /\ {from, to} \subseteq DOMAIN Lists
  /\ SaveLists(MoveAll(Lists, from, to, types))

---------------------------------------------------------------------------
(* One poll of the capture.                                                *)
Carriers(i) == {k \in DOMAIN Logs : Logs[k] \in messages[i].logs}
Recent(channel) ==
  {k \in DOMAIN Logs : /\ LogOf[Logs[k]] = channel
                       /\ \E i \in DOMAIN messages :
                            k \in Carriers(i) /\ messages[i].ts >= gameTime - Lookback}

Key(i) == <<messages[i].ts, messages[i].sender>>

(* The messages of the followed logs, one per key: the first file's first. *)
Union(channel) ==
  LET followed == {k \in Recent(channel) : Logs[k] \notin locked}
      found == {p \in followed \X DOMAIN messages : p[1] \in Carriers(p[2])}
      first(p) == \A q \in found :
                    Key(q[2]) = Key(p[2]) => p[1] < q[1] \/ (p[1] = q[1] /\ p[2] <= q[2])
  IN {p[2] : p \in {q \in found : first(q)}}

Kept(cooldown) == [p \in {p \in DOMAIN cooldown : cooldown[p] >= gameTime - Lookback} |-> cooldown[p]]

(* Mutant: only the new keys are remembered. *)
SeenLast(seen, keys) == keys \ seen

(* What is remembered of the messages: those of the followed logs, now.    *)
Seen(seen, keys) == keys

(* Mutant: the cooldown lasts one second longer. *)
LastAcceptedInclusive(cooldown, pair, seconds) ==
  LET last[s \in -1..MaxTime] ==
        IF s = -1 THEN IF pair \in DOMAIN cooldown THEN cooldown[pair] ELSE Never
        ELSE LET before == last[s - 1]
                 dup == before # Never /\ s - before \in 0..Cooldown
             IN IF s \in seconds /\ ~dup THEN s ELSE before
  IN last

(* The last accepted post of an item by a sender, second by second, when the
   posts at the given seconds are taken in order.                           *)
LastAccepted(cooldown, pair, seconds) ==
  LET last[s \in -1..MaxTime] ==
        IF s = -1 THEN IF pair \in DOMAIN cooldown THEN cooldown[pair] ELSE Never
        ELSE LET before == last[s - 1]
                 dup == before # Never /\ s - before \in 0..Cooldown - 1
             IN IF s \in seconds /\ ~dup THEN s ELSE before
  IN last

OutOfSight(f) == [f EXCEPT !.imported = 0, !.marked = FALSE]

(* A new channel starts from nothing.                                      *)
Opened(channel) == IF doc.chat.channel # channel THEN [NewChat EXCEPT !.channel = channel] ELSE doc.chat

(* The messages that are not seen yet, and those that post an item.        *)
Fresh(channel) == {i \in Union(channel) : Key(i) \notin Opened(channel).seen}
Posts(channel, p) == {i \in Fresh(channel) : messages[i].sender = p[1] /\ p[2] \in messages[i].items}
Posted(channel) == {p \in Senders \X Types : Posts(channel, p) # {}}

(* Each item's history from the cooldown that was kept, and what it accepts. *)
Histories(channel) ==
  [p \in Posted(channel) |->
     LastAccepted(Kept(Opened(channel).cooldown), p, {messages[i].ts : i \in Posts(channel, p)})]

Taken(channel) ==
  LET last == Histories(channel)
  IN {x \in Fresh(channel) \X Posted(channel) :
        LET ts == messages[x[1]].ts
        IN x[1] \in Posts(channel, x[2]) /\ last[x[2]][ts] = ts /\ last[x[2]][ts - 1] # ts}

Cooled(channel) ==
  LET cooled == Kept(Opened(channel).cooldown)
      last == Histories(channel)
  IN [p \in DOMAIN cooled \cup DOMAIN last |-> IF p \in DOMAIN last THEN last[p][MaxTime] ELSE cooled[p]]

(* What a poll did to the messages, for the ghost.                         *)
Fates(channel, fromNow) ==
  LET keys == {Key(i) : i \in Union(channel)}
      taken == Taken(channel)
      lost(i) == messages[i].channel # channel \/ (Recent(channel) # {} /\ Key(i) \notin keys)
  IN [i \in DOMAIN fate |->
        IF lost(i) THEN OutOfSight(fate[i])
        ELSE IF fromNow THEN [fate[i] EXCEPT !.marked = @ \/ Key(i) \in keys]
        ELSE IF \A x \in taken : x[1] # i THEN fate[i]
        ELSE [fate[i] EXCEPT !.imported = @ + 1, !.ever = TRUE]]

(* shopping_chat_sync: nothing happens when the target is gone; without a log,
   the channel is noted; the first poll of a session only marks what is there;
   what changes nothing is not saved.                                       *)
ChatSync(channel, fromNow, target) ==
  LET lists == IF target = ChatList /\ target \notin DOMAIN Lists
               THEN [i \in DOMAIN Lists \cup {target} |-> IF i = target THEN NoItems ELSE Lists[i]]
               ELSE Lists
      keys == {Key(i) : i \in Union(channel)}
      taken == Taken(channel)
      filled == [lists EXCEPT ![target] =
                   [t \in Types |-> Add(@, t, Cardinality({x \in taken : x[2][2] = t}))[t]]]
  IN IF target \notin DOMAIN lists THEN UNCHANGED <<doc, fate>>
     ELSE /\ fate' = Fates(channel, fromNow)
          /\ IF Recent(channel) = {} THEN Save([lists |-> lists, chat |-> Opened(channel)])
             ELSE IF fromNow THEN Save([lists |-> lists, chat |-> [Opened(channel) EXCEPT !.seen = keys]])
             ELSE IF doc.chat.channel = channel /\ keys = doc.chat.seen /\ taken = {} THEN UNCHANGED doc
             ELSE Save([lists |-> filled,
                        chat |-> [channel |-> channel, seen |-> Seen(Opened(channel).seen, keys),
                                  cooldown |-> Cooled(channel)]])

(* The panel polls while it listens; whatever becomes of the call, the next
   poll is not the first any more.                                          *)
Poll(target) ==
  /\ ui.listening
  /\ ChatSync(ui.channel, ui.fromNow, target)
  /\ ui' = [ui EXCEPT !.fromNow = FALSE]
  /\ UNCHANGED <<gameTime, messages, locked, commands, mishaps>>

(* A call that fails before it reads the document: no SDE, no such folder. *)
PollFails ==
  /\ ui.listening
  /\ mishaps < MaxMishaps
  /\ mishaps' = mishaps + 1
  /\ ui' = [ui EXCEPT !.fromNow = FALSE]
  /\ UNCHANGED <<doc, gameTime, messages, locked, commands, fate>>

Start(channel) ==
  /\ ~ui.listening
  /\ commands < MaxCommands
  /\ commands' = commands + 1
  /\ ui' = [listening |-> TRUE, fromNow |-> TRUE, channel |-> channel]
  /\ UNCHANGED <<doc, gameTime, messages, locked, mishaps, fate>>

Stop ==
  /\ ui.listening
  /\ ui' = [ui EXCEPT !.listening = FALSE]
  /\ UNCHANGED <<doc, gameTime, messages, locked, commands, mishaps, fate>>

---------------------------------------------------------------------------
(* The game and the file system.                                           *)
Second == /\ gameTime < MaxTime
          /\ gameTime' = gameTime + 1
          /\ UNCHANGED <<doc, messages, locked, ui, commands, mishaps, fate>>

Post(sender, items, logs) ==
  /\ Len(messages) < MaxMessages
  /\ messages' = Append(messages, [sender |-> sender, ts |-> gameTime, items |-> items, logs |-> logs,
                                   channel |-> LogOf[CHOOSE l \in logs : TRUE]])
  /\ fate' = Append(fate, [imported |-> 0, marked |-> FALSE, ever |-> FALSE])
  /\ UNCHANGED <<doc, gameTime, locked, ui, commands, mishaps>>

Lock(log) ==
  /\ mishaps < MaxMishaps
  /\ log \notin locked
  /\ locked' = locked \cup {log}
  /\ mishaps' = mishaps + 1
  /\ UNCHANGED <<doc, gameTime, messages, ui, commands, fate>>

Unlock(log) ==
  /\ log \in locked
  /\ locked' = locked \ {log}
  /\ UNCHANGED <<doc, gameTime, messages, ui, commands, mishaps, fate>>

(* The program dies while it writes the document in place.                 *)
DiesSaving ==
  /\ mishaps < MaxMishaps
  /\ mishaps' = mishaps + 1
  /\ doc' = TornDoc
  /\ ui' = [ui EXCEPT !.listening = FALSE]
  /\ fate' = [i \in DOMAIN fate |-> OutOfSight(fate[i])]
  /\ UNCHANGED <<gameTime, messages, locked, commands>>

---------------------------------------------------------------------------
ShopInit ==
  /\ doc = TornDoc
  /\ gameTime = 0
  /\ messages = <<>>
  /\ locked = {}
  /\ ui = [listening |-> FALSE, fromNow |-> FALSE, channel |-> ""]
  /\ commands = 0
  /\ mishaps = 0
  /\ fate = <<>>

Ids == DOMAIN Lists

Moves ==
  \/ \E from \in Ids, to \in Ids \cup {ChatList}, t \in Types : MoveItem(from, to, t, 1)
  \/ \E from, to \in Ids, types \in SUBSET Types : MoveItems(from, to, types)

Edits ==
  /\ commands < MaxCommands
  /\ \/ \E b \in Bases : CreateList(b)
     \/ \E id \in Ids : DeleteList(id) \/ ClearList(id)
     \/ \E id \in Ids, t \in Types : AddItem(id, t, 2) \/ SetQuantity(id, t, 0) \/ RemoveItem(id, t)
     \/ Moves

ShopNext ==
  \/ Edits
  \/ \E target \in Targets : Poll(target)
  \/ PollFails
  \/ \E c \in Channels : Start(c)
  \/ Stop
  \/ Second
  \/ \E s \in Senders, items \in SUBSET Types, c \in Channels,
        logs \in SUBSET ToSet(Logs) :
       /\ items # {} /\ logs # {}
       /\ \A l \in logs : LogOf[l] = c
       /\ Post(s, items, logs)
  \/ \E l \in ToSet(Logs) : Lock(l) \/ Unlock(l)
  \/ DiesSaving

ShopSpec == ShopInit /\ [][ShopNext]_shopVars

---------------------------------------------------------------------------
(* Nothing is bought twice: however many logs carry a message, and however
   often they are polled, it is imported again only when a poll in between did
   not see it (its log unreadable or too old, the channel changed) or the
   document was lost (ChatState.seen, the union of shopping_chat_sync).     *)
ImportedOnce == \A i \in DOMAIN fate : fate[i].imported <= 1

Near(i, j) == messages[i].ts - messages[j].ts \in (1 - Cooldown)..(Cooldown - 1)

Explained(i) ==
  \/ \E j \in DOMAIN fate \ {i} : Key(j) = Key(i)
  \/ \A t \in messages[i].items : \E j \in DOMAIN fate \ {i} :
       /\ messages[j].sender = messages[i].sender
       /\ t \in messages[j].items
       /\ Near(i, j)

(* Nothing posted is dropped without a reason: a message the capture is done
   with was imported, was there when the session began, was written by its
   sender in the same second as another, or repeats what the same sender
   posted within the cooldown (collect_candidates, apply_cooldown).         *)
SilenceExplained ==
  \A i \in DOMAIN fate :
    /\ messages[i].channel = doc.chat.channel
    /\ Key(i) \in doc.chat.seen
    /\ ~fate[i].ever
    /\ ~fate[i].marked
    => Explained(i)

CaptureHonest == ImportedOnce /\ SilenceExplained

Total(lists, t) ==
  LET total[ids \in SUBSET DOMAIN lists] ==
        IF ids = {} THEN 0
        ELSE LET id == CHOOSE id \in ids : TRUE IN lists[id][t] + total[ids \ {id}]
  IN total[DOMAIN lists]

(* Moving neither loses nor makes anything, when the target is missing too
   (shopping_move_item, shopping_move_items).                               *)
MovesKeep == commands' # commands /\ ui' = ui /\ Moves => \A t \in Types : Total(Lists', t) = Total(Lists, t)

MovesConserve == [][MovesKeep]_shopVars

(* No two lists hold so much of an item that one of them could not hold it
   all: i64::MAX is far beyond what is bought, and at it a move would lose.  *)
RoomToMove ==
  \A a, b \in DOMAIN Lists : \A t \in Types : a # b => Lists[a][t] + Lists[b][t] <= MaxQuantity

=============================================================================
