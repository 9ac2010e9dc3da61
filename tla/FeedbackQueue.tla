--------------------------- MODULE FeedbackQueue ---------------------------
(* Feedback (modules/feedback): the install's own record of what it sent,
   which is also the queue of what it could not send.  A submission and the
   retry of the queue hold the document they loaded while they wait for the
   network; both go through the session of an anonymous account.             *)
EXTENDS Naturals, FiniteSets

CONSTANTS Reports,          \* submissions, numbered in their order: 1..n
          Interval, Day, MaxPerDay,  \* MIN_INTERVAL_SECS, the rolling day, MAX_PER_DAY
          HistoryCap, MaxRetries,    \* HISTORY_CAP, MAX_RETRIES_PER_VISIT
          Faulty,       \* may a request fail?
          LastTime, MaxVisits  \* bounds: of the clock, and how often the page is opened

QueueAssumption == IsFiniteSet(Reports) /\ HistoryCap \in Nat

VARIABLES time,
          queue,          \* feedback_history, as load_store reads it: the entries of the ids it holds
          call,           \* call[c]: the document command c loaded, or saves, and the ids it delivers
          wire,         \* wire[i]: how far the delivery of i is
          session, secret, \* does SESSION hold a usable token, and the keychain an account's refresh token?
          filed,        \* the collection: the submissions of the documents created
          visited, visits, \* is the page open, and how often was it opened?
          begun, answered, forgotten, \* ghosts: submissions made, accepted by a call that returned, dropped by the user
          cutOff,       \* ghost: what was in a document whose save was cut off
          overlapped    \* ghost: has a call saved a document that was changed since it loaded it?

ghosts == <<begun, answered, forgotten, cutOff, overlapped>>
fVars == <<time, queue, call, wire, session, secret, filed, visited, visits, ghosts>>

Commands == {"submit", "retry", "forget"}

NoEntries == [i \in {} |-> 0]
IdleCall == [step |-> "idle", held |-> NoEntries, ids |-> {}, at |-> 0, stale |-> FALSE]

FeedbackInit ==
  /\ time = 0 /\ queue = NoEntries
  /\ call = [c \in Commands |-> IdleCall]
  /\ wire = [i \in Reports |-> "off"]
  /\ session = FALSE /\ secret = FALSE /\ filed = {}
  /\ visited = FALSE /\ visits = 0
  /\ begun = {} /\ answered = {} /\ forgotten = {} /\ cutOff = {} /\ overlapped = FALSE

Pending(store) == {i \in DOMAIN store : ~store[i].sent}
Delivered(i) == wire[i] \in {"sent", "failed"}
(* Mutant: an answer counts as delivered, whatever it says. *)
EntryAnswered(i, at) == [at |-> at, sent |-> Delivered(i)]
Entry(i, at) == [at |-> at, sent |-> wire[i] = "sent"]

---------------------------------------------------------------------------
(* load_store and save_store                                                *)

Resting(c) == call[c].step = "idle"
Saving(c) == call[c].step = "saving"
SomeSave == \E c \in Commands : Saving(c)

(* A command's document.  A file that is being written in place is read as
   an empty one, which does not stay what it is.                             *)
Load(c, ids, at) ==
  call' = [call EXCEPT ![c] = [step |-> "open", held |-> queue, ids |-> ids, at |-> at, stale |-> SomeSave]]

(* save_store keeps the newest HISTORY_CAP entries, delivered or not; which
   of two made in the same second goes is open.                             *)
KeptEntries(store) ==
  {s \in SUBSET DOMAIN store :
     /\ Cardinality(s) = IF Cardinality(DOMAIN store) > HistoryCap THEN HistoryCap ELSE Cardinality(DOMAIN store)
     /\ \A i \in s, j \in DOMAIN store \ s : store[j].at <= store[i].at}

(* Mutant: only what was delivered is recorded. *)
RecordedIfSent(store, i, e) ==
  [j \in DOMAIN store \cup (IF e.sent THEN {i} ELSE {}) |-> IF j = i THEN e ELSE store[j]]
Recorded(store, i, e) == [j \in DOMAIN store \cup {i} |-> IF j = i THEN e ELSE store[j]]

(* What the command makes of its document: the new entry, the outcomes of
   the deliveries, or all but the entry to drop.                             *)
Outcome(c, i) ==
  LET x == call[c]
  IN  CASE c = "submit" -> Recorded(x.held, i, Entry(i, x.at))
        [] c = "retry"  -> [j \in DOMAIN x.held |-> IF j \in x.ids THEN Entry(j, x.held[j].at) ELSE x.held[j]]
        [] c = "forget" -> [j \in DOMAIN x.held \ {i} |-> x.held[j]]

Ready(c) == call[c].step = "open" /\ (c # "forget" => \A i \in call[c].ids : Delivered(i))

(* What other commands loaded is out of date.                               *)
Outdate(d, x) == IF x.step = "idle" THEN x ELSE [x EXCEPT !.stale = TRUE]

(* fs::write truncates the file, ...                                        *)
OpenFile(c) ==
  /\ Ready(c)
  /\ \E i \in IF c = "retry" THEN {0} ELSE call[c].ids :
       LET store == Outcome(c, i)
       IN  \E s \in KeptEntries(store) :
             call' = [d \in Commands |->
                        IF d = c THEN [call[c] EXCEPT !.step = "saving", !.held = [j \in s |-> store[j]],
                                                      !.stale = \E e \in Commands \ {c} : Saving(e)]
                                 ELSE Outdate(d, call[d])]
  /\ queue' = NoEntries
  /\ overlapped' = (overlapped \/ call[c].stale \/ SomeSave)
  /\ UNCHANGED <<time, wire, session, secret, filed, visited, visits, begun, answered, forgotten, cutOff>>

Ends(c) ==
  /\ call' = [call EXCEPT ![c] = IdleCall]
  /\ wire' = IF c = "forget" THEN wire ELSE [i \in Reports |-> IF i \in call[c].ids THEN "off" ELSE wire[i]]

(* ... fills it, which another save may spoil, and the command returns.     *)
FillFile(c) ==
  /\ Saving(c)
  /\ queue' \in {call[c].held} \cup (IF call[c].stale THEN {NoEntries} ELSE {})
  /\ answered' = IF c = "submit" THEN answered \cup call[c].ids ELSE answered
  /\ Ends(c)
  /\ UNCHANGED <<time, session, secret, filed, visited, visits, begun, forgotten, cutOff, overlapped>>

Held(c) == DOMAIN call[c].held

(* The file cannot be opened, and stays what it is, or not be written, and
   is torn.  The command returns an error.                                   *)
SaveFails(c) ==
  /\ Faulty
  /\ \/ Ready(c) /\ UNCHANGED <<queue, cutOff>>
     \/ Saving(c) /\ queue' \in {queue, NoEntries} /\ cutOff' = cutOff \cup Held(c)
  /\ Ends(c)
  /\ UNCHANGED <<time, session, secret, filed, visited, visits, begun, answered, forgotten, overlapped>>

---------------------------------------------------------------------------
(* rate_limit: what is recorded decides, so what is under way does not.     *)
MaySubmit ==
  /\ \A i \in DOMAIN queue : queue[i].at + Interval <= time
  /\ Cardinality({i \in DOMAIN queue : queue[i].at + Day > time}) < MaxPerDay

(* feedback_submit loads, checks and delivers.  The open page has one
   submission at a time (bound: and none is left from a page that was closed);
   the next id is the next it makes.                                         *)
Submit(i) ==
  /\ visited /\ Resting("submit") /\ i \notin begun
  /\ \A j \in 1..(i - 1) : j \in begun
  /\ MaySubmit
  /\ Load("submit", {i}, time)
  /\ wire' = [wire EXCEPT ![i] = "session"]
  /\ begun' = begun \cup {i}
  /\ UNCHANGED <<time, queue, session, secret, filed, visited, visits, answered, forgotten, cutOff, overlapped>>

(* select_retries: the oldest of those that are pending.                    *)
Selected ==
  {s \in SUBSET Pending(queue) :
     /\ Cardinality(s) = IF Cardinality(Pending(queue)) > MaxRetries THEN MaxRetries ELSE Cardinality(Pending(queue))
     /\ \A i \in s, j \in Pending(queue) \ s : queue[i].at <= queue[j].at}

(* feedback_retry_pending, once whenever the page is opened: its deliveries
   run together; with none, the document is saved all the same.  Bound: the
   page is not opened again before the last retry has ended.                 *)
Visit ==
  /\ ~visited /\ Resting("retry") /\ visits < MaxVisits
  /\ visited' = TRUE /\ visits' = visits + 1
  /\ \E s \in Selected :
       /\ Load("retry", s, 0)
       /\ wire' = [i \in Reports |-> IF i \in s THEN "session" ELSE wire[i]]
  /\ UNCHANGED <<time, queue, session, secret, filed, ghosts>>

(* The user goes to another page; what is under way goes on.                *)
Leave ==
  /\ visited
  /\ visited' = FALSE
  /\ UNCHANGED <<time, queue, call, wire, session, secret, filed, visits, ghosts>>

(* feedback_forget, of an entry the page shows, on the main thread.         *)
Forget(i) ==
  /\ visited /\ Resting("forget") /\ i \in answered
  /\ Load("forget", {i}, 0)
  /\ forgotten' = forgotten \cup {i}
  /\ UNCHANGED <<time, queue, wire, session, secret, filed, visited, visits, begun, answered, cutOff, overlapped>>

---------------------------------------------------------------------------
(* firebase::create, one delivery: a session, then the document.            *)

Goes(i, at) == wire' = [wire EXCEPT ![i] = at]
Rest == UNCHANGED <<time, queue, call, visited, visits, ghosts>>

(* session: the cached token, else the keychain's, if it can be read, else a
   new account.                                                              *)
Ladder(i) ==
  /\ wire[i] = "session"
  /\ \/ session /\ Goes(i, "create")
     \/ ~session /\ secret /\ Goes(i, "refresh")
     \/ ~session /\ (Faulty \/ ~secret) /\ Goes(i, "sign up")
  /\ Rest /\ UNCHANGED <<session, secret, filed>>

(* The keychain's copy is best effort.                                      *)
SignedIn(i) ==
  /\ wire[i] \in {"refresh", "sign up"}
  /\ Goes(i, "create")
  /\ session' = TRUE
  /\ secret' \in {TRUE} \cup (IF Faulty THEN {secret} ELSE {})
  /\ Rest /\ UNCHANGED filed

(* Any failure of the refresh is taken for a revoked token; one of the
   sign-up fails the delivery.                                               *)
SignInFails(i) ==
  /\ Faulty
  /\ \/ wire[i] = "refresh" /\ Goes(i, "sign up")
     \/ wire[i] = "sign up" /\ Goes(i, "failed")
  /\ Rest /\ UNCHANGED <<session, secret, filed>>

File(i) == filed' = filed \cup {i}

(* The document is created, is not, or is and the answer is lost.           *)
Create(i) ==
  /\ wire[i] = "create"
  /\ \/ File(i) /\ Goes(i, "sent")
     \/ Faulty /\ Goes(i, "failed") /\ (File(i) \/ UNCHANGED filed)
  /\ Rest /\ UNCHANGED <<session, secret>>

Deliver(i) == Ladder(i) \/ SignedIn(i) \/ SignInFails(i) \/ Create(i)

(* The cached id token runs out.                                            *)
SessionExpires ==
  /\ session
  /\ session' = FALSE
  /\ UNCHANGED <<time, queue, call, wire, secret, filed, visited, visits, ghosts>>

Tick ==
  /\ time < LastTime
  /\ time' = time + 1
  /\ UNCHANGED <<queue, call, wire, session, secret, filed, visited, visits, ghosts>>

(* The app is closed or dies, anywhere, and starts again.  A save under way
   leaves the file torn.                                                     *)
Relaunch ==
  /\ call' = [c \in Commands |-> IdleCall] /\ wire' = [i \in Reports |-> "off"]
  /\ session' = FALSE /\ visited' = FALSE
  /\ queue' \in {queue} \cup (IF SomeSave THEN {NoEntries} ELSE {})
  /\ cutOff' = cutOff \cup UNION {Held(c) : c \in {d \in Commands : Saving(d)}}
  /\ UNCHANGED <<time, secret, filed, visits, begun, answered, forgotten, overlapped>>

FeedbackNext ==
  \/ \E i \in Reports : Submit(i) \/ Forget(i) \/ Deliver(i)
  \/ \E c \in Commands : OpenFile(c) \/ FillFile(c) \/ SaveFails(c)
  \/ Visit \/ Leave \/ SessionExpires \/ Tick \/ Relaunch

FeedbackSpec == FeedbackInit /\ [][FeedbackNext]_fVars

---------------------------------------------------------------------------

(* An entry shown as sent was created in the collection, whatever document
   the calls that overlap write back (deliver, feedback_retry_pending).      *)
SentIsFiled == \A i \in DOMAIN queue : queue[i].sent => i \in filed

(* While the history has room, what a submission returned to the user is
   recorded, or on its way to the file, until it is in the collection or the
   user drops it; save_store, writing in place, loses what a save that is cut
   off held.                                                                 *)
Recoverable ==
  Cardinality(begun) <= HistoryCap =>
    answered \subseteq filed \cup forgotten \cup cutOff
                         \cup DOMAIN queue \cup UNION {Held(c) : c \in {d \in Commands : Saving(d)}}

(* Through failed deliveries, lost answers and restarts nothing else is lost
   as long as no call saves a document it loaded before another's save
   (feedback_submit, feedback_retry_pending, save_store).                    *)
QueueKeeps == ~overlapped => Recoverable

(* Both, through every failure and restart (feedback_submit, deliver).      *)
QueueSound == SentIsFiled /\ QueueKeeps

(* "the user's words are never lost to a dropped connection" (feedback_submit),
   whatever overlaps.                                                        *)
WordsKept == Recoverable

=============================================================================
