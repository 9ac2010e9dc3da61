---------------------------- MODULE IndustryJobs ----------------------------
(***************************************************************************)
(* The industry jobs of the roster (modules/industry/commands.rs).  A call  *)
(* fetches one character after the other: the personal jobs ESI lists, a    *)
(* load, merge and save of that character's kept jobs, then the             *)
(* corporation's jobs when the character may see them.  Jobs start, end,    *)
(* are delivered and cancelled meanwhile, and two calls (the page and a     *)
(* script or plugin) can be under way at once.                              *)
(***************************************************************************)
EXTENDS Integers, FiniteSets, Sequences

CONSTANTS
  Roster,        \* sequence of characters, in the order they are asked
  Jobs,
  Installer,     \* [Jobs -> character]
  Corporate,     \* the jobs installed for the corporation
  Inventions,    \* the jobs whose activity is invention
  Directors,     \* the characters that may list the corporation's jobs
  Runs,          \* how long a job takes
  Retention,     \* JOB_RETENTION_SECS
  EsiWindow,     \* how long ESI lists a job that has left its slot
  Calls,
  MaxTime, MaxFaults  \* bounds; every call is made once

Chars == {Roster[i] : i \in DOMAIN Roster}

(* Somebody is asked, nobody twice; and ESI lists a job that ended at least
   as long as it is kept: both are 90 days (JOB_RETENTION_SECS).             *)
IndustryAssumption ==
  /\ Roster \in Seq(Chars) /\ Roster # <<>>
  /\ \A i, k \in DOMAIN Roster : Roster[i] = Roster[k] => i = k
  /\ Runs \in Nat /\ Retention \in Nat /\ EsiWindow \in Nat
  /\ Retention <= EsiWindow

VARIABLES now, job, store, call, faults

jobVars == <<now, job, store, call, faults>>

Empty == [x \in {} |-> 0]
NoJob == [status |-> "none", end |-> 0, left |-> 0]
Idle  == [phase |-> "idle", at |-> 1, snap |-> Empty, held |-> {}, gone |-> {},
          rows |-> {}, used |-> Empty]

\* "active" stands for a finished job that waits to be delivered as well.
HoldsSlot(status) == status = "active"

----------------------------------------------------------------------------
(* ESI: the jobs under way and those that ended not too long ago *)

Listed(j) ==
  \/ HoldsSlot(job[j].status)
  \/ job[j].status \in {"delivered", "cancelled"} /\ job[j].left + EsiWindow >= now

Snapshot(js) ==
  [j \in {x \in js : Listed(x)} |-> [status |-> job[j].status, end |-> job[j].end]]

Personal(c) == {j \in Jobs \ Corporate : Installer[j] = c}

\* What held a slot while a call was under way, and which job was cancelled;
\* kept for the property alone.
Watch(next) ==
  [k \in Calls |->
     IF call[k].phase \in {"idle", "answered"} THEN call[k]
     ELSE [call[k] EXCEPT !.held = @ \cup {j \in Jobs \ Corporate : HoldsSlot(next[j].status)},
                          !.gone = @ \cup {j \in Jobs \ Corporate : next[j].status = "cancelled"}]]

Move(j, entry) ==
  /\ job' = [job EXCEPT ![j] = entry]
  /\ call' = Watch(job')
  /\ UNCHANGED <<now, store, faults>>

Install(j) ==
  /\ job[j].status = "none"
  /\ Move(j, [status |-> "active", end |-> now + Runs, left |-> 0])

Deliver(j) ==
  /\ HoldsSlot(job[j].status) /\ job[j].end <= now
  /\ Move(j, [job[j] EXCEPT !.status = "delivered", !.left = now])

Cancel(j) ==
  /\ HoldsSlot(job[j].status)
  /\ Move(j, [job[j] EXCEPT !.status = "cancelled", !.left = now])

Tick ==
  /\ now < MaxTime
  /\ now' = now + 1
  /\ UNCHANGED <<job, store, call, faults>>

----------------------------------------------------------------------------
(* One call *)

Char(k) == Roster[call[k].at]

QueryJobs(k) ==
  /\ call[k].phase = "idle"
  /\ call' = [call EXCEPT ![k] = [Idle EXCEPT !.phase = "fetch",
                !.held = {j \in Jobs \ Corporate : HoldsSlot(job[j].status)},
                !.gone = {j \in Jobs \ Corporate : job[j].status = "cancelled"}]]
  /\ UNCHANGED <<now, job, store, faults>>

FetchJobs(k) ==
  /\ call[k].phase = "fetch"
  /\ call' = [call EXCEPT ![k].phase = "merge", ![k].snap = Snapshot(Personal(Char(k)))]
  /\ UNCHANGED <<now, job, store, faults>>

Advance(k) ==
  IF call[k].at = Len(Roster) THEN [call[k] EXCEPT !.phase = "answered"]
  ELSE [call[k] EXCEPT !.phase = "fetch", !.at = @ + 1]

\* A character that cannot be fetched is left out of an aggregate; alone, it
\* fails the call.
JobsFail(k) ==
  /\ call[k].phase = "fetch" /\ faults < MaxFaults
  /\ faults' = faults + 1
  /\ call' = [call EXCEPT ![k] = IF Len(Roster) > 1 THEN Advance(k) ELSE Idle]
  /\ UNCHANGED <<now, job, store>>

\* Both maps, the first one's entry where they share a key (BTreeMap::insert).
Over(f, g) ==
  [x \in DOMAIN f \cup DOMAIN g |-> IF x \in DOMAIN f THEN f[x] ELSE g[x]]

(* Mutant: what was kept wins over what ESI says. *)
MergedKept(stored, incoming) == Over(stored, incoming)

\* merge_jobs: what ESI says replaces what was kept, and a job whose end is
\* further back than the retention is dropped.
Merged(stored, incoming) ==
  LET both == Over(incoming, stored)
  IN  [j \in {x \in DOMAIN both : both[x].end + Retention >= now} |-> both[j]]

\* The load, the merge and the save follow one another without an await; the
\* slots are counted over the merged jobs.
Merge(k) ==
  /\ call[k].phase = "merge"
  /\ LET c    == Char(k)
         kept == Merged(store[c], call[k].snap)
     IN  /\ store' = [store EXCEPT ![c] = kept]
         /\ call' = [call EXCEPT
              ![k].phase = "corp", ![k].snap = Empty,
              ![k].rows = @ \cup {[id |-> j, char |-> c, owner |-> "You",
                                   status |-> kept[j].status] : j \in DOMAIN kept},
              ![k].used = Over([d \in {c} |-> {j \in DOMAIN kept : HoldsSlot(kept[j].status)}], @)]
  /\ UNCHANGED <<now, job, faults>>

(* Mutant: a corporation's job is appended once per member. *)
AppendAll(rows, incoming) == rows \cup incoming

\* append_new_jobs, and the merge of one character's own two lists: the first
\* sighting of a job is the one that is kept.
AppendNew(rows, incoming) ==
  rows \cup {r \in incoming : \A s \in rows : s.id # r.id}

CorpList(c) == IF c \in Directors THEN Snapshot(Corporate) ELSE Empty

\* A character without the role, or a failing request, sees no corporation job.
Corp(k) ==
  /\ call[k].phase = "corp"
  /\ \/ LET list == CorpList(Char(k))
        IN  /\ call' = [call EXCEPT ![k] = [Advance(k) EXCEPT !.rows =
                          AppendNew(@, {[id |-> j, char |-> Char(k), owner |-> "Corp",
                                         status |-> list[j].status] : j \in DOMAIN list})]]
            /\ UNCHANGED faults
     \/ /\ faults < MaxFaults
        /\ faults' = faults + 1
        /\ call' = [call EXCEPT ![k] = Advance(k)]
  /\ UNCHANGED <<now, job, store>>

JobsInit ==
  /\ now = 0
  /\ job = [j \in Jobs |-> NoJob]
  /\ store = [c \in Chars |-> Empty]
  /\ call = [k \in Calls |-> Idle]
  /\ faults = 0

JobsNext ==
  \/ Tick
  \/ \E j \in Jobs : Install(j) \/ Deliver(j) \/ Cancel(j)
  \/ \E k \in Calls : QueryJobs(k) \/ FetchJobs(k) \/ JobsFail(k) \/ Merge(k) \/ Corp(k)

JobsSpec == JobsInit /\ [][JobsNext]_jobVars

----------------------------------------------------------------------------
(* A slot an answer reports in use was held by that character's own job at
   some moment between the start of the call and its answer, whatever an older
   call or an older run of the app left in the store; only a job that was
   cancelled so long ago that ESI lists it no more can still look busy.  And
   the answer names every job once, a personal job under the character that
   runs it (merge_jobs, compute_slots, append_new_jobs).                     *)
SlotsHeld ==
  \A k \in Calls : call[k].phase = "answered" =>
    /\ \A c \in DOMAIN call[k].used :
         call[k].used[c] \subseteq (call[k].held \cup call[k].gone) \cap Personal(c)
    /\ \A r, s \in call[k].rows : r.id = s.id => r = s
    /\ \A r \in call[k].rows : r.owner = "You" => Installer[r.id] = r.char

=============================================================================
