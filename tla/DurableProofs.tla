------------------------------ MODULE DurableProofs ------------------------------
(***************************************************************************)
(* Theorems about the durable caches.  CacheVersioned: callers that read   *)
(* the generation before they open the database never serve a result       *)
(* across an update of it.  CacheBody: what a marker vouches for can be    *)
(* read.  IndustryJobs: the slots an answer counts were held, by jobs that *)
(* it names once.  ConditionalCache: an answer is as current as the        *)
(* question, and an entry as fresh as the server granted.                  *)
(***************************************************************************)
EXTENDS CacheVersioned, CacheBody, IndustryJobs, ConditionalCache, SequenceTheorems, TLAPS

GenerationFirst == Ways = {"generation first"}

TypeOK ==
    /\ dbVersion \in Nat
    /\ stored \in [gen : Nat, value : Nat]
    /\ place \in [Users -> {"idle", "keying", "looking", "opening", "building", "creating", "writing",
                           "answered"}]
    /\ order \in [Users -> Ways]
    /\ askedAt \in [Users -> Nat] /\ stamp \in [Users -> Nat]
    /\ link \in [Users -> Nat] /\ result \in [Users -> Nat]

(* The entry's value is no older than the generation it is tagged with ... *)
EntryNotOlder == stored.gen <= stored.value /\ stored.value <= dbVersion

(* ... because a caller opens what it builds from after it read that.      *)
CallerNotOlder(c) ==
    /\ place[c] # "idle" => askedAt[c] <= dbVersion
    /\ place[c] \in {"looking", "opening", "building", "creating", "writing"} =>
          askedAt[c] <= stamp[c] /\ stamp[c] <= dbVersion
    /\ place[c] = "building" => stamp[c] <= link[c] /\ link[c] <= dbVersion
    /\ place[c] \in {"creating", "writing"} => stamp[c] <= result[c] /\ result[c] <= dbVersion
    /\ place[c] = "answered" => askedAt[c] <= result[c] /\ result[c] <= dbVersion

NotOlder == EntryNotOlder /\ \A c \in Users : CallerNotOlder(c)

IInv == TypeOK /\ NotOlder

LEMMA InitIInv == VerInit => IInv
BY DEF VerInit, Unreadable, IInv, TypeOK, NotOlder, EntryNotOlder, CallerNotOlder

LEMMA TypeStep == GenerationFirst /\ TypeOK /\ [VerNext]_verVars => TypeOK'
<1> SUFFICES ASSUME GenerationFirst, TypeOK, [VerNext]_verVars PROVE TypeOK'
    OBVIOUS
<1>0. \A c \in Users : ~ConnectionFirst(c)
    BY DEF GenerationFirst, TypeOK, ConnectionFirst
<1>1. CASE UNCHANGED verVars
    BY <1>1 DEF TypeOK, verVars, users
<1>2. CASE Update \/ Expire \/ ProgramEnds
    BY <1>2 DEF Update, Expire, ProgramEnds, Unreadable, TypeOK, users
<1>3. ASSUME NEW c \in Users, UserStep(c) PROVE TypeOK'
    <2>1. CASE StartUse(c)
        <3>1. order' \in [Users -> Ways]
            BY <2>1 DEF StartUse, TypeOK
        <3>2. ~ConnectionFirst(c)'
            BY <3>1 DEF GenerationFirst, ConnectionFirst
        <3> QED
            BY <2>1, <3>1, <3>2 DEF StartUse, Advances, TypeOK
    <2>2. CASE OpenDatabase(c) \/ ReadStamp(c)
        BY <1>0, <2>2 DEF OpenDatabase, ReadStamp, Advances, TypeOK
    <2>3. CASE HitEntry(c) \/ MissEntry(c)
        BY <1>0, <2>3 DEF HitEntry, MissEntry, Advances, TypeOK
    <2>4. CASE Build(c) \/ Create(c)
        BY <2>4 DEF Build, Create, Unreadable, Advances, TypeOK
    <2>5. CASE Write(c) \/ Replied(c)
        BY <2>5 DEF Write, Replied, Unreadable, Advances, TypeOK
    <2> QED
        BY <1>3, <2>1, <2>2, <2>3, <2>4, <2>5 DEF UserStep
<1> QED
    BY <1>1, <1>2, <1>3 DEF VerNext

(* Only a write gives the entry a value, of what its caller holds.         *)
LEMMA EntryStep == IInv /\ [VerNext]_verVars => EntryNotOlder'
<1> SUFFICES ASSUME TypeOK, NotOlder, [VerNext]_verVars PROVE EntryNotOlder'
    BY DEF IInv
<1>1. CASE UNCHANGED verVars \/ Update \/ Expire \/ ProgramEnds
    BY <1>1 DEF verVars, Update, Expire, ProgramEnds, Unreadable, TypeOK, NotOlder, EntryNotOlder
<1>2. ASSUME NEW c \in Users, Write(c) PROVE EntryNotOlder'
    BY <1>2 DEF Write, Advances, Unreadable, TypeOK, NotOlder, EntryNotOlder, CallerNotOlder
<1>3. ASSUME NEW c \in Users, Create(c) PROVE EntryNotOlder'
    BY <1>3 DEF Create, Unreadable, TypeOK, EntryNotOlder
<1>4. ASSUME NEW c \in Users, UserStep(c), ~Write(c), ~Create(c) PROVE UNCHANGED <<stored, dbVersion>>
    BY <1>4 DEF UserStep, StartUse, OpenDatabase, ReadStamp, HitEntry, MissEntry, Build, Replied
<1> QED
    BY <1>1, <1>2, <1>3, <1>4 DEF VerNext, NotOlder, EntryNotOlder

LEMMA CallerStep == GenerationFirst /\ IInv /\ [VerNext]_verVars => \A c \in Users : CallerNotOlder(c)'
<1> SUFFICES ASSUME GenerationFirst, TypeOK, NotOlder, [VerNext]_verVars, NEW d \in Users
             PROVE  CallerNotOlder(d)'
    BY DEF IInv
<1>0. CallerNotOlder(d) /\ ~ConnectionFirst(d)
    BY DEF NotOlder, GenerationFirst, ConnectionFirst, TypeOK
<1>1. CASE UNCHANGED verVars \/ Update \/ Expire \/ ProgramEnds
    BY <1>0, <1>1 DEF verVars, users, Update, Expire, ProgramEnds, TypeOK, CallerNotOlder
<1>2. ASSUME NEW c \in Users, UserStep(c), c # d PROVE CallerNotOlder(d)'
    <2>1. /\ UNCHANGED dbVersion
          /\ place'[d] = place[d] /\ askedAt'[d] = askedAt[d] /\ stamp'[d] = stamp[d]
          /\ link'[d] = link[d] /\ result'[d] = result[d]
        BY <1>2 DEF UserStep, StartUse, OpenDatabase, ReadStamp, HitEntry, MissEntry, Build, Create, Write, Replied, Advances,
            TypeOK
    <2> QED
        BY <1>0, <2>1 DEF CallerNotOlder
<1>3. CASE StartUse(d)
    <2>1. place'[d] \in {"opening", "keying"} /\ askedAt'[d] = dbVersion /\ dbVersion' = dbVersion
          /\ order' \in [Users -> Ways]
        BY <1>3 DEF StartUse, Advances, TypeOK
    <2>2. ~ConnectionFirst(d)'
        BY <2>1 DEF GenerationFirst, ConnectionFirst
    <2>3. place'[d] = "keying"
        BY <1>3, <2>2 DEF StartUse, Advances, TypeOK
    <2> QED
        BY <2>1, <2>3 DEF CallerNotOlder, TypeOK
<1>4. CASE OpenDatabase(d) \/ ReadStamp(d) \/ MissEntry(d)
    BY <1>0, <1>4 DEF OpenDatabase, ReadStamp, MissEntry, Advances, TypeOK, CallerNotOlder
<1>5. CASE HitEntry(d)
    BY <1>0, <1>5 DEF HitEntry, Advances, TypeOK, CallerNotOlder, NotOlder, EntryNotOlder
<1>6. CASE Build(d) \/ Create(d) \/ Write(d) \/ Replied(d)
    BY <1>0, <1>6 DEF Build, Create, Write, Replied, Advances, TypeOK, CallerNotOlder
<1> QED
    BY <1>1, <1>2, <1>3, <1>4, <1>5, <1>6 DEF VerNext, UserStep

LEMMA IInvStep == GenerationFirst /\ IInv /\ [VerNext]_verVars => IInv'
BY TypeStep, EntryStep, CallerStep DEF IInv, NotOlder

-----------------------------------------------------------------------------
(* The refinement                                                          *)

LEMMA PromiseInit == VerInit => VersionPromise!Init
BY DEF VerInit, VersionPromise!Init, Stage, Since, Answered

LEMMA OthersKept ==
    ASSUME TypeOK, NEW c \in Users, UserStep(c)
    PROVE  /\ UNCHANGED dbVersion
           /\ Stage' = [Stage EXCEPT ![c] = Stage'[c]]
           /\ Since' = [Since EXCEPT ![c] = Since'[c]]
           /\ Answered' = [Answered EXCEPT ![c] = Answered'[c]]
<1>1. /\ UNCHANGED dbVersion
      /\ \A d \in Users \ {c} : place'[d] = place[d] /\ askedAt'[d] = askedAt[d] /\ result'[d] = result[d]
    BY DEF UserStep, StartUse, OpenDatabase, ReadStamp, HitEntry, MissEntry, Build, Create, Write, Replied, Advances, TypeOK
<1> QED
    BY <1>1 DEF Stage, Since, Answered

LEMMA PromiseStep ==
    IInv /\ IInv' /\ [VerNext]_verVars => [VersionPromise!Next]_(VersionPromise!vars)
<1> SUFFICES ASSUME IInv, IInv', [VerNext]_verVars PROVE [VersionPromise!Next]_(VersionPromise!vars)
    OBVIOUS
<1>0. TypeOK /\ NotOlder /\ TypeOK' /\ NotOlder'
    BY DEF IInv
<1>1. CASE UNCHANGED verVars \/ Expire
    BY <1>1 DEF verVars, users, Expire, Stage, Since, Answered, VersionPromise!vars
<1>2. CASE Update
    <2>1. VersionPromise!Replace
        BY <1>2 DEF Update, users, Stage, Since, Answered, VersionPromise!Replace
    <2> QED
        BY <2>1 DEF VersionPromise!Next
<1>3. CASE ProgramEnds
    <2>1. VersionPromise!LeaveAll
        BY <1>3 DEF ProgramEnds, Stage, Since, Answered, VersionPromise!LeaveAll
    <2> QED
        BY <2>1 DEF VersionPromise!Next
<1>4. ASSUME NEW c \in Users, UserStep(c) PROVE [VersionPromise!Next]_(VersionPromise!vars)
    <2>0. /\ UNCHANGED dbVersion
          /\ Stage' = [Stage EXCEPT ![c] = Stage'[c]]
          /\ Since' = [Since EXCEPT ![c] = Since'[c]]
          /\ Answered' = [Answered EXCEPT ![c] = Answered'[c]]
        BY <1>0, <1>4, OthersKept
    <2>1. CASE StartUse(c)
        <3>1. Stage[c] = "idle" /\ Stage'[c] = "asked" /\ Since'[c] = dbVersion /\ Answered'[c] = Answered[c]
            BY <1>0, <2>1 DEF StartUse, Advances, TypeOK, Stage, Since, Answered
        <3>2. VersionPromise!Ask(c)
            BY <2>0, <3>1 DEF VersionPromise!Ask, Stage, Since, Answered
        <3> QED
            BY <3>2 DEF VersionPromise!Next
    <2>2. CASE HitEntry(c) \/ Write(c)
        <3>1. /\ Stage[c] = "asked" /\ Stage'[c] = "answered" /\ Since'[c] = Since[c]
              /\ place[c] # "idle" /\ place'[c] = "answered" /\ askedAt'[c] = askedAt[c]
            BY <1>0, <2>2 DEF HitEntry, Write, Advances, TypeOK, Stage, Since
        <3>2. /\ askedAt'[c] <= result'[c] /\ result'[c] <= dbVersion' /\ result'[c] \in Nat
              /\ askedAt[c] \in Nat /\ dbVersion \in Nat
            BY <1>0, <3>1 DEF NotOlder, CallerNotOlder, TypeOK
        <3>3. Answered'[c] \in Since[c] .. dbVersion
            BY <2>0, <3>1, <3>2 DEF Answered, Since
        <3>4. VersionPromise!Reply(c)
            BY <2>0, <3>1, <3>3, ZenonT(40) DEF VersionPromise!Reply, Stage, Since, Answered
        <3> QED
            BY <3>4 DEF VersionPromise!Next
    <2>3. CASE Replied(c)
        <3>1. Stage[c] # "idle" /\ Stage'[c] = "idle" /\ Since'[c] = 0 /\ Answered'[c] = 0
            BY <1>0, <2>3 DEF Replied, Advances, TypeOK, Stage, Since, Answered
        <3>2. VersionPromise!Leave(c)
            BY <2>0, <3>1 DEF VersionPromise!Leave, Stage, Since, Answered
        <3> QED
            BY <3>2 DEF VersionPromise!Next
    <2>4. CASE OpenDatabase(c) \/ ReadStamp(c) \/ MissEntry(c) \/ Build(c) \/ Create(c)
        <3>1. Stage'[c] = Stage[c] /\ Since'[c] = Since[c] /\ Answered'[c] = Answered[c]
            BY <1>0, <2>4 DEF OpenDatabase, ReadStamp, MissEntry, Build, Create, Advances, TypeOK, Stage, Since, Answered
        <3>2. Stage' = Stage
            BY <2>0, <3>1 DEF Stage
        <3>3. Since' = Since
            BY <2>0, <3>1 DEF Since
        <3>4. Answered' = Answered
            BY <2>0, <3>1 DEF Answered
        <3> QED
            BY <2>0, <3>2, <3>3, <3>4 DEF VersionPromise!vars
    <2> QED
        BY <1>4, <2>1, <2>2, <2>3, <2>4 DEF UserStep
<1> QED
    BY <1>1, <1>2, <1>3, <1>4 DEF VerNext

(* cache_get_versioned with the generation read first implements           *)
(* FreshReads: no result outlives the database it was computed from.       *)
THEOREM VersionedIsFresh ==
    ASSUME GenerationFirst
    PROVE  VerSpec => VersionedReadsFresh
<1>1. GenerationFirst
    OBVIOUS
<1>2. IInv /\ [VerNext]_verVars => IInv'
    BY <1>1, IInvStep
<1> QED
    BY <1>2, InitIInv, PromiseInit, PromiseStep, PTL DEF VerSpec, VersionedReadsFresh, VersionPromise!Spec

-----------------------------------------------------------------------------
(* The hash-marked body                                                    *)

Readable == Values \cup {None, Garbled}

BodyTypeOK ==
    /\ remote \in Values /\ body \in Readable
    /\ at \in [Batches -> {"idle", "reading", "served", "fetching", "comparing", "creating", "writing",
                           "marking", "stamping"}]
    /\ held \in [Batches -> Readable]
    /\ failures \in Nat /\ upset \in BOOLEAN

(* What is put was fetched.                                                *)
PutsFetched == \A b \in Batches : Putting(b) => held[b] \in Values

NobodyWrites == \A b \in Batches : at[b] # "writing"
NobodyMarks == \A b \in Batches : at[b] # "marking"

(* Puts that neither were cut off nor crossed one of another value agree   *)
(* on it, and what each has to do still comes.                             *)
PutsAgree ==
    /\ \A b, c \in Batches : Putting(b) /\ Putting(c) => held[b] = held[c]
    /\ \A b \in Batches : at[b] = "writing" => body \in {None, held[b]}
    /\ NobodyWrites => \A b \in Batches : at[b] \in {"marking", "stamping"} => body = held[b]
    /\ NobodyWrites /\ NobodyMarks => marker \in {None, body}

BodyInv == BodyTypeOK /\ PutsFetched /\ (~upset => PutsAgree)

LEMMA BodyTypeStep == BodyTypeOK /\ [BodyNext]_bodyVars => BodyTypeOK'
<1> SUFFICES ASSUME BodyTypeOK, [BodyNext]_bodyVars PROVE BodyTypeOK'
    OBVIOUS
<1> USE DEF BodyTypeOK, Readable
<1>1. CASE UNCHANGED bodyVars
    BY <1>1 DEF bodyVars, batches
<1>2. CASE Change \/ Lapse \/ Relaunch
    <2>1. CASE Change
        BY <2>1 DEF Change, batches
    <2>2. CASE Lapse
        BY <2>2 DEF Lapse, batches
    <2>3. CASE Relaunch
        <3>1. body' \in Readable
            <4>1. body' \in {body, Garbled}
                BY <2>3, Zenon DEF Relaunch
            <4> QED
                BY <4>1
        <3>2. upset' \in BOOLEAN
            BY <2>3, Zenon DEF Relaunch
        <3>3. at' = [b \in Batches |-> "idle"] /\ UNCHANGED <<remote, held>> /\ failures' \in Nat
            BY <2>3 DEF Relaunch
        <3> QED
            BY <3>1, <3>2, <3>3
    <2> QED
        BY <1>2, <2>1, <2>2, <2>3
<1>3. ASSUME NEW b \in Batches, Batch(b) PROVE BodyTypeOK'
    <2>1. CASE MarkerHit(b) \/ MarkerMiss(b) \/ ReadBody(b) \/ Fetch(b) \/ FetchFails(b)
        BY <2>1 DEF MarkerHit, MarkerMiss, ReadBody, Fetch, FetchFails, Moves
    <2>2. CASE Unchanged(b) \/ Changed(b) \/ CreateBody(b) \/ OpenMarker(b) \/ Mark(b) \/ Served(b)
        BY <2>2 DEF Unchanged, Changed, CreateBody, OpenMarker, Mark, Served, Moves
    <2>3. CASE WriteBody(b)
        <3>1. body' \in {held[b], Garbled}
            BY <2>3, Zenon DEF WriteBody
        <3> QED
            BY <2>3, <3>1 DEF WriteBody, Moves
    <2>4. CASE PutFails(b)
        BY <2>4 DEF PutFails
    <2> QED
        BY <1>3, <2>1, <2>2, <2>3, <2>4 DEF Batch
<1> QED
    BY <1>1, <1>2, <1>3 DEF BodyNext

LEMMA BodyStep ==
    ASSUME NoneIsNoValue, BodyInv, [BodyNext]_bodyVars
    PROVE  BodyInv'
<1>0. BodyTypeOK /\ PutsFetched /\ (~upset => PutsAgree) /\ BodyTypeOK'
    BY BodyTypeStep DEF BodyInv
<1>1. CASE UNCHANGED bodyVars \/ Change \/ Lapse
    BY <1>0, <1>1 DEF bodyVars, batches, Change, Lapse, BodyInv, PutsFetched, PutsAgree, NobodyWrites,
        NobodyMarks, Putting
<1>2. CASE Relaunch
    <2>1. \A b \in Batches : at'[b] = "idle"
        BY <1>2 DEF Relaunch
    <2>2. ASSUME ~upset' PROVE marker' \in {None, body'}
        <3>1. ~upset /\ \A b \in Batches : ~Unfinished(b)
            BY <1>2, <2>2 DEF Relaunch
        <3>2. NobodyWrites /\ body' = body
            BY <1>2, <3>1 DEF Relaunch, Unfinished, NobodyWrites
        <3>3. marker' \in {marker, None}
            BY <1>2, Zenon DEF Relaunch
        <3>4. marker \in {None, body}
            BY <1>0, <3>1, <3>2 DEF Unfinished, PutsAgree, NobodyMarks
        <3> QED
            BY <3>2, <3>3, <3>4
    <2> QED
        BY <1>0, <2>1, <2>2 DEF BodyInv, PutsFetched, PutsAgree, Putting
<1>3. ASSUME NEW b \in Batches, Batch(b) PROVE BodyInv'
    <2>1. \A c \in Batches \ {b} : at'[c] = at[c] /\ held'[c] = held[c]
        BY <1>0, <1>3 DEF Batch, MarkerHit, MarkerMiss, ReadBody, Fetch, FetchFails, Unchanged, Changed,
            CreateBody, WriteBody, OpenMarker, Mark, Served, PutFails, Moves, BodyTypeOK
    <2>2. PutsFetched'
        <3>1. Putting(b)' => held'[b] \in Values
            BY <1>0, <1>3 DEF Batch, MarkerHit, MarkerMiss, ReadBody, Fetch, FetchFails, Unchanged,
                Changed, CreateBody, WriteBody, OpenMarker, Mark, Served, PutFails, Moves, BodyTypeOK,
                PutsFetched, Putting
        <3> QED
            BY <1>0, <2>1, <3>1 DEF PutsFetched, Putting
    <2>3. ASSUME ~upset' PROVE PutsAgree'
        <3>1. CASE Fetch(b)
            <4>1. /\ ~upset /\ \A c \in Batches \ {b} : Putting(c) => held[c] = remote
                  /\ at[b] = "fetching" /\ at'[b] = "comparing" /\ held'[b] = remote
                  /\ UNCHANGED <<body, marker>>
                BY <1>0, <2>3, <3>1 DEF Fetch, Moves, BodyTypeOK
            <4> QED
                BY <1>0, <2>1, <4>1 DEF PutsAgree, NobodyWrites, NobodyMarks, Putting
        <3>2. CASE CreateBody(b)
            <4>1. body' = None /\ held' = held /\ at[b] = "creating" /\ at'[b] = "writing"
                BY <1>0, <3>2 DEF CreateBody, Moves, BodyTypeOK
            <4>2. ~NobodyWrites'
                BY <4>1 DEF NobodyWrites
            <4>3. ASSUME NEW c \in Batches, NEW d \in Batches, Putting(c)', Putting(d)'
                  PROVE  held'[c] = held'[d]
                <5>1. CASE Alone(b)
                    BY <2>1, <4>1, <4>3, <5>1 DEF Alone, Putting
                <5>2. CASE ~Alone(b)
                    <6>1. ~upset
                        BY <2>3, <3>2, <5>2 DEF CreateBody
                    <6>2. Putting(c) /\ Putting(d)
                        BY <2>1, <4>1, <4>3 DEF Putting
                    <6> QED
                        BY <1>0, <4>1, <6>1, <6>2 DEF PutsAgree
                <5> QED
                    BY <5>1, <5>2
            <4> QED
                BY <4>1, <4>2, <4>3 DEF PutsAgree
        <3>3. CASE WriteBody(b)
            <4>1. ~upset /\ at[b] = "writing" /\ at'[b] = "marking" /\ UNCHANGED <<held, marker>>
                BY <1>0, <2>3, <3>3 DEF WriteBody, Moves, BodyTypeOK
            <4>2. body \in {None, held[b]}
                BY <1>0, <4>1 DEF PutsAgree
            <4>3. body' = held[b]
                BY <3>3, <4>2 DEF WriteBody
            <4>4. \A c \in Batches : Putting(c)' => held'[c] = held[b]
                BY <1>0, <2>1, <4>1 DEF PutsAgree, Putting
            <4> QED
                BY <4>1, <4>3, <4>4 DEF PutsAgree, Putting, NobodyMarks
        <3>4. CASE Unchanged(b)
            <4>1. ~upset /\ marker = held[b] /\ at[b] = "comparing" /\ at'[b] = "marking" /\ UNCHANGED <<held, body, marker>>
                BY <1>0, <2>3, <3>4 DEF Unchanged, Moves, BodyTypeOK
            <4>2. held[b] \in Values /\ held[b] # None
                BY <1>0, <4>1 DEF PutsFetched, Putting, NoneIsNoValue
            <4>3. ASSUME NobodyWrites PROVE body = held[b]
                <5>1. CASE NobodyMarks
                    BY <1>0, <4>1, <4>2, <4>3, <5>1 DEF PutsAgree
                <5>2. CASE ~NobodyMarks
                    BY <1>0, <4>1, <4>3, <5>2 DEF PutsAgree, NobodyMarks, Putting
                <5> QED
                    BY <5>1, <5>2
            <4>4. \A c \in Batches : Putting(c)' <=> Putting(c)
                BY <2>1, <4>1 DEF Putting
            <4>5. NobodyWrites' => NobodyWrites
                BY <2>1, <4>1 DEF NobodyWrites
            <4> QED
                BY <1>0, <2>1, <4>1, <4>3, <4>4, <4>5 DEF PutsAgree, NobodyMarks
        <3>5. CASE OpenMarker(b) \/ Mark(b)
            <4>1. ~upset /\ UNCHANGED <<held, body>>
                BY <2>3, <3>5 DEF OpenMarker, Mark
            <4>2. at[b] \in {"marking", "stamping"} /\ at'[b] \in {"stamping", "idle"} /\ marker' \in {None, held[b]}
                BY <1>0, <3>5 DEF OpenMarker, Mark, Moves, BodyTypeOK
            <4>3. NobodyWrites' => NobodyWrites
                BY <2>1, <4>2 DEF NobodyWrites
            <4>4. NobodyWrites' => marker' \in {None, body'}
                BY <1>0, <4>1, <4>2, <4>3 DEF PutsAgree
            <4>5. \A c \in Batches : (Putting(c)' => Putting(c)) /\ (at'[c] \in {"marking", "stamping"} => at[c] \in {"marking", "stamping"})
                                       /\ (at'[c] = "writing" => at[c] = "writing")
                BY <2>1, <4>2 DEF Putting
            <4> QED
                BY <1>0, <4>1, <4>3, <4>4, <4>5 DEF PutsAgree
        <3>6. CASE PutFails(b)
            <4>1. ~upset /\ ~Unfinished(b) /\ at'[b] = "idle" /\ at[b] # "writing"
                BY <1>0, <2>3, <3>6 DEF PutFails, Unfinished, BodyTypeOK
            <4>2. UNCHANGED <<held, marker, body>>
                BY <3>6, <4>1 DEF PutFails
            <4>3. NobodyWrites' <=> NobodyWrites
                BY <2>1, <4>1 DEF NobodyWrites
            <4>4. ASSUME NobodyWrites', NobodyMarks' PROVE marker \in {None, body}
                <5>1. CASE at[b] = "marking"
                    BY <1>0, <4>1, <4>3, <4>4, <5>1 DEF PutsAgree, Unfinished
                <5>2. CASE at[b] # "marking"
                    BY <1>0, <2>1, <4>1, <4>3, <4>4, <5>2 DEF PutsAgree, NobodyMarks
                <5> QED
                    BY <5>1, <5>2
            <4> QED
                BY <1>0, <2>1, <4>1, <4>2, <4>3, <4>4 DEF PutsAgree, Putting
        <3>7. CASE MarkerHit(b) \/ MarkerMiss(b) \/ ReadBody(b) \/ FetchFails(b) \/ Changed(b) \/ Served(b)
            <4>1. ~upset /\ UNCHANGED <<held, marker, body>>
                BY <2>3, <3>7 DEF MarkerHit, MarkerMiss, ReadBody, FetchFails, Changed, Served
            <4>2. /\ at[b] \notin {"writing", "marking", "stamping"} /\ at'[b] \notin {"writing", "marking", "stamping"}
                  /\ (Putting(b)' => Putting(b))
                BY <1>0, <3>7 DEF MarkerHit, MarkerMiss, ReadBody, FetchFails, Changed, Served, Moves,
                    BodyTypeOK, Putting
            <4> QED
                BY <1>0, <2>1, <4>1, <4>2 DEF PutsAgree, NobodyWrites, NobodyMarks, Putting
        <3> QED
            BY <1>3, <3>1, <3>2, <3>3, <3>4, <3>5, <3>6, <3>7 DEF Batch
    <2> QED
        BY <1>0, <2>2, <2>3 DEF BodyInv
<1> QED
    BY <1>1, <1>2, <1>3 DEF BodyNext

(* Whatever puts, failures and restarts come, what the marker names is what*)
(* the body's file holds, unless a put was cut off between the two or      *)
(* crossed one of another value since one last wrote its body alone.       *)
THEOREM MarkerAlwaysVouches ==
    ASSUME NoneIsNoValue
    PROVE  BodySpec => []MarkerVouches
<1>1. BodyInit => BodyInv
    <2> SUFFICES ASSUME BodyInit PROVE BodyInv
        OBVIOUS
    <2>1. /\ remote \in Values /\ body = None /\ marker = None /\ failures = 0 /\ upset = FALSE
          /\ at = [b \in Batches |-> "idle"] /\ held = [b \in Batches |-> None]
        BY DEF BodyInit
    <2>2. BodyTypeOK
        BY <2>1 DEF BodyTypeOK, Readable
    <2>3. \A b \in Batches : at[b] = "idle"
        BY <2>1
    <2>4. PutsFetched
        BY <2>3 DEF PutsFetched, Putting
    <2>5. PutsAgree
        BY <2>1, <2>3 DEF PutsAgree, Putting
    <2> QED
        BY <2>2, <2>4, <2>5 DEF BodyInv
<1>2. BodyInv /\ [BodyNext]_bodyVars => BodyInv'
    BY BodyStep
<1>3. BodyInv => MarkerVouches
    BY DEF BodyInv, PutsAgree, NobodyWrites, NobodyMarks, MarkerVouches
<1> QED
    BY <1>1, <1>2, <1>3, PTL DEF BodySpec

-----------------------------------------------------------------------------
(* The kept industry jobs                                                  *)

Phases == {"idle", "fetch", "merge", "corp", "answered"}

OwnJobs == Jobs \ Corporate
Busy(jobs) == {j \in OwnJobs : HoldsSlot(jobs[j].status)}
Cancelled(jobs) == {j \in OwnJobs : jobs[j].status = "cancelled"}

Shaped(x) ==
    /\ x = [phase |-> x.phase, at |-> x.at, snap |-> x.snap, held |-> x.held, gone |-> x.gone,
            rows |-> x.rows, used |-> x.used]
    /\ x.phase \in Phases /\ x.at \in 1..Len(Roster)

(* A character's rows are added once, when it has been asked.              *)
OwnRow(r, x) ==
    /\ r.owner = "You" /\ r.id \in OwnJobs /\ Installer[r.id] = r.char
    /\ \E i \in 1..x.at : r.char = Roster[i] /\ (i < x.at \/ x.phase \in {"corp", "answered"})

RowsSound(x) ==
    /\ \A r \in x.rows : OwnRow(r, x) \/ (r.owner = "Corp" /\ r.id \in Corporate)
    /\ \A r, s \in x.rows : r.id = s.id => r = s

UsedSound(x) == \A c \in DOMAIN x.used : x.used[c] \subseteq (x.held \cup x.gone) \cap Personal(c)

Watching(x, jobs) ==
    x.phase \in {"fetch", "merge", "corp"} => Busy(jobs) \subseteq x.held /\ Cancelled(jobs) \subseteq x.gone

(* What ESI did not list held a slot meanwhile, was cancelled, or has been *)
(* over for longer than the kept jobs are kept.                            *)
SnapSound(x, jobs, then) ==
    x.phase = "merge" =>
        /\ DOMAIN x.snap \subseteq Personal(Roster[x.at])
        /\ \A j \in DOMAIN x.snap : /\ jobs[j].status # "none" /\ x.snap[j].end = jobs[j].end
                                    /\ HoldsSlot(x.snap[j].status) => j \in x.held
        /\ \A j \in Personal(Roster[x.at]) \ DOMAIN x.snap :
              \/ j \in x.held \cup x.gone \/ jobs[j].status = "none"
              \/ jobs[j].status = "delivered" /\ jobs[j].left + EsiWindow < then

CallSound(x, jobs, then) ==
    Shaped(x) /\ RowsSound(x) /\ UsedSound(x) /\ Watching(x, jobs) /\ SnapSound(x, jobs, then)

JobType == [status : {"none", "active", "delivered", "cancelled"}, end : Nat, left : Nat]

JobsTypeOK ==
    /\ now \in Nat /\ job \in [Jobs -> JobType]
    /\ \A j \in Jobs : job[j].status = "delivered" => job[j].end <= job[j].left

KeptSound(kept, c, jobs) ==
    /\ DOMAIN kept \subseteq Personal(c)
    /\ \A j \in DOMAIN kept : jobs[j].status # "none" /\ kept[j].end = jobs[j].end

JobsInv ==
    /\ JobsTypeOK
    /\ store = [c \in Chars |-> store[c]]
    /\ \A c \in Chars : KeptSound(store[c], c, job)
    /\ call = [k \in Calls |-> call[k]]
    /\ \A k \in Calls : CallSound(call[k], job, now)

LEMMA IdleIsSound ==
    ASSUME IndustryAssumption, NEW jobs, NEW then
    PROVE  CallSound(Idle, jobs, then)
<1>1. Len(Roster) \in Nat /\ Len(Roster) >= 1
    BY DEF IndustryAssumption
<1> QED
    BY <1>1 DEF CallSound, Shaped, Phases, Idle, Empty, RowsSound, UsedSound, Watching, SnapSound

(* What happens to a job meanwhile.                                        *)
LEMMA MoveSound ==
    ASSUME NEW x, NEW jobs \in [Jobs -> JobType], NEW then, CallSound(x, jobs, then),
           NEW m \in Jobs, NEW e \in JobType, e.status # "none", jobs[m].status \in {"none", "active"},
           jobs[m].status # "none" => e.status # "active" /\ e.end = jobs[m].end,
           jobs[m].status = "none" => e.status = "active",
           NEW next, next = [jobs EXCEPT ![m] = e],
           NEW y, y = IF x.phase \in {"idle", "answered"} THEN x
                      ELSE [x EXCEPT !.held = @ \cup Busy(next), !.gone = @ \cup Cancelled(next)]
    PROVE  CallSound(y, next, then)
<1>1. CASE x.phase \in {"idle", "answered"}
    BY <1>1 DEF CallSound, Watching, SnapSound
<1>2. CASE x.phase \notin {"idle", "answered"}
    <2>1. y = [phase |-> x.phase, at |-> x.at, snap |-> x.snap, held |-> x.held \cup Busy(next),
               gone |-> x.gone \cup Cancelled(next), rows |-> x.rows, used |-> x.used]
        BY <1>2 DEF CallSound, Shaped
    <2>f. /\ y.phase = x.phase /\ y.at = x.at /\ y.snap = x.snap /\ y.rows = x.rows /\ y.used = x.used
          /\ y.held = x.held \cup Busy(next) /\ y.gone = x.gone \cup Cancelled(next)
        BY ONLY <2>1
    <2>2. Shaped(y) /\ RowsSound(y) /\ UsedSound(y) /\ Watching(y, next)
        <3>1. Shaped(y)
            BY <2>1, <2>f DEF CallSound, Shaped
        <3>2. RowsSound(y)
            BY <2>f DEF CallSound, RowsSound, OwnRow
        <3>3. UsedSound(y)
            BY <2>f DEF CallSound, UsedSound
        <3>4. Watching(y, next)
            BY <2>f DEF Watching
        <3> QED
            BY <3>1, <3>2, <3>3, <3>4
    <2>3. SnapSound(y, next, then)
        <3> SUFFICES ASSUME x.phase = "merge" PROVE SnapSound(y, next, then)
            BY <2>1 DEF SnapSound
        <3> DEFINE c == Roster[x.at]
        <3>1. ASSUME NEW j \in DOMAIN x.snap
              PROVE  next[j].status # "none" /\ x.snap[j].end = next[j].end /\ j \in Personal(c)
            BY DEF CallSound, SnapSound, Personal
        <3>2. ASSUME NEW j \in Personal(c) \ DOMAIN x.snap
              PROVE  \/ j \in y.held \cup y.gone \/ next[j].status = "none"
                     \/ next[j].status = "delivered" /\ next[j].left + EsiWindow < then
            <4>1. CASE j # m
                <5>1. j \in Jobs /\ next[j] = jobs[j]
                    BY <4>1 DEF Personal
                <5>2. \/ j \in x.held \cup x.gone \/ jobs[j].status = "none"
                      \/ jobs[j].status = "delivered" /\ jobs[j].left + EsiWindow < then
                    BY DEF CallSound, SnapSound
                <5> QED
                    BY <2>f, <5>1, <5>2
            <4>2. CASE j = m
                <5>1. j \in OwnJobs
                    BY DEF Personal, OwnJobs
                <5>2. CASE jobs[m].status = "none"
                    BY <2>f, <4>2, <5>1, <5>2 DEF Busy, HoldsSlot
                <5>3. CASE jobs[m].status = "active"
                    BY <1>2, <2>f, <4>2, <5>1, <5>3 DEF CallSound, Watching, Busy, HoldsSlot
                <5> QED
                    BY <5>2, <5>3
            <4> QED
                BY <4>1, <4>2
        <3>3. \A j \in DOMAIN x.snap : HoldsSlot(x.snap[j].status) => j \in y.held
            BY <2>f DEF CallSound, SnapSound
        <3>4. DOMAIN x.snap \subseteq Personal(Roster[x.at])
            BY <3>1
        <3>5. \A j \in DOMAIN x.snap :
                 /\ next[j].status # "none" /\ x.snap[j].end = next[j].end
                 /\ HoldsSlot(x.snap[j].status) => j \in y.held
            BY <3>1, <3>3
        <3>6. \A j \in Personal(Roster[x.at]) \ DOMAIN x.snap :
                 \/ j \in y.held \cup y.gone \/ next[j].status = "none"
                 \/ next[j].status = "delivered" /\ next[j].left + EsiWindow < then
            BY <3>2
        <3>7. y.snap = x.snap /\ y.at = x.at
            BY <2>f
        <3> QED
            BY ONLY <3>4, <3>5, <3>6, <3>7 DEF SnapSound
    <2> QED
        BY <2>2, <2>3 DEF CallSound
<1> QED
    BY <1>1, <1>2

(* On to the next character, with the corporation jobs not yet in the rows. *)
LEMMA AdvanceSound ==
    ASSUME IndustryAssumption, NEW x, NEW jobs, NEW then, CallSound(x, jobs, then),
           x.phase \in {"fetch", "corp"},
           NEW new, \A r \in new : r.owner = "Corp" /\ r.id \in Corporate,
           \A r, s \in new : r.id = s.id => r = s,
           NEW y, y = IF x.at = Len(Roster)
                      THEN [x EXCEPT !.phase = "answered", !.rows = AppendNew(@, new)]
                      ELSE [x EXCEPT !.phase = "fetch", !.at = @ + 1, !.rows = AppendNew(@, new)]
    PROVE  CallSound(y, jobs, then)
<1> DEFINE phase == IF x.at = Len(Roster) THEN "answered" ELSE "fetch"
           spot == IF x.at = Len(Roster) THEN x.at ELSE x.at + 1
           rows == AppendNew(x.rows, new)
<1>1. y = [phase |-> phase, at |-> spot, snap |-> x.snap, held |-> x.held, gone |-> x.gone,
           rows |-> rows, used |-> x.used]
    BY DEF CallSound, Shaped
<1>2. /\ y.phase = phase /\ y.at = spot /\ y.snap = x.snap /\ y.rows = rows /\ y.used = x.used
      /\ y.held = x.held /\ y.gone = x.gone
    BY ONLY <1>1
<1>3. Len(Roster) \in Nat /\ x.at \in 1..Len(Roster) /\ spot \in 1..Len(Roster)
    BY DEF IndustryAssumption, CallSound, Shaped
<1>4. Shaped(y)
    BY <1>1, <1>2, <1>3 DEF Shaped, Phases
<1>5. RowsSound(y)
    <2>1. ASSUME NEW r \in x.rows, OwnRow(r, x) PROVE OwnRow(r, y)
        <3>1. PICK i \in 1..x.at : r.char = Roster[i]
            BY <2>1 DEF OwnRow
        <3>2. i \in 1..spot /\ (i < spot \/ phase = "answered")
            BY <1>3
        <3> QED
            BY <1>2, <2>1, <3>1, <3>2 DEF OwnRow
    <2>2. \A r \in rows : r \in x.rows \/ (r \in new /\ \A s \in x.rows : s.id # r.id)
        BY DEF AppendNew
    <2>3. \A r \in rows : OwnRow(r, y) \/ (r.owner = "Corp" /\ r.id \in Corporate)
        BY <2>1, <2>2 DEF CallSound, RowsSound
    <2>4. \A r, s \in rows : r.id = s.id => r = s
        BY <2>2 DEF CallSound, RowsSound
    <2> QED
        BY <1>2, <2>3, <2>4 DEF RowsSound
<1>6. UsedSound(y)
    BY <1>2 DEF CallSound, UsedSound
<1>7. Watching(y, jobs)
    BY <1>2 DEF CallSound, Watching
<1>8. SnapSound(y, jobs, then)
    BY <1>2 DEF SnapSound
<1> QED
    BY <1>4, <1>5, <1>6, <1>7, <1>8 DEF CallSound

(* What is kept is a job of this character, and one still busy in it is    *)
(* busy, was so during the call, or has been cancelled.                    *)
LEMMA KeptStaysSound ==
    ASSUME IndustryAssumption, JobsInv, NEW k \in Calls, call[k].phase = "merge",
           NEW c \in Chars, c = Roster[call[k].at],
           NEW kept, kept = Merged(store[c], call[k].snap)
    PROVE  /\ KeptSound(kept, c, job)
           /\ \A j \in DOMAIN kept : HoldsSlot(kept[j].status) => j \in call[k].held \cup call[k].gone
<1> DEFINE snap == call[k].snap
<1>1. /\ \A j \in DOMAIN kept : /\ j \in DOMAIN snap \cup DOMAIN store[c]
                                /\ kept[j] = IF j \in DOMAIN snap THEN snap[j] ELSE store[c][j]
                                /\ kept[j].end + Retention >= now
    BY ZenonT(40) DEF Merged, Over
<1>2. SnapSound(call[k], job, now) /\ KeptSound(store[c], c, job)
    BY DEF JobsInv, CallSound
<1>3. ASSUME NEW j \in DOMAIN kept
      PROVE  j \in Personal(c) /\ job[j].status # "none" /\ kept[j].end = job[j].end
    BY <1>1, <1>2 DEF SnapSound, KeptSound
<1>4. ASSUME NEW j \in DOMAIN kept, HoldsSlot(kept[j].status)
      PROVE  j \in call[k].held \cup call[k].gone
    <2>1. CASE j \in DOMAIN snap
        BY <1>1, <1>2, <1>4, <2>1 DEF SnapSound
    <2>2. CASE j \notin DOMAIN snap
        <3>1. \/ j \in call[k].held \cup call[k].gone
              \/ job[j].status = "delivered" /\ job[j].left + EsiWindow < now
            BY <1>2, <1>3, <2>2 DEF SnapSound
        <3>2. ASSUME job[j].status = "delivered", job[j].left + EsiWindow < now PROVE FALSE
            <4>1. job[j].end + Retention >= now
                BY <1>1, <1>3
            <4>2. j \in Jobs
                BY <1>3 DEF Personal
            <4>3. job[j].end <= job[j].left /\ job[j].end \in Nat /\ job[j].left \in Nat /\ now \in Nat
                BY <3>2, <4>2 DEF JobsInv, JobsTypeOK, JobType
            <4> QED
                BY <3>2, <4>1, <4>3, SMTT(40) DEF IndustryAssumption
        <3> QED
            BY <3>1, <3>2
    <2> QED
        BY <2>1, <2>2, SMTT(40)
<1> QED
    BY <1>3, <1>4, SMTT(40) DEF KeptSound

\* The call after its merge.
AfterMerge(x, c, kept) ==
    [x EXCEPT !.phase = "corp", !.snap = Empty,
              !.rows = @ \cup {[id |-> j, char |-> c, owner |-> "You", status |-> kept[j].status] : j \in DOMAIN kept},
              !.used = Over([d \in {c} |-> {j \in DOMAIN kept : HoldsSlot(kept[j].status)}], @)]

LEMMA MergeSound ==
    ASSUME IndustryAssumption, NEW x, NEW jobs, NEW then, CallSound(x, jobs, then), x.phase = "merge",
           NEW c, c = Roster[x.at], NEW kept, DOMAIN kept \subseteq Personal(c),
           \A j \in DOMAIN kept : HoldsSlot(kept[j].status) => j \in x.held \cup x.gone,
           NEW y, y = AfterMerge(x, c, kept)
    PROVE  CallSound(y, jobs, then)
<1> DEFINE new == {[id |-> j, char |-> c, owner |-> "You", status |-> kept[j].status] : j \in DOMAIN kept}
           used == Over([d \in {c} |-> {j \in DOMAIN kept : HoldsSlot(kept[j].status)}], x.used)
<1>1. y = [phase |-> "corp", at |-> x.at, snap |-> Empty, held |-> x.held, gone |-> x.gone,
           rows |-> x.rows \cup new, used |-> used]
    BY DEF CallSound, Shaped, AfterMerge
<1>2. /\ y.phase = "corp" /\ y.at = x.at /\ y.rows = x.rows \cup new /\ y.used = used /\ y.snap = Empty
      /\ y.held = x.held /\ y.gone = x.gone
    BY ONLY <1>1
<1>3. Len(Roster) \in Nat /\ x.at \in 1..Len(Roster)
    BY DEF IndustryAssumption, CallSound, Shaped
<1>4. Shaped(y)
    BY <1>1, <1>2, <1>3 DEF Shaped, Phases
<1>5. RowsSound(y)
    <2>1. ASSUME NEW r \in new
          PROVE  r.char = c /\ r.owner = "You" /\ r.id \in OwnJobs /\ Installer[r.id] = c
        BY DEF Personal, OwnJobs
    <2>2. ASSUME NEW r \in new PROVE OwnRow(r, y)
        BY <1>2, <1>3, <2>1 DEF OwnRow
    <2>3. ASSUME NEW r \in x.rows, OwnRow(r, x) PROVE OwnRow(r, y) /\ r.char # c
        <3>1. PICK i \in 1..x.at : r.char = Roster[i] /\ i < x.at
            BY <2>3 DEF OwnRow
        <3>2. i \in DOMAIN Roster /\ x.at \in DOMAIN Roster
            BY <1>3 DEF IndustryAssumption
        <3> QED
            BY <1>2, <1>3, <2>3, <3>1, <3>2 DEF OwnRow, IndustryAssumption
    <2>4. \A r \in x.rows : OwnRow(r, x) \/ (r.owner = "Corp" /\ r.id \in Corporate)
        BY DEF CallSound, RowsSound
    <2>5. \A r \in x.rows : \A s \in new : r.id # s.id
        <3> TAKE r \in x.rows
        <3> TAKE s \in new
        <3>1. CASE OwnRow(r, x)
            BY <2>1, <2>3, <3>1 DEF OwnRow
        <3>2. CASE r.owner = "Corp" /\ r.id \in Corporate
            BY <2>1, <3>2 DEF OwnJobs
        <3> QED
            BY <2>4, <3>1, <3>2
    <2>6. \A r, s \in new : r.id = s.id => r = s
        OBVIOUS
    <2>7. \A r, s \in x.rows : r.id = s.id => r = s
        BY DEF CallSound, RowsSound
    <2>8. \A r \in x.rows \cup new : OwnRow(r, y) \/ (r.owner = "Corp" /\ r.id \in Corporate)
        BY <2>2, <2>3, <2>4
    <2>9. \A r, s \in x.rows \cup new : r.id = s.id => r = s
        <3> HIDE DEF new
        <3> QED
            BY <2>5, <2>6, <2>7
    <2> QED
        BY <1>2, <2>8, <2>9 DEF RowsSound
<1>6. UsedSound(y)
    <2>0. {j \in DOMAIN kept : HoldsSlot(kept[j].status)} \subseteq (x.held \cup x.gone) \cap Personal(c)
        OBVIOUS
    <2>1. \A d \in DOMAIN used : used[d] = IF d = c THEN {j \in DOMAIN kept : HoldsSlot(kept[j].status)}
                                           ELSE x.used[d]
        BY DEF Over
    <2>2. \A d \in DOMAIN used : d = c \/ d \in DOMAIN x.used
        BY DEF Over
    <2> QED
        <3>1. \A d \in DOMAIN used : used[d] \subseteq (x.held \cup x.gone) \cap Personal(d)
            <4> TAKE d \in DOMAIN used
            <4>1. CASE d = c
                BY <2>0, <2>1, <4>1
            <4>2. CASE d # c
                BY <2>1, <2>2, <4>2 DEF UsedSound, CallSound
            <4> QED
                BY <4>1, <4>2
        <3> QED
            BY <1>2, <3>1 DEF UsedSound
<1>7. Watching(y, jobs)
    BY <1>2 DEF CallSound, Watching
<1>8. SnapSound(y, jobs, then)
    BY <1>2 DEF SnapSound
<1> QED
    BY <1>4, <1>5, <1>6, <1>7, <1>8 DEF CallSound

(* A job starts, ends or is cancelled.                                     *)
LEMMA MoveStep ==
    ASSUME IndustryAssumption, JobsInv, NEW m \in Jobs, NEW e \in JobType, Move(m, e),
           e.status # "none", job[m].status \in {"none", "active"},
           job[m].status # "none" => e.status # "active" /\ e.end = job[m].end,
           job[m].status = "none" => e.status = "active",
           e.status = "delivered" => e.end <= e.left
    PROVE  JobsInv'
<1>1. /\ job \in [Jobs -> JobType] /\ job' = [job EXCEPT ![m] = e]
      /\ UNCHANGED <<now, store, faults>> /\ call' = Watch(job')
    BY DEF Move, JobsInv, JobsTypeOK
<1>2. job' \in [Jobs -> JobType]
    BY <1>1
<1>3. \A j \in Jobs : job'[j] = IF j = m THEN e ELSE job[j]
    BY <1>1
<1>4. JobsTypeOK'
    BY <1>1, <1>2, <1>3 DEF JobsInv, JobsTypeOK
<1>5. ASSUME NEW c \in Chars PROVE KeptSound(store[c], c, job')
    <2>1. ASSUME NEW j \in DOMAIN store[c] PROVE job'[j].status # "none" /\ store[c][j].end = job'[j].end
        <3>1. j \in Jobs /\ job[j].status # "none" /\ store[c][j].end = job[j].end
            BY DEF JobsInv, KeptSound, Personal
        <3> QED
            BY <1>3, <3>1
    <2> QED
        BY <2>1 DEF JobsInv, KeptSound
<1>6. call' = [k \in Calls |-> call'[k]]
    BY <1>1 DEF Watch
<1>7. ASSUME NEW k \in Calls PROVE CallSound(call'[k], job', now)
    <2>1. call'[k] = IF call[k].phase \in {"idle", "answered"} THEN call[k]
                     ELSE [call[k] EXCEPT !.held = @ \cup Busy(job'), !.gone = @ \cup Cancelled(job')]
        BY <1>1 DEF Watch, Busy, Cancelled, OwnJobs
    <2>2. CallSound(call[k], job, now)
        BY DEF JobsInv
    <2>3. job' = [job EXCEPT ![m] = e]
        BY <1>1
    <2>4. job \in [Jobs -> JobType]
        BY <1>1
    <2> QED
        BY <2>1, <2>2, <2>3, <2>4, MoveSound, Zenon
<1> QED
    BY <1>1, <1>4, <1>5, <1>6, <1>7 DEF JobsInv

LEMMA JobsStep == ASSUME IndustryAssumption, JobsInv, [JobsNext]_jobVars PROVE JobsInv'
<1> USE DEF JobsInv
<1>1. CASE UNCHANGED jobVars
    BY <1>1 DEF jobVars, JobsTypeOK, KeptSound, CallSound, Shaped, RowsSound, OwnRow, UsedSound, Watching, SnapSound
<1>2. CASE Tick
    <2>1. now \in Nat /\ now' = now + 1 /\ UNCHANGED <<job, store, call>>
        BY <1>2 DEF Tick, JobsTypeOK
    <2>2. JobsTypeOK'
        BY <2>1 DEF JobsTypeOK
    <2>3. ASSUME NEW k \in Calls PROVE CallSound(call[k], job, now')
        <3>1. CallSound(call[k], job, now)
            OBVIOUS
        <3>2. SnapSound(call[k], job, now')
            <4> SUFFICES ASSUME call[k].phase = "merge" PROVE SnapSound(call[k], job, now')
                BY DEF SnapSound
            <4>1. ASSUME NEW j \in Personal(Roster[call[k].at]), job[j].left + EsiWindow < now
                  PROVE  job[j].left + EsiWindow < now'
                <5>1. job[j].left \in Nat /\ EsiWindow \in Nat
                    BY DEF JobsTypeOK, JobType, Personal, IndustryAssumption
                <5> QED
                    BY <2>1, <4>1, <5>1
            <4> QED
                BY <3>1, <4>1 DEF CallSound, SnapSound
        <3> QED
            BY <3>1, <3>2 DEF CallSound
    <2> QED
        BY <2>1, <2>2, <2>3
<1>3. ASSUME NEW m \in Jobs, Install(m) \/ Deliver(m) \/ Cancel(m) PROVE JobsInv'
    <2>1. job[m] \in JobType /\ now \in Nat /\ now + Runs \in Nat
        BY DEF JobsTypeOK, IndustryAssumption
    <2>2. CASE Install(m)
        <3> DEFINE e == [status |-> "active", end |-> now + Runs, left |-> 0]
        <3>1. e \in JobType /\ e.status = "active"
            BY <2>1 DEF JobType
        <3> HIDE DEF JobsInv
        <3> QED
            BY <2>2, <3>1, MoveStep DEF Install
    <2>3. CASE Deliver(m)
        <3> DEFINE e == [job[m] EXCEPT !.status = "delivered", !.left = now]
        <3>1. e \in JobType /\ e.status = "delivered" /\ e.end = job[m].end /\ e.left = now
            BY <2>1 DEF JobType
        <3>2. job[m].status = "active" /\ job[m].end <= now /\ Move(m, e)
            BY <2>3 DEF Deliver, HoldsSlot
        <3> HIDE DEF JobsInv, e
        <3> QED
            BY <3>1, <3>2, MoveStep
    <2>4. CASE Cancel(m)
        <3> DEFINE e == [job[m] EXCEPT !.status = "cancelled", !.left = now]
        <3>1. e \in JobType /\ e.status = "cancelled" /\ e.end = job[m].end
            BY <2>1 DEF JobType
        <3>2. job[m].status = "active" /\ Move(m, e)
            BY <2>4 DEF Cancel, HoldsSlot
        <3> HIDE DEF JobsInv, e
        <3> QED
            BY <3>1, <3>2, MoveStep
    <2> QED
        BY <1>3, <2>2, <2>3, <2>4
<1>4. ASSUME NEW k \in Calls, QueryJobs(k) \/ FetchJobs(k) \/ JobsFail(k) \/ Merge(k) \/ Corp(k)
      PROVE  JobsInv'
    <2>1. CallSound(call[k], job, now)
        OBVIOUS
    <2>2. UNCHANGED <<now, job>> /\ call' = [call EXCEPT ![k] = call'[k]]
        BY <1>4 DEF QueryJobs, FetchJobs, JobsFail, Merge, Corp
    <2>3. JobsTypeOK'
        BY <2>2 DEF JobsTypeOK
    <2>4. \A c \in Chars : KeptSound(store'[c], c, job)
        <3>1. CASE Merge(k)
            <4> DEFINE d == Roster[call[k].at]
                       kept == Merged(store[d], call[k].snap)
            <4>1. d \in Chars
                BY <2>1 DEF CallSound, Shaped, Chars, IndustryAssumption
            <4>2. KeptSound(kept, d, job)
                BY <3>1, <4>1, KeptStaysSound, SMTT(40) DEF Merge
            <4>3. store' = [store EXCEPT ![d] = kept]
                BY <3>1, ZenonT(40) DEF Merge, Char
            <4> QED
                BY <4>1, <4>2, <4>3
        <3>2. CASE ~Merge(k)
            BY <1>4, <3>2 DEF QueryJobs, FetchJobs, JobsFail, Corp
        <3> QED
            BY <3>1, <3>2
    <2>5. store' = [c \in Chars |-> store'[c]]
        BY <1>4 DEF QueryJobs, FetchJobs, JobsFail, Merge, Corp
    <2>6. CallSound(call'[k], job, now)
        <3>1. CASE QueryJobs(k)
            <4>1. call'[k] = [phase |-> "fetch", at |-> 1, snap |-> Empty, held |-> Busy(job),
                              gone |-> Cancelled(job), rows |-> {}, used |-> Empty]
                BY <3>1 DEF QueryJobs, Idle, Busy, Cancelled, OwnJobs
            <4>2. Len(Roster) \in Nat /\ Len(Roster) >= 1
                BY DEF IndustryAssumption
            <4> QED
                BY <4>1, <4>2 DEF CallSound, Shaped, Phases, RowsSound, UsedSound, Watching, SnapSound, Empty
        <3>2. CASE FetchJobs(k)
            <4> DEFINE x == call[k]
                       c == Roster[x.at]
                       snap == Snapshot(Personal(c))
            <4>1. call'[k] = [phase |-> "merge", at |-> x.at, snap |-> snap, held |-> x.held,
                              gone |-> x.gone, rows |-> x.rows, used |-> x.used]
                BY <2>1, <3>2 DEF FetchJobs, Char, CallSound, Shaped
            <4>2. x.phase = "fetch" /\ Busy(job) \subseteq x.held /\ Cancelled(job) \subseteq x.gone
                BY <2>1, <3>2 DEF FetchJobs, CallSound, Watching
            <4> DEFINE y == call'[k]
            <4>3. /\ y.phase = "merge" /\ y.at = x.at /\ y.snap = snap /\ y.held = x.held
                  /\ y.gone = x.gone /\ y.rows = x.rows /\ y.used = x.used
                BY ONLY <4>1
            <4>4. Shaped(y)
                BY <2>1, <4>1, <4>3 DEF CallSound, Shaped, Phases
            <4>5. RowsSound(y)
                BY <2>1, <4>2, <4>3 DEF CallSound, RowsSound, OwnRow
            <4>6. UsedSound(y)
                BY <2>1, <4>3 DEF CallSound, UsedSound
            <4>7. Watching(y, job)
                BY <4>2, <4>3 DEF Watching
            <4>8. /\ DOMAIN snap \subseteq Personal(c)
                  /\ \A j \in DOMAIN snap : Listed(j) /\ snap[j].end = job[j].end /\ snap[j].status = job[j].status
                  /\ \A j \in Personal(c) \ DOMAIN snap : ~Listed(j)
                BY DEF Snapshot
            <4>9. ASSUME NEW j \in DOMAIN snap
                  PROVE  /\ job[j].status # "none" /\ snap[j].end = job[j].end
                         /\ HoldsSlot(snap[j].status) => j \in x.held
                <5>1. j \in OwnJobs
                    BY <4>8 DEF Personal, OwnJobs
                <5> QED
                    BY <4>2, <4>8, <5>1 DEF Listed, HoldsSlot, Busy
            <4>10. ASSUME NEW j \in Personal(c) \ DOMAIN snap
                   PROVE  \/ j \in x.held \cup x.gone \/ job[j].status = "none"
                          \/ job[j].status = "delivered" /\ job[j].left + EsiWindow < now
                <5>1. j \in OwnJobs /\ job[j] \in JobType /\ ~Listed(j)
                    BY <4>8 DEF Personal, OwnJobs, JobsTypeOK
                <5>2. job[j].left \in Nat /\ EsiWindow \in Nat /\ now \in Nat
                    BY <5>1 DEF JobType, JobsTypeOK, IndustryAssumption
                <5>3. job[j].status \in {"none", "active", "delivered", "cancelled"}
                    BY <5>1 DEF JobType
                <5> QED
                    BY <4>2, <5>1, <5>2, <5>3 DEF Listed, HoldsSlot, Cancelled
            <4>11. SnapSound(y, job, now)
                <5> HIDE DEF snap, y
                <5> QED
                    BY <4>3, <4>8, <4>9, <4>10 DEF SnapSound
            <4> QED
                BY <4>4, <4>5, <4>6, <4>7, <4>11 DEF CallSound
        <3>3. CASE JobsFail(k)
            <4>1. CASE Len(Roster) > 1
                <5>1. call'[k] = Advance(k) /\ call[k].phase = "fetch"
                    BY <3>3, <4>1 DEF JobsFail
                <5>2. AppendNew(call[k].rows, {}) = call[k].rows
                    BY DEF AppendNew
                <5>3. call'[k] = IF call[k].at = Len(Roster)
                                 THEN [call[k] EXCEPT !.phase = "answered", !.rows = AppendNew(@, {})]
                                 ELSE [call[k] EXCEPT !.phase = "fetch", !.at = @ + 1, !.rows = AppendNew(@, {})]
                    <6>1. Advance(k) = [Advance(k) EXCEPT !.rows = AppendNew(call[k].rows, {})]
                        BY <2>1, <5>2 DEF Advance, CallSound, Shaped
                    <6> QED
                        BY <2>1, <5>1, <6>1 DEF Advance, CallSound, Shaped
                <5> QED
                    BY <2>1, <5>1, <5>3, AdvanceSound
            <4>2. CASE ~(Len(Roster) > 1)
                BY <3>3, <4>2, IdleIsSound DEF JobsFail
            <4> QED
                BY <4>1, <4>2, SMTT(40)
        <3>4. CASE Merge(k)
            <4> DEFINE d == Roster[call[k].at]
                       kept == Merged(store[d], call[k].snap)
            <4>1. d \in Chars /\ call[k].phase = "merge"
                BY <2>1, <3>4 DEF CallSound, Shaped, Chars, IndustryAssumption, Merge
            <4>2. /\ KeptSound(kept, d, job)
                  /\ \A j \in DOMAIN kept : HoldsSlot(kept[j].status) => j \in call[k].held \cup call[k].gone
                BY <4>1, KeptStaysSound, SMTT(40)
            <4>3. call'[k] = AfterMerge(call[k], d, kept)
                BY <3>4, ZenonT(40) DEF Merge, Char, AfterMerge
            <4> HIDE DEF kept, d
            <4>4. DOMAIN kept \subseteq Personal(d)
                BY <4>2 DEF KeptSound
            <4>5. d = Roster[call[k].at]
                BY DEF d
            <4> QED
                BY <2>1, <4>1, <4>2, <4>3, <4>4, <4>5, MergeSound, ZenonT(40)
        <3>5. CASE Corp(k)
            <4>1. call[k].phase = "corp"
                BY <3>5 DEF Corp
            <4> DEFINE list == CorpList(Char(k))
                       new == {[id |-> j, char |-> Char(k), owner |-> "Corp", status |-> list[j].status] :
                                  j \in DOMAIN list}
            <4>2. DOMAIN list \subseteq Corporate
                BY DEF CorpList, Snapshot, Empty
            <4>3. /\ \A r \in new : r.owner = "Corp" /\ r.id \in Corporate
                  /\ \A r, s \in new : r.id = s.id => r = s
                BY <4>2
            <4>4. PICK some \in {new, {}} : call'[k] = [Advance(k) EXCEPT !.rows = AppendNew(@, some)]
                <5>1. CASE call' = [call EXCEPT ![k] = [Advance(k) EXCEPT !.rows = AppendNew(@, new)]]
                    BY <5>1
                <5>2. CASE call' = [call EXCEPT ![k] = Advance(k)]
                    <6>1. AppendNew(Advance(k).rows, {}) = Advance(k).rows
                        BY DEF AppendNew
                    <6>2. Advance(k) = [Advance(k) EXCEPT !.rows = Advance(k).rows]
                        BY <2>1 DEF Advance, CallSound, Shaped
                    <6> QED
                        BY <5>2, <6>1, <6>2
                <5> QED
                    BY <3>5, <5>1, <5>2 DEF Corp
            <4>5. call'[k] = IF call[k].at = Len(Roster)
                             THEN [call[k] EXCEPT !.phase = "answered", !.rows = AppendNew(@, some)]
                             ELSE [call[k] EXCEPT !.phase = "fetch", !.at = @ + 1, !.rows = AppendNew(@, some)]
                BY <2>1, <4>4 DEF Advance, CallSound, Shaped
            <4>6. /\ \A r \in some : r.owner = "Corp" /\ r.id \in Corporate
                  /\ \A r, s \in some : r.id = s.id => r = s
                BY <4>3
            <4> HIDE DEF new, list
            <4> QED
                BY <2>1, <4>1, <4>5, <4>6, AdvanceSound, ZenonT(40)
        <3> QED
            BY <1>4, <3>1, <3>2, <3>3, <3>4, <3>5
    <2>7. call' = [i \in Calls |-> call'[i]] /\ \A i \in Calls : i # k => call'[i] = call[i]
        BY <2>2
    <2> QED
        BY <2>2, <2>3, <2>4, <2>5, <2>6, <2>7
<1> QED
    BY <1>1, <1>2, <1>3, <1>4 DEF JobsNext

(* merge_jobs, compute_slots, append_new_jobs: for every roster, number of *)
(* calls at once, jobs and retention (no longer than ESI lists an ended    *)
(* job), a slot an answer counts was held meanwhile or its job cancelled,  *)
(* and the answer names every job once, under the character that runs it.  *)
THEOREM SlotsAreHeld == ASSUME IndustryAssumption PROVE JobsSpec => []SlotsHeld
<1>1. JobsInit => JobsInv
    <2> SUFFICES ASSUME JobsInit PROVE JobsInv
        OBVIOUS
    <2>1. JobsTypeOK
        BY DEF JobsInit, JobsTypeOK, JobType, NoJob
    <2>2. \A c \in Chars : KeptSound(store[c], c, job)
        BY DEF JobsInit, KeptSound, Empty
    <2>3. \A k \in Calls : CallSound(call[k], job, now)
        BY IdleIsSound DEF JobsInit
    <2> QED
        BY <2>1, <2>2, <2>3 DEF JobsInit, JobsInv
<1>2. JobsInv /\ [JobsNext]_jobVars => JobsInv'
    BY JobsStep
<1>3. JobsInv => SlotsHeld
    BY DEF JobsInv, CallSound, UsedSound, RowsSound, OwnRow, SlotsHeld
<1> QED
    BY <1>1, <1>2, <1>3, PTL DEF JobsSpec

-----------------------------------------------------------------------------
(* The conditional HTTP cache.  Whoever asked the server gets nothing older *)
(* than what there was when it asked, however calls for one key overlap,   *)
(* fail and restart.                                                       *)

Pcs == {"idle", "read", "loaded", "served", "asked", "unmodified", "walking", "fetched", "reread",
        "storing", "writing", "written", "answered"}

MaybeEntry == Entry \cup {NoEntry}
Versions == [PageNumbers -> Nat]

CallsTyped ==
    /\ time \in Nat
    /\ page \in Versions
    /\ mem \in MaybeEntry /\ disk \in MaybeEntry
    /\ where \in [Callers -> Pcs]
    /\ entry \in [Callers -> MaybeEntry] /\ out \in [Callers -> MaybeEntry]
    /\ walked \in [Callers -> Nat]
    /\ reply \in [Callers -> Versions] /\ offered \in [Callers -> Versions]

(* What a call has of the server's pages, as far as it has come.           *)
HasCurrent(c) ==
    /\ \A p \in PageNumbers : offered[c][p] <= page[p]
    /\ where[c] = "read" => entry[c] # NoEntry
    /\ where[c] = "reread" => out[c] # NoEntry
    /\ where[c] = "walking" => walked[c] \in 1..(Pages - 1)
    /\ where[c] \in {"walking", "fetched"} =>
          \A p \in PageNumbers : (where[c] = "fetched" \/ p <= walked[c]) => offered[c][p] <= reply[c][p]
    /\ where[c] \in {"unmodified", "reread", "storing", "writing", "written", "answered"} =>
          offered[c][1] <= reply[c][1]

HonestInv == CallsTyped /\ \A c \in Callers : HasCurrent(c)

LEMMA EntryFacts ==
    ASSUME CacheAssumption, NEW e \in Entry, NEW t \in Nat
    PROVE  /\ e.body \in Versions /\ e.expires \in Nat
           /\ [e EXCEPT !.expires = t] \in Entry
           /\ 1 \in PageNumbers
BY DEF Entry, Versions, CacheAssumption, PageNumbers

LEMMA HonestBegins == CacheAssumption => (CondInit => HonestInv)
BY DEF CacheAssumption, CondInit, HonestInv, CallsTyped, MaybeEntry, Versions, Pcs, Nothing, HasCurrent

-----------------------------------------------------------------------------
(* Types                                                                   *)

LEMMA EndsType ==
    ASSUME CallsTyped, NEW c \in Callers, Ends(c), UNCHANGED <<time, page, disk>>, mem' \in {mem, NoEntry}
    PROVE  CallsTyped'
BY DEF CallsTyped, Ends, Goto, Pcs, MaybeEntry, Versions, Nothing

LEMMA TypedStep == ASSUME CacheAssumption, HonestInv, [CondNext]_condVars PROVE CallsTyped'
<1> USE DEF HonestInv, CallsTyped
<1>0. 1 \in PageNumbers /\ Ttl \in Nat /\ Pages \in Nat
    BY DEF CacheAssumption, PageNumbers
<1>1. CASE UNCHANGED condVars
    BY <1>1 DEF condVars, callers
<1>2. CASE SecondPasses \/ Sweep
    BY <1>2 DEF SecondPasses, Sweep, callers, MaybeEntry
<1>3. CASE Publish
    BY <1>3 DEF Publish, callers, Versions
<1>4. CASE Restart
    BY <1>4 DEF Restart, Pcs, MaybeEntry, Versions, Nothing
<1>5. ASSUME NEW c \in Callers, Caller(c) PROVE CallsTyped'
    <2>1. CASE LoadHit(c) \/ ReadFile(c) \/ InsertRead(c)
        BY <2>1 DEF LoadHit, ReadFile, InsertRead, Passes, Goto, Pcs
    <2>2. CASE ServeFresh(c) \/ NotModified(c)
        <3>1. entry[c] \in Entry
            BY <2>2 DEF ServeFresh, NotModified, Fresh, MaybeEntry
        <3>2. entry[c].body \in Versions
            BY <3>1, EntryFacts
        <3> QED
            BY <2>2, <3>2 DEF ServeFresh, NotModified, Passes, Goto, Pcs
    <2>3. CASE Ask(c)
        BY <2>3 DEF Ask, Passes, Goto, Pcs
    <2>4. CASE FetchPage(c)
        <3>1. walked' \in [Callers -> Nat] /\ where' \in [Callers -> Pcs]
            BY <2>4 DEF FetchPage, Goto, Pcs
        <3>2. walked'[c] \in PageNumbers
            BY <1>0, <2>4 DEF FetchPage, HasCurrent, PageNumbers
        <3>3. page[walked'[c]] \in Nat
            BY <3>2 DEF Versions
        <3>4. reply' = [reply EXCEPT ![c] = [reply[c] EXCEPT ![walked'[c]] = page[walked'[c]]]]
            BY <2>4 DEF FetchPage
        <3>5. [reply[c] EXCEPT ![walked'[c]] = page[walked'[c]]] \in Versions
            BY <3>2, <3>3 DEF Versions
        <3>6. reply' \in [Callers -> Versions]
            BY <3>4, <3>5
        <3> QED
            BY <2>4, <3>1, <3>6 DEF FetchPage
    <2>5. CASE RequestFails(c) \/ Respond(c)
        BY <2>5, EndsType DEF RequestFails, Respond
    <2>6. CASE Keep(c)
        <3>1. [body |-> reply[c], expires |-> time + Ttl] \in Entry
            BY <1>0 DEF Entry, Versions
        <3> QED
            BY <2>6, <3>1 DEF Keep, Passes, Goto, Pcs, MaybeEntry
    <2>7. CASE Touch(c)
        <3>1. mem \in Entry /\ time + Ttl \in Nat
            BY <1>0, <2>7 DEF Touch, MaybeEntry
        <3>2. [mem EXCEPT !.expires = time + Ttl] \in Entry
            BY <3>1, EntryFacts
        <3> QED
            BY <2>7, <3>2 DEF Touch, Passes, Goto, Pcs, MaybeEntry
    <2>8. CASE TouchReads(c)
        BY <2>8 DEF TouchReads, Goto, Pcs
    <2>9. CASE TouchRead(c)
        <3>1. out[c] \in Entry
            BY <2>9 DEF TouchRead, Passes, HasCurrent, MaybeEntry
        <3>2. [out[c] EXCEPT !.expires = time + Ttl] \in Entry
            BY <1>0, <3>1, EntryFacts
        <3>3. out' = [out EXCEPT ![c] = [out[c] EXCEPT !.expires = time + Ttl]]
            BY <2>9 DEF TouchRead
        <3> QED
            BY <2>9, <3>2, <3>3 DEF TouchRead, Passes, Goto, Pcs, MaybeEntry
    <2>10. CASE CreateFile(c) \/ WriteFails(c) \/ InsertStored(c)
        BY <2>10 DEF CreateFile, WriteFails, InsertStored, Passes, Goto, Pcs, MaybeEntry
    <2>11. CASE WriteFile(c)
        <3>1. disk' \in {out[c], NoEntry}
            BY <2>11 DEF WriteFile
        <3> QED
            BY <2>11, <3>1 DEF WriteFile, Passes, Goto, Pcs, MaybeEntry
    <2> QED
        BY <1>5, <2>1, <2>2, <2>3, <2>4, <2>5, <2>6, <2>7, <2>8, <2>9, <2>10, <2>11 DEF Caller
<1> QED
    BY <1>1, <1>2, <1>3, <1>4, <1>5 DEF CondNext

-----------------------------------------------------------------------------
(* A step of one call leaves what the others hold, and the server's pages  *)
(* only get newer.                                                         *)
LEMMA CurrentStep ==
    ASSUME CacheAssumption, HonestInv, CallsTyped', [CondNext]_condVars, NEW d \in Callers
    PROVE  HasCurrent(d)'
<1> USE DEF HonestInv
<1>0. HasCurrent(d) /\ 1 \in PageNumbers /\ Pages \in Nat \ {0}
    BY DEF CacheAssumption, PageNumbers
<1>1. ASSUME /\ where'[d] = where[d] /\ entry'[d] = entry[d] /\ out'[d] = out[d] /\ walked'[d] = walked[d]
             /\ reply'[d] = reply[d] /\ offered'[d] = offered[d]
             /\ \A p \in PageNumbers : page[p] <= page'[p]
      PROVE  HasCurrent(d)'
    <2>1. \A p \in PageNumbers : offered[d][p] \in Nat /\ page[p] \in Nat /\ page'[p] \in Nat
        BY DEF CallsTyped, Versions
    <2>2. \A p \in PageNumbers : offered'[d][p] <= page'[p]
        BY <1>0, <1>1, <2>1 DEF HasCurrent
    <2> QED
        BY <1>0, <1>1, <2>2 DEF HasCurrent
<1>2. CASE UNCHANGED condVars \/ SecondPasses \/ Sweep
    <2>1. \A p \in PageNumbers : page[p] \in Nat
        BY DEF CallsTyped, Versions
    <2> QED
        BY <1>1, <1>2, <2>1 DEF condVars, callers, SecondPasses, Sweep
<1>3. CASE Publish
    <2>1. \A p \in PageNumbers : page[p] \in Nat /\ page[p] <= page'[p]
        BY <1>3 DEF Publish, CallsTyped, Versions
    <2> QED
        BY <1>1, <1>3, <2>1 DEF Publish, callers
<1>4. ASSUME where'[d] = "idle", offered'[d] = Nothing PROVE HasCurrent(d)'
    <2>1. \A p \in PageNumbers : page'[p] \in Nat /\ offered'[d][p] = 0
        BY <1>4 DEF CallsTyped, Versions, Nothing
    <2> QED
        BY <1>4, <2>1 DEF HasCurrent
<1>5. CASE Restart
    BY <1>4, <1>5 DEF Restart
<1>6. ASSUME NEW c \in Callers, Caller(c), c # d PROVE HasCurrent(d)'
    <2>1. /\ where'[d] = where[d] /\ entry'[d] = entry[d] /\ out'[d] = out[d] /\ walked'[d] = walked[d]
          /\ reply'[d] = reply[d] /\ offered'[d] = offered[d] /\ page' = page
        BY <1>6 DEF Caller, LoadHit, ReadFile, InsertRead, ServeFresh, Ask, NotModified, FetchPage,
            RequestFails, Keep, Touch, TouchReads, TouchRead, CreateFile, WriteFile, WriteFails,
            InsertStored, Respond, Ends, Passes, Goto, CallsTyped
    <2>2. \A p \in PageNumbers : page[p] \in Nat
        BY DEF CallsTyped, Versions
    <2> QED
        BY <1>1, <2>1, <2>2
<1>7. ASSUME Caller(d) PROVE HasCurrent(d)'
    <2> USE DEF Passes, Goto
    <2>1. CASE LoadHit(d) \/ ReadFile(d) \/ InsertRead(d)
        <3>1. /\ where'[d] \in {"loaded", "read"} /\ offered'[d] = offered[d] /\ page' = page
              /\ where'[d] = "read" => entry'[d] # NoEntry
            BY <2>1 DEF LoadHit, ReadFile, InsertRead, CallsTyped
        <3> QED
            BY <1>0, <3>1 DEF HasCurrent
    <2>2. CASE ServeFresh(d)
        BY <1>0, <2>2 DEF ServeFresh, HasCurrent, CallsTyped
    <2>3. CASE Ask(d)
        <3>1. where'[d] = "asked" /\ offered'[d] = page /\ page' = page
            BY <2>3 DEF Ask, CallsTyped
        <3>2. \A p \in PageNumbers : page[p] \in Nat
            BY DEF CallsTyped, Versions
        <3> QED
            BY <3>1, <3>2 DEF HasCurrent
    <2>4. CASE NotModified(d)
        <3>1. /\ where'[d] = "unmodified" /\ offered'[d] = offered[d] /\ page' = page
              /\ reply'[d] = entry[d].body /\ entry[d].body[1] = page[1]
            BY <2>4 DEF NotModified, ETag, CallsTyped
        <3> QED
            BY <1>0, <3>1 DEF HasCurrent
    <2>5. CASE FetchPage(d)
        <3>1. /\ where[d] \in {"asked", "walking"}
              /\ walked'[d] = IF where[d] = "asked" THEN 1 ELSE walked[d] + 1
              /\ where'[d] = IF walked'[d] = Pages THEN "fetched" ELSE "walking"
              /\ offered'[d] = offered[d] /\ page' = page
            BY <2>5 DEF FetchPage, CallsTyped
        <3>2. walked'[d] \in PageNumbers
            BY <1>0, <3>1 DEF HasCurrent, PageNumbers
        <3>3. reply' = [reply EXCEPT ![d] = [reply[d] EXCEPT ![walked'[d]] = page[walked'[d]]]]
            BY <2>5 DEF FetchPage
        <3>4. \A p \in PageNumbers :
                 reply'[d][p] = IF p = walked'[d] THEN page[p] ELSE reply[d][p]
            BY <3>2, <3>3 DEF CallsTyped, Versions
        <3>5. \A p \in PageNumbers : p <= walked'[d] => offered'[d][p] <= reply'[d][p]
            BY <1>0, <3>1, <3>4 DEF HasCurrent, PageNumbers
        <3>6. \A p \in PageNumbers : offered'[d][p] <= page'[p]
            BY <1>0, <3>1 DEF HasCurrent
        <3>7. walked'[d] = Pages => \A p \in PageNumbers : p <= walked'[d]
            BY <1>0 DEF PageNumbers
        <3>8. walked'[d] # Pages => walked'[d] \in 1..(Pages - 1)
            BY <1>0, <3>2 DEF PageNumbers
        <3> QED
            BY <3>1, <3>5, <3>6, <3>7, <3>8 DEF HasCurrent
    <2>6. CASE RequestFails(d) \/ Respond(d)
        <3>1. where'[d] = "idle" /\ offered'[d] = Nothing
            BY <2>6 DEF RequestFails, Respond, Ends, CallsTyped
        <3> QED
            BY <1>4, <3>1
    <2>7. CASE Keep(d)
        BY <1>0, <2>7 DEF Keep, HasCurrent, CallsTyped
    <2>8. CASE Touch(d) \/ TouchRead(d) \/ CreateFile(d) \/ WriteFile(d) \/ WriteFails(d) \/ InsertStored(d)
        <3>1. /\ where[d] \in {"unmodified", "reread", "storing", "writing", "written"}
              /\ where'[d] \in {"storing", "writing", "written", "answered"}
              /\ offered'[d] = offered[d] /\ reply'[d] = reply[d] /\ page' = page
            BY <2>8 DEF Touch, TouchRead, CreateFile, WriteFile, WriteFails, InsertStored, CallsTyped
        <3> QED
            BY <1>0, <3>1 DEF HasCurrent
    <2>9. CASE TouchReads(d)
        <3>1. /\ where[d] = "unmodified" /\ where'[d] \in {"answered", "reread"}
              /\ where'[d] = "reread" => out'[d] # NoEntry
              /\ offered'[d] = offered[d] /\ reply'[d] = reply[d] /\ page' = page
            BY <2>9 DEF TouchReads, CallsTyped
        <3> QED
            BY <1>0, <3>1 DEF HasCurrent
    <2> QED
        BY <1>7, <2>1, <2>2, <2>3, <2>4, <2>5, <2>6, <2>7, <2>8, <2>9 DEF Caller
<1> QED
    BY <1>2, <1>3, <1>5, <1>6, <1>7 DEF CondNext

(* get_json and get_paged answer whoever had to ask with nothing older     *)
(* than the question: each page of a walk, and after a 304 the tagged one. *)
THEOREM AnsweredCurrent ==
    ASSUME CacheAssumption
    PROVE  CondSpec => []AnsweredIsCurrent
<1>1. CacheAssumption
    OBVIOUS
<1>2. CondInit => HonestInv
    BY <1>1, HonestBegins
<1>3. HonestInv /\ [CondNext]_condVars => HonestInv'
    BY <1>1, TypedStep, CurrentStep DEF HonestInv
<1>4. HonestInv => AnsweredIsCurrent
    BY DEF HonestInv, HasCurrent, AnsweredIsCurrent
<1> QED
    BY <1>2, <1>3, <1>4, PTL DEF CondSpec

-----------------------------------------------------------------------------
(* The server has published every tag that is kept, and has granted each   *)
(* body no longer than an answer of this moment would.                     *)

Known(e) == e # NoEntry => ETag(e) \in 1..MaxChanges

TagsInv ==
    /\ \A p \in PageNumbers : page[p] \in 1..MaxChanges
    /\ Known(mem) /\ Known(disk)
    /\ \A c \in Callers : Known(entry[c]) /\ Known(out[c])
    /\ \A c \in Callers : where[c] \in {"walking", "fetched"} => reply[c][1] \in 1..MaxChanges
    /\ granted \in [1..MaxChanges -> Nat]
    /\ \A v \in 1..MaxChanges : granted[v] <= time + Ttl

LEMMA ProlongedKnown ==
    ASSUME NoneIsNoEntry, NEW e \in Entry, NEW t \in Nat, Known(e)
    PROVE  Known([e EXCEPT !.expires = t]) /\ ETag([e EXCEPT !.expires = t]) = ETag(e)
BY DEF NoneIsNoEntry, Entry, Known, ETag

LEMMA TagsInit == CacheAssumption /\ NoneIsNoEntry /\ CondInit => TagsInv
BY DEF CacheAssumption, CondInit, TagsInv, Known

LEMMA TagsStep ==
    ASSUME CacheAssumption, NoneIsNoEntry, HonestInv, CallsTyped', TagsInv, [CondNext]_condVars
    PROVE  TagsInv'
<1> USE DEF HonestInv
<1>0. 1 \in PageNumbers /\ Ttl \in Nat /\ time \in Nat /\ time' \in Nat /\ time + Ttl \in Nat /\ MaxChanges \in Nat
    BY DEF CacheAssumption, PageNumbers, CallsTyped
<1>1. CASE UNCHANGED condVars
    BY <1>1 DEF condVars, callers, TagsInv, Known, ETag
<1>2. CASE SecondPasses
    BY <1>0, <1>2 DEF SecondPasses, callers, TagsInv, Known, ETag
<1>3. CASE Publish
    BY <1>0, <1>3 DEF Publish, callers, TagsInv, Known, ETag, CallsTyped
<1>4. CASE Sweep \/ Restart
    BY <1>4 DEF Sweep, Restart, callers, TagsInv, Known, ETag
<1>5. ASSUME NEW c \in Callers, Caller(c) PROVE TagsInv'
    <2>1. page' = page /\ time' = time
        BY <1>5 DEF Caller, LoadHit, ReadFile, InsertRead, ServeFresh, Ask, NotModified, FetchPage,
            RequestFails, Keep, Touch, TouchReads, TouchRead, CreateFile, WriteFile, WriteFails,
            InsertStored, Respond
    <2>2. CASE LoadHit(c) \/ ReadFile(c) \/ InsertRead(c) \/ ServeFresh(c) \/ Ask(c) \/ NotModified(c)
        BY <2>1, <2>2, ZenonT(40)
        DEF LoadHit, ReadFile, InsertRead, ServeFresh, Ask, NotModified, Passes, Goto, CallsTyped,
            TagsInv, Known, ETag
    <2>3. CASE FetchPage(c)
        <3>1. walked'[c] = 1 \/ (where[c] = "walking" /\ walked'[c] # 1)
            BY <2>3 DEF FetchPage, HasCurrent, CallsTyped
        <3>2. reply'[c][1] = IF walked'[c] = 1 THEN page[1] ELSE reply[c][1]
            BY <1>0, <2>3 DEF FetchPage, CallsTyped, Versions
        <3>3. reply'[c][1] \in 1..MaxChanges
            BY <1>0, <3>1, <3>2 DEF TagsInv
        <3> QED
            BY <2>1, <2>3, <3>3 DEF FetchPage, Goto, CallsTyped, TagsInv, Known, ETag
    <2>4. CASE RequestFails(c) \/ Respond(c)
        BY <2>1, <2>4, ZenonT(40) DEF RequestFails, Respond, Ends, Goto, CallsTyped, TagsInv, Known, ETag
    <2>5. ASSUME NEW v, Grant(v)
          PROVE  granted' \in [1..MaxChanges -> Nat] /\ \A w \in 1..MaxChanges : granted'[w] <= time' + Ttl
        <3>1. granted' = [w \in 1..MaxChanges |-> IF w = v THEN time + Ttl ELSE granted[w]]
            BY <2>5 DEF Grant, TagsInv
        <3>2. \A w \in 1..MaxChanges : granted'[w] \in Nat /\ granted'[w] <= time + Ttl
            BY <1>0, <3>1 DEF TagsInv
        <3> QED
            BY <2>1, <3>1, <3>2
    <2>6. CASE Keep(c)
        <3>1. reply[c][1] \in 1..MaxChanges /\ Known(out'[c])
            BY <2>6 DEF Keep, Passes, CallsTyped, TagsInv, Known, ETag
        <3> QED
            BY <2>1, <2>5, <2>6, <3>1 DEF Keep, Passes, Goto, CallsTyped, TagsInv, Known, ETag
    <2>7. CASE Touch(c)
        <3>1. mem \in Entry /\ out'[c] = [mem EXCEPT !.expires = time + Ttl] /\ Known(mem)
            BY <2>7 DEF Touch, CallsTyped, MaybeEntry, TagsInv
        <3>2. Known(out'[c])
            BY <1>0, <3>1, ProlongedKnown
        <3> QED
            BY <2>1, <2>5, <2>7, <3>2 DEF Touch, Passes, Goto, CallsTyped, TagsInv, Known, ETag
    <2>8. CASE TouchReads(c)
        BY <2>1, <2>8 DEF TouchReads, Goto, CallsTyped, TagsInv, Known, ETag
    <2>9. CASE TouchRead(c)
        <3>1. out[c] \in Entry /\ out'[c] = [out[c] EXCEPT !.expires = time + Ttl] /\ Known(out[c])
            BY <2>9 DEF TouchRead, Passes, HasCurrent, CallsTyped, MaybeEntry, TagsInv
        <3>2. Known(out'[c])
            BY <1>0, <3>1, ProlongedKnown
        <3> QED
            BY <2>1, <2>5, <2>9, <3>2 DEF TouchRead, Passes, Goto, CallsTyped, TagsInv, Known, ETag
    <2>10. CASE CreateFile(c) \/ WriteFile(c) \/ WriteFails(c) \/ InsertStored(c)
        BY <2>1, <2>10 DEF CreateFile, WriteFile, WriteFails, InsertStored, Passes, Goto, CallsTyped,
            TagsInv, Known, ETag
    <2> QED
        BY <1>5, <2>2, <2>3, <2>4, <2>6, <2>7, <2>8, <2>9, <2>10 DEF Caller
<1> QED
    BY <1>1, <1>2, <1>3, <1>4, <1>5 DEF CondNext

-----------------------------------------------------------------------------
(* While calls come one after the other, the one under way finds on disk   *)
(* what it loaded, and nobody but it changes what is kept.                 *)

Storing == {"storing", "writing", "written"}

IsGranted(e) == e # NoEntry => e.expires <= granted[ETag(e)]

CallAlone(c) ==
    /\ where[c] \in {"read", "loaded", "asked", "unmodified", "reread"} => entry[c] = disk
    /\ where[c] \in {"unmodified", "reread"} => entry[c] # NoEntry
    /\ where[c] = "reread" => out[c] = disk
    /\ where[c] \in Storing => IsGranted(out[c])
    /\ where[c] = "writing" => disk = NoEntry
    /\ where[c] = "written" => disk = out[c]

OneAtATime == \A c, d \in Callers : c # d => where[c] = "idle" \/ where[d] = "idle"

QuietInv ==
    /\ disturbed \in BOOLEAN
    /\ ~disturbed =>
          /\ OneAtATime
          /\ IsGranted(mem) /\ IsGranted(disk)
          /\ (\A c \in Callers : where[c] \notin Storing) => mem \in {NoEntry, disk}
          /\ \A c \in Callers : CallAlone(c)

LEMMA QuietInit == CondInit => QuietInv
BY DEF CondInit, QuietInv, OneAtATime, IsGranted, CallAlone, Storing

(* An answer of this moment prolongs the entry it is about.                *)
LEMMA ProlongedGranted ==
    ASSUME CacheAssumption, NoneIsNoEntry, time \in Nat, TagsInv,
           NEW e \in Entry, Known(e), Grant(ETag(e)), NEW f, f = [e EXCEPT !.expires = time + Ttl]
    PROVE  f # NoEntry /\ f.expires = granted'[ETag(f)] /\ ETag(f) = ETag(e)
<1>1. time + Ttl \in Nat /\ e # NoEntry
    BY DEF CacheAssumption, NoneIsNoEntry
<1>2. ETag(e) \in 1..MaxChanges
    BY <1>1 DEF Known
<1>3. f \in Entry /\ ETag(f) = ETag(e) /\ f.expires = time + Ttl
    BY <1>1, ProlongedKnown DEF Entry
<1> QED
    BY <1>2, <1>3 DEF NoneIsNoEntry, Grant, TagsInv

(* A grant takes nothing back.                                             *)
LEMMA GrantKeeps ==
    ASSUME CacheAssumption, time \in Nat, TagsInv, NEW v, Grant(v), NEW e, Known(e), e # NoEntry,
           e.expires \in Nat, e.expires <= granted[ETag(e)]
    PROVE  e.expires <= granted'[ETag(e)]
<1>1. ETag(e) \in 1..MaxChanges /\ granted[ETag(e)] \in Nat /\ granted[ETag(e)] <= time + Ttl
    BY DEF Known, TagsInv
<1>2. granted'[ETag(e)] = IF ETag(e) = v THEN time + Ttl ELSE granted[ETag(e)]
    BY <1>1 DEF Grant, TagsInv
<1> QED
    BY <1>1, <1>2 DEF CacheAssumption

LEMMA QuietStep ==
    ASSUME CacheAssumption, NoneIsNoEntry, HonestInv, TagsInv, QuietInv, [CondNext]_condVars
    PROVE  QuietInv'
<1> USE DEF HonestInv
<1>0. time \in Nat /\ CallsTyped /\ 1 \in PageNumbers /\ Ttl \in Nat
    BY DEF CacheAssumption, PageNumbers, CallsTyped
<1>1. CASE UNCHANGED condVars
    BY <1>1 DEF condVars, callers, history, QuietInv, OneAtATime, IsGranted, CallAlone
<1>2. CASE SecondPasses \/ Publish
    BY <1>2 DEF SecondPasses, Publish, callers, history, QuietInv, OneAtATime, IsGranted, CallAlone
<1>3. CASE Sweep
    BY <1>3 DEF Sweep, callers, history, QuietInv, OneAtATime, IsGranted, CallAlone
<1>4. CASE Restart
    BY <1>4 DEF Restart, QuietInv, OneAtATime, IsGranted, CallAlone, Storing
<1>5. ASSUME NEW c \in Callers, Caller(c) PROVE QuietInv'
    <2>0. disturbed' \in BOOLEAN /\ (~disturbed' => ~disturbed)
        BY <1>5 DEF Caller, LoadHit, ReadFile, Begin, InsertRead, ServeFresh, Ask, NotModified, FetchPage,
            RequestFails, Keep, Touch, TouchReads, TouchRead, CreateFile, WriteFile, WriteFails,
            InsertStored, Respond, history, QuietInv
    <2> SUFFICES ASSUME ~disturbed' 
                 PROVE  /\ OneAtATime'
                        /\ IsGranted(mem)' /\ IsGranted(disk)'
                        /\ ((\A d \in Callers : where[d] \notin Storing) => mem \in {NoEntry, disk})'
                        /\ \A d \in Callers : CallAlone(d)'
        BY <2>0 DEF QuietInv
    <2>1. /\ OneAtATime
          /\ IsGranted(mem) /\ IsGranted(disk)
          /\ (\A d \in Callers : where[d] \notin Storing) => mem \in {NoEntry, disk}
          /\ CallAlone(c)
        BY <2>0 DEF QuietInv
    <2>2. \A d \in Callers \ {c} : where[d] = "idle" /\ where'[d] = "idle"
        <3>1. \A d \in Callers \ {c} : where'[d] = where[d]
            BY <1>5 DEF Caller, LoadHit, ReadFile, InsertRead, ServeFresh, Ask, NotModified, FetchPage,
                RequestFails, Keep, Touch, TouchReads, TouchRead, CreateFile, WriteFile, WriteFails,
                InsertStored, Respond, Ends, Passes, Goto, CallsTyped
        <3>2. CASE where[c] # "idle"
            BY <2>1, <3>1, <3>2 DEF OneAtATime
        <3>3. CASE where[c] = "idle"
            <4>1. Begin(c)
                BY <1>5, <3>3 DEF Caller, LoadHit, ReadFile, InsertRead, ServeFresh, Ask, NotModified,
                    FetchPage, RequestFails, Keep, Touch, TouchReads, TouchRead, CreateFile, WriteFile,
                    WriteFails, InsertStored, Respond, Passes
            <4> QED
                BY <3>1, <4>1 DEF Begin
        <3> QED
            BY <3>2, <3>3
    <2>3. OneAtATime'
        BY <2>2 DEF OneAtATime
    <2>4. \A d \in Callers \ {c} : CallAlone(d)'
        BY <2>2 DEF CallAlone, Storing
    <2>5. where[c] \notin Storing => mem \in {NoEntry, disk}
        BY <2>1, <2>2 DEF Storing
    <2>6. SUFFICES /\ IsGranted(mem)' /\ IsGranted(disk)'
                   /\ where'[c] \notin Storing => mem' \in {NoEntry, disk'}
                   /\ CallAlone(c)'
        BY <2>3, <2>4
    <2>7. CASE LoadHit(c) \/ ReadFile(c) \/ InsertRead(c)
        BY <2>1, <2>5, <2>7 DEF LoadHit, ReadFile, InsertRead, Passes, Goto, CallsTyped, IsGranted, CallAlone, Storing
    <2>8. CASE ServeFresh(c) \/ Ask(c) \/ NotModified(c) \/ FetchPage(c) \/ RequestFails(c) \/ TouchReads(c) \/ Respond(c)
        <3>1. /\ UNCHANGED <<mem, disk, granted>>
              /\ where[c] \notin Storing /\ where'[c] \notin Storing
              /\ \/ where'[c] \in {"idle", "served", "walking", "fetched", "answered"}
                 \/ /\ where[c] \in {"loaded", "asked", "unmodified"} /\ entry'[c] = entry[c]
                    /\ where'[c] \in {"asked", "unmodified"} \/ (where'[c] = "reread" /\ out'[c] = disk)
                    /\ where'[c] # "asked" => entry[c] # NoEntry
            BY <2>1, <2>8 DEF ServeFresh, Ask, NotModified, FetchPage, RequestFails, TouchReads, Respond, Ends,
                Passes, Goto, CallsTyped, Storing, CallAlone
        <3> QED
            BY <2>1, <2>5, <3>1 DEF IsGranted, CallAlone, Storing
    <2>9. ASSUME NEW v, Grant(v), UNCHANGED disk, mem' \in {mem, disk}
          PROVE  IsGranted(mem)' /\ IsGranted(disk)'
        <3>1. mem \in MaybeEntry /\ disk \in MaybeEntry /\ Known(mem) /\ Known(disk)
            BY DEF CallsTyped, TagsInv
        <3>2. ASSUME NEW e \in {mem, disk}, e # NoEntry PROVE e.expires <= granted'[ETag(e)]
            BY <1>0, <2>1, <2>9, <3>1, <3>2, GrantKeeps DEF MaybeEntry, Entry, IsGranted
        <3> QED
            BY <2>9, <3>2 DEF IsGranted, ETag
    <2>10. CASE Keep(c)
        <3>1. reply[c][1] \in 1..MaxChanges /\ Grant(reply[c][1])
            BY <2>10 DEF Keep, Passes, TagsInv
        <3>2. /\ where'[c] = "storing" /\ out'[c].expires = time + Ttl /\ ETag(out'[c]) = reply[c][1]
              /\ granted'[reply[c][1]] = time + Ttl
            BY <2>10, <3>1 DEF Keep, Passes, Goto, CallsTyped, ETag, Grant, TagsInv
        <3>3. out'[c].expires <= granted'[ETag(out'[c])]
            BY <1>0, <3>2
        <3>4. IsGranted(mem)' /\ IsGranted(disk)'
            BY <2>9, <2>10, <3>1 DEF Keep
        <3> QED
            BY <3>2, <3>3, <3>4 DEF IsGranted, CallAlone, Storing, ETag
    <2>11. CASE Touch(c) \/ TouchRead(c)
        <3>1. PICK e \in Entry : /\ Known(e) /\ e = disk /\ e = entry[c]
                                 /\ out'[c] = [e EXCEPT !.expires = time + Ttl]
                                 /\ mem' \in {mem, disk}
            <4>1. CASE Touch(c)
                <5>1. mem \in Entry /\ mem = disk /\ mem = entry[c]
                    BY <2>1, <2>5, <4>1 DEF Touch, Passes, Storing, CallAlone, CallsTyped, MaybeEntry
                <5> QED
                    BY <4>1, <5>1 DEF Touch, CallsTyped, TagsInv
            <4>2. CASE TouchRead(c)
                <5>1. out[c] \in Entry /\ out[c] = disk /\ out[c] = entry[c]
                    BY <2>1, <4>2 DEF TouchRead, Passes, CallAlone, CallsTyped, MaybeEntry
                <5>2. out'[c] = [out[c] EXCEPT !.expires = time + Ttl]
                    BY <4>2 DEF TouchRead, CallsTyped
                <5> QED
                    BY <4>2, <5>1, <5>2 DEF TouchRead, TagsInv
            <4> QED
                BY <2>11, <4>1, <4>2
        <3>2. Grant(ETag(e)) /\ UNCHANGED disk /\ where'[c] = "storing"
            BY <2>11, <3>1 DEF Touch, TouchRead, Passes, Goto, CallsTyped
        <3>3. out'[c].expires = granted'[ETag(out'[c])]
            BY <1>0, <3>1, <3>2, ProlongedGranted
        <3>4. IsGranted(mem)' /\ IsGranted(disk)'
            BY <2>9, <3>1, <3>2
        <3>5. out'[c].expires \in Nat
            BY <1>0, <3>1 DEF Entry
        <3> QED
            BY <3>2, <3>3, <3>4, <3>5 DEF IsGranted, CallAlone, Storing, ETag
    <2>12. CASE CreateFile(c)
        BY <2>1, <2>12 DEF CreateFile, Passes, Goto, CallsTyped, IsGranted, CallAlone, Storing, ETag
    <2>13. CASE WriteFile(c)
        <3>1. ~Overlaps(c)
            BY <2>1, <2>2, <2>13 DEF Overlaps, CallAlone, WriteFile, Passes
        <3>2. disk' = out[c]
            BY <2>13, <3>1 DEF WriteFile
        <3> QED
            BY <2>1, <2>13, <3>2 DEF WriteFile, Passes, Goto, CallsTyped, IsGranted, CallAlone, Storing, ETag
    <2>14. ~WriteFails(c)
        BY DEF WriteFails
    <2>15. CASE InsertStored(c)
        BY <2>1, <2>15 DEF InsertStored, Passes, Goto, CallsTyped, IsGranted, CallAlone, Storing, ETag
    <2> QED
        BY <1>5, <2>7, <2>8, <2>10, <2>11, <2>12, <2>13, <2>14, <2>15 DEF Caller
<1> QED
    BY <1>1, <1>2, <1>3, <1>4, <1>5 DEF CondNext

(* Whoever had to ask the server gets nothing older than that, however     *)
(* calls overlap, fail and restart; and while calls for the key come one   *)
(* after the other and no write fails, through restarts too, no deadline   *)
(* is later than the server allowed for that body and memory agrees with   *)
(* the disk (get_json, get_paged, load, store, touch).                     *)
THEOREM CacheIsHonest ==
    ASSUME CacheAssumption, NoneIsNoEntry
    PROVE  CondSpec => []ConditionalHonest
<1> DEFINE Inv == HonestInv /\ TagsInv /\ QuietInv
<1>1. CacheAssumption /\ NoneIsNoEntry
    OBVIOUS
<1>2. CondInit => Inv
    BY <1>1, HonestBegins, TagsInit, QuietInit
<1>3. Inv /\ [CondNext]_condVars => Inv'
    BY <1>1, TypedStep, CurrentStep, TagsStep, QuietStep DEF HonestInv
<1>4. Inv => ConditionalHonest
    <2> SUFFICES ASSUME Inv PROVE AnsweredIsCurrent /\ FreshIsGranted /\ MemoryIsDisk
        BY DEF ConditionalHonest
    <2>1. AnsweredIsCurrent
        BY DEF HonestInv, HasCurrent, AnsweredIsCurrent
    <2>2. FreshIsGranted /\ MemoryIsDisk
        BY DEF QuietInv, IsGranted, Storing, FreshIsGranted, MemoryIsDisk
    <2> QED
        BY <2>1, <2>2
<1> QED
    BY <1>2, <1>3, <1>4, PTL DEF CondSpec

=============================================================================
