----------------------------- MODULE FeedProofs -----------------------------
(***************************************************************************)
(* Theorems about what is kept up to date in the background.  The readers  *)
(* of the static data export: their caches never answer from an older      *)
(* database however reads and swaps interleave (SdeReaders).  Its update:  *)
(* it leaves one whole dump and an md5 that is not ahead of it, whatever   *)
(* fails (SdeUpdate).  The index of kills: what a prune drops (KillIndex); *)
(* and the stream that fills it: no lease goes missing (ZkillStream).  The *)
(* map of faction warfare: its front, and trends within one occupation     *)
(* however fetches overlap (FactionWarfare).  The router: its answer is    *)
(* a cheapest way, whatever gates, map, hull and question (Routing).       *)
(***************************************************************************)
EXTENDS SdeReaders, SdeUpdate, KillIndex, ZkillStream, FactionWarfare, Routing, StepLemmas,
        SequenceTheorems, FiniteSetTheorems, TLAPS

IInv == ReadersTypeOK /\ NotOlder

LEMMA InitIInv == ReadInit => IInv
BY ReadersAssumption DEF ReadInit, IInv, ReadersTypeOK, NotOlder, PoolNotOlder, SlotNotOlder, ReaderNotOlder

(* A pop takes an element that was there and leaves the others.            *)
LEMMA PopKeeps ==
    ASSUME NEW S, NEW s \in Seq(S), s # <<>>
    PROVE  /\ s[Len(s)] \in S
           /\ Len(s) \in 1..Len(s)
           /\ SubSeq(s, 1, Len(s) - 1) \in Seq(S)
           /\ Len(SubSeq(s, 1, Len(s) - 1)) = Len(s) - 1
           /\ \A i \in 1..(Len(s) - 1) : SubSeq(s, 1, Len(s) - 1)[i] = s[i]
<1>1. Len(s) \in Nat /\ Len(s) # 0
    OBVIOUS
<1>2. Len(s) \in 1..Len(s)
    BY <1>1
<1>3. s[Len(s)] \in S
    BY <1>2, ElementOfSeq
<1>4. \A i \in 1..(Len(s) - 1) : s[i] \in S
    BY <1>1, ElementOfSeq
<1> DEFINE m == 1
           n == Len(s) - 1
<1>5. m = 1 /\ m \in Int /\ n \in Nat /\ n \in Int
    BY <1>1
<1>9. /\ n - m + 1 = n
      /\ (IF m <= n THEN n - m + 1 ELSE 0) = n
      /\ \A i \in 1..n : m + i - 1 = i
    <2> HIDE DEF m, n
    <2>1. n - m + 1 = n
        BY <1>5
    <2>2. CASE m <= n
        BY <1>5, <2>1, <2>2
    <2>3. CASE ~(m <= n)
        BY <1>5, <2>1, <2>3
    <2> QED
        BY <2>2, <2>3
<1>8. \A i \in m..n : s[i] \in S
    BY <1>4
<1>6. /\ SubSeq(s, m, n) \in Seq(S)
      /\ Len(SubSeq(s, m, n)) = IF m <= n THEN n - m + 1 ELSE 0
      /\ \A i \in 1..(n - m + 1) : SubSeq(s, m, n)[i] = s[m + i - 1]
    <2> HIDE DEF m, n
    <2> QED
        BY <1>5, <1>8, SubSeqProperties
<1>7. \A i \in 1..n : SubSeq(s, m, n)[i] = s[i]
    <2> HIDE DEF m, n
    <2> QED
        BY <1>5, <1>6, <1>9
<1> QED
    BY <1>2, <1>3, <1>6, <1>7, <1>9

LEMMA TypeStep == ReadersTypeOK /\ NotOlder /\ [ReadNext]_readVars => ReadersTypeOK'
<1> SUFFICES ASSUME ReadersTypeOK, NotOlder, [ReadNext]_readVars PROVE ReadersTypeOK'
    OBVIOUS
<1>1. CASE UNCHANGED readVars
    BY <1>1 DEF ReadersTypeOK, readVars, readers
<1>2. CASE Swap
    BY <1>2 DEF Swap, ReadersTypeOK, readers
<1>3. ASSUME NEW r \in Readers, Reader(r) PROVE ReadersTypeOK'
    <2>1. CASE Query(r) \/ Lookup(r)
        <3>1. CASE Query(r)
            BY <3>1 DEF Query, Step, ReadersTypeOK
        <3>2. CASE Lookup(r)
            BY <3>2 DEF Lookup, Step, ReadersTypeOK
        <3> QED
            BY <2>1, <3>1, <3>2
    <2>2. CASE Hit(r) \/ Miss(r) \/ Store(r)
        <3>1. CASE Hit(r)
            BY <3>1 DEF Hit, Step, ReadersTypeOK
        <3>2. CASE Miss(r)
            BY <3>2 DEF Miss, Step, ReadersTypeOK
        <3>3. CASE Store(r)
            BY <3>3 DEF Store, Step, ReadersTypeOK
        <3> QED
            BY <2>2, <3>1, <3>2, <3>3
    <2>3. CASE NotInstalled(r) \/ ReadGeneration(r) \/ OpenFails(r) \/ Answer(r)
        <3>1. CASE NotInstalled(r) \/ ReadGeneration(r)
          <4>1. CASE NotInstalled(r)
            BY <4>1 DEF NotInstalled, Step, ReadersTypeOK
          <4>2. CASE ReadGeneration(r)
            BY <4>2 DEF ReadGeneration, Step, ReadersTypeOK
          <4> QED
            BY <3>1, <4>1, <4>2
        <3>2. CASE OpenFails(r) \/ Answer(r)
            BY <3>2 DEF OpenFails, Answer, Step, ReadersTypeOK
        <3> QED
            BY <2>3, <3>1, <3>2
    <2>4. CASE Popped(r)
        <3>1. pool.idle \in Seq(Nat \ {0}) /\ pool.idle # <<>>
            BY <2>4 DEF Popped, ReadersTypeOK
        <3>2. /\ pool.idle[Len(pool.idle)] \in Nat \ {0}
              /\ SubSeq(pool.idle, 1, Len(pool.idle) - 1) \in Seq(Nat \ {0})
            BY <3>1, PopKeeps
        <3> QED
            BY <2>4, <3>2 DEF Popped, Step, ReadersTypeOK
    <2>5. CASE NoneIdle(r)
        BY <2>5 DEF NoneIdle, Step, ReadersTypeOK
    <2>6. CASE Open(r) \/ Read(r)
        <3>1. CASE Open(r)
          BY <3>1 DEF Open, Step, ReadersTypeOK
        <3>2. CASE Read(r)
          BY <3>2 DEF Read, Step, ReadersTypeOK
        <3> QED
          BY <2>6, <3>1, <3>2
    <2>7. CASE HandBack(r)
        <3>1. conn[r] \in Nat \ {0}
            BY <2>7 DEF HandBack, Step, NotOlder, ReaderNotOlder, ReadersTypeOK
        <3>2. Append(pool.idle, conn[r]) \in Seq(Nat \ {0})
            BY <3>1 DEF ReadersTypeOK
        <3> QED
            BY <2>7, <3>2 DEF HandBack, Step, ReadersTypeOK
    <2> QED
        BY <1>3, <2>1, <2>2, <2>3, <2>4, <2>5, <2>6, <2>7 DEF Reader
<1> QED
    BY <1>1, <1>2, <1>3 DEF ReadNext

(* What the pool keeps only changes by a pop, a reset and a return, and a  *)
(* returned connection is no older than its key.                           *)
LEMMA PoolStep == ReadersTypeOK /\ NotOlder /\ [ReadNext]_readVars => PoolNotOlder'
<1> SUFFICES ASSUME ReadersTypeOK, NotOlder, [ReadNext]_readVars PROVE PoolNotOlder'
    OBVIOUS
<1>0. PoolNotOlder /\ pool.idle \in Seq(Nat \ {0}) /\ pool.gen \in Nat /\ installed \in Nat
    BY DEF NotOlder, ReadersTypeOK
<1>1. CASE UNCHANGED pool /\ installed <= installed' /\ installed' \in Nat
    <2>1. \A i \in 1..Len(pool.idle) : pool.idle[i] \in Nat
        BY <1>0
    <2> QED
        BY <1>0, <1>1, <2>1 DEF PoolNotOlder
<1>2. ASSUME NEW r \in Readers, Popped(r) PROVE PoolNotOlder'
    <2>1. /\ Len(SubSeq(pool.idle, 1, Len(pool.idle) - 1)) = Len(pool.idle) - 1
          /\ \A i \in 1..(Len(pool.idle) - 1) : SubSeq(pool.idle, 1, Len(pool.idle) - 1)[i] = pool.idle[i]
        BY <1>0, <1>2, PopKeeps DEF Popped
    <2>2. /\ pool'.gen = pool.gen /\ installed' = installed
          /\ pool'.idle = SubSeq(pool.idle, 1, Len(pool.idle) - 1)
        BY <1>2 DEF Popped, ReadersTypeOK
    <2> QED
        BY <1>0, <2>1, <2>2 DEF PoolNotOlder
<1>3. ASSUME NEW r \in Readers, NoneIdle(r) PROVE PoolNotOlder'
    BY <1>0, <1>3 DEF NoneIdle, PoolNotOlder
<1>4. ASSUME NEW r \in Readers, HandBack(r) PROVE PoolNotOlder'
    <2>1. key[r] <= conn[r] /\ conn[r] <= installed /\ conn[r] \in Nat /\ installed' = installed
        BY <1>4 DEF HandBack, Step, NotOlder, ReaderNotOlder, ReadersTypeOK
    <2>2. CASE pool.gen = key[r]
        <3>1. pool'.gen = pool.gen /\ pool'.idle = Append(pool.idle, conn[r])
            BY <1>4, <2>2 DEF HandBack, ReadersTypeOK
        <3> QED
            BY <1>0, <2>1, <2>2, <3>1 DEF PoolNotOlder
    <2>3. CASE pool.gen # key[r]
        BY <1>0, <1>4, <2>1, <2>3 DEF HandBack, PoolNotOlder
    <2> QED
        BY <2>2, <2>3
<1>5. UNCHANGED readVars \/ Swap => UNCHANGED pool /\ installed <= installed' /\ installed' \in Nat
    BY <1>0 DEF readVars, Swap
<1>6. ASSUME NEW r \in Readers, Reader(r), ~Popped(r), ~NoneIdle(r), ~HandBack(r)
      PROVE  UNCHANGED pool /\ installed <= installed' /\ installed' \in Nat
    BY <1>0, <1>6 DEF Reader, Query, Lookup, Hit, Miss, Store, NotInstalled, ReadGeneration, Open,
        OpenFails, Read, Answer
<1> QED
    BY <1>1, <1>2, <1>3, <1>4, <1>5, <1>6 DEF ReadNext

LEMMA SlotStep == ReadersTypeOK /\ NotOlder /\ [ReadNext]_readVars => SlotNotOlder'
<1> SUFFICES ASSUME ReadersTypeOK, NotOlder, [ReadNext]_readVars PROVE SlotNotOlder'
    OBVIOUS
<1>1. CASE UNCHANGED readVars
    BY <1>1 DEF readVars, NotOlder, SlotNotOlder
<1>2. CASE Swap
    BY <1>2 DEF Swap, NotOlder, SlotNotOlder, ReadersTypeOK
<1>3. ASSUME NEW r \in Readers, Store(r) PROVE SlotNotOlder'
    BY <1>3 DEF Store, Step, NotOlder, ReaderNotOlder, SlotNotOlder, ReadersTypeOK
<1>4. ASSUME NEW r \in Readers, Reader(r), ~Store(r) PROVE UNCHANGED <<slot, installed>>
    BY <1>4 DEF Reader, Query, Lookup, Hit, Miss, NotInstalled, ReadGeneration, Popped, NoneIdle,
        Open, OpenFails, Read, HandBack, Answer
<1> QED
    BY <1>1, <1>2, <1>3, <1>4 DEF ReadNext, NotOlder, SlotNotOlder

(* A reader's step keeps its own part of the invariant, another's cannot   *)
(* touch it, and a swap only makes the installed version newer.            *)
LEMMA ReaderStep ==
    ReadersTypeOK /\ NotOlder /\ [ReadNext]_readVars => \A r \in Readers : ReaderNotOlder(r)'
<1> SUFFICES ASSUME ReadersTypeOK, NotOlder, [ReadNext]_readVars, NEW q \in Readers PROVE ReaderNotOlder(q)'
    OBVIOUS
<1>0. ReaderNotOlder(q)
    BY DEF NotOlder
<1>1. CASE UNCHANGED readVars
    BY <1>0, <1>1 DEF readVars, readers, ReaderNotOlder
<1>2. CASE Swap
    BY <1>0, <1>2 DEF Swap, readers, ReaderNotOlder, ReadersTypeOK
<1>3. ASSUME NEW r \in Readers, Reader(r), r # q PROVE ReaderNotOlder(q)'
    <2>1. /\ UNCHANGED installed
          /\ doing'[q] = doing[q] /\ begun'[q] = begun[q] /\ wanted'[q] = wanted[q] /\ key'[q] = key[q]
          /\ conn'[q] = conn[q] /\ value'[q] = value[q]
        BY <1>3 DEF Reader, Query, Lookup, Hit, Miss, Store, NotInstalled, ReadGeneration, Popped,
            NoneIdle, Open, OpenFails, Read, HandBack, Answer, Step, ReadersTypeOK
    <2> QED
        BY <1>0, <2>1 DEF ReaderNotOlder
<1>4. CASE Query(q) \/ Lookup(q)
    BY <1>0, <1>4 DEF Query, Lookup, Step, ReaderNotOlder, ReadersTypeOK
<1>5. CASE Hit(q)
    BY <1>0, <1>5 DEF Hit, Step, ReaderNotOlder, ReadersTypeOK, NotOlder, SlotNotOlder
<1>6. CASE Miss(q) \/ NotInstalled(q) \/ NoneIdle(q) \/ OpenFails(q) \/ Answer(q)
    BY <1>0, <1>6 DEF Miss, NotInstalled, NoneIdle, OpenFails, Answer, Step, ReaderNotOlder, ReadersTypeOK
<1>7. CASE Store(q)
    BY <1>0, <1>7 DEF Store, Step, ReaderNotOlder, ReadersTypeOK
<1>8. CASE ReadGeneration(q)
    BY <1>0, <1>8 DEF ReadGeneration, Step, ReaderNotOlder, ReadersTypeOK
<1>9. CASE Popped(q)
    <2>1. /\ pool.gen = key[q] /\ pool.idle # <<>> /\ pool.idle \in Seq(Nat \ {0})
          /\ conn'[q] = pool.idle[Len(pool.idle)]
        BY <1>9 DEF Popped, ReadersTypeOK
    <2>2. Len(pool.idle) \in 1..Len(pool.idle) /\ pool.idle[Len(pool.idle)] \in Nat \ {0}
        BY <2>1, PopKeeps
    <2>3. key[q] <= conn'[q] /\ conn'[q] <= installed
        BY <2>1, <2>2 DEF NotOlder, PoolNotOlder
    <2> QED
        BY <1>0, <1>9, <2>3 DEF Popped, Step, ReaderNotOlder, ReadersTypeOK
<1>10. CASE Open(q) \/ Read(q)
    BY <1>0, <1>10 DEF Open, Read, Step, ReaderNotOlder, ReadersTypeOK
<1>11. CASE HandBack(q)
    BY <1>0, <1>11 DEF HandBack, Step, ReaderNotOlder, ReadersTypeOK
<1> QED
    BY <1>1, <1>2, <1>3, <1>4, <1>5, <1>6, <1>7, <1>8, <1>9, <1>10, <1>11 DEF ReadNext, Reader

LEMMA IInvStep == IInv /\ [ReadNext]_readVars => IInv'
BY TypeStep, PoolStep, SlotStep, ReaderStep DEF IInv, NotOlder

LEMMA IInvHolds == ReadSpec => []IInv
BY InitIInv, IInvStep, PTL DEF ReadSpec

(* The variables keep their types.                                         *)
THEOREM TypeCorrect == ReadSpec => []ReadersTypeOK
<1>1. IInv => ReadersTypeOK
    BY DEF IInv
<1> QED
    BY <1>1, IInvHolds, PTL

(* get_or_build and open_from_dir never answer from a database older than  *)
(* the one installed when they were called.                                *)
THEOREM AnswersAreFresh == ReadSpec => []AnswersFresh
<1>1. IInv => AnswersFresh
    BY DEF IInv, NotOlder, ReaderNotOlder, AnswersFresh
<1> QED
    BY <1>1, IInvHolds, PTL

(* What the pool and the slot keep for the installed generation is of it.  *)
THEOREM KeptAreCurrent == ReadSpec => []KeptIsCurrent
<1>1. IInv => KeptIsCurrent
    BY DEF IInv, NotOlder, PoolNotOlder, SlotNotOlder, ReadersTypeOK, KeptIsCurrent
<1> QED
    BY <1>1, IInvHolds, PTL

-----------------------------------------------------------------------------
(* The refinement: a reader of the abstract specification is idle, has     *)
(* asked, or is answered.                                                  *)

States == [r \in Readers |-> IF doing[r] \in {"idle", "answered"} THEN doing[r] ELSE "asked"]
Since == [r \in Readers |-> IF doing[r] = "idle" THEN 0 ELSE begun[r]]
Answers == [r \in Readers |-> IF doing[r] = "answered" THEN value[r] ELSE 0]

LEMMA PromiseInit == ReadInit => Promise!Init
BY DEF ReadInit, Promise!Init

(* A step that changes nothing a client sees.                              *)
LEMMA Unseen ==
    ASSUME UNCHANGED <<installed, States, Since, Answers>>
    PROVE  UNCHANGED Promise!vars
BY DEF States, Since, Answers, Promise!vars

(* A step of one reader leaves what the others see.                        *)
LEMMA OthersKept ==
    ASSUME ReadersTypeOK, NEW r \in Readers, Reader(r)
    PROVE  /\ UNCHANGED installed
           /\ States' = [States EXCEPT ![r] = States'[r]]
           /\ Since' = [Since EXCEPT ![r] = Since'[r]]
           /\ Answers' = [Answers EXCEPT ![r] = Answers'[r]]
<1>1. /\ UNCHANGED installed
      /\ \A q \in Readers \ {r} : doing'[q] = doing[q] /\ begun'[q] = begun[q] /\ value'[q] = value[q]
    BY DEF Reader, Query, Lookup, Hit, Miss, Store, NotInstalled, ReadGeneration, Popped, NoneIdle,
        Open, OpenFails, Read, HandBack, Answer, Step, ReadersTypeOK
<1> QED
    BY <1>1 DEF States, Since, Answers

LEMMA PromiseStep == IInv /\ IInv' /\ [ReadNext]_readVars => [Promise!Next]_(Promise!vars)
<1> SUFFICES ASSUME IInv, IInv', [ReadNext]_readVars PROVE [Promise!Next]_(Promise!vars)
    OBVIOUS
<1>0. ReadersTypeOK /\ NotOlder /\ ReadersTypeOK' /\ NotOlder'
    BY DEF IInv
<1>1. CASE UNCHANGED readVars
    BY <1>1, Unseen DEF readVars, readers, States, Since, Answers
<1>2. CASE Swap
    <2>1. Promise!Replace
        BY <1>2 DEF Swap, readers, Promise!Replace
    <2> QED
        BY <2>1 DEF Promise!Next
<1>3. ASSUME NEW r \in Readers, Reader(r) PROVE [Promise!Next]_(Promise!vars)
    <2>0. /\ UNCHANGED installed
          /\ States' = [States EXCEPT ![r] = States'[r]]
          /\ Since' = [Since EXCEPT ![r] = Since'[r]]
          /\ Answers' = [Answers EXCEPT ![r] = Answers'[r]]
        BY <1>0, <1>3, OthersKept
    <2>1. CASE Query(r) \/ Lookup(r)
        <3>1. /\ States[r] = "idle" /\ States'[r] = "asked"
              /\ Since'[r] = installed /\ Answers'[r] = Answers[r]
            BY <1>0, <2>1 DEF Query, Lookup, Step, ReadersTypeOK, States, Since, Answers
        <3>2. Promise!Ask(r)
            BY <2>0, <3>1 DEF Promise!Ask, States, Since, Answers
        <3> QED
            BY <3>2 DEF Promise!Next
    <2>2. CASE Hit(r) \/ Store(r) \/ (HandBack(r) /\ wanted[r] = 0)
        <3>1. /\ States[r] = "asked" /\ States'[r] = "answered" /\ Since'[r] = Since[r]
              /\ doing[r] # "idle" /\ doing'[r] = "answered" /\ begun'[r] = begun[r]
            BY <1>0, <2>2 DEF Hit, Store, HandBack, Step, ReadersTypeOK, States, Since
        <3>2. /\ begun'[r] <= value'[r] /\ value'[r] <= installed' /\ value'[r] \in Nat
              /\ begun[r] \in Nat /\ installed \in Nat
            BY <1>0, <3>1 DEF NotOlder, ReaderNotOlder, ReadersTypeOK
        <3>3. Answers'[r] \in Since[r] .. installed
            BY <2>0, <3>1, <3>2 DEF Answers, Since
        <3>4. Promise!Reply(r)
            BY <2>0, <3>1, <3>3, ZenonT(40) DEF Promise!Reply, States, Since, Answers
        <3> QED
            BY <3>4 DEF Promise!Next
    <2>3. CASE NotInstalled(r) \/ OpenFails(r) \/ Answer(r)
        <3>1. States[r] # "idle" /\ States'[r] = "idle" /\ Since'[r] = 0 /\ Answers'[r] = 0
            BY <1>0, <2>3 DEF NotInstalled, OpenFails, Answer, Step, ReadersTypeOK, States, Since, Answers
        <3>2. Promise!Leave(r)
            BY <2>0, <3>1 DEF Promise!Leave, States, Since, Answers
        <3> QED
            BY <3>2 DEF Promise!Next
    <2>4. CASE \/ Miss(r) \/ ReadGeneration(r) \/ Popped(r) \/ NoneIdle(r) \/ Open(r) \/ Read(r)
               \/ (HandBack(r) /\ wanted[r] # 0)
        <3>1. States'[r] = States[r] /\ Since'[r] = Since[r] /\ Answers'[r] = Answers[r]
            BY <1>0, <2>4 DEF Miss, ReadGeneration, Popped, NoneIdle, Open, Read, HandBack, Step, ReadersTypeOK,
                States, Since, Answers
        <3>2. States' = States
            BY <2>0, <3>1 DEF States
        <3>3. Since' = Since
            BY <2>0, <3>1 DEF Since
        <3>4. Answers' = Answers
            BY <2>0, <3>1 DEF Answers
        <3> QED
            BY <2>0, <3>2, <3>3, <3>4, Unseen
    <2> QED
        BY <1>3, <2>1, <2>2, <2>3, <2>4 DEF Reader
<1> QED
    BY <1>1, <1>2, <1>3 DEF ReadNext

(* The pool and the slots implement the promise of FreshReads: every       *)
(* answer is computed from a database installed while it was asked for.    *)
THEOREM ReadsAreFresh == ReadSpec => ReadsFresh
BY PromiseInit, PromiseStep, IInvHolds, PTL DEF ReadSpec, ReadsFresh, Promise!Spec

-----------------------------------------------------------------------------
(* The size of the pool                                                    *)

Users == {r \in Readers : UsesPool(r)}

LEMMA UsersFinite ==
    ASSUME IsFiniteSet(Readers)
    PROVE  /\ IsFiniteSet(Users) /\ Cardinality(Users) \in Nat /\ Cardinality(Readers) \in Nat
           /\ Cardinality(Users) <= Cardinality(Readers)
BY FS_Subset, FS_CardinalityType DEF Users

(* Who takes a connection from the pool becomes one of its users, and who  *)
(* leaves them gives at most one back.                                     *)
LEMMA PoolStepSizes ==
    ASSUME IsFiniteSet(Readers), IInv, PoolSelfSizes, [ReadNext]_readVars
    PROVE  PoolSelfSizes'
<1> USE DEF IInv, ReadersTypeOK
<1>0. pool.idle \in Seq(Nat \ {0}) /\ Len(pool.idle) \in Nat
    OBVIOUS
<1>1. /\ IsFiniteSet(Users) /\ Cardinality(Users) \in Nat /\ Cardinality(Readers) \in Nat
      /\ Len(pool.idle) + Cardinality(Users) <= Cardinality(Readers)
    BY UsersFinite DEF PoolSelfSizes, Users
<1>2. /\ IsFiniteSet(Users') /\ Cardinality(Users') \in Nat
      /\ Cardinality(Users') <= Cardinality(Readers)
    <2>1. Users' \subseteq Readers
        BY DEF Users
    <2> QED
        BY <2>1, FS_Subset, FS_CardinalityType
<1>3. ASSUME Len(pool'.idle) + Cardinality(Users') <= Cardinality(Readers) PROVE PoolSelfSizes'
    BY <1>3 DEF PoolSelfSizes, Users
<1>4. CASE Users' = Users /\ pool' = pool
    BY <1>1, <1>3, <1>4
<1>5. CASE UNCHANGED readVars \/ Swap
    <2>1. Users' = Users /\ pool' = pool
        BY <1>5 DEF readVars, readers, Swap, Users, UsesPool
    <2> QED
        BY <1>4, <2>1
<1>6. ASSUME NEW r \in Readers, Reader(r) PROVE PoolSelfSizes'
    <2>0. \A q \in Readers \ {r} : doing'[q] = doing[q] /\ key'[q] = key[q]
        BY <1>6 DEF Reader, Query, Lookup, Hit, Miss, Store, NotInstalled, ReadGeneration, Popped,
            NoneIdle, Open, OpenFails, Read, HandBack, Answer, Step
    <2>1. CASE \/ Query(r) \/ Lookup(r) \/ Hit(r) \/ Miss(r) \/ Store(r) \/ NotInstalled(r)
               \/ ReadGeneration(r) \/ Answer(r) \/ Open(r) \/ Read(r)
        <3>1. pool' = pool /\ (UsesPool(r)' <=> UsesPool(r))
            BY <2>1 DEF Query, Lookup, Hit, Miss, Store, NotInstalled, ReadGeneration, Answer, Open, Read,
                Step, UsesPool
        <3>2. Users' = Users
            BY <2>0, <3>1 DEF Users, UsesPool
        <3> QED
            BY <1>4, <3>1, <3>2
    <2>2. CASE Popped(r)
        <3>1. /\ pool'.gen = pool.gen /\ pool'.idle = SubSeq(pool.idle, 1, Len(pool.idle) - 1)
              /\ pool.idle # <<>> /\ ~UsesPool(r) /\ UsesPool(r)'
            BY <2>2 DEF Popped, Step, UsesPool
        <3>2. Len(pool'.idle) = Len(pool.idle) - 1
            BY <1>0, <3>1, PopKeeps
        <3>3. Users' = Users \cup {r} /\ r \notin Users
            BY <2>0, <3>1, ZenonT(40) DEF Users, UsesPool
        <3>4. Cardinality(Users') = Cardinality(Users) + 1
            BY <1>1, <3>3, FS_AddElement
        <3> QED
            BY <1>0, <1>1, <1>2, <1>3, <3>2, <3>4
    <2>3. CASE NoneIdle(r)
        <3>1. pool'.idle = <<>>
            BY <2>3 DEF NoneIdle
        <3>2. Len(pool'.idle) = 0
            BY <3>1
        <3> QED
            BY <1>1, <1>2, <1>3, <3>2
    <2>4. CASE OpenFails(r)
        <3>1. pool' = pool /\ ~UsesPool(r)'
            BY <2>4 DEF OpenFails, Step, UsesPool
        <3>2. Users' \subseteq Users
            BY <2>0, <3>1 DEF Users, UsesPool
        <3>3. Cardinality(Users') <= Cardinality(Users)
            BY <1>1, <3>2, FS_Subset
        <3> QED
            BY <1>0, <1>1, <1>2, <1>3, <3>1, <3>3
    <2>5. CASE HandBack(r) /\ pool.gen = key[r]
        <3>1. /\ pool'.gen = pool.gen /\ pool'.idle = Append(pool.idle, conn[r])
              /\ UsesPool(r) /\ ~UsesPool(r)'
            BY <2>5 DEF HandBack, Step, UsesPool
        <3>2. Len(pool'.idle) = Len(pool.idle) + 1
            BY <1>0, <3>1
        <3>3. Users' = Users \ {r} /\ r \in Users
            BY <2>0, <3>1 DEF Users, UsesPool
        <3>4. Cardinality(Users') = Cardinality(Users) - 1
            BY <1>1, <3>3, FS_RemoveElement
        <3> QED
            BY <1>0, <1>1, <1>2, <1>3, <3>2, <3>4
    <2>6. CASE HandBack(r) /\ pool.gen # key[r]
        <3>1. pool' = pool /\ ~UsesPool(r) /\ ~UsesPool(r)'
            BY <2>6 DEF HandBack, Step, UsesPool
        <3>2. Users' = Users
            BY <2>0, <3>1 DEF Users, UsesPool
        <3> QED
            BY <1>4, <3>1, <3>2
    <2> QED
        BY <1>6, <2>1, <2>2, <2>3, <2>4, <2>5, <2>6 DEF Reader
<1> QED
    BY <1>5, <1>6 DEF ReadNext

(* "the pool self-sizes to whatever concurrency actually happens": it      *)
(* never keeps more connections than there were readers at once.           *)
THEOREM PoolBounded ==
    ASSUME IsFiniteSet(Readers)
    PROVE  ReadSpec => []PoolSelfSizes
<1>1. IsFiniteSet(Readers)
    OBVIOUS
<1>2. ReadInit => PoolSelfSizes
    <2> SUFFICES ASSUME ReadInit PROVE PoolSelfSizes
        OBVIOUS
    <2>1. {r \in Readers : UsesPool(r)} = {} /\ pool.idle = <<>>
        BY DEF ReadInit, UsesPool
    <2>2. Cardinality({}) = 0 /\ Cardinality(Readers) \in Nat
        BY <1>1, FS_EmptySet, FS_CardinalityType
    <2>3. Len(pool.idle) = 0
        BY <2>1
    <2>4. Cardinality({r \in Readers : UsesPool(r)}) = 0
        BY <2>1, <2>2, Zenon
    <2> QED
        BY <2>2, <2>3, <2>4 DEF PoolSelfSizes
<1>3. IInv /\ PoolSelfSizes /\ [ReadNext]_readVars => PoolSelfSizes'
    BY <1>1, PoolStepSizes
<1> QED
    BY <1>2, <1>3, IInvHolds, PTL DEF ReadSpec

-----------------------------------------------------------------------------
(* The updates of the static data                                          *)

Paths == Files \cup {None}

UpdateTypeOK ==
    /\ published \in Nat /\ sidecar \in Nat
    /\ archive \in Paths /\ partial \in Paths /\ db \in Paths
    /\ content \in [Files -> [dump : Nat, whole : BOOLEAN, by : Updates \cup {None}]]
    /\ stage \in [Updates -> {"idle", "asked", "asking", "answered", "streaming", "archived",
                           "decompressing", "decompressed", "verified", "swapped", "recording"}]
    /\ remote \in [Updates -> Nat] /\ fetched \in [Updates -> Nat]
    /\ out \in [Updates -> Paths] /\ source \in [Updates -> Paths]

(* The three paths are three files.                                        *)
PathsApart ==
    /\ archive # None => archive # partial /\ archive # db
    /\ partial # None => partial # db

(* What an update reads and writes is at the paths, and of one dump.       *)
OnItsWay(u) ==
    /\ stage[u] = "streaming" =>
          /\ archive # None /\ out[u] = archive
          /\ content[archive].dump = fetched[u] /\ content[archive].by = u
    /\ stage[u] = "archived" => archive # None /\ content[archive].dump = fetched[u]
    /\ stage[u] = "decompressing" =>
          /\ archive # None /\ source[u] = archive /\ content[archive].dump = fetched[u]
          /\ partial # None /\ out[u] = partial
          /\ content[partial].dump = fetched[u] /\ content[partial].by = u
    /\ stage[u] \in {"decompressed", "verified"} =>
          partial # None /\ content[partial].whole /\ content[partial].dump = fetched[u]

(* The md5 was read before the dump, and the recorded one before that.     *)
NotAhead(u) ==
    /\ remote[u] <= published /\ fetched[u] <= published
    /\ stage[u] \in {"answered", "streaming", "archived", "decompressing", "decompressed", "verified"} =>
          remote[u] <= fetched[u] /\ sidecar <= fetched[u]
    /\ stage[u] \in {"swapped", "recording"} => db # None /\ remote[u] <= content[db].dump

(* No other update downloads beside one that does.                         *)
Alone == \A u, v \in Updates : Downloads(u) /\ Downloads(v) => u = v

UpdateInv ==
    /\ UpdateTypeOK
    /\ Alone
    /\ PathsApart
    /\ sidecar <= published
    /\ DatabaseWhole
    /\ SidecarNotAhead
    /\ \A u \in Updates : OnItsWay(u) /\ NotAhead(u)

LEMMA IdleIsSound ==
    ASSUME NEW u \in Updates, stage[u] = "idle", remote[u] = 0, fetched[u] = 0, published = 1
    PROVE  OnItsWay(u) /\ NotAhead(u)
BY DEF OnItsWay, NotAhead

LEMMA UpdateInvInit == ASSUME NoneIsNoFile PROVE UpdateInit => UpdateInv
<1> SUFFICES ASSUME UpdateInit PROVE UpdateInv
    OBVIOUS
<1> USE DEF UpdateInit, NoneIsNoFile, Paths, Blank, None
<1>1. UpdateTypeOK
    <2>1. CASE db = None /\ content = [f \in Files |-> Blank] /\ sidecar = 0
        BY <2>1 DEF UpdateTypeOK
    <2>2. CASE /\ db \in Files /\ sidecar = 1
               /\ content = [f \in Files |-> IF f = db THEN [dump |-> 1, whole |-> TRUE, by |-> None] ELSE Blank]
        <3>1. \A f \in Files : content[f] \in [dump : Nat, whole : BOOLEAN, by : Updates \cup {None}]
            BY <2>2
        <3> QED
            BY <2>2, <3>1 DEF UpdateTypeOK
    <2> QED
        BY <2>1, <2>2
<1>2. DatabaseWhole /\ SidecarNotAhead
    <2>1. CASE db # None
        <3>1. content[db] = [dump |-> 1, whole |-> TRUE, by |-> None] /\ sidecar = 1
            BY <2>1
        <3>2. content[db].whole /\ content[db].dump = 1
            BY <3>1
        <3> QED
            BY <3>1, <3>2 DEF DatabaseWhole, SidecarNotAhead
    <2> QED
        BY <2>1 DEF DatabaseWhole, SidecarNotAhead
<1>3. PathsApart /\ sidecar <= published
    BY DEF PathsApart
<1>4. \A u \in Updates : OnItsWay(u) /\ NotAhead(u)
    BY IdleIsSound
<1>5. Alone
    BY DEF Alone, Downloads
<1> QED
    BY <1>1, <1>2, <1>3, <1>4, <1>5 DEF UpdateInv

-----------------------------------------------------------------------------
(* Files                                                                   *)

(* Filling a file that only u writes makes it whole.                       *)
LEMMA FillIsWhole ==
    ASSUME UpdateTypeOK, NEW u \in Updates, NEW f \in Files, NEW dump \in Nat,
           content[f].dump = dump, content[f].by = u, Fill(f, u, dump)
    PROVE  /\ content'[f] = [dump |-> dump, whole |-> TRUE, by |-> u]
           /\ \A g \in Files \ {f} : content'[g] = content[g]
           /\ content' \in [Files -> [dump : Nat, whole : BOOLEAN, by : Updates \cup {None}]]
<1>1. content' = [content EXCEPT ![f] = [dump |-> dump, whole |-> TRUE, by |-> u]]
    <2>1. (content[f].dump = dump /\ (content[f].by = u \/ content[f].whole)) = TRUE
        OBVIOUS
    <2> QED
        BY <2>1 DEF Fill
<1> QED
    BY <1>1 DEF UpdateTypeOK

LEMMA TruncateIsOwn ==
    ASSUME UpdateTypeOK, NEW u \in Updates, NEW f \in Files, NEW dump \in Nat, Truncate(f, u, dump)
    PROVE  /\ content'[f] = [dump |-> dump, whole |-> FALSE, by |-> u]
           /\ \A g \in Files \ {f} : content'[g] = content[g]
           /\ content' \in [Files -> [dump : Nat, whole : BOOLEAN, by : Updates \cup {None}]]
BY DEF Truncate, UpdateTypeOK

(* A path that is created anew is not one of the others.                   *)
LEMMA CreatedApart ==
    ASSUME UpdateTypeOK, NEW p \in {archive, partial}, NEW f \in CreatedAt(p)
    PROVE  f \in Files /\ (p # None => f = p) /\ (p = None => f \notin {archive, partial, db})
BY DEF CreatedAt, InUse, UpdateTypeOK, Paths

-----------------------------------------------------------------------------
(* The steps                                                               *)

(* While u downloads, any other update only looks whether it should, and a *)
(* step of u leaves it where it was.                                       *)
LEMMA OthersRest ==
    ASSUME UpdateInv, NEW u \in Updates, Downloads(u),
           \A v \in Updates \ {u} : stage'[v] = stage[v] /\ remote'[v] = remote[v] /\ fetched'[v] = fetched[v],
           published' = published
    PROVE  Alone' /\ \A v \in Updates \ {u} : OnItsWay(v)' /\ NotAhead(v)'
<1>1. \A v \in Updates \ {u} : stage[v] \in {"idle", "asked"}
    BY DEF UpdateInv, Alone, Downloads
<1>2. Alone'
    BY <1>1 DEF Alone, Downloads
<1>3. ASSUME NEW v \in Updates \ {u} PROVE OnItsWay(v)' /\ NotAhead(v)'
    BY <1>1 DEF UpdateInv, OnItsWay, NotAhead
<1> QED
    BY <1>2, <1>3

(* Steps that leave paths and content, of any update there may be.         *)
LEMMA AroundFiles ==
    ASSUME UpdateInv, NEW u \in Updates, ~overlapped',
           \/ ReadRemote(u) \/ RemoteUnknown(u) \/ Decide(u, FALSE) \/ Decide(u, TRUE) \/ Get(u)
           \/ Verified(u) \/ Fails(u)
    PROVE  UpdateInv'
<1> USE DEF UpdateInv, UpdateTypeOK, paths
<1>0. UNCHANGED <<published, archive, partial, db, content, sidecar>>
    BY DEF ReadRemote, RemoteUnknown, Decide, Get, Verified, Fails
<1>1. /\ stage' = [stage EXCEPT ![u] = stage'[u]] /\ remote' = [remote EXCEPT ![u] = remote'[u]]
      /\ fetched' = [fetched EXCEPT ![u] = fetched'[u]]
      /\ out' = [out EXCEPT ![u] = out'[u]] /\ source' = [source EXCEPT ![u] = source'[u]]
    BY DEF ReadRemote, RemoteUnknown, Decide, Get, Verified, Fails, Stage, StageTo, Returned
<1>2. \/ stage'[u] \in {"idle", "asked"} /\ remote'[u] \in {0, published} /\ fetched'[u] \in {0, fetched[u]}
         /\ out'[u] \in {None, out[u]} /\ source'[u] \in {None, source[u]}
      \/ /\ stage[u] = "asked" /\ stage'[u] = "asking" /\ remote'[u] = remote[u] /\ fetched'[u] = fetched[u]
         /\ out'[u] = out[u] /\ source'[u] = source[u]
      \/ /\ stage[u] = "asking" /\ stage'[u] = "answered" /\ remote'[u] = remote[u] /\ fetched'[u] = published
         /\ out'[u] = out[u] /\ source'[u] = source[u]
      \/ /\ stage[u] = "decompressed" /\ stage'[u] = "verified" /\ remote'[u] = remote[u] /\ fetched'[u] = fetched[u]
         /\ out'[u] = out[u] /\ source'[u] = source[u]
    BY DEF ReadRemote, RemoteUnknown, Decide, Get, Verified, Fails, Stage, StageTo, Returned
<1>3. UpdateTypeOK'
    BY <1>0, <1>1, <1>2 DEF Paths
<1>4. OnItsWay(u)' /\ NotAhead(u)'
    BY <1>0, <1>2 DEF OnItsWay, NotAhead
<1>5. \A v \in Updates \ {u} :
        /\ stage'[v] = stage[v] /\ remote'[v] = remote[v] /\ fetched'[v] = fetched[v]
        /\ out'[v] = out[v] /\ source'[v] = source[v]
    BY <1>1
<1>6. \A v \in Updates \ {u} : OnItsWay(v)' /\ NotAhead(v)'
    BY <1>0, <1>5 DEF OnItsWay, NotAhead
<1>7. Alone'
    <2>1. CASE stage[u] = "asked" /\ stage'[u] = "asking"
        <3>1. Decide(u, FALSE) \/ Decide(u, TRUE)
            BY <2>1 DEF ReadRemote, RemoteUnknown, Get, Verified, Fails, Stage, StageTo, Downloads
        <3>2. PICK force \in BOOLEAN : Decide(u, force)
            BY <3>1
        <3>3. NeedsDownload(u, force)
            BY <2>1, <3>2 DEF Decide, StageTo
        <3>4. \A v \in Updates \ {u} : ~Downloads(v)
            BY <3>2, <3>3 DEF Decide
        <3> QED
            BY <1>5, <3>4 DEF Alone, Downloads
    <2>2. CASE ~(stage[u] = "asked" /\ stage'[u] = "asking")
        <3>1. stage'[u] \notin {"idle", "asked"} => Downloads(u)
            BY <1>2, <2>2 DEF Downloads
        <3> QED
            BY <1>5, <3>1 DEF Alone, Downloads
    <2> QED
        BY <2>1, <2>2
<1> QED
    BY <1>0, <1>3, <1>4, <1>6, <1>7 DEF PathsApart, DatabaseWhole, SidecarNotAhead

LEMMA CreateArchiveStep == ASSUME NoneIsNoFile, UpdateInv, NEW u \in Updates, CreateArchive(u) PROVE UpdateInv'
<1> USE DEF UpdateInv
<1>1. PICK f \in CreatedAt(archive) :
        archive' = f /\ out' = [out EXCEPT ![u] = f] /\ Truncate(f, u, fetched[u])
    BY DEF CreateArchive
<1>2. f \in Files /\ f \notin {partial, db}
    BY <1>1, CreatedApart DEF PathsApart, UpdateTypeOK, Paths, NoneIsNoFile
<1>3. fetched[u] \in Nat
    BY DEF UpdateTypeOK
<1>4. /\ content'[f] = [dump |-> fetched[u], whole |-> FALSE, by |-> u]
      /\ \A g \in Files \ {f} : content'[g] = content[g]
      /\ content' \in [Files -> [dump : Nat, whole : BOOLEAN, by : Updates \cup {None}]]
    BY <1>1, <1>2, <1>3, TruncateIsOwn
<1>5. /\ UNCHANGED <<published, partial, db, sidecar, remote, fetched, source>>
      /\ stage[u] = "answered" /\ stage' = [stage EXCEPT ![u] = "streaming"]
    BY DEF CreateArchive, Stage, StageTo
<1>6. UpdateTypeOK'
    BY <1>1, <1>2, <1>4, <1>5 DEF UpdateTypeOK, Paths
<1>7. PathsApart' /\ DatabaseWhole' /\ SidecarNotAhead'
    BY <1>1, <1>2, <1>4, <1>5 DEF PathsApart, DatabaseWhole, SidecarNotAhead, UpdateTypeOK, Paths
<1>8. archive' # None
    BY <1>1, <1>2 DEF NoneIsNoFile
<1>9. OnItsWay(u)' /\ NotAhead(u)'
    BY <1>1, <1>4, <1>5, <1>8 DEF OnItsWay, NotAhead, UpdateTypeOK
<1>10. Alone' /\ \A v \in Updates \ {u} : OnItsWay(v)' /\ NotAhead(v)'
    BY <1>5, OthersRest DEF UpdateTypeOK, Downloads
<1> QED
    BY <1>5, <1>6, <1>7, <1>9, <1>10

LEMMA DownloadedStep == ASSUME NoneIsNoFile, UpdateInv, NEW u \in Updates, Downloaded(u) PROVE UpdateInv'
<1> USE DEF UpdateInv
<1>1. /\ stage[u] = "streaming" /\ stage' = [stage EXCEPT ![u] = "archived"]
      /\ out' = [out EXCEPT ![u] = None] /\ Fill(archive, u, fetched[u])
      /\ UNCHANGED <<published, archive, partial, db, sidecar, remote, fetched, source>>
    BY DEF Downloaded, Stage, StageTo, OnItsWay, paths
<1>2. archive \in Files /\ archive # partial /\ archive # db /\ archive # None
    BY <1>1 DEF OnItsWay, PathsApart, UpdateTypeOK, Paths
<1>3. /\ content'[archive] = [dump |-> fetched[u], whole |-> TRUE, by |-> u]
      /\ \A g \in Files \ {archive} : content'[g] = content[g]
      /\ content' \in [Files -> [dump : Nat, whole : BOOLEAN, by : Updates \cup {None}]]
    BY <1>1, <1>2, FillIsWhole DEF OnItsWay, UpdateTypeOK
<1>4. UpdateTypeOK'
    BY <1>1, <1>3 DEF UpdateTypeOK, Paths
<1>5. PathsApart' /\ DatabaseWhole' /\ SidecarNotAhead'
    BY <1>1, <1>2, <1>3 DEF PathsApart, DatabaseWhole, SidecarNotAhead, UpdateTypeOK, Paths
<1>6. OnItsWay(u)' /\ NotAhead(u)'
    BY <1>1, <1>2, <1>3 DEF OnItsWay, NotAhead, UpdateTypeOK
<1>7. Alone' /\ \A v \in Updates \ {u} : OnItsWay(v)' /\ NotAhead(v)'
    BY <1>1, OthersRest DEF UpdateTypeOK, Downloads
<1> QED
    BY <1>1, <1>4, <1>5, <1>6, <1>7

LEMMA OpenArchiveStep == ASSUME NoneIsNoFile, UpdateInv, NEW u \in Updates, OpenArchive(u) PROVE UpdateInv'
<1> USE DEF UpdateInv
<1>1. PICK f \in CreatedAt(partial) :
        partial' = f /\ out' = [out EXCEPT ![u] = f] /\ Truncate(f, u, content[archive].dump)
    BY DEF OpenArchive
<1>2. /\ UNCHANGED <<published, archive, db, sidecar, remote, fetched>>
      /\ stage[u] = "archived" /\ stage' = [stage EXCEPT ![u] = "decompressing"]
      /\ archive # None /\ source' = [source EXCEPT ![u] = archive]
      /\ content[archive].dump = fetched[u] /\ fetched[u] \in Nat
    BY DEF OpenArchive, Stage, StageTo, OnItsWay, UpdateTypeOK
<1>3. f \in Files /\ f \notin {archive, db} /\ archive \in Files
    BY <1>1, <1>2, CreatedApart DEF PathsApart, UpdateTypeOK, Paths, NoneIsNoFile
<1>4. /\ content'[f] = [dump |-> fetched[u], whole |-> FALSE, by |-> u]
      /\ \A g \in Files \ {f} : content'[g] = content[g]
      /\ content' \in [Files -> [dump : Nat, whole : BOOLEAN, by : Updates \cup {None}]]
    BY <1>1, <1>2, <1>3, TruncateIsOwn
<1>5. UpdateTypeOK'
    BY <1>1, <1>2, <1>3, <1>4 DEF UpdateTypeOK, Paths
<1>6. PathsApart' /\ DatabaseWhole' /\ SidecarNotAhead'
    BY <1>1, <1>2, <1>3, <1>4 DEF PathsApart, DatabaseWhole, SidecarNotAhead, UpdateTypeOK, Paths
<1>7. partial' # None
    BY <1>1, <1>3 DEF NoneIsNoFile
<1>8. OnItsWay(u)' /\ NotAhead(u)'
    BY <1>1, <1>2, <1>3, <1>4, <1>7 DEF OnItsWay, NotAhead, UpdateTypeOK
<1>9. Alone' /\ \A v \in Updates \ {u} : OnItsWay(v)' /\ NotAhead(v)'
    BY <1>2, OthersRest DEF UpdateTypeOK, Downloads
<1> QED
    BY <1>2, <1>5, <1>6, <1>8, <1>9

LEMMA DecompressedStep == ASSUME NoneIsNoFile, UpdateInv, NEW u \in Updates, Decompressed(u) PROVE UpdateInv'
<1> USE DEF UpdateInv
<1>1. /\ stage[u] = "decompressing" /\ stage' = [stage EXCEPT ![u] = "decompressed"]
      /\ out' = [out EXCEPT ![u] = None] /\ source' = [source EXCEPT ![u] = None]
      /\ Fill(partial, u, fetched[u])
      /\ UNCHANGED <<published, archive, partial, db, sidecar, remote, fetched>>
    BY DEF Decompressed, Stage, StageTo, OnItsWay, paths
<1>2. partial \in Files /\ partial # archive /\ partial # db /\ partial # None
    BY <1>1 DEF OnItsWay, PathsApart, UpdateTypeOK, Paths
<1>3. /\ content'[partial] = [dump |-> fetched[u], whole |-> TRUE, by |-> u]
      /\ \A g \in Files \ {partial} : content'[g] = content[g]
      /\ content' \in [Files -> [dump : Nat, whole : BOOLEAN, by : Updates \cup {None}]]
    BY <1>1, <1>2, FillIsWhole DEF OnItsWay, UpdateTypeOK
<1>4. UpdateTypeOK'
    BY <1>1, <1>3 DEF UpdateTypeOK, Paths
<1>5. PathsApart' /\ DatabaseWhole' /\ SidecarNotAhead'
    BY <1>1, <1>2, <1>3 DEF PathsApart, DatabaseWhole, SidecarNotAhead, UpdateTypeOK, Paths
<1>6. OnItsWay(u)' /\ NotAhead(u)'
    BY <1>1, <1>2, <1>3 DEF OnItsWay, NotAhead, UpdateTypeOK
<1>7. Alone' /\ \A v \in Updates \ {u} : OnItsWay(v)' /\ NotAhead(v)'
    BY <1>1, OthersRest DEF UpdateTypeOK, Downloads
<1> QED
    BY <1>1, <1>4, <1>5, <1>6, <1>7

(* The rename, the removal of the archive and the recording of the md5.    *)
LEMMA SwapStep ==
    ASSUME NoneIsNoFile, UpdateInv, NEW u \in Updates,
           SwapDatabase(u) \/ RemoveArchive(u) \/ Record(u) \/ RecordFails(u)
    PROVE  UpdateInv'
<1> USE DEF UpdateInv, Stage, StageTo
<1>1. UNCHANGED <<published, content, out, source>>
    BY DEF SwapDatabase, RemoveArchive, Record, RecordFails, paths
<1>2. Alone' /\ \A v \in Updates \ {u} : OnItsWay(v)' /\ NotAhead(v)'
    <2>1. Downloads(u)
        BY DEF SwapDatabase, RemoveArchive, Record, RecordFails, Downloads
    <2>2. \A v \in Updates \ {u} : stage'[v] = stage[v] /\ remote'[v] = remote[v] /\ fetched'[v] = fetched[v]
        BY DEF SwapDatabase, RemoveArchive, Record, RecordFails, Returned, UpdateTypeOK
    <2> QED
        BY <1>1, <2>1, <2>2, OthersRest
<1>3. CASE SwapDatabase(u)
    <2>1. /\ stage[u] = "verified" /\ stage' = [stage EXCEPT ![u] = "swapped"]
          /\ db' = partial /\ partial # None /\ partial' = None /\ archive' = archive /\ sidecar' = sidecar
          /\ UNCHANGED <<remote, fetched>>
        BY <1>3 DEF SwapDatabase
    <2>2. content[partial].whole /\ content[partial].dump = fetched[u] /\ remote[u] <= fetched[u] /\ sidecar <= fetched[u]
        BY <2>1 DEF OnItsWay, NotAhead
    <2>3. UpdateTypeOK'
        BY <1>1, <2>1 DEF UpdateTypeOK, Paths
    <2>4. PathsApart' /\ DatabaseWhole' /\ SidecarNotAhead'
        BY <1>1, <2>1, <2>2 DEF PathsApart, DatabaseWhole, SidecarNotAhead
    <2>5. OnItsWay(u)' /\ NotAhead(u)'
        BY <1>1, <2>1, <2>2 DEF OnItsWay, NotAhead, UpdateTypeOK
    <2> QED
        BY <1>1, <1>2, <2>1, <2>3, <2>4, <2>5
<1>4. CASE RemoveArchive(u)
    <2>1. /\ stage[u] = "swapped" /\ stage' = [stage EXCEPT ![u] = "recording"]
          /\ archive' = None /\ partial' = partial /\ db' = db /\ sidecar' = sidecar
          /\ UNCHANGED <<remote, fetched>>
        BY <1>4 DEF RemoveArchive
    <2>3. UpdateTypeOK'
        BY <1>1, <2>1 DEF UpdateTypeOK, Paths
    <2>4. PathsApart' /\ DatabaseWhole' /\ SidecarNotAhead'
        BY <1>1, <2>1 DEF PathsApart, DatabaseWhole, SidecarNotAhead
    <2>5. OnItsWay(u)' /\ NotAhead(u)'
        BY <1>1, <2>1 DEF OnItsWay, NotAhead, UpdateTypeOK
    <2> QED
        BY <1>1, <1>2, <2>1, <2>3, <2>4, <2>5
<1>5. CASE Record(u) \/ RecordFails(u)
    <2>1. /\ stage[u] = "recording" /\ stage' = [stage EXCEPT ![u] = "idle"]
          /\ archive' = archive /\ partial' = partial /\ db' = db /\ sidecar' \in {remote[u], sidecar, 0}
          /\ remote' = [remote EXCEPT ![u] = 0] /\ fetched' = [fetched EXCEPT ![u] = 0]
        BY <1>5 DEF Record, RecordFails, Returned, paths
    <2>2. db # None /\ remote[u] <= content[db].dump /\ db \in Files
        BY <2>1 DEF NotAhead, UpdateTypeOK, Paths
    <2>6. sidecar' \in Nat /\ sidecar' <= published
        BY <2>1 DEF NotAhead, UpdateTypeOK
    <2>7. sidecar' <= content[db].dump
        BY <2>1, <2>2 DEF SidecarNotAhead, UpdateTypeOK
    <2>3. UpdateTypeOK'
        BY <1>1, <2>1, <2>6 DEF UpdateTypeOK, Paths
    <2>4. PathsApart' /\ DatabaseWhole' /\ SidecarNotAhead'
        BY <1>1, <2>1, <2>7 DEF PathsApart, DatabaseWhole, SidecarNotAhead
    <2>5. OnItsWay(u)' /\ NotAhead(u)'
        BY <1>1, <2>1 DEF OnItsWay, NotAhead, UpdateTypeOK
    <2> QED
        BY <1>1, <1>2, <2>3, <2>4, <2>5, <2>6
<1> QED
    BY <1>3, <1>4, <1>5

LEMMA UpdateInvStep ==
    ASSUME NoneIsNoFile, UpdateInv, ~overlapped', [UpdateNext]_uVars
    PROVE  UpdateInv'
<1>1. CASE UNCHANGED uVars
    BY <1>1 DEF uVars, paths, updates, UpdateInv, UpdateTypeOK, Alone, Downloads, PathsApart, DatabaseWhole,
        SidecarNotAhead, OnItsWay, NotAhead
<1>2. CASE Publish
    <2>1. published' = published + 1 /\ published \in Nat
          /\ UNCHANGED <<archive, partial, db, content, sidecar, stage, remote, fetched, out, source>>
        BY <1>2 DEF Publish, paths, updates, UpdateInv, UpdateTypeOK
    <2> QED
        BY <2>1 DEF UpdateInv, UpdateTypeOK, Alone, Downloads, PathsApart, DatabaseWhole, SidecarNotAhead, OnItsWay, NotAhead
<1>3. CASE Restart
    <2>1. /\ UNCHANGED <<published, archive, partial, db, content, sidecar>>
          /\ stage' = [u \in Updates |-> "idle"]
          /\ remote' = [u \in Updates |-> 0] /\ fetched' = [u \in Updates |-> 0]
          /\ out' = [u \in Updates |-> None] /\ source' = [u \in Updates |-> None]
        BY <1>3 DEF Restart, paths
    <2>2. UpdateTypeOK'
        BY <2>1 DEF UpdateInv, UpdateTypeOK, Paths
    <2>3. \A u \in Updates : OnItsWay(u)' /\ NotAhead(u)'
        BY <2>1 DEF UpdateInv, UpdateTypeOK, OnItsWay, NotAhead
    <2>4. Alone'
        BY <2>1 DEF Alone, Downloads
    <2> QED
        BY <2>1, <2>2, <2>3, <2>4 DEF UpdateInv, PathsApart, DatabaseWhole, SidecarNotAhead
<1>4. ASSUME NEW u \in Updates, Update(u) PROVE UpdateInv'
    BY <1>4, AroundFiles, CreateArchiveStep, DownloadedStep, OpenArchiveStep, DecompressedStep, SwapStep
    DEF Update
<1> QED
    BY <1>1, <1>2, <1>3, <1>4 DEF UpdateNext

(* download_sde and sde_update leave, after failures and restarts at any   *)
(* step, one whole dump and no md5 that is ahead of it, for any number of  *)
(* updates, until two of them have been downloading at once.               *)
THEOREM DatabaseKept ==
    ASSUME NoneIsNoFile
    PROVE  UpdateSpec => []DatabaseSound
<1> DEFINE Kept == ~overlapped => UpdateInv
<1>0. NoneIsNoFile
    OBVIOUS
<1>1. UpdateInit => Kept
    BY <1>0, UpdateInvInit
<1>2. Kept /\ [UpdateNext]_uVars => Kept'
    <2> SUFFICES ASSUME Kept, [UpdateNext]_uVars, ~overlapped' PROVE UpdateInv'
        OBVIOUS
    <2>1. ~overlapped
        BY DEF UpdateNext, uVars, Publish, Restart, Update, ReadRemote, RemoteUnknown, Decide, Get, CreateArchive, Downloaded,
            OpenArchive, Decompressed, Verified, SwapDatabase, RemoveArchive, Record, RecordFails, Fails
    <2> QED
        BY <1>0, <2>1, UpdateInvStep
<1>3. Kept => DatabaseSound
    BY DEF UpdateInv, DatabaseSound
<1> QED
    BY <1>1, <1>2, <1>3, PTL DEF UpdateSpec

-----------------------------------------------------------------------------
(* The kill index                                                          *)

IndexInv == now \in Nat /\ events \in Seq(Nat) /\ Len(events) <= MaxEvents

LEMMA LeastOf ==
    ASSUME NEW S \in SUBSET Nat, S # {}
    PROVE  Min(S) \in S /\ \A y \in S : Min(S) <= y
<1>1. \E x \in S : \A y \in S : x <= y
    BY LeastNatural
<1> QED
    BY <1>1 DEF Min

LEMMA PushKeeps ==
    ASSUME IndexAssumption, IndexInv, NEW t \in Nat, NEW kept,
           kept = Cap(Prune(Append(events, t))),
           NEW gone, gone = Len(events) + 1 - Len(kept)
    PROVE  /\ kept \in Seq(Nat) /\ Len(kept) <= MaxEvents
           /\ kept = SubSeq(Append(events, t), gone + 1, Len(events) + 1)
           /\ \/ \A i \in 1..gone : Append(events, t)[i] < Cutoff
              \/ Len(events) = MaxEvents /\ gone = 1
<1> DEFINE all == Append(events, t)
           n == Len(events)
           young == {i \in 1..Len(all) : all[i] >= Cutoff}
<1>1. n \in Nat /\ all \in Seq(Nat) /\ Len(all) = n + 1 /\ Cutoff \in Nat /\ MaxEvents \in Nat /\ n <= MaxEvents
    BY DEF IndexAssumption, IndexInv, Cutoff
<1>2. \A i \in 1..Len(all) : all[i] \in Nat
    BY <1>1, ElementOfSeq
<1>3. Prune(all) = IF young = {} THEN <<>> ELSE SubSeq(all, Min(young), Len(all))
    BY DEF Prune
<1>4. young \in SUBSET Nat /\ \A i \in young : i \in 1..(n + 1)
    BY <1>1
<1>5. \A i \in 1..(n + 1) : i \notin young => all[i] < Cutoff
    BY <1>1, <1>2
<1>6. kept = Cap(Prune(all)) /\ gone = n + 1 - Len(kept)
    OBVIOUS
<1>c. kept = IF Len(Prune(all)) > MaxEvents
             THEN SubSeq(Prune(all), Len(Prune(all)) - MaxEvents + 1, Len(Prune(all)))
             ELSE Prune(all)
    BY <1>6 DEF Cap
<1>7. SUFFICES /\ kept \in Seq(Nat) /\ Len(kept) <= MaxEvents
               /\ kept = SubSeq(all, gone + 1, n + 1)
               /\ \/ \A i \in 1..gone : all[i] < Cutoff
                  \/ n = MaxEvents /\ gone = 1
    OBVIOUS
<1> HIDE DEF all, n, young
<1>8. CASE young = {}
    <2>1. kept = <<>> /\ gone = n + 1
        <3>1. Prune(all) = <<>>
            BY ONLY <1>3, <1>8
        <3>2. Len(Prune(all)) = 0
            BY ONLY <3>1
        <3>3. kept = <<>>
            BY ONLY <1>1, <1>c, <3>1, <3>2
        <3>4. Len(kept) = 0
            BY ONLY <3>3
        <3> QED
            BY ONLY <1>1, <1>6, <3>3, <3>4
    <2>2. SubSeq(all, n + 2, n + 1) = <<>>
        BY <1>1
    <2> QED
        <3>1. \A i \in 1..gone : all[i] < Cutoff
            BY ONLY <1>5, <1>8, <2>1
        <3>2. kept \in Seq(Nat) /\ Len(kept) = 0
            BY ONLY <2>1
        <3>3. kept = SubSeq(all, gone + 1, n + 1)
            BY ONLY <1>1, <2>1, <2>2
        <3> QED
            BY ONLY <1>1, <3>1, <3>2, <3>3
<1>9. CASE young # {}
    <2> DEFINE m == Min(young)
    <2>1. m \in young /\ \A i \in young : m <= i
        BY <1>4, <1>9, LeastOf
    <2>2. m \in 1..(n + 1) /\ Prune(all) = SubSeq(all, m, n + 1)
        BY <1>1, <1>3, <1>4, <1>9, <2>1
    <2> HIDE DEF m
    <2>3. \A i \in 1..(m - 1) : all[i] < Cutoff
        <3> TAKE i \in 1..(m - 1)
        <3>1. i \in 1..(n + 1) /\ i \notin young
            BY <1>1, <1>4, <2>1, <2>2
        <3> QED
            BY <1>5, <3>1
    <2>4. SubSeq(all, m, n + 1) \in Seq(Nat) /\ Len(SubSeq(all, m, n + 1)) = n + 2 - m
        BY <1>1, <2>2, SubSeqProperties
    <2>5. CASE n + 2 - m > MaxEvents
        <3>1. n = MaxEvents /\ m = 1
            BY <1>1, <2>2, <2>5
        <3>2. Prune(all) = all
            BY <1>1, <2>2, <3>1
        <3>3. kept = SubSeq(all, 2, n + 1)
            BY ONLY <1>1, <1>c, <3>1, <3>2
        <3>4. SubSeq(all, 2, n + 1) \in Seq(Nat) /\ Len(SubSeq(all, 2, n + 1)) = n
            BY <1>1, SubSeqProperties, SMTT(40)
        <3>5. gone = 1
            BY ONLY <1>1, <1>6, <3>3, <3>4
        <3> QED
            BY ONLY <1>1, <3>1, <3>3, <3>4, <3>5
    <2>6. CASE n + 2 - m <= MaxEvents
        <3>1. kept = SubSeq(all, m, n + 1)
            BY ONLY <1>1, <1>c, <2>2, <2>4, <2>6
        <3>2. gone = m - 1
            BY ONLY <1>1, <1>6, <2>2, <2>4, <3>1
        <3>3. \A i \in 1..gone : all[i] < Cutoff
            BY ONLY <2>3, <3>2
        <3>4. gone + 1 = m
            BY ONLY <2>2, <3>2
        <3> QED
            BY ONLY <1>1, <2>4, <2>6, <3>1, <3>3, <3>4
    <2> QED
        <3>1. n + 2 - m > MaxEvents \/ n + 2 - m <= MaxEvents
            BY ONLY <1>1, <2>2
        <3> QED
            BY <2>5, <2>6, <3>1
<1> QED
    BY <1>8, <1>9

(* KillIndex::push: for every window, capacity and order of arrivals, what *)
(* goes was too old, but for the oldest arrival of a full index.           *)
THEOREM RecentAreKept == ASSUME IndexAssumption PROVE IndexSpec => RecentKept
<1>0. IndexAssumption
    OBVIOUS
<1>1. IndexInit => IndexInv
    BY <1>0 DEF IndexInit, IndexInv, IndexAssumption
<1>2. IndexInv /\ [IndexNext]_indexVars => IndexInv' /\ [NoneLost]_indexVars
    <2> SUFFICES ASSUME IndexInv, [IndexNext]_indexVars PROVE IndexInv' /\ [NoneLost]_indexVars
        OBVIOUS
    <2>1. CASE UNCHANGED indexVars
        BY <2>1 DEF indexVars, IndexInv
    <2>2. CASE Tick
        BY <2>2 DEF Tick, IndexInv, NoneLost
    <2>3. ASSUME NEW t \in Times, Push(t) PROVE IndexInv' /\ NoneLost
        <3>0. now \in Nat /\ Delays \subseteq Nat /\ Ahead \subseteq Nat
            BY <1>0 DEF IndexAssumption, IndexInv
        <3>1. t \in Nat
          <4>1. CASE \E d \in Delays : d <= now /\ t = now - d
            BY <3>0, <4>1
          <4>2. CASE \E a \in Ahead : t = now + a
            BY <3>0, <4>2
          <4> QED
            BY <4>1, <4>2 DEF Times
        <3>2. events' = Cap(Prune(Append(events, t))) /\ last' = t /\ now' = now
            BY <2>3 DEF Push
        <3>3. Len(Append(events, last')) = Len(events) + 1
            BY <3>1, <3>2 DEF IndexInv
        <3> DEFINE gone == Len(events) + 1 - Len(events')
        <3>4. /\ events' \in Seq(Nat) /\ Len(events') <= MaxEvents
              /\ events' = SubSeq(Append(events, t), gone + 1, Len(events) + 1)
              /\ \/ \A i \in 1..gone : Append(events, t)[i] < Cutoff
                 \/ Len(events) = MaxEvents /\ gone = 1
            BY <1>0, <3>1, <3>2, PushKeeps
        <3>7. Append(events, t) = Append(events, last')
            BY <3>2
        <3>8. gone = Len(Append(events, last')) - Len(events') /\ Len(events) + 1 = Len(Append(events, last'))
            BY <3>3
        <3> HIDE DEF gone
        <3>5. IndexInv'
            BY <3>2, <3>4 DEF IndexInv
        <3>6. NoneLost
            BY ONLY <3>4, <3>7, <3>8, Zenon DEF NoneLost
        <3> QED
            BY <3>5, <3>6
    <2> QED
        BY <2>1, <2>2, <2>3 DEF IndexNext
<1> QED
    BY <1>1, <1>2, PTL DEF IndexSpec, RecentKept

-----------------------------------------------------------------------------
(* The leases of the killstream.                                           *)
(* Along the queue of calls there is a level, the leases there will be     *)
(* when the calls so far have arrived: it starts at the count, goes up and *)
(* down by one, is never negative (so nothing is lost where the command    *)
(* stops at zero), and ends no lower than the features that are mounted.   *)

Leased(call) == call[1] = "subscribe"

IsLevel(level, queue, count) ==
    /\ level \in [0..Len(queue) -> Nat]
    /\ level[0] = count
    /\ \A i \in 1..Len(queue) :
         level[i] = IF Leased(queue[i]) THEN level[i - 1] + 1 ELSE level[i - 1] - 1

LevelHolds == \E level : IsLevel(level, calls, consumers) /\ Cardinality(mounted) <= level[Len(calls)]

StreamInv ==
    /\ mounted \subseteq Features /\ IsFiniteSet(mounted)
    /\ calls \in Seq({"subscribe", "unsubscribe"} \X Features)
    /\ consumers \in Nat
    /\ bounds \in [{"mounts", "lost", "reloads", "breaks"} -> Nat]
    /\ bounds["lost"] = 0 => LevelHolds

LEMMA LevelAppends ==
    ASSUME NEW C, NEW queue \in Seq(C), NEW count \in Nat, NEW level, IsLevel(level, queue, count),
           NEW call \in C, NEW top \in Nat,
           top = IF Leased(call) THEN level[Len(queue)] + 1 ELSE level[Len(queue)] - 1
    PROVE  \E l : IsLevel(l, Append(queue, call), count) /\ l[Len(Append(queue, call))] = top
<1> DEFINE n == Len(queue)
           l == [i \in 0..(n + 1) |-> IF i = n + 1 THEN top ELSE level[i]]
<1>1. n \in Nat /\ Len(Append(queue, call)) = n + 1
    BY AppendProperties
<1>2. \A i \in 1..n : Append(queue, call)[i] = queue[i]
    BY AppendProperties
<1>3. Append(queue, call)[n + 1] = call
    BY AppendProperties
<1>4. /\ level \in [0..n -> Nat] /\ level[0] = count
      /\ \A i \in 1..n : level[i] = IF Leased(queue[i]) THEN level[i - 1] + 1 ELSE level[i - 1] - 1
    BY DEF IsLevel
<1> HIDE DEF n
<1>5. l \in [0..(n + 1) -> Nat] /\ l[0] = count /\ l[n + 1] = top
    BY <1>1, <1>4
<1>6. ASSUME NEW i \in 1..(n + 1)
      PROVE  l[i] = IF Leased(Append(queue, call)[i]) THEN l[i - 1] + 1 ELSE l[i - 1] - 1
    <2>1. CASE i = n + 1
        <3>1. l[i] = top /\ l[i - 1] = level[n]
            BY <1>1, <2>1
        <3> QED
            BY <1>3, <2>1, <3>1 DEF n
    <2>2. CASE i # n + 1
        <3>1. i \in 1..n /\ i - 1 \in 0..n /\ i \in 0..n
            BY <1>1, <2>2
        <3>2. l[i] = level[i] /\ l[i - 1] = level[i - 1]
            BY <1>1, <3>1
        <3> QED
            BY <1>2, <1>4, <3>1, <3>2
    <2> QED
        BY <2>1, <2>2
<1>7. IsLevel(l, Append(queue, call), count)
    BY <1>1, <1>5, <1>6 DEF IsLevel
<1> QED
    BY <1>1, <1>5, <1>7

LEMMA LevelMovesOn ==
    ASSUME NEW C, NEW queue \in Seq(C), queue # <<>>, NEW count \in Nat, NEW level, IsLevel(level, queue, count)
    PROVE  /\ level[1] \in Nat
           /\ level[1] = IF Leased(Head(queue)) THEN count + 1 ELSE count - 1
           /\ \E l : IsLevel(l, Tail(queue), level[1]) /\ l[Len(Tail(queue))] = level[Len(queue)]
<1> DEFINE n == Len(queue)
           l == [i \in 0..(n - 1) |-> level[i + 1]]
<1>1. /\ n \in Nat /\ n >= 1 /\ Head(queue) = queue[1]
      /\ Len(Tail(queue)) = n - 1 /\ \A i \in 1..(n - 1) : Tail(queue)[i] = queue[i + 1]
    BY EmptySeq, HeadTailProperties
<1>2. /\ level \in [0..n -> Nat] /\ level[0] = count
      /\ \A i \in 1..n : level[i] = IF Leased(queue[i]) THEN level[i - 1] + 1 ELSE level[i - 1] - 1
    BY DEF IsLevel
<1> HIDE DEF n
<1>3. level[1] \in Nat /\ level[1] = IF Leased(Head(queue)) THEN count + 1 ELSE count - 1
    BY <1>1, <1>2
<1>4. l \in [0..(n - 1) -> Nat] /\ l[0] = level[1] /\ l[n - 1] = level[n]
    BY <1>1, <1>2
<1>5. ASSUME NEW i \in 1..(n - 1)
      PROVE  l[i] = IF Leased(Tail(queue)[i]) THEN l[i - 1] + 1 ELSE l[i - 1] - 1
    <2>1. i + 1 \in 1..n /\ i \in 0..(n - 1) /\ i - 1 \in 0..(n - 1) /\ (i + 1) - 1 = i /\ (i - 1) + 1 = i
        BY <1>1
    <2>2. l[i] = level[i + 1] /\ l[i - 1] = level[i]
        BY <2>1
    <2> QED
        BY <1>1, <1>2, <2>1, <2>2
<1>6. IsLevel(l, Tail(queue), level[1])
    BY <1>1, <1>4, <1>5 DEF IsLevel
<1> QED
    BY <1>1, <1>3, <1>4, <1>6 DEF n

LEMMA LevelOfPrefix ==
    ASSUME NEW C, NEW queue \in Seq(C), NEW count \in Nat, NEW level, IsLevel(level, queue, count),
           NEW k \in 0..Len(queue)
    PROVE  \E l : IsLevel(l, SubSeq(queue, 1, k), count) /\ l[Len(SubSeq(queue, 1, k))] \in Nat
<1> DEFINE l == [i \in 0..k |-> level[i]]
<1>1. Len(queue) \in Nat /\ Len(SubSeq(queue, 1, k)) = k /\ \A i \in 1..k : SubSeq(queue, 1, k)[i] = queue[i]
    BY SubSeqProperties
<1>2. /\ level \in [0..Len(queue) -> Nat] /\ level[0] = count
      /\ \A i \in 1..Len(queue) : level[i] = IF Leased(queue[i]) THEN level[i - 1] + 1 ELSE level[i - 1] - 1
    BY DEF IsLevel
<1>3. l \in [0..k -> Nat] /\ l[0] = count /\ l[k] \in Nat
    BY <1>1, <1>2, SMTT(40)
<1>4. ASSUME NEW i \in 1..k
      PROVE  l[i] = IF Leased(SubSeq(queue, 1, k)[i]) THEN l[i - 1] + 1 ELSE l[i - 1] - 1
    <2>1. i \in 1..Len(queue) /\ i \in 0..k /\ i - 1 \in 0..k
        BY <1>1
    <2>2. l[i] = level[i] /\ l[i - 1] = level[i - 1]
        BY <2>1
    <2> QED
        BY <1>1, <1>2, <2>1, <2>2
<1>5. IsLevel(l, SubSeq(queue, 1, k), count)
    BY <1>1, <1>3, <1>4 DEF IsLevel
<1> QED
    BY <1>1, <1>3, <1>5

\* The calls of the frontend, which never hold anything else.
Calls == {"subscribe", "unsubscribe"} \X Features

LEMMA MountStep ==
    ASSUME StreamInv, NEW f \in Features, Mount(f)
    PROVE  StreamInv'
<1>1. /\ mounted' = mounted \cup {f} /\ f \notin mounted /\ consumers' = consumers
      /\ calls' = Append(calls, <<"subscribe", f>>)
    BY DEF Mount
<1>2. /\ IsFiniteSet(mounted') /\ Cardinality(mounted') = Cardinality(mounted) + 1
      /\ Cardinality(mounted) \in Nat
    BY <1>1, FS_AddElement, FS_CardinalityType DEF StreamInv
<1>3. bounds' \in [{"mounts", "lost", "reloads", "breaks"} -> Nat] /\ bounds'["lost"] = bounds["lost"]
    BY DEF Mount, Bounded, StreamInv
<1>4. <<"subscribe", f>> \in Calls /\ Leased(<<"subscribe", f>>) /\ calls \in Seq(Calls)
    BY DEF Calls, Leased, StreamInv
<1>5. calls' \in Seq(Calls)
    BY <1>1, <1>4, AppendProperties
<1>6. ASSUME bounds["lost"] = 0 PROVE LevelHolds'
    <2>1. PICK level : IsLevel(level, calls, consumers) /\ Cardinality(mounted) <= level[Len(calls)]
        BY <1>6 DEF StreamInv, LevelHolds
    <2>2. level[Len(calls)] \in Nat /\ consumers \in Nat
        BY <1>4, <2>1, LenProperties DEF IsLevel, StreamInv
    <2>3. PICK l : /\ IsLevel(l, Append(calls, <<"subscribe", f>>), consumers)
                   /\ l[Len(Append(calls, <<"subscribe", f>>))] = level[Len(calls)] + 1
        BY <1>4, <2>1, <2>2, LevelAppends
    <2>4. Cardinality(mounted') <= l[Len(calls')]
        BY <1>1, <1>2, <2>1, <2>2, <2>3
    <2> QED
        BY <1>1, <2>3, <2>4 DEF LevelHolds
<1> QED
    BY <1>1, <1>2, <1>3, <1>5, <1>6 DEF StreamInv, Calls

LEMMA UnmountStep ==
    ASSUME StreamInv, NEW f \in Features, Unmount(f)
    PROVE  StreamInv'
<1>1. /\ mounted' = mounted \ {f} /\ f \in mounted /\ consumers' = consumers /\ bounds' = bounds
      /\ calls' = Append(calls, <<"unsubscribe", f>>)
    BY DEF Unmount
<1>2. /\ IsFiniteSet(mounted') /\ Cardinality(mounted') = Cardinality(mounted) - 1
      /\ Cardinality(mounted') \in Nat /\ Cardinality(mounted) \in Nat
    BY <1>1, FS_RemoveElement, FS_CardinalityType DEF StreamInv
<1>3. <<"unsubscribe", f>> \in Calls /\ ~Leased(<<"unsubscribe", f>>) /\ calls \in Seq(Calls)
    BY DEF Calls, Leased, StreamInv
<1>4. calls' \in Seq(Calls)
    BY <1>1, <1>3, AppendProperties
<1>5. ASSUME bounds["lost"] = 0 PROVE LevelHolds'
    <2>1. PICK level : IsLevel(level, calls, consumers) /\ Cardinality(mounted) <= level[Len(calls)]
        BY <1>5 DEF StreamInv, LevelHolds
    <2>2. level[Len(calls)] \in Nat /\ consumers \in Nat
        BY <1>3, <2>1, LenProperties DEF IsLevel, StreamInv
    <2>3. level[Len(calls)] - 1 \in Nat
        BY <1>2, <2>1, <2>2
    <2>4. PICK l : /\ IsLevel(l, Append(calls, <<"unsubscribe", f>>), consumers)
                   /\ l[Len(Append(calls, <<"unsubscribe", f>>))] = level[Len(calls)] - 1
        BY <1>3, <2>1, <2>2, <2>3, LevelAppends
    <2>5. Cardinality(mounted') <= l[Len(calls')]
        BY <1>1, <1>2, <2>1, <2>2, <2>4
    <2> QED
        BY <1>1, <2>4, <2>5 DEF LevelHolds
<1> QED
    BY <1>1, <1>2, <1>4, <1>5 DEF StreamInv, Calls

(* What is left of the queue still never asks for less than nothing.       *)
LEMMA ReloadStep ==
    ASSUME StreamInv, Reload
    PROVE  StreamInv'
<1>1. PICK k \in 0..Len(calls) : calls' = SubSeq(calls, 1, k)
    BY DEF Reload
<1>2. mounted' = {} /\ consumers' = consumers /\ calls \in Seq(Calls)
    BY DEF Reload, StreamInv, Calls
<1>3. IsFiniteSet(mounted') /\ Cardinality(mounted') = 0
    BY <1>2, FS_EmptySet
<1>4. bounds' \in [{"mounts", "lost", "reloads", "breaks"} -> Nat] /\ bounds'["lost"] = bounds["lost"]
    BY DEF Reload, Bounded, StreamInv
<1>5. calls' \in Seq(Calls)
    <2>1. \A i \in 1..k : calls[i] \in Calls
        BY <1>2, LenProperties, ElementOfSeq
    <2> QED
        BY <1>1, <1>2, <2>1, LenProperties, SubSeqProperties
<1>6. ASSUME bounds["lost"] = 0 PROVE LevelHolds'
    <2>1. PICK level : IsLevel(level, calls, consumers)
        BY <1>6 DEF StreamInv, LevelHolds
    <2>2. consumers \in Nat
        BY DEF StreamInv
    <2>3. PICK l : IsLevel(l, SubSeq(calls, 1, k), consumers) /\ l[Len(SubSeq(calls, 1, k))] \in Nat
        BY <1>2, <2>1, <2>2, LevelOfPrefix
    <2> QED
        BY <1>1, <1>2, <1>3, <2>3 DEF LevelHolds
<1> QED
    BY <1>2, <1>3, <1>4, <1>5, <1>6 DEF StreamInv, Calls

LEMMA CommandStep ==
    ASSUME StreamInv, Subscribe \/ Unsubscribe
    PROVE  StreamInv'
<1>1. /\ mounted' = mounted /\ bounds' = bounds /\ calls # <<>> /\ calls' = Tail(calls) /\ calls \in Seq(Calls)
      /\ \/ Leased(Head(calls)) /\ consumers' = consumers + 1
         \/ ~Leased(Head(calls)) /\ consumers' = IF consumers = 0 THEN 0 ELSE consumers - 1
    BY DEF Subscribe, Unsubscribe, Arrives, Leased, StreamInv, Calls
<1>2. consumers \in Nat /\ consumers' \in Nat
    BY <1>1 DEF StreamInv
<1>3. calls' \in Seq(Calls)
    BY <1>1, EmptySeq, HeadTailProperties
<1>4. ASSUME bounds["lost"] = 0 PROVE LevelHolds'
    <2>1. PICK level : IsLevel(level, calls, consumers) /\ Cardinality(mounted) <= level[Len(calls)]
        BY <1>4 DEF StreamInv, LevelHolds
    <2>2. /\ level[1] \in Nat
          /\ level[1] = IF Leased(Head(calls)) THEN consumers + 1 ELSE consumers - 1
          /\ \E l : IsLevel(l, Tail(calls), level[1]) /\ l[Len(Tail(calls))] = level[Len(calls)]
        BY <1>1, <1>2, <2>1, LevelMovesOn
    <2>3. consumers' = level[1]
        BY <1>1, <1>2, <2>2
    <2> QED
        BY <1>1, <2>1, <2>2, <2>3 DEF LevelHolds
<1> QED
    BY <1>1, <1>2, <1>3, <1>4 DEF StreamInv, Calls

LEMMA StreamStep ==
    ASSUME StreamInv, [StreamNext]_streamVars
    PROVE  StreamInv'
<1>1. CASE Lose
    <2>1. /\ mounted' = mounted /\ consumers' = consumers /\ calls # <<>> /\ calls' = Tail(calls)
          /\ calls \in Seq(Calls)
        BY <1>1 DEF Lose, StreamInv, Calls
    <2>2. /\ bounds' \in [{"mounts", "lost", "reloads", "breaks"} -> Nat]
          /\ bounds["lost"] \in Nat /\ bounds'["lost"] = bounds["lost"] + 1
        BY <1>1 DEF Lose, Bounded, StreamInv
    <2>3. bounds'["lost"] # 0
        BY <2>2
    <2>4. calls' \in Seq(Calls)
        BY <2>1, EmptySeq, HeadTailProperties
    <2> QED
        BY <2>1, <2>2, <2>3, <2>4 DEF StreamInv, Calls
<1>2. CASE ConnectFails \/ Disconnect
    <2>1. UNCHANGED <<mounted, calls, consumers>>
        BY <1>2 DEF ConnectFails, Disconnect, frontend
    <2>2. bounds' \in [{"mounts", "lost", "reloads", "breaks"} -> Nat] /\ bounds'["lost"] = bounds["lost"]
        BY <1>2 DEF ConnectFails, Disconnect, Bounded, StreamInv
    <2> QED
        BY <2>1, <2>2 DEF StreamInv, LevelHolds
<1>3. CASE Loop \/ UNCHANGED streamVars
    <2>1. UNCHANGED <<mounted, calls, consumers, bounds>>
        BY <1>3 DEF Loop, Check, Arm, CheckAgain, Woken, Connect, CheckSubscribed, CheckIdle, WindDown, Pause,
                    frontend, streamVars
    <2> QED
        BY <2>1 DEF StreamInv, LevelHolds
<1> QED
    BY <1>1, <1>2, <1>3, MountStep, UnmountStep, ReloadStep, CommandStep DEF StreamNext, Frontend, Commands

(* zkill_stream_subscribe: for any features, mounting, unmounting and      *)
(* reloading in any order, a mounted feature has its lease once the calls  *)
(* have arrived, unless one was lost.                                      *)
THEOREM StreamNeverMissing == StreamSpec => []NeverMissing
<1>1. StreamInit => StreamInv
    <2> SUFFICES ASSUME StreamInit PROVE StreamInv
        OBVIOUS
    <2>1. mounted = {} /\ calls = <<>> /\ consumers = 0
          /\ bounds = [what \in {"mounts", "lost", "reloads", "breaks"} |-> 0]
        BY DEF StreamInit
    <2>2. IsFiniteSet(mounted) /\ Cardinality(mounted) = 0
        BY <2>1, FS_EmptySet
    <2>3. IsLevel([i \in 0..0 |-> 0], calls, consumers)
        BY <2>1 DEF IsLevel
    <2>4. Len(calls) = 0 /\ calls \in Seq(Calls)
        BY <2>1
    <2>5. LevelHolds
        <3>1. Cardinality(mounted) <= [i \in 0..0 |-> 0][Len(calls)]
            BY <2>2, <2>4
        <3> QED
            BY <2>3, <3>1 DEF LevelHolds
    <2> QED
        BY <2>1, <2>2, <2>4, <2>5 DEF StreamInv, Calls
<1>2. StreamInv => NeverMissing
    <2> SUFFICES ASSUME StreamInv, calls = <<>>, bounds["lost"] = 0
                 PROVE  Cardinality(mounted) <= consumers
        BY DEF NeverMissing
    <2>1. PICK level : IsLevel(level, calls, consumers) /\ Cardinality(mounted) <= level[Len(calls)]
        BY DEF StreamInv, LevelHolds
    <2>2. Len(calls) = 0
        OBVIOUS
    <2> QED
        BY <2>1, <2>2 DEF IsLevel
<1> QED
    BY <1>1, <1>2, StreamStep, PTL DEF StreamSpec

-----------------------------------------------------------------------------
(* The faction-warfare map.                                                *)
(* Whatever samples a fetch loaded, extended and will save over another's: *)
(* they are of one occupier and in the order of their times.               *)

AnyFaction == UNION {Factions(s) : s \in Systems}
Samples == [ts : Nat, points : 0..Threshold, occupier : AnyFaction]
Maps == [occupier : [Systems -> AnyFaction], points : [Systems -> 0..Threshold]]

Even(samples) ==
    /\ \A i \in 1..Len(samples) : samples[i].ts <= clock /\ samples[i].occupier = samples[Len(samples)].occupier
    /\ \A i \in 1..Len(samples) : i > 1 => samples[i - 1].ts <= samples[i].ts

EndsWith(samples, points_, occupier_) ==
    /\ samples # <<>>
    /\ samples[Len(samples)].points = points_ /\ samples[Len(samples)].occupier = occupier_

WarInv ==
    /\ clock \in Nat
    /\ occupier \in [Systems -> AnyFaction] /\ points \in [Systems -> 0..Threshold]
    /\ at \in [Fetchers -> {"idle", "fetch", "load", "save"}]
    /\ seen \in [Fetchers -> Maps \cup {<<>>}]
    /\ next \in [Fetchers -> [Systems -> Seq(Samples)] \cup {<<>>}]
    /\ \A f \in Fetchers : at[f] \in {"load", "save"} => seen[f] \in Maps
    /\ history \in [Systems -> Seq(Samples)] /\ \A s \in Systems : Even(history[s])
    /\ \A f \in Fetchers : at[f] = "save" =>
         /\ next[f] \in [Systems -> Seq(Samples)]
         /\ \A s \in Systems : Even(next[f][s]) /\ EndsWith(next[f][s], seen[f].points[s], seen[f].occupier[s])
    /\ warMap = NoMap \/ warMap.front = Classify(warMap.occupier)

LEMMA ClassifyHasTwoSides ==
    ASSUME NEW occ, NEW a \in Systems
    PROVE  /\ Classify(occ)[a] = "frontline" =>
                \E b \in Systems : Adjacent(a, b) /\ Classify(occ)[b] = "frontline" /\ occ[b] # occ[a]
           /\ Classify(occ)[a] = "rearguard" =>
                \A b \in Systems : Adjacent(a, b) => Classify(occ)[b] # "frontline"
<1>1. \A x \in Systems : Classify(occ)[x] = "frontline" <=> Frontline(occ, x)
    BY DEF Classify
<1>2. \A x, y \in Systems : Adjacent(x, y) => Adjacent(y, x)
    <2> SUFFICES ASSUME NEW x \in Systems, NEW y \in Systems, Adjacent(x, y) PROVE Adjacent(y, x)
        OBVIOUS
    <2>1. {x, y} = {y, x}
        OBVIOUS
    <2> QED
        BY <2>1 DEF Adjacent
<1>3. Frontline(occ, a) => \E b \in Systems : Adjacent(a, b) /\ Frontline(occ, b) /\ occ[b] # occ[a]
    <2> SUFFICES ASSUME NEW b \in Systems, Adjacent(a, b), occ[b] # occ[a] PROVE Frontline(occ, b)
        BY DEF Frontline
    <2> QED
        BY <1>2 DEF Frontline
<1>4. ASSUME Classify(occ)[a] = "rearguard", NEW b \in Systems, Adjacent(a, b), Frontline(occ, b) PROVE FALSE
    <2>1. ~Frontline(occ, a)
        BY <1>1, <1>4
    <2>2. occ[b] = occ[a]
        BY <1>4, <2>1 DEF Frontline
    <2>3. Classify(occ)[a] = "commandops"
        BY <1>4, <2>1, <2>2 DEF Classify
    <2> QED
        BY <1>4, <2>3
<1> QED
    BY <1>1, <1>3, <1>4

LEMMA OldestIsIn ==
    ASSUME WarAssumption, NEW samples \in Seq(Samples), samples # <<>>
    PROVE  /\ Oldest(samples) \in 1..Len(samples)
           /\ samples[Len(samples)].ts - samples[Oldest(samples)].ts <= VpWindow
<1> DEFINE n == Len(samples)
           In(i) == samples[n].ts - samples[i].ts <= VpWindow
           S == {i \in 1..n : In(i)}
<1>1. n \in Nat /\ n >= 1 /\ \A i \in 1..n : samples[i].ts \in Nat
    <2>1. n \in Nat /\ n >= 1
        BY EmptySeq, LenProperties
    <2>2. \A i \in 1..n : samples[i] \in Samples
        BY ElementOfSeq
    <2> QED
        BY <2>1, <2>2 DEF Samples
<1>2. n \in S /\ S \in SUBSET Nat
    BY <1>1 DEF WarAssumption
<1>3. PICK m : m \in S /\ \A y \in S : m <= y
    BY <1>2, LeastOf
<1>4. \A j \in 1..(m - 1) : samples[n].ts - samples[j].ts > VpWindow
    <2> SUFFICES ASSUME NEW j \in 1..(m - 1) PROVE samples[n].ts - samples[j].ts > VpWindow
        OBVIOUS
    <2>1. m \in 1..n /\ j \in 1..n /\ ~(m <= j)
        BY <1>1, <1>3
    <2>2. ~In(j)
        BY <1>3, <2>1
    <2> QED
        BY <1>1, <2>1, <2>2, SMTT(30) DEF WarAssumption
<1>5. m \in 1..n /\ In(m)
    BY <1>3
<1> QED
    BY <1>4, <1>5 DEF Oldest

LEMMA ExtendedIsEven ==
    ASSUME WarAssumption, clock \in Nat, NEW samples \in Seq(Samples), Even(samples),
           NEW sample \in Samples, sample.ts = clock
    PROVE  /\ Extended(samples, sample) \in Seq(Samples) /\ Even(Extended(samples, sample))
           /\ Extended(samples, sample) # <<>>
           /\ Extended(samples, sample)[Len(Extended(samples, sample))] = sample
<1> DEFINE kept == IF samples # <<>> /\ samples[Len(samples)].occupier # sample.occupier THEN <<>> ELSE samples
           all == Append(kept, sample)
           n == Len(kept)
<1>1. kept \in Seq(Samples) /\ Even(kept) /\ \A i \in 1..n : kept[i].occupier = sample.occupier
    <2>1. CASE samples # <<>> /\ samples[Len(samples)].occupier # sample.occupier
        BY <2>1 DEF Even
    <2>2. CASE ~(samples # <<>> /\ samples[Len(samples)].occupier # sample.occupier)
        <3>1. kept = samples
            BY <2>2
        <3>2. CASE samples = <<>>
            BY <3>1, <3>2
        <3>3. CASE samples # <<>>
            BY <2>2, <3>1, <3>3 DEF Even
        <3> QED
            BY <3>1, <3>2, <3>3
    <2> QED
        BY <2>1, <2>2
<1>2. /\ n \in Nat /\ all \in Seq(Samples) /\ Len(all) = n + 1 /\ all[n + 1] = sample
      /\ \A i \in 1..n : all[i] = kept[i]
    BY <1>1, AppendProperties, LenProperties
<1>3. \A i \in 1..n : kept[i].ts <= clock /\ (i > 1 => kept[i - 1].ts <= kept[i].ts)
    BY <1>1 DEF Even
<1> HIDE DEF kept, all, n
<1>4. \A i \in 1..(n + 1) : all[i].ts <= clock /\ all[i].occupier = sample.occupier
    <2> TAKE i \in 1..(n + 1)
    <2>1. CASE i = n + 1
        <3>1. all[i] = sample /\ sample.ts = clock
            BY <1>2, <2>1
        <3> QED
            BY <3>1
    <2>2. CASE i # n + 1
        <3>1. i \in 1..n
            BY <1>2, <2>2
        <3> QED
            BY <1>1, <1>2, <1>3, <3>1
    <2> QED
        BY <2>1, <2>2
<1>5. \A i \in 1..(n + 1) : i > 1 => all[i - 1].ts <= all[i].ts
    <2> SUFFICES ASSUME NEW i \in 1..(n + 1), i > 1 PROVE all[i - 1].ts <= all[i].ts
        OBVIOUS
    <2>1. i - 1 \in 1..n
        BY <1>2
    <2>2. CASE i = n + 1
        BY <1>2, <1>3, <2>1, <2>2
    <2>3. CASE i # n + 1
        <3>1. i \in 1..n
            BY <1>2, <2>3
        <3> QED
            BY <1>2, <1>3, <2>1, <3>1
    <2> QED
        BY <2>2, <2>3
<1>6. CASE Len(all) > MaxSamples
    <2>1. Extended(samples, sample) = Tail(all)
        BY <1>6 DEF Extended, all, kept
    <2>2. n >= 1
        BY <1>2, <1>6 DEF WarAssumption
    <2>3. all # <<>>
        BY <1>2, EmptySeq
    <2>4. /\ Tail(all) \in Seq(Samples) /\ Len(Tail(all)) = n
          /\ \A i \in 1..n : Tail(all)[i] = all[i + 1]
        BY <1>2, <2>3, HeadTailProperties
    <2>5. Tail(all) # <<>> /\ Tail(all)[n] = sample
        <3>1. n \in 1..n /\ Len(Tail(all)) # 0
            BY <1>2, <2>2, <2>4
        <3>2. Tail(all) # <<>>
            BY <2>4, <3>1, EmptySeq
        <3>3. Tail(all)[n] = all[n + 1]
            BY ONLY <2>4, <3>1
        <3> QED
            BY <1>2, <3>2, <3>3
    <2>6. Even(Tail(all))
        <3>1. \A i \in 1..n : Tail(all)[i].ts <= clock /\ Tail(all)[i].occupier = sample.occupier
            BY <1>2, <1>4, <2>4
        <3>2. ASSUME NEW i \in 1..n, i > 1 PROVE Tail(all)[i - 1].ts <= Tail(all)[i].ts
            <4>1. i - 1 \in 1..n /\ i + 1 \in 1..(n + 1) /\ (i - 1) + 1 = i /\ (i + 1) - 1 = i /\ i + 1 > 1
                BY <1>2, <3>2
            <4>2. Tail(all)[i - 1] = all[i] /\ Tail(all)[i] = all[i + 1]
                BY <2>4, <4>1
            <4>3. all[(i + 1) - 1].ts <= all[i + 1].ts
                BY <1>5, <4>1
            <4> QED
                BY <4>1, <4>2, <4>3
        <3> QED
            BY <2>4, <2>5, <3>1, <3>2 DEF Even
    <2> QED
        BY <2>1, <2>4, <2>5, <2>6
<1>7. CASE ~(Len(all) > MaxSamples)
    <2>1. Extended(samples, sample) = all
        BY <1>7 DEF Extended, all, kept
    <2>2. Even(all)
        BY <1>2, <1>4, <1>5 DEF Even
    <2>3. all # <<>>
        BY <1>2, EmptySeq
    <2> QED
        BY <1>2, <2>1, <2>2, <2>3
<1> QED
    BY <1>6, <1>7

LEMMA WarBegins == WarAssumption /\ WarInit => WarInv
<1> SUFFICES ASSUME WarAssumption, WarInit PROVE WarInv
    OBVIOUS
<1>1. occupier \in [Systems -> AnyFaction]
    BY DEF WarInit, AnyFaction
<1>2. clock \in Nat /\ points \in [Systems -> 0..Threshold]
    BY DEF WarInit, WarAssumption
<1>3. history \in [Systems -> Seq(Samples)] /\ \A s \in Systems : Even(history[s])
    <2>1. <<>> \in Seq(Samples) /\ Even(<<>>)
        BY DEF Even
    <2> QED
        BY <2>1 DEF WarInit
<1>4. /\ at \in [Fetchers -> {"idle", "fetch", "load", "save"}] /\ \A f \in Fetchers : at[f] = "idle"
      /\ seen \in [Fetchers -> Maps \cup {<<>>}]
      /\ next \in [Fetchers -> [Systems -> Seq(Samples)] \cup {<<>>}]
      /\ warMap = NoMap
    BY DEF WarInit
<1> QED
    BY <1>1, <1>2, <1>3, <1>4 DEF WarInv

LEMMA WarStep ==
    ASSUME WarAssumption, WarInv, [WarNext]_wVars
    PROVE  WarInv'
<1>1. CASE WarTick
    <2>1. /\ clock' \in Nat /\ clock' = clock + 1 /\ clock \in Nat
          /\ UNCHANGED <<occupier, points, history, warMap, warMapAt, at, seen, next>>
        BY <1>1 DEF WarTick, WarInv
    <2>2. ASSUME NEW samples \in Seq(Samples), Even(samples) PROVE Even(samples)'
        <3>1. \A i \in 1..Len(samples) : samples[i].ts \in Nat
            <4>1. \A i \in 1..Len(samples) : samples[i] \in Samples
                BY ElementOfSeq
            <4> QED
                BY <4>1 DEF Samples
        <3>2. \A i \in 1..Len(samples) : samples[i].ts <= clock'
            BY <2>1, <2>2, <3>1 DEF Even
        <3> QED
            BY <2>2, <3>2 DEF Even
    <2>3. \A s \in Systems : Even(history[s])'
        <3> TAKE s \in Systems
        <3>1. history[s] \in Seq(Samples) /\ Even(history[s]) /\ history' = history
            BY <2>1 DEF WarInv
        <3> QED
            BY <2>2, <3>1
    <2>4. \A f \in Fetchers : at'[f] = "save" => \A s \in Systems : Even(next[f][s])'
        <3> SUFFICES ASSUME NEW f \in Fetchers, at[f] = "save", NEW s \in Systems PROVE Even(next[f][s])'
            BY <2>1
        <3>1. next[f][s] \in Seq(Samples) /\ Even(next[f][s]) /\ next' = next
            BY <2>1 DEF WarInv
        <3> QED
            BY <2>2, <3>1
    <2> QED
        BY <2>1, <2>3, <2>4 DEF WarInv, EndsWith
<1>2. CASE Contest
    <2>1. clock' = clock /\ UNCHANGED <<history, warMap, warMapAt, at, seen, next>>
        BY <1>2 DEF Contest
    <2>2. PICK s \in Plexed :
            \/ /\ points[s] < Threshold /\ points' = [points EXCEPT ![s] = @ + 1] /\ UNCHANGED occupier
            \/ /\ points' = [points EXCEPT ![s] = 0]
               /\ \E o \in Factions(s) \ {occupier[s]} : occupier' = [occupier EXCEPT ![s] = o]
        BY <1>2 DEF Contest
    <2>3. points' \in [Systems -> 0..Threshold]
        <3>1. 0 \in 0..Threshold /\ (s \in Systems /\ points[s] < Threshold => points[s] + 1 \in 0..Threshold)
            BY DEF WarInv, WarAssumption
        <3> QED
            BY <2>2, <3>1 DEF WarInv
    <2>4. occupier' \in [Systems -> AnyFaction]
        <3>1. occupier \in [Systems -> AnyFaction]
            BY DEF WarInv
        <3>2. CASE occupier' = occupier
            BY <3>1, <3>2
        <3>3. ASSUME NEW o \in Factions(s), occupier' = [occupier EXCEPT ![s] = o]
              PROVE  occupier' \in [Systems -> AnyFaction]
            <4>1. s \in Systems => o \in AnyFaction
                BY DEF AnyFaction
            <4> QED
                BY <3>1, <3>3, <4>1
        <3> QED
            BY <2>2, <3>2, <3>3
    <2> QED
        BY <2>1, <2>3, <2>4 DEF WarInv, Even, EndsWith
<1>3. ASSUME NEW f \in Fetchers, Look(f) PROVE WarInv'
    BY <1>3 DEF Look, world, WarInv, Even, EndsWith
<1>4. ASSUME NEW f \in Fetchers, Fetch(f) PROVE WarInv'
    <2>1. UNCHANGED <<clock, occupier, points, history, warMap, next>> /\ at[f] = "fetch"
        BY <1>4 DEF Fetch, world
    <2>2. [occupier |-> occupier, points |-> points] \in Maps
        BY DEF WarInv, Maps
    <2>3. seen' \in [Fetchers -> Maps \cup {<<>>}] /\ \A g \in Fetchers : g # f => seen'[g] = seen[g]
        BY <1>4, <2>2 DEF Fetch, WarInv
    <2>4. /\ at' \in [Fetchers -> {"idle", "fetch", "load", "save"}]
          /\ \A g \in Fetchers : g # f => at'[g] = at[g]
          /\ at'[f] # "save" /\ (at'[f] = "load" => seen'[f] \in Maps)
        BY <1>4, <2>2 DEF Fetch, WarInv
    <2> QED
        BY <2>1, <2>3, <2>4 DEF WarInv, Even, EndsWith
<1>5. ASSUME NEW f \in Fetchers, LoadHistory(f) PROVE WarInv'
    <2> DEFINE sample(s) == [ts |-> clock, points |-> seen[f].points[s], occupier |-> seen[f].occupier[s]]
    <2>1. /\ UNCHANGED <<clock, occupier, points, history, warMap, seen>> /\ at[f] = "load"
          /\ at' = [at EXCEPT ![f] = "save"]
          /\ next' = [next EXCEPT ![f] = [s \in Systems |-> Extended(history[s], sample(s))]]
        BY <1>5 DEF LoadHistory, world
    <2>2. clock \in Nat /\ seen[f] \in Maps
        BY <2>1 DEF WarInv
    <2>3. ASSUME NEW s \in Systems
          PROVE  /\ Extended(history[s], sample(s)) \in Seq(Samples)
                 /\ Even(Extended(history[s], sample(s)))
                 /\ EndsWith(Extended(history[s], sample(s)), seen[f].points[s], seen[f].occupier[s])
        <3>1. history[s] \in Seq(Samples) /\ Even(history[s])
            BY DEF WarInv
        <3>2. seen[f].points[s] \in 0..Threshold /\ seen[f].occupier[s] \in AnyFaction
            BY <2>2 DEF Maps
        <3>3. sample(s) \in Samples /\ sample(s).ts = clock
            BY <2>2, <3>2 DEF Samples
        <3> HIDE DEF sample
        <3>4. /\ Extended(history[s], sample(s)) \in Seq(Samples) /\ Even(Extended(history[s], sample(s)))
              /\ Extended(history[s], sample(s)) # <<>>
              /\ Extended(history[s], sample(s))[Len(Extended(history[s], sample(s)))] = sample(s)
            BY <2>2, <3>1, <3>3, ExtendedIsEven
        <3>5. sample(s).points = seen[f].points[s] /\ sample(s).occupier = seen[f].occupier[s]
            BY DEF sample
        <3> QED
            BY <3>4, <3>5 DEF EndsWith
    <2> HIDE DEF sample
    <2>4. /\ next' \in [Fetchers -> [Systems -> Seq(Samples)] \cup {<<>>}]
          /\ next'[f] = [s \in Systems |-> Extended(history[s], sample(s))]
          /\ \A g \in Fetchers : g # f => next'[g] = next[g]
        BY <2>1, <2>3 DEF WarInv
    <2>5. /\ at' \in [Fetchers -> {"idle", "fetch", "load", "save"}]
          /\ \A g \in Fetchers : g # f => at'[g] = at[g]
        BY <2>1 DEF WarInv
    <2>6. /\ next'[f] \in [Systems -> Seq(Samples)]
          /\ \A s \in Systems : Even(next'[f][s]) /\ EndsWith(next'[f][s], seen[f].points[s], seen[f].occupier[s])
        BY <2>3, <2>4
    <2>7. \A g \in Fetchers : at'[g] = "save" =>
             /\ next'[g] \in [Systems -> Seq(Samples)]
             /\ \A s \in Systems : Even(next'[g][s]) /\ EndsWith(next'[g][s], seen[g].points[s], seen[g].occupier[s])
        BY <2>4, <2>5, <2>6 DEF WarInv
    <2>8. \A g \in Fetchers : at'[g] \in {"load", "save"} => seen'[g] \in Maps
        BY <2>1, <2>2, <2>5 DEF WarInv
    <2> QED
        BY <2>1, <2>4, <2>5, <2>7, <2>8 DEF WarInv, Even, EndsWith
<1>6. ASSUME NEW f \in Fetchers, SaveHistory(f) PROVE WarInv'
    <2>1. /\ UNCHANGED <<clock, occupier, points>> /\ at[f] = "save"
          /\ history' = next[f] /\ at' = [at EXCEPT ![f] = "idle"]
          /\ seen' = [seen EXCEPT ![f] = <<>>] /\ next' = [next EXCEPT ![f] = <<>>]
          /\ warMap' = [occupier |-> seen[f].occupier, front |-> Classify(seen[f].occupier),
                        delta |-> [s \in Systems |-> Delta(next[f][s])]]
        BY <1>6 DEF SaveHistory, world
    <2>2. warMap'.front = Classify(warMap'.occupier)
        BY <2>1 DEF Classify, Frontline
    <2>3. history' \in [Systems -> Seq(Samples)] /\ \A s \in Systems : Even(history'[s])
        BY <2>1 DEF WarInv
    <2>4. /\ at' \in [Fetchers -> {"idle", "fetch", "load", "save"}]
          /\ seen' \in [Fetchers -> Maps \cup {<<>>}]
          /\ next' \in [Fetchers -> [Systems -> Seq(Samples)] \cup {<<>>}]
          /\ at'[f] = "idle"
          /\ \A g \in Fetchers : g # f => at'[g] = at[g] /\ seen'[g] = seen[g] /\ next'[g] = next[g]
        BY <2>1 DEF WarInv
    <2> QED
        BY <2>1, <2>2, <2>3, <2>4 DEF WarInv, Even, EndsWith, Classify, Frontline
<1>7. CASE UNCHANGED wVars
    BY <1>7 DEF wVars, WarInv, Even, EndsWith
<1> QED
    BY <1>1, <1>2, <1>3, <1>4, <1>5, <1>6, <1>7 DEF WarNext

(* intel_fw_systems, classify_battlefield, update_vp_history: for any map  *)
(* and any number of fetches that overlap, the front has two sides and no  *)
(* trend mixes occupiers or reaches behind the window.                     *)
THEOREM WarAlwaysSound == ASSUME WarAssumption PROVE WarSpec => []WarSound
<1>1. WarInv => FrontHasTwoSides
    <2> SUFFICES ASSUME WarInv, warMap # NoMap, NEW a \in Systems
                 PROVE  /\ warMap.front[a] = "frontline" =>
                             \E b \in Systems : /\ Adjacent(a, b) /\ warMap.front[b] = "frontline"
                                                /\ warMap.occupier[b] # warMap.occupier[a]
                        /\ warMap.front[a] = "rearguard" =>
                             \A b \in Systems : Adjacent(a, b) => warMap.front[b] # "frontline"
        BY DEF FrontHasTwoSides
    <2>1. warMap.front = Classify(warMap.occupier)
        BY DEF WarInv
    <2> QED
        BY <2>1, ClassifyHasTwoSides
<1>2. WarInv => TrendWithinOccupation
    <2> SUFFICES ASSUME WarInv PROVE TrendWithinOccupation
        OBVIOUS
    <2>1. \A s \in Systems : \A i \in 1..Len(history[s]) :
             /\ history[s][i].occupier = history[s][Len(history[s])].occupier
             /\ i > 1 => history[s][i - 1].ts <= history[s][i].ts
        BY DEF WarInv, Even
    <2>2. ASSUME NEW f \in Fetchers, at[f] = "save", NEW s \in Systems, Delta(next[f][s]) # NoTrend
          PROVE  \E x \in {next[f][s][i] : i \in 1..Len(next[f][s])} :
                    /\ next[f][s][Len(next[f][s])].ts - x.ts <= VpWindow /\ x.occupier = seen[f].occupier[s]
                    /\ Delta(next[f][s]) = seen[f].points[s] - x.points
        <3> DEFINE h == next[f][s]
        <3>1. h \in Seq(Samples) /\ Even(h) /\ EndsWith(h, seen[f].points[s], seen[f].occupier[s])
            BY <2>2 DEF WarInv
        <3>2. h # <<>> /\ h[Len(h)].points = seen[f].points[s] /\ h[Len(h)].occupier = seen[f].occupier[s]
            BY <3>1 DEF EndsWith
        <3>3. Oldest(h) \in 1..Len(h) /\ h[Len(h)].ts - h[Oldest(h)].ts <= VpWindow
            BY <3>1, <3>2, OldestIsIn
        <3>4. Delta(h) = h[Len(h)].points - h[Oldest(h)].points
            BY <2>2 DEF Delta
        <3>5. h[Oldest(h)].occupier = h[Len(h)].occupier
            BY <3>1, <3>3 DEF Even
        <3> QED
            BY <3>2, <3>3, <3>4, <3>5
    <2> QED
        BY <2>1, <2>2 DEF TrendWithinOccupation
<1> QED
    BY <1>1, <1>2, WarBegins, WarStep, PTL DEF WarSpec, WarSound

-----------------------------------------------------------------------------
(* The loop finds cheapest ways.  A system is settled when the entry of its *)
(* best cost has left the heap: its edges have been tried, and nothing in   *)
(* the heap is cheaper.                                                     *)

Cost == Nat \X Nat
Zero == <<0, 0>>
AtMost(a, b) == ~Less(b, a)

LEMMA CostOrder ==
    ASSUME NEW a \in Cost, NEW b \in Cost, NEW c \in Cost
    PROVE  /\ AtMost(a, a) /\ AtMost(Zero, a)
           /\ AtMost(a, b) /\ AtMost(b, c) => AtMost(a, c)
           /\ AtMost(a, b) /\ AtMost(b, a) => a = b
           /\ AtMost(a, b) \/ Less(b, a)
           /\ Less(a, b) => AtMost(a, b) /\ ~AtMost(b, a)
           /\ AtMost(a, b) /\ Less(b, c) => Less(a, c)
           /\ Less(a, b) /\ AtMost(b, c) => Less(a, c)
<1>1. /\ a = <<a[1], a[2]>> /\ b = <<b[1], b[2]>>
      /\ a[1] \in Nat /\ a[2] \in Nat /\ b[1] \in Nat /\ b[2] \in Nat /\ c[1] \in Nat /\ c[2] \in Nat
      /\ Zero[1] = 0 /\ Zero[2] = 0
  BY DEF Cost, Zero
<1>2. AtMost(a, b) /\ AtMost(b, a) => a[1] = b[1] /\ a[2] = b[2]
  BY <1>1 DEF AtMost, Less
<1>3. AtMost(a, b) /\ AtMost(b, a) => a = b
  BY <1>1, <1>2, Zenon
<1> QED
  BY <1>1, <1>3 DEF AtMost, Less

LEMMA CostSum ==
    ASSUME NEW a \in Cost, NEW b \in Cost, NEW x \in Cost
    PROVE  /\ Plus(a, x) \in Cost
           /\ x # Zero => Less(a, Plus(a, x))
           /\ AtMost(a, Plus(a, x))
           /\ AtMost(a, b) => AtMost(Plus(a, x), Plus(b, x))
<1>1. /\ a[1] \in Nat /\ a[2] \in Nat /\ b[1] \in Nat /\ b[2] \in Nat /\ x[1] \in Nat /\ x[2] \in Nat
      /\ x = <<x[1], x[2]>>
  BY DEF Cost
<1>2. /\ Plus(a, x) \in Cost
      /\ Plus(a, x)[1] = a[1] + x[1] /\ Plus(a, x)[2] = a[2] + x[2]
      /\ Plus(b, x)[1] = b[1] + x[1] /\ Plus(b, x)[2] = b[2] + x[2]
  BY <1>1 DEF Plus, Cost
<1>3. x # Zero => x[1] # 0 \/ x[2] # 0
  BY <1>1 DEF Zero
<1> HIDE DEF Plus
<1> QED
  BY <1>1, <1>2, <1>3 DEF AtMost, Less

Preferences == {"safer", "plain", "shortest", "secure", "insecure"}

LEMMA EnterCosts ==
    ASSUME RoutingAssumption, ask.prefer \in Preferences, NEW s
    PROVE  Enter(s) \in Cost /\ Enter(s) # Zero
<1>1. Dangerous \in Nat /\ Dangerous # 0
  BY DEF RoutingAssumption
<1>2. ASSUME NEW m \in Nat, NEW n \in Nat, m # 0 \/ n # 0 PROVE <<m, n>> \in Cost /\ <<m, n>> # Zero
  BY <1>2 DEF Cost, Zero
<1>3. CASE ask.prefer = "safer"
  BY <1>1, <1>2, <1>3 DEF Enter
<1>4. CASE ask.prefer = "plain"
  BY <1>2, <1>4 DEF Enter
<1>5. CASE ask.prefer = "shortest"
  BY <1>2, <1>5 DEF Enter
<1>6. CASE ask.prefer = "secure"
  BY <1>2, <1>6 DEF Enter
<1>7. CASE ask.prefer = "insecure"
  BY <1>2, <1>7 DEF Enter
<1> QED
  BY <1>3, <1>4, <1>5, <1>6, <1>7 DEF Preferences

(* The least entry of the heap is one.                                     *)
LEMMA LeastIs ==
    ASSUME Nodes \subseteq Nat, heap \subseteq Cost \X Nodes, heap # {}
    PROVE  Least \in heap /\ \A h \in heap : AtMost(Least[1], h[1])
<1> DEFINE Firsts == {n \in Nat : \E h \in heap : h[1][1] = n}
           Seconds(m) == {n \in Nat : \E h \in heap : h[1][1] = m /\ h[1][2] = n}
           Thirds(m, n) == {s \in Nat : \E h \in heap : h[1][1] = m /\ h[1][2] = n /\ h[2] = s}
<1>1. \A h \in heap : /\ h = <<h[1], h[2]>> /\ h[1] = <<h[1][1], h[1][2]>>
                      /\ h[1][1] \in Nat /\ h[1][2] \in Nat /\ h[2] \in Nat
                      /\ h[1] \in Cost
  <2> SUFFICES ASSUME NEW h \in heap
               PROVE  /\ h = <<h[1], h[2]>> /\ h[1] = <<h[1][1], h[1][2]>>
                      /\ h[1][1] \in Nat /\ h[1][2] \in Nat /\ h[2] \in Nat
                      /\ h[1] \in Cost
    OBVIOUS
  <2>1. h \in Cost \X Nodes
    OBVIOUS
  <2>2. h = <<h[1], h[2]>> /\ h[1] \in Cost /\ h[2] \in Nodes
    BY <2>1
  <2>3. h[1] = <<h[1][1], h[1][2]>> /\ h[1][1] \in Nat /\ h[1][2] \in Nat
    BY <2>2 DEF Cost
  <2> QED
    BY <2>2, <2>3
<1>2. PICK m \in Firsts : \A x \in Firsts : m <= x
  <2>1. Firsts # {} /\ Firsts \in SUBSET Nat
    BY <1>1
  <2> HIDE DEF Firsts
  <2> QED
    BY <2>1, LeastNatural
<1>3. PICK n \in Seconds(m) : \A x \in Seconds(m) : n <= x
  <2>1. Seconds(m) # {} /\ Seconds(m) \in SUBSET Nat
    BY <1>1, <1>2
  <2> HIDE DEF Seconds
  <2> QED
    BY <2>1, LeastNatural
<1>4. PICK s \in Thirds(m, n) : \A x \in Thirds(m, n) : s <= x
  <2>1. Thirds(m, n) # {} /\ Thirds(m, n) \in SUBSET Nat
    BY <1>1, <1>3
  <2> HIDE DEF Thirds
  <2> QED
    BY <2>1, LeastNatural
<1>5. PICK h \in heap : h[1][1] = m /\ h[1][2] = n /\ h[2] = s
  BY <1>4
<1>6. ASSUME NEW k \in heap PROVE k = h \/ Less(h[1], k[1]) \/ (h[1] = k[1] /\ h[2] <= k[2])
  <2>1. k[1][1] \in Firsts /\ m <= k[1][1]
    BY <1>1, <1>2
  <2>2. k[1][1] = m => n <= k[1][2]
    <3>1. k[1][1] = m => k[1][2] \in Seconds(m)
      BY <1>1
    <3> QED
      BY <1>3, <3>1
  <2>3. k[1][1] = m /\ k[1][2] = n => s <= k[2]
    <3>1. k[1][1] = m /\ k[1][2] = n => k[2] \in Thirds(m, n)
      BY <1>1
    <3> QED
      BY <1>4, <3>1
  <2>4. k[1][1] = m /\ k[1][2] = n => h[1] = k[1]
    <3>1. h[1] = <<h[1][1], h[1][2]>> /\ k[1] = <<k[1][1], k[1][2]>>
      BY <1>1
    <3> QED
      BY ONLY <1>5, <3>1
  <2> QED
    BY <1>1, <1>2, <1>3, <1>5, <2>1, <2>2, <2>3, <2>4 DEF Less
<1>7. Least \in heap /\ \A k \in heap : k = Least \/ Less(Least[1], k[1]) \/ (Least[1] = k[1] /\ Least[2] <= k[2])
  BY <1>6 DEF Least
<1>8. ASSUME NEW k \in heap PROVE AtMost(Least[1], k[1])
  <2>1. k[1] \in Cost /\ Least[1] \in Cost
    BY <1>1, <1>7
  <2> QED
    BY <1>7, <2>1, CostOrder
<1> QED
  BY <1>7, <1>8

EdgeSet == [to : Nodes, via : {"stargate", "wormhole"}, critical : BOOLEAN]
AdjTyped == \A u \in Nodes : adj[u] \in Seq(EdgeSet)

Bests == UNION {[S -> Cost] : S \in SUBSET Nodes}
Froms == UNION {[S -> [from : Nodes, edge : EdgeSet]] : S \in SUBSET Nodes}
Searches == [dist : Bests, prev : Froms, heap : SUBSET (Cost \X Nodes)]

Settled(D, H) == {v \in DOMAIN D : <<D[v], v>> \notin H}

Typed(D, P, H) == D \in Bests /\ P \in Froms /\ H \subseteq Cost \X Nodes

(* A best cost is that of a settled system and of the edge out of it.      *)
Reached(D, P, H, s) ==
    /\ P[s].from \in Settled(D, H)
    /\ P[s].edge \in SeqRange(adj[P[s].from]) /\ P[s].edge.to = s
    /\ D[s] = Plus(D[P[s].from], Enter(s))

Sound(D, P, H) ==
    /\ ask.origin \in DOMAIN D /\ D[ask.origin] = Zero
    /\ \A h \in H : h[2] \in DOMAIN D /\ AtMost(D[h[2]], h[1])
    /\ DOMAIN P = DOMAIN D \ {ask.origin}
    /\ \A s \in DOMAIN P : Reached(D, P, H, s)
    /\ \A v \in Settled(D, H), h \in H : AtMost(D[v], h[1])
    /\ ask.dest \notin Settled(D, H)

WasTried(D, v, e) == e.to \in DOMAIN D /\ AtMost(D[e.to], Plus(D[v], Enter(e.to)))
AllTried(D, v) == \A i \in DOMAIN adj[v] : WasTried(D, v, adj[v][i])

Searched(D, P, H) == Typed(D, P, H) /\ Sound(D, P, H) /\ \A v \in Settled(D, H) : AllTried(D, v)

(* The same while u, the latest to be settled, has tried its first n edges. *)
Searching(D, P, H, d, u, n) ==
    /\ Typed(D, P, H) /\ Sound(D, P, H)
    /\ u \in Settled(D, H) /\ D[u] = d
    /\ \A v \in Settled(D, H) : AtMost(D[v], d)
    /\ \A h \in H : AtMost(d, h[1])
    /\ \A v \in Settled(D, H) \ {u} : AllTried(D, v)
    /\ \A i \in DOMAIN adj[u] : i <= n => WasTried(D, u, adj[u][i])

LEMMA BestsAre ==
    ASSUME NEW D \in Bests
    PROVE  DOMAIN D \subseteq Nodes /\ \A s \in DOMAIN D : D[s] \in Cost
BY DEF Bests

LEMMA BindTyped ==
    ASSUME NEW D \in Bests, NEW P \in Froms, NEW s \in Nodes, NEW c \in Cost, NEW p \in [from : Nodes, edge : EdgeSet]
    PROVE  Bind(D, s, c) \in Bests /\ Bind(P, s, p) \in Froms
<1>1. PICK S \in SUBSET Nodes : D \in [S -> Cost]
  BY DEF Bests
<1>2. Bind(D, s, c) \in [S \cup {s} -> Cost]
  BY <1>1 DEF Bind
<1>3. PICK T \in SUBSET Nodes : P \in [T -> [from : Nodes, edge : EdgeSet]]
  BY DEF Froms
<1>4. Bind(P, s, p) \in [T \cup {s} -> [from : Nodes, edge : EdgeSet]]
  <2> DEFINE F == [from : Nodes, edge : EdgeSet]
  <2>1. P \in [T -> F] /\ p \in F
    BY <1>3
  <2> HIDE DEF F
  <2>2. Bind(P, s, p) \in [T \cup {s} -> F]
    BY <2>1 DEF Bind
  <2> QED
    BY <2>2 DEF F
<1>5. S \cup {s} \in SUBSET Nodes /\ T \cup {s} \in SUBSET Nodes
  OBVIOUS
<1> QED
  BY <1>2, <1>4, <1>5 DEF Bests, Froms

(* A better way to a system by an edge out of u takes its place.           *)
LEMMA BetterKeeps ==
    ASSUME RoutingAssumption, ask.prefer \in Preferences, ask.origin \in Nodes, AdjTyped,
           NEW D, NEW P, NEW H, NEW d, NEW u, NEW n \in Nat, Searching(D, P, H, d, u, n),
           n + 1 \in DOMAIN adj[u], NEW e, e = adj[u][n + 1],
           NEW c, c = Plus(d, Enter(e.to)), Improves(D, e.to, c)
    PROVE  Searching(Bind(D, e.to, c), Bind(P, e.to, [from |-> u, edge |-> e]), H \cup {<<c, e.to>>}, d, u, n + 1)
<1> DEFINE s == e.to
           D2 == Bind(D, s, c)
           P2 == Bind(P, s, [from |-> u, edge |-> e])
           H2 == H \cup {<<c, s>>}
<1>1. /\ D \in Bests /\ P \in Froms /\ H \subseteq Cost \X Nodes
      /\ DOMAIN D \subseteq Nodes /\ \A x \in DOMAIN D : D[x] \in Cost
      /\ u \in DOMAIN D /\ u \in Nodes /\ D[u] = d /\ d \in Cost
  BY BestsAre DEF Searching, Typed, Settled
<1>2. adj[u] \in Seq(EdgeSet) /\ e \in EdgeSet /\ s \in Nodes /\ e \in SeqRange(adj[u])
  <2>1. adj[u] \in Seq(EdgeSet)
    BY <1>1 DEF AdjTyped
  <2>2. e \in EdgeSet
    BY <2>1
  <2>3. s \in Nodes
    BY <2>2 DEF EdgeSet
  <2>4. e \in SeqRange(adj[u])
    BY DEF SeqRange
  <2> QED
    BY <2>1, <2>2, <2>3, <2>4
<1>3. \A x : Enter(x) \in Cost /\ Enter(x) # Zero
  BY EnterCosts
<1>4. c \in Cost /\ Less(d, c) /\ AtMost(d, c)
  BY <1>1, <1>3, CostSum
<1>5. s \in DOMAIN D => Less(c, D[s])
  BY DEF Improves
<1>6. s \notin Settled(D, H)
  <2> SUFFICES ASSUME s \in Settled(D, H) PROVE FALSE
    OBVIOUS
  <2>1. s \in DOMAIN D /\ AtMost(D[s], d) /\ Less(c, D[s]) /\ D[s] \in Cost
    BY <1>1, <1>5 DEF Searching, Settled
  <2> QED
    BY <1>1, <1>4, <2>1, CostOrder
<1>7. s # u /\ s # ask.origin
  <2>1. s # u
    BY <1>6 DEF Searching
  <2>2. s # ask.origin
    <3> SUFFICES ASSUME s = ask.origin PROVE FALSE
      OBVIOUS
    <3>1. s \in DOMAIN D /\ D[s] = Zero /\ Less(c, Zero)
      BY <1>5, SMTT(40) DEF Searching, Sound
    <3> QED
      BY <1>4, <3>1, CostOrder, SMTT(30) DEF AtMost
  <2> QED
    BY <2>1, <2>2
<1>8. /\ DOMAIN D2 = DOMAIN D \cup {s} /\ D2[s] = c
      /\ \A x \in DOMAIN D : x # s => D2[x] = D[x]
      /\ DOMAIN P2 = DOMAIN P \cup {s} /\ P2[s] = [from |-> u, edge |-> e]
      /\ \A x \in DOMAIN P : x # s => P2[x] = P[x]
  <2>1. /\ DOMAIN D2 = DOMAIN D \cup {s} /\ D2[s] = c
        /\ \A x \in DOMAIN D : x # s => D2[x] = D[x]
    BY ONLY DEF Bind
  <2>2. /\ DOMAIN P2 = DOMAIN P \cup {s} /\ P2[s] = [from |-> u, edge |-> e]
        /\ \A x \in DOMAIN P : x # s => P2[x] = P[x]
    <3> DEFINE p == [from |-> u, edge |-> e]
    <3> HIDE DEF p
    <3>1. /\ DOMAIN Bind(P, s, p) = DOMAIN P \cup {s} /\ Bind(P, s, p)[s] = p
          /\ \A x \in DOMAIN P : x # s => Bind(P, s, p)[x] = P[x]
      BY ONLY DEF Bind
    <3> QED
      BY <3>1 DEF p
  <2> QED
    BY <2>1, <2>2
<1>9. Typed(D2, P2, H2)
  <2>1. [from |-> u, edge |-> e] \in [from : Nodes, edge : EdgeSet]
    BY <1>1, <1>2
  <2>2. D2 \in Bests /\ P2 \in Froms
    BY <1>1, <1>2, <1>4, <2>1, BindTyped
  <2> QED
    BY <1>1, <1>2, <1>4, <2>2 DEF Typed
<1> HIDE DEF D2, P2
<1>10. Settled(D2, H2) = Settled(D, H)
  <2>1. ASSUME NEW x \in DOMAIN D, x # s PROVE <<D2[x], x>> \in H2 <=> <<D[x], x>> \in H
    BY <1>8, <2>1
  <2>2. <<D2[s], s>> \in H2
    BY <1>8
  <2> QED
    BY <1>6, <1>8, <2>1, <2>2 DEF Settled
<1>11. \A v \in Settled(D, H) : v \in DOMAIN D /\ v # s /\ D2[v] = D[v] /\ AtMost(D[v], d)
  BY <1>6, <1>8 DEF Settled, Searching
<1>12. ASSUME NEW x \in DOMAIN D PROVE x \in DOMAIN D2 /\ AtMost(D2[x], D[x])
  <2>1. CASE x = s
    BY <1>1, <1>4, <1>5, <1>8, <2>1, CostOrder
  <2>2. CASE x # s
    BY <1>1, <1>8, <2>2, CostOrder
  <2> QED
    BY <1>8, <2>1, <2>2
<1>13. ASSUME NEW v \in Settled(D, H), NEW f \in EdgeSet, WasTried(D, v, f) PROVE WasTried(D2, v, f)
  <2>1. f.to \in DOMAIN D /\ AtMost(D[f.to], Plus(D[v], Enter(f.to))) /\ D2[v] = D[v] /\ D[v] \in Cost
    BY <1>1, <1>11, <1>13 DEF WasTried
  <2>2. f.to \in DOMAIN D2 /\ AtMost(D2[f.to], D[f.to]) /\ D2[f.to] \in Cost /\ D[f.to] \in Cost
    BY <1>1, <1>12, <1>9, <2>1, BestsAre DEF Typed
  <2>3. Plus(D[v], Enter(f.to)) \in Cost
    BY <1>3, <2>1, CostSum
  <2> QED
    BY <2>1, <2>2, <2>3, CostOrder DEF WasTried
<1>14. \A v \in Settled(D, H) \ {u} : AllTried(D2, v)
  <2> SUFFICES ASSUME NEW v \in Settled(D, H) \ {u}, NEW i \in DOMAIN adj[v] PROVE WasTried(D2, v, adj[v][i])
    BY DEF AllTried
  <2>1. WasTried(D, v, adj[v][i])
    BY DEF Searching, AllTried
  <2>2. adj[v][i] \in EdgeSet
    <3>1. v \in Nodes /\ adj[v] \in Seq(EdgeSet)
      BY <1>1, <1>11 DEF AdjTyped
    <3> QED
      BY <3>1
  <2> QED
    BY <1>13, <2>1, <2>2
<1>15. ASSUME NEW i \in DOMAIN adj[u], i <= n + 1 PROVE WasTried(D2, u, adj[u][i])
  <2>1. CASE i = n + 1
    <3>1. D2[u] = d /\ D2[s] = c /\ s \in DOMAIN D2
      BY <1>1, <1>7, <1>8
    <3> QED
      BY <1>4, <2>1, <3>1, CostOrder DEF WasTried
  <2>2. CASE i # n + 1
    <3>1. i \in Nat /\ i <= n /\ adj[u][i] \in EdgeSet
      BY <1>2, <1>15, <2>2
    <3>2. WasTried(D, u, adj[u][i]) /\ u \in Settled(D, H)
      BY <3>1 DEF Searching
    <3> QED
      BY <1>13, <3>1, <3>2
  <2> QED
    BY <2>1, <2>2
<1>16. ASSUME NEW x \in DOMAIN P2 PROVE Reached(D2, P2, H2, x)
  <2>1. CASE x = s
    <3>1. P2[x].from = u /\ P2[x].edge = e /\ D2[x] = c /\ D2[u] = d /\ u \in Settled(D, H)
      BY <1>1, <1>7, <1>8, <2>1 DEF Searching
    <3> QED
      BY <1>2, <1>10, <2>1, <3>1 DEF Reached
  <2>2. CASE x # s
    <3>1. x \in DOMAIN P /\ P2[x] = P[x] /\ x \in DOMAIN D /\ D2[x] = D[x]
      BY <1>8, <2>2 DEF Searching, Sound
    <3>2. Reached(D, P, H, x)
      BY <3>1 DEF Searching, Sound
    <3>3. D2[P[x].from] = D[P[x].from]
      BY <1>11, <3>2 DEF Reached
    <3> QED
      BY <1>10, <3>1, <3>2, <3>3 DEF Reached
  <2> QED
    BY <2>1, <2>2
<1>17. \A h \in H2 : h[2] \in DOMAIN D2 /\ AtMost(D2[h[2]], h[1]) /\ AtMost(d, h[1])
  <2> SUFFICES ASSUME NEW h \in H2 PROVE h[2] \in DOMAIN D2 /\ AtMost(D2[h[2]], h[1]) /\ AtMost(d, h[1])
    OBVIOUS
  <2>1. CASE h = <<c, s>>
    <3>1. h[1] = c /\ h[2] = s
      BY <2>1
    <3> QED
      BY <1>4, <1>8, <3>1, CostOrder
  <2>2. CASE h \in H
    <3>1. h[2] \in DOMAIN D /\ AtMost(D[h[2]], h[1]) /\ AtMost(d, h[1]) /\ h[1] \in Cost
      BY <1>1, <2>2 DEF Searching, Sound
    <3>2. h[2] \in DOMAIN D2 /\ AtMost(D2[h[2]], D[h[2]]) /\ D2[h[2]] \in Cost /\ D[h[2]] \in Cost
      BY <1>1, <1>9, <1>12, <3>1, BestsAre DEF Typed
    <3> QED
      BY <3>1, <3>2, CostOrder
  <2> QED
    BY <2>1, <2>2
<1>18. \A v \in Settled(D, H), h \in H2 : AtMost(D2[v], h[1])
  <2> SUFFICES ASSUME NEW v \in Settled(D, H), NEW h \in H2 PROVE AtMost(D2[v], h[1])
    OBVIOUS
  <2>1. D2[v] = D[v] /\ D[v] \in Cost /\ AtMost(D[v], d) /\ AtMost(d, h[1])
    BY <1>1, <1>11, <1>17
  <2>2. h[1] \in Cost
    BY <1>9 DEF Typed
  <2> QED
    BY <1>1, <2>1, <2>2, CostOrder
<1>19. Sound(D2, P2, H2)
  <2>1. ask.origin \in DOMAIN D2 /\ D2[ask.origin] = Zero /\ DOMAIN P2 = DOMAIN D2 \ {ask.origin}
    BY <1>7, <1>8 DEF Searching, Sound
  <2>2. ask.dest \notin Settled(D2, H2)
    BY <1>10 DEF Searching, Sound
  <2> QED
    BY <1>10, <1>16, <1>17, <1>18, <2>1, <2>2, ZenonT(30) DEF Sound
<1>20. u \in Settled(D2, H2) /\ D2[u] = d
  BY <1>1, <1>7, <1>8, <1>10 DEF Searching
<1>21. \A v \in Settled(D2, H2) : AtMost(D2[v], d)
  BY <1>10, <1>11
<1>22. \A v \in Settled(D2, H2) \ {u} : AllTried(D2, v)
  BY <1>10, <1>14
<1>23. Searching(D2, P2, H2, d, u, n + 1)
  BY <1>9, <1>15, <1>17, <1>19, <1>20, <1>21, <1>22 DEF Searching
<1> QED
  BY <1>23 DEF D2, P2

LEMMA TriedKeeps ==
    ASSUME RoutingAssumption, ask.prefer \in Preferences, ask.origin \in Nodes, AdjTyped,
           NEW s \in Searches, NEW d, NEW u, NEW n \in Nat, Searching(s.dist, s.prev, s.heap, d, u, n),
           n + 1 \in DOMAIN adj[u], NEW t, t = Tried(s, d, u, adj[u][n + 1])
    PROVE  t \in Searches /\ Searching(t.dist, t.prev, t.heap, d, u, n + 1)
<1> DEFINE e == adj[u][n + 1]
           c == Plus(d, Enter(e.to))
           better == [dist |-> Bind(s.dist, e.to, c), prev |-> Bind(s.prev, e.to, [from |-> u, edge |-> e]),
                      heap |-> s.heap \cup {<<c, e.to>>}]
<1>1. t = IF ~Improves(s.dist, e.to, c) THEN s ELSE better
  BY DEF Tried
<1>2. CASE Improves(s.dist, e.to, c)
  <2>1. /\ t = better
        /\ better.dist = Bind(s.dist, e.to, c) /\ better.prev = Bind(s.prev, e.to, [from |-> u, edge |-> e])
        /\ better.heap = s.heap \cup {<<c, e.to>>}
    BY <1>1, <1>2
  <2> HIDE DEF e, c, better
  <2>2. e = adj[u][n + 1] /\ c = Plus(d, Enter(e.to))
    BY DEF e, c
  <2>3. Searching(better.dist, better.prev, better.heap, d, u, n + 1)
    <3> DEFINE D == s.dist
               P == s.prev
               H == s.heap
    <3>1. Searching(D, P, H, d, u, n) /\ Improves(D, e.to, c)
      BY <1>2 DEF c, e
    <3> HIDE DEF D, P, H
    <3>2. Searching(Bind(D, e.to, c), Bind(P, e.to, [from |-> u, edge |-> e]), H \cup {<<c, e.to>>}, d, u, n + 1)
      BY <2>2, <3>1, BetterKeeps
    <3> QED
      BY <2>1, <3>2 DEF D, P, H
  <2>4. Typed(better.dist, better.prev, better.heap)
    BY <2>3 DEF Searching
  <2>5. better = [dist |-> better.dist, prev |-> better.prev, heap |-> better.heap]
    BY DEF better
  <2>6. better \in Searches
    BY <2>4, <2>5 DEF Searches, Typed
  <2> QED
    BY <2>1, <2>3, <2>6
<1>3. CASE ~Improves(s.dist, e.to, c)
  <2>1. t = s
    BY <1>1, <1>3
  <2>2. e.to \in DOMAIN s.dist /\ AtMost(s.dist[e.to], c)
    BY <1>3 DEF Improves, AtMost
  <2>3. WasTried(s.dist, u, e)
    BY <2>2 DEF WasTried, Searching
  <2>4. \A i \in DOMAIN adj[u] : i <= n + 1 => i <= n \/ i = n + 1
    <3>1. u \in Nodes
      BY BestsAre DEF Searching, Typed, Settled
    <3>2. adj[u] \in Seq(EdgeSet)
      BY <3>1 DEF AdjTyped
    <3> QED
      BY <3>2
  <2>5. Searching(s.dist, s.prev, s.heap, d, u, n + 1)
    BY <2>3, <2>4 DEF Searching
  <2> QED
    BY <2>1, <2>5
<1> QED
  BY <1>2, <1>3

(* All edges out of u, one after the other.                                *)
LEMMA RelaxedKeeps ==
    ASSUME RoutingAssumption, ask.prefer \in Preferences, ask.origin \in Nodes, AdjTyped,
           NEW d, NEW u, Searching(dist, prev, heap \ {<<d, u>>}, d, u, 0),
           NEW s, s = Relaxed(d, u)
    PROVE  s \in Searches /\ Searched(s.dist, s.prev, s.heap)
<1> DEFINE N == Len(adj[u])
           begin == [dist |-> dist, prev |-> prev, heap |-> heap \ {<<d, u>>}]
           Body(edge, n) == IF n = 0 THEN begin ELSE Tried(edge[n - 1], d, u, adj[u][n])
           Good(n) == {x \in Searches : Searching(x.dist, x.prev, x.heap, d, u, n)}
           edge == CHOOSE edge : edge = [n \in 0..N |-> Body(edge, n)]
<1>1. adj[u] \in Seq(EdgeSet) /\ N \in Nat /\ DOMAIN adj[u] = 1..N
  <2>1. u \in Nodes
    BY BestsAre DEF Searching, Typed, Settled
  <2>2. adj[u] \in Seq(EdgeSet)
    BY <2>1 DEF AdjTyped
  <2> QED
    BY <2>2
<1>2. s = edge[N]
  BY DEF Relaxed
<1>3. begin \in Good(0)
  <2>1. /\ begin = [dist |-> begin.dist, prev |-> begin.prev, heap |-> begin.heap]
        /\ begin.dist = dist /\ begin.prev = prev /\ begin.heap = heap \ {<<d, u>>}
    OBVIOUS
  <2> HIDE DEF begin
  <2>2. Searching(begin.dist, begin.prev, begin.heap, d, u, 0)
    BY <2>1
  <2>3. Typed(begin.dist, begin.prev, begin.heap)
    BY <2>2 DEF Searching
  <2>4. begin \in Searches
    BY <2>1, <2>3 DEF Searches, Typed
  <2> QED
    BY <2>2, <2>4
<1>4. ASSUME NEW n \in 1..N, NEW x \in Good(n - 1) PROVE Tried(x, d, u, adj[u][n]) \in Good(n)
  <2>1. n - 1 \in Nat /\ (n - 1) + 1 = n /\ n \in DOMAIN adj[u]
    BY <1>1
  <2>2. x \in Searches /\ Searching(x.dist, x.prev, x.heap, d, u, n - 1)
    BY <1>4
  <2> HIDE DEF N
  <2>3. /\ Tried(x, d, u, adj[u][n]) \in Searches
        /\ Searching(Tried(x, d, u, adj[u][n]).dist, Tried(x, d, u, adj[u][n]).prev,
                     Tried(x, d, u, adj[u][n]).heap, d, u, n)
    BY <2>1, <2>2, TriedKeeps
  <2> QED
    BY <2>3
<1> HIDE DEF Good, begin
<1>5. \A g : Body(g, 0) = begin /\ \A n \in 1..N : Body(g, n) = Tried(g[n - 1], d, u, adj[u][n])
  BY <1>1
<1> HIDE DEF N
<1> DEFINE X == [n \in 0..N |-> Good(n)]
           step == [n \in 1..N |-> [x \in Good(n - 1) |-> Tried(x, d, u, adj[u][n])]]
<1>6. /\ X[0] = Good(0)
      /\ \A n \in 1..N : X[n - 1] = Good(n - 1) /\ X[n] = Good(n)
      /\ \A n \in 1..N : \A x \in Good(n - 1) : step[n][x] = Tried(x, d, u, adj[u][n])
  BY <1>1
<1> HIDE DEF X, step
<1>7. PICK f : /\ f = [n \in 0..N |-> f[n]] /\ f[0] = begin
               /\ \A n \in 1..N : f[n] = step[n][f[n - 1]]
               /\ \A n \in 0..N : f[n] \in X[n]
  <2>1. \A n \in 1..N : \A x \in X[n - 1] : step[n][x] \in X[n]
    BY <1>4, <1>6
  <2>2. begin \in X[0]
    BY <1>3, <1>6
  <2>3. Staged(N, X, begin, step)
    BY <1>1, <2>1, <2>2, StagesDefine
  <2> QED
    BY <2>3 DEF Staged
<1>8. edge = [n \in 0..N |-> Body(edge, n)]
  <2>1. ASSUME NEW n \in 1..N PROVE f[n] = Tried(f[n - 1], d, u, adj[u][n])
    <3>1. n - 1 \in 0..N
      BY <1>1
    <3> QED
      BY <1>6, <1>7, <3>1
  <2> HIDE DEF Body
  <2>2. ASSUME NEW n \in 0..N PROVE f[n] = Body(f, n)
    <3>1. CASE n = 0
      BY <1>5, <1>7, <3>1
    <3>2. CASE n \in 1..N
      BY <1>5, <2>1, <3>2
    <3> QED
      BY <1>1, <3>1, <3>2
  <2>3. f = [n \in 0..N |-> Body(f, n)]
    BY <1>7, <2>2, Zenon
  <2> QED
    BY <2>3
<1> HIDE DEF edge, Body
<1>9. edge[0] = begin /\ \A n \in 1..N : edge[n] = Tried(edge[n - 1], d, u, adj[u][n])
  BY <1>1, <1>5, <1>8
<1>10. \A n \in 0..N : edge[n] \in X[n]
  <2>1. \A n \in 1..N : edge[n - 1] \in X[n - 1] => edge[n] \in X[n]
    BY <1>4, <1>6, <1>9
  <2>2. edge[0] \in X[0]
    BY <1>3, <1>6, <1>9
  <2> QED
    BY <1>1, <2>1, <2>2, StagesAre
<1>11. s \in Good(N)
  <2>1. N \in 0..N /\ X[N] = Good(N)
    BY <1>1 DEF X
  <2> QED
    BY <1>2, <1>10, <2>1
<1>12. s \in Searches /\ Searching(s.dist, s.prev, s.heap, d, u, N)
  BY <1>11 DEF Good
<1>13. AllTried(s.dist, u)
  BY <1>1, <1>12 DEF Searching, AllTried
<1> QED
  BY <1>12, <1>13 DEF Searched, Searching

(* The least entry: out of date, or that of the next system to settle.     *)
LEMMA StaleKeeps ==
    ASSUME RoutingAssumption, Searched(dist, prev, heap), heap # {}, Less(dist[Least[2]], Least[1])
    PROVE  Searched(dist, prev, heap \ {Least})
<1> DEFINE H == heap \ {Least}
<1>1. /\ dist \in Bests /\ prev \in Froms /\ heap \subseteq Cost \X Nodes /\ Nodes \subseteq Nat
      /\ \A x \in DOMAIN dist : dist[x] \in Cost
  BY BestsAre DEF Searched, Typed, RoutingAssumption
<1>2. Least \in heap /\ Least = <<Least[1], Least[2]>> /\ Least[1] \in Cost
  BY <1>1, LeastIs
<1>3. ASSUME NEW v \in DOMAIN dist, <<dist[v], v>> = Least PROVE FALSE
  <2>1. dist[v] = Least[1] /\ v = Least[2] /\ dist[v] \in Cost
    BY <1>1, <1>2, <1>3
  <2> QED
    BY <2>1, CostOrder DEF AtMost
<1>4. Settled(dist, H) = Settled(dist, heap)
  BY <1>3 DEF Settled
<1>5. Typed(dist, prev, H)
  BY <1>1 DEF Typed
<1>6. Sound(dist, prev, H)
  <2> H \subseteq heap
    OBVIOUS
  <2>1. Sound(dist, prev, heap)
    BY DEF Searched
  <2>2. \A x \in DOMAIN prev : Reached(dist, prev, H, x)
    BY <1>4, <2>1 DEF Sound, Reached
  <2> HIDE DEF H
  <2> QED
    BY <1>4, <2>1, <2>2 DEF Sound
<1> HIDE DEF H
<1>7. Searched(dist, prev, H)
  BY <1>4, <1>5, <1>6 DEF Searched
<1> QED
  BY <1>7 DEF H

LEMMA PopStarts ==
    ASSUME RoutingAssumption, AdjTyped, Searched(dist, prev, heap), heap # {}, ~Less(dist[Least[2]], Least[1]),
           Least[2] # ask.dest
    PROVE  Searching(dist, prev, heap \ {<<Least[1], Least[2]>>}, Least[1], Least[2], 0)
<1> DEFINE d == Least[1]
           u == Least[2]
           H == heap \ {<<d, u>>}
<1>1. /\ dist \in Bests /\ prev \in Froms /\ heap \subseteq Cost \X Nodes /\ Nodes \subseteq Nat
      /\ \A x \in DOMAIN dist : dist[x] \in Cost /\ x \in Nodes
      /\ Sound(dist, prev, heap) /\ \A v \in Settled(dist, heap) : AllTried(dist, v)
  BY BestsAre DEF Searched, Typed, RoutingAssumption
<1>2. /\ Least \in heap /\ Least = <<d, u>> /\ d \in Cost /\ u \in Nodes
      /\ \A h \in heap : AtMost(d, h[1])
  BY <1>1, LeastIs
<1>3. u \in DOMAIN dist /\ dist[u] = d
  <2>1. u \in DOMAIN dist /\ AtMost(dist[u], d) /\ AtMost(d, dist[u]) /\ dist[u] \in Cost
    BY <1>1, <1>2 DEF Sound, AtMost
  <2> QED
    BY <1>2, <2>1, CostOrder
<1> HIDE DEF d, u
<1>4. /\ H \subseteq heap
      /\ \A v \in DOMAIN dist : <<dist[v], v>> \in H <=> <<dist[v], v>> \in heap /\ v # u
  <2>1. ASSUME NEW v \in DOMAIN dist, v # u PROVE <<dist[v], v>> # <<d, u>>
    BY <2>1
  <2> QED
    BY <1>3, <2>1
<1> HIDE DEF H
<1>5. Settled(dist, H) = Settled(dist, heap) \cup {u}
  BY <1>3, <1>4 DEF Settled
<1>6. Typed(dist, prev, H)
  BY <1>1, <1>4 DEF Typed
<1>7. \A v \in Settled(dist, H), h \in heap : AtMost(dist[v], h[1])
  BY <1>1, <1>2, <1>3, <1>5 DEF Sound
<1>8. \A v \in Settled(dist, H) : AtMost(dist[v], d)
  <2>1. Least[1] = d
    BY DEF d
  <2> QED
    BY <1>2, <1>7, <2>1
<1>9. Sound(dist, prev, H)
  <2>1. \A x \in DOMAIN prev : Reached(dist, prev, H, x)
    BY <1>1, <1>5 DEF Sound, Reached
  <2>2. ask.dest \notin Settled(dist, H)
    BY <1>1, <1>5 DEF Sound, u
  <2> QED
    BY <1>1, <1>4, <1>7, <2>1, <2>2 DEF Sound
<1>10. \A i \in DOMAIN adj[u] : i <= 0 => WasTried(dist, u, adj[u][i])
  <2>1. adj[u] \in Seq(EdgeSet)
    BY <1>2 DEF AdjTyped
  <2>2. DOMAIN adj[u] = 1..Len(adj[u]) /\ Len(adj[u]) \in Nat
    BY <2>1
  <2> QED
    BY <2>2
<1>11. Searching(dist, prev, H, d, u, 0)
  BY <1>2, <1>3, <1>4, <1>5, <1>6, <1>8, <1>9, <1>10, <1>1 DEF Searching
<1> QED
  BY <1>11 DEF H, d, u

(* One turn of the loop.                                                   *)
LEMMA SettleKeeps ==
    ASSUME RoutingAssumption, ask.prefer \in Preferences, ask.origin \in Nodes, AdjTyped,
           Searched(dist, prev, heap), Settle
    PROVE  Searched(dist, prev, heap)'
<1> USE DEF Settle
<1> SUFFICES Searched(dist', prev', heap')
  <2>1. \A s : Enter(s)' = Enter(s)
    BY DEF Enter
  <2>2. ask' = ask /\ adj' = adj
    OBVIOUS
  <2>3. Sound(dist', prev', heap') => Sound(dist, prev, heap)'
    BY <2>1, <2>2 DEF Sound, Reached, Settled
  <2>4. \A v : AllTried(dist', v) => AllTried(dist, v)'
    BY <2>1, <2>2 DEF AllTried, WasTried
  <2>5. Settled(dist, heap)' = Settled(dist', heap')
    BY DEF Settled
  <2> QED
    BY <2>3, <2>4, <2>5 DEF Searched, Typed
<1>1. CASE Less(dist[Least[2]], Least[1])
  <2>1. heap' = heap \ {Least} /\ dist' = dist /\ prev' = prev
    BY <1>1
  <2> QED
    BY <1>1, <2>1, StaleKeeps
<1>2. CASE ~Less(dist[Least[2]], Least[1])
  <2> DEFINE s == Relaxed(Least[1], Least[2])
  <2>1. dist' = s.dist /\ prev' = s.prev /\ heap' = s.heap
    BY <1>2
  <2>2. Searching(dist, prev, heap \ {<<Least[1], Least[2]>>}, Least[1], Least[2], 0)
    BY <1>2, PopStarts
  <2>3. Searched(s.dist, s.prev, s.heap)
    <3> DEFINE d == Least[1]
               u == Least[2]
    <3>1. Searching(dist, prev, heap \ {<<d, u>>}, d, u, 0)
      BY <2>2
    <3> HIDE DEF d, u
    <3>2. Searched(Relaxed(d, u).dist, Relaxed(d, u).prev, Relaxed(d, u).heap)
      BY <3>1, RelaxedKeeps
    <3> QED
      BY <3>2 DEF d, u
  <2> QED
    BY <2>1, <2>3
<1> QED
  BY <1>1, <1>2

(* The ways of at most n hops, hop by hop.                                 *)
Longer(W) == {x \in W \X Nodes : Hops(x[1][1], x[2])}
More(W) == W \cup {<<x[2], Plus(x[1][2], Enter(x[2]))>> : x \in Longer(W)}

WaysBy(n, f) ==
    /\ Ways(n) = f[n] /\ f[0] = {<<ask.origin, Zero>>}
    /\ \A i \in 1..n : f[i] = More(f[i - 1])

LEMMA LongerWay ==
    ASSUME RoutingAssumption, ask.prefer \in Preferences, NEW W \in SUBSET (Nodes \X Cost)
    PROVE  /\ More(W) \in SUBSET (Nodes \X Cost) /\ W \subseteq More(W)
           /\ \A w \in W, v \in Nodes : Hops(w[1], v) => <<v, Plus(w[2], Enter(v))>> \in More(W)
           /\ \A y \in More(W) : \/ y \in W
                                 \/ \E w \in W : Hops(w[1], y[1]) /\ y[1] \in Nodes /\ y[2] = Plus(w[2], Enter(y[1]))
<1>1. \A x \in Longer(W) : x[1] \in W /\ x[2] \in Nodes /\ x[1][2] \in Cost /\ Hops(x[1][1], x[2])
  BY DEF Longer
<1>2. \A v \in Nodes, a \in Cost : Plus(a, Enter(v)) \in Cost
  BY EnterCosts, CostSum
<1>3. ASSUME NEW w \in W, NEW v \in Nodes, Hops(w[1], v) PROVE <<v, Plus(w[2], Enter(v))>> \in More(W)
  <2> DEFINE x == <<w, v>>
  <2>1. x \in W \X Nodes /\ x[1] = w /\ x[2] = v
    OBVIOUS
  <2> HIDE DEF x
  <2>2. x \in Longer(W)
    BY <1>3, <2>1 DEF Longer
  <2> QED
    BY <2>1, <2>2 DEF More
<1>4. ASSUME NEW y \in More(W), y \notin W
      PROVE  /\ y \in Nodes \X Cost
             /\ \E w \in W : Hops(w[1], y[1]) /\ y[1] \in Nodes /\ y[2] = Plus(w[2], Enter(y[1]))
  <2>1. PICK x \in Longer(W) : y = <<x[2], Plus(x[1][2], Enter(x[2]))>>
    BY <1>4 DEF More
  <2>2. y[1] = x[2] /\ y[2] = Plus(x[1][2], Enter(x[2]))
    BY <2>1
  <2> QED
    BY <1>1, <1>2, <2>1, <2>2
<1>5. More(W) \in SUBSET (Nodes \X Cost)
  BY <1>4
<1> QED
  BY <1>3, <1>4, <1>5 DEF More

LEMMA WaysAre ==
    ASSUME RoutingAssumption, ask.prefer \in Preferences, ask.origin \in Nodes, NEW n \in Nat
    PROVE  \E f : WaysBy(n, f) /\ \A i \in 0..n : f[i] \in SUBSET (Nodes \X Cost)
<1> DEFINE begin == {<<ask.origin, Zero>>}
           All == SUBSET (Nodes \X Cost)
           Body(g, i) == IF i = 0 THEN {<<ask.origin, <<0, 0>>>>}
                         ELSE LET before == g[i - 1]
                                  longer == {x \in before \X Nodes : Hops(x[1][1], x[2])}
                              IN before \cup {<<x[2], Plus(x[1][2], Enter(x[2]))>> : x \in longer}
           ways == CHOOSE g : g = [i \in 0..n |-> Body(g, i)]
           X == [i \in 0..n |-> All]
           step == [i \in 1..n |-> [W \in All |-> More(W)]]
<1>1. Ways(n) = ways[n]
  BY DEF Ways
<1>2. \A g : Body(g, 0) = begin /\ \A i \in 1..n : Body(g, i) = More(g[i - 1])
  BY DEF More, Longer, Zero
<1>3. \A W \in All : More(W) \in All
  BY LongerWay
<1>4. begin \in All
  BY DEF Cost, Zero
<1> HIDE DEF All, begin
<1>5. /\ \A i \in 0..n : X[i] = All
      /\ \A i \in 1..n : i \in 0..n /\ i - 1 \in 0..n /\ \A W \in All : step[i][W] = More(W)
      /\ 0 \in 0..n /\ n \in 0..n
  OBVIOUS
<1> HIDE DEF X, step, Body
<1>6. Staged(n, X, begin, step)
  BY <1>3, <1>4, <1>5, StagesDefine
<1>7. PICK f : /\ f = [i \in 0..n |-> f[i]] /\ f[0] = begin
               /\ \A i \in 1..n : f[i] = step[i][f[i - 1]]
               /\ \A i \in 0..n : f[i] \in X[i]
  BY <1>6 DEF Staged
<1>8. \A i \in 0..n : f[i] = Body(f, i)
  <2> SUFFICES ASSUME NEW i \in 0..n PROVE f[i] = Body(f, i)
    OBVIOUS
  <2>1. CASE i = 0
    BY <1>2, <1>7, <2>1
  <2>2. CASE i \in 1..n
    <3>1. i - 1 \in 0..n /\ f[i - 1] \in All
      BY <1>5, <1>7, <2>2
    <3>2. f[i] = step[i][f[i - 1]] /\ step[i][f[i - 1]] = More(f[i - 1])
      BY <1>5, <1>7, <2>2, <3>1
    <3>3. Body(f, i) = More(f[i - 1])
      BY <1>2, <2>2
    <3> QED
      BY <3>2, <3>3
  <2> QED
    BY <2>1, <2>2
<1>9. ways = [i \in 0..n |-> Body(ways, i)]
  <2>1. [i \in 0..n |-> f[i]] = [i \in 0..n |-> Body(f, i)]
    BY <1>8
  <2>2. f = [i \in 0..n |-> Body(f, i)]
    BY <1>7, <2>1
  <2> QED
    BY <2>2
<1> HIDE DEF ways
<1>10. ways[0] = begin /\ \A i \in 1..n : ways[i] = More(ways[i - 1])
  BY <1>2, <1>5, <1>9
<1>11. \A i \in 0..n : ways[i] \in X[i]
  <2>1. \A i \in 1..n : ways[i - 1] \in X[i - 1] => ways[i] \in X[i]
    BY <1>3, <1>5, <1>10
  <2>2. ways[0] \in X[0]
    BY <1>4, <1>5, <1>10
  <2> QED
    BY <2>1, <2>2, StagesAre
<1>12. WaysBy(n, ways) /\ \A i \in 0..n : ways[i] \in All
  BY <1>1, <1>5, <1>10, <1>11 DEF WaysBy, begin
<1> QED
  BY <1>12 DEF All

(* Ways lead nowhere else than a set that is closed under hops.            *)
LEMMA WaysWithin ==
    ASSUME RoutingAssumption, ask.prefer \in Preferences, ask.origin \in Nodes, NEW n \in Nat,
           NEW G \in SUBSET (Nodes \X Cost), <<ask.origin, Zero>> \in G,
           \A w \in G, v \in Nodes : Hops(w[1], v) => <<v, Plus(w[2], Enter(v))>> \in G
    PROVE  Ways(n) \subseteq G
<1>1. PICK f : WaysBy(n, f) /\ \A i \in 0..n : f[i] \in SUBSET (Nodes \X Cost)
  BY WaysAre
<1> DEFINE X == [i \in 0..n |-> SUBSET G]
<1>2. \A i \in 0..n : X[i] = SUBSET G
  OBVIOUS
<1>3. f[0] \in X[0]
  BY <1>1, <1>2 DEF WaysBy
<1>4. ASSUME NEW i \in 1..n, f[i - 1] \in X[i - 1] PROVE f[i] \in X[i]
  <2>1. i \in 0..n /\ i - 1 \in 0..n /\ f[i] = More(f[i - 1]) /\ f[i - 1] \subseteq G
    BY <1>1, <1>4 DEF WaysBy
  <2>2. ASSUME NEW y \in More(f[i - 1]), y \notin f[i - 1] PROVE y \in G
    <3>1. PICK w \in f[i - 1] : Hops(w[1], y[1]) /\ y[1] \in Nodes /\ y[2] = Plus(w[2], Enter(y[1]))
      BY <1>1, <2>1, <2>2, LongerWay
    <3>2. y \in Nodes \X Cost
      BY <1>1, <2>1, LongerWay
    <3>3. y = <<y[1], y[2]>>
      BY <3>2
    <3>4. <<y[1], Plus(w[2], Enter(y[1]))>> \in G
      BY <2>1, <3>1
    <3> QED
      BY <3>1, <3>3, <3>4
  <2> QED
    BY <1>2, <2>1, <2>2
<1> HIDE DEF X
<1>5. \A i \in 0..n : f[i] \in X[i]
  BY <1>3, <1>4, StagesAre
<1> QED
  BY <1>1, <1>2, <1>5 DEF WaysBy

(* The connections at a system that fit: their edges, in the map's order.  *)
Fits(s, c, avoid, mass) == s \in {c.a, c.b} /\ Usable(c, avoid, mass)
EdgesTo(s, avoid, mass, n) == {Edge(s, chain[j]) : j \in {i \in 1..n : Fits(s, chain[i], avoid, mass)}}

LEMMA AppendedRange ==
    ASSUME NEW S, NEW q \in Seq(S), NEW x \in S
    PROVE  Append(q, x) \in Seq(S) /\ SeqRange(Append(q, x)) = SeqRange(q) \cup {x}
<1>1. /\ Append(q, x) \in Seq(S) /\ DOMAIN q = 1..Len(q) /\ DOMAIN Append(q, x) = 1..Len(q) + 1 /\ Len(q) \in Nat
      /\ \A i \in 1..Len(q) : Append(q, x)[i] = q[i] /\ Append(q, x)[Len(q) + 1] = x
  OBVIOUS
<1>2. 1..Len(q) + 1 = 1..Len(q) \cup {Len(q) + 1}
  BY <1>1
<1>3. Append(q, x)[Len(q) + 1] = x
  OBVIOUS
<1> QED
  BY <1>1, <1>2, <1>3 DEF SeqRange

LEMMA MappedAre ==
    ASSUME RoutingAssumption, chain \in Chains, NEW s \in Nodes, NEW avoid, NEW mass
    PROVE  /\ Mapped(s, avoid, mass) \in Seq(EdgeSet)
           /\ SeqRange(Mapped(s, avoid, mass)) = EdgesTo(s, avoid, mass, Len(chain))
<1> DEFINE N == Len(chain)
           Fit(i) == s \in {chain[i].a, chain[i].b} /\ Usable(chain[i], avoid, mass)
           Body(g, i) == IF i = 0 THEN <<>>
                         ELSE IF s \in {chain[i].a, chain[i].b} /\ Usable(chain[i], avoid, mass)
                              THEN Append(g[i - 1], Edge(s, chain[i])) ELSE g[i - 1]
           all == CHOOSE g : g = [i \in 0..N |-> Body(g, i)]
           X == [i \in 0..N |-> {q \in Seq(EdgeSet) : SeqRange(q) = EdgesTo(s, avoid, mass, i)}]
           step == [i \in 1..N |-> [q \in Seq(EdgeSet) |-> IF Fit(i) THEN Append(q, Edge(s, chain[i])) ELSE q]]
<1>1. Mapped(s, avoid, mass) = all[N]
  BY DEF Mapped
<1>2. N \in Nat /\ \A i \in 1..N : Edge(s, chain[i]) \in EdgeSet
  <2> DEFINE R == [a : Nodes, b : Nodes, scope : {"stargate", "jumpbridge", "wormhole"},
                   eol : BOOLEAN, mass : Nat, critical : BOOLEAN]
  <2>1. chain \in Seq(R)
    BY DEF RoutingAssumption
  <2> HIDE DEF R
  <2>7. N \in Nat
    BY <2>1
  <2> SUFFICES ASSUME NEW i \in 1..N PROVE Edge(s, chain[i]) \in EdgeSet
    BY <2>7
  <2>2. chain[i] \in R
    BY <2>1
  <2>3. chain[i].a \in Nodes /\ chain[i].b \in Nodes
    BY <2>2 DEF R
  <2> DEFINE c == chain[i]
  <2> HIDE DEF c
  <2>4. (c.scope # "stargate" /\ c.critical) \in BOOLEAN
    OBVIOUS
  <2>5. c.a \in Nodes /\ c.b \in Nodes
    BY <2>3 DEF c
  <2>6. Edge(s, c) \in EdgeSet
    BY <2>4, <2>5 DEF Edge, EdgeSet
  <2> QED
    BY <2>6 DEF c
<1>3. \A g : Body(g, 0) = <<>> /\ \A i \in 1..N : Body(g, i) = IF Fit(i) THEN Append(g[i - 1], Edge(s, chain[i])) ELSE g[i - 1]
  BY <1>2
<1>4. <<>> \in X[0]
  BY <1>2 DEF SeqRange, EdgesTo
<1>5. \A i \in 1..N : Fit(i) <=> Fits(s, chain[i], avoid, mass)
  BY DEF Fits
<1> HIDE DEF N, Body, Fit
<1>6. \A i \in 0..N : \A q : q \in X[i] <=> q \in Seq(EdgeSet) /\ SeqRange(q) = EdgesTo(s, avoid, mass, i)
  OBVIOUS
<1>7. \A i \in 1..N, q \in Seq(EdgeSet) : step[i][q] = IF Fit(i) THEN Append(q, Edge(s, chain[i])) ELSE q
  OBVIOUS
<1> HIDE DEF X, step
<1>8. ASSUME NEW i \in 1..N, NEW q \in X[i - 1]
      PROVE  (IF Fit(i) THEN Append(q, Edge(s, chain[i])) ELSE q) \in X[i]
  <2>1. i \in 0..N /\ i - 1 \in 0..N /\ 1..i = 1..(i - 1) \cup {i} /\ i \in Nat
    BY <1>2
  <2>2. q \in Seq(EdgeSet) /\ SeqRange(q) = EdgesTo(s, avoid, mass, i - 1)
    BY <1>6, <2>1
  <2>3. CASE Fit(i)
    <3>1. EdgesTo(s, avoid, mass, i) = EdgesTo(s, avoid, mass, i - 1) \cup {Edge(s, chain[i])}
      BY <1>5, <2>1, <2>3 DEF EdgesTo
    <3>2. Append(q, Edge(s, chain[i])) \in Seq(EdgeSet)
          /\ SeqRange(Append(q, Edge(s, chain[i]))) = SeqRange(q) \cup {Edge(s, chain[i])}
      BY <1>2, <2>2, AppendedRange
    <3> QED
      BY <1>6, <2>1, <2>2, <2>3, <3>1, <3>2
  <2>4. CASE ~Fit(i)
    <3>1. EdgesTo(s, avoid, mass, i) = EdgesTo(s, avoid, mass, i - 1)
      BY <1>5, <2>1, <2>4 DEF EdgesTo
    <3> QED
      BY <1>6, <2>1, <2>2, <2>4, <3>1
  <2> QED
    BY <2>3, <2>4
<1>9. \A i \in 0..N : \A q \in X[i] : q \in Seq(EdgeSet)
  BY <1>6
<1>10. \A i \in 1..N : i \in 0..N /\ i - 1 \in 0..N /\ i # 0
  BY <1>2
<1>11. \A i \in 1..N : \A q \in X[i - 1] : step[i][q] \in X[i]
  BY <1>7, <1>8, <1>9, <1>10
<1>12. Staged(N, X, <<>>, step)
  BY <1>2, <1>4, <1>11, StagesDefine
<1>13. PICK f : /\ f = [i \in 0..N |-> f[i]] /\ f[0] = <<>>
                /\ \A i \in 1..N : f[i] = step[i][f[i - 1]]
                /\ \A i \in 0..N : f[i] \in X[i]
  BY <1>12 DEF Staged
<1>14. \A i \in 0..N : f[i] = Body(f, i)
  <2> SUFFICES ASSUME NEW i \in 0..N PROVE f[i] = Body(f, i)
    OBVIOUS
  <2>1. CASE i = 0
    BY <1>3, <1>13, <2>1
  <2>2. CASE i \in 1..N
    <3>1. f[i - 1] \in Seq(EdgeSet) /\ f[i] = step[i][f[i - 1]]
      BY <1>9, <1>10, <1>13, <2>2
    <3> QED
      BY <1>3, <1>7, <2>2, <3>1
  <2> QED
    BY <1>2, <2>1, <2>2
<1>15. all = [i \in 0..N |-> Body(all, i)]
  <2>1. [i \in 0..N |-> f[i]] = [i \in 0..N |-> Body(f, i)]
    BY <1>14
  <2>2. f = [i \in 0..N |-> Body(f, i)]
    BY <1>13, <2>1
  <2> QED
    BY <2>2
<1> HIDE DEF all
<1>16. all[0] = <<>> /\ \A i \in 1..N : all[i] = IF Fit(i) THEN Append(all[i - 1], Edge(s, chain[i])) ELSE all[i - 1]
  <2>1. \A i \in 0..N : all[i] = Body(all, i)
    BY <1>15
  <2>2. all[0] = <<>>
    BY <1>2, <1>3, <2>1
  <2>3. ASSUME NEW i \in 1..N PROVE all[i] = IF Fit(i) THEN Append(all[i - 1], Edge(s, chain[i])) ELSE all[i - 1]
    <3>1. all[i] = Body(all, i)
      BY <1>10, <2>1
    <3>2. Body(all, i) = IF Fit(i) THEN Append(all[i - 1], Edge(s, chain[i])) ELSE all[i - 1]
      BY <1>3
    <3> QED
      BY <3>1, <3>2
  <2> QED
    BY <2>2, <2>3
<1>17. \A i \in 0..N : all[i] \in X[i]
  <2>1. \A i \in 1..N : all[i - 1] \in X[i - 1] => all[i] \in X[i]
    BY <1>8, <1>16
  <2>2. all[0] \in X[0]
    BY <1>4, <1>16
  <2> QED
    BY <1>2, <2>1, <2>2, StagesAre
<1>18. all[N] \in Seq(EdgeSet) /\ SeqRange(all[N]) = EdgesTo(s, avoid, mass, N)
  BY <1>2, <1>6, <1>17
<1> QED
  BY <1>1, <1>18 DEF N

LEMMA GatedAre ==
    ASSUME RoutingAssumption, gates \in Gates, NEW s \in Nodes
    PROVE  /\ Gated(s) \in Seq(EdgeSet)
           /\ SeqRange(Gated(s)) = {[to |-> v, via |-> "stargate", critical |-> FALSE] : v \in SeqRange(gates[s])}
<1>1. gates[s] \in Seq(Nodes)
  BY DEF RoutingAssumption
<1> DEFINE q == gates[s]
<1> HIDE DEF q
<1>2. Len(q) \in Nat /\ DOMAIN q = 1..Len(q) /\ \A i \in 1..Len(q) : q[i] \in Nodes
  BY <1>1 DEF q
<1>3. [i \in 1..Len(q) |-> [to |-> q[i], via |-> "stargate", critical |-> FALSE]] \in Seq(EdgeSet)
  <2>1. \A i \in 1..Len(q) : [to |-> q[i], via |-> "stargate", critical |-> FALSE] \in EdgeSet
    BY <1>2 DEF EdgeSet
  <2> QED
    BY <1>2, <2>1
<1>4. Gated(s) = [i \in 1..Len(q) |-> [to |-> q[i], via |-> "stargate", critical |-> FALSE]]
  BY DEF Gated, q
<1>5. SeqRange(Gated(s)) = {[to |-> v, via |-> "stargate", critical |-> FALSE] : v \in SeqRange(q)}
  BY <1>2, <1>4 DEF SeqRange
<1> QED
  BY <1>3, <1>4, <1>5 DEF q

(* The edges out of a system are the hops that can be made.                *)
AdjTrue == \A u \in Nodes, e \in EdgeSet : e \in SeqRange(adj[u]) <=> Crosses(u, e.to, e.via, e.critical)

LEMMA ConcatRange ==
    ASSUME NEW S, NEW p \in Seq(S), NEW q \in Seq(S)
    PROVE  p \o q \in Seq(S) /\ SeqRange(p \o q) = SeqRange(p) \cup SeqRange(q)
<1>1. /\ p \o q \in Seq(S) /\ Len(p \o q) = Len(p) + Len(q)
      /\ \A i \in 1..Len(p) + Len(q) : (p \o q)[i] = IF i <= Len(p) THEN p[i] ELSE q[i - Len(p)]
  BY ConcatProperties
<1>2. /\ Len(p) \in Nat /\ Len(q) \in Nat /\ DOMAIN p = 1..Len(p) /\ DOMAIN q = 1..Len(q)
      /\ DOMAIN (p \o q) = 1..Len(p) + Len(q)
  BY <1>1
<1> DEFINE r == p \o q
<1> HIDE DEF r
<1>3. /\ DOMAIN r = 1..Len(p) + Len(q)
      /\ \A i \in 1..Len(p) + Len(q) : r[i] = IF i <= Len(p) THEN p[i] ELSE q[i - Len(p)]
  BY <1>1, <1>2 DEF r
<1>4. ASSUME NEW x \in SeqRange(r) PROVE x \in SeqRange(p) \cup SeqRange(q)
  <2>1. PICK i \in 1..Len(p) + Len(q) : x = r[i]
    BY <1>3 DEF SeqRange
  <2>2. i <= Len(p) \/ i - Len(p) \in 1..Len(q)
    BY <1>2
  <2> QED
    BY <1>2, <1>3, <2>1, <2>2 DEF SeqRange
<1>5. ASSUME NEW x \in SeqRange(p) PROVE x \in SeqRange(r)
  <2>1. PICK i \in 1..Len(p) : x = p[i]
    BY <1>2 DEF SeqRange
  <2>2. i \in 1..Len(p) + Len(q) /\ r[i] = p[i]
    BY <1>2, <1>3
  <2> QED
    BY <1>3, <2>1, <2>2 DEF SeqRange
<1>6. ASSUME NEW x \in SeqRange(q) PROVE x \in SeqRange(r)
  <2>1. PICK i \in 1..Len(q) : x = q[i]
    BY <1>2 DEF SeqRange
  <2>2. Len(p) + i \in 1..Len(p) + Len(q) /\ ~(Len(p) + i <= Len(p)) /\ (Len(p) + i) - Len(p) = i
    BY <1>2
  <2>3. r[Len(p) + i] = q[i]
    BY <1>3, <2>2
  <2> QED
    BY <1>3, <2>1, <2>2, <2>3 DEF SeqRange
<1>7. SeqRange(r) = SeqRange(p) \cup SeqRange(q)
  BY <1>4, <1>5, <1>6
<1> QED
  BY <1>1, <1>7 DEF r

Connections == [a : Nodes, b : Nodes, scope : {"stargate", "jumpbridge", "wormhole"},
                eol : BOOLEAN, mass : Nat, critical : BOOLEAN]

Across(u, v, via, critical, c, avoid, mass) ==
    /\ {c.a, c.b} = {u, v}
    /\ avoid => ~c.eol
    /\ c.scope = "wormhole" => c.mass >= mass
    /\ IF c.scope = "stargate" THEN via = "stargate" /\ ~critical
       ELSE via = "wormhole" /\ critical = c.critical

LEMMA GateCrossed ==
    ASSUME RoutingAssumption, gates \in Gates, NEW u \in Nodes, NEW e \in EdgeSet
    PROVE  e \in SeqRange(Gated(u)) <=> e.to \in SeqRange(gates[u]) /\ e.via = "stargate" /\ ~e.critical
<1>1. e = [to |-> e.to, via |-> e.via, critical |-> e.critical] /\ e.critical \in BOOLEAN
  BY DEF EdgeSet
<1>2. \A v : [to |-> v, via |-> "stargate", critical |-> FALSE].to = v
             /\ [to |-> v, via |-> "stargate", critical |-> FALSE].via = "stargate"
             /\ ~[to |-> v, via |-> "stargate", critical |-> FALSE].critical
  OBVIOUS
<1>3. \A v \in SeqRange(gates[u]) : e = [to |-> v, via |-> "stargate", critical |-> FALSE]
                                    => e.to = v /\ e.via = "stargate" /\ ~e.critical
  BY <1>2
<1>4. ~e.critical => e.critical = FALSE
  BY <1>1
<1>5. e.via = "stargate" /\ ~e.critical => e = [to |-> e.to, via |-> "stargate", critical |-> FALSE]
  BY <1>1, <1>4
<1>6. SeqRange(Gated(u)) = {[to |-> v, via |-> "stargate", critical |-> FALSE] : v \in SeqRange(gates[u])}
  BY GatedAre
<1>7. e \in SeqRange(Gated(u)) <=> \E v \in SeqRange(gates[u]) : e = [to |-> v, via |-> "stargate", critical |-> FALSE]
  BY <1>6
<1> QED
  BY <1>3, <1>5, <1>7

LEMMA HoleCrossed ==
    ASSUME NEW u \in Nodes, NEW e \in EdgeSet, NEW c \in Connections, NEW avoid, NEW mass
    PROVE  Fits(u, c, avoid, mass) /\ e = Edge(u, c) <=> Across(u, e.to, e.via, e.critical, c, avoid, mass)
<1>1. e = [to |-> e.to, via |-> e.via, critical |-> e.critical] /\ e.critical \in BOOLEAN
  BY DEF EdgeSet
<1>2. c.critical \in BOOLEAN
  BY DEF Connections
<1> DEFINE to == IF c.a = u THEN c.b ELSE c.a
           via == IF c.scope = "stargate" THEN "stargate" ELSE "wormhole"
           critical == c.scope # "stargate" /\ c.critical
<1>3. Edge(u, c) = [to |-> to, via |-> via, critical |-> critical] /\ critical \in BOOLEAN
  BY DEF Edge
<1>4. critical <=> c.scope # "stargate" /\ c.critical
  OBVIOUS
<1> HIDE DEF to, via, critical
<1>5. e = Edge(u, c) <=> e.to = to /\ e.via = via /\ (e.critical <=> critical)
  <2>1. e = Edge(u, c) => e.to = to /\ e.via = via /\ (e.critical <=> critical)
    <3> DEFINE k == [to |-> to, via |-> via, critical |-> critical]
    <3>1. k.to = to /\ k.via = via /\ (k.critical <=> critical)
      OBVIOUS
    <3> HIDE DEF k
    <3>2. Edge(u, c) = k
      BY <1>3 DEF k
    <3> QED
      BY <3>1, <3>2
  <2>2. (e.critical <=> critical) => e.critical = critical
    BY <1>1, <1>3
  <2>3. e.to = to /\ e.via = via /\ e.critical = critical => e = Edge(u, c)
    BY <1>1, <1>3
  <2> QED
    BY <2>1, <2>2, <2>3
<1>6. u \in {c.a, c.b} /\ e.to = to <=> {c.a, c.b} = {u, e.to}
  BY DEF to
<1>7. c.scope = "stargate" \/ c.scope # "stargate"
  OBVIOUS
<1>8. e.via = via /\ (e.critical <=> critical) <=> IF c.scope = "stargate" THEN e.via = "stargate" /\ ~e.critical
                                                  ELSE e.via = "wormhole" /\ e.critical = c.critical
  <2>1. (e.critical <=> c.critical) <=> e.critical = c.critical
    BY <1>1, <1>2
  <2>2. CASE c.scope = "stargate"
    BY <1>4, <2>2 DEF via
  <2>3. CASE c.scope # "stargate"
    BY <1>4, <2>1, <2>3 DEF via
  <2> QED
    BY <2>2, <2>3
<1>9. Usable(c, avoid, mass) <=> (avoid => ~c.eol) /\ (c.scope = "wormhole" => c.mass >= mass)
  BY DEF Usable
<1> QED
  BY <1>5, <1>6, <1>8, <1>9 DEF Fits, Across

LEMMA UnionEdges ==
    ASSUME RoutingAssumption, gates \in Gates, chain \in Chains, NEW avoid, NEW mass, NEW u \in Nodes
    PROVE  /\ Union(avoid, mass)[u] \in Seq(EdgeSet)
           /\ \A e \in EdgeSet : e \in SeqRange(Union(avoid, mass)[u]) <=>
                \/ e.to \in SeqRange(gates[u]) /\ e.via = "stargate" /\ ~e.critical
                \/ \E c \in SeqRange(chain) : Across(u, e.to, e.via, e.critical, c, avoid, mass)
<1>1. chain \in Seq(Connections)
  BY DEF RoutingAssumption, Connections
<1>2. /\ Union(avoid, mass)[u] \in Seq(EdgeSet)
      /\ SeqRange(Union(avoid, mass)[u]) = SeqRange(Gated(u)) \cup EdgesTo(u, avoid, mass, Len(chain))
  <2>1. Union(avoid, mass)[u] = Gated(u) \o Mapped(u, avoid, mass)
    BY DEF Union
  <2>2. Gated(u) \in Seq(EdgeSet)
    BY GatedAre
  <2>3. /\ Mapped(u, avoid, mass) \in Seq(EdgeSet)
        /\ SeqRange(Mapped(u, avoid, mass)) = EdgesTo(u, avoid, mass, Len(chain))
    BY MappedAre
  <2> QED
    BY <2>1, <2>2, <2>3, ConcatRange
<1>3. ASSUME NEW e \in EdgeSet
      PROVE  e \in SeqRange(Union(avoid, mass)[u]) <=>
                \/ e.to \in SeqRange(gates[u]) /\ e.via = "stargate" /\ ~e.critical
                \/ \E c \in SeqRange(chain) : Across(u, e.to, e.via, e.critical, c, avoid, mass)
  <2>1. e \in SeqRange(Gated(u)) <=> e.to \in SeqRange(gates[u]) /\ e.via = "stargate" /\ ~e.critical
    BY GateCrossed
  <2>2. e \in EdgesTo(u, avoid, mass, Len(chain)) <=> \E c \in SeqRange(chain) : Fits(u, c, avoid, mass) /\ e = Edge(u, c)
    <3>1. DOMAIN chain = 1..Len(chain)
      BY <1>1
    <3> QED
      BY <3>1 DEF EdgesTo, SeqRange
  <2>3. \A c \in SeqRange(chain) : c \in Connections
    BY <1>1 DEF SeqRange
  <2>4. e \in EdgesTo(u, avoid, mass, Len(chain))
        <=> \E c \in SeqRange(chain) : Across(u, e.to, e.via, e.critical, c, avoid, mass)
    BY <2>2, <2>3, HoleCrossed
  <2> QED
    BY <1>2, <2>1, <2>4
<1> QED
  BY <1>2, <1>3

(* No way is cheaper than what is settled or waits in the heap.            *)
LEMMA NoneBelow ==
    ASSUME RoutingAssumption, ask.prefer \in Preferences, ask.origin \in Nodes, AdjTyped, AdjTrue,
           Searched(dist, prev, heap), NEW n \in Nat, NEW w \in Ways(n)
    PROVE  /\ w \in Nodes \X Cost
           /\ \/ w[1] \in Settled(dist, heap) /\ AtMost(dist[w[1]], w[2])
              \/ \E h \in heap : AtMost(h[1], w[2])
<1> DEFINE Low(v, c) == (v \in Settled(dist, heap) /\ AtMost(dist[v], c)) \/ \E h \in heap : AtMost(h[1], c)
           G == {y \in Nodes \X Cost : Low(y[1], y[2])}
<1>1. /\ heap \subseteq Cost \X Nodes /\ \A s \in DOMAIN dist : dist[s] \in Cost /\ s \in Nodes
      /\ \A s : Enter(s) \in Cost
  BY BestsAre, EnterCosts DEF Searched, Typed
<1>2. ASSUME NEW s \in DOMAIN dist, NEW c \in Cost, AtMost(dist[s], c) PROVE Low(s, c)
  <2>1. CASE s \in Settled(dist, heap)
    BY <1>2, <2>1
  <2>2. CASE s \notin Settled(dist, heap)
    <3>1. <<dist[s], s>> \in heap
      BY <2>2 DEF Settled
    <3> DEFINE h == <<dist[s], s>>
    <3>2. h \in heap /\ h[1] = dist[s]
      BY <3>1
    <3> QED
      BY <1>2, <3>2
  <2> QED
    BY <2>1, <2>2
<1>3. <<ask.origin, Zero>> \in G
  <2>1. ask.origin \in DOMAIN dist /\ dist[ask.origin] = Zero /\ Zero \in Cost
    BY DEF Searched, Sound, Zero, Cost
  <2>2. Low(ask.origin, Zero)
    BY <1>2, <2>1, CostOrder
  <2> HIDE DEF Low
  <2> QED
    BY <2>1, <2>2
<1>4. ASSUME NEW u \in Nodes, NEW c \in Cost, Low(u, c), NEW v \in Nodes, Hops(u, v) PROVE Low(v, Plus(c, Enter(v)))
  <2>1. Plus(c, Enter(v)) \in Cost /\ AtMost(c, Plus(c, Enter(v)))
    BY <1>1, CostSum
  <2>2. CASE \E h \in heap : AtMost(h[1], c)
    <3>1. PICK h \in heap : AtMost(h[1], c)
      BY <2>2
    <3>2. h[1] \in Cost
      BY <1>1
    <3>3. AtMost(h[1], Plus(c, Enter(v)))
      BY <2>1, <3>1, <3>2, CostOrder
    <3> QED
      BY <3>3
  <2>3. CASE u \in Settled(dist, heap) /\ AtMost(dist[u], c)
    <3>1. PICK via \in {"stargate", "wormhole"}, critical \in BOOLEAN : Crosses(u, v, via, critical)
      BY <1>4 DEF Hops
    <3> DEFINE e == [to |-> v, via |-> via, critical |-> critical]
    <3>2. e \in EdgeSet /\ e.to = v /\ e.via = via /\ e.critical = critical
      BY DEF EdgeSet
    <3> HIDE DEF e
    <3>3. e \in SeqRange(adj[u])
      BY <3>1, <3>2 DEF AdjTrue
    <3>4. WasTried(dist, u, e)
      BY <2>3, <3>3 DEF SeqRange, Searched, AllTried
    <3>5. v \in DOMAIN dist /\ AtMost(dist[v], Plus(dist[u], Enter(v))) /\ dist[v] \in Cost
      BY <1>1, <3>2, <3>4 DEF WasTried
    <3>6. AtMost(Plus(dist[u], Enter(v)), Plus(c, Enter(v))) /\ Plus(dist[u], Enter(v)) \in Cost
      <4>1. dist[u] \in Cost
        BY <1>1, <2>3 DEF Settled
      <4> QED
        BY <1>1, <2>3, <4>1, CostSum
    <3>7. AtMost(dist[v], Plus(c, Enter(v)))
      BY <2>1, <3>5, <3>6, CostOrder
    <3> QED
      BY <1>2, <2>1, <3>5, <3>7
  <2> QED
    BY <1>4, <2>2, <2>3
<1>5. ASSUME NEW y \in G, NEW v \in Nodes, Hops(y[1], v) PROVE <<v, Plus(y[2], Enter(v))>> \in G
  <2>1. y[1] \in Nodes /\ y[2] \in Cost /\ Low(y[1], y[2])
    BY <1>5
  <2>2. Low(v, Plus(y[2], Enter(v))) /\ Plus(y[2], Enter(v)) \in Cost
    BY <1>1, <1>4, <1>5, <2>1, CostSum
  <2> HIDE DEF Low
  <2> QED
    BY <2>2
<1>6. G \in SUBSET (Nodes \X Cost)
  OBVIOUS
<1> HIDE DEF G
<1>7. Ways(n) \subseteq G
  BY <1>3, <1>5, <1>6, WaysWithin
<1> QED
  BY <1>7 DEF G

(* A system's predecessor has fewer cheaper systems than it.               *)
Cheaper(s) == {x \in DOMAIN dist : Less(dist[x], dist[s])}
Rank(s) == Cardinality(Cheaper(s))

LEMMA RankFalls ==
    ASSUME RoutingAssumption, ask.prefer \in Preferences, Searched(dist, prev, heap)
    PROVE  /\ Cardinality(Nodes) \in Nat
           /\ \A s \in DOMAIN dist : Rank(s) \in Nat /\ Rank(s) < Cardinality(Nodes)
           /\ \A s \in DOMAIN prev : /\ s \in DOMAIN dist /\ prev[s].from \in DOMAIN dist
                                     /\ Rank(prev[s].from) < Rank(s)
<1>1. /\ IsFiniteSet(Nodes) /\ DOMAIN dist \subseteq Nodes /\ \A s \in DOMAIN dist : dist[s] \in Cost
      /\ \A s : Enter(s) \in Cost /\ Enter(s) # Zero
  BY BestsAre, EnterCosts DEF RoutingAssumption, Searched, Typed
<1>2. \A s : Cheaper(s) \in SUBSET Nodes
  BY <1>1 DEF Cheaper
<1>3. \A s : IsFiniteSet(Cheaper(s))
  BY <1>1, <1>2, FS_Subset
<1>4. \A s : Rank(s) \in Nat
  BY <1>3, FS_CardinalityType DEF Rank
<1>5. Cardinality(Nodes) \in Nat
  BY <1>1, FS_CardinalityType
<1>6. ASSUME NEW s \in DOMAIN dist PROVE Rank(s) < Cardinality(Nodes)
  <2>1. s \in Nodes /\ s \notin Cheaper(s)
    BY <1>1, CostOrder DEF Cheaper
  <2>2. Rank(s) <= Cardinality(Nodes) /\ (Rank(s) = Cardinality(Nodes) => Cheaper(s) = Nodes)
    BY <1>1, <1>2, FS_Subset DEF Rank
  <2> QED
    BY <1>4, <1>5, <2>1, <2>2
<1>7. ASSUME NEW s \in DOMAIN prev
      PROVE  s \in DOMAIN dist /\ prev[s].from \in DOMAIN dist /\ Rank(prev[s].from) < Rank(s)
  <2> DEFINE u == prev[s].from
  <2>1. s \in DOMAIN dist /\ u \in DOMAIN dist /\ dist[s] = Plus(dist[u], Enter(s))
    BY DEF Searched, Sound, Reached, Settled
  <2> HIDE DEF u
  <2>2. Less(dist[u], dist[s])
    BY <1>1, <2>1, CostSum
  <2>3. Cheaper(u) \subseteq Cheaper(s)
    <3> SUFFICES ASSUME NEW x \in DOMAIN dist, Less(dist[x], dist[u]) PROVE Less(dist[x], dist[s])
      BY DEF Cheaper
    <3> QED
      BY <1>1, <2>1, <2>2, CostOrder
  <2>4. u \in Cheaper(s) /\ u \notin Cheaper(u)
    BY <1>1, <2>1, <2>2, CostOrder DEF Cheaper
  <2>5. Rank(u) <= Rank(s) /\ (Rank(u) = Rank(s) => Cheaper(u) = Cheaper(s))
    BY <1>3, <2>3, FS_Subset DEF Rank
  <2>6. Rank(u) < Rank(s)
    BY <1>4, <2>4, <2>5
  <2> QED
    BY <2>1, <2>6 DEF u
<1> QED
  BY <1>4, <1>5, <1>6, <1>7

(* Every best cost is that of a way.                                       *)
LEMMA BestsAreWays ==
    ASSUME RoutingAssumption, ask.prefer \in Preferences, ask.origin \in Nodes, AdjTyped, AdjTrue,
           Searched(dist, prev, heap), NEW s \in DOMAIN dist
    PROVE  <<s, dist[s]>> \in AllWays
<1> DEFINE N == Cardinality(Nodes)
           X == [i \in 0..N |-> {W \in SUBSET (Nodes \X Cost) : \A x \in DOMAIN dist : Rank(x) <= i => <<x, dist[x]>> \in W}]
<1>1. /\ N \in Nat
      /\ \A x \in DOMAIN dist : Rank(x) \in Nat /\ Rank(x) < N
      /\ \A x \in DOMAIN prev : /\ x \in DOMAIN dist /\ prev[x].from \in DOMAIN dist
                                /\ Rank(prev[x].from) < Rank(x)
  BY RankFalls
<1>2. /\ \A x \in DOMAIN dist : x \in DOMAIN prev \/ x = ask.origin
      /\ ask.origin \in DOMAIN dist /\ dist[ask.origin] = Zero
  BY DEF Searched, Sound
<1>3. PICK f : WaysBy(N, f) /\ \A i \in 0..N : f[i] \in SUBSET (Nodes \X Cost)
  BY <1>1, WaysAre
<1> HIDE DEF N
<1>4. \A i \in 0..N : X[i] = {W \in SUBSET (Nodes \X Cost) : \A x \in DOMAIN dist : Rank(x) <= i => <<x, dist[x]>> \in W}
  OBVIOUS
<1> HIDE DEF X
<1>5. f[0] \in X[0]
  <2>1. \A x \in DOMAIN dist : Rank(x) <= 0 => x = ask.origin
    BY <1>1, <1>2
  <2>2. f[0] \in SUBSET (Nodes \X Cost) /\ <<ask.origin, dist[ask.origin]>> \in f[0] /\ 0 \in 0..N
    BY <1>1, <1>2, <1>3 DEF WaysBy
  <2> QED
    BY <1>4, <2>1, <2>2
<1>6. ASSUME NEW i \in 1..N, f[i - 1] \in X[i - 1] PROVE f[i] \in X[i]
  <2>1. i \in 0..N /\ i - 1 \in 0..N /\ f[i] = More(f[i - 1]) /\ i \in Nat
    BY <1>1, <1>3 DEF WaysBy
  <2>2. /\ f[i - 1] \in SUBSET (Nodes \X Cost)
        /\ \A x \in DOMAIN dist : Rank(x) <= i - 1 => <<x, dist[x]>> \in f[i - 1]
    BY <1>4, <1>6, <2>1
  <2>3. ASSUME NEW x \in DOMAIN dist, Rank(x) <= i PROVE <<x, dist[x]>> \in f[i]
    <3>1. CASE Rank(x) <= i - 1
      BY <2>1, <2>2, <3>1 DEF More
    <3>2. CASE ~(Rank(x) <= i - 1)
      <4>1. CASE x \in DOMAIN prev
        <5> DEFINE u == prev[x].from
                   w == <<u, dist[u]>>
        <5>1. u \in DOMAIN dist /\ Rank(u) <= i - 1 /\ Rank(u) \in Nat
          BY <1>1, <2>1, <2>3, <4>1
        <5>2. w \in f[i - 1] /\ w[1] = u /\ w[2] = dist[u]
          BY <2>2, <5>1
        <5>3. dist[x] = Plus(dist[u], Enter(x)) /\ u \in Nodes /\ x \in Nodes /\ Hops(u, x)
          <6>1. Reached(dist, prev, heap, x) /\ dist \in Bests /\ prev \in Froms
            BY <4>1 DEF Searched, Sound, Typed
          <6>2. u \in Nodes /\ x \in Nodes
            BY <5>1, <6>1, BestsAre
          <6> DEFINE e == prev[x].edge
          <6>3. e \in SeqRange(adj[u]) /\ e.to = x
            BY <6>1 DEF Reached
          <6>4. e \in EdgeSet
            <7>1. adj[u] \in Seq(EdgeSet)
              BY <6>2 DEF AdjTyped
            <7> QED
              BY <6>3, <7>1 DEF SeqRange
          <6> HIDE DEF e, u
          <6>5. Crosses(u, x, e.via, e.critical)
            BY <6>2, <6>3, <6>4 DEF AdjTrue
          <6>6. Hops(u, x)
            BY <6>4, <6>5 DEF Hops, EdgeSet
          <6> QED
            BY <6>1, <6>2, <6>6 DEF Reached, u
        <5> HIDE DEF u, w
        <5>4. <<x, Plus(w[2], Enter(x))>> \in More(f[i - 1])
          BY <2>2, <5>2, <5>3, LongerWay
        <5> QED
          BY <2>1, <5>2, <5>3, <5>4
      <4>2. CASE x = ask.origin
        <5>1. CASE Rank(x) = 0
          BY <1>1, <2>1, <3>2, <5>1
        <5>2. CASE Rank(x) # 0
          <6>1. Cheaper(x) = {}
            BY <1>2, <4>2, BestsAre, CostOrder DEF Cheaper, Searched, Typed, AtMost
          <6> QED
            BY <5>2, <6>1, FS_EmptySet DEF Rank
        <5> QED
          BY <5>1, <5>2
      <4> QED
        BY <1>2, <4>1, <4>2
    <3> QED
      BY <3>1, <3>2
  <2>4. f[i] \in SUBSET (Nodes \X Cost)
    BY <1>3, <2>1
  <2> QED
    BY <1>4, <2>1, <2>3, <2>4
<1>7. f[N] \in X[N]
  <2>1. \A i \in 0..N : f[i] \in X[i]
    BY <1>1, <1>5, <1>6, StagesAre
  <2> QED
    BY <1>1, <2>1
<1>8. <<s, dist[s]>> \in f[N]
  <2>1. N \in 0..N /\ Rank(s) <= N
    BY <1>1
  <2> QED
    BY <1>4, <1>7, <2>1
<1> QED
  BY <1>3, <1>8 DEF WaysBy, AllWays, N

(* The path unwound: each stop is entered from the one before it.          *)
Stops == [at : Nodes, via : {"origin", "stargate", "wormhole"}, critical : BOOLEAN]

Unwinds(p, k) ==
    /\ p \in Seq(Stops) /\ Len(p) # 0 /\ p[Len(p)].at = ask.dest
    /\ \A i \in 1..Len(p) : p[i].at \in DOMAIN dist /\ p[i] = Stop(p[i].at)
    /\ \A i \in 2..Len(p) : p[i].at \in DOMAIN prev /\ p[i - 1].at = prev[p[i].at].from
    /\ p[1].at = ask.origin \/ Rank(p[1].at) + k <= Rank(ask.dest)

LEMMA StopsAre ==
    ASSUME RoutingAssumption, Searched(dist, prev, heap), NEW s \in DOMAIN dist
    PROVE  Stop(s) \in Stops /\ Stop(s).at = s
<1>1. s \in Nodes /\ (s # ask.origin => s \in DOMAIN prev)
  BY BestsAre DEF Searched, Typed, Sound
<1>2. CASE s = ask.origin
  BY <1>1, <1>2 DEF Stop, Stops
<1>3. CASE s # ask.origin
  <2>1. prev[s].edge \in EdgeSet
    BY <1>1, <1>3 DEF Searched, Typed, Froms
  <2>2. prev[s].edge.via \in {"stargate", "wormhole"} /\ prev[s].edge.critical \in BOOLEAN
    BY <2>1 DEF EdgeSet
  <2> QED
    BY <1>1, <1>3, <2>2 DEF Stop, Stops
<1> QED
  BY <1>2, <1>3

LEMMA UnwindStarts ==
    ASSUME RoutingAssumption, ask.prefer \in Preferences, Searched(dist, prev, heap), ask.dest \in DOMAIN dist
    PROVE  Unwinds(<<Stop(ask.dest)>>, 0)
<1>1. Stop(ask.dest) \in Stops /\ Stop(ask.dest).at = ask.dest
  BY StopsAre
<1>2. Rank(ask.dest) \in Nat
  BY RankFalls
<1> DEFINE x == Stop(ask.dest)
           p == <<x>>
<1>3. x \in Stops
  BY <1>1
<1> HIDE DEF x
<1>4. p \in Seq(Stops) /\ Len(p) = 1 /\ p[1] = x
  BY <1>3
<1> HIDE DEF p
<1>5. Unwinds(p, 0)
  BY <1>1, <1>2, <1>4 DEF Unwinds, x
<1> QED
  BY <1>5 DEF p, x

LEMMA UnwindSteps ==
    ASSUME RoutingAssumption, ask.prefer \in Preferences, Searched(dist, prev, heap), ask.dest \in DOMAIN dist,
           NEW k \in Nat, NEW p, Unwinds(p, k)
    PROVE  Unwinds(IF p[1].at = ask.origin THEN p ELSE <<Stop(prev[p[1].at].from)>> \o p, k + 1)
<1>1. CASE p[1].at = ask.origin
  BY <1>1 DEF Unwinds
<1>2. CASE p[1].at # ask.origin
  <2> DEFINE s == p[1].at
             u == prev[s].from
             x == Stop(u)
             one == <<x>>
             q == one \o p
  <2>1. /\ p \in Seq(Stops) /\ Len(p) \in Nat \ {0} /\ p[Len(p)].at = ask.dest
        /\ \A i \in 1..Len(p) : p[i].at \in DOMAIN dist /\ p[i] = Stop(p[i].at)
        /\ \A i \in 2..Len(p) : p[i].at \in DOMAIN prev /\ p[i - 1].at = prev[p[i].at].from
        /\ s # ask.origin /\ Rank(s) + k <= Rank(ask.dest)
    BY <1>2 DEF Unwinds
  <2>2. s \in DOMAIN dist /\ s \in DOMAIN prev
    <3>1. s \in DOMAIN dist
      BY <2>1
    <3> QED
      BY <2>1, <3>1 DEF Searched, Sound
  <2>3. u \in DOMAIN dist /\ Rank(u) < Rank(s) /\ Rank(s) \in Nat /\ Rank(u) \in Nat /\ Rank(ask.dest) \in Nat
    BY <2>2, RankFalls
  <2>4. x \in Stops /\ x.at = u
    BY <2>3, StopsAre
  <2> HIDE DEF x
  <2>5. one \in Seq(Stops) /\ Len(one) = 1 /\ one[1] = x
    BY <2>4
  <2> HIDE DEF one
  <2>6. /\ q \in Seq(Stops) /\ Len(q) = 1 + Len(p)
        /\ \A i \in 1..1 + Len(p) : q[i] = IF i <= 1 THEN one[i] ELSE p[i - 1]
    <3>1. /\ q \in Seq(Stops) /\ Len(q) = Len(one) + Len(p)
          /\ \A i \in 1..Len(one) + Len(p) : q[i] = IF i <= Len(one) THEN one[i] ELSE p[i - Len(one)]
      BY <2>1, <2>5, ConcatProperties
    <3> QED
      BY <2>5, <3>1
  <2> HIDE DEF q
  <2>7. q[1] = x /\ \A i \in 2..1 + Len(p) : q[i] = p[i - 1] /\ i - 1 \in 1..Len(p)
    BY <2>1, <2>5, <2>6
  <2>8. Len(q) # 0 /\ q[Len(q)].at = ask.dest
    BY <2>1, <2>6, <2>7
  <2>9. ASSUME NEW i \in 1..Len(q) PROVE q[i].at \in DOMAIN dist /\ q[i] = Stop(q[i].at)
    <3>1. CASE i = 1
      BY <2>3, <2>4, <2>7, <3>1 DEF x
    <3>2. CASE i # 1
      <4>1. i \in 2..1 + Len(p)
        BY <2>1, <2>6, <3>2
      <4> QED
        BY <2>1, <2>7, <4>1
    <3> QED
      BY <3>1, <3>2
  <2>10. ASSUME NEW i \in 2..Len(q) PROVE q[i].at \in DOMAIN prev /\ q[i - 1].at = prev[q[i].at].from
    <3>1. i \in 2..1 + Len(p) /\ q[i] = p[i - 1]
      BY <2>6, <2>7
    <3>2. CASE i = 2
      BY <2>2, <2>4, <2>7, <3>1, <3>2
    <3>3. CASE i # 2
      <4>1. i - 1 \in 2..Len(p) /\ i - 1 \in 2..1 + Len(p)
        BY <2>1, <3>1, <3>3
      <4>2. q[i - 1] = p[(i - 1) - 1]
        BY <2>7, <4>1
      <4> QED
        BY <2>1, <3>1, <4>1, <4>2
    <3> QED
      BY <3>2, <3>3
  <2>11. Rank(q[1].at) + (k + 1) <= Rank(ask.dest)
    BY <2>1, <2>3, <2>4, <2>7
  <2>12. Unwinds(q, k + 1)
    BY <2>6, <2>8, <2>9, <2>10, <2>11 DEF Unwinds
  <2> QED
    BY <1>2, <2>12 DEF q, one, x
<1> QED
  BY <1>1, <1>2

LEMMA UnwoundIs ==
    ASSUME RoutingAssumption, ask.prefer \in Preferences, Searched(dist, prev, heap), ask.dest \in DOMAIN dist
    PROVE  Unwinds(Unwound, 0) /\ Unwound[1].at = ask.origin
<1> DEFINE N == Cardinality(Nodes)
           base == <<Stop(ask.dest)>>
           Before(p) == IF p[1].at = ask.origin THEN p ELSE <<Stop(prev[p[1].at].from)>> \o p
           Body(g, n) == IF n = 0 THEN <<Stop(ask.dest)>>
                         ELSE LET later == g[n - 1]
                                  first == later[1].at
                              IN IF first = ask.origin THEN later ELSE <<Stop(prev[first].from)>> \o later
           path == CHOOSE g : g = [n \in 0..N |-> Body(g, n)]
           All == {p \in Seq(Stops) : TRUE}
           X == [n \in 0..N |-> {p \in Seq(Stops) : Unwinds(p, n)}]
           step == [n \in 1..N |-> [p \in Seq(Stops) |-> Before(p)]]
<1>1. Unwound = path[N]
  BY DEF Unwound
<1>2. N \in Nat /\ Rank(ask.dest) < N /\ \A s \in DOMAIN dist : Rank(s) \in Nat
  BY RankFalls
<1>3. \A g : Body(g, 0) = base /\ \A n \in 1..N : Body(g, n) = Before(g[n - 1])
  BY <1>2
<1>4. Unwinds(base, 0)
  BY UnwindStarts
<1> HIDE DEF N, Body, base
<1>5. \A n \in 0..N : \A p : p \in X[n] <=> Unwinds(p, n)
  BY DEF Unwinds
<1>6. \A n \in 1..N : n \in 0..N /\ n - 1 \in 0..N /\ n # 0 /\ n - 1 \in Nat /\ (n - 1) + 1 = n
  BY <1>2
<1>7. \A n \in 1..N : \A p \in X[n - 1] : Before(p) \in X[n] /\ step[n][p] = Before(p)
  <2> SUFFICES ASSUME NEW n \in 1..N, NEW p \in X[n - 1] PROVE Before(p) \in X[n] /\ step[n][p] = Before(p)
    OBVIOUS
  <2>1. Unwinds(p, n - 1) /\ p \in Seq(Stops)
    BY <1>5, <1>6 DEF Unwinds
  <2>2. Unwinds(Before(p), (n - 1) + 1)
    BY <1>6, <2>1, UnwindSteps
  <2>3. Unwinds(Before(p), n)
    BY <1>6, <2>2
  <2> HIDE DEF Before, X
  <2> QED
    BY <1>5, <1>6, <2>1, <2>3
<1>8. base \in X[0]
  BY <1>2, <1>4, <1>5
<1> HIDE DEF X, step, Before
<1>9. Staged(N, X, base, step)
  BY <1>2, <1>7, <1>8, StagesDefine
<1>10. PICK f : /\ f = [n \in 0..N |-> f[n]] /\ f[0] = base
                /\ \A n \in 1..N : f[n] = step[n][f[n - 1]]
                /\ \A n \in 0..N : f[n] \in X[n]
  BY <1>9 DEF Staged
<1>11. \A n \in 0..N : f[n] = Body(f, n)
  <2> SUFFICES ASSUME NEW n \in 0..N PROVE f[n] = Body(f, n)
    OBVIOUS
  <2>1. CASE n = 0
    BY <1>3, <1>10, <2>1
  <2>2. CASE n \in 1..N
    <3>1. f[n - 1] \in X[n - 1] /\ f[n] = step[n][f[n - 1]]
      BY <1>6, <1>10, <2>2
    <3> QED
      BY <1>3, <1>7, <2>2, <3>1
  <2> QED
    BY <1>2, <2>1, <2>2
<1>12. path = [n \in 0..N |-> Body(path, n)]
  <2>1. [n \in 0..N |-> f[n]] = [n \in 0..N |-> Body(f, n)]
    BY <1>11
  <2>2. f = [n \in 0..N |-> Body(f, n)]
    BY <1>10, <2>1
  <2> QED
    BY <2>2
<1> HIDE DEF path
<1>13. path[0] = base /\ \A n \in 1..N : path[n] = Before(path[n - 1])
  <2>1. \A n \in 0..N : path[n] = Body(path, n)
    BY <1>12
  <2>2. path[0] = base
    BY <1>2, <1>3, <2>1
  <2>3. ASSUME NEW n \in 1..N PROVE path[n] = Before(path[n - 1])
    <3>1. path[n] = Body(path, n)
      BY <1>6, <2>1
    <3> QED
      BY <1>3, <3>1
  <2> QED
    BY <2>2, <2>3
<1>14. \A n \in 0..N : path[n] \in X[n]
  <2>1. \A n \in 1..N : path[n - 1] \in X[n - 1] => path[n] \in X[n]
    BY <1>7, <1>13
  <2> QED
    BY <1>2, <1>8, <1>13, <2>1, StagesAre
<1>15. Unwinds(path[N], N)
  BY <1>2, <1>5, <1>14
<1> DEFINE p == path[N]
<1> HIDE DEF p
<1>16. Unwinds(p, N)
  BY <1>15 DEF p
<1>17. p[1].at = ask.origin
  <2>1. p[1].at \in DOMAIN dist
    <3>1. 1 \in 1..Len(p)
      <4>1. p \in Seq(Stops) /\ Len(p) # 0
        BY <1>16 DEF Unwinds
      <4> QED
        BY <4>1
    <3> QED
      BY <1>16, <3>1 DEF Unwinds
  <2>2. Rank(p[1].at) + N <= Rank(ask.dest) => FALSE
    <3>1. Rank(p[1].at) \in Nat /\ Rank(ask.dest) \in Nat /\ Rank(ask.dest) < N /\ N \in Nat
      BY <1>2, <2>1
    <3> QED
      BY <3>1
  <2> QED
    BY <1>16, <2>2 DEF Unwinds
<1>18. Unwinds(p, 0)
  BY <1>16, <1>17 DEF Unwinds
<1> QED
  BY <1>1, <1>17, <1>18 DEF p

(* Such a path leads over hops that can be made, and costs what was found. *)
LEMMA UnwoundCrosses ==
    ASSUME RoutingAssumption, AdjTyped, AdjTrue, Searched(dist, prev, heap),
           NEW p, Unwinds(p, 0), NEW i \in 2..Len(p)
    PROVE  /\ Crosses(p[i - 1].at, p[i].at, p[i].via, p[i].critical)
           /\ p[i - 1].at \in DOMAIN dist /\ dist[p[i].at] = Plus(dist[p[i - 1].at], Enter(p[i].at))
<1> DEFINE s == p[i].at
           u == p[i - 1].at
           e == prev[s].edge
<1>1. /\ s \in DOMAIN prev /\ u = prev[s].from /\ p[i] = Stop(s)
  <2>1. i \in 1..Len(p)
    BY DEF Unwinds
  <2> QED
    BY <2>1 DEF Unwinds
<1>2. /\ s # ask.origin /\ u \in DOMAIN dist /\ u \in Nodes
      /\ e \in SeqRange(adj[u]) /\ e.to = s /\ dist[s] = Plus(dist[u], Enter(s))
  BY <1>1, BestsAre DEF Searched, Typed, Sound, Reached, Settled
<1>3. e \in EdgeSet
  BY <1>1 DEF Searched, Typed, Froms
<1> DEFINE k == [at |-> s, via |-> e.via, critical |-> e.critical]
<1>4. p[i] = k /\ k.via = e.via /\ k.critical = e.critical
  BY <1>1, <1>2 DEF Stop
<1> HIDE DEF e, k
<1>5. Crosses(u, s, e.via, e.critical)
  BY <1>2, <1>3 DEF AdjTrue
<1>6. p[i].via = e.via /\ p[i].critical = e.critical
  BY <1>4
<1> QED
  BY <1>2, <1>5, <1>6

LEMMA UnwoundCosts ==
    ASSUME RoutingAssumption, AdjTyped, AdjTrue, Searched(dist, prev, heap),
           Unwinds(answer, 0), answer[1].at = ask.origin
    PROVE  PathCost = dist[ask.dest]
<1> DEFINE N == Len(answer) - 1
           At(n) == answer[n + 1].at
           Costs == UNION {{dist[s]} : s \in DOMAIN dist}
           Body(g, n) == IF n = 0 THEN <<0, 0>> ELSE Plus(g[n - 1], Enter(answer[n + 1].at))
           sum == CHOOSE g : g = [n \in 0..N |-> Body(g, n)]
           X == [n \in 0..N |-> {dist[At(n)]}]
           step == [n \in 1..N |-> [c \in {dist[At(n - 1)]} |-> Plus(c, Enter(At(n)))]]
<1>1. PathCost = sum[N]
  BY DEF PathCost
<1>2. N \in Nat
  <2>1. Len(answer) \in Nat /\ Len(answer) # 0
    BY DEF Unwinds
  <2> QED
    BY <2>1
<1>3. dist[At(0)] = Zero
  BY DEF Searched, Sound
<1>4. dist[At(N)] = dist[ask.dest]
  <2>1. Len(answer) \in Nat /\ N + 1 = Len(answer)
    BY DEF Unwinds
  <2> QED
    BY <2>1 DEF Unwinds
<1>5. \A n \in 1..N : n \in 0..N /\ n - 1 \in 0..N /\ n # 0
  BY <1>2
<1>6. \A n \in 1..N : dist[At(n)] = Plus(dist[At(n - 1)], Enter(At(n)))
  <2> SUFFICES ASSUME NEW n \in 1..N PROVE dist[At(n)] = Plus(dist[At(n - 1)], Enter(At(n)))
    OBVIOUS
  <2>1. Len(answer) \in Nat /\ n + 1 \in 2..Len(answer) /\ (n + 1) - 1 = (n - 1) + 1
    BY DEF Unwinds
  <2> HIDE DEF N
  <2>2. dist[answer[n + 1].at] = Plus(dist[answer[(n + 1) - 1].at], Enter(answer[n + 1].at))
    BY <2>1, UnwoundCrosses
  <2> QED
    BY <2>1, <2>2
<1>7. \A g : Body(g, 0) = Zero /\ \A n \in 1..N : Body(g, n) = Plus(g[n - 1], Enter(At(n)))
  BY <1>5 DEF Zero
<1> HIDE DEF N, At, Body
<1>8. \A n \in 0..N : X[n] = {dist[At(n)]}
  OBVIOUS
<1>9. \A n \in 1..N : \A c \in X[n - 1] : step[n][c] = Plus(c, Enter(At(n))) /\ Plus(c, Enter(At(n))) \in X[n]
  BY <1>5, <1>6
<1> HIDE DEF X, step
<1>10. Zero \in X[0]
  BY <1>2, <1>3, <1>8
<1>11. Staged(N, X, Zero, step)
  BY <1>2, <1>9, <1>10, StagesDefine
<1>12. PICK f : /\ f = [n \in 0..N |-> f[n]] /\ f[0] = Zero
                /\ \A n \in 1..N : f[n] = step[n][f[n - 1]]
                /\ \A n \in 0..N : f[n] \in X[n]
  BY <1>11 DEF Staged
<1>13. \A n \in 0..N : f[n] = Body(f, n)
  <2> SUFFICES ASSUME NEW n \in 0..N PROVE f[n] = Body(f, n)
    OBVIOUS
  <2>1. CASE n = 0
    BY <1>7, <1>12, <2>1
  <2>2. CASE n \in 1..N
    <3>1. f[n - 1] \in X[n - 1] /\ f[n] = step[n][f[n - 1]]
      BY <1>5, <1>12, <2>2
    <3> QED
      BY <1>7, <1>9, <2>2, <3>1
  <2> QED
    BY <1>2, <2>1, <2>2
<1>14. sum = [n \in 0..N |-> Body(sum, n)]
  <2>1. [n \in 0..N |-> f[n]] = [n \in 0..N |-> Body(f, n)]
    BY <1>13
  <2>2. f = [n \in 0..N |-> Body(f, n)]
    BY <1>12, <2>1
  <2> QED
    BY <2>2
<1> HIDE DEF sum
<1>15. sum[0] = Zero /\ \A n \in 1..N : sum[n] = Plus(sum[n - 1], Enter(At(n)))
  <2>1. \A n \in 0..N : sum[n] = Body(sum, n)
    BY <1>14
  <2>2. sum[0] = Zero
    BY <1>2, <1>7, <2>1
  <2>3. ASSUME NEW n \in 1..N PROVE sum[n] = Plus(sum[n - 1], Enter(At(n)))
    <3>1. sum[n] = Body(sum, n)
      BY <1>5, <2>1
    <3> QED
      BY <1>7, <3>1
  <2> QED
    BY <2>2, <2>3
<1>16. \A n \in 0..N : sum[n] \in X[n]
  <2>1. \A n \in 1..N : sum[n - 1] \in X[n - 1] => sum[n] \in X[n]
    BY <1>9, <1>15
  <2> QED
    BY <1>2, <1>10, <1>15, <2>1, StagesAre
<1>17. sum[N] = dist[At(N)]
  BY <1>2, <1>8, <1>16
<1> QED
  BY <1>1, <1>4, <1>17

(* What the loop has found when it stops is what was asked.                *)
RouteFound ==
    /\ heap # {} => Least[2] = ask.dest
    /\ answer = IF ask.origin = ask.dest \/ ask.dest \in DOMAIN prev THEN Unwound ELSE <<>>

LEMMA RouteIs ==
    ASSUME RoutingAssumption, ask.prefer \in Preferences, ask.origin \in Nodes, AdjTyped, AdjTrue,
           Searched(dist, prev, heap), RouteFound
    PROVE  IF answer = <<>> THEN \A n \in Nat : \A w \in Ways(n) : w[1] # ask.dest
           ELSE /\ answer[1].at = ask.origin /\ answer[Len(answer)].at = ask.dest
                /\ \A i \in 2..Len(answer) :
                     Crosses(answer[i - 1].at, answer[i].at, answer[i].via, answer[i].critical)
                /\ <<ask.dest, PathCost>> \in AllWays
                /\ \A n \in Nat : \A w \in Ways(n) : w[1] = ask.dest => ~Less(w[2], PathCost)
<1>1. /\ heap \subseteq Cost \X Nodes /\ Nodes \subseteq Nat /\ \A s \in DOMAIN dist : dist[s] \in Cost
      /\ DOMAIN prev = DOMAIN dist \ {ask.origin} /\ ask.origin \in DOMAIN dist
      /\ ask.dest \notin Settled(dist, heap)
      /\ \A h \in heap : h[2] \in DOMAIN dist /\ AtMost(dist[h[2]], h[1])
  BY BestsAre DEF Searched, Typed, Sound, RoutingAssumption
<1>2. CASE ask.dest \notin DOMAIN dist
  <2>1. answer = <<>>
    BY <1>1, <1>2 DEF RouteFound
  <2>2. heap = {}
    <3> SUFFICES ASSUME heap # {} PROVE FALSE
      OBVIOUS
    <3>1. Least \in heap /\ Least[2] = ask.dest
      BY <1>1, LeastIs DEF RouteFound
    <3> QED
      BY <1>1, <1>2, <3>1
  <2>3. ASSUME NEW n \in Nat, NEW w \in Ways(n) PROVE w[1] # ask.dest
    <3>1. w[1] \in Settled(dist, heap)
      BY <2>2, NoneBelow
    <3> QED
      BY <1>1, <3>1
  <2> QED
    BY <2>1, <2>3
<1>3. CASE ask.dest \in DOMAIN dist
  <2>1. answer = Unwound
    BY <1>1, <1>3 DEF RouteFound
  <2>2. Unwinds(answer, 0) /\ answer[1].at = ask.origin
    BY <1>3, <2>1, UnwoundIs
  <2>3. answer # <<>> /\ answer[Len(answer)].at = ask.dest
    BY <2>2 DEF Unwinds
  <2>4. PathCost = dist[ask.dest]
    BY <2>2, UnwoundCosts
  <2>5. <<ask.dest, PathCost>> \in AllWays
    BY <1>3, <2>4, BestsAreWays
  <2>6. \A i \in 2..Len(answer) : Crosses(answer[i - 1].at, answer[i].at, answer[i].via, answer[i].critical)
    BY <2>2, UnwoundCrosses
  <2>7. ASSUME NEW n \in Nat, NEW w \in Ways(n), w[1] = ask.dest PROVE ~Less(w[2], PathCost)
    <3>1. w[2] \in Cost /\ \E h \in heap : AtMost(h[1], w[2])
      <4>1. w \in Nodes \X Cost /\ \E h \in heap : AtMost(h[1], w[2])
        BY <1>1, <2>7, NoneBelow
      <4> QED
        BY <4>1
    <3>2. PICK h \in heap : AtMost(h[1], w[2])
      BY <3>1
    <3>3. Least \in heap /\ AtMost(Least[1], h[1]) /\ Least[2] = ask.dest
      BY <1>1, LeastIs DEF RouteFound
    <3>4. h[1] \in Cost /\ Least[1] \in Cost /\ AtMost(dist[ask.dest], Least[1]) /\ dist[ask.dest] \in Cost
      BY <1>1, <1>3, <3>3
    <3>5. AtMost(dist[ask.dest], w[2])
      <4>1. AtMost(Least[1], w[2])
        BY <3>1, <3>2, <3>3, <3>4, CostOrder
      <4> QED
        BY <3>1, <3>4, <4>1, CostOrder
    <3> QED
      BY <2>4, <3>5 DEF AtMost
  <2> QED
    BY <2>2, <2>3, <2>5, <2>6, <2>7
<1> QED
  BY <1>2, <1>3

LEMMA MeasuredAre ==
    ASSUME RoutingAssumption, ask.prefer \in Preferences, ask.origin \in Nodes, AdjTyped, AdjTrue,
           Searched(dist, prev, heap), heap = {}, NEW n \in Nat, NEW w \in Ways(n)
    PROVE  w[1] \in DOMAIN dist /\ ~Less(w[2], dist[w[1]])
<1>1. w[1] \in Settled(dist, heap) /\ AtMost(dist[w[1]], w[2])
  BY NoneBelow
<1> QED
  BY <1>1 DEF Settled, AtMost

-----------------------------------------------------------------------------
(* The invariant of the loop, and the theorems.                            *)
Asked ==
    /\ ask.prefer \in Preferences /\ ask.origin \in Nodes
    /\ AdjTyped /\ AdjTrue /\ Searched(dist, prev, heap)

Running == job \in {"route", "routed", "distances", "measured"}

RouteInv ==
    /\ gates \in Gates /\ chain \in Chains
    /\ Running => Asked
    /\ job = "routed" => RouteFound
    /\ job = "measured" => heap = {} /\ answer = [s \in DOMAIN dist |-> dist[s][2]]

(* The loop starts with the origin, for nothing.                           *)
LEMMA StartSearches ==
    ASSUME NEW kind, NEW o \in Nodes, Start(kind, o), ask'.origin = o
    PROVE  Searched(dist, prev, heap)'
<1>1. /\ dist' = [s \in {o} |-> Zero] /\ heap' = {<<Zero, o>>} /\ prev' = [s \in {} |-> o]
  BY DEF Start, Zero
<1>2. Zero \in Cost
  BY DEF Zero, Cost
<1>3. Typed(dist, prev, heap)'
  <2>1. dist' \in Bests
    <3>1. dist' \in [{o} -> Cost] /\ {o} \in SUBSET Nodes
      BY <1>1, <1>2
    <3> QED
      BY <3>1 DEF Bests
  <2>2. prev' \in Froms
    <3>1. prev' \in [{} -> [from : Nodes, edge : EdgeSet]] /\ {} \in SUBSET Nodes
      BY <1>1
    <3> QED
      BY <3>1 DEF Froms
  <2>3. heap' \subseteq Cost \X Nodes
    BY <1>1, <1>2
  <2> QED
    BY <2>1, <2>2, <2>3 DEF Typed
<1>4. Settled(dist, heap)' = {}
  BY <1>1 DEF Settled
<1>5. Sound(dist, prev, heap)'
  <2>1. DOMAIN dist' = {o} /\ dist'[o] = Zero /\ DOMAIN prev' = {}
    BY <1>1
  <2>2. \A h \in heap' : h[1] = Zero /\ h[2] = o
    BY <1>1
  <2>3. AtMost(Zero, Zero)
    BY <1>2, CostOrder
  <2> QED
    BY <1>4, <2>1, <2>2, <2>3 DEF Sound, AtMost
<1> QED
  BY <1>3, <1>4, <1>5 DEF Searched

LEMMA RouteBegins == RouteInit => RouteInv
BY DEF RouteInit, RouteInv, Running

LEMMA AskRouteKeeps ==
    ASSUME RoutingAssumption, RouteInv, AskRoute
    PROVE  RouteInv'
<1>1. PICK o \in Nodes, d \in Nodes, avoid \in BOOLEAN, mass \in HullMasses, p \in {"safer", "plain"} :
        /\ ask' = [origin |-> o, dest |-> d, avoid |-> avoid, mass |-> mass, prefer |-> p]
        /\ adj' = Union(avoid, mass)
        /\ Start("route", o)
  BY DEF AskRoute
<1>2. /\ ask'.origin = o /\ ask'.prefer = p /\ ask'.avoid = avoid /\ ask'.mass = mass
      /\ job' = "route" /\ gates' = gates /\ chain' = chain /\ gates \in Gates /\ chain \in Chains
  BY <1>1 DEF Start, RouteInv
<1>3. ASSUME NEW u \in Nodes
      PROVE  /\ adj'[u] \in Seq(EdgeSet)
             /\ \A e \in EdgeSet : e \in SeqRange(adj'[u]) <=>
                  \/ e.to \in SeqRange(gates[u]) /\ e.via = "stargate" /\ ~e.critical
                  \/ \E c \in SeqRange(chain) : Across(u, e.to, e.via, e.critical, c, avoid, mass)
  BY <1>1, <1>2, UnionEdges
<1>4. AdjTyped'
  BY <1>3 DEF AdjTyped
<1>5. AdjTrue'
  <2> SUFFICES ASSUME NEW u \in Nodes, NEW e \in EdgeSet
               PROVE  e \in SeqRange(adj'[u]) <=> Crosses(u, e.to, e.via, e.critical)'
    BY DEF AdjTrue, SeqRange
  <2>1. Crosses(u, e.to, e.via, e.critical)' <=>
          \/ e.to \in SeqRange(gates[u]) /\ e.via = "stargate" /\ ~e.critical
          \/ \E c \in SeqRange(chain) : Across(u, e.to, e.via, e.critical, c, avoid, mass)
    BY <1>2 DEF Crosses, Across, SeqRange
  <2> QED
    BY <1>3, <2>1
<1>6. Searched(dist, prev, heap)'
  BY <1>1, <1>2, StartSearches
<1>7. Asked'
  BY <1>2, <1>4, <1>5, <1>6 DEF Asked, Preferences
<1> QED
  BY <1>2, <1>7 DEF RouteInv

LEMMA AskDistancesKeeps ==
    ASSUME RoutingAssumption, RouteInv, AskDistances
    PROVE  RouteInv'
<1>1. PICK o \in Nodes, p \in {"shortest", "secure", "insecure"} :
        /\ ask' = [origin |-> o, dest |-> Nowhere, prefer |-> p]
        /\ adj' = [s \in Nodes |-> Gated(s)]
        /\ Start("distances", o)
  BY DEF AskDistances
<1>2. /\ ask'.origin = o /\ ask'.prefer = p
      /\ job' = "distances" /\ gates' = gates /\ chain' = chain /\ gates \in Gates /\ chain \in Chains
  BY <1>1 DEF Start, RouteInv
<1>3. ASSUME NEW u \in Nodes
      PROVE  /\ adj'[u] \in Seq(EdgeSet)
             /\ \A e \in EdgeSet : e \in SeqRange(adj'[u]) <=>
                  e.to \in SeqRange(gates[u]) /\ e.via = "stargate" /\ ~e.critical
  <2>1. adj'[u] = Gated(u)
    BY <1>1
  <2> QED
    BY <1>2, <2>1, GatedAre, GateCrossed
<1>4. AdjTyped'
  BY <1>3 DEF AdjTyped
<1>5. AdjTrue'
  <2> SUFFICES ASSUME NEW u \in Nodes, NEW e \in EdgeSet
               PROVE  e \in SeqRange(adj'[u]) <=> Crosses(u, e.to, e.via, e.critical)'
    BY DEF AdjTrue, SeqRange
  <2>1. Crosses(u, e.to, e.via, e.critical)' <=> e.to \in SeqRange(gates[u]) /\ e.via = "stargate" /\ ~e.critical
    BY <1>2 DEF Crosses, SeqRange
  <2> QED
    BY <1>3, <2>1
<1>6. Searched(dist, prev, heap)'
  BY <1>1, <1>2, StartSearches
<1>7. Asked'
  BY <1>2, <1>4, <1>5, <1>6 DEF Asked, Preferences
<1> QED
  BY <1>2, <1>7 DEF RouteInv

(* What was found is about the same question until another is asked.       *)
LEMMA SameQuestion ==
    ASSUME UNCHANGED <<gates, chain, hisec, ask, adj>>,
           job \in {"route", "routed"} <=> job' \in {"route", "routed"}
    PROVE  (AdjTyped => AdjTyped') /\ (AdjTrue => AdjTrue')
<1>1. \A u, v, via, critical : Crosses(u, v, via, critical)' <=> Crosses(u, v, via, critical)
  BY DEF Crosses, SeqRange
<1>2. AdjTyped => AdjTyped'
  BY DEF AdjTyped
<1>3. AdjTrue => AdjTrue'
  BY <1>1 DEF AdjTrue, SeqRange
<1> QED
  BY <1>2, <1>3

LEMMA SameSearch ==
    ASSUME UNCHANGED <<hisec, ask, adj, dist, prev, heap>>, Searched(dist, prev, heap)
    PROVE  Searched(dist, prev, heap)'
<1>1. \A s : Enter(s)' = Enter(s)
  BY DEF Enter
<1>2. Settled(dist, heap)' = Settled(dist, heap)
  BY DEF Settled
<1>3. Sound(dist, prev, heap)'
  BY <1>1, <1>2 DEF Searched, Sound, Reached, SeqRange
<1>4. \A v \in Settled(dist, heap) : AllTried(dist, v)'
  BY <1>1 DEF Searched, AllTried, WasTried
<1> QED
  BY <1>2, <1>3, <1>4 DEF Searched, Typed

LEMMA StepKeeps ==
    ASSUME RoutingAssumption, RouteInv, [RouteNext]_rVars
    PROVE  RouteInv'
<1>1. CASE AskRoute
  BY <1>1, AskRouteKeeps
<1>2. CASE AskDistances
  BY <1>2, AskDistancesKeeps
<1>3. CASE Settle
  <2>1. /\ job \in {"route", "distances"} /\ job' = job /\ UNCHANGED <<gates, chain, hisec, ask, adj, answer>>
    BY <1>3 DEF Settle
  <2>2. Asked /\ gates \in Gates /\ chain \in Chains
    BY <2>1 DEF RouteInv, Running
  <2>3. Searched(dist, prev, heap)'
    BY <1>3, <2>2, SettleKeeps DEF Asked
  <2>4. AdjTyped' /\ AdjTrue'
    BY <2>1, <2>2, SameQuestion DEF Asked
  <2>5. Asked'
    BY <2>1, <2>2, <2>3, <2>4 DEF Asked
  <2> QED
    BY <2>1, <2>2, <2>5 DEF RouteInv
<1>4. CASE Arrive
  <2>1. /\ job = "route" /\ job' = "routed" /\ UNCHANGED <<gates, chain, hisec, ask, adj, dist, prev, heap>>
        /\ RouteFound'
    <3>1. /\ job = "route" /\ job' = "routed" /\ UNCHANGED <<gates, chain, hisec, ask, adj, dist, prev, heap>>
          /\ heap # {} => Least[2] = ask.dest
          /\ answer' = IF ask.origin = ask.dest \/ ask.dest \in DOMAIN prev THEN Unwound ELSE <<>>
      BY <1>4 DEF Arrive
    <3>2. Least' = Least
      BY <3>1, SMTT(40) DEF Least, Less
    <3>3. Unwound' = Unwound
      <4>1. \A s : Stop(s)' = Stop(s)
        BY <3>1 DEF Stop
      <4> QED
        BY <3>1, <4>1 DEF Unwound
    <3> QED
      BY <3>1, <3>2, <3>3 DEF RouteFound
  <2>2. Asked /\ gates \in Gates /\ chain \in Chains
    BY <2>1 DEF RouteInv, Running
  <2>3. Searched(dist, prev, heap)'
    BY <2>1, <2>2, SameSearch DEF Asked
  <2>4. AdjTyped' /\ AdjTrue'
    BY <2>1, <2>2, SameQuestion DEF Asked
  <2>5. Asked'
    BY <2>1, <2>2, <2>3, <2>4 DEF Asked
  <2> QED
    BY <2>1, <2>2, <2>5 DEF RouteInv
<1>5. CASE Exhausted
  <2>1. /\ job = "distances" /\ job' = "measured" /\ UNCHANGED <<gates, chain, hisec, ask, adj, dist, prev, heap>>
        /\ heap = {} /\ answer' = [s \in DOMAIN dist |-> dist[s][2]]
    BY <1>5 DEF Exhausted
  <2>2. Asked /\ gates \in Gates /\ chain \in Chains
    BY <2>1 DEF RouteInv, Running
  <2>3. Searched(dist, prev, heap)'
    BY <2>1, <2>2, SameSearch DEF Asked
  <2>4. AdjTyped' /\ AdjTrue'
    BY <2>1, <2>2, SameQuestion DEF Asked
  <2>5. Asked'
    BY <2>1, <2>2, <2>3, <2>4 DEF Asked
  <2> QED
    BY <2>1, <2>2, <2>5 DEF RouteInv
<1>6. CASE AskScan
  <2>1. job' = "scanned" /\ UNCHANGED <<gates, chain>>
    BY <1>6 DEF AskScan
  <2> QED
    BY <2>1 DEF RouteInv, Running
<1>7. CASE UNCHANGED rVars
  <2>1. UNCHANGED <<job, gates, chain, hisec, ask, adj, dist, prev, heap, answer>>
    BY <1>7 DEF rVars
  <2>2. Asked => Asked'
    BY <2>1, SameQuestion, SameSearch DEF Asked
  <2>3. RouteFound => RouteFound'
    <3>1. Least' = Least
      BY <2>1, SMTT(40) DEF Least, Less
    <3>2. Unwound' = Unwound
      <4>1. \A s : Stop(s)' = Stop(s)
        BY <2>1 DEF Stop
      <4> QED
        BY <2>1, <4>1 DEF Unwound
    <3> QED
      BY <2>1, <3>1, <3>2 DEF RouteFound
  <2> QED
    BY <2>1, <2>2, <2>3 DEF RouteInv, Running
<1> QED
  BY <1>1, <1>2, <1>3, <1>4, <1>5, <1>6, <1>7 DEF RouteNext

(* No way at all is cheaper than the one found, however many hops it takes. *)
CheapestOfAll ==
    /\ job = "routed" =>
         IF answer = <<>> THEN \A n \in Nat : \A w \in Ways(n) : w[1] # ask.dest
         ELSE \A n \in Nat : \A w \in Ways(n) : w[1] = ask.dest => ~Less(w[2], PathCost)
    /\ job = "measured" =>
         \A n \in Nat : \A w \in Ways(n) : w[1] \in DOMAIN dist /\ ~Less(w[2], dist[w[1]])

LEMMA FoundIsSound ==
    ASSUME RoutingAssumption, RouteInv
    PROVE  WaysSound /\ CheapestOfAll
<1>1. Cardinality(Nodes) \in Nat
  BY FS_CardinalityType DEF RoutingAssumption
<1>2. CASE job = "routed"
  <2>1. Asked /\ RouteFound
    BY <1>2 DEF RouteInv, Running
  <2>2. IF answer = <<>> THEN \A n \in Nat : \A w \in Ways(n) : w[1] # ask.dest
        ELSE /\ answer[1].at = ask.origin /\ answer[Len(answer)].at = ask.dest
             /\ \A i \in 2..Len(answer) :
                  Crosses(answer[i - 1].at, answer[i].at, answer[i].via, answer[i].critical)
             /\ <<ask.dest, PathCost>> \in AllWays
             /\ \A n \in Nat : \A w \in Ways(n) : w[1] = ask.dest => ~Less(w[2], PathCost)
    BY <2>1, RouteIs DEF Asked
  <2>3. answer # <<>> => NoneCheaper(AllWays, ask.dest, PathCost)
    BY <1>1, <2>2 DEF NoneCheaper, AllWays
  <2>4. answer = <<>> => \A w \in AllWays : w[1] # ask.dest
    BY <1>1, <2>2 DEF AllWays
  <2>5. RouteIsCheapest
    BY <2>2, <2>3, <2>4 DEF RouteIsCheapest
  <2> QED
    BY <1>2, <2>2, <2>5 DEF WaysSound, DistancesAreLeast, CheapestOfAll
<1>3. CASE job = "measured"
  <2>1. Asked /\ heap = {} /\ answer = [s \in DOMAIN dist |-> dist[s][2]]
    BY <1>3 DEF RouteInv, Running
  <2>2. \A n \in Nat : \A w \in Ways(n) : w[1] \in DOMAIN dist /\ ~Less(w[2], dist[w[1]])
    BY <2>1, MeasuredAre DEF Asked
  <2>3. \A w \in AllWays : w[1] \in DOMAIN dist /\ ~Less(w[2], dist[w[1]])
    BY <1>1, <2>2 DEF AllWays
  <2>4. \A s \in DOMAIN dist : <<s, dist[s]>> \in AllWays
    BY <2>1, BestsAreWays DEF Asked
  <2>5. DOMAIN answer = {w[1] : w \in AllWays}
    <3>1. ASSUME NEW s \in DOMAIN dist PROVE s \in {w[1] : w \in AllWays}
      <4> DEFINE x == <<s, dist[s]>>
      <4>1. x \in AllWays /\ x[1] = s
        BY <2>4
      <4> QED
        BY <4>1
    <3> QED
      BY <2>1, <2>3, <3>1
  <2>6. ASSUME NEW s \in DOMAIN answer
        PROVE  \E w \in AllWays : w[1] = s /\ w[2][2] = answer[s] /\ NoneCheaper(AllWays, s, w[2])
    <3> DEFINE x == <<s, dist[s]>>
    <3>1. s \in DOMAIN dist /\ answer[s] = dist[s][2]
      BY <2>1
    <3>2. x \in AllWays /\ x[1] = s /\ x[2] = dist[s] /\ x = <<s, dist[s]>>
      BY <2>4, <3>1
    <3> HIDE DEF x
    <3>3. NoneCheaper(AllWays, s, dist[s])
      BY <2>3, <2>4, <3>1 DEF NoneCheaper
    <3> QED
      BY <3>1, <3>2, <3>3
  <2>7. DistancesAreLeast
    BY <2>5, <2>6 DEF DistancesAreLeast
  <2> QED
    BY <1>3, <2>2, <2>7 DEF WaysSound, RouteIsCheapest, CheapestOfAll
<1>4. CASE job \notin {"routed", "measured"}
  BY <1>4 DEF WaysSound, RouteIsCheapest, DistancesAreLeast, CheapestOfAll
<1> QED
  BY <1>2, <1>3, <1>4

(* What wh_route and engine::distances answer is a cheapest way: over gates *)
(* and holes that pilot and hull accept, none cheaper, and one whenever     *)
(* there is a way.                                                          *)
THEOREM WaysAreSound == ASSUME RoutingAssumption PROVE RouteSpec => []WaysSound
<1>1. RouteInit => RouteInv
  BY RouteBegins
<1>2. RouteInv /\ [RouteNext]_rVars => RouteInv'
  BY StepKeeps
<1>3. RouteInv => WaysSound
  BY FoundIsSound
<1> QED
  BY <1>1, <1>2, <1>3, PTL DEF RouteSpec

(* Neither is there a cheaper way among those that visit systems again.     *)
THEOREM NoWayIsCheaper == ASSUME RoutingAssumption PROVE RouteSpec => []CheapestOfAll
<1>1. RouteInit => RouteInv
  BY RouteBegins
<1>2. RouteInv /\ [RouteNext]_rVars => RouteInv'
  BY StepKeeps
<1>3. RouteInv => CheapestOfAll
  BY FoundIsSound
<1> QED
  BY <1>1, <1>2, <1>3, PTL DEF RouteSpec

============================================================================
