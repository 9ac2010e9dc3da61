-------------------------- MODULE AuthTokensProofs --------------------------
(***************************************************************************)
(* Proofs about AuthTokens, for every value of its constants.              *)
(***************************************************************************)
EXTENDS AuthTokens, TLAPS

USE AuthAssumption

LoginRecords == [pc : LoginPcs, tok : MaybeToken, seen : SUBSET Characters]

(* A login moves from one of its steps to another without losing its type. *)
LEMMA LoginMoves ==
    ASSUME login \in [Characters -> LoginRecords], NEW c \in Characters,
           NEW label \in LoginPcs
    PROVE  /\ LoginGoto(c, label) => login' \in [Characters -> LoginRecords]
           /\ LoginEnds(c) => login' \in [Characters -> LoginRecords]
<1>1. [login[c] EXCEPT !.pc = label] \in LoginRecords
  BY DEF LoginRecords
<1>2. IdleLogin \in LoginRecords
  BY DEF LoginRecords, IdleLogin, LoginPcs, MaybeToken
<1>3. QED
  BY <1>1, <1>2 DEF LoginGoto, LoginEnds

(* A task that returns is idle and holds nothing; the others do not move.  *)
LEMMA ReturnsEmpty ==
    ASSUME TypeOK, NEW t \in Callers, Return(t)
    PROVE  /\ pc' \in [Callers -> {"idle", "queued"} \cup Refreshing]
           /\ gen' \in [Callers -> Nat]
           /\ tok' \in [Callers -> MaybeToken]
           /\ got' \in [Callers -> MaybeToken]
           /\ crossed' \subseteq {u \in Callers : pc'[u] \in Refreshing}
           /\ \A u \in Callers :
                 /\ tok'[u] # NoToken <=> pc'[u] \in Refreshing \ {"loading"}
                 /\ got'[u] # NoToken <=> pc'[u] \in Refreshing \ {"loading", "posting"}
  BY DEF TypeOK, Return, Goto, MaybeToken, Refreshing

(* Every reachable state has the types TypeOK gives, and a task that is    *)
(* not refreshing holds no token.                                          *)
THEOREM TypeCorrect == Spec => []TypeOK
<1>1. Init => TypeOK
  <2> SUFFICES ASSUME Init PROVE TypeOK
    OBVIOUS
  <2>1. login \in [Characters -> [pc : LoginPcs, tok : MaybeToken, seen : SUBSET Characters]]
    BY DEF Init, IdleLogin, LoginPcs, MaybeToken
  <2>2. logout \in [pc : LogoutPcs, chr : Characters, seen : SUBSET Characters]
    BY DEF Init, LogoutPcs
  <2>3. /\ live \in [Characters -> SUBSET Tokens]
        /\ parent \in [Tokens -> MaybeToken]
        /\ issued \subseteq Tokens
        /\ keychain \in [Characters -> MaybeToken]
        /\ roster \subseteq Characters
    BY DEF Init, MaybeToken
  <2>4. /\ cached \in [AuthStates -> SUBSET Characters]
        /\ warned \in [AuthStates -> SUBSET Characters]
        /\ lockGen \in [AuthStates -> [Characters -> Nat]]
    BY DEF Init
  <2>5. QED
    BY <2>1, <2>2, <2>3, <2>4 DEF Init, TypeOK, MaybeToken, Refreshing
<1>2. TypeOK /\ [Next]_vars => TypeOK'
  <2> SUFFICES ASSUME TypeOK, [Next]_vars PROVE TypeOK'
    OBVIOUS
  <2> USE DEF MaybeToken, Refreshing
  <2>1. ASSUME NEW t \in Callers, Call(t) PROVE TypeOK'
    BY <2>1 DEF TypeOK, Call, Goto, sso, memory, sessions
  <2>2. ASSUME NEW t \in Callers, FindToken(t) \/ LoadFails(t) \/ RefreshFails(t) PROVE TypeOK'
    BY <2>2, ReturnsEmpty DEF TypeOK, FindToken, LoadFails, RefreshFails, sso, memory, sessions
  <2>3. ASSUME NEW t \in Callers, StartRefresh(t) \/ LoadToken(t) PROVE TypeOK'
    <3>1. CASE LoadToken(t)
      <4>1. tok' = [tok EXCEPT ![t] = keychain[For[t]]] /\ keychain[For[t]] \in Tokens
        BY <3>1 DEF TypeOK, LoadToken
      <4>2. pc[t] = "loading" /\ pc' = [pc EXCEPT ![t] = "posting"]
        BY <3>1 DEF LoadToken, Goto
      <4>3. UNCHANGED <<live, parent, issued, keychain, roster, cached, warned, lockGen, gen, got, crossed, login, logout>>
        BY <3>1 DEF LoadToken, sso, memory, sessions
      <4>4. QED
        BY <4>1, <4>2, <4>3 DEF TypeOK
    <3>2. CASE StartRefresh(t)
      <4>1. pc[t] = "queued" /\ pc' = [pc EXCEPT ![t] = "loading"]
        BY <3>2 DEF StartRefresh, Goto
      <4>2. UNCHANGED <<live, parent, issued, keychain, roster, cached, warned, lockGen, gen, tok, got, login, logout>>
        BY <3>2 DEF StartRefresh, sso, memory, sessions
      <4>3. crossed' \subseteq crossed \cup Strangers(t) \cup {t}
        BY <3>2 DEF StartRefresh
      <4>4. crossed' \subseteq {u \in Callers : pc'[u] \in Refreshing}
        BY <4>1, <4>3 DEF TypeOK, Strangers
      <4>5. QED
        BY <4>1, <4>2, <4>4 DEF TypeOK
    <3>3. QED
      BY <2>3, <3>1, <3>2
  <2>4. ASSUME NEW t \in Callers, RefreshKept(t) PROVE TypeOK'
    BY <2>4 DEF TypeOK, RefreshKept, Goto, sso, memory, sessions
  <2>5. ASSUME NEW t \in Callers, RefreshRotated(t) PROVE TypeOK'
    BY <2>5 DEF TypeOK, RefreshRotated, Rotate, Goto, memory, sessions
  <2>6. ASSUME NEW t \in Callers, RefreshLost(t) PROVE TypeOK'
    BY <2>6, ReturnsEmpty DEF TypeOK, RefreshLost, Rotate, memory, sessions
  <2>7. ASSUME NEW t \in Callers, Persist(t) PROVE TypeOK'
    <3>1. got[t] \in MaybeToken /\ For[t] \in Characters
      BY DEF TypeOK
    <3>2. keychain' \in [Characters -> MaybeToken]
      BY <2>7, <3>1 DEF TypeOK, Persist
    <3>3. PICK next \in {"persisted", "unpersisted", "caching"} : pc' = [pc EXCEPT ![t] = next]
      BY <2>7 DEF Persist, Goto
    <3>4. pc[t] = "answered" /\ UNCHANGED <<sso, roster, memory, gen, tok, got, crossed, sessions>>
      BY <2>7 DEF Persist
    <3>5. QED
      BY <3>2, <3>3, <3>4 DEF TypeOK, sso, memory, sessions
  <2>8. ASSUME NEW t \in Callers, Mark(t) PROVE TypeOK'
    BY <2>8 DEF TypeOK, Mark, Goto, sso, sessions
  <2>9. ASSUME NEW t \in Callers, CacheToken(t) PROVE TypeOK'
    BY <2>9, ReturnsEmpty DEF TypeOK, CacheToken, sso, sessions
  <2>10. ASSUME NEW i \in AuthStates, NEW c \in Characters, Expire(i, c) PROVE TypeOK'
    BY <2>10 DEF TypeOK, Expire, sso, callers, sessions
  <2>11. ASSUME NEW c \in LoginChars, LoginExchange(c) \/ LoginStep(c) PROVE TypeOK'
    <3> DEFINE Typed == login' \in [Characters -> LoginRecords]
    <3>1. login \in [Characters -> LoginRecords] /\ c \in Characters
      BY DEF TypeOK, LoginRecords
    <3>2. CASE LoginExchange(c)
      BY <3>2 DEF TypeOK, LoginExchange, LoginPcs, memory, callers
    <3>3. CASE LoginStore(c)
      <4>1. Typed
        BY <3>1, <3>3, LoginMoves DEF LoginStore, LoginPcs
      <4>2. login[c].tok \in MaybeToken
        BY <3>1 DEF LoginRecords
      <4>3. QED
        BY <3>1, <3>3, <4>1, <4>2 DEF TypeOK, LoginStore, LoginRecords, sso, memory, callers
    <3>4. CASE LoginReadRoster(c)
      <4>1. login[c] \in LoginRecords /\ roster \in SUBSET Characters
        BY <3>1 DEF TypeOK
      <4>2. [login[c] EXCEPT !.pc = "save", !.seen = roster] \in LoginRecords
        BY <4>1 DEF LoginRecords, LoginPcs
      <4>3. Typed
        BY <3>1, <3>4, <4>2 DEF LoginReadRoster
      <4>4. QED
        BY <3>4, <4>3 DEF TypeOK, LoginReadRoster, LoginRecords, sso, memory, callers
    <3>5. CASE LoginSaveRoster(c)
      <4>1. Typed
        BY <3>1, <3>5, LoginMoves DEF LoginSaveRoster, LoginPcs
      <4>2. login[c].seen \subseteq Characters
        BY <3>1 DEF LoginRecords
      <4>3. QED
        BY <3>1, <3>5, <4>1, <4>2 DEF TypeOK, LoginSaveRoster, LoginRecords, sso, memory, callers
    <3>6. CASE LoginClearWarning(c)
      <4>1. Typed
        BY <3>1, <3>6, LoginMoves DEF LoginClearWarning, LoginPcs
      <4>2. QED
        BY <3>6, <4>1 DEF TypeOK, LoginClearWarning, LoginRecords, sso, callers
    <3>7. CASE LoginCacheToken(c)
      <4>1. Typed
        BY <3>1, <3>7, LoginMoves DEF LoginCacheToken, LoginPcs
      <4>2. QED
        BY <3>1, <3>7, <4>1 DEF TypeOK, LoginCacheToken, LoginRecords, sso, callers
    <3>8. QED
      BY <2>11, <3>2, <3>3, <3>4, <3>5, <3>6, <3>7 DEF LoginStep
  <2>12. ASSUME NEW c \in Characters, LogoutReadRoster(c) PROVE TypeOK'
    BY <2>12 DEF TypeOK, LogoutReadRoster, LogoutPcs, sso, memory, callers
  <2>13. ASSUME LogoutStep PROVE TypeOK'
    <3> USE DEF LogoutPcs, LogoutGoto, LogoutEnds
    <3>1. CASE LogoutSaveRoster
      BY <3>1 DEF TypeOK, LogoutSaveRoster, sso, memory, callers
    <3>2. CASE LogoutDelete
      BY <3>2 DEF TypeOK, LogoutDelete, sso, memory, callers
    <3>3. CASE LogoutForget
      <4>1. lockGen' \in [AuthStates -> [Characters -> Nat]]
        BY <3>3 DEF TypeOK, LogoutForget
      <4>2. QED
        BY <3>3, <4>1 DEF TypeOK, LogoutForget, sso, callers
    <3>4. QED
      BY <2>13, <3>1, <3>2, <3>3 DEF LogoutStep
  <2>14. ASSUME Crash PROVE TypeOK'
    BY <2>14 DEF TypeOK, Crash, LogoutEnds, LogoutPcs, IdleLogin, LoginPcs, sso
  <2>15. CASE UNCHANGED vars
    BY <2>15 DEF TypeOK, vars, sso, memory, callers, sessions
  <2>16. QED
    BY <2>1, <2>2, <2>3, <2>4, <2>5, <2>6, <2>7, <2>8, <2>9, <2>10, <2>11, <2>12, <2>13,
       <2>14, <2>15 DEF Next, CallerStep
<1>3. QED
  BY <1>1, <1>2, PTL DEF Spec

-----------------------------------------------------------------------------
(* Two tasks never hold the same lock object.                              *)
LockExclusive ==
    \A t, u \in Callers :
        pc[t] \in Refreshing /\ pc[u] \in Refreshing /\ SameLock(t, u) => t = u

LEMMA LockIsExclusive == Spec => []LockExclusive
<1>1. Init => LockExclusive
  BY DEF Init, LockExclusive, Refreshing
<1>2. TypeOK /\ LockExclusive /\ [Next]_vars => LockExclusive'
  <2> SUFFICES ASSUME TypeOK, LockExclusive, [Next]_vars PROVE LockExclusive'
    OBVIOUS
  <2> USE DEF Refreshing, LockExclusive, SameLock
  <2>1. ASSUME NEW t \in Callers, Call(t) PROVE LockExclusive'
    BY <2>1 DEF TypeOK, Call, Goto
  <2>2. ASSUME NEW t \in Callers, StartRefresh(t) PROVE LockExclusive'
    <3>1. LockFree(t) /\ UNCHANGED gen /\ pc' = [pc EXCEPT ![t] = "loading"]
      BY <2>2 DEF StartRefresh, Goto
    <3>2. ASSUME NEW u \in Callers, pc'[u] \in Refreshing, u # t
          PROVE  pc[u] \in Refreshing /\ ~SameLock(t, u)
      BY <3>1, <3>2 DEF TypeOK, LockFree
    <3>3. QED
      BY <3>1, <3>2 DEF TypeOK
  <2>3. ASSUME NEW t \in Callers,
               FindToken(t) \/ LoadFails(t) \/ RefreshFails(t) \/ RefreshLost(t) \/ CacheToken(t)
        PROVE LockExclusive'
    <3>1. Return(t)
      BY <2>3 DEF FindToken, LoadFails, RefreshFails, RefreshLost, CacheToken
    <3>2. QED
      BY <3>1 DEF TypeOK, Return, Goto
  <2>4. ASSUME NEW t \in Callers,
               LoadToken(t) \/ RefreshKept(t) \/ RefreshRotated(t) \/ Persist(t) \/ Mark(t)
        PROVE LockExclusive'
    <3>1. pc[t] \in Refreshing /\ UNCHANGED gen /\ \E label : Goto(t, label)
      BY <2>4 DEF LoadToken, RefreshKept, RefreshRotated, Persist, Mark
    <3>2. QED
      BY <3>1 DEF TypeOK, Goto
  <2>5. CASE UNCHANGED callers
    BY <2>5 DEF callers
  <2>6. CASE Crash
    BY <2>6 DEF Crash
  <2>7. QED
    <3>1. ASSUME NEW i \in AuthStates, NEW c \in Characters, Expire(i, c) PROVE UNCHANGED callers
      BY <3>1 DEF Expire
    <3>2. ASSUME NEW c \in LoginChars, LoginExchange(c) \/ LoginStep(c) PROVE UNCHANGED callers
      BY <3>2 DEF LoginExchange, LoginStep, LoginStore, LoginReadRoster, LoginSaveRoster,
                  LoginClearWarning, LoginCacheToken
    <3>3. ASSUME NEW c \in Characters, LogoutReadRoster(c) PROVE UNCHANGED callers
      BY <3>3 DEF LogoutReadRoster
    <3>4. ASSUME LogoutStep PROVE UNCHANGED callers
      BY <3>4 DEF LogoutStep, LogoutSaveRoster, LogoutDelete, LogoutForget
    <3>5. CASE UNCHANGED vars
      BY <3>5 DEF vars, callers
    <3>6. QED
      BY <2>1, <2>2, <2>3, <2>4, <2>5, <2>6, <3>1, <3>2, <3>3, <3>4, <3>5 DEF Next, CallerStep
<1>3. QED
  BY <1>1, <1>2, TypeCorrect, PTL DEF Spec

(* No logout, hence one lock object per AuthState and character.           *)
OneLock ==
    /\ logout.pc = "idle"
    /\ lockGen = [i \in AuthStates |-> [c \in Characters |-> 0]]
    /\ \A t \in Callers : gen[t] = 0

LEMMA NoForgetOneLock ==
    ASSUME MaxForgets = 0
    PROVE  Spec => []OneLock
<1>1. Init => OneLock
  BY DEF Init, OneLock
<1>2. TypeOK /\ OneLock /\ [Next]_vars => OneLock'
  <2> SUFFICES ASSUME TypeOK, OneLock, [Next]_vars PROVE OneLock'
    OBVIOUS
  <2> USE DEF OneLock
  <2>1. ASSUME NEW t \in Callers, Call(t) PROVE OneLock'
    BY <2>1 DEF TypeOK, Call, memory, sessions
  <2>2. ASSUME NEW t \in Callers, CallerStep(t) PROVE OneLock'
    <3>1. UNCHANGED <<lockGen, logout>>
      BY <2>2 DEF CallerStep, FindToken, StartRefresh, LoadToken, LoadFails, RefreshKept,
                  RefreshRotated, RefreshFails, RefreshLost, Persist, Mark, CacheToken,
                  memory, sessions
    <3>2. UNCHANGED gen \/ gen' = [gen EXCEPT ![t] = 0]
      BY <2>2 DEF CallerStep, FindToken, StartRefresh, LoadToken, LoadFails, RefreshKept,
                  RefreshRotated, RefreshFails, RefreshLost, Persist, Mark, CacheToken,
                  Return
    <3>3. QED
      BY <3>1, <3>2 DEF TypeOK
  <2>3. ASSUME NEW i \in AuthStates, NEW c \in Characters, Expire(i, c) PROVE OneLock'
    BY <2>3 DEF Expire, callers, sessions
  <2>4. ASSUME NEW c \in LoginChars, LoginExchange(c) \/ LoginStep(c) PROVE OneLock'
    BY <2>4 DEF LoginExchange, LoginStep, LoginStore, LoginReadRoster, LoginSaveRoster,
                LoginClearWarning, LoginCacheToken, memory, callers
  <2>5. ASSUME NEW c \in Characters, LogoutReadRoster(c) PROVE FALSE
    BY <2>5 DEF LogoutReadRoster
  <2>6. ASSUME LogoutStep PROVE FALSE
    BY <2>6 DEF LogoutStep, LogoutSaveRoster, LogoutDelete, LogoutForget
  <2>7. ASSUME Crash PROVE OneLock'
    BY <2>7 DEF TypeOK, Crash, LogoutEnds
  <2>8. CASE UNCHANGED vars
    BY <2>8 DEF vars, memory, callers, sessions
  <2>9. QED
    BY <2>1, <2>2, <2>3, <2>4, <2>5, <2>6, <2>7, <2>8 DEF Next
<1>3. QED
  BY <1>1, <1>2, TypeCorrect, PTL DEF Spec

(* Refreshes are single-flighted per character as long as the process has  *)
(* one AuthState and nobody logs out, whatever logs in, fails or crashes.  *)
THEOREM SingleRefresh ==
    ASSUME AuthStates = {Main}, MaxForgets = 0
    PROVE  Spec => []SingleRefreshPerCharacter
<1>1. LockExclusive /\ OneLock => SingleRefreshPerCharacter
  BY DEF LockExclusive, OneLock, SingleRefreshPerCharacter, SameLock
<1>2. Spec => []LockExclusive /\ []OneLock
  BY LockIsExclusive, NoForgetOneLock
<1>3. QED
  BY <1>1, <1>2, PTL

-----------------------------------------------------------------------------
(* What a task or a login is about to store.  Whoever refreshes and has met*)
(* nobody under another lock is alone with its character, so that nobody   *)
(* has the SSO retire what it was answered; and what a login was given is  *)
(* known to nobody else.                                                   *)
AloneUnlessCrossed ==
    \A t, u \in Callers :
        pc[t] \in Refreshing /\ pc[u] \in Refreshing /\ For[t] = For[u] /\ t # u => t \in crossed

AnswerInHand ==
    \A t \in Callers : pc[t] = "answered" /\ t \notin crossed => got[t] \in live[For[t]]

(* A token is issued once, and only then replaced or known to anybody.     *)
Issued ==
    /\ \A c \in Characters :
          live[c] \subseteq issued /\ {keychain[c], login[c].tok} \subseteq issued \cup {NoToken}
    /\ \A t \in Callers : {tok[t], got[t]} \subseteq issued \cup {NoToken}
    /\ \A n \in Tokens \ issued : parent[n] = NoToken

OnlyInLogin(c, k) ==
    /\ k \in live[c] /\ parent[k] = NoToken
    /\ \A d \in Characters : k # keychain[d] /\ (d # c => k # login[d].tok)
    /\ \A u \in Callers : k # tok[u] /\ k # got[u]

LoginInHand == \A c \in Characters : login[c].pc = "store" => OnlyInLogin(c, login[c].tok)

(* The variables these are about.                                          *)
tokens == <<sso, keychain, tok, got, login>>

LEMMA AloneStep ==
    ASSUME TypeOK, LockExclusive, AloneUnlessCrossed, [Next]_vars
    PROVE  AloneUnlessCrossed'
<1> USE DEF AloneUnlessCrossed, Refreshing
<1>1. ASSUME NEW t \in Callers, Call(t) PROVE AloneUnlessCrossed'
  BY <1>1 DEF TypeOK, Call, Goto
<1>2. ASSUME NEW t \in Callers, StartRefresh(t) PROVE AloneUnlessCrossed'
  <2>1. /\ pc' = [pc EXCEPT ![t] = "loading"] /\ LockFree(t)
        /\ crossed' = crossed \cup Strangers(t) \cup (IF Strangers(t) = {} THEN {} ELSE {t})
    BY <1>2 DEF StartRefresh, Goto
  <2>2. ASSUME NEW u \in Callers, pc[u] \in Refreshing, For[u] = For[t], u # t
        PROVE  {t, u} \subseteq crossed'
    <3>1. u \in Strangers(t)
      BY <2>1, <2>2 DEF LockFree, Strangers
    <3>2. QED
      BY <2>1, <3>1
  <2>3. pc' = [pc EXCEPT ![t] = "loading"] /\ crossed \subseteq crossed'
    BY <2>1
  <2>4. QED
    BY <2>2, <2>3 DEF TypeOK
<1>3. ASSUME NEW t \in Callers, Return(t) PROVE AloneUnlessCrossed'
  <2>1. pc' = [pc EXCEPT ![t] = "idle"] /\ crossed' = crossed \ {t}
    BY <1>3 DEF Return, Goto
  <2>2. QED
    BY <2>1 DEF TypeOK
<1>4. ASSUME NEW t \in Callers,
             LoadToken(t) \/ RefreshKept(t) \/ RefreshRotated(t) \/ Persist(t) \/ Mark(t)
      PROVE AloneUnlessCrossed'
  <2>1. pc[t] \in Refreshing /\ UNCHANGED crossed /\ \E label : Goto(t, label)
    BY <1>4 DEF LoadToken, RefreshKept, RefreshRotated, Persist, Mark
  <2>2. QED
    BY <2>1 DEF TypeOK, Goto
<1>5. CASE UNCHANGED callers
  BY <1>5 DEF callers
<1>6. CASE Crash
  BY <1>6 DEF Crash
<1>7. QED
  <2>1. ASSUME NEW t \in Callers,
               FindToken(t) \/ LoadFails(t) \/ RefreshFails(t) \/ RefreshLost(t) \/ CacheToken(t)
        PROVE  Return(t)
    BY <2>1 DEF FindToken, LoadFails, RefreshFails, RefreshLost, CacheToken
  <2>2. ASSUME NEW i \in AuthStates, NEW c \in Characters, Expire(i, c) PROVE UNCHANGED callers
    BY <2>2 DEF Expire
  <2>3. ASSUME NEW c \in LoginChars, LoginExchange(c) \/ LoginStep(c) PROVE UNCHANGED callers
    BY <2>3 DEF LoginExchange, LoginStep, LoginStore, LoginReadRoster, LoginSaveRoster,
                LoginClearWarning, LoginCacheToken
  <2>4. ASSUME NEW c \in Characters, LogoutReadRoster(c) PROVE UNCHANGED callers
    BY <2>4 DEF LogoutReadRoster
  <2>5. ASSUME LogoutStep PROVE UNCHANGED callers
    BY <2>5 DEF LogoutStep, LogoutSaveRoster, LogoutDelete, LogoutForget
  <2>6. CASE UNCHANGED vars
    BY <2>6 DEF vars, callers
  <2>7. QED
    BY <1>1, <1>2, <1>3, <1>4, <1>5, <1>6, <2>1, <2>2, <2>3, <2>4, <2>5, <2>6 DEF Next, CallerStep

(* The SSO answers t, which presents a token, with n.                      *)
LEMMA RotationKeeps ==
    ASSUME TypeOK, Issued, NEW t \in Callers, NEW n \in Tokens,
           pc[t] = "posting", Rotate(For[t], tok[t], n)
    PROVE  /\ n \notin issued /\ issued' = issued \cup {n} /\ n \in live'[For[t]]
           /\ \A c \in Characters : live'[c] \subseteq issued'
           /\ \A c \in Characters : c # For[t] => live'[c] = live[c]
           /\ \A m \in Tokens \ issued' : parent'[m] = NoToken
           /\ \A k \in Tokens \ {n} : parent'[k] = parent[k]
           /\ \A c \in Characters : \A k \in live[c] : k # tok[t] /\ parent[k] # tok[t] => k \in live'[c]
<1>1. tok[t] \in Tokens /\ For[t] \in Characters
  BY DEF TypeOK, Refreshing, MaybeToken
<1>2. /\ n \notin issued /\ issued' = issued \cup {n}
      /\ parent' = [parent EXCEPT ![n] = tok[t]]
      /\ live' = [live EXCEPT ![For[t]] = (@ \ Retired(tok[t])) \cup {n}]
  BY DEF Rotate
<1>3. /\ live'[For[t]] = (live[For[t]] \ Retired(tok[t])) \cup {n}
      /\ \A c \in Characters : c # For[t] => live'[c] = live[c]
  BY <1>1, <1>2 DEF TypeOK
<1>4. \A k \in Tokens \ {n} : parent'[k] = parent[k]
  BY <1>2 DEF TypeOK
<1>5. \A c \in Characters : live'[c] \subseteq issued'
  BY <1>2, <1>3 DEF Issued
<1>6. \A m \in Tokens \ issued' : parent'[m] = NoToken
  BY <1>2, <1>4 DEF Issued
<1>7. ASSUME NEW c \in Characters, NEW k \in live[c], k # tok[t], parent[k] # tok[t]
      PROVE  k \in live'[c]
  <2>1. k \notin Retired(tok[t])
    BY <1>7 DEF Retired
  <2>2. QED
    BY <1>3, <2>1
<1>8. QED
  BY <1>2, <1>3, <1>4, <1>5, <1>6, <1>7

(* No step of a caller that rotates nothing, and none of a logout, takes a *)
(* token to where it was not known.                                        *)
LEMMA LoginKept ==
    ASSUME TypeOK, Issued, LoginInHand, UNCHANGED <<sso, login>>,
           \A c \in Characters : keychain'[c] \in {keychain[c], NoToken} \cup {got[t] : t \in Callers},
           \A u \in Callers : {tok'[u], got'[u]} \subseteq
               {tok[u], got[u], NoToken} \cup {keychain[c] : c \in Characters}
    PROVE  Issued' /\ LoginInHand'
<1>1. UNCHANGED <<live, parent, issued, login>>
  BY DEF sso
<1>2. Issued'
  BY <1>1 DEF Issued
<1>3. ASSUME NEW c \in Characters, login'[c].pc = "store" PROVE OnlyInLogin(c, login[c].tok)'
  <2>1. OnlyInLogin(c, login[c].tok) /\ login'[c] = login[c]
    BY <1>1, <1>3 DEF LoginInHand
  <2>2. login[c].tok # NoToken
    BY <2>1 DEF TypeOK, OnlyInLogin
  <2>3. QED
    BY <1>1, <2>1, <2>2 DEF OnlyInLogin
<1>4. QED
  BY <1>2, <1>3 DEF LoginInHand

LEMMA TokensInHandStep ==
    ASSUME TypeOK, Issued, LoginInHand, [Next]_vars
    PROVE  Issued' /\ LoginInHand'
<1> USE DEF MaybeToken
<1>1. ASSUME NEW t \in Callers,
             \/ Call(t) \/ FindToken(t) \/ StartRefresh(t) \/ LoadFails(t) \/ RefreshFails(t)
             \/ LoadToken(t) \/ RefreshKept(t) \/ Persist(t) \/ Mark(t) \/ CacheToken(t)
      PROVE  Issued' /\ LoginInHand'
  <2>1. UNCHANGED <<sso, login>>
    BY <1>1 DEF Call, FindToken, StartRefresh, LoadFails, RefreshFails, LoadToken, RefreshKept,
                Persist, Mark, CacheToken, sessions
  <2>2. \A c \in Characters : keychain'[c] \in {keychain[c], NoToken} \cup {got[u] : u \in Callers}
    BY <1>1 DEF TypeOK, Call, FindToken, StartRefresh, LoadFails, RefreshFails, LoadToken, RefreshKept,
                Persist, Mark, CacheToken
  <2>3. \A u \in Callers : {tok'[u], got'[u]} \subseteq
            {tok[u], got[u], NoToken} \cup {keychain[c] : c \in Characters}
    <3>1. CASE UNCHANGED <<tok, got>>
      BY <3>1
    <3>2. CASE Return(t)
      BY <3>2 DEF TypeOK, Return
    <3>3. CASE LoadToken(t)
      <4>1. For[t] \in Characters /\ tok' = [tok EXCEPT ![t] = keychain[For[t]]] /\ got' = got
        BY <3>3 DEF LoadToken
      <4>2. QED
        BY <4>1 DEF TypeOK
    <3>4. CASE RefreshKept(t)
      BY <3>4 DEF TypeOK, RefreshKept
    <3>5. QED
      BY <1>1, <3>1, <3>2, <3>3, <3>4
         DEF Call, FindToken, StartRefresh, LoadFails, RefreshFails, Persist, Mark, CacheToken
  <2>4. QED
    BY <2>1, <2>2, <2>3, LoginKept
<1>2. ASSUME NEW t \in Callers, RefreshRotated(t) \/ RefreshLost(t) PROVE Issued' /\ LoginInHand'
  <2>1. PICK n \in Tokens :
           /\ pc[t] = "posting" /\ Rotate(For[t], tok[t], n)
           /\ \A u \in Callers : tok'[u] \in {tok[u], NoToken} /\ got'[u] \in {got[u], n, NoToken}
    <3>1. CASE RefreshRotated(t)
      BY <3>1 DEF TypeOK, RefreshRotated
    <3>2. CASE RefreshLost(t)
      BY <3>2 DEF TypeOK, RefreshLost, Return
    <3>3. QED
      BY <1>2, <3>1, <3>2
  <2>2. UNCHANGED <<keychain, login>>
    BY <1>2 DEF RefreshRotated, RefreshLost, sessions
  <2>3. /\ n \notin issued /\ issued' = issued \cup {n}
        /\ \A c \in Characters : live'[c] \subseteq issued'
        /\ \A m \in Tokens \ issued' : parent'[m] = NoToken
        /\ \A k \in Tokens \ {n} : parent'[k] = parent[k]
        /\ \A c \in Characters : \A k \in live[c] : k # tok[t] /\ parent[k] # tok[t] => k \in live'[c]
    BY <2>1, RotationKeeps
  <2>4. Issued'
    BY <2>1, <2>2, <2>3 DEF Issued
  <2>5. ASSUME NEW c \in Characters, login'[c].pc = "store" PROVE OnlyInLogin(c, login[c].tok)'
    <3>1. OnlyInLogin(c, login[c].tok) /\ login'[c] = login[c]
      BY <2>2, <2>5 DEF LoginInHand
    <3>2. login[c].tok \in Tokens /\ login[c].tok # NoToken /\ login[c].tok # n
      BY <2>3, <3>1 DEF TypeOK, OnlyInLogin, Issued
    <3>3. tok[t] # NoToken
      BY <2>1 DEF TypeOK, Refreshing
    <3>4. login[c].tok \in live'[c] /\ parent'[login[c].tok] = NoToken
      BY <2>3, <3>1, <3>2, <3>3 DEF OnlyInLogin
    <3>5. QED
      BY <2>1, <2>2, <3>1, <3>2, <3>4 DEF OnlyInLogin
  <2>6. QED
    BY <2>4, <2>5 DEF LoginInHand
<1>3. ASSUME NEW c \in LoginChars, LoginExchange(c) PROVE Issued' /\ LoginInHand'
  <2>1. PICK n \in Tokens \ issued :
           /\ issued' = issued \cup {n}
           /\ live' = [live EXCEPT ![c] = @ \cup {n}]
           /\ login' = [login EXCEPT ![c] = [pc |-> "store", tok |-> n, seen |-> {}]]
    BY <1>3 DEF LoginExchange
  <2>2. UNCHANGED <<parent, keychain, pc, tok, got>> /\ c \in Characters
    BY <1>3 DEF LoginExchange, callers
  <2>3. /\ live'[c] = live[c] \cup {n}
        /\ \A d \in Characters : d # c => live'[d] = live[d]
        /\ login'[c].pc = "store" /\ login'[c].tok = n
        /\ \A d \in Characters : d # c => login'[d] = login[d]
    BY <2>1, <2>2 DEF TypeOK
  <2>4. Issued'
    BY <2>1, <2>2, <2>3 DEF Issued
  <2>5. ASSUME NEW d \in Characters, login'[d].pc = "store" PROVE OnlyInLogin(d, login[d].tok)'
    <3>1. CASE d = c
      <4>1. n \notin {keychain[e] : e \in Characters} \cup {login[e].tok : e \in Characters}
                     \cup {tok[u] : u \in Callers} \cup {got[u] : u \in Callers}
        BY <2>1 DEF Issued
      <4>2. parent[n] = NoToken
        BY <2>1 DEF Issued
      <4>3. QED
        BY <2>2, <2>3, <3>1, <4>1, <4>2 DEF OnlyInLogin
    <3>2. CASE d # c
      <4>1. OnlyInLogin(d, login[d].tok) /\ login'[d] = login[d]
        BY <2>3, <2>5, <3>2 DEF LoginInHand
      <4>2. login[d].tok # n
        BY <2>1, <4>1 DEF Issued, OnlyInLogin
      <4>3. QED
        BY <2>2, <2>3, <4>1, <4>2 DEF OnlyInLogin
    <3>3. QED
      BY <3>1, <3>2
  <2>6. QED
    BY <2>4, <2>5 DEF LoginInHand
<1>4. ASSUME NEW c \in LoginChars, LoginStep(c) PROVE Issued' /\ LoginInHand'
  <2>1. UNCHANGED <<live, parent, issued, tok, got>> /\ c \in Characters
    BY <1>4 DEF LoginStep, LoginStore, LoginReadRoster, LoginSaveRoster, LoginClearWarning, LoginCacheToken,
                sso, callers
  <2>2. /\ \A d \in Characters : d # c => login'[d] = login[d] /\ keychain'[d] = keychain[d]
        /\ login'[c].pc # "store" /\ login'[c].tok \in {login[c].tok, NoToken}
        /\ \/ keychain'[c] = keychain[c]
           \/ login[c].pc = "store" /\ keychain'[c] = login[c].tok
    BY <1>4, <2>1 DEF TypeOK, LoginStep, LoginStore, LoginReadRoster, LoginSaveRoster,
                      LoginClearWarning, LoginCacheToken, LoginGoto, LoginEnds, IdleLogin
  <2>3. Issued'
    BY <2>1, <2>2 DEF Issued
  <2>4. ASSUME NEW d \in Characters, login'[d].pc = "store" PROVE OnlyInLogin(d, login[d].tok)'
    <3>1. d # c /\ OnlyInLogin(d, login[d].tok) /\ login[d].tok # NoToken /\ login'[d] = login[d]
      BY <2>2, <2>4 DEF TypeOK, LoginInHand, OnlyInLogin
    <3>2. QED
      BY <2>1, <2>2, <3>1 DEF OnlyInLogin
  <2>5. QED
    BY <2>3, <2>4 DEF LoginInHand
<1>5. ASSUME LogoutStep PROVE Issued' /\ LoginInHand'
  <2>1. /\ UNCHANGED <<sso, tok, got, login>>
        /\ \A c \in Characters : keychain'[c] \in {keychain[c], NoToken}
    BY <1>5 DEF TypeOK, LogoutStep, LogoutSaveRoster, LogoutDelete, LogoutForget, callers
  <2>2. QED
    BY <2>1, LoginKept
<1>6. ASSUME Crash PROVE Issued' /\ LoginInHand'
  <2>1. /\ UNCHANGED <<live, parent, issued, keychain>>
        /\ \A u \in Callers : tok'[u] = NoToken /\ got'[u] = NoToken
        /\ \A c \in Characters : login'[c].pc = "idle" /\ login'[c].tok = NoToken
    BY <1>6 DEF Crash, IdleLogin, sso
  <2>2. QED
    BY <2>1 DEF Issued, LoginInHand
<1>7. ASSUME UNCHANGED tokens PROVE Issued' /\ LoginInHand'
  BY <1>7, LoginKept DEF tokens
<1>8. QED
  <2>1. ASSUME NEW i \in AuthStates, NEW c \in Characters, Expire(i, c) PROVE UNCHANGED tokens
    BY <2>1 DEF Expire, tokens, callers, sessions
  <2>2. ASSUME NEW c \in Characters, LogoutReadRoster(c) PROVE UNCHANGED tokens
    BY <2>2 DEF LogoutReadRoster, tokens, callers
  <2>3. CASE UNCHANGED vars
    BY <2>3, <1>7 DEF vars, tokens, callers, sessions
  <2>4. ASSUME NEW t \in Callers, Call(t) \/ CallerStep(t) PROVE Issued' /\ LoginInHand'
    BY <2>4, <1>1, <1>2 DEF CallerStep
  <2>5. QED
    BY <1>3, <1>4, <1>5, <1>6, <1>7, <2>1, <2>2, <2>3, <2>4 DEF Next

(* What was answered stays honoured: who could have it retired presents a  *)
(* token of the same character, and is somebody else refreshing it.        *)
LEMMA AnswerStep ==
    ASSUME TypeOK, Issued, AloneUnlessCrossed, AnswerInHand, [Next]_vars
    PROVE  AnswerInHand'
<1>0. \A u \in Callers : For[u] \in Characters
  OBVIOUS
<1>1. ASSUME NEW t \in Callers, NEW n \in Tokens, pc[t] = "posting", Rotate(For[t], tok[t], n),
             \A u \in Callers \ {t} : pc'[u] = pc[u] /\ got'[u] = got[u] /\ (u \in crossed <=> u \in crossed'),
             pc'[t] = "answered" => got'[t] = n
      PROVE  AnswerInHand'
  <2>1. /\ n \in live'[For[t]]
        /\ \A c \in Characters : c # For[t] => live'[c] = live[c]
    BY <1>1, RotationKeeps
  <2>2. ASSUME NEW u \in Callers, u # t, pc[u] = "answered", u \notin crossed PROVE got[u] \in live'[For[u]]
    <3>1. For[u] # For[t]
      BY <1>1, <2>2 DEF AloneUnlessCrossed, Refreshing
    <3>2. QED
      BY <1>0, <2>1, <2>2, <3>1 DEF AnswerInHand
  <2>3. QED
    BY <1>1, <2>1, <2>2 DEF AnswerInHand
<1>2. ASSUME NEW t \in Callers, RefreshRotated(t) PROVE AnswerInHand'
  <2>1. PICK n \in Tokens : Rotate(For[t], tok[t], n) /\ got' = [got EXCEPT ![t] = n]
    BY <1>2 DEF RefreshRotated
  <2>2. pc[t] = "posting" /\ pc' = [pc EXCEPT ![t] = "answered"] /\ UNCHANGED crossed
    BY <1>2 DEF RefreshRotated, Goto
  <2>3. QED
    BY <1>1, <2>1, <2>2 DEF TypeOK
<1>3. ASSUME NEW t \in Callers, RefreshLost(t) PROVE AnswerInHand'
  <2>1. PICK n \in Tokens : Rotate(For[t], tok[t], n)
    BY <1>3 DEF RefreshLost
  <2>2. /\ pc[t] = "posting" /\ pc' = [pc EXCEPT ![t] = "idle"] /\ crossed' = crossed \ {t}
        /\ got' = [got EXCEPT ![t] = NoToken]
    BY <1>3 DEF RefreshLost, Return, Goto
  <2>3. QED
    BY <1>1, <2>1, <2>2 DEF TypeOK
<1>4. ASSUME NEW t \in Callers, RefreshKept(t) PROVE AnswerInHand'
  <2>1. /\ tok[t] \in live[For[t]] /\ got' = [got EXCEPT ![t] = tok[t]]
        /\ pc' = [pc EXCEPT ![t] = "answered"] /\ UNCHANGED <<live, crossed>>
    BY <1>4 DEF RefreshKept, Goto, sso
  <2>2. QED
    BY <2>1 DEF TypeOK, AnswerInHand
<1>5. ASSUME \A c \in Characters : live[c] \subseteq live'[c],
             \A u \in Callers : pc'[u] = "answered" /\ u \notin crossed' =>
                 pc[u] = "answered" /\ u \notin crossed /\ got'[u] = got[u]
      PROVE  AnswerInHand'
  BY <1>0, <1>5 DEF AnswerInHand
<1>6. ASSUME NEW t \in Callers, Return(t), UNCHANGED sso PROVE AnswerInHand'
  <2>1. /\ pc' = [pc EXCEPT ![t] = "idle"] /\ crossed' = crossed \ {t}
        /\ got' = [got EXCEPT ![t] = NoToken] /\ UNCHANGED live
    BY <1>6 DEF Return, Goto, sso
  <2>2. QED
    BY <1>5, <2>1 DEF TypeOK
<1>7. ASSUME NEW t \in Callers, Call(t) \/ StartRefresh(t) \/ LoadToken(t) \/ Persist(t) \/ Mark(t)
      PROVE  AnswerInHand'
  <2>1. UNCHANGED <<live, got>> /\ crossed \subseteq crossed'
    BY <1>7 DEF Call, StartRefresh, LoadToken, Persist, Mark, sso
  <2>2. \A u \in Callers : pc'[u] = "answered" => pc[u] = "answered"
    BY <1>7 DEF TypeOK, Call, StartRefresh, LoadToken, Persist, Mark, Goto
  <2>3. QED
    BY <1>5, <2>1, <2>2
<1>8. ASSUME UNCHANGED callers, \A c \in Characters : live[c] \subseteq live'[c] PROVE AnswerInHand'
  BY <1>5, <1>8 DEF callers
<1>9. ASSUME Crash PROVE AnswerInHand'
  BY <1>9 DEF Crash, AnswerInHand
<1>10. QED
  <2>1. ASSUME NEW t \in Callers,
               FindToken(t) \/ LoadFails(t) \/ RefreshFails(t) \/ CacheToken(t)
        PROVE  AnswerInHand'
    BY <1>6, <2>1 DEF FindToken, LoadFails, RefreshFails, CacheToken
  <2>2. ASSUME NEW c \in LoginChars, LoginExchange(c) PROVE AnswerInHand'
    BY <1>8, <2>2 DEF TypeOK, LoginExchange
  <2>3. ASSUME NEW c \in LoginChars, LoginStep(c) PROVE UNCHANGED callers /\ UNCHANGED live
    BY <2>3 DEF LoginStep, LoginStore, LoginReadRoster, LoginSaveRoster, LoginClearWarning,
                LoginCacheToken, sso
  <2>4. ASSUME NEW i \in AuthStates, NEW c \in Characters, Expire(i, c) PROVE UNCHANGED callers /\ UNCHANGED live
    BY <2>4 DEF Expire, sso
  <2>5. ASSUME NEW c \in Characters, LogoutReadRoster(c) PROVE UNCHANGED callers /\ UNCHANGED live
    BY <2>5 DEF LogoutReadRoster, sso
  <2>6. ASSUME LogoutStep PROVE UNCHANGED callers /\ UNCHANGED live
    BY <2>6 DEF LogoutStep, LogoutSaveRoster, LogoutDelete, LogoutForget, sso
  <2>7. ASSUME UNCHANGED vars PROVE UNCHANGED callers /\ UNCHANGED live
    BY <2>7 DEF vars, sso
  <2>8. QED
    BY <1>2, <1>3, <1>4, <1>7, <1>8, <1>9, <2>1, <2>2, <2>3, <2>4, <2>5, <2>6, <2>7 DEF Next, CallerStep

(* What a step may write to the keychain.                                  *)
StoresHonoured ==
    \A c \in Characters :
        keychain'[c] # keychain[c] /\ (\A t \in crossed : For[t] # c)
           => keychain'[c] \in live[c] \cup {NoToken}

(* Whatever the SSO accepts, with any number of AuthStates, logins, logouts*)
(* and crashes, a stored token is one the SSO honours at that moment,      *)
(* unless the refresh that stores it met another under another lock: one   *)
(* lock object per character is what the order of rotation and store needs.*)
THEOREM StoresAreFresh == Spec => NeverStoresRetiredToken
<1>1. Init => AloneUnlessCrossed /\ AnswerInHand /\ Issued /\ LoginInHand
  <2> SUFFICES ASSUME Init PROVE AloneUnlessCrossed /\ AnswerInHand /\ Issued /\ LoginInHand
    OBVIOUS
  <2>1. AloneUnlessCrossed /\ AnswerInHand
    BY DEF Init, AloneUnlessCrossed, AnswerInHand, Refreshing
  <2>2. Issued
    BY DEF Init, Issued, IdleLogin
  <2>3. LoginInHand
    BY DEF Init, LoginInHand, IdleLogin
  <2>4. QED
    BY <2>1, <2>2, <2>3
<1>2. TypeOK /\ LockExclusive /\ AloneUnlessCrossed /\ AnswerInHand /\ Issued /\ LoginInHand /\ [Next]_vars
         => AloneUnlessCrossed' /\ AnswerInHand' /\ Issued' /\ LoginInHand'
  BY AloneStep, AnswerStep, TokensInHandStep
<1>3. TypeOK /\ AnswerInHand /\ LoginInHand /\ [Next]_vars => StoresHonoured
  <2> SUFFICES ASSUME TypeOK, AnswerInHand, LoginInHand, [Next]_vars PROVE StoresHonoured
    OBVIOUS
  <2>1. ASSUME NEW t \in Callers, Persist(t) PROVE StoresHonoured
    <3>1. CASE keychain' = keychain
      BY <3>1 DEF StoresHonoured
    <3>2. CASE keychain' # keychain
      <4>1. pc[t] = "answered" /\ keychain' = [keychain EXCEPT ![For[t]] = got[t]]
        BY <2>1, <3>2 DEF Persist
      <4>2. t \notin crossed => got[t] \in live[For[t]]
        BY <4>1 DEF AnswerInHand
      <4>3. QED
        BY <4>1, <4>2 DEF TypeOK, StoresHonoured
    <3>3. QED
      BY <3>1, <3>2
  <2>2. ASSUME NEW c \in LoginChars, LoginStore(c) PROVE StoresHonoured
    <3>1. login[c].tok \in live[c]
      BY <2>2 DEF LoginStore, LoginInHand, OnlyInLogin
    <3>2. QED
      BY <2>2, <3>1 DEF TypeOK, LoginStore, StoresHonoured
  <2>3. ASSUME LogoutDelete PROVE StoresHonoured
    BY <2>3 DEF TypeOK, LogoutDelete, StoresHonoured
  <2>4. CASE UNCHANGED keychain
    BY <2>4 DEF StoresHonoured
  <2>5. QED
    <3>1. ASSUME NEW t \in Callers,
                 Call(t) \/ FindToken(t) \/ StartRefresh(t) \/ LoadToken(t) \/ LoadFails(t)
                 \/ RefreshKept(t) \/ RefreshRotated(t) \/ RefreshFails(t) \/ RefreshLost(t)
                 \/ Mark(t) \/ CacheToken(t)
          PROVE UNCHANGED keychain
      BY <3>1 DEF Call, FindToken, StartRefresh, LoadToken, LoadFails, RefreshKept,
                  RefreshRotated, RefreshFails, RefreshLost, Mark, CacheToken
    <3>2. ASSUME NEW c \in LoginChars,
                 LoginExchange(c) \/ LoginReadRoster(c) \/ LoginSaveRoster(c)
                 \/ LoginClearWarning(c) \/ LoginCacheToken(c)
          PROVE UNCHANGED keychain
      BY <3>2 DEF LoginExchange, LoginReadRoster, LoginSaveRoster, LoginClearWarning,
                  LoginCacheToken
    <3>3. ASSUME NEW c \in Characters, LogoutReadRoster(c) PROVE UNCHANGED keychain
      BY <3>3 DEF LogoutReadRoster
    <3>4. ASSUME LogoutSaveRoster \/ LogoutForget \/ Crash \/ UNCHANGED vars PROVE UNCHANGED keychain
      BY <3>4 DEF LogoutSaveRoster, LogoutForget, Crash, vars
    <3>5. ASSUME NEW i \in AuthStates, NEW c \in Characters, Expire(i, c) PROVE UNCHANGED keychain
      BY <3>5 DEF Expire
    <3>6. QED
      BY <2>1, <2>2, <2>3, <2>4, <3>1, <3>2, <3>3, <3>4, <3>5
         DEF Next, CallerStep, LoginStep, LogoutStep
<1>4. NeverStoresRetiredToken <=> [][StoresHonoured]_vars
  BY DEF NeverStoresRetiredToken, StoresHonoured
<1>5. QED
  BY <1>1, <1>2, <1>3, <1>4, LockIsExclusive, TypeCorrect, PTL DEF Spec

-----------------------------------------------------------------------------
(* Why a dead stored token is always announced.  A refresh works on the    *)
(* stored token until it stores another; what the SSO answered is honoured *)
(* until then, and still when the outcome of the store is marked.          *)
AtWork ==
    \A t \in Callers :
        /\ pc[t] \in {"posting", "answered", "unpersisted"} => tok[t] = keychain[For[t]]
        /\ pc[t] = "answered" => got[t] \in live[For[t]]
        /\ pc[t] = "persisted" => keychain[For[t]] \in live[For[t]]

(* Nobody logs in or out, and no answer of the SSO and no process is lost. *)
Undisturbed ==
    /\ AuthStates = {Main}
    /\ LoginChars = {}
    /\ MaxForgets = 0
    /\ Faults \cap {"lost", "crash"} = {}

(* The stored token of a character is dead, but announced or in good hands. *)
Accounted(c) ==
    keychain[c] \in Tokens \ live[c] =>
        \/ \E i \in AuthStates : c \in warned[i]
        \/ \E t \in Callers :
              /\ For[t] = c
              /\ pc[t] \in {"answered", "unpersisted"}
              /\ tok[t] = keychain[c]

(* A step of one refresh leaves the other characters' refreshes alone.     *)
LEMMA AtWorkStep ==
    ASSUME TypeOK, SingleRefreshPerCharacter, OneLock, AtWork, [Next]_vars, Undisturbed
    PROVE  AtWork'
<1> USE DEF AtWork, Refreshing
<1>1. ASSUME NEW t \in Callers, Call(t) PROVE AtWork'
  BY <1>1 DEF TypeOK, Call, Goto, sso
<1>2. ASSUME NEW t \in Callers, FindToken(t) \/ LoadFails(t) \/ RefreshFails(t) PROVE AtWork'
  <2>1. /\ pc' = [pc EXCEPT ![t] = "idle"] /\ tok' = [tok EXCEPT ![t] = NoToken]
        /\ got' = [got EXCEPT ![t] = NoToken] /\ UNCHANGED <<live, keychain>>
    BY <1>2 DEF FindToken, LoadFails, RefreshFails, Return, Goto, sso
  <2>2. QED
    BY <2>1 DEF TypeOK
<1>3. ASSUME NEW t \in Callers, CacheToken(t) PROVE AtWork'
  BY <1>3 DEF TypeOK, CacheToken, Return, Goto, sso
<1>4. ASSUME NEW t \in Callers, StartRefresh(t) \/ LoadToken(t) PROVE AtWork'
  BY <1>4 DEF TypeOK, StartRefresh, LoadToken, Goto, sso
<1>5. ASSUME NEW t \in Callers, RefreshKept(t) PROVE AtWork'
  BY <1>5 DEF TypeOK, RefreshKept, Goto, sso
<1>6. ASSUME NEW t \in Callers, RefreshRotated(t) PROVE AtWork'
  <2>1. PICK n \in Tokens : Rotate(For[t], tok[t], n) /\ got' = [got EXCEPT ![t] = n]
    BY <1>6 DEF RefreshRotated
  <2>2. pc[t] = "posting" /\ pc' = [pc EXCEPT ![t] = "answered"] /\ UNCHANGED <<keychain, tok>>
    BY <1>6 DEF RefreshRotated, Goto
  <2>3. n \in live'[For[t]] /\ \A c \in Characters \ {For[t]} : live'[c] = live[c]
    BY <2>1 DEF TypeOK, Rotate
  <2>4. \A u \in Callers \ {t} : pc[u] \in Refreshing => For[u] # For[t]
    BY <2>2 DEF SingleRefreshPerCharacter
  <2>5. QED
    BY <2>1, <2>2, <2>3, <2>4 DEF TypeOK
<1>7. ASSUME NEW t \in Callers, Persist(t) PROVE AtWork'
  <2>1. pc[t] = "answered" /\ UNCHANGED <<live, tok, got>>
    BY <1>7 DEF Persist, sso
  <2>2. \A u \in Callers \ {t} : pc[u] \in Refreshing => For[u] # For[t]
    BY <2>1 DEF SingleRefreshPerCharacter
  <2>3. CASE pc' = [pc EXCEPT ![t] = "persisted"]
    <3>1. keychain' = [keychain EXCEPT ![For[t]] = got[t]]
      BY <1>7, <2>1, <2>3 DEF TypeOK, Persist, Goto
    <3>2. QED
      BY <2>1, <2>2, <2>3, <3>1 DEF TypeOK
  <2>4. CASE pc' = [pc EXCEPT ![t] = "unpersisted"] \/ pc' = [pc EXCEPT ![t] = "caching"]
    <3>1. UNCHANGED keychain
      BY <1>7, <2>1, <2>4 DEF TypeOK, Persist, Goto
    <3>2. QED
      BY <2>1, <2>4, <3>1 DEF TypeOK
  <2>5. QED
    BY <1>7, <2>3, <2>4 DEF Persist, Goto
<1>8. ASSUME NEW t \in Callers, Mark(t) PROVE AtWork'
  BY <1>8 DEF TypeOK, Mark, Goto, sso
<1>9. ASSUME NEW i \in AuthStates, NEW c \in Characters, Expire(i, c) PROVE AtWork'
  BY <1>9 DEF Expire, sso, callers
<1>10. ASSUME NEW c \in Characters, LogoutReadRoster(c) PROVE FALSE
  BY <1>10 DEF OneLock, LogoutReadRoster, Undisturbed
<1>11. ASSUME LogoutStep PROVE FALSE
  BY <1>11 DEF OneLock, LogoutStep, LogoutSaveRoster, LogoutDelete, LogoutForget
<1>12. CASE UNCHANGED vars
  BY <1>12 DEF vars, sso, callers
<1>13. QED
  <2>1. \A t \in Callers : ~RefreshLost(t)
    BY DEF RefreshLost, Undisturbed
  <2>2. ~Crash
    BY DEF Crash, Undisturbed
  <2>3. QED
    BY <1>1, <1>2, <1>3, <1>4, <1>5, <1>6, <1>7, <1>8, <1>9, <1>10, <1>11, <1>12, <2>1, <2>2
       DEF Next, CallerStep, Undisturbed

(* A dead token came about in the refresh that has it in its hands, and    *)
(* stays there until it is replaced or its owner is warned.                *)
LEMMA AccountedStep ==
    ASSUME TypeOK, SingleRefreshPerCharacter, OneLock, AtWork, UsableOrWarned, [Next]_vars,
           Undisturbed, NEW c \in Characters
    PROVE  Accounted(c)'
<1> USE DEF Accounted, Refreshing
<1>0. Accounted(c)
  BY DEF UsableOrWarned
<1>1. ASSUME NEW t \in Callers,
             Call(t) \/ FindToken(t) \/ StartRefresh(t) \/ LoadToken(t) \/ LoadFails(t)
             \/ RefreshFails(t) \/ CacheToken(t)
      PROVE  Accounted(c)'
  <2>1. /\ UNCHANGED <<keychain, live, warned>>
        /\ pc[t] \notin {"answered", "unpersisted"}
        /\ \A u \in Callers \ {t} : pc'[u] = pc[u] /\ tok'[u] = tok[u]
    BY <1>1 DEF TypeOK, Call, FindToken, StartRefresh, LoadToken, LoadFails, RefreshFails, CacheToken,
                Return, Goto, sso, memory
  <2>2. QED
    BY <1>0, <2>1
<1>2. ASSUME NEW t \in Callers, RefreshKept(t) PROVE Accounted(c)'
  BY <1>0, <1>2 DEF TypeOK, RefreshKept, Goto, sso, memory
<1>3. ASSUME NEW t \in Callers, RefreshRotated(t) PROVE Accounted(c)'
  <2>1. /\ pc[t] = "posting" /\ pc'[t] = "answered" /\ tok[t] = keychain[For[t]]
        /\ \A u \in Callers \ {t} : pc'[u] = pc[u]
        /\ UNCHANGED <<keychain, tok, warned>>
    BY <1>3 DEF TypeOK, AtWork, RefreshRotated, Goto, memory
  <2>2. CASE c = For[t]
    BY <2>1, <2>2
  <2>3. CASE c # For[t]
    <3>1. live'[c] = live[c]
      BY <1>3, <2>3 DEF TypeOK, RefreshRotated, Rotate
    <3>2. QED
      BY <1>0, <2>1, <3>1
  <2>4. QED
    BY <2>2, <2>3
<1>4. ASSUME NEW t \in Callers, Persist(t) PROVE Accounted(c)'
  <2>1. /\ pc[t] = "answered" /\ UNCHANGED <<live, tok, warned>>
        /\ \A u \in Callers \ {t} : pc'[u] = pc[u]
    BY <1>4 DEF TypeOK, Persist, Goto, sso, memory
  <2>2. CASE c # For[t]
    <3>1. keychain'[c] = keychain[c]
      BY <1>4, <2>2 DEF TypeOK, Persist
    <3>2. QED
      BY <1>0, <2>1, <2>2, <3>1
  <2>3. CASE c = For[t]
    <3>1. got[t] \in live[c] /\ tok[t] = keychain[c]
      BY <2>1, <2>3 DEF AtWork
    <3>2. CASE UNCHANGED keychain /\ pc'[t] = "unpersisted"
      BY <2>1, <2>3, <3>1, <3>2
    <3>3. CASE UNCHANGED keychain /\ got[t] = tok[t]
      BY <2>1, <3>1, <3>3
    <3>4. CASE keychain' = [keychain EXCEPT ![For[t]] = got[t]]
      BY <2>1, <2>3, <3>1, <3>4 DEF TypeOK
    <3>5. QED
      BY <1>4, <3>2, <3>3, <3>4 DEF TypeOK, Persist, Goto
  <2>4. QED
    BY <2>2, <2>3
<1>5. ASSUME NEW t \in Callers, Mark(t) PROVE Accounted(c)'
  <2>1. /\ UNCHANGED <<keychain, live, tok>> /\ Via[t] = Main
        /\ \A u \in Callers \ {t} : pc'[u] = pc[u]
    BY <1>5 DEF TypeOK, Mark, Goto, sso, Undisturbed
  <2>2. CASE pc[t] = "unpersisted"
    <3>1. warned'[Main] = warned[Main] \cup {For[t]}
      BY <1>5, <2>1, <2>2 DEF TypeOK, Mark
    <3>2. CASE c = For[t]
      BY <3>1, <3>2 DEF Undisturbed
    <3>3. CASE c # For[t]
      BY <1>0, <2>1, <3>1, <3>3 DEF Undisturbed
    <3>4. QED
      BY <3>2, <3>3
  <2>3. CASE pc[t] = "persisted"
    <3>1. warned'[Main] = warned[Main] \ {For[t]}
      BY <1>5, <2>1, <2>3 DEF TypeOK, Mark
    <3>2. CASE c = For[t]
      BY <2>1, <2>3, <3>2 DEF AtWork
    <3>3. CASE c # For[t]
      BY <1>0, <2>1, <3>1, <3>3 DEF Undisturbed
    <3>4. QED
      BY <3>2, <3>3
  <2>4. QED
    BY <1>5, <2>2, <2>3 DEF Mark
<1>6. ASSUME NEW i \in AuthStates, NEW d \in Characters, Expire(i, d) PROVE Accounted(c)'
  BY <1>0, <1>6 DEF Expire, sso, callers
<1>7. ASSUME NEW d \in Characters, LogoutReadRoster(d) PROVE FALSE
  BY <1>7 DEF OneLock, LogoutReadRoster, Undisturbed
<1>8. ASSUME LogoutStep PROVE FALSE
  BY <1>8 DEF OneLock, LogoutStep, LogoutSaveRoster, LogoutDelete, LogoutForget
<1>9. CASE UNCHANGED vars
  BY <1>0, <1>9 DEF vars, sso, memory, callers
<1>10. QED
  <2>1. \A t \in Callers : ~RefreshLost(t)
    BY DEF RefreshLost, Undisturbed
  <2>2. ~Crash
    BY DEF Crash, Undisturbed
  <2>3. QED
    BY <1>1, <1>2, <1>3, <1>4, <1>5, <1>6, <1>7, <1>8, <1>9, <2>1, <2>2
       DEF Next, CallerStep, Undisturbed

(* With one AuthState whose character nobody logs in or out, and no answer *)
(* or process lost, refreshes never overlap and, whatever the keychain and *)
(* the SSO refuse, the stored token is honoured, about to be replaced, or  *)
(* the user is warned (access_token_for, mark_persist_failed).             *)
THEOREM RefreshSoundAlways ==
    ASSUME Undisturbed
    PROVE  Spec => []RefreshSound
<1>0. Undisturbed
  OBVIOUS
<1>1. Init => AtWork /\ UsableOrWarned
  <2> SUFFICES ASSUME Init PROVE AtWork /\ UsableOrWarned
    OBVIOUS
  <2>1. AtWork
    BY DEF Init, AtWork
  <2>2. \A c \in Characters : keychain[c] \in Tokens => keychain[c] \in live[c]
    BY DEF Init
  <2>3. QED
    BY <2>1, <2>2 DEF UsableOrWarned
<1>2. /\ TypeOK /\ SingleRefreshPerCharacter /\ OneLock /\ AtWork /\ UsableOrWarned
      /\ [Next]_vars
      => AtWork' /\ UsableOrWarned'
  <2> SUFFICES ASSUME TypeOK, SingleRefreshPerCharacter, OneLock, AtWork, UsableOrWarned, [Next]_vars
               PROVE  AtWork' /\ UsableOrWarned'
    OBVIOUS
  <2>1. AtWork'
    BY <1>0, AtWorkStep
  <2>2. ASSUME NEW c \in Characters PROVE Accounted(c)'
    BY <1>0, AccountedStep
  <2>3. QED
    BY <2>1, <2>2 DEF Accounted, UsableOrWarned
<1>3. Spec => []SingleRefreshPerCharacter
  BY <1>0, SingleRefresh DEF Undisturbed
<1>4. Spec => []OneLock
  BY <1>0, NoForgetOneLock DEF Undisturbed
<1>5. QED
  BY <1>1, <1>2, <1>3, <1>4, TypeCorrect, PTL DEF Spec, RefreshSound

=============================================================================
