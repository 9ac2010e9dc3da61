----------------------------- MODULE AuthTokens -----------------------------
(***************************************************************************)
(* EVE SSO credentials of the application: the in-memory token caches      *)
(* (esi/token_cache.rs, AuthState), the OS keychain and the roster file    *)
(* (storage/mod.rs), the login and logout commands (esi/commands.rs) and   *)
(* the SSO token endpoint they talk to, which is external.                 *)
(*                                                                         *)
(* A refresh token is a member of Tokens; the SSO rotates them.  An access *)
(* token is only known to be served or not: `cached[i]' is the set of      *)
(* characters for which AuthState i would answer without a refresh.        *)
(***************************************************************************)
EXTENDS Naturals, FiniteSets

CONSTANTS
    Characters,   \* character ids
    Tokens,       \* refresh tokens the SSO can issue; bounds the rotations
    NoToken,
    AuthStates,   \* the AuthState values of the process
    Main,         \* the one Tauri manages: login and logout act on it
    Callers,      \* tasks that call access_token_for
    Via,          \* Via[t]: the AuthState task t uses
    For,          \* For[t]: the character task t asks for
    LoginChars,   \* characters somebody may log in
    Faults,       \* which failures can happen, see FaultKinds
    MaxForgets    \* bound on the completed logouts of one character

FaultKinds ==
    { "keychain",   \* a keychain read, write or delete fails
      "disk",       \* roster.json cannot be written
      "sso",        \* the token request fails before the SSO sees it
      "lost",       \* the SSO rotates, its answer is lost
      "grace",      \* the SSO accepts the token it has just replaced
      "crash" }     \* the process dies and is started again

ASSUME AuthAssumption ==
    /\ NoToken \notin Tokens
    /\ Main \in AuthStates
    /\ Via \in [Callers -> AuthStates]
    /\ For \in [Callers -> Characters]
    /\ LoginChars \subseteq Characters
    /\ Faults \subseteq FaultKinds
    /\ MaxForgets \in Nat

VARIABLES
    live,       \* live[c]: refresh tokens the SSO honours for c
    parent,     \* parent[n]: the token the SSO replaced by n
    issued,     \* tokens issued so far
    keychain,   \* keychain[c]: stored refresh token, or NoToken
    roster,     \* characters in roster.json
    cached,     \* cached[i]: AuthState.tokens that are still valid
    warned,     \* warned[i]: AuthState.persist_failures
    lockGen,    \* lockGen[i][c]: which lock object refresh_locks holds for c
    pc,         \* where task t is in access_token_for
    gen,        \* the lock object task t took from refresh_locks
    tok,        \* the refresh token task t loaded
    got,        \* the refresh token the SSO answered task t with
    crossed,    \* history: refreshing tasks that met another of their character under another lock
    login,      \* login[c]: [pc, tok, seen] of auth_login for c
    logout      \* [pc, chr, seen] of auth_logout, on the main thread

sso      == <<live, parent, issued>>
memory   == <<cached, warned, lockGen>>
callers  == <<pc, gen, tok, got, crossed>>
sessions == <<login, logout>>
vars     == <<sso, keychain, roster, memory, callers, sessions>>

MaybeToken == Tokens \cup {NoToken}

(* Between taking the lock and returning.                                  *)
Refreshing == {"loading", "posting", "answered", "persisted", "unpersisted", "caching"}

LoginPcs  == {"idle", "store", "read", "save", "clear", "cache"}
LogoutPcs == {"idle", "save", "delete", "forget"}

IdleLogin == [pc |-> "idle", tok |-> NoToken, seen |-> {}]

-----------------------------------------------------------------------------
(* The program starts with the roster and keychain an earlier session left:*)
(* each roster member has a stored token the SSO still honours.            *)
Init ==
    /\ keychain \in [Characters -> MaybeToken]
    /\ \A c, d \in Characters :
          c # d /\ keychain[c] # NoToken => keychain[c] # keychain[d]
    /\ live = [c \in Characters |-> {keychain[c]} \ {NoToken}]
    /\ issued = {keychain[c] : c \in Characters} \ {NoToken}
    /\ parent = [n \in Tokens |-> NoToken]
    /\ roster = {c \in Characters : keychain[c] # NoToken}
    /\ cached = [i \in AuthStates |-> {}]
    /\ warned = [i \in AuthStates |-> {}]
    /\ lockGen = [i \in AuthStates |-> [c \in Characters |-> 0]]
    /\ pc  = [t \in Callers |-> "idle"]
    /\ gen = [t \in Callers |-> 0]
    /\ tok = [t \in Callers |-> NoToken]
    /\ got = [t \in Callers |-> NoToken]
    /\ crossed = {}
    /\ login = [c \in Characters |-> IdleLogin]
    /\ logout \in [pc : {"idle"}, chr : Characters, seen : {{}}]

-----------------------------------------------------------------------------
(* access_token_for                                                        *)

Goto(t, label) == pc' = [pc EXCEPT ![t] = label]

(* The call ends, with a token or with an error; its guard is dropped.     *)
Return(t) ==
    /\ Goto(t, "idle")
    /\ gen' = [gen EXCEPT ![t] = 0]
    /\ tok' = [tok EXCEPT ![t] = NoToken]
    /\ got' = [got EXCEPT ![t] = NoToken]
    /\ crossed' = crossed \ {t}

(* Tasks that wait for, or hold, the same lock object.                     *)
SameLock(t, u) ==
    /\ Via[t] = Via[u]
    /\ For[t] = For[u]
    /\ gen[t] = gen[u]

(* Mutant: no lock.                                                        *)
LockIgnored(t) == TRUE

LockFree(t) == \A u \in Callers : pc[u] \in Refreshing => ~SameLock(t, u)

(* No valid token is cached: take the character's lock object and queue.   *)
(* (With a valid token the call returns at once and changes nothing.)      *)
Call(t) ==
    /\ pc[t] = "idle"
    /\ For[t] \notin cached[Via[t]]
    /\ Goto(t, "queued")
    /\ gen' = [gen EXCEPT ![t] = lockGen[Via[t]][For[t]]]
    /\ UNCHANGED <<sso, keychain, roster, memory, tok, got, crossed, sessions>>

(* The lock is ours; the re-check finds the token of an earlier winner.    *)
FindToken(t) ==
    /\ pc[t] = "queued"
    /\ LockFree(t)
    /\ For[t] \in cached[Via[t]]
    /\ Return(t)
    /\ UNCHANGED <<sso, keychain, roster, memory, sessions>>

(* Those who refresh the character of t under another lock object: of      *)
(* another AuthState, or one that a logout dropped from the map.           *)
Strangers(t) == {u \in Callers : pc[u] \in Refreshing /\ For[u] = For[t] /\ ~SameLock(t, u)}

StartRefresh(t) ==
    /\ pc[t] = "queued"
    /\ LockFree(t)
    /\ For[t] \notin cached[Via[t]]
    /\ Goto(t, "loading")
    /\ crossed' = crossed \cup Strangers(t) \cup (IF Strangers(t) = {} THEN {} ELSE {t})
    /\ UNCHANGED <<sso, keychain, roster, memory, gen, tok, got, sessions>>

LoadToken(t) ==
    /\ pc[t] = "loading"
    /\ keychain[For[t]] # NoToken
    /\ Goto(t, "posting")
    /\ tok' = [tok EXCEPT ![t] = keychain[For[t]]]
    /\ UNCHANGED <<sso, keychain, roster, memory, gen, got, crossed, sessions>>

(* NotLoggedIn, or the keychain cannot be read.                            *)
LoadFails(t) ==
    /\ pc[t] = "loading"
    /\ keychain[For[t]] = NoToken \/ "keychain" \in Faults
    /\ Return(t)
    /\ UNCHANGED <<sso, keychain, roster, memory, sessions>>

-----------------------------------------------------------------------------
(* The SSO token endpoint (external)                                       *)

(* The tokens the SSO retires when it rotates k: k, and what a first       *)
(* rotation of k had issued.                                               *)
Retired(k) == {k} \cup {n \in Tokens : parent[n] = k}

Honours(c, k) ==
    \/ k \in live[c]
    \/ "grace" \in Faults /\ \E n \in live[c] : parent[n] = k

Rotate(c, k, n) ==
    /\ Honours(c, k)
    /\ n \notin issued
    /\ issued' = issued \cup {n}
    /\ parent' = [parent EXCEPT ![n] = k]
    /\ live' = [live EXCEPT ![c] = (@ \ Retired(k)) \cup {n}]

-----------------------------------------------------------------------------
(* refresh, esi/oauth_exchange.rs                                          *)

RefreshKept(t) ==
    /\ pc[t] = "posting"
    /\ tok[t] \in live[For[t]]
    /\ got' = [got EXCEPT ![t] = tok[t]]
    /\ Goto(t, "answered")
    /\ UNCHANGED <<sso, keychain, roster, memory, gen, tok, crossed, sessions>>

RefreshRotated(t) ==
    /\ pc[t] = "posting"
    /\ \E n \in Tokens :
          /\ Rotate(For[t], tok[t], n)
          /\ got' = [got EXCEPT ![t] = n]
    /\ Goto(t, "answered")
    /\ UNCHANGED <<keychain, roster, memory, gen, tok, crossed, sessions>>

(* 400 invalid_grant, or the request did not reach the SSO.                *)
RefreshFails(t) ==
    /\ pc[t] = "posting"
    /\ tok[t] \notin live[For[t]] \/ "sso" \in Faults
    /\ Return(t)
    /\ UNCHANGED <<sso, keychain, roster, memory, sessions>>

RefreshLost(t) ==
    /\ "lost" \in Faults
    /\ pc[t] = "posting"
    /\ \E n \in Tokens : Rotate(For[t], tok[t], n)
    /\ Return(t)
    /\ UNCHANGED <<keychain, roster, memory, sessions>>

(* A rotated token is written to the keychain; an unchanged one is not.    *)
Persist(t) ==
    /\ pc[t] = "answered"
    /\ \/ /\ got[t] = tok[t]
          /\ Goto(t, "caching")
          /\ UNCHANGED keychain
       \/ /\ got[t] # tok[t]
          /\ keychain' = [keychain EXCEPT ![For[t]] = got[t]]
          /\ Goto(t, "persisted")
       \/ /\ got[t] # tok[t]
          /\ "keychain" \in Faults
          /\ Goto(t, "unpersisted")
          /\ UNCHANGED keychain
    /\ UNCHANGED <<sso, roster, memory, gen, tok, got, crossed, sessions>>

(* Mutant: the outcome of the store is not looked at.                      *)
MarkNever(t) ==
    /\ pc[t] \in {"persisted", "unpersisted"}
    /\ Goto(t, "caching")
    /\ UNCHANGED <<sso, keychain, roster, memory, gen, tok, got, crossed, sessions>>

(* mark_persist_failed                                                     *)
Mark(t) ==
    /\ pc[t] \in {"persisted", "unpersisted"}
    /\ warned' = [warned EXCEPT ![Via[t]] =
                     IF pc[t] = "unpersisted" THEN @ \cup {For[t]} ELSE @ \ {For[t]}]
    /\ Goto(t, "caching")
    /\ UNCHANGED <<sso, keychain, roster, cached, lockGen, gen, tok, got, crossed, sessions>>

CacheToken(t) ==
    /\ pc[t] = "caching"
    /\ cached' = [cached EXCEPT ![Via[t]] = @ \cup {For[t]}]
    /\ Return(t)
    /\ UNCHANGED <<sso, keychain, roster, warned, lockGen, sessions>>

(* An access token reaches its expiry, less the one-minute cushion.        *)
Expire(i, c) ==
    /\ c \in cached[i]
    /\ cached' = [cached EXCEPT ![i] = @ \ {c}]
    /\ UNCHANGED <<sso, keychain, roster, warned, lockGen, callers, sessions>>

-----------------------------------------------------------------------------
(* auth_login                                                              *)

LoginGoto(c, label) == login' = [login EXCEPT ![c].pc = label]
LoginEnds(c)        == login' = [login EXCEPT ![c] = IdleLogin]

(* The browser came back with a code and the SSO exchanged it for tokens.  *)
LoginExchange(c) ==
    /\ login[c].pc = "idle"
    /\ \E n \in Tokens \ issued :
          /\ issued' = issued \cup {n}
          /\ live' = [live EXCEPT ![c] = @ \cup {n}]
          /\ login' = [login EXCEPT ![c] = [pc |-> "store", tok |-> n, seen |-> {}]]
    /\ UNCHANGED <<parent, keychain, roster, memory, callers, logout>>

LoginStore(c) ==
    /\ login[c].pc = "store"
    /\ \/ /\ keychain' = [keychain EXCEPT ![c] = login[c].tok]
          /\ LoginGoto(c, "read")
       \/ /\ "keychain" \in Faults
          /\ LoginEnds(c)
          /\ UNCHANGED keychain
    /\ UNCHANGED <<sso, roster, memory, callers, logout>>

LoginReadRoster(c) ==
    /\ login[c].pc = "read"
    /\ login' = [login EXCEPT ![c].pc = "save", ![c].seen = roster]
    /\ UNCHANGED <<sso, keychain, roster, memory, callers, logout>>

LoginSaveRoster(c) ==
    /\ login[c].pc = "save"
    /\ \/ /\ roster' = login[c].seen \cup {c}
          /\ LoginGoto(c, "clear")
       \/ /\ "disk" \in Faults
          /\ LoginEnds(c)
          /\ UNCHANGED roster
    /\ UNCHANGED <<sso, keychain, memory, callers, logout>>

LoginClearWarning(c) ==
    /\ login[c].pc = "clear"
    /\ warned' = [warned EXCEPT ![Main] = @ \ {c}]
    /\ LoginGoto(c, "cache")
    /\ UNCHANGED <<sso, keychain, roster, cached, lockGen, callers, logout>>

LoginCacheToken(c) ==
    /\ login[c].pc = "cache"
    /\ cached' = [cached EXCEPT ![Main] = @ \cup {c}]
    /\ LoginEnds(c)
    /\ UNCHANGED <<sso, keychain, roster, warned, lockGen, callers, logout>>

-----------------------------------------------------------------------------
(* auth_logout                                                             *)

LogoutGoto(label) == logout' = [logout EXCEPT !.pc = label]
LogoutEnds        == logout' = [logout EXCEPT !.pc = "idle", !.seen = {}]

LogoutReadRoster(c) ==
    /\ logout.pc = "idle"
    /\ lockGen[Main][c] < MaxForgets
    /\ logout' = [pc |-> "save", chr |-> c, seen |-> roster]
    /\ UNCHANGED <<sso, keychain, roster, memory, callers, login>>

LogoutSaveRoster ==
    /\ logout.pc = "save"
    /\ \/ /\ roster' = logout.seen \ {logout.chr}
          /\ LogoutGoto("delete")
       \/ /\ "disk" \in Faults
          /\ LogoutEnds
          /\ UNCHANGED roster
    /\ UNCHANGED <<sso, keychain, memory, callers, login>>

LogoutDelete ==
    /\ logout.pc = "delete"
    /\ \/ /\ keychain' = [keychain EXCEPT ![logout.chr] = NoToken]
          /\ LogoutGoto("forget")
       \/ /\ "keychain" \in Faults
          /\ LogoutEnds
          /\ UNCHANGED keychain
    /\ UNCHANGED <<sso, roster, memory, callers, login>>

(* AuthState::forget: the next caller makes a new lock object.             *)
LogoutForget ==
    /\ logout.pc = "forget"
    /\ cached' = [cached EXCEPT ![Main] = @ \ {logout.chr}]
    /\ warned' = [warned EXCEPT ![Main] = @ \ {logout.chr}]
    /\ lockGen' = [lockGen EXCEPT ![Main][logout.chr] = @ + 1]
    /\ LogoutEnds
    /\ UNCHANGED <<sso, keychain, roster, callers, login>>

-----------------------------------------------------------------------------
(* The process dies and is started again: only the keychain, the roster    *)
(* file and the SSO remember.                                              *)
Crash ==
    /\ "crash" \in Faults
    /\ cached' = [i \in AuthStates |-> {}]
    /\ warned' = [i \in AuthStates |-> {}]
    /\ lockGen' = [i \in AuthStates |-> [c \in Characters |-> 0]]
    /\ pc'  = [t \in Callers |-> "idle"]
    /\ gen' = [t \in Callers |-> 0]
    /\ tok' = [t \in Callers |-> NoToken]
    /\ got' = [t \in Callers |-> NoToken]
    /\ crossed' = {}
    /\ login' = [c \in Characters |-> IdleLogin]
    /\ LogoutEnds
    /\ UNCHANGED <<sso, keychain, roster>>

CallerStep(t) ==
    \/ FindToken(t) \/ StartRefresh(t)
    \/ LoadToken(t) \/ LoadFails(t)
    \/ RefreshKept(t) \/ RefreshRotated(t) \/ RefreshFails(t) \/ RefreshLost(t)
    \/ Persist(t) \/ Mark(t) \/ CacheToken(t)

LoginStep(c) ==
    \/ LoginStore(c) \/ LoginReadRoster(c) \/ LoginSaveRoster(c)
    \/ LoginClearWarning(c) \/ LoginCacheToken(c)

LogoutStep == LogoutSaveRoster \/ LogoutDelete \/ LogoutForget

Next ==
    \/ \E t \in Callers : Call(t) \/ CallerStep(t)
    \/ \E i \in AuthStates, c \in Characters : Expire(i, c)
    \/ \E c \in LoginChars : LoginExchange(c) \/ LoginStep(c)
    \/ \E c \in Characters : LogoutReadRoster(c)
    \/ LogoutStep
    \/ Crash

Spec == Init /\ [][Next]_vars

-----------------------------------------------------------------------------
(* Properties                                                              *)

(* Each variable has its type, and a task owns tokens only while it        *)
(* refreshes: whatever way access_token_for returns, nothing stays behind. *)
TypeOK ==
    /\ live \in [Characters -> SUBSET Tokens]
    /\ parent \in [Tokens -> MaybeToken]
    /\ issued \subseteq Tokens
    /\ keychain \in [Characters -> MaybeToken]
    /\ roster \subseteq Characters
    /\ cached \in [AuthStates -> SUBSET Characters]
    /\ warned \in [AuthStates -> SUBSET Characters]
    /\ lockGen \in [AuthStates -> [Characters -> Nat]]
    /\ pc \in [Callers -> {"idle", "queued"} \cup Refreshing]
    /\ gen \in [Callers -> Nat]
    /\ tok \in [Callers -> MaybeToken]
    /\ got \in [Callers -> MaybeToken]
    /\ crossed \subseteq {t \in Callers : pc[t] \in Refreshing}
    /\ login \in [Characters -> [pc : LoginPcs, tok : MaybeToken, seen : SUBSET Characters]]
    /\ logout \in [pc : LogoutPcs, chr : Characters, seen : SUBSET Characters]
    /\ \A t \in Callers :
          /\ tok[t] # NoToken <=> pc[t] \in Refreshing \ {"loading"}
          /\ got[t] # NoToken <=> pc[t] \in Refreshing \ {"loading", "posting"}

(* "Refreshes are single-flighted per character" (access_token_for): no    *)
(* two tasks are past the re-check for one character at the same time.     *)
SingleRefreshPerCharacter ==
    \A t, u \in Callers :
        /\ pc[t] \in Refreshing
        /\ pc[u] \in Refreshing
        /\ For[t] = For[u]
        => t = u

(* The stored refresh token is one the SSO honours, unless a refresh is    *)
(* about to write its successor or the user is warned about it             *)
(* (persist_failures).                                                     *)
UsableOrWarned ==
    \A c \in Characters :
        keychain[c] \in Tokens \ live[c] =>
            \/ \E i \in AuthStates : c \in warned[i]
            \/ \E t \in Callers :
                  /\ For[t] = c
                  /\ pc[t] \in {"answered", "unpersisted"}
                  /\ tok[t] = keychain[c]

(* Both, while nobody logs in or out and no answer is lost                 *)
(* (access_token_for, mark_persist_failed).                                *)
RefreshSound == SingleRefreshPerCharacter /\ UsableOrWarned

(* A token is still honoured by the SSO at the moment it is stored ("the   *)
(* token persisted last would already be invalid" is what access_token_for *)
(* sets out to prevent), also by an SSO that accepts twice what it rotates:*)
(* unless two refreshes of the character overlap under two locks, which is *)
(* how far a lock of one AuthState and one entry of its map reaches.       *)
NeverStoresRetiredToken ==
    [][\A c \in Characters :
          keychain'[c] # keychain[c] /\ (\A t \in crossed : For[t] # c)
             => keychain'[c] \in live[c] \cup {NoToken}]_vars

(* "Remove a character: drop it from the roster, delete its keychain entry,*)
(* and forget any cached token" (auth_logout): once no login, no logout    *)
(* and no refresh is under way for a character that is not in the roster,  *)
(* it has no stored token and no cached one.                               *)
LogoutForgets ==
    \A c \in Characters \ roster :
        /\ logout.pc = "idle"
        /\ login[c].pc = "idle"
        /\ \A t \in Callers : For[t] = c => pc[t] \notin Refreshing
        => /\ keychain[c] = NoToken
           /\ \A i \in AuthStates : c \notin cached[i]

=============================================================================
