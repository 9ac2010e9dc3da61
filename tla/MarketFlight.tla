---------------------------- MODULE MarketFlight ----------------------------
(***************************************************************************)
(* The time-limited caches of the market service and the single-flight     *)
(* gates in front of them: market/cache.rs (TtlCache), market/flight.rs    *)
(* (KeyLocks, deduplicated_cached_fetch_with_stale_fallback) and the way   *)
(* market/service.rs uses them: one gate per (region, type) for orders and *)
(* history, one gate per location for a batch of Fuzzwork aggregates.      *)
(*                                                                         *)
(* A cached value is known by the instant it expires.                      *)
(***************************************************************************)
EXTENDS Naturals

CONSTANTS
    Types,      \* the keys of the caches
    CacheOf,    \* CacheOf[ty]: which of the caches holds ty
    Callers,
    Lookups,    \* the calls that can be made: [gate, types]
    Ttl,
    Jitter,     \* Jitter[ty]: added to the Ttl of ty, fixed by its hash
    MaxStale,   \* MaxStale[ty]: how long past its expiry a value may stand in
                \* for an error
    MaxTime     \* bound on the clock

ASSUME FlightAssumption ==
    /\ Ttl \in Nat \ {0}
    /\ Jitter \in [Types -> Nat]
    /\ MaxStale \in [Types -> Nat]
    /\ MaxTime \in Nat
    /\ \A q \in Lookups : q.types \subseteq Types /\ q.types # {}
    /\ \A p, q \in Lookups : p.types \cap q.types # {} => p.gate = q.gate

VARIABLES
    now,
    expiry,     \* expiry[ty]: when the cached value expires; 0: not in the map
    fetched,    \* history: the expiry of the last value fetched; 0: never
    pc,         \* where the caller is in the lookup
    call,       \* what it looks up
    asked,      \* when it asked
    out         \* out[c][ty]: the value it has for ty, 0: none

vars == <<now, expiry, fetched, pc, call, asked, out>>

Nothing == [ty \in Types |-> 0]
NoLookup == [gate |-> "none", types |-> {}]

Init ==
    /\ now = 1
    /\ expiry = Nothing
    /\ fetched = Nothing
    /\ pc = [c \in Callers |-> "idle"]
    /\ call = [c \in Callers |-> NoLookup]
    /\ asked = [c \in Callers |-> 0]
    /\ out = [c \in Callers |-> Nothing]

Tick ==
    /\ now < MaxTime
    /\ now' = now + 1
    /\ UNCHANGED <<expiry, fetched, pc, call, asked, out>>

-----------------------------------------------------------------------------
(* TtlCache                                                                *)

(* get                                                                     *)
Fresh(ty) == now < expiry[ty]

(* get_stale                                                               *)
Servable(ty) == expiry[ty] # 0 /\ now < expiry[ty] + MaxStale[ty]

(* Mutant: the sweep forgets the stale window.                             *)
SweptAtExpiry(ty) == IF expiry[ty] > now THEN expiry[ty] ELSE 0

(* The sweep at the start of every put.                                    *)
Swept(ty) == IF expiry[ty] + MaxStale[ty] > now THEN expiry[ty] ELSE 0

ExpiryOfNew(ty) == now + Ttl + Jitter[ty]

(* A put sweeps the cache it goes into.                                    *)
SweptByPut(got, ty) ==
    IF \E other \in got : CacheOf[other] = CacheOf[ty] THEN Swept(ty) ELSE expiry[ty]

Put(got) ==
    expiry' = [ty \in Types |-> IF ty \in got THEN ExpiryOfNew(ty) ELSE SweptByPut(got, ty)]

-----------------------------------------------------------------------------
(* deduplicated_cached_fetch_with_stale_fallback                           *)

Missing(c) == {ty \in call[c].types : out[c][ty] = 0}

WithFresh(o, wanted) == [ty \in Types |-> IF ty \in wanted /\ Fresh(ty) THEN expiry[ty] ELSE o[ty]]

(* The first look at the cache; what is fresh is taken out of it.          *)
Ask(c, q) ==
    /\ pc[c] = "idle"
    /\ call' = [call EXCEPT ![c] = q]
    /\ asked' = [asked EXCEPT ![c] = now]
    /\ out' = [out EXCEPT ![c] = WithFresh(Nothing, q.types)]
    /\ pc' = [pc EXCEPT ![c] = IF \A ty \in q.types : Fresh(ty) THEN "done" ELSE "queued"]
    /\ UNCHANGED <<now, expiry, fetched>>

(* Mutant: a gate per caller, which excludes nobody.                       *)
GateIgnored(c) == TRUE

GateFree(c) == \A d \in Callers : pc[d] = "fetching" => call[d].gate # call[c].gate

(* The gate is ours: look again, and fetch what is still missing.          *)
Enter(c) ==
    /\ pc[c] = "queued"
    /\ GateFree(c)
    /\ out' = [out EXCEPT ![c] = WithFresh(@, Missing(c))]
    /\ pc' = [pc EXCEPT ![c] = IF \A ty \in Missing(c) : Fresh(ty) THEN "done" ELSE "fetching"]
    /\ UNCHANGED <<now, expiry, fetched, call, asked>>

(* The upstream answers for some of the types asked for.                   *)
FetchOk(c) ==
    /\ pc[c] = "fetching"
    /\ \E got \in SUBSET Missing(c) :
          /\ Put(got)
          /\ fetched' = [ty \in Types |-> IF ty \in got THEN ExpiryOfNew(ty) ELSE fetched[ty]]
          /\ out' = [out EXCEPT ![c] = [ty \in Types |-> IF ty \in got THEN ExpiryOfNew(ty) ELSE @[ty]]]
    /\ pc' = [pc EXCEPT ![c] = "done"]
    /\ UNCHANGED <<now, call, asked>>

(* Mutant: an error gives the gate up and queues again.                    *)
FetchRetries(c) ==
    /\ pc[c] = "fetching"
    /\ pc' = [pc EXCEPT ![c] = "queued"]
    /\ UNCHANGED <<now, expiry, fetched, call, asked, out>>

(* The upstream fails: a value within its stale window stands in.          *)
FetchFails(c) ==
    /\ pc[c] = "fetching"
    /\ IF \A ty \in Missing(c) : Servable(ty)
       THEN /\ out' = [out EXCEPT ![c] = [ty \in Types |-> IF ty \in Missing(c) THEN expiry[ty] ELSE @[ty]]]
            /\ pc' = [pc EXCEPT ![c] = "done"]
       ELSE /\ pc' = [pc EXCEPT ![c] = "failed"]
            /\ UNCHANGED out
    /\ UNCHANGED <<now, expiry, fetched, call, asked>>

Return(c) ==
    /\ pc[c] \in {"done", "failed"}
    /\ pc' = [pc EXCEPT ![c] = "idle"]
    /\ call' = [call EXCEPT ![c] = NoLookup]
    /\ asked' = [asked EXCEPT ![c] = 0]
    /\ out' = [out EXCEPT ![c] = Nothing]
    /\ UNCHANGED <<now, expiry, fetched>>

Step(c) == Enter(c) \/ FetchOk(c) \/ FetchFails(c) \/ Return(c)

Next ==
    \/ Tick
    \/ \E c \in Callers : Step(c) \/ \E q \in Lookups : Ask(c, q)

Spec == Init /\ [][Next]_vars

(* tokio's mutex is first come, first served and every request ends.       *)
FairSpec == Spec /\ \A c \in Callers : SF_vars(Enter(c)) /\ WF_vars(Step(c))

-----------------------------------------------------------------------------
(* Properties                                                              *)

TypeOK ==
    /\ now \in Nat \ {0}
    /\ expiry \in [Types -> Nat]
    /\ fetched \in [Types -> Nat]
    /\ pc \in [Callers -> {"idle", "queued", "fetching", "done", "failed"}]
    /\ call \in [Callers -> Lookups \cup {NoLookup}]
    /\ asked \in [Callers -> Nat]
    /\ out \in [Callers -> [Types -> Nat]]

(* "Collapse concurrent identical fetches into one upstream request"       *)
(* (flight.rs): no type is being fetched by two callers at once.           *)
FetchedOnce ==
    \A c, d \in Callers :
        /\ pc[c] = "fetching"
        /\ pc[d] = "fetching"
        /\ Missing(c) \cap Missing(d) # {}
        => c = d

(* A caller that waited finds what the one before it fetched: no fetch is  *)
(* started for a type whose last fetched value has not expired, whatever   *)
(* other puts and sweeps happened since.                                   *)
QuietAfterFetch ==
    [][\A c \in Callers :
          pc[c] = "queued" /\ pc'[c] = "fetching" =>
              \A ty \in Missing(c)' : now >= fetched[ty]]_vars

(* "A stale success beats a hard error" (flight.rs): a lookup only fails   *)
(* if one of its types was never fetched or is past its stale window.      *)
StaleBeatsError ==
    [][\A c \in Callers :
          pc[c] # "failed" /\ pc'[c] = "failed" =>
              \E ty \in call[c].types :
                  fetched[ty] = 0 \/ now >= fetched[ty] + MaxStale[ty]]_vars

(* A value that is returned was servable at some moment of the call, and   *)
(* with no stale window it had not expired when the caller asked: waiting  *)
(* behind the gate never turns into an older answer.                       *)
AnswerServable ==
    \A c \in Callers : pc[c] = "done" =>
        \A ty \in call[c].types :
            out[c][ty] # 0 => out[c][ty] + MaxStale[ty] > asked[c]

(* Every lookup returns.                                                   *)
LookupsReturn == \A c \in Callers : pc[c] # "idle" ~> pc[c] = "idle"

(* Why QuietAfterFetch and StaleBeatsError hold: the map keeps the last    *)
(* value of a type as long as it could still be served.                    *)
KeptWhileServable ==
    \A ty \in Types :
        /\ fetched[ty] + MaxStale[ty] > now => expiry[ty] = fetched[ty]
        /\ expiry[ty] \in {0, fetched[ty]}

=============================================================================
