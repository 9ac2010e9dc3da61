--------------------------- MODULE DocumentProofs ---------------------------
(***************************************************************************)
(* Theorems about five parts of the application that keep a file of their  *)
(* own: the MCP bridge with its discovery file, the travel trail, the      *)
(* queue of feedback, the wormhole map and the shopping lists.             *)
(***************************************************************************)
EXTENDS McpBridge, TravelTrail, FeedbackQueue, WormholeMap, ShoppingLists, StepLemmas, SequenceTheorems,
        FiniteSetTheorems, TLAPS

-----------------------------------------------------------------------------
(* The MCP bridge.  A server that a command is stopping is told to before  *)
(* the command waits for it, and only a server that was told is stopped.   *)

Servers == [token : 0..MaxServers, port : Ports \cup {AutoPort}]

BridgeTypeOK ==
    /\ bridge \in Servers
    /\ thread \in [Tokens -> {"poll", "wait", "read", "call", "answer", "ended"}]
    /\ stopFlag \subseteq Tokens
    /\ port \in Ports
    /\ main \in {"idle", "join", "rejoin"}
    /\ up \in BOOLEAN
    /\ servers \in 0..MaxServers
    /\ faults \in Nat

BridgeConsistent ==
    /\ bridge # None => bridge.token \in 1..servers /\ up
    /\ stopFlag \subseteq 1..servers
    /\ main # "idle" => bridge # None /\ bridge.token \in stopFlag
    /\ main = "idle" /\ bridge # None => bridge.token \notin stopFlag /\ bridge.port = port

FileTrue ==
    main = "idle" /\ faults = 0 =>
        IF bridge # None THEN discovery = bridge.token ELSE discovery \notin stopFlag

LEMMA NoneIsServer == MaxServers \in Nat => None \in Servers
  BY DEF None, Servers

BridgeInv == BridgeTypeOK /\ RetiredTokenIsDead /\ BridgeConsistent /\ FileTrue

(* Starting a server when none runs, on the port that is configured.       *)
LEMMA LaunchKeeps ==
    ASSUME BridgeAssumption, BridgeInv, NEW old,
           \A t \in Tokens : ~Alive(t),
           Launch(port, old) \/ BindFails(old), faults = 0 => old \notin stopFlag,
           UNCHANGED <<stopFlag, port>>, main' = "idle", up' = TRUE
    PROVE  BridgeInv'
<1> USE DEF BridgeAssumption, Tokens
<1>1. CASE Launch(port, old)
  <2>1. /\ servers < MaxServers /\ servers' = servers + 1
        /\ bridge' = [token |-> servers + 1, port |-> port]
        /\ thread' = [thread EXCEPT ![servers + 1] = "poll"]
        /\ (discovery' = servers + 1 /\ faults' = faults) \/ faults' = faults + 1
    BY <1>1 DEF Launch, WriteDiscovery, Fault
  <2>2. bridge' # None /\ bridge'.token = servers' /\ bridge'.port = port /\ servers' \in Tokens
    BY <2>1 DEF None, BridgeInv, BridgeTypeOK
  <2>3. BridgeTypeOK'
    BY <2>1 DEF BridgeInv, BridgeTypeOK, Servers
  <2>4. RetiredTokenIsDead'
    BY <2>1, <2>2 DEF RetiredTokenIsDead, Alive, BridgeInv, BridgeTypeOK
  <2>5. servers' \notin stopFlag'
    BY <2>1 DEF BridgeInv, BridgeTypeOK, BridgeConsistent
  <2>6. BridgeConsistent'
    BY <2>1, <2>2, <2>5 DEF BridgeInv, BridgeTypeOK, BridgeConsistent
  <2>7. FileTrue'
    BY <2>1, <2>2 DEF FileTrue, BridgeInv, BridgeTypeOK
  <2>8. QED
    BY <2>3, <2>4, <2>6, <2>7 DEF BridgeInv
<1>2. CASE BindFails(old)
  <2>1. bridge' = None /\ discovery' = old /\ UNCHANGED <<thread, servers, faults>>
    BY <1>2 DEF BindFails
  <2>2. BridgeTypeOK'
    BY <2>1 DEF BridgeInv, BridgeTypeOK, Servers, None
  <2>3. RetiredTokenIsDead'
    BY <2>1 DEF RetiredTokenIsDead, Alive
  <2>4. BridgeConsistent' /\ FileTrue'
    BY <2>1 DEF BridgeInv, BridgeConsistent, FileTrue
  <2>5. QED
    BY <2>2, <2>3, <2>4 DEF BridgeInv
<1>3. QED
  BY <1>1, <1>2

LEMMA BridgeStep ==
    ASSUME BridgeAssumption, BridgeInv, [McpNext]_mVars
    PROVE  BridgeInv'
<1> USE DEF BridgeAssumption
<1>0. BridgeTypeOK /\ RetiredTokenIsDead /\ BridgeConsistent /\ FileTrue
  BY DEF BridgeInv
<1>1. bridge = None => \A t \in Tokens : ~Alive(t)
  BY <1>0 DEF RetiredTokenIsDead, None, Tokens
<1>2. bridge # None /\ ~Alive(bridge.token) => \A t \in Tokens : ~Alive(t)
  BY <1>0 DEF RetiredTokenIsDead
<1>3. NoFile \notin stopFlag
  BY <1>0 DEF BridgeTypeOK
<1>4. ASSUME StartServer(port), up' = TRUE, main = "idle", UNCHANGED <<stopFlag, config, main>>
      PROVE  BridgeInv'
  <2>1. CASE bridge # None
    <3>1. UNCHANGED <<bridge, thread, discovery, servers, faults>>
      BY <1>4, <2>1 DEF StartServer
    <3>2. QED
      BY <1>0, <1>4, <3>1 DEF BridgeInv, BridgeTypeOK, RetiredTokenIsDead, Alive, BridgeConsistent, FileTrue, config
  <2>2. CASE bridge = None
    <3>1. Launch(port, discovery) \/ BindFails(discovery)
      BY <1>4, <2>2 DEF StartServer
    <3>2. faults = 0 => discovery \notin stopFlag
      BY <1>0, <1>4, <2>2 DEF FileTrue
    <3>3. QED
      BY <1>1, <1>4, <2>2, <3>1, <3>2, LaunchKeeps DEF config
  <2>3. QED
    BY <2>1, <2>2
<1>5. CASE Setup
  <2>1. bridge = None /\ main = "idle" /\ main' = "idle" /\ up' = TRUE /\ UNCHANGED <<stopFlag, config>>
    BY <1>0, <1>5 DEF Setup, BridgeConsistent
  <2>2. CASE autostart
    BY <1>4, <1>5, <2>1, <2>2 DEF Setup
  <2>3. CASE ~autostart
    <3>1. UNCHANGED <<bridge, thread, discovery, servers, faults>>
      BY <1>5, <2>3 DEF Setup
    <3>2. QED
      BY <1>0, <2>1, <3>1 DEF BridgeInv, BridgeTypeOK, RetiredTokenIsDead, Alive, BridgeConsistent, FileTrue, config
  <2>4. QED
    BY <2>2, <2>3
<1>6. CASE McpStart
  BY <1>0, <1>4, <1>6 DEF McpStart, BridgeTypeOK
<1>7. CASE McpStop \/ \E p \in Ports : SetPort(p)
  <2>1. /\ up /\ main = "idle" /\ port' \in Ports
        /\ UNCHANGED <<thread, discovery, up, servers, faults>>
    BY <1>0, <1>7 DEF McpStop, SetPort, config, BridgeTypeOK
  <2>2. CASE AskToStop("join") \/ AskToStop("rejoin")
    <3>1. bridge # None /\ bridge' = bridge /\ stopFlag' = stopFlag \cup {bridge.token} /\ main' \in {"join", "rejoin"}
      BY <2>2 DEF AskToStop
    <3>2. bridge.token \in Tokens /\ bridge.token \in 1..servers
      BY <1>0, <3>1 DEF BridgeConsistent, BridgeTypeOK, Tokens
    <3>3. QED
      BY <1>0, <2>1, <3>1, <3>2 DEF BridgeInv, BridgeTypeOK, RetiredTokenIsDead, Alive, BridgeConsistent, FileTrue
  <2>3. CASE bridge = None /\ UNCHANGED <<bridge, stopFlag, main>>
    BY <1>0, <2>1, <2>3 DEF BridgeInv, BridgeTypeOK, RetiredTokenIsDead, Alive, BridgeConsistent, FileTrue
  <2>4. QED
    BY <1>7, <2>2, <2>3 DEF McpStop, SetPort
<1>8. CASE Stopped
  <2>1. /\ main = "join" /\ bridge' = None /\ discovery' = NoFile /\ main' = "idle"
        /\ \A t \in Tokens : ~Alive(t)
        /\ UNCHANGED <<thread, stopFlag, port, up, servers, faults>>
    BY <1>0, <1>2, <1>8 DEF Stopped, Joined, RemoveDiscovery, BridgeConsistent, config
  <2>2. QED
    BY <1>0, <1>3, <2>1, NoneIsServer DEF BridgeInv, BridgeTypeOK, RetiredTokenIsDead, Alive, BridgeConsistent, FileTrue
<1>9. CASE Restarted
  <2>1. /\ main = "rejoin" /\ main' = "idle"
        /\ Launch(port, NoFile) \/ BindFails(NoFile)
        /\ UNCHANGED <<stopFlag, port>>
    BY <1>0, <1>9 DEF Restarted, RemoveDiscovery, BridgeConsistent, config
  <2>2. \A t \in Tokens : ~Alive(t)
    BY <1>0, <1>2, <1>9 DEF Restarted, Joined, BridgeConsistent
  <2>3. up' = TRUE
    BY <1>0, <1>9, <2>1 DEF Restarted, BridgeTypeOK, BridgeConsistent, config
  <2>4. QED
    BY <1>3, <2>1, <2>2, <2>3, LaunchKeeps
<1>10. CASE SetAutostart \/ SetDevTier
  BY <1>0, <1>10 DEF SetAutostart, SetDevTier, BridgeInv, BridgeTypeOK, RetiredTokenIsDead, Alive, BridgeConsistent, FileTrue
<1>11. ASSUME NEW t \in Tokens, Serve(t) \/ ListenerFails(t) PROVE BridgeInv'
  <2>1. /\ thread[t] # "ended" /\ \E s \in {"poll", "wait", "read", "call", "answer", "ended"} : thread' = [thread EXCEPT ![t] = s]
        /\ faults' = faults \/ faults' = faults + 1
        /\ UNCHANGED <<bridge, stopFlag, discovery, port, main, up, servers>>
    BY <1>11 DEF Serve, Look, NoRequest, Receive, ReadBody, CallEnds, Respond, SeesStop, ListenerFails, Fault, threadOnly, config
  <2>2. QED
    BY <1>0, <2>1 DEF BridgeInv, BridgeTypeOK, RetiredTokenIsDead, Alive, BridgeConsistent, FileTrue
<1>12. CASE Quit
  <2>1. /\ bridge' = None /\ main' = "idle" /\ up' = FALSE
        /\ thread' = [t \in Tokens |-> "ended"]
        /\ UNCHANGED <<stopFlag, discovery, port, servers>>
    BY <1>12 DEF Quit, config
  <2>2. (main = "idle" /\ faults' = faults) \/ faults' = faults + 1
    BY <1>12 DEF Quit, Fault
  <2>3. BridgeTypeOK'
    <3>1. bridge' \in Servers
      BY <2>1, NoneIsServer
    <3>2. thread' \in [Tokens -> {"poll", "wait", "read", "call", "answer", "ended"}]
      BY <2>1
    <3>3. faults' \in Nat
      BY <1>0, <2>2 DEF BridgeTypeOK
    <3>4. stopFlag' \subseteq Tokens /\ port' \in Ports /\ servers' \in 0..MaxServers
      BY <1>0, <2>1 DEF BridgeTypeOK
    <3>5. main' \in {"idle", "join", "rejoin"} /\ up' \in BOOLEAN
      BY <2>1
    <3>6. QED
      BY <3>1, <3>2, <3>3, <3>4, <3>5 DEF BridgeTypeOK
  <2>4. FileTrue'
    BY <1>0, <2>1, <2>2 DEF FileTrue, BridgeConsistent, BridgeTypeOK
  <2>5. RetiredTokenIsDead' /\ BridgeConsistent'
    BY <1>0, <2>1 DEF RetiredTokenIsDead, Alive, BridgeConsistent
  <2>6. QED
    BY <2>3, <2>4, <2>5 DEF BridgeInv
<1>13. CASE UNCHANGED mVars
  BY <1>0, <1>13 DEF mVars, config, BridgeInv, BridgeTypeOK, RetiredTokenIsDead, Alive, BridgeConsistent, FileTrue
<1>14. QED
  BY <1>5, <1>6, <1>7, <1>8, <1>9, <1>10, <1>11, <1>12, <1>13 DEF McpNext

(* Whatever is started, stopped and restarted, fails or crashes: no server *)
(* serves but the one that runs (McpState::stop joins the thread), that    *)
(* one is on the configured port, and the discovery file names it unless a *)
(* file operation failed.                                                  *)
THEOREM BridgeIsHonest ==
    ASSUME BridgeAssumption
    PROVE  McpSpec => []BridgeHonest
<1>1. McpInit => BridgeInv
  <2> SUFFICES ASSUME McpInit PROVE BridgeInv
    OBVIOUS
  <2>0. bridge \in Servers
    BY NoneIsServer DEF McpInit, BridgeAssumption
  <2>1. BridgeTypeOK
    <3>1. thread \in [Tokens -> {"poll", "wait", "read", "call", "answer", "ended"}]
      BY DEF McpInit
    <3>2. stopFlag \subseteq Tokens /\ servers \in 0..MaxServers /\ faults \in Nat
      BY DEF McpInit, BridgeAssumption
    <3>3. QED
      BY <2>0, <3>1, <3>2 DEF McpInit, BridgeTypeOK
  <2>2. QED
    BY <2>1 DEF McpInit, BridgeInv, RetiredTokenIsDead, Alive, BridgeConsistent, FileTrue
<1>2. BridgeInv /\ [McpNext]_mVars => BridgeInv'
  BY BridgeStep
<1>3. BridgeInv => BridgeHonest
  BY DEF BridgeInv, BridgeConsistent, FileTrue, BridgeHonest, DiscoveryTrue
<1>4. QED
  BY <1>1, <1>2, <1>3, PTL DEF McpSpec

-----------------------------------------------------------------------------
(* The travel trail.  Every document a call holds is a trail of true hops,  *)
(* so it does not matter which of them is written back, and when.           *)

Gaps == {0, -1} \cup {GateDistance(s, t) : s \in Systems, t \in Systems}
Row == [sys : Systems, gap : Gaps]

TrueHop(a, b) ==
    /\ a.sys # b.sys
    /\ b.gap \in IF {a.sys, b.sys} \cap Wspace # {} THEN {-1} ELSE {0, GateDistance(a.sys, b.sys)}

TrueTrail(rows) ==
    /\ rows \in Seq(Row)
    /\ \A i \in 2..Len(rows) : TrueHop(rows[i - 1], rows[i])

Steps == {"idle", "asked", "answered", "loaded"}

CallTrue(asked) ==
    /\ asked \in [step : Steps, loc : Systems \cup {0}, rows : Seq(Row)]
    /\ TrueTrail(asked.rows)
    /\ asked.step \in {"answered", "loaded"} => asked.loc \in Systems

TrailInv ==
    /\ at \in Systems
    /\ TrueTrail(trail)
    /\ poll = [p \in Polls |-> poll[p]]
    /\ \A p \in Polls : CallTrue(poll[p])
    /\ view \in [step : Steps, loc : {0}, rows : Seq(Row)]
    /\ TrueTrail(view.rows)

LEMMA GapTyped ==
    ASSUME NEW s \in Systems, NEW t \in Systems, NEW known \in BOOLEAN
    PROVE  GapTo(s, t, known) \in Gaps
  BY DEF GapTo, Gaps

LEMMA EmptyTrue == TrueTrail(<<>>)
  BY DEF TrueTrail

LEMMA NoCallTrue == CallTrue(NoCall)
  BY EmptyTrue DEF CallTrue, NoCall, Steps, TrueTrail

(* Dropping the oldest entries keeps every hop that stays.                  *)
LEMMA CappedTrue ==
    ASSUME TrailAssumption, NEW rows, TrueTrail(rows)
    PROVE  TrueTrail(Capped(rows))
<1>1. CASE Len(rows) > Cap
  <2> DEFINE m == Len(rows) - Cap + 1
             kept == SubSeq(rows, m, Len(rows))
  <2>1. rows \in Seq(Row) /\ Len(rows) \in Nat /\ m \in 1..Len(rows) + 1
    BY <1>1 DEF TrueTrail, TrailAssumption
  <2>2. kept \in Seq(Row) /\ Len(kept) = Cap /\ \A i \in 1..Cap : kept[i] = rows[m + i - 1]
    BY <1>1, <2>1, SubSeqProperties DEF TrailAssumption
  <2>3. ASSUME NEW i \in 2..Cap PROVE TrueHop(kept[i - 1], kept[i])
    <3>1. kept[i] = rows[m + i - 1] /\ kept[i - 1] = rows[m + i - 2] /\ m + i - 1 \in 2..Len(rows)
      BY <2>1, <2>2 DEF TrailAssumption
    <3>2. QED
      BY <2>1, <3>1, SMTT(40) DEF TrueTrail
  <2>4. QED
    BY <1>1, <2>2, <2>3 DEF TrueTrail, Capped
<1>2. QED
  BY <1>1 DEF Capped

(* An entry is appended only when the system changed, with the gap of that  *)
(* hop.                                                                     *)
LEMMA AppendedTrue ==
    ASSUME TrailAssumption, NEW rows, TrueTrail(rows), NEW loc \in Systems, NEW known \in BOOLEAN,
           Moved(rows, loc)
    PROVE  TrueTrail(Append1(rows, loc, known))
<1> DEFINE gap == IF rows = <<>> THEN 0 ELSE GapTo(rows[Len(rows)].sys, loc, known)
           row == [sys |-> loc, gap |-> gap]
<1>1. rows \in Seq(Row) /\ Len(rows) \in Nat /\ (rows # <<>> => Len(rows) \in 1..Len(rows) /\ rows[Len(rows)] \in Row)
  BY DEF TrueTrail
<1>2. gap \in Gaps
  BY <1>1, GapTyped DEF Row, Gaps
<1>3. row \in Row
  BY <1>2 DEF Row
<1>4. /\ Append(rows, row) \in Seq(Row)
      /\ Len(Append(rows, row)) = Len(rows) + 1
      /\ Append(rows, row)[Len(rows) + 1] = row
      /\ \A i \in 1..Len(rows) : Append(rows, row)[i] = rows[i]
  BY <1>1, <1>3, AppendProperties
<1>5. rows # <<>> => TrueHop(rows[Len(rows)], row)
  BY DEF Moved, TrueHop, GapTo
<1>6. TrueTrail(Append(rows, row))
  <2>1. ASSUME NEW i \in 2..Len(rows) + 1 PROVE TrueHop(Append(rows, row)[i - 1], Append(rows, row)[i])
    <3>1. CASE i = Len(rows) + 1
      BY <1>1, <1>4, <1>5, <3>1
    <3>2. CASE i # Len(rows) + 1
      <4>1. i \in 2..Len(rows) /\ i \in 1..Len(rows) /\ i - 1 \in 1..Len(rows)
        BY <1>1, <3>2
      <4>2. QED
        BY <1>4, <4>1 DEF TrueTrail
    <3>3. QED
      BY <3>1, <3>2
  <2>2. QED
    BY <1>4, <2>1 DEF TrueTrail
<1>7. QED
  BY <1>6, CappedTrue DEF Append1

(* Filling in the unknown gaps keeps the systems.                           *)
LEMMA FilledTrue ==
    ASSUME NEW rows, TrueTrail(rows)
    PROVE  TrueTrail(Filled(rows))
<1>1. rows \in Seq(Row) /\ Len(rows) \in Nat /\ DOMAIN rows = 1..Len(rows)
  BY DEF TrueTrail
<1>2. \A i \in 1..Len(rows) : rows[i] \in Row
  BY <1>1
<1>3. ASSUME NEW i \in 1..Len(rows)
      PROVE  Filled(rows)[i] \in Row /\ Filled(rows)[i].sys = rows[i].sys
  <2>1. CASE i = 1 \/ rows[i].gap # 0
    BY <1>1, <1>2, <2>1 DEF Filled
  <2>2. CASE ~(i = 1 \/ rows[i].gap # 0)
    <3>1. Filled(rows)[i] = [rows[i] EXCEPT !.gap = GapTo(rows[i - 1].sys, rows[i].sys, TRUE)]
      BY <1>1, <2>2 DEF Filled
    <3>2. rows[i] \in Row /\ rows[i - 1] \in Row
      BY <1>1, <1>2, <2>2
    <3>3. GapTo(rows[i - 1].sys, rows[i].sys, TRUE) \in Gaps
      BY <3>2, GapTyped DEF Row
    <3>4. QED
      BY <3>1, <3>2, <3>3 DEF Row
  <2>3. QED
    BY <2>1, <2>2
<1>4. Filled(rows) \in Seq(Row) /\ Len(Filled(rows)) = Len(rows)
  <2>1. Filled(rows) = [i \in 1..Len(rows) |-> Filled(rows)[i]]
    BY <1>1 DEF Filled
  <2> DEFINE f(i) == Filled(rows)[i]
  <2>2. [i \in 1..Len(rows) |-> f(i)] \in [1..Len(rows) -> Row]
    BY <1>3
  <2>3. QED
    BY <1>1, <2>1, <2>2, SeqDef, LenProperties
<1>5. ASSUME NEW i \in 2..Len(rows)
      PROVE  TrueHop(Filled(rows)[i - 1], Filled(rows)[i])
  <2>1. i \in 1..Len(rows) /\ i - 1 \in 1..Len(rows) /\ i # 1
    BY <1>1
  <2>2. TrueHop(rows[i - 1], rows[i]) /\ rows[i] \in Row
    BY <1>2, <2>1 DEF TrueTrail
  <2>3. Filled(rows)[i - 1].sys = rows[i - 1].sys /\ Filled(rows)[i].sys = rows[i].sys
    BY <1>3, <2>1
  <2>4. Filled(rows)[i].gap = rows[i].gap \/ Filled(rows)[i].gap = GapTo(rows[i - 1].sys, rows[i].sys, TRUE)
    BY <1>1, <2>1, <2>2 DEF Filled, Row
  <2>5. QED
    BY <2>2, <2>3, <2>4 DEF TrueHop, GapTo
<1>6. QED
  BY <1>4, <1>5 DEF TrueTrail

LEMMA TrailStep ==
    ASSUME TrailAssumption, TrailInv, [TrailNext]_tVars
    PROVE  TrailInv'
<1>0. /\ at \in Systems
      /\ TrueTrail(trail)
      /\ \A p \in Polls : CallTrue(poll[p])
      /\ view \in [step : Steps, loc : {0}, rows : Seq(Row)]
      /\ TrueTrail(view.rows)
  BY DEF TrailInv
<1>1. ASSUME NEW p \in Polls, NEW asked, CallTrue(asked), poll' = [poll EXCEPT ![p] = asked],
             at' = at, view' = view, TrueTrail(trail')
      PROVE  TrailInv'
  <2>1. \A q \in Polls : poll'[q] = IF q = p THEN asked ELSE poll[q]
    BY <1>1 DEF TrailInv
  <2>2. poll' = [q \in Polls |-> poll'[q]]
    BY <1>1 DEF TrailInv
  <2>3. \A q \in Polls : CallTrue(poll'[q])
    BY <1>0, <1>1, <2>1
  <2>4. QED
    BY <1>0, <1>1, <2>2, <2>3 DEF TrailInv
<1>2. ASSUME NEW p \in Polls, Ask(p) \/ Answered(p) \/ Failed(p) \/ LoadTrail(p)
      PROVE  TrailInv'
  <2>1. CallTrue(poll[p])
    BY <1>0
  <2>2. trail' = trail /\ view' = view /\ at' = at
    BY <1>2 DEF Ask, Answered, Failed, LoadTrail
  <2>3. CASE Ask(p)
    <3>1. CallTrue([poll[p] EXCEPT !.step = "asked"])
      BY <2>1 DEF CallTrue, Steps
    <3>2. poll' = [poll EXCEPT ![p] = [poll[p] EXCEPT !.step = "asked"]]
      BY <2>3 DEF Ask
    <3>3. QED
      BY <1>0, <1>1, <2>2, <3>1, <3>2
  <2>4. CASE Answered(p)
    <3>1. CallTrue([NoCall EXCEPT !.step = "answered", !.loc = at])
      BY <1>0, EmptyTrue DEF CallTrue, Steps, NoCall, TrueTrail
    <3>2. poll' = [poll EXCEPT ![p] = [NoCall EXCEPT !.step = "answered", !.loc = at]]
      BY <2>4 DEF Answered
    <3>3. QED
      BY <1>0, <1>1, <2>2, <3>1, <3>2
  <2>5. CASE Failed(p)
    BY <1>0, <1>1, <2>2, <2>5, NoCallTrue DEF Failed
  <2>6. CASE LoadTrail(p)
    <3> DEFINE asked == [[poll[p] EXCEPT !.step = "loaded"] EXCEPT !.rows = trail]
    <3>1. CallTrue(asked)
      BY <1>0, <2>1, <2>6 DEF CallTrue, Steps, TrueTrail, LoadTrail
    <3>2. poll' = [poll EXCEPT ![p] = asked]
      BY <1>0, <2>1, <2>6 DEF LoadTrail, CallTrue, TrailInv
    <3>3. QED
      BY <1>0, <1>1, <2>2, <3>1, <3>2
  <2>7. QED
    BY <1>2, <2>3, <2>4, <2>5, <2>6
<1>3. ASSUME NEW p \in Polls, SavePoll(p)
      PROVE  TrailInv'
  <2>1. CallTrue(poll[p]) /\ poll[p].loc \in Systems
    BY <1>0, <1>3 DEF SavePoll, CallTrue
  <2>2. TrueTrail(trail')
    BY <1>0, <1>3, <2>1, AppendedTrue DEF SavePoll, CallTrue
  <2>3. QED
    BY <1>1, <1>3, <2>2, NoCallTrue DEF SavePoll
<1>4. ASSUME UNCHANGED poll, at' \in Systems, TrueTrail(trail'), view' \in {NoCall, view} \/ view' = [NoCall EXCEPT !.step = "loaded", !.rows = trail]
      PROVE  TrailInv'
  <2>1. NoCall \in [step : Steps, loc : {0}, rows : Seq(Row)] /\ TrueTrail(NoCall.rows)
    BY EmptyTrue DEF NoCall, Steps, TrueTrail
  <2>2. view' \in [step : Steps, loc : {0}, rows : Seq(Row)] /\ TrueTrail(view'.rows)
    <3>1. CASE view' \in {NoCall, view}
      BY <1>0, <2>1, <3>1
    <3>2. CASE view' = [NoCall EXCEPT !.step = "loaded", !.rows = trail]
      BY <1>0, <2>1, <3>2 DEF NoCall, Steps, TrueTrail
    <3>3. QED
      BY <1>4, <3>1, <3>2
  <2>3. QED
    BY <1>0, <1>4, <2>2 DEF TrailInv
<1>5. CASE View
  BY <1>0, <1>4, <1>5 DEF View
<1>6. CASE Viewed
  <2>1. TrueTrail(trail')
    BY <1>0, <1>6, FilledTrue DEF Viewed
  <2>2. QED
    BY <1>0, <1>4, <1>6, <2>1 DEF Viewed
<1>7. CASE ViewedNoGates
  BY <1>0, <1>4, <1>7 DEF ViewedNoGates
<1>8. CASE Clear
  BY <1>0, <1>4, <1>8, EmptyTrue DEF Clear
<1>9. CASE Move
  BY <1>0, <1>4, <1>9 DEF Move
<1>10. CASE Nearest \/ ForgetAnswer
  BY <1>0, <1>4, <1>10 DEF Nearest, ForgetAnswer
<1>11. CASE UNCHANGED tVars
  BY <1>0, <1>4, <1>11 DEF tVars
<1>12. QED
  BY <1>2, <1>3, <1>5, <1>6, <1>7, <1>8, <1>9, <1>10, <1>11 DEF TrailNext

(* Whatever polls, views and resets overlap, and whichever of them writes   *)
(* its document last, a stored gap is the way from the entry before it, or *)
(* unknown (route_location, route_breadcrumb).                             *)
THEOREM TrailIsHonest ==
    ASSUME TrailAssumption
    PROVE  TrailSpec => []TrailHonest
<1>1. TrailInit => TrailInv
  <2> SUFFICES ASSUME TrailInit PROVE TrailInv
    OBVIOUS
  <2>1. at \in Systems /\ TrueTrail(trail)
    BY EmptyTrue DEF TrailInit
  <2>2. \A p \in Polls : CallTrue(poll[p])
    BY NoCallTrue DEF TrailInit
  <2>3. view \in [step : Steps, loc : {0}, rows : Seq(Row)] /\ TrueTrail(view.rows)
    BY EmptyTrue DEF TrailInit, NoCall, Steps, TrueTrail
  <2>4. QED
    BY <2>1, <2>2, <2>3 DEF TrailInv, TrailInit
<1>2. TrailInv /\ [TrailNext]_tVars => TrailInv'
  BY TrailStep
<1>3. TrailInv => TrailHonest
  BY DEF TrailInv, TrailHonest, TrueTrail, TrueHop
<1>4. QED
  BY <1>1, <1>2, <1>3, PTL DEF TrailSpec

-----------------------------------------------------------------------------
(* The queue of feedback.  A call that did not overlap another's save holds *)
(* the document itself, and while there is room a save drops nothing.       *)

SentFiled(store, files) == \A i \in DOMAIN store : store[i].sent => i \in files
StoreFits(store, made, files) == DOMAIN store \subseteq made /\ SentFiled(store, files)

Roomy(made) == Cardinality(made) <= HistoryCap

CallFits(c, x, made, files, dropped) ==
    /\ x = [step |-> x.step, held |-> x.held, ids |-> x.ids, at |-> x.at, stale |-> x.stale]
    /\ x.step \in {"idle", "open", "saving"} /\ x.stale \in BOOLEAN
    /\ x.ids \subseteq made
    /\ StoreFits(x.held, made, files)
    /\ c = "forget" => x.ids \subseteq dropped
    /\ c = "submit" => \A i, j \in x.ids : i = j
    /\ c = "submit" /\ x.step = "saving" /\ Roomy(made) => x.ids \subseteq DOMAIN x.held

InOrder ==
    /\ \A c \in Commands : call[c].step = "open" /\ ~call[c].stale => call[c].held = queue /\ ~SomeSave
    /\ \A c \in Commands : Saving(c) => ~call[c].stale /\ queue = NoEntries
    /\ \A c, d \in Commands : Saving(c) /\ Saving(d) => c = d

WireFits ==
    /\ wire = [i \in Reports |-> wire[i]]
    /\ \A i \in Reports : wire[i] = "sent" => i \in filed

FeedbackInv ==
    /\ answered \subseteq begun /\ begun \subseteq Reports /\ overlapped \in BOOLEAN
    /\ WireFits
    /\ StoreFits(queue, begun, filed)
    /\ call = [c \in Commands |-> call[c]]
    /\ \A c \in Commands : CallFits(c, call[c], begun, filed, forgotten)
    /\ ~overlapped => InOrder /\ Recoverable

LEMMA StillRoomy ==
    ASSUME QueueAssumption, begun \subseteq begun', begun' \subseteq Reports, Roomy(begun')
    PROVE  Roomy(begun)
<1>1. IsFiniteSet(begun')
  BY FS_Subset DEF QueueAssumption
<1>2. IsFiniteSet(begun) /\ Cardinality(begun) <= Cardinality(begun')
  BY <1>1, FS_Subset
<1>3. Cardinality(begun) \in Nat /\ Cardinality(begun') \in Nat
  BY <1>1, <1>2, FS_CardinalityType
<1>4. QED
  BY <1>2, <1>3 DEF Roomy, QueueAssumption

(* save_store cuts only what is over HISTORY_CAP.                           *)
LEMMA RoomyKeeps ==
    ASSUME QueueAssumption, NEW store, DOMAIN store \subseteq begun, begun \subseteq Reports, Roomy(begun),
           NEW s \in KeptEntries(store)
    PROVE  s = DOMAIN store
<1>1. IsFiniteSet(begun)
  BY FS_Subset DEF QueueAssumption
<1>2. /\ IsFiniteSet(DOMAIN store)
      /\ Cardinality(DOMAIN store) <= Cardinality(begun)
  BY <1>1, FS_Subset
<1>3. Cardinality(DOMAIN store) \in Nat /\ Cardinality(begun) \in Nat
  BY <1>1, <1>2, FS_CardinalityType
<1>4. s \in SUBSET DOMAIN store /\ Cardinality(s) = Cardinality(DOMAIN store)
  BY <1>2, <1>3 DEF KeptEntries, QueueAssumption, Roomy
<1>5. QED
  BY <1>2, <1>4, FS_Subset

LEMMA IdleFits ==
    ASSUME NEW c, NEW made, NEW files, NEW dropped
    PROVE  CallFits(c, IdleCall, made, files, dropped)
  BY DEF CallFits, IdleCall, NoEntries, StoreFits, SentFiled

(* What fits goes on fitting as submissions are made, filed and dropped.    *)
LEMMA StaysFit ==
    ASSUME QueueAssumption, begun \subseteq begun', begun' \subseteq Reports, filed \subseteq filed', forgotten \subseteq forgotten'
    PROVE  /\ \A store : StoreFits(store, begun, filed) => StoreFits(store, begun', filed')
           /\ \A c, x : CallFits(c, x, begun, filed, forgotten) => CallFits(c, x, begun', filed', forgotten')
<1>1. \A store : StoreFits(store, begun, filed) => StoreFits(store, begun', filed')
  BY DEF StoreFits, SentFiled
<1>2. ASSUME NEW c, NEW x, CallFits(c, x, begun, filed, forgotten) PROVE CallFits(c, x, begun', filed', forgotten')
  BY <1>1, <1>2, StillRoomy DEF CallFits
<1>3. QED
  BY <1>1, <1>2

LEMMA LoadStep ==
    ASSUME QueueAssumption, FeedbackInv, NEW c \in Commands, Resting(c), NEW ids, NEW now, Load(c, ids, now),
           begun \subseteq begun', begun' \subseteq Reports, ids \subseteq begun',
           forgotten \subseteq forgotten', c = "forget" => ids \subseteq forgotten',
           c = "submit" => \A i, j \in ids : i = j,
           WireFits', UNCHANGED <<queue, filed, answered, cutOff, overlapped>>
    PROVE  FeedbackInv'
<1> DEFINE loaded == [step |-> "open", held |-> queue, ids |-> ids, at |-> now, stale |-> SomeSave]
<1>1. /\ call = [d \in Commands |-> call[d]]
      /\ \A d \in Commands : CallFits(d, call[d], begun, filed, forgotten)
      /\ StoreFits(queue, begun, filed)
      /\ answered \subseteq begun /\ overlapped \in BOOLEAN
      /\ ~overlapped => InOrder /\ Recoverable
  BY DEF FeedbackInv
<1>2. /\ call' = [d \in Commands |-> call'[d]]
      /\ \A d \in Commands : call'[d] = IF d = c THEN loaded ELSE call[d]
  BY <1>1 DEF Load
<1>3. /\ \A store : StoreFits(store, begun, filed) => StoreFits(store, begun', filed')
      /\ \A d, x : CallFits(d, x, begun, filed, forgotten) => CallFits(d, x, begun', filed', forgotten')
  BY StaysFit
<1>4. SomeSave \in BOOLEAN
  BY DEF SomeSave, Saving
<1>5. CallFits(c, loaded, begun', filed', forgotten')
  BY <1>1, <1>3, <1>4 DEF CallFits, StoreFits
<1>6. \A d \in Commands : CallFits(d, call'[d], begun', filed', forgotten')
  BY <1>1, <1>2, <1>3, <1>5
<1>7. \A d \in Commands : Saving(d)' <=> Saving(d)
  BY <1>2 DEF Saving, Resting
<1>8. SomeSave' <=> SomeSave
  BY <1>7 DEF SomeSave
<1>9. ASSUME ~overlapped' PROVE InOrder'
  BY <1>1, <1>2, <1>7, <1>8, <1>9 DEF InOrder, Saving
<1>10. ASSUME ~overlapped' PROVE Recoverable'
  <2>1. \A d \in Commands : Saving(d) => Held(d)' = Held(d)
    BY <1>2 DEF Held, Saving, Resting
  <2>2. Roomy(begun') => answered \subseteq filed \cup forgotten \cup cutOff \cup DOMAIN queue
                                      \cup UNION {Held(d) : d \in {e \in Commands : Saving(e)}}
    BY <1>1, <1>10, StillRoomy DEF Recoverable, Roomy
  <2>3. UNION {Held(d) : d \in {e \in Commands : Saving(e)}} \subseteq UNION {Held(d)' : d \in {e \in Commands : Saving(e)'}}
    BY <1>7, <2>1
  <2>4. QED
    BY <2>2, <2>3 DEF Recoverable, Roomy
<1>11. QED
  BY <1>1, <1>2, <1>3, <1>6, <1>9, <1>10 DEF FeedbackInv

LEMMA OutcomeFits ==
    ASSUME FeedbackInv, NEW c \in Commands, NEW i, i \in call[c].ids \/ c = "retry"
    PROVE  /\ StoreFits(Outcome(c, i), begun, filed)
           /\ DOMAIN call[c].held \subseteq DOMAIN Outcome(c, i) \cup (IF c = "forget" THEN forgotten ELSE {})
           /\ c = "submit" => i \in DOMAIN Outcome(c, i)
<1>1. CallFits(c, call[c], begun, filed, forgotten) /\ WireFits /\ begun \subseteq Reports
  BY DEF FeedbackInv
<1>2. CASE c = "submit"
  <2>1. Outcome(c, i) = Recorded(call[c].held, i, Entry(i, call[c].at))
    BY <1>2 DEF Outcome
  <2>2. i \in begun
    BY <1>1, <1>2 DEF CallFits
  <2>3. /\ DOMAIN Outcome(c, i) = DOMAIN call[c].held \cup {i}
        /\ \A j \in DOMAIN Outcome(c, i) : Outcome(c, i)[j] = IF j = i THEN Entry(i, call[c].at) ELSE call[c].held[j]
    BY <2>1 DEF Recorded
  <2>4. Entry(i, call[c].at).sent => i \in filed
    BY <1>1, <2>2 DEF Entry, WireFits
  <2>5. DOMAIN call[c].held \subseteq begun /\ \A j \in DOMAIN call[c].held : call[c].held[j].sent => j \in filed
    BY <1>1 DEF CallFits, StoreFits, SentFiled
  <2>6. \A j \in DOMAIN Outcome(c, i) : Outcome(c, i)[j].sent => j \in filed
    BY <2>3, <2>4, <2>5
  <2>7. QED
    BY <1>2, <2>2, <2>3, <2>5, <2>6 DEF StoreFits, SentFiled
<1>3. CASE c = "retry"
  <2>1. Outcome(c, i) = [j \in DOMAIN call[c].held |-> IF j \in call[c].ids THEN Entry(j, call[c].held[j].at) ELSE call[c].held[j]]
    BY <1>3 DEF Outcome
  <2>2. \A j \in call[c].ids : Entry(j, call[c].held[j].at).sent => j \in filed
    BY <1>1 DEF Entry, WireFits, CallFits
  <2>3. DOMAIN call[c].held \subseteq begun /\ \A j \in DOMAIN call[c].held : call[c].held[j].sent => j \in filed
    BY <1>1 DEF CallFits, StoreFits, SentFiled
  <2>4. DOMAIN Outcome(c, i) = DOMAIN call[c].held
    BY <2>1
  <2>5. \A j \in DOMAIN Outcome(c, i) :
          Outcome(c, i)[j] = IF j \in call[c].ids THEN Entry(j, call[c].held[j].at) ELSE call[c].held[j]
    BY <2>1
  <2>6. \A j \in DOMAIN Outcome(c, i) : Outcome(c, i)[j].sent => j \in filed
    BY <2>2, <2>3, <2>4, <2>5
  <2>7. QED
    BY <1>3, <2>3, <2>4, <2>6 DEF StoreFits, SentFiled
<1>4. CASE c = "forget"
  <2>1. Outcome(c, i) = [j \in DOMAIN call[c].held \ {i} |-> call[c].held[j]]
    BY <1>4 DEF Outcome
  <2>2. i \in forgotten
    BY <1>1, <1>4 DEF CallFits
  <2>3. QED
    BY <1>1, <1>4, <2>1, <2>2 DEF CallFits, StoreFits, SentFiled
<1>5. QED
  BY <1>2, <1>3, <1>4 DEF Commands

LEMMA OpenStep ==
    ASSUME QueueAssumption, FeedbackInv, NEW c \in Commands, OpenFile(c)
    PROVE  FeedbackInv'
<1>1. PICK i \in IF c = "retry" THEN {0} ELSE call[c].ids :
        \E s \in KeptEntries(Outcome(c, i)) :
          call' = [d \in Commands |->
                     IF d = c THEN [call[c] EXCEPT !.step = "saving", !.held = [j \in s |-> Outcome(c, i)[j]],
                                                   !.stale = \E e \in Commands \ {c} : Saving(e)]
                              ELSE Outdate(d, call[d])]
  BY DEF OpenFile
<1> DEFINE store == Outcome(c, i)
<1>2. PICK s \in KeptEntries(store) :
          call' = [d \in Commands |->
                     IF d = c THEN [call[c] EXCEPT !.step = "saving", !.held = [j \in s |-> store[j]],
                                                   !.stale = \E e \in Commands \ {c} : Saving(e)]
                              ELSE Outdate(d, call[d])]
  BY <1>1
<1>3. /\ Ready(c) /\ queue' = NoEntries
      /\ overlapped' = (overlapped \/ call[c].stale \/ SomeSave)
      /\ UNCHANGED <<wire, filed, begun, answered, forgotten, cutOff>>
  BY DEF OpenFile
<1>4. /\ \A d \in Commands : CallFits(d, call[d], begun, filed, forgotten)
      /\ answered \subseteq begun /\ begun \subseteq Reports /\ overlapped \in BOOLEAN /\ WireFits
      /\ ~overlapped => InOrder /\ Recoverable
  BY DEF FeedbackInv
<1>5. /\ StoreFits(store, begun, filed)
      /\ DOMAIN call[c].held \subseteq DOMAIN store \cup (IF c = "forget" THEN forgotten ELSE {})
      /\ c = "submit" => i \in DOMAIN store
  BY OutcomeFits
<1>6. s \subseteq DOMAIN store /\ (Roomy(begun) => s = DOMAIN store)
  <2>1. s \subseteq DOMAIN store
    BY DEF KeptEntries
  <2>2. Roomy(begun) => s = DOMAIN store
    BY <1>4, <1>5, RoomyKeeps DEF StoreFits
  <2>3. QED
    BY <2>1, <2>2
<1> DEFINE kept == [j \in s |-> store[j]]
<1> DEFINE others == \E e \in Commands \ {c} : Saving(e)
<1>7. call[c] = [step |-> call[c].step, held |-> call[c].held, ids |-> call[c].ids, at |-> call[c].at, stale |-> call[c].stale]
  BY <1>4 DEF CallFits
<1>8. call'[c] = [step |-> "saving", held |-> kept, ids |-> call[c].ids, at |-> call[c].at, stale |-> others]
  BY <1>2, <1>7
<1>9. /\ call' = [d \in Commands |-> call'[d]]
      /\ \A d \in Commands \ {c} : call'[d] = Outdate(d, call[d])
  BY <1>2
<1>10. StoreFits(kept, begun, filed)
  BY <1>5, <1>6 DEF StoreFits, SentFiled
<1>11. c = "submit" /\ Roomy(begun) => call[c].ids \subseteq DOMAIN kept
  <2>1. ASSUME c = "submit", NEW j \in call[c].ids PROVE j = i
    <3>1. i \in call[c].ids
      BY <1>1, <2>1
    <3>2. QED
      BY <1>4, <2>1, <3>1 DEF CallFits
  <2>2. QED
    BY <1>5, <1>6, <2>1
<1>12. others \in BOOLEAN /\ (others => SomeSave)
  BY DEF SomeSave
<1>13. \A store1 : StoreFits(store1, begun', filed') <=> StoreFits(store1, begun, filed)
  BY <1>3 DEF StoreFits, SentFiled
<1>14. CallFits(c, call'[c], begun', filed', forgotten')
  <2>1. c = "forget" => call[c].ids \subseteq forgotten
    BY <1>4 DEF CallFits
  <2>2. c = "submit" => \A j, k \in call[c].ids : j = k
    BY <1>4 DEF CallFits
  <2>3. call[c].ids \subseteq begun
    BY <1>4 DEF CallFits
  <2>4. Roomy(begun') <=> Roomy(begun)
    BY <1>3 DEF Roomy
  <2>5. QED
    BY <1>3, <1>8, <1>10, <1>11, <1>12, <1>13, <2>1, <2>2, <2>3, <2>4 DEF CallFits
<1>15. ASSUME NEW d \in Commands \ {c}
       PROVE  /\ CallFits(d, call'[d], begun', filed', forgotten')
              /\ call'[d].step = call[d].step /\ call'[d].held = call[d].held
              /\ call[d].step # "idle" => call'[d].stale
  <2>1. CallFits(d, call[d], begun, filed, forgotten)
    BY <1>4
  <2>2. CallFits(d, call[d], begun', filed', forgotten')
    BY <1>3, <2>1, <1>13 DEF CallFits, Roomy
  <2>3. CASE call[d].step = "idle"
    BY <1>9, <2>2, <2>3 DEF Outdate
  <2>4. CASE call[d].step # "idle"
    <3>1. call'[d] = [step |-> call[d].step, held |-> call[d].held, ids |-> call[d].ids, at |-> call[d].at, stale |-> TRUE]
      BY <1>9, <2>1, <2>4 DEF Outdate, CallFits
    <3>2. QED
      BY <2>2, <3>1 DEF CallFits
  <2>5. QED
    BY <2>3, <2>4
<1>16. \A d \in Commands : CallFits(d, call'[d], begun', filed', forgotten')
  BY <1>14, <1>15
<1>17. ASSUME ~overlapped'
       PROVE  /\ InOrder' /\ call[c].held = queue /\ \A d \in Commands : ~Saving(d)
              /\ \A d \in Commands : Saving(d)' <=> d = c
  <2>1. ~overlapped /\ ~call[c].stale /\ ~SomeSave
    BY <1>3, <1>4, <1>17
  <2>2. \A d \in Commands : ~Saving(d)
    BY <2>1 DEF SomeSave
  <2>3. call[c].held = queue
    BY <1>3, <1>4, <2>1 DEF InOrder, Ready
  <2>4. \A d \in Commands : Saving(d)' <=> d = c
    BY <1>8, <1>15, <2>2 DEF Saving
  <2>5. \A d \in Commands : ~(call'[d].step = "open" /\ ~call'[d].stale)
    BY <1>8, <1>15
  <2>6. ~call'[c].stale
    BY <1>8, <1>12, <2>1
  <2>7. InOrder'
    BY <1>3, <2>4, <2>5, <2>6 DEF InOrder
  <2>8. QED
    BY <2>2, <2>3, <2>4, <2>7
<1>18. ASSUME ~overlapped' PROVE Recoverable'
  <2>1. SUFFICES ASSUME Roomy(begun)
                 PROVE  answered \subseteq filed \cup forgotten \cup cutOff \cup DOMAIN queue'
                                        \cup UNION {Held(d)' : d \in {e \in Commands : Saving(e)'}}
    BY <1>3 DEF Recoverable, Roomy
  <2>2. answered \subseteq filed \cup forgotten \cup cutOff \cup DOMAIN queue
    BY <1>3, <1>4, <1>17, <1>18, <2>1 DEF Recoverable, Roomy
  <2>3. Held(c)' = DOMAIN store
    BY <1>6, <1>8, <2>1 DEF Held
  <2>4. DOMAIN queue \subseteq DOMAIN store \cup forgotten
    BY <1>5, <1>17, <1>18
  <2>5. Held(c)' \subseteq UNION {Held(d)' : d \in {e \in Commands : Saving(e)'}}
    BY <1>17, <1>18
  <2>6. QED
    BY <2>2, <2>3, <2>4, <2>5
<1>19. StoreFits(queue', begun', filed')
  BY <1>3 DEF StoreFits, SentFiled, NoEntries
<1>20. WireFits' /\ overlapped' \in BOOLEAN
  <2>1. call[c].stale \in BOOLEAN
    BY <1>4 DEF CallFits
  <2>2. SomeSave \in BOOLEAN
    BY DEF SomeSave
  <2>3. QED
    BY <1>3, <1>4, <2>1, <2>2 DEF WireFits
<1>21. QED
  BY <1>3, <1>4, <1>9, <1>16, <1>17, <1>18, <1>19, <1>20 DEF FeedbackInv

(* A command ends, its save done or not.                                    *)
LEMMA EndStep ==
    ASSUME QueueAssumption, FeedbackInv, NEW c \in Commands, Ends(c), StoreFits(queue', begun', filed'),
           UNCHANGED <<filed, begun, forgotten, overlapped>>,
           answered' \subseteq begun, cutOff \subseteq cutOff',
           ~overlapped => Saving(c) \/ UNCHANGED <<queue, answered>>,
           ~overlapped /\ Roomy(begun) => answered' \subseteq answered \cup Held(c),
           ~overlapped /\ Saving(c) => Held(c) \subseteq DOMAIN queue' \cup cutOff'
    PROVE  FeedbackInv'
<1>1. /\ call = [d \in Commands |-> call[d]]
      /\ \A d \in Commands : CallFits(d, call[d], begun, filed, forgotten)
      /\ begun \subseteq Reports /\ overlapped \in BOOLEAN /\ WireFits
      /\ ~overlapped => InOrder /\ Recoverable
  BY DEF FeedbackInv
<1>2. /\ call' = [d \in Commands |-> call'[d]]
      /\ \A d \in Commands : call'[d] = IF d = c THEN IdleCall ELSE call[d]
  BY <1>1 DEF Ends
<1>3. \A d \in Commands : CallFits(d, call'[d], begun', filed', forgotten')
  <2>1. \A d, x : CallFits(d, x, begun, filed, forgotten) => CallFits(d, x, begun', filed', forgotten')
    BY <1>1, StaysFit
  <2>2. QED
    BY <1>1, <1>2, <2>1, IdleFits
<1>4. WireFits'
  BY <1>1 DEF Ends, WireFits
<1>5. \A d \in Commands : Saving(d)' <=> d # c /\ Saving(d)
  BY <1>2 DEF Saving, IdleCall
<1>6. ASSUME ~overlapped PROVE InOrder'
  <2>1. InOrder
    BY <1>1, <1>6
  <2>2. CASE Saving(c)
    <3>1. \A d \in Commands : ~Saving(d)'
      BY <1>5, <2>1, <2>2 DEF InOrder
    <3>2. \A d \in Commands : ~(call[d].step = "open" /\ ~call[d].stale)
      BY <2>1, <2>2 DEF InOrder, SomeSave
    <3>3. \A d \in Commands : ~(call'[d].step = "open" /\ ~call'[d].stale)
      BY <1>2, <3>2 DEF IdleCall
    <3>4. QED
      BY <3>1, <3>3 DEF InOrder
  <2>3. CASE ~Saving(c)
    <3>1. queue' = queue
      BY <1>6, <2>3
    <3>2. SomeSave' => SomeSave
      BY <1>5 DEF SomeSave
    <3>3. QED
      BY <1>2, <1>5, <2>1, <3>1, <3>2 DEF InOrder, IdleCall
  <2>4. QED
    BY <2>2, <2>3
<1>7. ASSUME ~overlapped PROVE Recoverable'
  <2>1. SUFFICES ASSUME Roomy(begun)
                 PROVE  answered' \subseteq filed \cup forgotten \cup cutOff' \cup DOMAIN queue'
                                        \cup UNION {Held(d)' : d \in {e \in Commands : Saving(e)'}}
    BY DEF Recoverable, Roomy
  <2>2. answered \subseteq filed \cup forgotten \cup cutOff \cup DOMAIN queue
                        \cup UNION {Held(d) : d \in {e \in Commands : Saving(e)}}
    BY <1>1, <1>7, <2>1 DEF Recoverable, Roomy
  <2>3. CASE Saving(c)
    <3>1. UNION {Held(d) : d \in {e \in Commands : Saving(e)}} \subseteq Held(c)
      BY <1>1, <1>7, <2>3 DEF InOrder
    <3>2. DOMAIN queue = {}
      BY <1>1, <1>7, <2>3 DEF InOrder, NoEntries
    <3>3. QED
      BY <1>7, <2>1, <2>2, <2>3, <3>1, <3>2
  <2>4. CASE ~Saving(c)
    <3>1. \A d \in Commands : Saving(d) => Saving(d)' /\ Held(d)' = Held(d)
      BY <1>2, <1>5, <2>4 DEF Held
    <3>2. UNION {Held(d) : d \in {e \in Commands : Saving(e)}} \subseteq UNION {Held(d)' : d \in {e \in Commands : Saving(e)'}}
      BY <3>1
    <3>3. QED
      BY <1>7, <2>1, <2>2, <2>4, <3>2
  <2>5. QED
    BY <2>3, <2>4
<1>8. QED
  BY <1>1, <1>2, <1>3, <1>4, <1>6, <1>7 DEF FeedbackInv

LEMMA FeedbackStep ==
    ASSUME QueueAssumption, FeedbackInv, [FeedbackNext]_fVars
    PROVE  FeedbackInv'
<1>0. /\ answered \subseteq begun /\ begun \subseteq Reports /\ overlapped \in BOOLEAN
      /\ WireFits /\ StoreFits(queue, begun, filed)
      /\ call = [c \in Commands |-> call[c]]
      /\ \A c \in Commands : CallFits(c, call[c], begun, filed, forgotten)
      /\ ~overlapped => InOrder /\ Recoverable
  BY DEF FeedbackInv
<1>1. ASSUME UNCHANGED <<queue, call, begun, answered, forgotten, cutOff, overlapped>>, filed \subseteq filed', WireFits'
      PROVE  FeedbackInv'
  <2>1. StoreFits(queue', begun', filed') /\ \A c \in Commands : CallFits(c, call[c], begun', filed', forgotten')
    BY <1>0, <1>1, StaysFit
  <2>2. ~overlapped => InOrder'
    BY <1>0, <1>1 DEF InOrder, SomeSave, Saving
  <2>3. ~overlapped => Recoverable'
    BY <1>0, <1>1 DEF Recoverable, Saving, Held
  <2>4. QED
    BY <1>0, <1>1, <2>1, <2>2, <2>3 DEF FeedbackInv
<1>2. ASSUME NEW i \in Reports, Submit(i) PROVE FeedbackInv'
  <2>1. /\ Resting("submit") /\ Load("submit", {i}, time)
        /\ wire' = [wire EXCEPT ![i] = "session"] /\ begun' = begun \cup {i}
        /\ UNCHANGED <<queue, filed, answered, forgotten, cutOff, overlapped>>
    BY <1>2 DEF Submit
  <2>2. WireFits'
    BY <1>0, <2>1 DEF WireFits
  <2>3. "submit" \in Commands
    BY DEF Commands
  <2>4. begun \subseteq begun' /\ begun' \subseteq Reports /\ {i} \subseteq begun'
    BY <1>0, <2>1
  <2>5. QED
    BY <2>1, <2>2, <2>3, <2>4, LoadStep
<1>3. ASSUME NEW i \in Reports, Forget(i) PROVE FeedbackInv'
  <2>1. /\ Resting("forget") /\ Load("forget", {i}, 0) /\ i \in answered
        /\ forgotten' = forgotten \cup {i}
        /\ UNCHANGED <<queue, wire, filed, begun, answered, cutOff, overlapped>>
    BY <1>3 DEF Forget
  <2>2. WireFits'
    BY <1>0, <2>1 DEF WireFits
  <2>3. "forget" \in Commands
    BY DEF Commands
  <2>4. {i} \subseteq begun'
    BY <1>0, <2>1
  <2>5. QED
    BY <1>0, <2>1, <2>2, <2>3, <2>4, LoadStep
<1>4. CASE Visit
  <2>1. PICK s \in Selected :
          /\ Load("retry", s, 0)
          /\ wire' = [i \in Reports |-> IF i \in s THEN "session" ELSE wire[i]]
    BY <1>4 DEF Visit
  <2>2. Resting("retry") /\ UNCHANGED <<queue, filed, begun, answered, forgotten, cutOff, overlapped>>
    BY <1>4 DEF Visit, ghosts
  <2>3. s \subseteq begun
    BY <1>0 DEF Selected, Pending, StoreFits
  <2>4. WireFits'
    BY <1>0, <2>1, <2>2 DEF WireFits
  <2>5. "retry" \in Commands
    BY DEF Commands
  <2>6. QED
    BY <1>0, <2>1, <2>2, <2>3, <2>4, <2>5, LoadStep
<1>5. ASSUME NEW c \in Commands, OpenFile(c) PROVE FeedbackInv'
  BY <1>5, OpenStep
<1>6. ASSUME NEW c \in Commands, FillFile(c) PROVE FeedbackInv'
  <2>1. /\ Saving(c) /\ Ends(c)
        /\ queue' \in {call[c].held} \cup (IF call[c].stale THEN {NoEntries} ELSE {})
        /\ answered' = IF c = "submit" THEN answered \cup call[c].ids ELSE answered
        /\ UNCHANGED <<filed, begun, forgotten, cutOff, overlapped>>
    BY <1>6 DEF FillFile
  <2>2. CallFits(c, call[c], begun, filed, forgotten)
    BY <1>0
  <2>3. StoreFits(queue', begun', filed')
    BY <2>1, <2>2 DEF CallFits, StoreFits, SentFiled, NoEntries
  <2>4. answered' \subseteq begun
    BY <1>0, <2>1, <2>2 DEF CallFits
  <2>5. ASSUME ~overlapped PROVE Held(c) = DOMAIN queue'
    <3>1. ~call[c].stale
      BY <1>0, <2>1, <2>5 DEF InOrder
    <3>2. QED
      BY <2>1, <3>1 DEF Held
  <2>6. Roomy(begun) => answered' \subseteq answered \cup Held(c)
    BY <2>1, <2>2 DEF CallFits, Saving, Held
  <2>7. QED
    BY <2>1, <2>3, <2>4, <2>5, <2>6, EndStep
<1>7. ASSUME NEW c \in Commands, SaveFails(c) PROVE FeedbackInv'
  <2>1. Ends(c) /\ UNCHANGED <<filed, begun, answered, forgotten, overlapped>>
    BY <1>7 DEF SaveFails
  <2>2. \/ Ready(c) /\ UNCHANGED <<queue, cutOff>>
        \/ Saving(c) /\ queue' \in {queue, NoEntries} /\ cutOff' = cutOff \cup Held(c)
    BY <1>7 DEF SaveFails
  <2>3. StoreFits(queue', begun', filed')
    BY <1>0, <2>1, <2>2 DEF StoreFits, SentFiled, NoEntries
  <2>4. CASE Ready(c) /\ UNCHANGED <<queue, cutOff>>
    <3>1. ~Saving(c)
      BY <2>4 DEF Ready, Saving
    <3>2. QED
      BY <1>0, <2>1, <2>3, <2>4, <3>1, EndStep
  <2>5. CASE Saving(c) /\ queue' \in {queue, NoEntries} /\ cutOff' = cutOff \cup Held(c)
    BY <1>0, <2>1, <2>3, <2>5, EndStep
  <2>6. QED
    BY <2>2, <2>4, <2>5
<1>8. ASSUME NEW i \in Reports, Deliver(i) PROVE FeedbackInv'
  <2>1. /\ UNCHANGED <<queue, call, begun, answered, forgotten, cutOff, overlapped>>
        /\ filed \subseteq filed'
        /\ \E goal \in {"create", "refresh", "sign up", "failed", "sent"} :
             /\ wire' = [wire EXCEPT ![i] = goal]
             /\ goal = "sent" => i \in filed'
    BY <1>8 DEF Deliver, Ladder, SignedIn, SignInFails, Create, File, Goes, Rest, ghosts
  <2>2. WireFits'
    BY <1>0, <2>1 DEF WireFits
  <2>3. QED
    BY <1>1, <2>1, <2>2
<1>9. CASE Leave \/ SessionExpires \/ Tick \/ UNCHANGED fVars
  <2>1. UNCHANGED <<queue, call, begun, answered, forgotten, cutOff, overlapped, filed, wire>>
    BY <1>9 DEF Leave, SessionExpires, Tick, fVars, ghosts
  <2>2. WireFits'
    BY <1>0, <2>1 DEF WireFits
  <2>3. QED
    BY <1>1, <2>1, <2>2
<1>10. CASE Relaunch
  <2>1. /\ call' = [c \in Commands |-> IdleCall] /\ wire' = [i \in Reports |-> "off"]
        /\ queue' \in {queue} \cup (IF SomeSave THEN {NoEntries} ELSE {})
        /\ cutOff' = cutOff \cup UNION {Held(c) : c \in {d \in Commands : Saving(d)}}
        /\ UNCHANGED <<filed, begun, answered, forgotten, overlapped>>
    BY <1>10 DEF Relaunch
  <2>2. WireFits' /\ \A c \in Commands : CallFits(c, call'[c], begun', filed', forgotten')
    BY <2>1, IdleFits DEF WireFits
  <2>3. StoreFits(queue', begun', filed')
    BY <1>0, <2>1 DEF StoreFits, SentFiled, NoEntries
  <2>4. \A c \in Commands : call'[c].step = "idle"
    BY <2>1 DEF IdleCall
  <2>5. InOrder'
    BY <2>4 DEF InOrder, Saving
  <2>6. ASSUME ~overlapped PROVE Recoverable'
    <3>1. DOMAIN queue \subseteq DOMAIN queue'
      BY <1>0, <2>1, <2>6 DEF InOrder, SomeSave
    <3>2. QED
      BY <1>0, <2>1, <2>6, <3>1 DEF Recoverable
  <2>7. QED
    BY <1>0, <2>1, <2>2, <2>3, <2>5, <2>6 DEF FeedbackInv
<1>11. QED
  BY <1>2, <1>3, <1>4, <1>5, <1>6, <1>7, <1>8, <1>9, <1>10 DEF FeedbackNext

(* Through failed deliveries, lost answers, failed and torn saves, restarts *)
(* and calls that overlap, an entry shown as sent is in the collection; and *)
(* as long as no call saved a document that another had changed since it    *)
(* was loaded, what a submission returned to the user stays recorded while  *)
(* the history has room, unless it was in a document whose save was cut off *)
(* (feedback_submit, feedback_retry_pending, feedback_forget, save_store).  *)
THEOREM QueueIsSound ==
    ASSUME QueueAssumption
    PROVE  FeedbackSpec => []QueueSound
<1>1. FeedbackInit => FeedbackInv
  <2> SUFFICES ASSUME FeedbackInit PROVE FeedbackInv
    OBVIOUS
  <2>1. \A c \in Commands : CallFits(c, call[c], begun, filed, forgotten)
    BY IdleFits DEF FeedbackInit
  <2>2. StoreFits(queue, begun, filed) /\ WireFits
    BY DEF FeedbackInit, StoreFits, SentFiled, NoEntries, WireFits
  <2>3. InOrder
    BY DEF FeedbackInit, InOrder, Saving, IdleCall
  <2>4. Recoverable
    BY DEF FeedbackInit, Recoverable
  <2>5. QED
    BY <2>1, <2>2, <2>3, <2>4 DEF FeedbackInit, FeedbackInv
<1>2. FeedbackInv /\ [FeedbackNext]_fVars => FeedbackInv'
  BY FeedbackStep
<1>3. FeedbackInv => QueueSound
  BY DEF FeedbackInv, QueueSound, SentIsFiled, SentFiled, StoreFits, QueueKeeps
<1>4. QED
  BY <1>1, <1>2, <1>3, PTL DEF FeedbackSpec

-----------------------------------------------------------------------------
(* The wormhole map.  Every copy of the rows, in the document and in the   *)
(* hands of each command and import, maps no hole twice that the user did  *)
(* not relabel.                                                            *)

Sources == {"manual", "evescout", "tripwire"}
HoleRows ==
    [id : Nat, pair : Pairs, label : Labels, scope : {"wormhole", "stargate", "jumpbridge"},
     mass : Masses, eol : BOOLEAN, stamp : Nat, created : Nat, expires : Nat, source : Sources,
     edited : BOOLEAN]

(* A row at its end of life has the time it was first seen so.             *)
Stamped(row) == row.eol => row.stamp # NoEnd
SoundRows(rows) == rows \in Seq(HoleRows) /\ Distinct(rows) /\ \A i \in DOMAIN rows : Stamped(rows[i])

Holds(held) == SoundRows(held.rows) /\ held.feed \in Seq(FeedRows)

HolesInv ==
    /\ hour \in 0..MaxHour
    /\ SoundRows(conns)
    /\ Holds(editing) /\ Holds(scout) /\ Holds(trip)

LEMMA SameHoleSymmetric == \A a, b : SameHole(a, b) <=> SameHole(b, a)
  BY DEF SameHole

(* A row may be added that is like no other, but for relabelled ones.      *)
Unmatched(rows, row) == \A i \in DOMAIN rows : SameHole(rows[i], row) => rows[i].edited \/ row.edited

LEMMA AppendSound ==
    ASSUME NEW rows, SoundRows(rows), NEW row \in HoleRows, Unmatched(rows, row), Stamped(row)
    PROVE  SoundRows(Append(rows, row))
<1> DEFINE more == Append(rows, row)
<1>1. rows \in Seq(HoleRows) /\ more \in Seq(HoleRows) /\ Len(more) = Len(rows) + 1
  BY DEF SoundRows
<1>2. \A i \in 1..Len(rows) :
        more[i] = rows[i] /\ (SameHole(rows[i], row) \/ SameHole(row, rows[i]) => rows[i].edited \/ row.edited)
  BY <1>1, SameHoleSymmetric DEF Unmatched
<1>3. more[Len(rows) + 1] = row
  BY <1>1
<1>4. \A i \in 1..Len(more) : i \in 1..Len(rows) \/ i = Len(rows) + 1
  BY <1>1
<1> HIDE DEF more
<1>5. Distinct(more)
  <2> SUFFICES ASSUME NEW i \in 1..Len(more), NEW j \in 1..Len(more), i # j, SameHole(more[i], more[j])
               PROVE  more[i].edited \/ more[j].edited
    BY <1>1 DEF Distinct
  <2>1. CASE i \in 1..Len(rows) /\ j \in 1..Len(rows)
    BY <1>1, <1>2, <2>1 DEF SoundRows, Distinct
  <2>2. CASE ~(i \in 1..Len(rows) /\ j \in 1..Len(rows))
    BY <1>2, <1>3, <1>4, <2>2
  <2> QED
    BY <2>1, <2>2
<1>6. \A i \in DOMAIN more : Stamped(more[i])
  BY <1>1, <1>2, <1>3, <1>4 DEF SoundRows
<1> QED
  BY <1>1, <1>5, <1>6 DEF SoundRows, more

(* What is retained are the rows at kept places, each once.                *)
RetainsOf(rows, kept, retained) ==
    /\ SoundRows(retained)
    /\ \A i \in DOMAIN retained : \E j \in DOMAIN rows \cap kept : retained[i] = rows[j]
    /\ \A j \in DOMAIN rows \cap kept : \E i \in DOMAIN retained : retained[i] = rows[j]

LEMMA RetainSound ==
    ASSUME NEW rows, SoundRows(rows), NEW kept
    PROVE  RetainsOf(rows, kept, Retain(rows, kept))
<1> DEFINE N == Len(rows)
           Rs == Seq(HoleRows)
           pass == [n \in 1..N |-> [s \in Rs |-> IF n \in kept THEN Append(s, rows[n]) ELSE s]]
<1>1. rows \in Seq(HoleRows) /\ N \in Nat /\ DOMAIN rows = 1..N
  BY DEF SoundRows
<1>2. pass \in [1..N -> [Rs -> Rs]] /\ <<>> \in Rs
  BY <1>1
<1>3. PICK f \in [0..N -> Rs] : f[0] = <<>> /\ \A n \in 1..N : f[n] = pass[n][f[n - 1]]
  <2> HIDE DEF pass, Rs, N
  <2>1. WalksOf(N, Rs, <<>>, pass) # {}
    BY <1>1, <1>2, StepsDefine
  <2> QED
    BY <2>1 DEF WalksOf
<1>4. ASSUME NEW n \in 1..N
      PROVE  f[n - 1] \in Rs /\ f[n] = IF n \in kept THEN Append(f[n - 1], rows[n]) ELSE f[n - 1]
  <2>1. n - 1 \in 0..N
    BY <1>1
  <2> QED
    BY <1>3, <2>1
<1> HIDE DEF pass
<1>5. f = [n \in 0..N |-> IF n = 0 THEN <<>> ELSE IF n \in kept THEN Append(f[n - 1], rows[n]) ELSE f[n - 1]]
  <2>1. \A n \in 0..N : n = 0 \/ n \in 1..N
    BY <1>1
  <2> QED
    BY <1>3, <1>4, <2>1
<1> DEFINE upto == CHOOSE upto : upto =
              [n \in 0..N |-> IF n = 0 THEN <<>> ELSE IF n \in kept THEN Append(upto[n - 1], rows[n]) ELSE upto[n - 1]]
<1>6. upto = [n \in 0..N |-> IF n = 0 THEN <<>> ELSE IF n \in kept THEN Append(upto[n - 1], rows[n]) ELSE upto[n - 1]]
  BY <1>5, ZenonT(40)
<1>7. Retain(rows, kept) = upto[N]
  BY DEF Retain
<1> HIDE DEF upto
<1> DEFINE From(n) == /\ SoundRows(upto[n])
                      /\ \A i \in DOMAIN upto[n] : \E j \in (1..n) \cap kept : upto[n][i] = rows[j]
                      /\ \A j \in (1..n) \cap kept : \E i \in DOMAIN upto[n] : upto[n][i] = rows[j]
           Fine == {n \in Nat : n <= N => From(n)}
<1>8. 0 \in Fine
  BY <1>1, <1>6 DEF SoundRows, Distinct
<1>9. ASSUME NEW n \in Nat, n \in Fine PROVE n + 1 \in Fine
  <2> SUFFICES ASSUME n + 1 <= N PROVE From(n + 1)
    OBVIOUS
  <2>1. From(n) /\ n + 1 \in 1..N /\ n + 1 \in 0..N /\ n + 1 # 0 /\ (n + 1) - 1 = n
    BY <1>9, <1>1
  <2>2. upto[n + 1] = IF n + 1 \in kept THEN Append(upto[n], rows[n + 1]) ELSE upto[n]
    <3> HIDE DEF From, Fine, N
    <3>1. upto[n + 1] = IF n + 1 = 0 THEN <<>> ELSE IF n + 1 \in kept THEN Append(upto[(n + 1) - 1], rows[n + 1])
                                               ELSE upto[(n + 1) - 1]
      BY <1>6, <2>1, Zenon
    <3> QED
      BY <3>1, <2>1
  <2>3. CASE n + 1 \notin kept
    <3>1. (1..n + 1) \cap kept = (1..n) \cap kept
      BY <2>3
    <3> QED
      BY <2>1, <2>2, <2>3, <3>1
  <2>4. CASE n + 1 \in kept
    <3> DEFINE s == upto[n]
               row == rows[n + 1]
    <3>1. SoundRows(s) /\ s \in Seq(HoleRows) /\ row \in HoleRows /\ Stamped(row)
      BY <2>1, <1>1 DEF SoundRows
    <3>2. Unmatched(s, row)
      <4> SUFFICES ASSUME NEW i \in DOMAIN s, SameHole(s[i], row) PROVE s[i].edited \/ row.edited
        BY DEF Unmatched
      <4>1. PICK j \in (1..n) \cap kept : s[i] = rows[j]
        BY <2>1
      <4>2. j \in DOMAIN rows /\ n + 1 \in DOMAIN rows /\ j # n + 1
        BY <1>1, <2>1
      <4> QED
        BY <4>1, <4>2 DEF SoundRows, Distinct
    <3>3. SoundRows(Append(s, row))
      <4> HIDE DEF s, row
      <4> QED
        BY <3>1, <3>2, AppendSound
    <3>4. ASSUME NEW i \in DOMAIN Append(s, row)
          PROVE  \E j \in (1..n + 1) \cap kept : Append(s, row)[i] = rows[j]
      <4>1. CASE i \in DOMAIN s
        <5>1. Append(s, row)[i] = s[i]
          BY <3>1, <4>1
        <5>2. PICK j \in (1..n) \cap kept : s[i] = rows[j]
          BY <2>1, <4>1
        <5> QED
          BY <5>1, <5>2
      <4>2. CASE i \notin DOMAIN s
        <5>1. Append(s, row)[i] = row
          BY <3>1, <4>2
        <5> QED
          BY <5>1, <2>4
      <4> QED
        BY <4>1, <4>2
    <3>5. ASSUME NEW j \in (1..n + 1) \cap kept
          PROVE  \E i \in DOMAIN Append(s, row) : Append(s, row)[i] = rows[j]
      <4>1. CASE j = n + 1
        <5>1. Len(s) + 1 \in DOMAIN Append(s, row) /\ Append(s, row)[Len(s) + 1] = row
          BY <3>1
        <5> QED
          BY <5>1, <4>1
      <4>2. CASE j # n + 1
        <5>1. PICK i \in DOMAIN s : s[i] = rows[j]
          BY <2>1, <4>2
        <5>2. i \in DOMAIN Append(s, row) /\ Append(s, row)[i] = s[i]
          BY <3>1
        <5> QED
          BY <5>1, <5>2
      <4> QED
        BY <4>1, <4>2
    <3>6. upto[n + 1] = Append(s, row)
      BY <2>2, <2>4
    <3> HIDE DEF upto
    <3> QED
      BY <3>3, <3>4, <3>5, <3>6
  <2> QED
    BY <2>3, <2>4
<1> HIDE DEF Fine
<1>10. N \in Fine
  BY <1>1, <1>8, <1>9, SetInduction
<1>11. From(N)
  BY <1>1, <1>10 DEF Fine
<1> QED
  BY <1>1, <1>7, <1>11, ZenonT(40) DEF RetainsOf

LEMMA IdTyped == \A c \in HoleRows : c.id \in Nat
  BY DEF HoleRows

LEMMA HighestTyped ==
    ASSUME NEW rows \in Seq(HoleRows)
    PROVE  Highest(RowIds(rows)) \in Nat /\ \A i \in DOMAIN rows : rows[i].id <= Highest(RowIds(rows))
<1> DEFINE N == Len(rows)
           IdsTo(n) == {rows[i].id : i \in 1..n} \cup {0}
           Topped(n) == \E m \in IdsTo(n) : \A k \in IdsTo(n) : k <= m
           Bounded == {n \in Nat : n <= N => Topped(n)}
<1>1. ASSUME NEW i \in 1..N PROVE rows[i].id \in Nat
  <2>1. rows[i] \in HoleRows
    OBVIOUS
  <2> QED
    BY <2>1 DEF HoleRows
<1>2. 0 \in Bounded
  OBVIOUS
<1>3. ASSUME NEW n \in Nat, n \in Bounded PROVE n + 1 \in Bounded
  <2>1. SUFFICES ASSUME n + 1 <= N PROVE Topped(n + 1)
    <3> HIDE DEF Topped
    <3> QED
      OBVIOUS
  <2>2. n <= N /\ n + 1 \in 1..N
    BY <2>1
  <2>3. PICK m \in IdsTo(n) : \A k \in IdsTo(n) : k <= m
    BY <1>3, <2>2
  <2>4. m \in Nat /\ rows[n + 1].id \in Nat
    <3>1. ASSUME NEW i \in 1..n PROVE rows[i].id \in Nat
      BY <1>1, <2>2
    <3> QED
      BY <1>1, <2>2, <3>1
  <2>5. IdsTo(n + 1) = IdsTo(n) \cup {rows[n + 1].id}
    <3>1. 1..n + 1 = (1..n) \cup {n + 1}
      OBVIOUS
    <3> QED
      BY <3>1
  <2> HIDE DEF IdsTo
  <2>6. CASE rows[n + 1].id <= m
    BY <2>3, <2>4, <2>5, <2>6
  <2>7. CASE m < rows[n + 1].id
    <3>1. ASSUME NEW k \in IdsTo(n) PROVE k <= rows[n + 1].id
      <4>1. k <= m /\ k \in Nat
        BY <1>1, <2>2, <2>3 DEF IdsTo
      <4> QED
        BY <2>4, <2>7, <4>1
    <3>2. \A k \in IdsTo(n + 1) : k <= rows[n + 1].id
      BY <2>4, <2>5, <3>1
    <3> QED
      BY <2>5, <3>2
  <2> QED
    BY <2>4, <2>6, <2>7
<1> HIDE DEF Bounded
<1>4. N \in Bounded
  BY <1>2, <1>3, SetInduction
<1>5. RowIds(rows) \cup {0} = IdsTo(N) /\ IdsTo(N) \subseteq Nat
  BY <1>1 DEF RowIds
<1>6. \E m \in IdsTo(N) : \A k \in IdsTo(N) : k <= m
  <2>1. N \in Nat /\ N <= N
    OBVIOUS
  <2> HIDE DEF Topped, N
  <2>2. Topped(N)
    BY <1>4, <2>1 DEF Bounded
  <2> QED
    BY <2>2 DEF Topped
<1>7. \E m \in RowIds(rows) \cup {0} : \A k \in RowIds(rows) : k <= m
  <2> HIDE DEF IdsTo
  <2> QED
    BY <1>5, <1>6
<1>8. Highest(RowIds(rows)) \in RowIds(rows) \cup {0} /\ \A k \in RowIds(rows) : k <= Highest(RowIds(rows))
  <2> HIDE DEF IdsTo
  <2> QED
    BY <1>7 DEF Highest
<1>9. Highest(RowIds(rows)) \in Nat
  <2> HIDE DEF IdsTo
  <2> QED
    BY <1>5, <1>8
<1> QED
  BY <1>8, <1>9 DEF RowIds

LEMMA FirstMatches ==
    ASSUME NEW rows \in Seq(HoleRows), NEW c, Matches(rows, c)
    PROVE  \E i \in DOMAIN rows : FirstMatch(rows, c) = rows[i] /\ SameHole(rows[i], c)
<1> DEFINE S == {i \in DOMAIN rows : SameHole(rows[i], c)}
<1>1. S \in SUBSET Nat /\ S # {}
  BY DEF Matches
<1>2. PICK n \in S : \A m \in S : n <= m
  <2> HIDE DEF S
  <2> QED
    BY <1>1, LeastNatural
<1>3. \A j \in 1..(n - 1) : ~SameHole(rows[j], c)
  BY <1>2
<1> DEFINE first == CHOOSE i \in DOMAIN rows : SameHole(rows[i], c) /\ \A j \in 1..(i - 1) : ~SameHole(rows[j], c)
<1>4. first \in DOMAIN rows /\ SameHole(rows[first], c)
  BY <1>2, <1>3
<1>5. FirstMatch(rows, c) = rows[first]
  BY DEF FirstMatch
<1> QED
  BY <1>4, <1>5

(* A row that more has at its end of life, under an id that one of rows    *)
(* had there, has the time it had.                                         *)
KeepsClock(rows, more) ==
    \A i \in DOMAIN rows, j \in DOMAIN more :
        rows[i].id = more[j].id /\ Alone(rows, i) /\ rows[i].eol /\ more[j].eol => more[j].stamp = rows[i].stamp

LEMMA ImportedTyped ==
    ASSUME WormholeAssumption, hour \in 0..MaxHour, NEW f \in FeedRows, NEW source \in Sources
    PROVE  /\ Imported(f, source) \in HoleRows
           /\ Stamped(Imported(f, source))
  BY DEF WormholeAssumption, FeedRows, Imported, HoleRows, Stamped

LEMMA RefreshedTyped ==
    ASSUME WormholeAssumption, NEW prev \in HoleRows, NEW c \in HoleRows, Stamped(prev), Stamped(c)
    PROVE  Refreshed(prev, c) \in HoleRows /\ Stamped(Refreshed(prev, c))
<1> DEFINE flagged == prev.eol \/ c.eol
           stamp == IF ~flagged THEN NoEnd ELSE IF prev.stamp # NoEnd THEN prev.stamp ELSE c.stamp
           label == <<OrWas(c.label[1], prev.label[1]), OrWas(c.label[2], prev.label[2])>>
           fresh == Refreshed(prev, c)
<1>1. flagged \in BOOLEAN /\ stamp \in Nat /\ label \in Labels
  <2>1. flagged \in BOOLEAN /\ stamp \in Nat
    BY DEF HoleRows, WormholeAssumption
  <2>2. c.label \in Labels /\ prev.label \in Labels
    BY DEF HoleRows
  <2>3. label \in Labels
    BY <2>2 DEF Labels, OrWas
  <2> QED
    BY <2>1, <2>3
<1>2. flagged => stamp # NoEnd
  BY DEF Stamped
<1> DEFINE c1 == [c EXCEPT !.id = prev.id]
           c2 == [c1 EXCEPT !.created = prev.created]
           c3 == [c2 EXCEPT !.mass = prev.mass]
           c4 == [c3 EXCEPT !.eol = flagged]
           c5 == [c4 EXCEPT !.stamp = stamp]
           c6 == [c5 EXCEPT !.label = label]
           c7 == [c6 EXCEPT !.edited = prev.edited]
<1>3. fresh \in HoleRows /\ fresh.eol = flagged /\ fresh.stamp = stamp
  <2>1. fresh = c7
    BY DEF Refreshed
  <2> HIDE DEF flagged, stamp, label
  <2>2. c1 \in HoleRows
    BY DEF HoleRows
  <2> HIDE DEF c1
  <2>3. c2 \in HoleRows
    BY <2>2 DEF HoleRows
  <2> HIDE DEF c2
  <2>4. c3 \in HoleRows
    BY <2>3 DEF HoleRows
  <2> HIDE DEF c3
  <2>5. c4 \in HoleRows /\ c4.eol = flagged
    BY <1>1, <2>4 DEF HoleRows
  <2> HIDE DEF c4
  <2>6. c5 \in HoleRows /\ c5.eol = flagged /\ c5.stamp = stamp
    BY <1>1, <2>5 DEF HoleRows
  <2> HIDE DEF c5
  <2>7. c6 \in HoleRows /\ c6.eol = flagged /\ c6.stamp = stamp
    BY <1>1, <2>6 DEF HoleRows
  <2> HIDE DEF c6
  <2>8. c7 \in HoleRows /\ c7.eol = flagged /\ c7.stamp = stamp
    BY <2>7 DEF HoleRows
  <2> HIDE DEF c7, fresh
  <2> QED
    BY <2>1, <2>8
<1> HIDE DEF flagged, stamp, label, fresh
<1>4. Stamped(fresh)
  BY <1>2, <1>3 DEF Stamped
<1> QED
  BY <1>3, <1>4 DEF fresh

(* What is of the same hole as a refreshed row is of the same as the       *)
(* feed's: a full label of the feed stays, and another matches any.        *)
LEMMA RefreshedAlike ==
    ASSUME NEW prev \in HoleRows, NEW c \in HoleRows, SameHole(prev, c)
    PROVE  /\ \A row : SameHole(row, Refreshed(prev, c)) => SameHole(row, c)
           /\ Refreshed(prev, c).id = prev.id
           /\ Refreshed(prev, c).eol /\ prev.eol /\ prev.stamp # NoEnd => Refreshed(prev, c).stamp = prev.stamp
<1> DEFINE fresh == Refreshed(prev, c)
<1>1. /\ fresh.pair = c.pair /\ fresh.id = prev.id
      /\ fresh.label = <<OrWas(c.label[1], prev.label[1]), OrWas(c.label[2], prev.label[2])>>
      /\ fresh.eol /\ prev.eol /\ prev.stamp # NoEnd => fresh.stamp = prev.stamp
  BY DEF HoleRows, Refreshed
<1> HIDE DEF fresh
<1>2. Full(c) => Full(fresh) /\ fresh.label[1] = c.label[1] /\ fresh.label[2] = c.label[2]
  BY <1>1 DEF Full, OrWas
<1>3. ASSUME NEW row, SameHole(row, fresh) PROVE SameHole(row, c)
  BY <1>1, <1>2, <1>3 DEF SameHole
<1> QED
  BY <1>1, <1>3 DEF fresh

LEMMA AppendKeepsClock ==
    ASSUME NEW existing, NEW out \in Seq(HoleRows), NEW row, KeepsClock(existing, out),
           \A i \in DOMAIN existing :
               existing[i].id = row.id /\ Alone(existing, i) /\ existing[i].eol /\ row.eol => row.stamp = existing[i].stamp
    PROVE  KeepsClock(existing, Append(out, row))
<1> DEFINE more == Append(out, row)
<1>1. \A j \in DOMAIN more : (j \in DOMAIN out /\ more[j] = out[j]) \/ more[j] = row
  OBVIOUS
<1> HIDE DEF more
<1>2. KeepsClock(existing, more)
  <2> SUFFICES ASSUME NEW i \in DOMAIN existing, NEW j \in DOMAIN more,
                      existing[i].id = more[j].id, Alone(existing, i), existing[i].eol, more[j].eol
               PROVE  more[j].stamp = existing[i].stamp
    BY DEF KeepsClock
  <2>1. CASE j \in DOMAIN out /\ more[j] = out[j]
    BY <2>1 DEF KeepsClock
  <2>2. CASE more[j] = row
    BY <2>2
  <2> QED
    BY <1>1, <2>1, <2>2
<1> QED
  BY <1>2 DEF more

(* What one row of a feed does to the rows that are being merged: others   *)
(* and previous are the existing rows of other sources and of this one.    *)
Merging(existing, out) == SoundRows(out) /\ KeepsClock(existing, out)

(* The ids still to be given are above those that were.                    *)
Above(existing, next) == next \in Nat /\ \A i \in DOMAIN existing : existing[i].id < next

LEMMA MergingAppend ==
    ASSUME NEW existing, NEW out, NEW row \in HoleRows, Merging(existing, out),
           Stamped(row), ~Matches(out, row),
           \A i \in DOMAIN existing :
               existing[i].id = row.id /\ Alone(existing, i) /\ existing[i].eol /\ row.eol => row.stamp = existing[i].stamp
    PROVE  Merging(existing, Append(out, row))
<1>1. SoundRows(out) /\ out \in Seq(HoleRows) /\ KeepsClock(existing, out) /\ Unmatched(out, row)
  BY DEF Merging, SoundRows, Matches, Unmatched
<1>2. SoundRows(Append(out, row))
  BY <1>1, AppendSound
<1>3. KeepsClock(existing, Append(out, row))
  BY <1>1, AppendKeepsClock
<1> QED
  BY <1>2, <1>3 DEF Merging

LEMMA MergingRefreshed ==
    ASSUME WormholeAssumption, hour \in 0..MaxHour, NEW f \in FeedRows, NEW source \in Sources,
           NEW existing, SoundRows(existing), NEW out, Merging(existing, out), ~Matches(out, Imported(f, source)),
           NEW previous \in Seq(HoleRows), \A i \in DOMAIN previous : \E j \in DOMAIN existing : previous[i] = existing[j],
           Matches(previous, Imported(f, source))
    PROVE  Merging(existing, Append(out, Refreshed(FirstMatch(previous, Imported(f, source)), Imported(f, source))))
<1> DEFINE c == Imported(f, source)
           prev == FirstMatch(previous, c)
           row == Refreshed(prev, c)
<1>1. c \in HoleRows /\ Stamped(c) /\ Matches(previous, c)
  BY ImportedTyped
<1>2. \E i \in DOMAIN previous : prev = previous[i] /\ SameHole(previous[i], c)
  <2> HIDE DEF c
  <2> QED
    BY <1>1, FirstMatches
<1> HIDE DEF c, prev, row
<1>3. PICK j \in DOMAIN existing : prev = existing[j] /\ SameHole(existing[j], c)
  BY <1>2
<1>4. prev \in HoleRows /\ Stamped(prev) /\ SameHole(prev, c)
  BY <1>3 DEF SoundRows
<1>5. row \in HoleRows /\ Stamped(row)
  BY <1>1, <1>4, RefreshedTyped DEF row
<1>6. /\ \A r : SameHole(r, row) => SameHole(r, c)
      /\ row.id = prev.id
      /\ row.eol /\ prev.eol /\ prev.stamp # NoEnd => row.stamp = prev.stamp
  BY <1>1, <1>4, RefreshedAlike DEF row
<1>7. ~Matches(out, row)
  <2>1. ~Matches(out, c)
    BY DEF c
  <2> QED
    BY <1>6, <2>1 DEF Matches
<1>8. ASSUME NEW i \in DOMAIN existing, existing[i].id = row.id, Alone(existing, i), existing[i].eol, row.eol
      PROVE  row.stamp = existing[i].stamp
  <2>1. i = j
    BY <1>3, <1>6, <1>8 DEF Alone
  <2> QED
    BY <1>3, <1>4, <1>6, <1>8, <2>1 DEF Stamped
<1>9. Merging(existing, Append(out, row))
  BY <1>5, <1>7, <1>8, MergingAppend
<1> QED
  BY <1>9 DEF row, prev, c

LEMMA MergingNew ==
    ASSUME WormholeAssumption, hour \in 0..MaxHour, NEW f \in FeedRows, NEW source \in Sources, NEW id,
           NEW existing, SoundRows(existing), Above(existing, id),
           NEW out, Merging(existing, out), ~Matches(out, Imported(f, source))
    PROVE  Merging(existing, Append(out, [Imported(f, source) EXCEPT !.id = id]))
<1> DEFINE c == Imported(f, source)
           row == [c EXCEPT !.id = id]
<1>1. c \in HoleRows /\ Stamped(c) /\ ~Matches(out, c) /\ id \in Nat
  BY ImportedTyped DEF Above
<1> HIDE DEF c
<1>2. row \in HoleRows /\ Stamped(row) /\ row.id = id /\ \A r : SameHole(r, row) <=> SameHole(r, c)
  BY <1>1 DEF HoleRows, Stamped, SameHole, Full
<1> HIDE DEF row
<1>3. ~Matches(out, row)
  BY <1>1, <1>2 DEF Matches
<1>4. ASSUME NEW i \in DOMAIN existing, existing[i].id = row.id PROVE FALSE
  <2>1. existing[i] \in HoleRows
    BY DEF SoundRows
  <2>2. existing[i].id \in Nat /\ existing[i].id < id
    BY <2>1 DEF HoleRows, Above
  <2> QED
    BY <1>1, <1>2, <1>4, <2>2
<1>5. Merging(existing, Append(out, row))
  BY <1>2, <1>3, <1>4, MergingAppend
<1> QED
  BY <1>5 DEF row, c

(* A merge of rows that map no hole twice maps none twice, and no clock    *)
(* that was running starts again.                                          *)
LEMMA MergeSound ==
    ASSUME WormholeAssumption, hour \in 0..MaxHour, NEW existing, SoundRows(existing),
           NEW feed \in Seq(FeedRows), NEW source \in Sources
    PROVE  SoundRows(Merge(existing, feed, source)) /\ KeepsClock(existing, Merge(existing, feed, source))
<1> DEFINE N == Len(feed)
           States == [out : Seq(HoleRows), next : Nat]
           others == Retain(existing, {i \in DOMAIN existing : existing[i].source # source})
           previous == Retain(existing, {i \in DOMAIN existing : existing[i].source = source})
           first == [out |-> others, next |-> Highest(RowIds(existing)) + 1]
           Merged(s, c) == IF Matches(s.out, c) THEN s
                           ELSE IF Matches(previous, c)
                                THEN [s EXCEPT !.out = Append(@, Refreshed(FirstMatch(previous, c), c))]
                                ELSE [s EXCEPT !.out = Append(@, [c EXCEPT !.id = s.next]), !.next = @ + 1]
           pass == [n \in 1..N |-> [s \in States |-> Merged(s, Imported(feed[n], source))]]
<1>1. N \in Nat /\ DOMAIN feed = 1..N /\ \A n \in 1..N : feed[n] \in FeedRows
  OBVIOUS
<1>2. /\ SoundRows(others)
      /\ \A i \in DOMAIN others : \E j \in DOMAIN existing : others[i] = existing[j]
  <2> DEFINE kept == {i \in DOMAIN existing : existing[i].source # source}
  <2>1. RetainsOf(existing, kept, Retain(existing, kept))
    BY RetainSound
  <2> QED
    BY <2>1 DEF RetainsOf
<1>3. /\ SoundRows(previous)
      /\ \A i \in DOMAIN previous : \E j \in DOMAIN existing : previous[i] = existing[j]
  <2> DEFINE kept == {i \in DOMAIN existing : existing[i].source = source}
  <2>1. RetainsOf(existing, kept, Retain(existing, kept))
    BY RetainSound
  <2> QED
    BY <2>1 DEF RetainsOf
<1> HIDE DEF others, previous
<1>4. first \in States /\ Merging(existing, first.out) /\ Above(existing, first.next)
  <2>1. existing \in Seq(HoleRows) /\ others \in Seq(HoleRows)
    BY <1>2 DEF SoundRows
  <2>2. Highest(RowIds(existing)) \in Nat /\ \A i \in DOMAIN existing : existing[i].id <= Highest(RowIds(existing))
    BY <2>1, HighestTyped
  <2>3. KeepsClock(existing, others)
    BY <1>2 DEF KeepsClock, Alone
  <2>4. Above(existing, Highest(RowIds(existing)) + 1)
    <3>1. \A i \in DOMAIN existing : existing[i] \in HoleRows
      BY <2>1
    <3>2. \A i \in DOMAIN existing : existing[i].id \in Nat
      BY <3>1, IdTyped
    <3> QED
      BY <2>2, <3>2 DEF Above
  <2> QED
    BY <1>2, <2>1, <2>2, <2>3, <2>4 DEF Merging
<1> HIDE DEF first
<1>5. ASSUME NEW s \in States, NEW n \in 1..N
      PROVE  /\ Merged(s, Imported(feed[n], source)) \in States
             /\ Merging(existing, s.out) /\ Above(existing, s.next) =>
                   /\ Merging(existing, Merged(s, Imported(feed[n], source)).out)
                   /\ Above(existing, Merged(s, Imported(feed[n], source)).next)
  <2> DEFINE c == Imported(feed[n], source)
  <2>1. feed[n] \in FeedRows /\ s.out \in Seq(HoleRows) /\ s.next \in Nat /\ previous \in Seq(HoleRows)
    BY <1>1, <1>3 DEF SoundRows
  <2>2. c \in HoleRows /\ Stamped(c)
    BY <2>1, ImportedTyped
  <2>3. CASE Matches(s.out, c)
    BY <2>3
  <2>4. CASE ~Matches(s.out, c) /\ Matches(previous, c)
    <3> DEFINE row == Refreshed(FirstMatch(previous, c), c)
    <3>1. row \in HoleRows
      <4>1. PICK i \in DOMAIN previous : FirstMatch(previous, c) = previous[i]
        <5> HIDE DEF c
        <5> QED
          BY <2>1, <2>4, FirstMatches
      <4>2. previous[i] \in HoleRows /\ Stamped(previous[i])
        BY <1>3 DEF SoundRows
      <4> HIDE DEF c
      <4> QED
        BY <2>2, <4>1, <4>2, RefreshedTyped
    <3>2. Merging(existing, s.out) => Merging(existing, Append(s.out, row))
      BY <1>3, <2>1, <2>4, MergingRefreshed
    <3> HIDE DEF row
    <3>3. Append(s.out, row) \in Seq(HoleRows)
      BY <2>1, <3>1
    <3>4. Merged(s, c) = [s EXCEPT !.out = Append(@, row)]
      BY <2>4 DEF row
    <3> HIDE DEF c, Merged
    <3>5. Merged(s, c) \in States /\ Merged(s, c).out = Append(s.out, row) /\ Merged(s, c).next = s.next
      BY <3>3, <3>4
    <3> QED
      BY <3>2, <3>5 DEF c
  <2>5. CASE ~Matches(s.out, c) /\ ~Matches(previous, c)
    <3> DEFINE row == [c EXCEPT !.id = s.next]
    <3>1. row \in HoleRows
      <4> HIDE DEF c
      <4> QED
        BY <2>1, <2>2 DEF HoleRows
    <3>2. Merging(existing, s.out) /\ Above(existing, s.next) => Merging(existing, Append(s.out, row))
      BY <2>1, <2>5, MergingNew
    <3> HIDE DEF row
    <3>3. Append(s.out, row) \in Seq(HoleRows)
      BY <2>1, <3>1
    <3>4. Merged(s, c) = [s EXCEPT !.out = Append(@, row), !.next = @ + 1]
      BY <2>5 DEF row
    <3> HIDE DEF c, Merged
    <3>5. s = [out |-> s.out, next |-> s.next]
      <4> DEFINE Rows == Seq(HoleRows)
      <4> HIDE DEF Rows
      <4>1. s \in [out : Rows, next : Nat]
        BY DEF Rows
      <4> QED
        BY <4>1
    <3>6. Merged(s, c) = [out |-> Append(s.out, row), next |-> s.next + 1]
      BY ONLY <3>4, <3>5
    <3>7. Merged(s, c) \in States /\ Merged(s, c).out = Append(s.out, row) /\ Merged(s, c).next = s.next + 1
      BY ONLY <2>1, <3>3, <3>6
    <3>8. Above(existing, s.next) => Above(existing, s.next + 1)
      <4>1. \A i \in DOMAIN existing : existing[i] \in HoleRows
        BY DEF SoundRows
      <4>2. \A i \in DOMAIN existing : existing[i].id \in Nat
        BY <4>1 DEF HoleRows
      <4> QED
        BY <2>1, <4>2 DEF Above
    <3> QED
      BY <3>2, <3>7, <3>8 DEF c
  <2> HIDE DEF Merged, c
  <2>6. /\ Merged(s, c) \in States
        /\ Merging(existing, s.out) /\ Above(existing, s.next) =>
              Merging(existing, Merged(s, c).out) /\ Above(existing, Merged(s, c).next)
    BY <2>3, <2>4, <2>5 DEF c
  <2> QED
    BY <2>6 DEF c
<1> HIDE DEF Merged
<1>6. pass \in [1..N -> [States -> States]]
  BY <1>5
<1>7. PICK f \in [0..N -> States] : f[0] = first /\ \A n \in 1..N : f[n] = pass[n][f[n - 1]]
  <2> HIDE DEF pass, States, N
  <2>1. WalksOf(N, States, first, pass) # {}
    BY <1>1, <1>4, <1>6, StepsDefine
  <2> QED
    BY <2>1 DEF WalksOf
<1>8. ASSUME NEW n \in 1..N
      PROVE  f[n - 1] \in States /\ f[n] = Merged(f[n - 1], Imported(feed[n], source))
  <2>1. n - 1 \in 0..N
    BY <1>1
  <2> QED
    BY <1>7, <2>1
<1> HIDE DEF pass
<1> DEFINE Next(step, n) ==
        IF n = 0 THEN [out |-> others, next |-> Highest(RowIds(existing)) + 1]
        ELSE LET s == step[n - 1]
                 c == Imported(feed[n], source)
             IN IF Matches(s.out, c) THEN s
                ELSE IF Matches(previous, c)
                     THEN [s EXCEPT !.out = Append(@, Refreshed(FirstMatch(previous, c), c))]
                     ELSE [s EXCEPT !.out = Append(@, [c EXCEPT !.id = s.next]), !.next = @ + 1]
           step == CHOOSE step : step = [n \in 0..N |-> Next(step, n)]
<1>9. \A g, n : n # 0 => Next(g, n) = Merged(g[n - 1], Imported(feed[n], source))
  BY DEF Merged
<1>10. \A g : Next(g, 0) = first
  BY DEF first
<1>11. Merge(existing, feed, source) = step[N].out
  BY DEF Merge, others, previous
<1> HIDE DEF Next
<1>12. f = [n \in 0..N |-> Next(f, n)]
  <2>1. \A n \in 0..N : n = 0 \/ n \in 1..N
    BY <1>1
  <2>2. ASSUME NEW n \in 0..N PROVE f[n] = Next(f, n)
    <3>1. CASE n = 0
      BY <1>7, <1>10, <3>1
    <3>2. CASE n \in 1..N
      <4>1. n # 0 /\ f[n] = Merged(f[n - 1], Imported(feed[n], source))
        BY <1>8, <3>2
      <4> QED
        BY <1>9, <4>1, Zenon
    <3> QED
      BY <2>1, <3>1, <3>2
  <2> QED
    BY <2>2
<1>13. step = [n \in 0..N |-> Next(step, n)]
  BY <1>12
<1> HIDE DEF step
<1> DEFINE Fine == {n \in Nat : n <= N => step[n] \in States /\ Merging(existing, step[n].out) /\ Above(existing, step[n].next)}
<1>14. 0 \in Fine
  <2>1. step[0] = first
    BY <1>1, <1>10, <1>13
  <2> QED
    BY <1>4, <2>1
<1>15. ASSUME NEW n \in Nat, n \in Fine PROVE n + 1 \in Fine
  <2> SUFFICES ASSUME n + 1 <= N
               PROVE  step[n + 1] \in States /\ Merging(existing, step[n + 1].out) /\ Above(existing, step[n + 1].next)
    OBVIOUS
  <2>1. n + 1 \in 1..N /\ n + 1 \in 0..N /\ n + 1 # 0 /\ (n + 1) - 1 = n
    BY <1>1
  <2>2. step[n] \in States /\ Merging(existing, step[n].out) /\ Above(existing, step[n].next)
    BY <1>15, <2>1
  <2>3. step[n + 1] = Merged(step[n], Imported(feed[n + 1], source))
    BY <1>9, <1>13, <2>1
  <2> QED
    BY <1>5, <2>1, <2>2, <2>3
<1> HIDE DEF Fine
<1>16. N \in Fine
  BY <1>1, <1>14, <1>15, SetInduction
<1>17. Merging(existing, step[N].out)
  BY <1>1, <1>16 DEF Fine
<1> QED
  BY <1>11, <1>17 DEF Merging

LEMMA KeepsOwnClock ==
    ASSUME NEW rows, SoundRows(rows), NEW more,
           \A j \in DOMAIN more : \E i \in DOMAIN rows : more[j] = rows[i]
    PROVE  KeepsClock(rows, more)
  BY DEF KeepsClock, Alone

LEMMA LoadedSound == SoundRows(conns) => SoundRows(Loaded)
<1> SUFFICES ASSUME SoundRows(conns) PROVE SoundRows(Loaded)
  OBVIOUS
<1>1. RetainsOf(conns, {i \in DOMAIN conns : Lives(conns[i])}, Loaded)
  BY RetainSound DEF Loaded
<1> QED
  BY <1>1 DEF RetainsOf

(* What wh_update_connection makes of a row, and what it keeps of it.       *)
Changed(c, mass, eol, label) == Relabelled([Flagged(c, eol) EXCEPT !.mass = mass], label)

Follows(row, c) ==
  /\ row \in HoleRows /\ Stamped(row) /\ row.id = c.id
  /\ c.edited => row.edited
  /\ row.edited \/ \A r : SameHole(r, row) <=> SameHole(r, c)
  /\ c.eol /\ row.eol => row.stamp = c.stamp

LEMMA FlaggedSound ==
    ASSUME WormholeAssumption, hour \in 0..MaxHour, NEW c \in HoleRows, Stamped(c), NEW eol \in BOOLEAN,
           NEW mass \in Masses, NEW label \in {c.label} \cup Relabels
    PROVE  Follows(Changed(c, mass, eol, label), c)
<1> DEFINE stamp == IF ~eol THEN NoEnd ELSE IF c.eol THEN c.stamp ELSE hour
           edited == c.edited \/ label # c.label
           c1 == [c EXCEPT !.eol = eol]
           c2 == [c1 EXCEPT !.stamp = stamp]
           c3 == [c2 EXCEPT !.mass = mass]
           c4 == [c3 EXCEPT !.label = label]
           c5 == [c4 EXCEPT !.edited = edited]
           Like(d) == d.pair = c.pair /\ d.id = c.id /\ d.eol = eol
           row == Changed(c, mass, eol, label)
<1>1. stamp \in Nat /\ (eol => stamp # NoEnd) /\ (eol /\ c.eol => stamp = c.stamp)
  BY DEF WormholeAssumption, HoleRows, Stamped
<1>2. edited \in BOOLEAN /\ label \in Labels /\ (c.edited => edited) /\ (edited \/ label = c.label)
  BY DEF HoleRows, WormholeAssumption
<1> HIDE DEF edited
<1>3. c1 \in HoleRows /\ Like(c1) /\ c1.label = c.label /\ c1.edited = c.edited
  BY DEF HoleRows
<1> HIDE DEF c1
<1>4. c2 \in HoleRows /\ Like(c2) /\ c2.stamp = stamp /\ c2.label = c.label /\ c2.edited = c.edited
  BY <1>1, <1>3 DEF HoleRows
<1> HIDE DEF stamp
<1>5. c3 \in HoleRows /\ Like(c3) /\ c3.stamp = stamp /\ c3.label = c.label /\ c3.edited = c.edited
  <2> HIDE DEF c2
  <2> QED
    BY <1>4 DEF HoleRows
<1>6. row = c5
  <2>1. [Flagged(c, eol) EXCEPT !.mass = mass] = c3
    BY DEF Flagged, c2, c1, stamp
  <2> HIDE DEF c3
  <2> QED
    BY <1>5, <2>1 DEF Changed, Relabelled, edited
<1> HIDE DEF c3, row
<1>7. c4 \in HoleRows /\ Like(c4) /\ c4.stamp = stamp /\ c4.label = label
  BY <1>2, <1>5 DEF HoleRows
<1> HIDE DEF c4
<1>8. c5 \in HoleRows /\ Like(c5) /\ c5.stamp = stamp /\ c5.label = label /\ c5.edited = edited
  BY <1>2, <1>7 DEF HoleRows
<1> HIDE DEF c5
<1>9. edited \/ \A r : SameHole(r, row) <=> SameHole(r, c)
  BY <1>2, <1>6, <1>8 DEF SameHole, Full
<1>10. Stamped(row)
  BY <1>1, <1>6, <1>8 DEF Stamped
<1>11. c.eol /\ row.eol => row.stamp = c.stamp
  BY <1>1, <1>6, <1>8
<1> QED
  BY <1>2, <1>6, <1>8, <1>9, <1>10, <1>11 DEF row, Follows

LEMMA ReplacedSound ==
    ASSUME NEW rows, SoundRows(rows), NEW i \in DOMAIN rows, NEW row, Follows(row, rows[i])
    PROVE  LET more == [rows EXCEPT ![i] = row] IN SoundRows(more) /\ KeepsClock(rows, more)
<1> DEFINE more == [rows EXCEPT ![i] = row]
<1> USE DEF Follows
<1>1. rows \in Seq(HoleRows) /\ more \in Seq(HoleRows) /\ DOMAIN more = DOMAIN rows
  BY DEF SoundRows
<1>2. \A j \in DOMAIN rows : more[j] = IF j = i THEN row ELSE rows[j]
  BY <1>1
<1> HIDE DEF more
<1>3. Distinct(more)
  <2> SUFFICES ASSUME NEW j \in DOMAIN rows, NEW k \in DOMAIN rows, j # k, SameHole(more[j], more[k]),
                      ~more[j].edited, ~more[k].edited
               PROVE  FALSE
    BY <1>1 DEF Distinct
  <2>1. ~rows[j].edited /\ ~rows[k].edited
    BY <1>2
  <2>2. SameHole(more[j], rows[k])
    BY <1>2
  <2>3. SameHole(rows[k], more[j])
    BY <2>2, SameHoleSymmetric
  <2>4. SameHole(rows[k], rows[j])
    BY <1>2, <2>3
  <2> QED
    BY <2>1, <2>4 DEF SoundRows, Distinct
<1>4. \A j \in DOMAIN more : Stamped(more[j])
  BY <1>1, <1>2 DEF SoundRows
<1>5. KeepsClock(rows, more)
  <2> SUFFICES ASSUME NEW j \in DOMAIN rows, NEW k \in DOMAIN rows, rows[j].id = more[k].id, Alone(rows, j),
                      rows[j].eol, more[k].eol
               PROVE  more[k].stamp = rows[j].stamp
    BY <1>1 DEF KeepsClock
  <2>1. j = k
    BY <1>2 DEF Alone
  <2> QED
    BY <1>2, <2>1
<1> QED
  BY <1>1, <1>3, <1>4, <1>5 DEF SoundRows, more

LEMMA CommandSound ==
    ASSUME WormholeAssumption, HolesInv, AddHole \/ Update \/ Delete
    PROVE  SoundRows(conns') /\ KeepsClock(editing.rows, conns')
<1> DEFINE rows == editing.rows
<1>1. SoundRows(rows) /\ rows \in Seq(HoleRows) /\ hour \in 0..MaxHour
  BY DEF HolesInv, Holds, SoundRows
<1>2. CASE AddHole
  <2>1. PICK c \in Manual :
          LET row == [id |-> Highest(RowIds(rows)) + 1, pair |-> c.pair, label |-> c.label, scope |-> c.scope,
                      mass |-> "fresh", eol |-> FALSE, stamp |-> NoEnd, created |-> hour, expires |-> NoEnd,
                      source |-> "manual", edited |-> FALSE]
          IN ~Matches(rows, row) /\ conns' = Append(rows, row)
    BY <1>2 DEF AddHole, Saves
  <2> DEFINE row == [id |-> Highest(RowIds(rows)) + 1, pair |-> c.pair, label |-> c.label, scope |-> c.scope,
                     mass |-> "fresh", eol |-> FALSE, stamp |-> NoEnd, created |-> hour, expires |-> NoEnd,
                     source |-> "manual", edited |-> FALSE]
  <2>2. row \in HoleRows
    <3>1. Highest(RowIds(rows)) + 1 \in Nat
      BY <1>1, HighestTyped
    <3>2. c \in ManualRows /\ NoEnd \in Nat /\ hour \in Nat /\ "fresh" \in Masses
      BY <1>1 DEF WormholeAssumption
    <3> QED
      BY <3>1, <3>2 DEF ManualRows, HoleRows, Sources
  <2>3. ~row.eol /\ Stamped(row)
    BY DEF Stamped
  <2>4. Unmatched(rows, row) /\ conns' = Append(rows, row)
    BY <2>1 DEF Matches, Unmatched
  <2> HIDE DEF row
  <2>5. SoundRows(conns')
    BY <1>1, <2>2, <2>3, <2>4, AppendSound
  <2>6. KeepsClock(rows, rows)
    BY <1>1, KeepsOwnClock
  <2>7. KeepsClock(rows, conns')
    BY <1>1, <2>3, <2>4, <2>6, AppendKeepsClock
  <2> QED
    BY <2>5, <2>7
<1>3. CASE Update
  <2>1. PICK i \in DOMAIN rows, mass \in Masses, eol \in BOOLEAN :
          \E label \in {rows[i].label} \cup Relabels : Saves([rows EXCEPT ![i] = Changed(rows[i], mass, eol, label)])
    BY <1>3, ZenonT(40) DEF Update, Changed
  <2>2. PICK label \in {rows[i].label} \cup Relabels : conns' = [rows EXCEPT ![i] = Changed(rows[i], mass, eol, label)]
    BY <2>1 DEF Saves
  <2>3. rows[i] \in HoleRows /\ Stamped(rows[i])
    BY <1>1 DEF SoundRows
  <2>4. Follows(Changed(rows[i], mass, eol, label), rows[i])
    BY <1>1, <2>3, FlaggedSound
  <2> QED
    BY <1>1, <2>2, <2>4, ReplacedSound
<1>4. CASE Delete
  <2>1. PICK id : conns' = Retain(rows, {i \in DOMAIN rows : rows[i].id # id})
    BY <1>4 DEF Delete, Saves
  <2>2. RetainsOf(rows, {i \in DOMAIN rows : rows[i].id # id}, conns')
    BY <1>1, <2>1, RetainSound
  <2>3. SoundRows(conns') /\ \A j \in DOMAIN conns' : \E i \in DOMAIN rows : conns'[j] = rows[i]
    BY <2>2 DEF RetainsOf
  <2> QED
    BY <1>1, <2>3, KeepsOwnClock
<1> QED
  BY <1>2, <1>3, <1>4

LEMMA EolOfSaver ==
    ASSUME NEW saver, {editing, scout, trip} \ {editing', scout', trip'} \subseteq {saver},
           conns' = conns \/ KeepsClock(saver.rows, conns')
    PROVE  EolKept
  BY DEF EolKept, KeepsClock, Stored

LEMMA IdleHolds == Holds(Idle) /\ SoundRows(<<>>)
<1>1. SoundRows(<<>>) /\ <<>> \in Seq(FeedRows)
  BY DEF SoundRows, Distinct
<1> QED
  BY <1>1 DEF Holds, Idle

LEMMA HolesStep ==
    ASSUME WormholeAssumption, HolesInv, [WhNext]_hVars
    PROVE  HolesInv' /\ EolKept
<1>1. /\ hour \in 0..MaxHour /\ SoundRows(conns) /\ SoundRows(Loaded)
      /\ Holds(editing) /\ Holds(scout) /\ Holds(trip)
      /\ SoundRows(editing.rows) /\ SoundRows(scout.rows) /\ SoundRows(trip.rows)
  BY LoadedSound DEF HolesInv, Holds
<1>2. CASE Command
  <2>1. UNCHANGED <<hour, conns, scout, trip>>
    BY <1>2 DEF Command
  <2>2. editing' = [at |-> "loaded", rows |-> Loaded, pruned |-> Len(Loaded) < Len(conns), feed |-> <<>>]
    BY <1>2 DEF Command, Idle
  <2>3. Holds(editing')
    BY <1>1, <2>2, IdleHolds DEF Holds, Idle
  <2>4. HolesInv'
    BY <1>1, <2>1, <2>3 DEF HolesInv
  <2> QED
    BY <2>1, <2>4 DEF EolKept
<1>3. CASE SaveView \/ AddHole \/ Update \/ Delete
  <2>1. UNCHANGED <<hour, scout, trip>> /\ editing' = Idle
    BY <1>3 DEF SaveView, AddHole, Update, Delete, Saves
  <2>2. SoundRows(conns') /\ (conns' = conns \/ KeepsClock(editing.rows, conns'))
    <3>1. CASE SaveView
      <4>1. conns' = conns \/ conns' = editing.rows
        BY <3>1 DEF SaveView, Saves
      <4>2. KeepsClock(editing.rows, editing.rows)
        BY <1>1, KeepsOwnClock
      <4> QED
        BY <1>1, <4>1, <4>2
    <3> QED
      BY <1>3, <3>1, CommandSound
  <2>3. HolesInv'
    BY <1>1, <2>1, <2>2, IdleHolds DEF HolesInv
  <2>4. EolKept
    BY <2>1, <2>2, EolOfSaver
  <2> QED
    BY <2>3, <2>4
<1>4. CASE ScoutBegin
  <2>1. UNCHANGED <<hour, conns, editing, trip>>
    BY <1>4 DEF ScoutBegin
  <2>2. scout' = [at |-> "asked", rows |-> Loaded, pruned |-> FALSE, feed |-> <<>>]
    BY <1>4 DEF ScoutBegin, Idle
  <2>3. Holds(scout')
    BY <1>1, <2>2, IdleHolds DEF Holds, Idle
  <2>4. HolesInv'
    BY <1>1, <2>1, <2>3 DEF HolesInv
  <2> QED
    BY <2>1, <2>4 DEF EolKept
<1>5. CASE ScoutFails
  <2>1. UNCHANGED <<hour, conns, editing, trip>> /\ scout' = Idle
    BY <1>5 DEF ScoutFails
  <2>2. HolesInv'
    BY <1>1, <2>1, IdleHolds DEF HolesInv
  <2> QED
    BY <2>1, <2>2 DEF EolKept
<1>6. CASE ScoutSave
  <2>1. UNCHANGED <<hour, editing, trip>> /\ scout' = Idle
    BY <1>6 DEF ScoutSave
  <2>2. PICK feed \in FeedAnswers : conns' = Merge(scout.rows, feed, "evescout")
    BY <1>6 DEF ScoutSave
  <2>3. feed \in Seq(FeedRows) /\ "evescout" \in Sources
    BY DEF WormholeAssumption, Sources
  <2>4. SoundRows(conns') /\ KeepsClock(scout.rows, conns')
    BY <1>1, <2>2, <2>3, MergeSound
  <2>5. HolesInv'
    BY <1>1, <2>1, <2>4, IdleHolds DEF HolesInv
  <2>6. EolKept
    BY <2>1, <2>4, EolOfSaver
  <2> QED
    BY <2>5, <2>6
<1>7. CASE TripLoad
  <2>1. UNCHANGED <<hour, conns, editing, scout>>
    BY <1>7 DEF TripLoad
  <2>2. PICK feed \in FeedAnswers : trip' = [at |-> "loaded", rows |-> Loaded, pruned |-> FALSE, feed |-> feed]
    BY <1>7 DEF TripLoad, Idle
  <2>3. feed \in Seq(FeedRows)
    BY DEF WormholeAssumption
  <2>4. Holds(trip')
    BY <1>1, <2>2, <2>3 DEF Holds
  <2>5. HolesInv'
    BY <1>1, <2>1, <2>4 DEF HolesInv
  <2> QED
    BY <2>1, <2>5 DEF EolKept
<1>8. CASE TripSave
  <2> DEFINE feed == [i \in DOMAIN trip.feed |-> [trip.feed[i] EXCEPT !.left = NoEnd]]
  <2>1. UNCHANGED <<hour, editing, scout>> /\ trip' = Idle /\ conns' = Merge(trip.rows, feed, "tripwire")
    BY <1>8 DEF TripSave
  <2>2. feed \in Seq(FeedRows) /\ "tripwire" \in Sources
    <3>1. trip.feed \in Seq(FeedRows) /\ NoEnd \in Nat
      BY <1>1 DEF Holds, WormholeAssumption
    <3>2. ASSUME NEW i \in DOMAIN trip.feed PROVE [trip.feed[i] EXCEPT !.left = NoEnd] \in FeedRows
      <4>1. trip.feed[i] \in FeedRows
        BY <3>1
      <4> QED
        BY <3>1, <4>1 DEF FeedRows
    <3>3. DOMAIN trip.feed = 1..Len(trip.feed) /\ Len(trip.feed) \in Nat
      BY <3>1
    <3>4. feed \in Seq(FeedRows)
      BY <3>2, <3>3
    <3> QED
      BY <3>4 DEF Sources
  <2> HIDE DEF feed
  <2>3. SoundRows(conns') /\ KeepsClock(trip.rows, conns')
    BY <1>1, <2>1, <2>2, MergeSound
  <2>4. HolesInv'
    BY <1>1, <2>1, <2>3, IdleHolds DEF HolesInv
  <2>5. EolKept
    BY <2>1, <2>3, EolOfSaver
  <2> QED
    BY <2>4, <2>5
<1>9. CASE Hour
  <2>1. UNCHANGED <<conns, editing, scout, trip>> /\ hour' \in 0..MaxHour
    BY <1>1, <1>9 DEF Hour, WormholeAssumption
  <2>2. HolesInv'
    BY <1>1, <2>1 DEF HolesInv
  <2> QED
    BY <2>1, <2>2 DEF EolKept
<1>10. CASE UNCHANGED hVars
  BY <1>10 DEF hVars, HolesInv, EolKept
<1> QED
  BY <1>2, <1>3, <1>4, <1>5, <1>6, <1>7, <1>8, <1>9, <1>10 DEF WhNext

LEMMA HolesStart == WormholeAssumption /\ WhInit => HolesInv
  BY IdleHolds DEF WormholeAssumption, WhInit, HolesInv

(* validate_new_connection and merge_by_source keep the map free of two    *)
(* rows of one hole, however the commands of the user and both imports     *)
(* overwrite each other, and whatever the feeds answer: in every reachable *)
(* state two rows only match if the user changed the signatures of one of  *)
(* them, of which wh_update_connection asks nothing.                       *)
THEOREM HolesMappedOnce ==
    ASSUME WormholeAssumption
    PROVE  WhSpec => []OneRowPerHole
<1>1. WhInit => HolesInv
  BY HolesStart
<1>2. HolesInv /\ [WhNext]_hVars => HolesInv'
  BY HolesStep
<1>3. HolesInv => OneRowPerHole
  BY DEF HolesInv, SoundRows, OneRowPerHole
<1>4. QED
  BY <1>1, <1>2, <1>3, PTL DEF WhSpec

(* A hole that was seen to be at its end of life collapses on time: no     *)
(* command and no import that found and leaves it so sets its clock back.  *)
THEOREM EolClockAlwaysRuns ==
    ASSUME WormholeAssumption
    PROVE  WhSpec => EolClockRuns
<1>1. WhInit => HolesInv
  BY HolesStart
<1>2. HolesInv /\ [WhNext]_hVars => HolesInv'
  BY HolesStep
<1>3. HolesInv /\ [WhNext]_hVars => [EolKept]_hVars
  BY HolesStep
<1>4. QED
  BY <1>1, <1>2, <1>3, PTL DEF WhSpec, EolClockRuns

-----------------------------------------------------------------------------
(* The chat capture.  The walk over the seconds of LastAccepted: what is   *)
(* remembered at each is the kept cooldown, or a second that was accepted  *)
(* when it came, and what was not accepted is near what was.               *)

Accepts(cooldown, pair, seconds, last) ==
    /\ \A s \in -1..MaxTime :
          \/ last[s] = Never /\ \A r \in seconds \cap (0..MaxTime) : s < r
          \/ pair \in DOMAIN cooldown /\ last[s] = cooldown[pair]
          \/ /\ last[s] \in seconds /\ last[s] \in 0..s
             /\ last[last[s]] = last[s] /\ last[last[s] - 1] # last[s]
    /\ \A s \in seconds \cap (0..MaxTime) :
          last[s] # s => last[s - 1] # Never /\ s - last[s - 1] \in 0..Cooldown - 1

LEMMA LastAcceptedIs ==
    ASSUME ShopAssumption, NEW cooldown, NEW pair, NEW seconds,
           pair \in DOMAIN cooldown => cooldown[pair] \in Nat
    PROVE  Accepts(cooldown, pair, seconds, LastAccepted(cooldown, pair, seconds))
<1> DEFINE begin == IF pair \in DOMAIN cooldown THEN cooldown[pair] ELSE Never
           Decided(s, before) ==
               IF s \in seconds /\ ~(before # Never /\ s - before \in 0..Cooldown - 1) THEN s ELSE before
           N == MaxTime + 1
           pass == [n \in 1..N |-> [before \in Int |-> Decided(n - 1, before)]]
<1>1. MaxTime \in Nat /\ Cooldown \in Nat \ {0} /\ N \in Nat /\ begin \in Int /\ Never = -1
  BY DEF ShopAssumption, Never
<1>2. \A s, before \in Int : Decided(s, before) \in Int
  OBVIOUS
<1> HIDE DEF begin, Decided
<1>3. pass \in [1..N -> [Int -> Int]]
  BY <1>1, <1>2
<1>4. PICK f \in [0..N -> Int] : f[0] = begin /\ \A n \in 1..N : f[n] = pass[n][f[n - 1]]
  <2> HIDE DEF pass, N
  <2>1. WalksOf(N, Int, begin, pass) # {}
    BY <1>1, <1>3, StepsDefine
  <2> QED
    BY <2>1 DEF WalksOf
<1>5. ASSUME NEW n \in 1..N PROVE f[n - 1] \in Int /\ f[n] = Decided(n - 1, f[n - 1])
  <2>1. n - 1 \in 0..N
    BY <1>1
  <2> QED
    BY <1>4, <2>1
<1> HIDE DEF pass
<1> DEFINE Step(last, s) ==
               IF s = -1 THEN IF pair \in DOMAIN cooldown THEN cooldown[pair] ELSE Never
               ELSE LET before == last[s - 1]
                        dup == before # Never /\ s - before \in 0..Cooldown - 1
                    IN IF s \in seconds /\ ~dup THEN s ELSE before
           last == CHOOSE last : last = [s \in -1..MaxTime |-> Step(last, s)]
           g == [s \in -1..MaxTime |-> f[s + 1]]
<1>6. LastAccepted(cooldown, pair, seconds) = last
  BY DEF LastAccepted
<1>7. \A h : Step(h, -1) = begin /\ \A s : s # -1 => Step(h, s) = Decided(s, h[s - 1])
  BY DEF begin, Decided
<1> HIDE DEF Step
<1>8. g = [s \in -1..MaxTime |-> Step(g, s)]
  <2>1. ASSUME NEW s \in -1..MaxTime PROVE g[s] = Step(g, s)
    <3>1. CASE s = -1
      BY <1>1, <1>4, <1>7, <3>1
    <3>2. CASE s # -1
      <4>1. s + 1 \in 1..N /\ (s + 1) - 1 = s /\ s - 1 \in -1..MaxTime
        BY <1>1, <3>2
      <4>2. g[s] = Decided(s, f[s]) /\ g[s - 1] = f[s]
        BY <1>1, <1>5, <4>1
      <4> QED
        BY <1>7, <3>2, <4>2
    <3> QED
      BY <3>1, <3>2
  <2> QED
    BY <2>1
<1> HIDE DEF g
<1>9. last = [s \in -1..MaxTime |-> Step(last, s)]
  BY <1>8
<1> HIDE DEF last
<1>10. last[-1] = begin /\ \A s \in 0..MaxTime : last[s] = Decided(s, last[s - 1])
  BY <1>1, <1>7, <1>9
<1> DEFINE Known(s) ==
               /\ last[s] \in Int
               /\ \/ last[s] = Never /\ \A r \in seconds \cap (0..MaxTime) : s < r
                  \/ pair \in DOMAIN cooldown /\ last[s] = cooldown[pair]
                  \/ /\ last[s] \in seconds /\ last[s] \in 0..s
                     /\ last[last[s]] = last[s] /\ last[last[s] - 1] # last[s]
           Fine == {n \in Nat : n <= N => Known(n - 1)}
<1>11. Known(-1)
  BY <1>1, <1>10 DEF begin
<1>12. ASSUME NEW s \in 0..MaxTime, Known(s - 1) PROVE Known(s)
  <2> DEFINE before == last[s - 1]
  <2>1. before \in Int /\ last[s] = Decided(s, before)
    BY <1>10, <1>12
  <2>2. CASE s \in seconds /\ ~(before # Never /\ s - before \in 0..Cooldown - 1)
    <3>1. last[s] = s
      BY <2>1, <2>2 DEF Decided
    <3>2. before # s
      BY <1>1, <2>2
    <3> QED
      BY <2>2, <3>1, <3>2
  <2>3. CASE ~(s \in seconds /\ ~(before # Never /\ s - before \in 0..Cooldown - 1))
    <3>1. last[s] = before
      BY <2>1, <2>3 DEF Decided
    <3>2. CASE before = Never /\ \A r \in seconds \cap (0..MaxTime) : s - 1 < r
      <4>1. s \notin seconds
        BY <2>3, <3>2
      <4>2. \A r \in seconds \cap (0..MaxTime) : s < r
        BY <3>2, <4>1
      <4> QED
        BY <2>1, <3>1, <3>2, <4>2
    <3>3. CASE pair \in DOMAIN cooldown /\ before = cooldown[pair]
      BY <2>1, <3>1, <3>3
    <3>4. CASE before \in seconds /\ before \in 0..s - 1 /\ last[before] = before /\ last[before - 1] # before
      BY <2>1, <3>1, <3>4
    <3> QED
      BY <1>12, <3>2, <3>3, <3>4
  <2> QED
    BY <2>2, <2>3
<1> HIDE DEF Known
<1>13. 0 \in Fine
  BY <1>11
<1>14. ASSUME NEW n \in Nat, n \in Fine PROVE n + 1 \in Fine
  <2> SUFFICES ASSUME n + 1 <= N PROVE Known((n + 1) - 1)
    OBVIOUS
  <2>1. n <= N /\ n \in 0..MaxTime /\ (n + 1) - 1 = n
    BY <1>1
  <2>2. Known(n - 1)
    BY <1>14, <2>1
  <2> QED
    BY <1>12, <2>1, <2>2
<1>15. Nat \subseteq Fine
  <2> HIDE DEF Fine
  <2> QED
    BY <1>13, <1>14, SetInduction
<1>16. \A s \in -1..MaxTime : Known(s)
  <2> TAKE s \in -1..MaxTime
  <2>1. s + 1 \in Nat /\ s + 1 <= N /\ (s + 1) - 1 = s
    BY <1>1
  <2>2. s + 1 \in Fine
    BY <1>15, <2>1
  <2> QED
    BY <2>1, <2>2
<1>17. ASSUME NEW s \in seconds \cap (0..MaxTime), last[s] # s
       PROVE  last[s - 1] # Never /\ s - last[s - 1] \in 0..Cooldown - 1
  <2>1. last[s] = Decided(s, last[s - 1])
    BY <1>10
  <2> QED
    BY <1>17, <2>1 DEF Decided
<1>18. Accepts(cooldown, pair, seconds, last)
  BY <1>16, <1>17 DEF Accepts, Known
<1> QED
  BY <1>6, <1>18

(* Every message is in the logs of its channel, what the document has seen *)
(* was said, what was imported since it was last out of sight was imported *)
(* once and is among what is seen, and a cooldown is of an import.         *)

Said == [sender : Senders, ts : 0..MaxTime, items : SUBSET Types, logs : SUBSET ToSet(Logs), channel : Channels]
Fated == [imported : Nat, marked : BOOLEAN, ever : BOOLEAN]
IsChat(c) == c = [channel |-> c.channel, seen |-> c.seen, cooldown |-> c.cooldown]

ShopTyped ==
    /\ gameTime \in 0..MaxTime
    /\ messages \in Seq(Said) /\ fate \in Seq(Fated) /\ Len(fate) = Len(messages)
    /\ doc = [lists |-> doc.lists, chat |-> doc.chat] /\ IsChat(doc.chat)

LogsAgree == \A i \in DOMAIN messages : \A l \in messages[i].logs : LogOf[l] = messages[i].channel
SeenIsSaid == doc.chat.seen \subseteq {Key(i) : i \in DOMAIN messages}

ImportsSeen ==
    \A i \in DOMAIN fate : fate[i].imported # 0 =>
        /\ fate[i].imported = 1
        /\ messages[i].channel = doc.chat.channel
        /\ Key(i) \in doc.chat.seen

Imports(i, p) ==
    /\ i \in DOMAIN fate /\ fate[i].ever
    /\ messages[i].sender = p[1] /\ p[2] \in messages[i].items
CooldownsTrue ==
    \A p \in DOMAIN doc.chat.cooldown : \E i \in DOMAIN fate : Imports(i, p) /\ doc.chat.cooldown[p] = messages[i].ts

ShopInv == ShopTyped /\ LogsAgree /\ SeenIsSaid /\ ImportsSeen /\ CooldownsTrue /\ SilenceExplained

LEMMA UnionIs ==
    ASSUME LogsAgree, NEW ch
    PROVE  /\ \A i \in Union(ch) : i \in DOMAIN messages /\ messages[i].channel = ch
           /\ Recent(ch) = {} => Union(ch) = {}
<1>1. ASSUME NEW i \in Union(ch)
      PROVE  \E k \in Recent(ch) : i \in DOMAIN messages /\ k \in Carriers(i)
  BY DEF Union
<1>2. ASSUME NEW i \in Union(ch) PROVE i \in DOMAIN messages /\ messages[i].channel = ch
  <2>1. PICK k \in Recent(ch) : i \in DOMAIN messages /\ k \in Carriers(i)
    BY <1>1
  <2>2. LogOf[Logs[k]] = ch /\ Logs[k] \in messages[i].logs
    BY <2>1 DEF Recent, Carriers
  <2> QED
    BY <2>1, <2>2 DEF LogsAgree
<1> QED
  BY <1>1, <1>2

LEMMA OpenedIs ==
    ASSUME ShopTyped, NEW ch
    PROVE  /\ IsChat(Opened(ch)) /\ Opened(ch).channel = ch
           /\ Opened(ch) = doc.chat \/ (Opened(ch).seen = {} /\ DOMAIN Opened(ch).cooldown = {})
           /\ doc.chat.channel = ch => Opened(ch) = doc.chat
<1>1. CASE doc.chat.channel = ch
  BY <1>1 DEF ShopTyped, Opened
<1>2. CASE doc.chat.channel # ch
  <2>1. Opened(ch) = [channel |-> ch, seen |-> {}, cooldown |-> <<>>]
    BY <1>2 DEF Opened, NewChat
  <2> QED
    BY <1>2, <2>1 DEF IsChat
<1> QED
  BY <1>1, <1>2

LEMMA KeptTrue ==
    ASSUME ShopInv, NEW ch, NEW p \in DOMAIN Kept(Opened(ch).cooldown)
    PROVE  \E i \in DOMAIN fate : Imports(i, p) /\ Kept(Opened(ch).cooldown)[p] = messages[i].ts
<1>1. p \in DOMAIN Opened(ch).cooldown /\ Kept(Opened(ch).cooldown)[p] = Opened(ch).cooldown[p]
  BY DEF Kept
<1>2. Opened(ch) = doc.chat
  BY <1>1, OpenedIs DEF ShopInv
<1> QED
  BY <1>1, <1>2 DEF ShopInv, CooldownsTrue

LEMMA HistoriesAre ==
    ASSUME ShopAssumption, ShopInv, NEW ch, NEW p \in Posted(ch)
    PROVE  /\ p \in DOMAIN Histories(ch)
           /\ Accepts(Kept(Opened(ch).cooldown), p, {messages[i].ts : i \in Posts(ch, p)}, Histories(ch)[p])
           /\ \A i \in Posts(ch, p) : i \in Fresh(ch) /\ i \in DOMAIN messages /\ messages[i].ts \in 0..MaxTime
<1> DEFINE cooldown == Kept(Opened(ch).cooldown)
           seconds == {messages[i].ts : i \in Posts(ch, p)}
<1>1. p \in DOMAIN cooldown => cooldown[p] \in Nat
  <2> SUFFICES ASSUME p \in DOMAIN cooldown PROVE cooldown[p] \in Nat
    OBVIOUS
  <2>1. PICK i \in DOMAIN fate : cooldown[p] = messages[i].ts
    BY KeptTrue
  <2>2. messages[i] \in Said
    BY DEF ShopInv, ShopTyped
  <2> QED
    BY <2>1, <2>2 DEF Said, ShopAssumption
<1>2. Histories(ch)[p] = LastAccepted(cooldown, p, seconds) /\ p \in DOMAIN Histories(ch)
  BY DEF Histories
<1>3. ASSUME NEW i \in Posts(ch, p)
      PROVE  i \in Fresh(ch) /\ i \in DOMAIN messages /\ messages[i].ts \in 0..MaxTime
  <2>1. i \in Fresh(ch) /\ i \in Union(ch)
    BY DEF Posts, Fresh
  <2>2. i \in DOMAIN messages
    BY <2>1, UnionIs DEF ShopInv
  <2>3. messages[i] \in Said
    BY <2>2 DEF ShopInv, ShopTyped
  <2> QED
    BY <2>1, <2>2, <2>3 DEF Said
<1> HIDE DEF cooldown, seconds
<1>4. Accepts(cooldown, p, seconds, Histories(ch)[p])
  BY <1>1, <1>2, LastAcceptedIs
<1> QED
  BY <1>2, <1>3, <1>4 DEF cooldown, seconds

(* A new message that is not taken repeats what its sender posted.         *)
LEMMA RepeatsExplained ==
    ASSUME ShopAssumption, ShopInv, NEW ch, NEW i \in Fresh(ch), ~fate[i].ever, \A x \in Taken(ch) : x[1] # i
    PROVE  Explained(i)
<1>1. i \in Union(ch) /\ i \in DOMAIN messages /\ DOMAIN messages = DOMAIN fate
  <2>1. i \in Union(ch)
    BY DEF Fresh
  <2> QED
    BY <2>1, UnionIs DEF ShopInv, ShopTyped
<1>2. messages[i] \in Said
  BY <1>1 DEF ShopInv, ShopTyped
<1> DEFINE s == messages[i].ts
<1>3. s \in 0..MaxTime /\ messages[i].sender \in Senders /\ messages[i].items \in SUBSET Types
  BY <1>2 DEF Said
<1>4. ASSUME NEW t \in messages[i].items
      PROVE  \E j \in DOMAIN fate \ {i} :
               messages[j].sender = messages[i].sender /\ t \in messages[j].items /\ Near(i, j)
  <2> DEFINE p == <<messages[i].sender, t>>
             cooldown == Kept(Opened(ch).cooldown)
             seconds == {messages[k].ts : k \in Posts(ch, p)}
             last == Histories(ch)[p]
             v == last[s - 1]
  <2>1. i \in Posts(ch, p) /\ p[1] = messages[i].sender /\ p[2] = t
    BY DEF Posts
  <2>2. p \in Posted(ch)
    BY <1>3, <2>1 DEF Posted
  <2>3. /\ p \in DOMAIN Histories(ch) /\ Accepts(cooldown, p, seconds, last)
        /\ \A k \in Posts(ch, p) : k \in DOMAIN messages /\ messages[k].ts \in 0..MaxTime
    BY <2>2, HistoriesAre
  <2>4. ~(last[s] = s /\ v # s)
    <3>1. <<i, p>> \in Fresh(ch) \X Posted(ch) /\ <<i, p>>[1] = i /\ <<i, p>>[2] = p
      BY <2>2
    <3>2. <<i, p>> \notin Taken(ch)
      BY <3>1
    <3> HIDE DEF p
    <3> QED
      BY <2>1, <3>1, <3>2 DEF Taken
  <2>5. s \in seconds
    BY <2>1
  <2> HIDE DEF s, last, seconds, cooldown, p
  <2>6. MaxTime \in Nat /\ Cooldown \in Nat \ {0} /\ s \in Nat /\ s - 1 \in -1..MaxTime /\ Never = -1
    BY <1>3 DEF ShopAssumption, Never
  <2>7. v # Never /\ s - v \in 0..Cooldown - 1
    <3>1. CASE last[s] # s
      BY <1>3, <2>3, <2>5, <3>1 DEF Accepts
    <3>2. CASE v = s
      BY <2>6, <3>2
    <3> QED
      BY <2>4, <3>1, <3>2
  <2>8. \/ p \in DOMAIN cooldown /\ v = cooldown[p]
        \/ v \in seconds /\ v \in 0..s - 1
    BY <2>3, <2>6, <2>7 DEF Accepts
  <2>9. \A j \in DOMAIN messages : messages[j].ts = v /\ v \in Int => Near(i, j)
    BY <2>6, <2>7 DEF Near, s
  <2>10. CASE p \in DOMAIN cooldown /\ v = cooldown[p]
    <3>1. PICK j \in DOMAIN fate : Imports(j, p) /\ cooldown[p] = messages[j].ts
      BY <2>10, KeptTrue DEF cooldown
    <3>2. messages[j] \in Said
      BY <1>1, <3>1 DEF ShopInv, ShopTyped
    <3>3. v \in Int
      BY <2>10, <3>1, <3>2 DEF Said
    <3> QED
      BY <1>1, <2>1, <2>9, <2>10, <3>1, <3>3 DEF Imports
  <2>11. CASE v \in seconds /\ v \in 0..s - 1
    <3>1. PICK j \in Posts(ch, p) : v = messages[j].ts
      BY <2>11 DEF seconds
    <3>2. messages[j].sender = messages[i].sender /\ t \in messages[j].items
      BY <2>1, <3>1 DEF Posts
    <3>3. j # i /\ v \in Int
      BY <2>6, <2>11, <3>1 DEF s
    <3> QED
      BY <1>1, <2>3, <2>9, <3>1, <3>2, <3>3
  <2> QED
    BY <2>8, <2>10, <2>11
<1> QED
  BY <1>4 DEF Explained

(* A cooldown that a poll keeps or sets is of a message that was imported. *)
LEMMA CooledTrue ==
    ASSUME ShopAssumption, ShopInv, NEW ch, NEW p \in DOMAIN Cooled(ch)
    PROVE  \E i \in DOMAIN fate :
             /\ fate[i].ever \/ (i \in Union(ch) /\ \E x \in Taken(ch) : x[1] = i)
             /\ messages[i].sender = p[1] /\ p[2] \in messages[i].items
             /\ Cooled(ch)[p] = messages[i].ts
<1> DEFINE cooldown == Kept(Opened(ch).cooldown)
           last == Histories(ch)[p]
<1>1. DOMAIN Histories(ch) = Posted(ch)
  BY DEF Histories
<1>2. p \in Posted(ch) \/ (p \in DOMAIN cooldown /\ p \notin Posted(ch))
  BY <1>1 DEF Cooled
<1>3. Cooled(ch)[p] = IF p \in Posted(ch) THEN last[MaxTime] ELSE cooldown[p]
  BY <1>1 DEF Cooled
<1>4. CASE p \in DOMAIN cooldown /\ Cooled(ch)[p] = cooldown[p]
  BY <1>4, KeptTrue DEF Imports
<1>5. CASE p \in Posted(ch) /\ ~(p \in DOMAIN cooldown /\ last[MaxTime] = cooldown[p])
  <2> DEFINE seconds == {messages[i].ts : i \in Posts(ch, p)}
             v == last[MaxTime]
  <2>1. /\ Accepts(cooldown, p, seconds, last)
        /\ \A i \in Posts(ch, p) : i \in Fresh(ch) /\ i \in DOMAIN messages /\ messages[i].ts \in 0..MaxTime
    BY <1>5, HistoriesAre
  <2>2. \E i \in Posts(ch, p) : messages[i].ts \in seconds \cap (0..MaxTime)
    BY <1>5, <2>1 DEF Posted
  <2>3. \A r \in seconds : r \in 0..MaxTime
    BY <2>1
  <2> HIDE DEF last, cooldown, seconds
  <2>4. MaxTime \in Nat /\ MaxTime \in -1..MaxTime /\ Never = -1
    BY DEF ShopAssumption, Never
  <2>5. v \in seconds /\ last[v] = v /\ last[v - 1] # v
    BY <1>5, <2>1, <2>2, <2>4 DEF Accepts
  <2>6. PICK i \in Posts(ch, p) : v = messages[i].ts
    BY <2>5 DEF seconds
  <2>7. <<i, p>> \in Taken(ch)
    <3>1. <<i, p>> \in Fresh(ch) \X Posted(ch) /\ <<i, p>>[1] = i /\ <<i, p>>[2] = p
      BY <1>5, <2>1
    <3> QED
      BY <2>5, <2>6, <3>1 DEF Taken, last
  <2>8. i \in Union(ch) /\ i \in DOMAIN fate
    BY <2>1 DEF Fresh, ShopInv, ShopTyped
  <2>9. messages[i].sender = p[1] /\ p[2] \in messages[i].items
    BY DEF Posts
  <2>10. \E x \in Taken(ch) : x[1] = i
    BY <2>7
  <2>11. Cooled(ch)[p] = v
    BY <1>3, <1>5
  <2> QED
    BY <2>6, <2>8, <2>9, <2>10, <2>11
<1> QED
  BY <1>2, <1>3, <1>4, <1>5

(* What becomes of a message in a poll.                                    *)
Keys(ch) == {Key(i) : i \in Union(ch)}
Lost(ch, i) == messages[i].channel # ch \/ (Recent(ch) # {} /\ Key(i) \notin Keys(ch))
TakenOf(ch, i) == \E x \in Taken(ch) : x[1] = i

Fate(ch, fromNow, i, f) ==
    /\ f \in Fated
    /\ fate[i].ever => f.ever
    /\ Lost(ch, i) => f.imported = 0
    /\ ~Lost(ch, i) /\ fromNow =>
         f.imported = fate[i].imported /\ f.ever = fate[i].ever /\ f.marked = (fate[i].marked \/ Key(i) \in Keys(ch))
    /\ ~Lost(ch, i) /\ ~fromNow /\ ~TakenOf(ch, i) => f = fate[i]
    /\ ~Lost(ch, i) /\ ~fromNow /\ TakenOf(ch, i) => f.imported = fate[i].imported + 1 /\ f.ever

LEMMA FatesAre ==
    ASSUME ShopInv, NEW ch, NEW fromNow \in BOOLEAN
    PROVE  /\ Fates(ch, fromNow) \in Seq(Fated) /\ Len(Fates(ch, fromNow)) = Len(fate)
           /\ \A i \in DOMAIN fate : Fate(ch, fromNow, i, Fates(ch, fromNow)[i])
<1>1. fate \in Seq(Fated) /\ DOMAIN fate = 1..Len(fate) /\ Len(fate) \in Nat
  BY DEF ShopInv, ShopTyped
<1> DEFINE f(i) == IF Lost(ch, i) THEN OutOfSight(fate[i])
                   ELSE IF fromNow THEN [fate[i] EXCEPT !.marked = @ \/ Key(i) \in Keys(ch)]
                   ELSE IF ~TakenOf(ch, i) THEN fate[i]
                   ELSE [fate[i] EXCEPT !.imported = @ + 1, !.ever = TRUE]
<1>2. ASSUME NEW i \in DOMAIN fate PROVE Fates(ch, fromNow)[i] = f(i)
  BY DEF Fates, Lost, Keys, TakenOf
<1>3. DOMAIN Fates(ch, fromNow) = 1..Len(fate)
  BY <1>1 DEF Fates
<1>4. ASSUME NEW i \in DOMAIN fate PROVE Fate(ch, fromNow, i, f(i))
  <2>1. fate[i] \in Fated
    BY <1>1
  <2>2. CASE Lost(ch, i)
    <3>1. f(i) = [fate[i] EXCEPT !.imported = 0, !.marked = FALSE]
      BY <2>2 DEF OutOfSight
    <3> HIDE DEF f
    <3>2. f(i) = [imported |-> 0, marked |-> FALSE, ever |-> fate[i].ever]
      BY <2>1, <3>1 DEF Fated
    <3> QED
      BY <2>1, <2>2, <3>2 DEF Fate, Fated
  <2>3. CASE ~Lost(ch, i) /\ fromNow
    <3>1. f(i) = [fate[i] EXCEPT !.marked = @ \/ Key(i) \in Keys(ch)]
      BY <2>3
    <3> HIDE DEF f
    <3> DEFINE m == fate[i].marked \/ Key(i) \in Keys(ch)
    <3>2. m \in BOOLEAN
      OBVIOUS
    <3>3. f(i) = [fate[i] EXCEPT !.marked = m]
      BY <3>1
    <3> HIDE DEF m
    <3>4. f(i) \in Fated /\ f(i).imported = fate[i].imported /\ f(i).ever = fate[i].ever /\ f(i).marked = m
      BY <2>1, <3>2, <3>3 DEF Fated
    <3> QED
      BY <2>1, <2>3, <3>4 DEF Fate, m
  <2>4. CASE ~Lost(ch, i) /\ ~fromNow /\ ~TakenOf(ch, i)
    BY <2>1, <2>4 DEF Fate
  <2>5. CASE ~Lost(ch, i) /\ ~fromNow /\ TakenOf(ch, i)
    <3>1. f(i) = [fate[i] EXCEPT !.imported = @ + 1, !.ever = TRUE]
      BY <2>5
    <3> HIDE DEF f
    <3> DEFINE more == [fate[i] EXCEPT !.imported = @ + 1]
    <3>2. more \in Fated /\ more.imported = fate[i].imported + 1
      BY <2>1 DEF Fated
    <3>3. f(i) = [more EXCEPT !.ever = TRUE]
      BY <3>1
    <3> HIDE DEF more
    <3>4. f(i) \in Fated /\ f(i).imported = fate[i].imported + 1 /\ f(i).ever = TRUE
      BY <3>2, <3>3 DEF Fated
    <3> QED
      BY <2>5, <3>4 DEF Fate
  <2> QED
    BY <2>2, <2>3, <2>4, <2>5
<1> HIDE DEF f
<1>5. \A i \in DOMAIN fate : Fate(ch, fromNow, i, Fates(ch, fromNow)[i])
  BY <1>2, <1>4
<1>6. \A i \in DOMAIN fate : Fates(ch, fromNow)[i] \in Fated
  BY <1>5 DEF Fate
<1>7. Fates(ch, fromNow) = [i \in 1..Len(fate) |-> Fates(ch, fromNow)[i]]
  BY <1>3 DEF Fates
<1>8. Fates(ch, fromNow) \in Seq(Fated) /\ Len(Fates(ch, fromNow)) = Len(fate)
  BY <1>1, <1>3, <1>6, <1>7
<1> QED
  BY <1>5, <1>8

(* What becomes of the capture's part of the document in a poll.           *)
ChatAfter(ch, fromNow, c) ==
    \/ Recent(ch) = {} /\ c = Opened(ch)
    \/ Recent(ch) # {} /\ fromNow /\ c = [Opened(ch) EXCEPT !.seen = Keys(ch)]
    \/ Recent(ch) # {} /\ ~fromNow /\ c = doc.chat /\ doc.chat.channel = ch /\ doc.chat.seen = Keys(ch) /\ Taken(ch) = {}
    \/ Recent(ch) # {} /\ ~fromNow /\ c = [channel |-> ch, seen |-> Keys(ch), cooldown |-> Cooled(ch)]

LEMMA SyncIs ==
    ASSUME NEW ch, NEW fromNow \in BOOLEAN, NEW target, ShopTyped, ChatSync(ch, fromNow, target)
    PROVE  \/ UNCHANGED <<doc, fate>>
           \/ /\ fate' = Fates(ch, fromNow)
              /\ doc' = [lists |-> doc'.lists, chat |-> doc'.chat]
              /\ ChatAfter(ch, fromNow, doc'.chat)
<1> SUFFICES ASSUME ~UNCHANGED <<doc, fate>>
             PROVE  /\ fate' = Fates(ch, fromNow)
                    /\ doc' = [lists |-> doc'.lists, chat |-> doc'.chat]
                    /\ ChatAfter(ch, fromNow, doc'.chat)
  OBVIOUS
<1>1. PICK lists, filled :
        /\ fate' = Fates(ch, fromNow)
        /\ IF Recent(ch) = {} THEN doc' = [lists |-> lists, chat |-> Opened(ch)]
           ELSE IF fromNow THEN doc' = [lists |-> lists, chat |-> [Opened(ch) EXCEPT !.seen = Keys(ch)]]
           ELSE IF doc.chat.channel = ch /\ Keys(ch) = doc.chat.seen /\ Taken(ch) = {} THEN UNCHANGED doc
           ELSE doc' = [lists |-> filled, chat |-> [channel |-> ch, seen |-> Keys(ch), cooldown |-> Cooled(ch)]]
  BY DEF ChatSync, Save, Keys, Seen
<1>2. doc = [lists |-> doc.lists, chat |-> doc.chat]
  BY DEF ShopTyped
<1>3. CASE Recent(ch) = {}
  BY <1>1, <1>3 DEF ChatAfter
<1>4. CASE Recent(ch) # {} /\ fromNow
  BY <1>1, <1>4 DEF ChatAfter
<1>5. CASE Recent(ch) # {} /\ ~fromNow /\ doc.chat.channel = ch /\ Keys(ch) = doc.chat.seen /\ Taken(ch) = {}
  BY <1>1, <1>2, <1>5 DEF ChatAfter
<1>6. CASE Recent(ch) # {} /\ ~fromNow /\ ~(doc.chat.channel = ch /\ Keys(ch) = doc.chat.seen /\ Taken(ch) = {})
  BY <1>1, <1>6 DEF ChatAfter
<1> QED
  BY <1>3, <1>4, <1>5, <1>6

LEMMA PollSound ==
    ASSUME ShopAssumption, ShopInv, NEW ch, NEW fromNow \in BOOLEAN, NEW target,
           ChatSync(ch, fromNow, target), UNCHANGED <<gameTime, messages>>
    PROVE  ShopInv'
<1> SUFFICES ASSUME ~UNCHANGED <<doc, fate>> PROVE ShopInv'
  BY DEF ShopInv, ShopTyped, LogsAgree, SeenIsSaid, ImportsSeen, CooldownsTrue, SilenceExplained, Imports, Explained,
         Key, Near
<1> DEFINE chat == doc'.chat
           keys == Keys(ch)
<1>1. ShopTyped /\ LogsAgree /\ SeenIsSaid /\ ImportsSeen /\ CooldownsTrue /\ SilenceExplained
  BY DEF ShopInv
<1>2. fate' = Fates(ch, fromNow) /\ doc' = [lists |-> doc'.lists, chat |-> chat] /\ ChatAfter(ch, fromNow, chat)
  BY <1>1, SyncIs
<1>3. /\ fate' \in Seq(Fated) /\ Len(fate') = Len(fate) /\ DOMAIN fate' = DOMAIN fate /\ DOMAIN fate = DOMAIN messages
      /\ \A i \in DOMAIN fate : Fate(ch, fromNow, i, fate'[i])
  BY <1>1, <1>2, FatesAre DEF ShopTyped
<1>4. \A i : Key(i)' = Key(i)
  BY DEF Key
<1>5. \A i \in Union(ch) : i \in DOMAIN messages /\ messages[i].channel = ch /\ Key(i) \in keys
  BY <1>1, UnionIs DEF Keys
<1>6. /\ Recent(ch) = {} => keys = {}
      /\ keys \subseteq {Key(i) : i \in DOMAIN messages}
      /\ \A i : TakenOf(ch, i) => i \in Union(ch) /\ i \in Fresh(ch)
  <2>1. \A x \in Taken(ch) : x[1] \in Fresh(ch)
    BY DEF Taken
  <2> QED
    BY <1>1, <1>5, <2>1, UnionIs DEF Keys, TakenOf, Fresh
<1>7. /\ IsChat(Opened(ch)) /\ Opened(ch).channel = ch
      /\ Opened(ch) = doc.chat \/ (Opened(ch).seen = {} /\ DOMAIN Opened(ch).cooldown = {})
      /\ doc.chat.channel = ch => Opened(ch) = doc.chat
  BY <1>1, OpenedIs
<1> HIDE DEF chat, keys
<1>8. /\ IsChat(chat) /\ chat.channel = ch
      /\ chat.seen = IF Recent(ch) = {} THEN Opened(ch).seen ELSE keys
      /\ \/ chat.cooldown = Opened(ch).cooldown
         \/ ~fromNow /\ chat.cooldown = Cooled(ch)
  <2>1. CASE Recent(ch) = {} /\ chat = Opened(ch)
    BY <1>7, <2>1
  <2>2. CASE Recent(ch) # {} /\ chat = [Opened(ch) EXCEPT !.seen = keys]
    <3>1. chat = [channel |-> ch, seen |-> keys, cooldown |-> Opened(ch).cooldown]
      BY <1>7, <2>2 DEF IsChat
    <3>2. chat.channel = ch /\ chat.seen = keys /\ chat.cooldown = Opened(ch).cooldown
      BY ONLY <3>1
    <3>3. IsChat(chat)
      BY ONLY <3>1, <3>2 DEF IsChat
    <3> QED
      BY <2>2, <3>2, <3>3
  <2>3. CASE Recent(ch) # {} /\ chat = doc.chat /\ doc.chat.channel = ch /\ doc.chat.seen = keys
    BY <1>7, <2>3
  <2>4. CASE Recent(ch) # {} /\ ~fromNow /\ chat = [channel |-> ch, seen |-> keys, cooldown |-> Cooled(ch)]
    BY <2>4 DEF IsChat
  <2> QED
    BY <1>2, <2>1, <2>2, <2>3, <2>4 DEF ChatAfter, keys
<1>9. ShopTyped'
  BY <1>1, <1>2, <1>3, <1>8 DEF ShopTyped, chat
<1>10. LogsAgree'
  BY <1>1 DEF LogsAgree
<1>11. SeenIsSaid'
  <2>1. chat.seen \subseteq {Key(i) : i \in DOMAIN messages}
    BY <1>1, <1>6, <1>7, <1>8 DEF SeenIsSaid
  <2> QED
    BY <1>4, <2>1 DEF SeenIsSaid, chat
<1>12. ImportsSeen'
  <2> SUFFICES ASSUME NEW i \in DOMAIN fate, fate'[i].imported # 0
               PROVE  fate'[i].imported = 1 /\ messages[i].channel = chat.channel /\ Key(i) \in chat.seen
    BY <1>3, <1>4 DEF ImportsSeen, chat
  <2>1. Fate(ch, fromNow, i, fate'[i]) /\ ~Lost(ch, i)
    BY <1>3 DEF Fate
  <2>2. messages[i].channel = ch /\ (Recent(ch) = {} \/ Key(i) \in keys)
    BY <2>1 DEF Lost, keys
  <2>3. CASE ~fromNow /\ TakenOf(ch, i)
    <3>1. i \in Union(ch) /\ Key(i) \notin Opened(ch).seen /\ Recent(ch) # {}
      BY <1>5, <1>6, <2>3 DEF Fresh
    <3>2. fate[i].imported = 0
      BY <1>1, <1>7, <2>2, <3>1 DEF ImportsSeen
    <3> QED
      BY <1>5, <1>8, <2>1, <2>2, <2>3, <3>1, <3>2 DEF Fate
  <2>4. CASE fromNow \/ ~TakenOf(ch, i)
    <3>1. fate'[i].imported = fate[i].imported
      BY <2>1, <2>4 DEF Fate
    <3>2. fate[i].imported = 1 /\ doc.chat.channel = ch /\ Key(i) \in doc.chat.seen
      BY <1>1, <2>2, <3>1 DEF ImportsSeen
    <3> QED
      BY <1>7, <1>8, <2>2, <3>1, <3>2
  <2> QED
    BY <2>3, <2>4
<1>13. CooldownsTrue'
  <2> SUFFICES ASSUME NEW p \in DOMAIN chat.cooldown
               PROVE  \E i \in DOMAIN fate : /\ fate'[i].ever /\ messages[i].sender = p[1] /\ p[2] \in messages[i].items
                                             /\ chat.cooldown[p] = messages[i].ts
    BY <1>3 DEF CooldownsTrue, Imports, chat
  <2>1. CASE chat.cooldown = Opened(ch).cooldown
    <3>1. PICK i \in DOMAIN fate : Imports(i, p) /\ chat.cooldown[p] = messages[i].ts
      BY <1>1, <1>7, <2>1 DEF CooldownsTrue
    <3> QED
      BY <1>3, <3>1 DEF Imports, Fate
  <2>2. CASE ~fromNow /\ chat.cooldown = Cooled(ch)
    <3>1. PICK i \in DOMAIN fate :
            /\ fate[i].ever \/ (i \in Union(ch) /\ TakenOf(ch, i))
            /\ messages[i].sender = p[1] /\ p[2] \in messages[i].items
            /\ chat.cooldown[p] = messages[i].ts
      BY <2>2, CooledTrue DEF TakenOf
    <3>2. i \in Union(ch) => ~Lost(ch, i)
      BY <1>5 DEF Lost, keys
    <3>3. fate'[i].ever
      BY <1>3, <2>2, <3>1, <3>2 DEF Fate
    <3> QED
      BY <3>1, <3>3
  <2> QED
    BY <1>8, <2>1, <2>2
<1>14. SilenceExplained'
  <2>1. \A i : Explained(i)' <=> Explained(i)
    BY <1>3, <1>4 DEF Explained, Near
  <2> SUFFICES ASSUME NEW i \in DOMAIN fate, messages[i].channel = chat.channel, Key(i) \in chat.seen,
                      ~fate'[i].ever, ~fate'[i].marked
               PROVE  Explained(i)
    BY <1>3, <1>4, <2>1 DEF SilenceExplained, chat
  <2>2. Fate(ch, fromNow, i, fate'[i]) /\ ~fate[i].ever
    BY <1>3 DEF Fate
  <2>3. ~Lost(ch, i)
    BY <1>8 DEF Lost, keys
  <2>4. CASE Recent(ch) = {}
    <3>1. doc.chat = Opened(ch) /\ doc.chat.channel = ch /\ Key(i) \in doc.chat.seen
      BY <1>7, <1>8, <2>4
    <3>2. ~TakenOf(ch, i)
      BY <1>1, <1>6, <2>4, UnionIs
    <3>3. ~fate[i].marked
      BY <2>2, <2>3, <3>2 DEF Fate
    <3> QED
      BY <1>1, <1>8, <2>2, <3>1, <3>3 DEF SilenceExplained
  <2>5. CASE Recent(ch) # {}
    <3>1. Key(i) \in keys /\ ~fromNow
      BY <1>8, <2>2, <2>3, <2>5 DEF Fate, keys
    <3>2. ~TakenOf(ch, i) /\ ~fate[i].marked
      BY <2>2, <2>3, <3>1 DEF Fate
    <3>3. CASE i \notin Union(ch)
      BY <1>3, <1>5, <3>1, <3>3 DEF Explained, Keys, keys
    <3>4. CASE i \in Union(ch) /\ Key(i) \in Opened(ch).seen
      BY <1>1, <1>7, <1>8, <2>2, <3>2, <3>4 DEF SilenceExplained
    <3>5. CASE i \in Fresh(ch)
      BY <2>2, <3>2, <3>5, RepeatsExplained DEF TakenOf
    <3> QED
      BY <3>3, <3>4, <3>5 DEF Fresh
  <2> QED
    BY <2>4, <2>5
<1> QED
  BY <1>9, <1>10, <1>11, <1>12, <1>13, <1>14 DEF ShopInv

(* What leaves the capture's part of the document, the messages and their  *)
(* fates alone leaves the invariant alone.                                 *)
LEMMA ChatKept ==
    ASSUME ShopInv, UNCHANGED <<messages, fate>>, gameTime' \in 0..MaxTime,
           doc' = [lists |-> doc'.lists, chat |-> doc'.chat], doc'.chat = doc.chat
    PROVE  ShopInv'
<1>1. \A i : Key(i)' = Key(i) /\ (Explained(i)' <=> Explained(i))
  BY DEF Key, Explained, Near
<1>2. ShopTyped' /\ LogsAgree' /\ SeenIsSaid' /\ ImportsSeen' /\ SilenceExplained'
  BY <1>1 DEF ShopInv, ShopTyped, LogsAgree, SeenIsSaid, ImportsSeen, SilenceExplained
<1>3. CooldownsTrue'
  BY DEF ShopInv, CooldownsTrue, Imports
<1> QED
  BY <1>2, <1>3 DEF ShopInv

LEMMA EditsKeep ==
    ASSUME ShopInv, Edits
    PROVE  UNCHANGED <<gameTime, messages, fate>> /\ doc' = [lists |-> doc'.lists, chat |-> doc'.chat] /\ doc'.chat = doc.chat
<1>1. doc = [lists |-> doc.lists, chat |-> doc.chat]
  BY DEF ShopInv, ShopTyped
<1>2. ASSUME NEW lists, SaveLists(lists)
      PROVE  doc' = [lists |-> doc'.lists, chat |-> doc'.chat] /\ doc'.chat = doc.chat
  <2>1. doc' = [lists |-> lists, chat |-> doc.chat]
    BY <1>1, <1>2 DEF SaveLists, Save
  <2> QED
    BY <2>1
<1>3. Edited /\ (doc' = doc \/ \E lists : SaveLists(lists))
  <2>1. ASSUME NEW b, CreateList(b) PROVE Edited /\ \E lists : SaveLists(lists)
    BY <2>1, Zenon DEF CreateList
  <2>2. ASSUME NEW id, DeleteList(id) \/ ClearList(id) PROVE Edited /\ \E lists : SaveLists(lists)
    BY <2>2, Zenon DEF DeleteList, ClearList
  <2>3. ASSUME NEW id, NEW t, AddItem(id, t, 2) \/ SetQuantity(id, t, 0) \/ RemoveItem(id, t)
        PROVE  Edited /\ \E lists : SaveLists(lists)
    BY <2>3, Zenon DEF AddItem, SetQuantity, RemoveItem
  <2>4. ASSUME NEW from, NEW to, NEW t, MoveItem(from, to, t, 1)
        PROVE  Edited /\ (doc' = doc \/ \E lists : SaveLists(lists))
    BY <2>4, Zenon DEF MoveItem
  <2>5. ASSUME NEW from, NEW to, NEW types, MoveItems(from, to, types)
        PROVE  Edited /\ \E lists : SaveLists(lists)
    BY <2>5, Zenon DEF MoveItems
  <2> QED
    BY <2>1, <2>2, <2>3, <2>4, <2>5 DEF Edits, Moves
<1>4. doc' = [lists |-> doc'.lists, chat |-> doc'.chat] /\ doc'.chat = doc.chat
  BY <1>1, <1>2, <1>3
<1> QED
  BY <1>3, <1>4 DEF Edited

LEMMA PostSound ==
    ASSUME ShopInv, NEW sender \in Senders, NEW items \in SUBSET Types, NEW logs \in SUBSET ToSet(Logs),
           NEW channel \in Channels, logs # {}, \A l \in logs : LogOf[l] = channel, Post(sender, items, logs)
    PROVE  ShopInv'
<1> DEFINE n == Len(messages) + 1
           post == [sender |-> sender, ts |-> gameTime, items |-> items, logs |-> logs, channel |-> channel]
           new == [imported |-> 0, marked |-> FALSE, ever |-> FALSE]
<1>1. ShopTyped /\ LogsAgree /\ SeenIsSaid /\ ImportsSeen /\ CooldownsTrue /\ SilenceExplained
  BY DEF ShopInv
<1>2. UNCHANGED <<doc, gameTime>> /\ messages' = Append(messages, post) /\ fate' = Append(fate, new)
  <2>1. LogOf[CHOOSE l \in logs : TRUE] = channel
    OBVIOUS
  <2> QED
    BY <2>1 DEF Post
<1>3. messages \in Seq(Said) /\ fate \in Seq(Fated) /\ Len(fate) = Len(messages) /\ post \in Said /\ new \in Fated
  BY <1>1 DEF ShopTyped, Said, Fated
<1>4. /\ messages' \in Seq(Said) /\ fate' \in Seq(Fated) /\ Len(fate') = Len(messages') /\ Len(messages') = n
      /\ \A i \in 1..Len(messages) : messages'[i] = messages[i] /\ fate'[i] = fate[i]
      /\ messages'[n] = post /\ fate'[n] = new
  BY <1>2, <1>3
<1>5. /\ DOMAIN messages = 1..Len(messages) /\ DOMAIN fate = 1..Len(messages) /\ Len(messages) \in Nat
      /\ DOMAIN messages' = 1..n /\ DOMAIN fate' = 1..n
      /\ 1..n = (1..Len(messages)) \cup {n} /\ n \notin 1..Len(messages)
  BY <1>3, <1>4
<1>6. post.logs = logs /\ post.channel = channel /\ new.imported = 0
  OBVIOUS
<1> HIDE DEF n, post, new
<1>7. \A i \in DOMAIN messages : Key(i)' = Key(i)
  BY <1>4, <1>5 DEF Key
<1>8. ShopTyped'
  BY <1>1, <1>2, <1>4 DEF ShopTyped
<1>9. LogsAgree'
  BY <1>1, <1>4, <1>5, <1>6 DEF LogsAgree
<1>10. SeenIsSaid'
  BY <1>1, <1>2, <1>5, <1>7 DEF SeenIsSaid
<1>11. ImportsSeen'
  <2> SUFFICES ASSUME NEW i \in DOMAIN fate', fate'[i].imported # 0
               PROVE  fate'[i].imported = 1 /\ messages'[i].channel = doc.chat.channel /\ Key(i)' \in doc.chat.seen
    BY <1>2 DEF ImportsSeen
  <2>1. i \in DOMAIN fate
    BY <1>4, <1>5, <1>6
  <2> QED
    BY <1>1, <1>4, <1>5, <1>7, <2>1 DEF ImportsSeen
<1>12. CooldownsTrue'
  <2> SUFFICES ASSUME NEW p \in DOMAIN doc.chat.cooldown
               PROVE  \E i \in DOMAIN fate' : Imports(i, p)' /\ doc.chat.cooldown[p] = messages'[i].ts
    BY <1>2 DEF CooldownsTrue
  <2>1. PICK i \in DOMAIN fate : Imports(i, p) /\ doc.chat.cooldown[p] = messages[i].ts
    BY <1>1 DEF CooldownsTrue
  <2> QED
    BY <1>4, <1>5, <2>1 DEF Imports
<1>13. SilenceExplained'
  <2> SUFFICES ASSUME NEW i \in DOMAIN fate', messages'[i].channel = doc.chat.channel, Key(i)' \in doc.chat.seen,
                      ~fate'[i].ever, ~fate'[i].marked
               PROVE  Explained(i)'
    BY <1>2 DEF SilenceExplained
  <2>1. CASE i = n
    <3>1. PICK j \in DOMAIN messages : Key(i)' = Key(j)
      BY <1>1 DEF SeenIsSaid
    <3>2. j \in DOMAIN fate' /\ j # i /\ Key(j)' = Key(i)'
      BY <1>5, <1>7, <2>1, <3>1
    <3> QED
      BY <3>2 DEF Explained
  <2>2. CASE i \in DOMAIN fate
    <3>1. Explained(i)
      BY <1>1, <1>4, <1>5, <1>7, <2>2 DEF SilenceExplained
    <3>2. CASE \E j \in DOMAIN fate \ {i} : Key(j) = Key(i)
      BY <1>5, <1>7, <2>2, <3>2 DEF Explained
    <3>3. CASE \A t \in messages[i].items : \E j \in DOMAIN fate \ {i} :
                 messages[j].sender = messages[i].sender /\ t \in messages[j].items /\ Near(i, j)
      <4>1. ASSUME NEW t \in messages'[i].items
            PROVE  \E j \in DOMAIN fate' \ {i} :
                     messages'[j].sender = messages'[i].sender /\ t \in messages'[j].items /\ Near(i, j)'
        <5>1. PICK j \in DOMAIN fate \ {i} :
                messages[j].sender = messages[i].sender /\ t \in messages[j].items /\ Near(i, j)
          BY <1>4, <1>5, <2>2, <3>3
        <5>2. Near(i, j)'
          BY <1>4, <1>5, <2>2, <5>1 DEF Near
        <5> QED
          BY <1>4, <1>5, <2>2, <5>1, <5>2
      <4> QED
        BY <4>1 DEF Explained
    <3> QED
      BY <3>1, <3>2, <3>3 DEF Explained
  <2> QED
    BY <1>5, <2>1, <2>2
<1> QED
  BY <1>8, <1>9, <1>10, <1>11, <1>12, <1>13 DEF ShopInv

LEMMA TornIs ==
    /\ TornDoc = [lists |-> TornDoc.lists, chat |-> TornDoc.chat] /\ IsChat(TornDoc.chat)
    /\ TornDoc.chat.seen = {} /\ DOMAIN TornDoc.chat.cooldown = {}
<1>1. TornDoc.chat = NewChat /\ TornDoc.lists = <<>> /\ TornDoc = [lists |-> <<>>, chat |-> NewChat]
  BY Zenon DEF TornDoc
<1>2. NewChat.channel = "" /\ NewChat.seen = {} /\ NewChat.cooldown = <<>>
      /\ NewChat = [channel |-> "", seen |-> {}, cooldown |-> <<>>]
  BY Zenon DEF NewChat
<1>3. DOMAIN <<>> = {}
  OBVIOUS
<1>4. IsChat(NewChat)
  BY ONLY <1>2 DEF IsChat
<1>5. TornDoc = [lists |-> TornDoc.lists, chat |-> TornDoc.chat]
  BY ONLY <1>1
<1> QED
  BY ONLY <1>1, <1>2, <1>3, <1>4, <1>5

LEMMA DiesSound ==
    ASSUME ShopAssumption, ShopInv, DiesSaving
    PROVE  ShopInv'
<1>1. UNCHANGED <<gameTime, messages>> /\ doc' = TornDoc /\ fate' = [i \in DOMAIN fate |-> OutOfSight(fate[i])]
  BY DEF DiesSaving
<1>2. /\ doc' = [lists |-> doc'.lists, chat |-> doc'.chat] /\ IsChat(doc'.chat)
      /\ doc'.chat.seen = {} /\ DOMAIN doc'.chat.cooldown = {}
  BY <1>1, TornIs
<1>3. fate \in Seq(Fated) /\ Len(fate) = Len(messages) /\ DOMAIN fate = 1..Len(fate)
  BY DEF ShopInv, ShopTyped
<1>4. ASSUME NEW i \in DOMAIN fate PROVE fate'[i] \in Fated /\ fate'[i].imported = 0
  <2> DEFINE f == fate[i]
             less == [f EXCEPT !.imported = 0]
  <2>1. f \in Fated /\ fate'[i] = OutOfSight(f)
    BY <1>1, <1>3
  <2> HIDE DEF f
  <2>2. less \in Fated /\ less.imported = 0
    BY <2>1 DEF Fated
  <2>3. OutOfSight(f) = [less EXCEPT !.marked = FALSE]
    BY DEF OutOfSight
  <2> HIDE DEF less
  <2>4. OutOfSight(f) \in Fated /\ OutOfSight(f).imported = 0
    BY <2>2, <2>3 DEF Fated
  <2> QED
    BY <2>1, <2>4
<1>5. fate' \in Seq(Fated) /\ Len(fate') = Len(messages)
  <2>1. Len(fate) \in Nat /\ DOMAIN fate' = 1..Len(fate) /\ fate' = [i \in 1..Len(fate) |-> fate'[i]]
    BY <1>1, <1>3
  <2>2. \A i \in 1..Len(fate) : fate'[i] \in Fated
    BY <1>3, <1>4
  <2> QED
    BY <1>3, <2>1, <2>2
<1>6. ShopTyped'
  BY <1>1, <1>2, <1>5 DEF ShopInv, ShopTyped
<1>7. LogsAgree' /\ SeenIsSaid'
  BY <1>1, <1>2 DEF ShopInv, LogsAgree, SeenIsSaid
<1>8. ImportsSeen'
  BY <1>1, <1>4 DEF ImportsSeen
<1>9. CooldownsTrue' /\ SilenceExplained'
  BY <1>2 DEF CooldownsTrue, SilenceExplained
<1> QED
  BY <1>6, <1>7, <1>8, <1>9 DEF ShopInv

(* What a poll of the panel passes on.                                     *)
UiTyped == ui \in [listening : BOOLEAN, fromNow : BOOLEAN, channel : Channels \cup {""}]

LEMMA ShopStep ==
    ASSUME ShopAssumption, ShopInv, UiTyped, [ShopNext]_shopVars
    PROVE  ShopInv' /\ UiTyped'
<1>1. gameTime \in 0..MaxTime /\ doc = [lists |-> doc.lists, chat |-> doc.chat]
  BY DEF ShopInv, ShopTyped
<1>2. CASE Edits
  <2>1. ui' = ui
    BY <1>2 DEF Edits, Moves, Edited, CreateList, DeleteList, ClearList, AddItem, SetQuantity, RemoveItem, MoveItem,
                MoveItems
  <2>2. ShopInv'
    BY <1>1, <1>2, EditsKeep, ChatKept
  <2> QED
    BY <2>1, <2>2 DEF UiTyped
<1>3. ASSUME NEW target, Poll(target) PROVE ShopInv' /\ UiTyped'
  <2>1. ChatSync(ui.channel, ui.fromNow, target) /\ UNCHANGED <<gameTime, messages>>
    BY <1>3 DEF Poll
  <2>2. ui.fromNow \in BOOLEAN /\ UiTyped'
    BY <1>3 DEF Poll, UiTyped
  <2>3. ShopInv'
    BY <2>1, <2>2, PollSound
  <2> QED
    BY <2>2, <2>3
<1>4. CASE PollFails \/ Stop \/ \E c \in Channels : Start(c)
  <2>1. UNCHANGED <<doc, gameTime, messages, fate>>
    BY <1>4 DEF PollFails, Stop, Start
  <2>2. UiTyped'
    <3>1. CASE PollFails \/ Stop
      BY <3>1 DEF PollFails, Stop, UiTyped
    <3>2. ASSUME NEW c \in Channels, Start(c) PROVE UiTyped'
      BY <3>2 DEF Start, UiTyped
    <3> QED
      BY <1>4, <3>1, <3>2
  <2>3. ShopInv'
    BY <1>1, <2>1, ChatKept
  <2> QED
    BY <2>2, <2>3
<1>5. CASE Second \/ \E l \in ToSet(Logs) : Lock(l) \/ Unlock(l)
  <2>1. UNCHANGED <<doc, messages, fate, ui>>
    BY <1>5 DEF Second, Lock, Unlock
  <2>2. gameTime' \in 0..MaxTime
    BY <1>1, <1>5 DEF Second, Lock, Unlock, ShopAssumption
  <2>3. ShopInv'
    BY <1>1, <2>1, <2>2, ChatKept
  <2> QED
    BY <2>1, <2>3 DEF UiTyped
<1>6. ASSUME NEW sender \in Senders, NEW items \in SUBSET Types, NEW channel \in Channels,
             NEW logs \in SUBSET ToSet(Logs), logs # {}, \A l \in logs : LogOf[l] = channel, Post(sender, items, logs)
      PROVE  ShopInv' /\ UiTyped'
  <2>1. ShopInv'
    BY <1>6, PostSound
  <2> QED
    BY <1>6, <2>1 DEF Post, UiTyped
<1>7. CASE DiesSaving
  <2>1. ShopInv'
    BY <1>7, DiesSound
  <2> QED
    BY <1>7, <2>1 DEF DiesSaving, UiTyped
<1>8. CASE UNCHANGED shopVars
  <2>1. UNCHANGED <<doc, gameTime, messages, fate, ui>>
    BY <1>8 DEF shopVars
  <2>2. ShopInv'
    BY <1>1, <2>1, ChatKept
  <2> QED
    BY <2>1, <2>2 DEF UiTyped
<1> QED
  BY <1>2, <1>3, <1>4, <1>5, <1>6, <1>7, <1>8 DEF ShopNext

LEMMA ShopStart == ShopAssumption /\ ShopInit => ShopInv /\ UiTyped
<1> SUFFICES ASSUME ShopAssumption, ShopInit PROVE ShopInv /\ UiTyped
  OBVIOUS
<1>1. doc = TornDoc /\ gameTime = 0 /\ messages = <<>> /\ fate = <<>>
  BY DEF ShopInit
<1>2. /\ DOMAIN fate = {} /\ DOMAIN messages = {} /\ DOMAIN doc.chat.cooldown = {} /\ doc.chat.seen = {}
      /\ doc = [lists |-> doc.lists, chat |-> doc.chat] /\ IsChat(doc.chat)
  BY <1>1, TornIs
<1>3. ShopTyped
  BY <1>1, <1>2 DEF ShopTyped, ShopAssumption
<1>4. LogsAgree /\ SeenIsSaid /\ ImportsSeen /\ CooldownsTrue /\ SilenceExplained
  BY <1>2 DEF LogsAgree, SeenIsSaid, ImportsSeen, CooldownsTrue, SilenceExplained
<1>5. UiTyped
  BY DEF ShopInit, UiTyped
<1> QED
  BY <1>3, <1>4, <1>5 DEF ShopInv

(* What ChatState remembers and what apply_cooldown and collect_candidates *)
(* decide from it: for any messages in any logs, polls by any channel and  *)
(* target, edits of the lists meanwhile, unreadable logs and crashes, no   *)
(* message is imported a second time while a poll still sees it, and no    *)
(* message is passed over without one of the reasons the code has.         *)
THEOREM CaptureAlwaysHonest ==
    ASSUME ShopAssumption
    PROVE  ShopSpec => []CaptureHonest
<1>1. ShopInit => ShopInv /\ UiTyped
  BY ShopStart
<1>2. (ShopInv /\ UiTyped) /\ [ShopNext]_shopVars => (ShopInv /\ UiTyped)'
  BY ShopStep
<1>3. ShopInv /\ UiTyped => CaptureHonest
  <2> SUFFICES ASSUME ShopInv, NEW i \in DOMAIN fate PROVE fate[i].imported <= 1
    BY DEF CaptureHonest, ImportedOnce, ShopInv
  <2> QED
    BY DEF ShopInv, ImportsSeen
<1>4. QED
  BY <1>1, <1>2, <1>3, PTL DEF ShopSpec

-----------------------------------------------------------------------------
(* Moving items between lists: of each item the lists hold a natural, and  *)
(* there are finitely many of them, so that their total can be taken.      *)
ListsTyped(lists) == IsFiniteSet(DOMAIN lists) /\ lists \in [DOMAIN lists -> [Types -> Nat]]

LEMMA TotalIs ==
    ASSUME NEW lists, ListsTyped(lists), NEW t \in Types
    PROVE  \E sum : IsSum(sum, DOMAIN lists, [id \in DOMAIN lists |-> lists[id][t]]) /\ Total(lists, t) = sum[DOMAIN lists]
<1> DEFINE D == DOMAIN lists
           f == [id \in D |-> lists[id][t]]
           Body(total) == [ids \in SUBSET D |->
                             IF ids = {} THEN 0
                             ELSE LET id == CHOOSE id \in ids : TRUE IN lists[id][t] + total[ids \ {id}]]
           sum == CHOOSE total : total = Body(total)
<1>1. Total(lists, t) = sum[D]
  BY DEF Total
<1>2. IsFiniteSet(D) /\ f \in [D -> Nat]
  BY DEF ListsTyped
<1>3. ASSUME NEW total PROVE IsSum(total, D, f) <=> total = Body(total)
  <2>1. ASSUME NEW ids \in SUBSET D, ids # {}
        PROVE  f[Some(ids)] = lists[CHOOSE id \in ids : TRUE][t]
    BY <2>1 DEF Some
  <2>2. [S \in SUBSET D |-> IF S = {} THEN 0 ELSE f[Some(S)] + total[S \ {Some(S)}]] = Body(total)
    BY <2>1 DEF Some
  <2> HIDE DEF f, Body
  <2> QED
    BY <2>2 DEF IsSum
<1> HIDE DEF f, Body
<1>4. \E total : total = Body(total)
  BY <1>2, <1>3, SumDefined
<1>5. sum = Body(sum)
  BY <1>4
<1> HIDE DEF sum
<1> QED
  BY <1>1, <1>3, <1>5 DEF f

(* What one list gives to another, the total does not see.                 *)
LEMMA GivingKeeps ==
    ASSUME NEW lists, NEW after, ListsTyped(lists), ListsTyped(after), DOMAIN after = DOMAIN lists, NEW t \in Types,
           NEW a \in DOMAIN lists, NEW b \in DOMAIN lists, a # b, lists[a][t] + lists[b][t] = after[a][t] + after[b][t],
           \A id \in DOMAIN lists : id \notin {a, b} => after[id][t] = lists[id][t]
    PROVE  Total(after, t) = Total(lists, t)
<1> DEFINE D == DOMAIN lists
           f == [id \in D |-> lists[id][t]]
           g == [id \in D |-> after[id][t]]
<1>1. PICK sum : IsSum(sum, D, f) /\ Total(lists, t) = sum[D]
  BY TotalIs
<1>2. PICK other : IsSum(other, D, g) /\ Total(after, t) = other[D]
  BY TotalIs
<1>3. IsFiniteSet(D) /\ f \in [D -> Nat] /\ g \in [D -> Nat]
  BY DEF ListsTyped
<1>4. f[a] + f[b] = g[a] + g[b] /\ \A x \in D : x \notin {a, b} => f[x] = g[x]
  OBVIOUS
<1> HIDE DEF f, g
<1>5. sum[D] = other[D]
  BY <1>1, <1>2, <1>3, <1>4, SumKept
<1> QED
  BY <1>1, <1>2, <1>5

(* What is added to a list, and what a command leaves.                     *)
LEMMA AddTyped ==
    ASSUME ShopAssumption, NEW list \in [Types -> Nat], NEW t \in Types, NEW q \in Nat
    PROVE  /\ Add(list, t, q) \in [Types -> Nat]
           /\ \A u \in Types \ {t} : Add(list, t, q)[u] = list[u]
           /\ list[t] + q <= MaxQuantity => Add(list, t, q)[t] = list[t] + q
BY DEF Add, ShopAssumption

LEMMA SeenTyped == ListsTyped(doc.lists) => ListsTyped(Lists) /\ Builtin \subseteq DOMAIN Lists
<1> SUFFICES ASSUME ListsTyped(doc.lists) PROVE ListsTyped(Lists) /\ Builtin \subseteq DOMAIN Lists
  OBVIOUS
<1>1. IsFiniteSet(DOMAIN doc.lists \cup Builtin)
  <2>1. IsFiniteSet({<<"default", 1>>}) /\ IsFiniteSet({<<"production", 1>>})
    BY FS_Singleton
  <2>2. Builtin = {<<"default", 1>>} \cup {<<"production", 1>>}
    BY DEF Builtin
  <2> QED
    BY <2>1, <2>2, FS_Union DEF ListsTyped
<1>2. NoItems \in [Types -> Nat]
  BY DEF NoItems
<1> QED
  BY <1>1, <1>2 DEF ListsTyped, Lists

LEMMA SavedLists ==
    ASSUME NEW lists, ListsTyped(lists), Builtin \subseteq DOMAIN lists, doc'.lists = lists
    PROVE  Lists' = lists
BY DEF Lists, ListsTyped

(* One update of a quantity; a list is typed however many there are, but   *)
(* the commands of the panel send one.                                     *)
LEMMA SetTyped ==
    ASSUME NEW list \in [Types -> Nat], NEW t \in Types, NEW q \in Int
    PROVE  SetQuantities(list, <<<<t, q>>>>) \in [Types -> Nat]
<1> DEFINE updates == <<<<t, q>>>>
           Body(set) == [n \in 0..Len(updates) |->
                           IF n = 0 THEN list
                           ELSE [set[n - 1] EXCEPT ![updates[n][1]] = IF updates[n][2] <= 0 THEN 0 ELSE updates[n][2]]]
           set == CHOOSE set : set = Body(set)
           once == [list EXCEPT ![t] = IF q <= 0 THEN 0 ELSE q]
           both == [n \in 0..1 |-> IF n = 0 THEN list ELSE once]
<1>1. SetQuantities(list, updates) = set[Len(updates)]
  BY DEF SetQuantities
<1>2. Len(updates) = 1 /\ updates[1][1] = t /\ updates[1][2] = q
  OBVIOUS
<1>3. ASSUME NEW h PROVE Body(h) = [n \in 0..1 |-> IF n = 0 THEN list ELSE [h[n - 1] EXCEPT ![updates[n][1]] = IF updates[n][2] <= 0 THEN 0 ELSE updates[n][2]]]
  BY <1>2
<1> HIDE DEF updates, Body
<1>4. ASSUME NEW h PROVE DOMAIN Body(h) = 0..1 /\ Body(h)[0] = list /\ Body(h)[1] = [h[0] EXCEPT ![t] = IF q <= 0 THEN 0 ELSE q]
  <2>1. 0 \in 0..1 /\ 1 \in 0..1 /\ 1 # 0 /\ 1 - 1 = 0
    OBVIOUS
  <2> QED
    BY <1>2, <1>3, <2>1
<1>5. both = Body(both)
  <2>1. both[0] = list /\ both[1] = once
    OBVIOUS
  <2> DEFINE Step(n) == [both[n - 1] EXCEPT ![updates[n][1]] = IF updates[n][2] <= 0 THEN 0 ELSE updates[n][2]]
  <2>2. \A n \in 0..1 : n # 0 => Step(n) = once
    <3>1. Step(1) = once
      BY <1>2, <2>1
    <3>2. \A n \in 0..1 : n # 0 => n = 1
      OBVIOUS
    <3> HIDE DEF Step
    <3> QED
      BY <3>1, <3>2
  <2>3. Body(both) = [n \in 0..1 |-> IF n = 0 THEN list ELSE Step(n)]
    BY <1>3
  <2> HIDE DEF Step, once
  <2> QED
    BY <2>2, <2>3
<1>6. set = Body(set)
  BY <1>5
<1> HIDE DEF set
<1>7. set[1] = once
  BY <1>4, <1>6
<1>8. once \in [Types -> Nat]
  OBVIOUS
<1> HIDE DEF once
<1> QED
  BY <1>1, <1>2, <1>7, <1>8 DEF updates

LEMMA SavesLists ==
    ASSUME doc = [lists |-> doc.lists, chat |-> doc.chat], NEW lists, SaveLists(lists)
    PROVE  doc'.lists = lists
<1>1. doc' = [lists |-> lists, chat |-> doc.chat]
  BY DEF SaveLists, Save
<1> QED
  BY <1>1

(* MoveItem with a target, and MoveItems: the lists they save, and what    *)
(* they hold together.                                                     *)
LEMMA MoveItemKeeps ==
    ASSUME ShopAssumption, ShopInv, ListsTyped(doc.lists), NEW from, NEW to, NEW t \in Types, MoveItem(from, to, t, 1)
    PROVE  /\ ListsTyped(doc'.lists)
           /\ RoomToMove => \A u \in Types : Total(Lists', u) = Total(Lists, u)
<1> DEFINE there == Lists[from][t]
           moved == IF 1 > 0 /\ 1 < there THEN 1 ELSE there
           given == [Lists EXCEPT ![from][t] = @ - moved]
           after == [given EXCEPT ![to] = Add(@, t, moved)]
<1>1. ListsTyped(Lists) /\ Builtin \subseteq DOMAIN Lists
  BY SeenTyped
<1>2. from \in DOMAIN Lists /\ from # to /\ Lists[from][t] > 0
  BY DEF MoveItem
<1>3. there \in Nat /\ moved \in Nat /\ moved <= there
  BY <1>1, <1>2 DEF ListsTyped
<1> HIDE DEF moved
<1>4. CASE to \in DOMAIN Lists
  <2>1. doc'.lists = after
    <3>1. SaveLists(after)
      BY <1>4 DEF MoveItem, moved
    <3> HIDE DEF after
    <3> QED
      BY <3>1, SavesLists DEF ShopInv, ShopTyped
  <2>2. given \in [DOMAIN Lists -> [Types -> Nat]]
    BY <1>1, <1>2, <1>3 DEF ListsTyped
  <2>3. given[to] = Lists[to] /\ given[from] = [Lists[from] EXCEPT ![t] = @ - moved]
        /\ \A id \in DOMAIN Lists \ {from} : given[id] = Lists[id]
    BY <1>1, <1>2, <1>4 DEF ListsTyped
  <2> HIDE DEF given
  <2>4. /\ Add(Lists[to], t, moved) \in [Types -> Nat]
        /\ \A u \in Types \ {t} : Add(Lists[to], t, moved)[u] = Lists[to][u]
        /\ Lists[to][t] + moved <= MaxQuantity => Add(Lists[to], t, moved)[t] = Lists[to][t] + moved
    <3>1. Lists[to] \in [Types -> Nat]
      BY <1>1, <1>4 DEF ListsTyped
    <3> QED
      BY <1>3, <3>1, AddTyped
  <2>5. /\ after[to] = Add(Lists[to], t, moved)
        /\ \A id \in DOMAIN Lists \ {to} : after[id] = given[id]
        /\ DOMAIN after = DOMAIN Lists
    BY <1>4, <2>2, <2>3
  <2>6. ListsTyped(after)
    <3>1. after \in [DOMAIN Lists -> [Types -> Nat]]
      BY <2>2, <2>3, <2>4
    <3> HIDE DEF after
    <3> QED
      BY <1>1, <3>1 DEF ListsTyped
  <2> HIDE DEF after
  <2>7. Lists' = after
    BY <1>1, <2>1, <2>5, <2>6, SavedLists
  <2>8. ASSUME RoomToMove, NEW u \in Types PROVE Total(after, u) = Total(Lists, u)
    <3>1. Lists[from] \in [Types -> Nat] /\ Lists[to] \in [Types -> Nat]
      BY <1>1, <1>2, <1>4 DEF ListsTyped
    <3>2. after[from] = [Lists[from] EXCEPT ![t] = @ - moved]
      BY <1>2, <2>3, <2>5
    <3>3. Lists[from][u] + Lists[to][u] = after[from][u] + after[to][u]
      <4>1. CASE u = t
        <5>1. Lists[to][t] + moved <= MaxQuantity
          <6>1. Lists[from][t] + Lists[to][t] <= MaxQuantity
            BY <1>2, <1>4, <2>8 DEF RoomToMove
          <6> QED
            BY <1>3, <3>1, <6>1 DEF ShopAssumption
        <5>2. after[to][t] = Lists[to][t] + moved /\ after[from][t] = Lists[from][t] - moved
          BY <2>4, <2>5, <3>1, <3>2, <5>1
        <5> QED
          BY <1>3, <3>1, <4>1, <5>2
      <4>2. CASE u # t
        <5>1. after[to][u] = Lists[to][u] /\ after[from][u] = Lists[from][u]
          BY <2>4, <2>5, <3>1, <3>2, <4>2
        <5> QED
          BY <3>1, <5>1
      <4> QED
        BY <4>1, <4>2
    <3>4. \A id \in DOMAIN Lists : id \notin {from, to} => after[id][u] = Lists[id][u]
      BY <2>3, <2>5
    <3> QED
      BY <1>1, <1>2, <1>4, <2>5, <2>6, <3>3, <3>4, GivingKeeps
  <2> QED
    BY <2>1, <2>6, <2>7, <2>8
<1>5. CASE to \notin DOMAIN Lists
  <2>1. doc' = doc
    BY <1>5 DEF MoveItem
  <2>2. Lists' = Lists
    BY <2>1 DEF Lists
  <2> QED
    BY <2>1, <2>2
<1> QED
  BY <1>4, <1>5

LEMMA MoveItemsKeeps ==
    ASSUME ShopAssumption, ShopInv, ListsTyped(doc.lists), NEW from, NEW to, NEW types \in SUBSET Types,
           MoveItems(from, to, types)
    PROVE  /\ ListsTyped(doc'.lists)
           /\ RoomToMove => \A u \in Types : Total(Lists', u) = Total(Lists, u)
<1> DEFINE after == MoveAll(Lists, from, to, types)
           L == Lists
           source == [t \in Types |-> IF t \in types THEN 0 ELSE L[from][t]]
           target == [t \in Types |-> IF t \in types THEN Add(L[to], t, L[from][t])[t] ELSE L[to][t]]
<1>1. ListsTyped(L) /\ Builtin \subseteq DOMAIN L
  BY SeenTyped
<1>2. from \in DOMAIN L /\ to \in DOMAIN L /\ from # to /\ SaveLists(after)
  BY DEF MoveItems
<1>3. doc'.lists = after
  <2> HIDE DEF after
  <2> QED
    BY <1>2, SavesLists DEF ShopInv, ShopTyped
<1> HIDE DEF L
<1>4. L[from] \in [Types -> Nat] /\ L[to] \in [Types -> Nat]
  BY <1>1, <1>2 DEF ListsTyped
<1>5. after = [id \in DOMAIN L |-> IF id = to THEN target ELSE IF id = from THEN source ELSE L[id]]
  BY <1>1, <1>2 DEF MoveAll, ListsTyped, L
<1>6. ASSUME NEW t \in Types
      PROVE  /\ Add(L[to], t, L[from][t])[t] \in Nat
             /\ L[to][t] + L[from][t] <= MaxQuantity => Add(L[to], t, L[from][t])[t] = L[to][t] + L[from][t]
  BY <1>4, AddTyped
<1>7. source \in [Types -> Nat] /\ target \in [Types -> Nat]
  BY <1>4, <1>6
<1> HIDE DEF source, target, after
<1>8. ListsTyped(after) /\ DOMAIN after = DOMAIN L
  BY <1>1, <1>5, <1>7 DEF ListsTyped
<1>9. Lists' = after
  BY <1>1, <1>3, <1>8, SavedLists
<1>10. ASSUME RoomToMove, NEW u \in Types PROVE Total(after, u) = Total(L, u)
  <2>1. after[from] = source /\ after[to] = target /\ \A id \in DOMAIN L : id \notin {from, to} => after[id] = L[id]
    BY <1>2, <1>5
  <2>2. L[from][u] + L[to][u] <= MaxQuantity
    BY <1>2, <1>10 DEF RoomToMove, L
  <2>3. L[from][u] + L[to][u] = source[u] + target[u]
    <3>1. L[to][u] + L[from][u] <= MaxQuantity /\ L[from][u] \in Nat /\ L[to][u] \in Nat
      BY <1>4, <2>2
    <3>2. CASE u \in types
      <4>1. source[u] = 0 /\ target[u] = L[to][u] + L[from][u]
        BY <1>6, <3>1, <3>2 DEF source, target
      <4> QED
        BY <3>1, <4>1
    <3>3. CASE u \notin types
      BY <3>1, <3>3 DEF source, target
    <3> QED
      BY <3>2, <3>3
  <2> QED
    BY <1>1, <1>2, <1>8, <2>1, <2>3, GivingKeeps
<1> QED
  BY <1>3, <1>8, <1>9, <1>10 DEF L

(* A poll takes finitely many posts of an item.                            *)
LEMMA TakenFinite ==
    ASSUME ShopInv, NEW ch, NEW t
    PROVE  Cardinality({x \in Taken(ch) : x[2][2] = t}) \in Nat
<1> DEFINE X == {x \in Taken(ch) : x[2][2] = t}
           f == [x \in X |-> x[1]]
<1>1. ASSUME NEW x \in X
      PROVE  x[1] \in DOMAIN messages /\ x = <<x[1], <<messages[x[1]].sender, t>>>>
  <2>1. x \in Fresh(ch) \X Posted(ch) /\ x[1] \in Posts(ch, x[2]) /\ x[2][2] = t
    BY DEF Taken
  <2>2. x = <<x[1], x[2]>> /\ x[2] \in Senders \X Types /\ x[1] \in Union(ch)
    BY <2>1 DEF Posted, Fresh
  <2>3. x[2] = <<x[2][1], x[2][2]>> /\ messages[x[1]].sender = x[2][1]
    BY <2>1, <2>2 DEF Posts
  <2>4. x[1] \in DOMAIN messages
    BY <2>2, UnionIs DEF ShopInv
  <2> QED
    BY <2>1, <2>2, <2>3, <2>4
<1> HIDE DEF X
<1>2. f \in Injection(X, DOMAIN messages)
  <2>1. f \in [X -> DOMAIN messages]
    BY <1>1
  <2>2. \A x, y \in X : f[x] = f[y] => x = y
    BY <1>1
  <2> QED
    BY <2>1, <2>2 DEF Injection, IsInjective
<1>3. IsFiniteSet(DOMAIN messages)
  <2>1. DOMAIN messages = 1..Len(messages) /\ Len(messages) \in Nat
    BY DEF ShopInv, ShopTyped
  <2> QED
    BY <2>1, FS_Interval
<1>4. IsFiniteSet(X)
  BY <1>2, <1>3, FS_Injection
<1> QED
  BY <1>4, FS_CardinalityType DEF X

LEMMA PollTyped ==
    ASSUME ShopAssumption, ShopInv, ListsTyped(doc.lists), NEW ch, NEW fromNow \in BOOLEAN, NEW target,
           ChatSync(ch, fromNow, target)
    PROVE  ListsTyped(doc'.lists)
<1> DEFINE lists == IF target = ChatList /\ target \notin DOMAIN Lists
                    THEN [i \in DOMAIN Lists \cup {target} |-> IF i = target THEN NoItems ELSE Lists[i]]
                    ELSE Lists
           counted(t) == Cardinality({x \in Taken(ch) : x[2][2] = t})
           list == [t \in Types |-> Add(lists[target], t, counted(t))[t]]
           filled == [lists EXCEPT ![target] = [t \in Types |-> Add(@, t, counted(t))[t]]]
<1>1. ListsTyped(Lists)
  BY SeenTyped
<1>2. ListsTyped(lists)
  <2>1. NoItems \in [Types -> Nat]
    BY DEF NoItems
  <2>2. IsFiniteSet(DOMAIN Lists \cup {target})
    BY <1>1, FS_AddElement DEF ListsTyped
  <2>3. CASE target = ChatList /\ target \notin DOMAIN Lists
    <3>1. lists \in [DOMAIN Lists \cup {target} -> [Types -> Nat]]
      BY <1>1, <2>1, <2>3 DEF ListsTyped
    <3> HIDE DEF lists
    <3> QED
      BY <2>2, <3>1 DEF ListsTyped
  <2>4. CASE ~(target = ChatList /\ target \notin DOMAIN Lists)
    <3>1. lists = Lists
      BY <2>4
    <3> QED
      BY <1>1, <3>1
  <2> QED
    BY <2>3, <2>4
<1>3. CASE target \notin DOMAIN lists
  BY <1>3 DEF ChatSync
<1>4. CASE target \in DOMAIN lists
  <2>1. doc' = doc \/ doc'.lists = lists \/ doc'.lists = filled
    <3>1. \/ doc' = doc
          \/ \E chat : doc' = [lists |-> lists, chat |-> chat]
          \/ \E chat : doc' = [lists |-> filled, chat |-> chat]
      BY <1>4, Zenon DEF ChatSync, Save
    <3> HIDE DEF lists, filled
    <3> QED
      BY <3>1
  <2> HIDE DEF lists
  <2>2. lists[target] \in [Types -> Nat] /\ lists \in [DOMAIN lists -> [Types -> Nat]] /\ IsFiniteSet(DOMAIN lists)
    BY <1>2, <1>4 DEF ListsTyped
  <2>3. \A t \in Types : counted(t) \in Nat
    BY TakenFinite
  <2>4. filled = [lists EXCEPT ![target] = list]
    BY <1>4
  <2> HIDE DEF filled, counted
  <2>5. list \in [Types -> Nat]
    <3>1. \A t \in Types : Add(lists[target], t, counted(t)) \in [Types -> Nat]
      BY <2>2, <2>3, AddTyped
    <3> QED
      BY <3>1
  <2> HIDE DEF list
  <2>6. filled \in [DOMAIN lists -> [Types -> Nat]]
    BY <2>2, <2>4, <2>5
  <2>7. ListsTyped(filled)
    BY <2>2, <2>6 DEF ListsTyped
  <2> QED
    BY <1>2, <2>1, <2>7
<1> QED
  BY <1>3, <1>4

LEMMA EditsTyped ==
    ASSUME ShopAssumption, ShopInv, ListsTyped(doc.lists), Edits
    PROVE  ListsTyped(doc'.lists)
<1> DEFINE L == Lists
<1>1. ListsTyped(L)
  BY SeenTyped
<1>2. NoItems \in [Types -> Nat]
  BY DEF NoItems
<1>3. ASSUME NEW lists, SaveLists(lists), ListsTyped(lists) PROVE ListsTyped(doc'.lists)
  BY <1>3, SavesLists DEF ShopInv, ShopTyped
<1>4. ASSUME NEW id \in DOMAIN L, NEW list \in [Types -> Nat] PROVE ListsTyped([L EXCEPT ![id] = list])
  <2>1. [L EXCEPT ![id] = list] \in [DOMAIN L -> [Types -> Nat]]
    BY <1>1 DEF ListsTyped
  <2> DEFINE new == [L EXCEPT ![id] = list]
  <2> HIDE DEF L, new
  <2> QED
    BY <1>1, <2>1 DEF ListsTyped, new
<1>5. ASSUME NEW b, CreateList(b) PROVE ListsTyped(doc'.lists)
  <2> DEFINE id == SlugId(b, DOMAIN L)
             new == [i \in DOMAIN L \cup {id} |-> IF i = id THEN NoItems ELSE L[i]]
  <2>1. SaveLists(new)
    BY <1>5 DEF CreateList
  <2> HIDE DEF id, L
  <2>2. new \in [DOMAIN L \cup {id} -> [Types -> Nat]] /\ IsFiniteSet(DOMAIN L \cup {id})
    BY <1>1, <1>2, FS_AddElement DEF ListsTyped
  <2> HIDE DEF new
  <2> QED
    BY <1>3, <2>1, <2>2 DEF ListsTyped
<1>6. ASSUME NEW id, DeleteList(id) PROVE ListsTyped(doc'.lists)
  <2> DEFINE new == [i \in DOMAIN L \ {id} |-> L[i]]
  <2>1. SaveLists(new)
    BY <1>6 DEF DeleteList
  <2> HIDE DEF L
  <2>2. new \in [DOMAIN L \ {id} -> [Types -> Nat]] /\ IsFiniteSet(DOMAIN L \ {id})
    BY <1>1, FS_RemoveElement DEF ListsTyped
  <2> HIDE DEF new
  <2> QED
    BY <1>3, <2>1, <2>2 DEF ListsTyped
<1>7. ASSUME NEW id, ClearList(id) PROVE ListsTyped(doc'.lists)
  <2>1. id \in DOMAIN L /\ SaveLists([L EXCEPT ![id] = NoItems])
    BY <1>7 DEF ClearList
  <2> HIDE DEF L
  <2> QED
    BY <1>2, <1>3, <1>4, <2>1
<1>8. ASSUME NEW id, NEW t \in Types, AddItem(id, t, 2) PROVE ListsTyped(doc'.lists)
  <2>1. id \in DOMAIN L /\ SaveLists([L EXCEPT ![id] = Add(L[id], t, 2)])
    BY <1>8 DEF AddItem
  <2> HIDE DEF L
  <2>2. Add(L[id], t, 2) \in [Types -> Nat]
    BY <1>1, <2>1, AddTyped DEF ListsTyped
  <2> QED
    BY <1>3, <1>4, <2>1, <2>2
<1>9. ASSUME NEW id, NEW t \in Types, SetQuantity(id, t, 0) PROVE ListsTyped(doc'.lists)
  <2>1. id \in DOMAIN L /\ SaveLists([L EXCEPT ![id] = SetQuantities(L[id], <<<<t, 0>>>>)])
    BY <1>9 DEF SetQuantity
  <2> HIDE DEF L
  <2>2. SetQuantities(L[id], <<<<t, 0>>>>) \in [Types -> Nat]
    BY <1>1, <2>1, SetTyped DEF ListsTyped
  <2> QED
    BY <1>3, <1>4, <2>1, <2>2
<1>10. ASSUME NEW id, NEW t \in Types, RemoveItem(id, t) PROVE ListsTyped(doc'.lists)
  <2>1. id \in DOMAIN L /\ SaveLists([L EXCEPT ![id] = [L[id] EXCEPT ![t] = 0]])
    BY <1>10 DEF RemoveItem
  <2> HIDE DEF L
  <2>2. [L[id] EXCEPT ![t] = 0] \in [Types -> Nat]
    BY <1>1, <2>1 DEF ListsTyped
  <2> QED
    BY <1>3, <1>4, <2>1, <2>2
<1>11. ASSUME Moves PROVE ListsTyped(doc'.lists)
  BY <1>11, MoveItemKeeps, MoveItemsKeeps DEF Moves
<1> QED
  BY <1>5, <1>6, <1>7, <1>8, <1>9, <1>10, <1>11 DEF Edits

ListsInv == ShopInv /\ UiTyped /\ ListsTyped(doc.lists)

LEMMA ListsStep ==
    ASSUME ShopAssumption, ListsInv, [ShopNext]_shopVars
    PROVE  ListsInv'
<1>1. ShopInv' /\ UiTyped'
  BY ShopStep DEF ListsInv
<1>2. ListsTyped(doc.lists)'
  <2>1. CASE Edits
    BY <2>1, EditsTyped DEF ListsInv
  <2>2. ASSUME NEW target, Poll(target) PROVE ListsTyped(doc'.lists)
    <3>1. ChatSync(ui.channel, ui.fromNow, target) /\ ui.fromNow \in BOOLEAN
      BY <2>2 DEF Poll, ListsInv, UiTyped
    <3> QED
      BY <3>1, PollTyped DEF ListsInv
  <2>3. CASE DiesSaving
    <3>1. doc'.lists = <<>>
      BY <2>3 DEF DiesSaving, TornDoc
    <3>2. IsFiniteSet(DOMAIN <<>>) /\ <<>> \in [DOMAIN <<>> -> [Types -> Nat]]
      <4>1. DOMAIN <<>> = {}
        OBVIOUS
      <4> QED
        BY <4>1, FS_EmptySet
    <3> QED
      BY <3>1, <3>2 DEF ListsTyped
  <2>4. CASE doc' = doc
    BY <2>4 DEF ListsInv
  <2>5. \/ PollFails \/ Stop \/ Second \/ UNCHANGED shopVars
        \/ \E c : Start(c)
        \/ \E s, items, logs : Post(s, items, logs)
        \/ \E l : Lock(l) \/ Unlock(l)
        => doc' = doc
    BY DEF PollFails, Stop, Second, shopVars, Start, Post, Lock, Unlock
  <2> QED
    BY <2>1, <2>2, <2>3, <2>4, <2>5, Zenon DEF ShopNext
<1> QED
  BY <1>1, <1>2 DEF ListsInv

LEMMA ListsStart == ShopAssumption /\ ShopInit => ListsInv
<1> SUFFICES ASSUME ShopAssumption, ShopInit PROVE ListsInv
  OBVIOUS
<1>1. ShopInv /\ UiTyped
  BY ShopStart
<1>2. doc.lists = <<>>
  BY DEF ShopInit, TornDoc
<1>3. DOMAIN <<>> = {}
  OBVIOUS
<1>4. ListsTyped(<<>>)
  BY <1>3, FS_EmptySet DEF ListsTyped
<1> QED
  BY <1>1, <1>2, <1>4 DEF ListsInv

(* shopping_move_item and shopping_move_items: for any lists, items and    *)
(* edits, polls and crashes in between, no move loses or makes anything,   *)
(* as long as what two lists hold of an item fits in a quantity.           *)
THEOREM MovesAlwaysConserve ==
    ASSUME ShopAssumption
    PROVE  ShopSpec /\ []RoomToMove => MovesConserve
<1>1. ShopInit => ListsInv
  BY ListsStart
<1>2. ListsInv /\ [ShopNext]_shopVars => ListsInv'
  BY ListsStep
<1>3. ListsInv /\ RoomToMove => [MovesKeep]_shopVars
  <2> SUFFICES ASSUME ListsInv, RoomToMove, Moves PROVE \A t \in Types : Total(Lists', t) = Total(Lists, t)
    BY DEF MovesKeep
  <2> QED
    BY MoveItemKeeps, MoveItemsKeeps DEF Moves, ListsInv
<1>4. QED
  BY <1>1, <1>2, <1>3, PTL DEF ShopSpec, MovesConserve

=============================================================================
