----------------------------- MODULE McpBridge -----------------------------
(* The MCP bridge (mcp/mod.rs): a local HTTP server with a token of its own
   that agents find through a discovery file.  Its commands are synchronous:
   the main thread runs one at a time, and a stop holds it until the serving
   thread has ended.  A server is named by its token, counted from 1; a crash
   of the application leaves the files.                                     *)
EXTENDS Naturals, FiniteSets

CONSTANTS Ports,        \* what mcp_port may hold, AutoPort among them
          AutoPort,     \* port 0: the system picks one
          NoFile, Torn, \* no discovery file, and one that was cut off
          MaxServers, MaxFaults

VARIABLES bridge,    \* McpState::running: the server's token and port, None when off
          thread,    \* each server's thread: "poll", "wait", "read", "call", "answer" or "ended"
          tool,      \* what it calls: "none", "open" or "dev"
          stopFlag,  \* the servers told to stop
          discovery, \* <app_data_dir>/mcp.json
          port, autostart, devTier,  \* the saved configuration
          main,      \* what the main thread runs: "idle", "join" or "rejoin"
          up,        \* is the application running?
          servers, faults

mVars == <<bridge, thread, tool, stopFlag, discovery, port, autostart, devTier, main, up, servers, faults>>
config == <<port, autostart, devTier>>

None == [token |-> 0, port |-> AutoPort]
Tokens == 1..MaxServers

BridgeAssumption == MaxServers \in Nat /\ {NoFile, Torn} \cap Tokens = {}

Alive(t) == thread[t] # "ended"

McpInit ==
  /\ bridge = None
  /\ thread = [t \in Tokens |-> "ended"]
  /\ tool = [t \in Tokens |-> "none"]
  /\ stopFlag = {}
  /\ discovery = NoFile
  /\ port \in Ports /\ autostart \in BOOLEAN /\ devTier = FALSE
  /\ main = "idle" /\ up = FALSE
  /\ servers = 0 /\ faults = 0

Fault == faults < MaxFaults /\ faults' = faults + 1

(* The file is created or emptied before the text is written.              *)
WriteDiscovery(t, old) ==
  \/ discovery' = t /\ UNCHANGED faults
  \/ Fault /\ discovery' \in {old, Torn}

(* Bind, write the file (a failure is logged), spawn the thread.           *)
Launch(p, old) ==
  /\ servers < MaxServers
  /\ servers' = servers + 1
  /\ bridge' = [token |-> servers + 1, port |-> p]
  /\ thread' = [thread EXCEPT ![servers + 1] = "poll"]
  /\ WriteDiscovery(servers + 1, old)

(* The port is taken.                                                      *)
BindFails(old) == bridge' = None /\ discovery' = old /\ UNCHANGED <<thread, servers, faults>>

(* McpState::start: what runs already is left as it is.                    *)
StartServer(p) ==
  IF bridge # None THEN UNCHANGED <<bridge, thread, discovery, servers, faults>>
  ELSE Launch(p, discovery) \/ BindFails(discovery)

Setup ==
  /\ ~up /\ up' = TRUE
  /\ IF autostart THEN StartServer(port) ELSE UNCHANGED <<bridge, thread, discovery, servers, faults>>
  /\ UNCHANGED <<tool, stopFlag, config, main>>

McpStart ==
  /\ up /\ main = "idle"
  /\ StartServer(port)
  /\ UNCHANGED <<tool, stopFlag, config, main, up>>

(* McpState::stop takes the server, sets its flag and joins its thread with
   the lock held.                                                           *)
AskToStop(then) ==
  /\ bridge # None
  /\ stopFlag' = stopFlag \cup {bridge.token}
  /\ main' = then
  /\ UNCHANGED bridge

McpStop ==
  /\ up /\ main = "idle" /\ AskToStop("join")
  /\ UNCHANGED <<thread, tool, discovery, config, up, servers, faults>>

(* Mutants: the command does not wait; the file stays.                      *)
NotJoined == TRUE
KeepDiscovery == discovery

Joined == ~Alive(bridge.token)
RemoveDiscovery == NoFile

Stopped ==
  /\ main = "join" /\ Joined
  /\ bridge' = None
  /\ discovery' = RemoveDiscovery
  /\ main' = "idle"
  /\ UNCHANGED <<thread, tool, stopFlag, config, up, servers, faults>>

(* Mutant: the server that runs keeps its port.                            *)
SetPortOnly(p) ==
  /\ up /\ main = "idle"
  /\ port' = p
  /\ UNCHANGED <<bridge, thread, tool, stopFlag, discovery, autostart, devTier, main, up, servers, faults>>

(* A failed save changes nothing; a running server is restarted.           *)
SetPort(p) ==
  /\ up /\ main = "idle"
  /\ port' = p
  /\ IF bridge # None THEN AskToStop("rejoin") ELSE UNCHANGED <<bridge, stopFlag, main>>
  /\ UNCHANGED <<thread, tool, discovery, autostart, devTier, up, servers, faults>>

Restarted ==
  /\ main = "rejoin" /\ Joined
  /\ main' = "idle"
  /\ Launch(port, RemoveDiscovery) \/ BindFails(RemoveDiscovery)
  /\ UNCHANGED <<tool, stopFlag, config, up>>

SetAutostart ==
  /\ up /\ main = "idle"
  /\ autostart' = ~autostart
  /\ UNCHANGED <<bridge, thread, tool, stopFlag, discovery, port, devTier, main, up, servers, faults>>

SetDevTier ==
  /\ up /\ main = "idle"
  /\ devTier' = ~devTier
  /\ UNCHANGED <<bridge, thread, tool, stopFlag, discovery, port, autostart, main, up, servers, faults>>

---------------------------------------------------------------------------
(* serve, on the server's own thread                                       *)

threadOnly == <<bridge, stopFlag, discovery, config, main, up, servers, faults>>

(* Mutant: the flag is looked at only when no request is waiting.          *)
LookAlways(t) ==
  /\ thread[t] = "poll"
  /\ thread' = [thread EXCEPT ![t] = "wait"]
  /\ UNCHANGED <<tool, threadOnly>>

(* One turn of the loop looks at the flag, waits a second for a request ... *)
Look(t) ==
  /\ thread[t] = "poll" /\ t \notin stopFlag
  /\ thread' = [thread EXCEPT ![t] = "wait"]
  /\ UNCHANGED <<tool, threadOnly>>

NoRequest(t) ==
  /\ thread[t] = "wait"
  /\ thread' = [thread EXCEPT ![t] = "poll"]
  /\ UNCHANGED <<tool, threadOnly>>

(* ... and takes one; one without the server's token is refused unread.    *)
Receive(t) ==
  /\ thread[t] = "wait"
  /\ \E next \in {"read", "answer"} : thread' = [thread EXCEPT ![t] = next]
  /\ UNCHANGED <<tool, threadOnly>>

(* The client has sent the whole body.  call_tool reads the dev tier now;
   what does not parse, or calls no tool, is answered at once.              *)
ReadBody(t) ==
  /\ thread[t] = "read"
  /\ \/ /\ \E k \in {"open"} \cup (IF devTier THEN {"dev"} ELSE {}) : tool' = [tool EXCEPT ![t] = k]
        /\ thread' = [thread EXCEPT ![t] = "call"]
     \/ /\ thread' = [thread EXCEPT ![t] = "answer"]
        /\ UNCHANGED tool
  /\ UNCHANGED threadOnly

CallEnds(t) ==
  /\ thread[t] = "call"
  /\ thread' = [thread EXCEPT ![t] = "answer"]
  /\ tool' = [tool EXCEPT ![t] = "none"]
  /\ UNCHANGED threadOnly

(* The client has taken the answer, or hung up.                            *)
Respond(t) ==
  /\ thread[t] = "answer"
  /\ thread' = [thread EXCEPT ![t] = "poll"]
  /\ UNCHANGED <<tool, threadOnly>>

SeesStop(t) ==
  /\ thread[t] = "poll" /\ t \in stopFlag
  /\ thread' = [thread EXCEPT ![t] = "ended"]
  /\ UNCHANGED <<tool, threadOnly>>

(* An error of the listener ends the thread; nobody is told.               *)
ListenerFails(t) ==
  /\ thread[t] = "wait" /\ Fault
  /\ thread' = [thread EXCEPT ![t] = "ended"]
  /\ UNCHANGED <<bridge, tool, stopFlag, discovery, config, main, up, servers>>

(* The application quits, or crashes while its main thread waits: mcp.json
   stays.                                                                   *)
Quit ==
  /\ up /\ up' = FALSE
  /\ IF main = "idle" THEN UNCHANGED faults ELSE Fault
  /\ bridge' = None /\ main' = "idle"
  /\ thread' = [t \in Tokens |-> "ended"]
  /\ tool' = [t \in Tokens |-> "none"]
  /\ UNCHANGED <<stopFlag, discovery, config, servers>>

Serve(t) ==
  Look(t) \/ NoRequest(t) \/ Receive(t) \/ ReadBody(t) \/ CallEnds(t) \/ Respond(t) \/ SeesStop(t)

McpNext ==
  \/ Setup \/ McpStart \/ McpStop \/ Stopped \/ Restarted
  \/ SetAutostart \/ SetDevTier \/ Quit
  \/ \E p \in Ports : SetPort(p)
  \/ \E t \in Tokens : Serve(t) \/ ListenerFails(t)

(* The loop waits for a second at most and looks at its flag, a tool call ends
   (a plugin has a deadline, a request a timeout), and so does the command that
   waits.  A client may take for ever to send its body or to take its answer:
   neither has a timeout.                                                    *)
McpFairness ==
  /\ \A t \in Tokens : WF_mVars(NoRequest(t)) /\ WF_mVars(CallEnds(t)) /\ WF_mVars(SeesStop(t))
  /\ WF_mVars(Stopped) /\ WF_mVars(Restarted)

McpSpec == McpInit /\ [][McpNext]_mVars /\ McpFairness

---------------------------------------------------------------------------
(* A token is good for one server only: once the command that stopped or
   replaced it has returned, and whatever was being served then, no request
   of an agent that holds it is served any more.                            *)
RetiredTokenIsDead == \A t \in Tokens : Alive(t) => up /\ bridge.token = t

(* While no command runs, the server that runs is on the configured port.
   As long as no file operation failed, mcp.json names it; without one, the
   file may still name a server that went down with the application, but
   never one that the user stopped.                                         *)
DiscoveryTrue ==
  up /\ main = "idle" =>
    /\ bridge # None => bridge.port = port
    /\ faults = 0 => IF bridge # None THEN discovery = bridge.token
                     ELSE discovery \notin stopFlag

BridgeHonest == RetiredTokenIsDead /\ DiscoveryTrue

Stopping == main \in {"join", "rejoin"}

WithClient(t) == thread[t] \in {"read", "answer"}

(* A stop returns, although it waits with the lock held for the thread that
   serves a call, unless the client of that call stalls for good: nothing
   else of what is served keeps it (McpState::stop, serve).                 *)
StopReturns == Stopping ~> (~Stopping \/ [](Stopping /\ WithClient(bridge.token)))

=============================================================================
