--------------------------- MODULE RestartGateway ---------------------------
(***************************************************************************)
(* The restart channel: agent_manager (agent_manager/agent_manager.py)     *)
(* keeps an outbound websocket to restart_gateway                          *)
(* (control_plane/delegates/management/commands/restart_gateway.py), which *)
(* knows it in CONNECTED and pushes RESTART down it.                       *)
(*                                                                         *)
(* The gateway is one asyncio loop: what a coroutine does between two      *)
(* awaits is one step.  The handler of a websocket awaits HELLO and then   *)
(* the database lookup of the delegate, which runs in another thread;      *)
(* during either, other handlers and disconnect may run, the peer may      *)
(* vanish and the gateway's container may die.                             *)
(*                                                                         *)
(* A websocket is <<d, i>>: d is the delegate in its client certificate    *)
(* (the CN), i tells apart the websockets of d that exist at one time; a   *)
(* number is used again once both ends have forgotten it.                  *)
(***************************************************************************)
EXTENDS Integers

CONSTANTS
    Delegate,       \* delegates, each with its agent_manager
    MaxOpen,        \* bound: websockets of one delegate at one time
    MaxFaults,      \* bound: failures other than the gateway's death
    MaxCrashes,     \* bound: deaths of the gateway
    None

Conn == Delegate \X (1..MaxOpen)

ASSUME BoundsAssumption == MaxOpen \in Nat \ {0} /\ MaxFaults \in Nat /\ MaxCrashes \in Nat
ASSUME NoneAssumption == None \notin Conn \cup Delegate

VARIABLES
    up,             \* is the gateway's process up?
    status,         \* Delegate.status
    revoke,         \* revoke_delegate: "new", "row", "done" (gateway told)
    agent,          \* the websocket each agent_manager holds, or None
    claim,          \* the delegate a websocket's HELLO names, or None
    open,           \* is the gateway's end open?
    hpc,            \* the handler coroutine of each websocket, or "none"
    found,          \* what its lookup returned
    connected,      \* CONNECTED: the websocket of each delegate, or None
    restart,        \* the delegate of the RESTART under way on a websocket
    faults,         \* failures so far
    crashes,        \* deaths of the gateway so far
    crossed,        \* history: delegates with an older websocket whose lookup
                    \* returned after that of the one they hold
    spared          \* history: websockets a revocation could not reach, for
                    \* the reasons given at RevokeRow and DisconnectLost

gatewayVars == <<up, crashes, open, hpc, found, connected>>
clientVars == <<agent, claim>>
histVars == <<crossed, spared>>
vars == <<gatewayVars, status, revoke, clientVars, restart, faults, histVars>>

Init ==
    /\ up = TRUE /\ crashes = 0
    /\ status = [d \in Delegate |-> "ACTIVE"] /\ revoke = [d \in Delegate |-> "new"]
    /\ agent = [d \in Delegate |-> None] /\ claim = [c \in Conn |-> None]
    /\ open = [c \in Conn |-> FALSE] /\ hpc = [c \in Conn |-> "none"]
    /\ found = [c \in Conn |-> FALSE]
    /\ connected = [d \in Delegate |-> None] /\ restart = [c \in Conn |-> None]
    /\ faults = 0
    /\ crossed = {} /\ spared = {}

Fault == faults < MaxFaults /\ faults' = faults + 1

-----------------------------------------------------------------------------
(* agent_manager's loop: connect, say HELLO, wait; reconnect when the      *)
(* connection is lost.  While the gateway is down connecting fails, and    *)
(* the loop tries again.                                                   *)

Free(c) == hpc[c] = "none" /\ agent[c[1]] # c

Connect(d, e) ==
    \E c \in Conn :
        /\ up /\ agent[d] = None
        /\ c[1] = d /\ Free(c) /\ \A i \in 1..(c[2] - 1) : ~Free(<<d, i>>)
        /\ agent' = [agent EXCEPT ![d] = c]
        /\ claim' = [claim EXCEPT ![c] = e]
        /\ open' = [open EXCEPT ![c] = TRUE]
        /\ hpc' = [hpc EXCEPT ![c] = "hello"]
        /\ crossed' = crossed \ {d}
        /\ UNCHANGED <<up, crashes, status, revoke, found, connected, restart, spared>>

AgentConnects(d) == Connect(d, d) /\ UNCHANGED faults

(* Any holder of a certificate may claim any id. *)
ImpostorConnects(d) == (\E e \in Delegate \ {d} : Connect(d, e)) /\ Fault

(* The loop leaves its websocket, with what it has not read ... *)
AgentDrops(d) ==
    /\ agent[d] # None
    /\ agent' = [agent EXCEPT ![d] = None]
    /\ restart' = [restart EXCEPT ![agent[d]] = None]
    /\ UNCHANGED <<gatewayVars, status, revoke, claim, histVars>>

(* ... which the gateway has closed, or which the network, or the agent's  *)
(* own container, has broken.                                              *)
AgentNotices(d) == AgentDrops(d) /\ ~open[agent[d]] /\ UNCHANGED faults
NetworkFails(d) == AgentDrops(d) /\ open[agent[d]] /\ Fault

(* RESTART arrives, and restart_delegate restarts the delegate's           *)
(* containers ...                                                          *)
Commanded(d) == agent[d] # None /\ restart[agent[d]] # None

AgentRestarts(d) ==
    /\ Commanded(d)
    /\ restart' = [restart EXCEPT ![agent[d]] = None]
    /\ UNCHANGED <<gatewayVars, status, revoke, clientVars, faults, histVars>>

(* ... or raises: none is found, or docker fails *)
AgentRestartFails(d) == Commanded(d) /\ AgentDrops(d) /\ Fault

(* The gateway notices that its peer is gone. *)
GatewayLoses(c) ==
    /\ open[c] /\ agent[c[1]] # c
    /\ open' = [open EXCEPT ![c] = FALSE]
    /\ UNCHANGED <<up, crashes, hpc, found, connected, status, revoke, clientVars, restart, faults, histVars>>

(* The container dies: CONNECTED, the handlers and the sockets with it.    *)
GatewayCrash ==
    /\ up /\ crashes < MaxCrashes
    /\ up' = FALSE /\ crashes' = crashes + 1
    /\ open' = [c \in Conn |-> FALSE] /\ hpc' = [c \in Conn |-> "none"]
    /\ found' = [c \in Conn |-> FALSE]
    /\ connected' = [d \in Delegate |-> None]
    /\ claim' = [c \in Conn |-> None] /\ spared' = {}
    /\ UNCHANGED <<status, revoke, agent, restart, faults, crossed>>

(* docker-compose: restart unless-stopped; serve() begins with nothing *)
GatewayRestart ==
    /\ ~up /\ up' = TRUE
    /\ UNCHANGED <<crashes, open, hpc, found, connected, status, revoke, clientVars, restart, faults, histVars>>

-----------------------------------------------------------------------------
(* handler(websocket)                                                      *)

(* Mutant of CertMatches: the HELLO is believed *)
CertIgnored(c) == TRUE
CertMatches(c) == claim[c] = c[1]

(* The handler returns, and its websocket is closed. *)
Closed(c) ==
    /\ hpc' = [hpc EXCEPT ![c] = "none"] /\ open' = [open EXCEPT ![c] = FALSE]
    /\ found' = [found EXCEPT ![c] = FALSE]
    /\ claim' = [claim EXCEPT ![c] = None] /\ spared' = spared \ {c}

(* HELLO arrives: the claim is compared with the certificate. *)
Hello(c) ==
    /\ hpc[c] = "hello" /\ open[c]
    /\ \/ CertMatches(c) /\ hpc' = [hpc EXCEPT ![c] = "lookup"] /\ UNCHANGED <<open, found, claim, spared>>
       \/ ~CertMatches(c) /\ Closed(c)                  \* close code 4001
    /\ UNCHANGED <<up, crashes, connected, status, revoke, agent, restart, faults, crossed>>

(* _lookup_active_delegate, in its thread *)
Lookup(c) ==
    /\ hpc[c] = "lookup"
    /\ found' = [found EXCEPT ![c] = status[claim[c]] = "ACTIVE"]
    /\ hpc' = [hpc EXCEPT ![c] = "looked"]
    /\ UNCHANGED <<up, crashes, open, connected, status, revoke, clientVars, restart, faults, histVars>>

(* The handler resumes, whether or not the websocket is still open.        *)
Resume(c) ==
    /\ hpc[c] = "looked"
    /\ \/ /\ found[c]
          /\ connected' = [connected EXCEPT ![claim[c]] = c]
          /\ hpc' = [hpc EXCEPT ![c] = "registered"]
          /\ crossed' = crossed \cup {d \in {c[1]} : agent[d] \notin {c, None} /\ hpc[agent[d]] = "registered"}
          /\ UNCHANGED <<open, found, claim, spared>>
       \/ ~found[c] /\ Closed(c) /\ UNCHANGED <<connected, crossed>>     \* close code 4003
    /\ UNCHANGED <<up, crashes, status, revoke, agent, restart, faults>>

(* Mutant of Unregistered: CONNECTED is cleared whoever is in it *)
UnregisteredAnyway(c) == [connected EXCEPT ![claim[c]] = None]

(* finally: the websocket leaves CONNECTED if it is still the one in there *)
Unregistered(c) ==
    [d \in Delegate |-> IF d = claim[c] /\ connected[d] = c THEN None ELSE connected[d]]

(* The websocket is closed: the loop over its messages ends.               *)
HandlerEnds(c) ==
    /\ hpc[c] \in {"hello", "registered"} /\ ~open[c]
    /\ connected' = IF hpc[c] = "registered" THEN Unregistered(c) ELSE connected
    /\ Closed(c)
    /\ UNCHANGED <<up, crashes, status, revoke, agent, restart, faults, crossed>>

-----------------------------------------------------------------------------
(* The control endpoint.                                                   *)

(* POST /restart: send_restart; a send on a closed websocket raises.  The  *)
(* message is lost if the agent has left the websocket.                    *)
SendRestart(d) ==
    /\ connected[d] # None /\ open[connected[d]]
    /\ restart' = [c \in Conn |-> IF c = connected[d] /\ agent[c[1]] = c THEN d ELSE restart[c]]
    /\ UNCHANGED <<gatewayVars, status, revoke, clientVars, faults, histVars>>

(* Mutant of RevokeRow: the answer's word for it is stored *)
RevokeRowLower(d) ==
    /\ revoke[d] # "row"
    /\ status' = [status EXCEPT ![d] = "revoked"]
    /\ revoke' = [revoke EXCEPT ![d] = "row"]
    /\ UNCHANGED <<gatewayVars, clientVars, restart, faults, histVars>>

(* revoke_delegate, which may be repeated: the row.  A websocket whose     *)
(* lookup has returned is registered all the same ...                      *)
RevokeRow(d) ==
    /\ revoke[d] # "row"
    /\ status' = [status EXCEPT ![d] = "REVOKED"]
    /\ revoke' = [revoke EXCEPT ![d] = "row"]
    /\ spared' = spared \cup {c \in Conn : c[1] = d /\ hpc[c] = "looked" /\ found[c]}
    /\ UNCHANGED <<gatewayVars, clientVars, restart, faults, crossed>>

RevokeEnds(d) == revoke[d] = "row" /\ revoke' = [revoke EXCEPT ![d] = "done"]

(* Mutant of Disconnect: the endpoint answers and does nothing *)
DisconnectIdle(d) ==
    /\ up /\ RevokeEnds(d)
    /\ UNCHANGED <<gatewayVars, status, clientVars, restart, faults, histVars>>

(* ... then POST /disconnect: pop and close *)
Disconnect(d) ==
    /\ up /\ RevokeEnds(d)
    /\ connected' = [connected EXCEPT ![d] = None]
    /\ open' = [c \in Conn |-> open[c] /\ c # connected[d]]
    /\ UNCHANGED <<up, crashes, hpc, found, status, clientVars, restart, faults, histVars>>

(* The request fails: the gateway is down, or it does not get there.  It   *)
(* is audited, and revoke_delegate returns.                                *)
DisconnectRefused(d) ==
    /\ ~up /\ RevokeEnds(d)
    /\ UNCHANGED <<gatewayVars, status, clientVars, restart, faults, histVars>>

DisconnectLost(d) ==
    /\ up /\ RevokeEnds(d) /\ Fault
    /\ spared' = spared \cup ({connected[d]} \ {None})
    /\ UNCHANGED <<gatewayVars, status, clientVars, restart, crossed>>

-----------------------------------------------------------------------------
GatewayStep(c) == Hello(c) \/ Lookup(c) \/ Resume(c) \/ HandlerEnds(c) \/ GatewayLoses(c)

AgentStep(d) == AgentConnects(d) \/ AgentNotices(d) \/ AgentRestarts(d)

RevokeStep(d) == RevokeRow(d) \/ Disconnect(d) \/ DisconnectRefused(d) \/ DisconnectLost(d)

Next ==
    \/ \E d \in Delegate :
        \/ AgentStep(d) \/ ImpostorConnects(d) \/ NetworkFails(d) \/ AgentRestartFails(d)
        \/ SendRestart(d) \/ RevokeStep(d)
    \/ \E c \in Conn : GatewayStep(c)
    \/ GatewayCrash \/ GatewayRestart

Spec == Init /\ [][Next]_vars

(* The event loop and agent_manager's loop run, threads return, docker     *)
(* starts the gateway again, and a peer that is gone is noticed (websocket *)
(* pings).                                                                 *)
FairSpec ==
    /\ Spec
    /\ \A c \in Conn : WF_vars(GatewayStep(c))
    /\ \A d \in Delegate : WF_vars(AgentConnects(d) \/ AgentNotices(d))
    /\ WF_vars(GatewayRestart)

-----------------------------------------------------------------------------
TypeOK ==
    /\ up \in BOOLEAN /\ faults \in 0..MaxFaults /\ crashes \in 0..MaxCrashes
    /\ status \in [Delegate -> {"ACTIVE", "REVOKED"}]
    /\ revoke \in [Delegate -> {"new", "row", "done"}]
    /\ agent \in [Delegate -> Conn \cup {None}]
    /\ claim \in [Conn -> Delegate \cup {None}] /\ restart \in [Conn -> Delegate \cup {None}]
    /\ open \in [Conn -> BOOLEAN] /\ found \in [Conn -> BOOLEAN]
    /\ hpc \in [Conn -> {"none", "hello", "lookup", "looked", "registered"}]
    /\ connected \in [Delegate -> Conn \cup {None}]
    /\ crossed \subseteq Delegate /\ spared \subseteq Conn

(* A RESTART is pushed only to a websocket whose certificate is that of    *)
(* the delegate to be restarted, whatever the HELLOs claimed: the agent    *)
(* that acts on it is that delegate's.                                     *)
RestartReachesOwner == \A c \in Conn : restart[c] \in {c[1], None}

(* A channel is not lost to an older one: while the agent's registered     *)
(* websocket lives it stays in CONNECTED, although earlier websockets of   *)
(* the same delegate end at any time and the gateway may have died, but    *)
(* for lookups that return in another order than the agent connected.      *)
NoLostChannel ==
    \A d \in Delegate \ crossed :
        agent[d] # None /\ hpc[agent[d]] = "registered" /\ open[agent[d]] => connected[d] = agent[d]

(* After a revocation the delegate has no channel in CONNECTED, however    *)
(* often its agent reconnects and the gateway restarts, but for a          *)
(* websocket that was spared: its lookup had returned before the row was   *)
(* changed, or the request to disconnect it got lost.                      *)
OnlySparedChannelSurvives ==
    \A d \in Delegate : revoke[d] = "done" /\ connected[d] # None => connected[d] \in spared

(* An active delegate's agent ends up in CONNECTED although its connection *)
(* breaks and the gateway dies, provided that lookups return in order.     *)
ChannelRestored ==
    \A d \in Delegate :
        <>[](status[d] = "ACTIVE" /\ d \notin crossed) => <>[](connected[d] # None)
=============================================================================
