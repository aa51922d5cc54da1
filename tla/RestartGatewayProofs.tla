------------------------ MODULE RestartGatewayProofs ------------------------
(***************************************************************************)
(* Theorems about RestartGateway, for any delegates, any number of         *)
(* websockets, failures and deaths of the gateway.                         *)
(***************************************************************************)
EXTENDS RestartGateway, TLAPS

USE BoundsAssumption, NoneAssumption

-----------------------------------------------------------------------------
(* The inductive invariant.                                                *)

(* An agent holds a websocket of its own, one past its HELLO is that of    *)
(* the delegate it claims to be, and what is in CONNECTED is a registered  *)
(* websocket of the delegate.                                              *)
Owned ==
    /\ \A d \in Delegate : agent[d] # None => agent[d][1] = d
    /\ \A c \in Conn : hpc[c] \in {"lookup", "looked", "registered"} => claim[c] = c[1]
    /\ \A d \in Delegate : connected[d] # None => connected[d][1] = d /\ hpc[connected[d]] = "registered"

(* A gateway that is down has forgotten everything. *)
Forgotten == ~up => connected = [d \in Delegate |-> None] /\ hpc = [c \in Conn |-> "none"]

(* A lookup that found a delegate active that is revoked by now is of a    *)
(* websocket that is known to be spared.                                   *)
LookedSpared ==
    /\ \A d \in Delegate : revoke[d] # "new" => status[d] = "REVOKED"
    /\ \A c \in Conn : hpc[c] = "looked" /\ found[c] /\ status[c[1]] = "REVOKED" => c \in spared

IInv ==
    /\ TypeOK /\ Owned /\ Forgotten /\ LookedSpared
    /\ RestartReachesOwner /\ NoLostChannel /\ OnlySparedChannelSurvives

-----------------------------------------------------------------------------
(* Type correctness.                                                       *)

(* The first component of a websocket is the delegate of its certificate.  *)
LEMMA ConnOwner == \A c \in Conn : c[1] \in Delegate
BY DEF Conn

(* A handler that returns leaves its variables well typed. *)
LEMMA ClosedType ==
    ASSUME TypeOK, NEW c \in Conn, Closed(c)
    PROVE  /\ open' \in [Conn -> BOOLEAN] /\ found' \in [Conn -> BOOLEAN]
           /\ hpc' \in [Conn -> {"none", "hello", "lookup", "looked", "registered"}]
           /\ claim' \in [Conn -> Delegate \cup {None}] /\ spared' \subseteq Conn
BY DEF TypeOK, Closed

(* The invariant holds when nobody is connected yet. *)
LEMMA InitInv == Init => IInv
BY ConnOwner DEF Init, IInv, TypeOK, Owned, Forgotten, LookedSpared, RestartReachesOwner,
                 NoLostChannel, OnlySparedChannelSurvives

(* Every step keeps the types. *)
LEMMA TypeStep == TypeOK /\ [Next]_vars => TypeOK'
<1> SUFFICES ASSUME TypeOK, [Next]_vars PROVE TypeOK'
    OBVIOUS
<1> USE ConnOwner DEF TypeOK, gatewayVars, clientVars, histVars, vars
<1>1. ASSUME NEW d \in Delegate, AgentStep(d) PROVE TypeOK'
  <2>1. CASE AgentConnects(d)
      BY <2>1 DEF AgentConnects, Connect
  <2>2. CASE AgentNotices(d)
      BY <2>2 DEF AgentNotices, AgentDrops
  <2>3. CASE AgentRestarts(d)
      BY <2>3 DEF AgentRestarts, Commanded
  <2> QED
      BY <1>1, <2>1, <2>2, <2>3 DEF AgentStep
<1>2. ASSUME NEW d \in Delegate, ImpostorConnects(d) PROVE TypeOK'
    BY <1>2 DEF ImpostorConnects, Connect, Fault
<1>3. ASSUME NEW d \in Delegate, NetworkFails(d) \/ AgentRestartFails(d) PROVE TypeOK'
    BY <1>3 DEF NetworkFails, AgentRestartFails, AgentDrops, Fault
<1>4. ASSUME NEW d \in Delegate, SendRestart(d) PROVE TypeOK'
    BY <1>4 DEF SendRestart
<1>5. ASSUME NEW d \in Delegate, RevokeRow(d) PROVE TypeOK'
    BY <1>5 DEF RevokeRow
<1>6. ASSUME NEW d \in Delegate, Disconnect(d) \/ DisconnectRefused(d) PROVE TypeOK'
  <2>1. CASE Disconnect(d)
    <3>1. open' \in [Conn -> BOOLEAN]
        BY <2>1, Zenon DEF Disconnect
    <3> QED
        BY <2>1, <3>1 DEF Disconnect, RevokeEnds
  <2>2. CASE DisconnectRefused(d)
      BY <2>2 DEF DisconnectRefused, RevokeEnds
  <2> QED
      BY <1>6, <2>1, <2>2
<1>7. ASSUME NEW d \in Delegate, DisconnectLost(d) PROVE TypeOK'
    BY <1>7 DEF DisconnectLost, RevokeEnds, Fault
<1>8. ASSUME NEW c \in Conn, Hello(c) PROVE TypeOK'
  <2>1. CASE CertMatches(c)
      BY <1>8, <2>1 DEF Hello
  <2>2. CASE ~CertMatches(c)
    <3>1. Closed(c) /\ UNCHANGED <<up, crashes, connected, status, revoke, agent, restart, faults, crossed>>
        BY <1>8, <2>2 DEF Hello
    <3> QED
        BY <3>1, ClosedType
  <2> QED
      BY <2>1, <2>2
<1>9. ASSUME NEW c \in Conn, Lookup(c) PROVE TypeOK'
    BY <1>9 DEF Lookup
<1>10. ASSUME NEW c \in Conn, Resume(c) PROVE TypeOK'
  <2>1. CASE found[c]
      BY <1>10, <2>1 DEF Resume
  <2>2. CASE ~found[c]
    <3>1. Closed(c) /\ UNCHANGED <<connected, crossed, up, crashes, status, revoke, agent, restart, faults>>
        BY <1>10, <2>2 DEF Resume
    <3> QED
        BY <3>1, ClosedType
  <2> QED
      BY <2>1, <2>2
<1>11. ASSUME NEW c \in Conn, HandlerEnds(c) PROVE TypeOK'
    BY <1>11 DEF HandlerEnds, Unregistered, Closed
<1>12. ASSUME NEW c \in Conn, GatewayLoses(c) PROVE TypeOK'
    BY <1>12 DEF GatewayLoses
<1>13. CASE GatewayCrash
  <2>1. up' \in BOOLEAN /\ open' \in [Conn -> BOOLEAN] /\ found' \in [Conn -> BOOLEAN]
      BY <1>13, Zenon DEF GatewayCrash
  <2>2. crashes' \in 0..MaxCrashes
      BY <1>13 DEF GatewayCrash
  <2> QED
      BY <1>13, <2>1, <2>2 DEF GatewayCrash
<1>14. CASE GatewayRestart
    BY <1>14 DEF GatewayRestart
<1>15. CASE UNCHANGED vars
    BY <1>15
<1> QED
    BY <1>1, <1>2, <1>3, <1>4, <1>5, <1>6, <1>7, <1>8, <1>9, <1>10, <1>11, <1>12, <1>13,
       <1>14, <1>15 DEF Next, RevokeStep, GatewayStep

-----------------------------------------------------------------------------
(* Each part of the invariant, action by action.                           *)

(* Websockets past their HELLO stay with their delegates. *)
LEMMA OwnedStep ==
    ASSUME TypeOK, TypeOK', Owned, Forgotten, [Next]_vars
    PROVE  Owned' /\ Forgotten'
<1> USE ConnOwner DEF TypeOK, Owned, Forgotten, gatewayVars, clientVars, histVars
<1>1. ASSUME NEW d \in Delegate, AgentConnects(d) \/ ImpostorConnects(d) PROVE Owned' /\ Forgotten'
    BY <1>1 DEF AgentConnects, ImpostorConnects, Connect, Free
<1>2. ASSUME NEW d \in Delegate, AgentNotices(d) \/ NetworkFails(d) \/ AgentRestartFails(d) PROVE Owned' /\ Forgotten'
    BY <1>2 DEF AgentNotices, NetworkFails, AgentRestartFails, AgentDrops
<1>3. ASSUME NEW d \in Delegate, AgentRestarts(d) PROVE Owned' /\ Forgotten'
    BY <1>3 DEF AgentRestarts, Commanded
<1>4. ASSUME NEW d \in Delegate, SendRestart(d) PROVE Owned' /\ Forgotten'
    BY <1>4 DEF SendRestart
<1>5. ASSUME NEW d \in Delegate, RevokeRow(d) PROVE Owned' /\ Forgotten'
    BY <1>5 DEF RevokeRow
<1>6. ASSUME NEW d \in Delegate, Disconnect(d) PROVE Owned' /\ Forgotten'
    BY <1>6 DEF Disconnect, RevokeEnds
<1>7. ASSUME NEW d \in Delegate, DisconnectRefused(d) PROVE Owned' /\ Forgotten'
    BY <1>7 DEF DisconnectRefused, RevokeEnds
<1>8. ASSUME NEW d \in Delegate, DisconnectLost(d) PROVE Owned' /\ Forgotten'
    BY <1>8 DEF DisconnectLost, RevokeEnds
<1>9. ASSUME NEW c \in Conn, Hello(c) PROVE Owned' /\ Forgotten'
    BY <1>9 DEF Hello, CertMatches, Closed
<1>10. ASSUME NEW c \in Conn, Lookup(c) PROVE Owned' /\ Forgotten'
    BY <1>10 DEF Lookup
<1>11. ASSUME NEW c \in Conn, Resume(c) PROVE Owned' /\ Forgotten'
  <2>1. CASE found[c]
      BY <1>11, <2>1 DEF Resume
  <2>2. CASE ~found[c]
      BY <1>11, <2>2 DEF Resume, Closed
  <2> QED
      BY <2>1, <2>2
<1>12. ASSUME NEW c \in Conn, HandlerEnds(c) PROVE Owned' /\ Forgotten'
    BY <1>12 DEF HandlerEnds, Unregistered, Closed
<1>13. ASSUME NEW c \in Conn, GatewayLoses(c) PROVE Owned' /\ Forgotten'
    BY <1>13 DEF GatewayLoses
<1>14. CASE GatewayCrash
    BY <1>14 DEF GatewayCrash
<1>15. CASE GatewayRestart
    BY <1>15 DEF GatewayRestart
<1>16. CASE UNCHANGED vars
    BY <1>16 DEF vars
<1> QED
    BY <1>1, <1>2, <1>3, <1>4, <1>5, <1>6, <1>7, <1>8,
       <1>9, <1>10, <1>11, <1>12, <1>13, <1>14, <1>15, <1>16
       DEF Next, AgentStep, RevokeStep, GatewayStep

(* A RESTART stays with the delegate it is for. *)
LEMMA ReachStep ==
    ASSUME TypeOK, TypeOK', Owned, RestartReachesOwner, [Next]_vars
    PROVE  RestartReachesOwner'
<1> USE ConnOwner DEF TypeOK, Owned, RestartReachesOwner, gatewayVars, clientVars, histVars
<1>1. ASSUME NEW d \in Delegate, AgentConnects(d) \/ ImpostorConnects(d) PROVE RestartReachesOwner'
    BY <1>1 DEF AgentConnects, ImpostorConnects, Connect, Free
<1>2. ASSUME NEW d \in Delegate, AgentNotices(d) \/ NetworkFails(d) \/ AgentRestartFails(d) PROVE RestartReachesOwner'
    BY <1>2 DEF AgentNotices, NetworkFails, AgentRestartFails, AgentDrops
<1>3. ASSUME NEW d \in Delegate, AgentRestarts(d) PROVE RestartReachesOwner'
    BY <1>3 DEF AgentRestarts, Commanded
<1>4. ASSUME NEW d \in Delegate, SendRestart(d) PROVE RestartReachesOwner'
    BY <1>4 DEF SendRestart
<1>5. ASSUME NEW d \in Delegate, RevokeRow(d) PROVE RestartReachesOwner'
    BY <1>5 DEF RevokeRow
<1>6. ASSUME NEW d \in Delegate, Disconnect(d) PROVE RestartReachesOwner'
    BY <1>6 DEF Disconnect, RevokeEnds
<1>7. ASSUME NEW d \in Delegate, DisconnectRefused(d) PROVE RestartReachesOwner'
    BY <1>7 DEF DisconnectRefused, RevokeEnds
<1>8. ASSUME NEW d \in Delegate, DisconnectLost(d) PROVE RestartReachesOwner'
    BY <1>8 DEF DisconnectLost, RevokeEnds
<1>9. ASSUME NEW c \in Conn, Hello(c) PROVE RestartReachesOwner'
    BY <1>9 DEF Hello, CertMatches, Closed
<1>10. ASSUME NEW c \in Conn, Lookup(c) PROVE RestartReachesOwner'
    BY <1>10 DEF Lookup
<1>11. ASSUME NEW c \in Conn, Resume(c) PROVE RestartReachesOwner'
    BY <1>11 DEF Resume, Closed
<1>12. ASSUME NEW c \in Conn, HandlerEnds(c) PROVE RestartReachesOwner'
    BY <1>12 DEF HandlerEnds, Unregistered, Closed
<1>13. ASSUME NEW c \in Conn, GatewayLoses(c) PROVE RestartReachesOwner'
    BY <1>13 DEF GatewayLoses
<1>14. CASE GatewayCrash
    BY <1>14 DEF GatewayCrash
<1>15. CASE GatewayRestart
    BY <1>15 DEF GatewayRestart
<1>16. CASE UNCHANGED vars
    BY <1>16 DEF vars
<1> QED
    BY <1>1, <1>2, <1>3, <1>4, <1>5, <1>6, <1>7, <1>8,
       <1>9, <1>10, <1>11, <1>12, <1>13, <1>14, <1>15, <1>16
       DEF Next, AgentStep, RevokeStep, GatewayStep

(* The agent's channel stays in CONNECTED. *)
LEMMA LostStep ==
    ASSUME TypeOK, TypeOK', Owned, NoLostChannel, [Next]_vars
    PROVE  NoLostChannel'
<1> USE ConnOwner DEF TypeOK, Owned, NoLostChannel, gatewayVars, clientVars, histVars
<1>1. ASSUME NEW d \in Delegate, AgentConnects(d) \/ ImpostorConnects(d) PROVE NoLostChannel'
    BY <1>1 DEF AgentConnects, ImpostorConnects, Connect, Free
<1>2. ASSUME NEW d \in Delegate, AgentNotices(d) \/ NetworkFails(d) \/ AgentRestartFails(d) PROVE NoLostChannel'
    BY <1>2 DEF AgentNotices, NetworkFails, AgentRestartFails, AgentDrops
<1>3. ASSUME NEW d \in Delegate, AgentRestarts(d) PROVE NoLostChannel'
    BY <1>3 DEF AgentRestarts, Commanded
<1>4. ASSUME NEW d \in Delegate, SendRestart(d) PROVE NoLostChannel'
    BY <1>4 DEF SendRestart
<1>5. ASSUME NEW d \in Delegate, RevokeRow(d) PROVE NoLostChannel'
    BY <1>5 DEF RevokeRow
<1>6. ASSUME NEW d \in Delegate, Disconnect(d) PROVE NoLostChannel'
  <2> SUFFICES ASSUME NEW e \in Delegate \ crossed', agent[e] # None,
                      hpc[agent[e]] = "registered", open'[agent[e]]
               PROVE  connected'[e] = agent[e]
      BY <1>6 DEF Disconnect
  <2>1. open[agent[e]] /\ agent[e] # connected[d] /\ crossed' = crossed
    <3>1. open' = [b \in Conn |-> open[b] /\ b # connected[d]] /\ crossed' = crossed
        BY <1>6 DEF Disconnect
    <3>2. agent[e] \in Conn
        OBVIOUS
    <3> HIDE DEF TypeOK, Owned, NoLostChannel
    <3> QED
        BY <3>1, <3>2, Zenon
  <2>2. connected[e] = agent[e]
      BY <2>1
  <2> QED
      BY <1>6, <2>1, <2>2 DEF Disconnect
<1>7. ASSUME NEW d \in Delegate, DisconnectRefused(d) PROVE NoLostChannel'
    BY <1>7 DEF DisconnectRefused, RevokeEnds
<1>8. ASSUME NEW d \in Delegate, DisconnectLost(d) PROVE NoLostChannel'
    BY <1>8 DEF DisconnectLost, RevokeEnds
<1>9. ASSUME NEW c \in Conn, Hello(c) PROVE NoLostChannel'
    BY <1>9 DEF Hello, CertMatches, Closed
<1>10. ASSUME NEW c \in Conn, Lookup(c) PROVE NoLostChannel'
    BY <1>10 DEF Lookup
<1>11. ASSUME NEW c \in Conn, Resume(c) PROVE NoLostChannel'
  <2>1. CASE found[c]
    <3>1. claim[c] = c[1] /\ crossed' = crossed \cup
             {d \in {c[1]} : agent[d] \notin {c, None} /\ hpc[agent[d]] = "registered"}
        BY <1>11, <2>1 DEF Resume
    <3> SUFFICES ASSUME NEW e \in Delegate \ crossed', agent[e] # None,
                        hpc'[agent[e]] = "registered", open[agent[e]]
                 PROVE  connected'[e] = agent[e]
        BY <1>11, <2>1 DEF Resume
    <3>2. CASE agent[e] = c
      <4>1. e = c[1]
          BY <3>2
      <4> QED
          BY <1>11, <2>1, <3>1, <3>2, <4>1 DEF Resume
    <3>3. CASE agent[e] # c
      <4>1. hpc[agent[e]] = "registered" /\ e \notin crossed
          BY <1>11, <2>1, <3>1, <3>3 DEF Resume
      <4>2. e # c[1]
          BY <3>1, <3>3, <4>1
      <4> QED
          BY <1>11, <2>1, <3>1, <4>1, <4>2 DEF Resume
    <3> QED
        BY <3>2, <3>3
  <2>2. CASE ~found[c]
      BY <1>11, <2>2 DEF Resume, Closed
  <2> QED
      BY <2>1, <2>2
<1>12. ASSUME NEW c \in Conn, HandlerEnds(c) PROVE NoLostChannel'
    BY <1>12 DEF HandlerEnds, Unregistered, Closed
<1>13. ASSUME NEW c \in Conn, GatewayLoses(c) PROVE NoLostChannel'
    BY <1>13 DEF GatewayLoses
<1>14. CASE GatewayCrash
    BY <1>14 DEF GatewayCrash
<1>15. CASE GatewayRestart
    BY <1>15 DEF GatewayRestart
<1>16. CASE UNCHANGED vars
    BY <1>16 DEF vars
<1> QED
    BY <1>1, <1>2, <1>3, <1>4, <1>5, <1>6, <1>7, <1>8,
       <1>9, <1>10, <1>11, <1>12, <1>13, <1>14, <1>15, <1>16
       DEF Next, AgentStep, RevokeStep, GatewayStep

(* A revocation reaches all but the websockets it spares. *)
LEMMA SparedStep ==
    ASSUME TypeOK, TypeOK', Owned, Forgotten, LookedSpared, OnlySparedChannelSurvives, [Next]_vars
    PROVE  LookedSpared' /\ OnlySparedChannelSurvives'
<1> USE ConnOwner DEF TypeOK, Owned, Forgotten, LookedSpared, OnlySparedChannelSurvives, gatewayVars, clientVars, histVars
<1>1. ASSUME NEW d \in Delegate, AgentConnects(d) \/ ImpostorConnects(d) PROVE LookedSpared' /\ OnlySparedChannelSurvives'
    BY <1>1 DEF AgentConnects, ImpostorConnects, Connect, Free
<1>2. ASSUME NEW d \in Delegate, AgentNotices(d) \/ NetworkFails(d) \/ AgentRestartFails(d) PROVE LookedSpared' /\ OnlySparedChannelSurvives'
    BY <1>2 DEF AgentNotices, NetworkFails, AgentRestartFails, AgentDrops
<1>3. ASSUME NEW d \in Delegate, AgentRestarts(d) PROVE LookedSpared' /\ OnlySparedChannelSurvives'
    BY <1>3 DEF AgentRestarts, Commanded
<1>4. ASSUME NEW d \in Delegate, SendRestart(d) PROVE LookedSpared' /\ OnlySparedChannelSurvives'
    BY <1>4 DEF SendRestart
<1>5. ASSUME NEW d \in Delegate, RevokeRow(d) PROVE LookedSpared' /\ OnlySparedChannelSurvives'
    BY <1>5 DEF RevokeRow
<1>6. ASSUME NEW d \in Delegate, Disconnect(d) PROVE LookedSpared' /\ OnlySparedChannelSurvives'
    BY <1>6 DEF Disconnect, RevokeEnds
<1>7. ASSUME NEW d \in Delegate, DisconnectRefused(d) PROVE LookedSpared' /\ OnlySparedChannelSurvives'
    BY <1>7 DEF DisconnectRefused, RevokeEnds
<1>8. ASSUME NEW d \in Delegate, DisconnectLost(d) PROVE LookedSpared' /\ OnlySparedChannelSurvives'
    BY <1>8 DEF DisconnectLost, RevokeEnds
<1>9. ASSUME NEW c \in Conn, Hello(c) PROVE LookedSpared' /\ OnlySparedChannelSurvives'
    BY <1>9 DEF Hello, CertMatches, Closed
<1>10. ASSUME NEW c \in Conn, Lookup(c) PROVE LookedSpared' /\ OnlySparedChannelSurvives'
  <2>1. status[c[1]] = "REVOKED" => ~found'[c]
    <3>1. claim[c] = c[1] \/ hpc[c] # "lookup"
        OBVIOUS
    <3>2. found' = [found EXCEPT ![c] = status[claim[c]] = "ACTIVE"] /\ hpc[c] = "lookup"
        BY <1>10 DEF Lookup
    <3>3. DOMAIN found = Conn
        OBVIOUS
    <3> HIDE DEF TypeOK, Owned, LookedSpared, OnlySparedChannelSurvives, Forgotten
    <3>4. found'[c] = (status[claim[c]] = "ACTIVE")
        BY <3>2, <3>3, Zenon
    <3> QED
        BY <3>1, <3>2, <3>4
  <2>2. \A b \in Conn \ {c} : hpc'[b] = hpc[b] /\ found'[b] = found[b]
      BY <1>10 DEF Lookup
  <2> QED
      BY <1>10, <2>1, <2>2 DEF Lookup
<1>11. ASSUME NEW c \in Conn, Resume(c) PROVE LookedSpared' /\ OnlySparedChannelSurvives'
    BY <1>11 DEF Resume, Closed
<1>12. ASSUME NEW c \in Conn, HandlerEnds(c) PROVE LookedSpared' /\ OnlySparedChannelSurvives'
    BY <1>12 DEF HandlerEnds, Unregistered, Closed
<1>13. ASSUME NEW c \in Conn, GatewayLoses(c) PROVE LookedSpared' /\ OnlySparedChannelSurvives'
    BY <1>13 DEF GatewayLoses
<1>14. CASE GatewayCrash
    BY <1>14 DEF GatewayCrash
<1>15. CASE GatewayRestart
    BY <1>15 DEF GatewayRestart
<1>16. CASE UNCHANGED vars
    BY <1>16 DEF vars
<1> QED
    BY <1>1, <1>2, <1>3, <1>4, <1>5, <1>6, <1>7, <1>8,
       <1>9, <1>10, <1>11, <1>12, <1>13, <1>14, <1>15, <1>16
       DEF Next, AgentStep, RevokeStep, GatewayStep

(* The invariant is inductive. *)
LEMMA InvStep == IInv /\ [Next]_vars => IInv'
<1> SUFFICES ASSUME IInv, [Next]_vars PROVE IInv'
    OBVIOUS
<1>1. TypeOK'
    BY TypeStep DEF IInv
<1> QED
    BY <1>1, OwnedStep, ReachStep, LostStep, SparedStep DEF IInv

-----------------------------------------------------------------------------
(* It holds in every behaviour. *)
LEMMA Invariant == Spec => []IInv
BY InitInv, InvStep, PTL DEF Spec

(* The gateway's state is well typed, in particular CONNECTED holds        *)
(* websockets only and revoke_delegate stores no status but REVOKED.       *)
THEOREM TypeCorrect == Spec => []TypeOK
<1>1. IInv => TypeOK
    BY DEF IInv
<1> QED
    BY <1>1, Invariant, PTL

(* send_restart reaches the delegate's own agent_manager only, whatever    *)
(* the HELLOs of all clients claim.                                        *)
THEOREM ReachesOwner == Spec => []RestartReachesOwner
<1>1. IInv => RestartReachesOwner
    BY DEF IInv
<1> QED
    BY <1>1, Invariant, PTL

(* The finally clause of handler never takes the channel of a newer        *)
(* websocket out of CONNECTED.                                             *)
THEOREM ChannelKept == Spec => []NoLostChannel
<1>1. IInv => NoLostChannel
    BY DEF IInv
<1> QED
    BY <1>1, Invariant, PTL

(* After revoke_delegate only a websocket that raced it, or whose          *)
(* disconnect request was lost, can be in CONNECTED.                       *)
THEOREM RevocationDisconnects == Spec => []OnlySparedChannelSurvives
<1>1. IInv => OnlySparedChannelSurvives
    BY DEF IInv
<1> QED
    BY <1>1, Invariant, PTL
=============================================================================
