---------------------------- MODULE RelayProofs ----------------------------
(***************************************************************************)
(* Proofs about the Relay: registrations of tunnels while the routes are   *)
(* replaced (Tunnels), the grants that Control, Relay and node carry out   *)
(* (Relay), the monthly quota (Quota), and flow control (Streams).         *)
(***************************************************************************)
EXTENDS Relay, Streams, Tunnels, Quota, FiniteSetTheorems, SequenceTheorems, WellFoundedInduction, TLAPS

-----------------------------------------------------------------------------
(* Tunnels: a runtime that is not cancelled is the route's or about to be  *)
(* revoked; a slot holds a tunnel that registered; and a tunnel that lost  *)
(* its slot is remembered by the registration that will cancel it.         *)

Positions == {"new", "checked", "found", "replacing", "registered", "serving", "ending", "gone"}
SessionRow == [at : Positions, version : 0 .. MaxConfig, runtime : 0 .. MaxRuntime,
               cancelled : BOOLEAN, old : 0 .. MaxTunnel]
RuntimeRow == [version : 0 .. MaxConfig, cancelled : BOOLEAN, slot : 0 .. MaxTunnel]
UpdateRow == [at : {"idle", "revoke", "start"}, next : 0 .. MaxConfig, removed : 0 .. MaxRuntime]

TunnelsTypeOK ==
    /\ configured \in 0 .. MaxConfig /\ active \in 0 .. MaxRuntime
    /\ runtime \in [Runtimes -> RuntimeRow] /\ session \in [Connections -> SessionRow]
    /\ update \in UpdateRow

UpdateConsistent ==
    /\ update.removed # 0 <=> update.at = "revoke"
    /\ update.at = "revoke" => active = 0
    /\ active # 0 => runtime[active].version # 0
    /\ \A r \in Runtimes : runtime[r].version # 0 /\ ~ runtime[r].cancelled => r \in {active, update.removed}

SlotsRegistered ==
    /\ \A r \in Runtimes, t \in Connections : runtime[r].slot = t => session[t].at \notin {"new", "checked", "found"}
    /\ \A t \in Connections : session[t].at = "replacing" => session[t].old # t
    /\ \A t \in Connections : session[t].at \notin {"new", "checked", "gone"} =>
          session[t].runtime \in Runtimes /\ runtime[session[t].runtime].version # 0

Registered(t) == session[t].at \in {"replacing", "registered", "serving"}
HasSlot(t) == runtime[session[t].runtime].slot = t
AboutToGo(t) == \E u \in Connections : session[u].at = "replacing" /\ session[u].old = t

SlotKept == \A t \in Connections : Registered(t) /\ ~ Cancelled(t) => HasSlot(t) \/ AboutToGo(t)

TunnelsInv == TunnelsTypeOK /\ UpdateConsistent /\ SlotsRegistered /\ SlotKept

LEMMA TunnelIdFacts ==
    /\ Runtimes = (0 .. MaxRuntime) \ {0} /\ Connections = (0 .. MaxTunnel) \ {0}
    /\ Versions \subseteq 0 .. MaxConfig /\ 0 \in 0 .. MaxConfig
    /\ 0 \in 0 .. MaxRuntime /\ 0 \in 0 .. MaxTunnel
  BY TunnelsAssumption DEF Runtimes, Connections, Versions

\* A step of one connection that changes neither its runtime nor any slot, and no
\* registration's memory of the tunnel it replaces.
LEMMA ConnectionMoves ==
    ASSUME TunnelsInv, NEW t \in Connections, NEW s \in SessionRow,
           session' = [session EXCEPT ![t] = s], UNCHANGED <<configured, active, runtime, update>>,
           session[t].at # "replacing", s.at # "replacing",
           s.at \notin {"new", "checked", "gone"} =>
               s.runtime \in Runtimes /\ runtime[s.runtime].version # 0,
           s.at \in {"new", "checked", "found"} => session[t].at \in {"new", "checked", "found"},
           s.at \in {"registered", "serving"} =>
               /\ session[t].at \in {"registered", "serving"} /\ s.runtime = session[t].runtime
               /\ session[t].cancelled => s.cancelled
    PROVE  TunnelsInv'
<1>1. TunnelsTypeOK /\ UpdateConsistent /\ SlotsRegistered /\ SlotKept /\ session \in [Connections -> SessionRow]
  BY DEF TunnelsInv, TunnelsTypeOK
<1>2. session' \in [Connections -> SessionRow] /\ session'[t] = s
      /\ \A u \in Connections \ {t} : session'[u] = session[u]
  BY <1>1
<1>3. TunnelsTypeOK' /\ UpdateConsistent'
  BY <1>1, <1>2 DEF TunnelsTypeOK, UpdateConsistent
<1>4. SlotsRegistered'
  <2>1. ASSUME NEW r \in Runtimes, NEW u \in Connections, runtime[r].slot = u
        PROVE  session'[u].at \notin {"new", "checked", "found"}
    <3>1. session[u].at \notin {"new", "checked", "found"}
      BY <1>1, <2>1 DEF SlotsRegistered
    <3> QED BY <1>2, <3>1
  <2>2. \A u \in Connections : session'[u].at = "replacing" => session'[u].old # u
    BY <1>1, <1>2 DEF SlotsRegistered
  <2>3. ASSUME NEW u \in Connections, session'[u].at \notin {"new", "checked", "gone"}
        PROVE  session'[u].runtime \in Runtimes /\ runtime[session'[u].runtime].version # 0
    BY <1>1, <1>2, <2>3 DEF SlotsRegistered
  <2> QED BY <2>1, <2>2, <2>3 DEF SlotsRegistered
<1>5. SlotKept'
  <2> SUFFICES ASSUME NEW u \in Connections, Registered(u)', ~ Cancelled(u)' PROVE HasSlot(u)' \/ AboutToGo(u)'
    BY DEF SlotKept
  <2>1. Registered(u) /\ ~ Cancelled(u) /\ session'[u].runtime = session[u].runtime
    BY <1>2 DEF Registered, Cancelled
  <2>2. HasSlot(u) \/ AboutToGo(u)
    BY <1>1, <2>1 DEF SlotKept
  <2>3. HasSlot(u) => HasSlot(u)'
    BY <2>1 DEF HasSlot
  <2>4. ASSUME AboutToGo(u) PROVE AboutToGo(u)'
    <3>1. PICK v \in Connections : session[v].at = "replacing" /\ session[v].old = u
      BY <2>4 DEF AboutToGo
    <3>2. session'[v] = session[v]
      BY <1>2, <3>1
    <3> QED BY <3>1, <3>2 DEF AboutToGo
  <2> QED BY <2>2, <2>3, <2>4
<1> QED BY <1>3, <1>4, <1>5 DEF TunnelsInv

LEMMA PlainConnectionSteps ==
    ASSUME TunnelsInv, NEW t \in Connections,
           \/ \E v \in Versions : Authenticate(t, v)
           \/ LookUpRuntime(t) \/ Confirm(t) \/ ConfirmFails(t) \/ HeartbeatFails(t) \/ StopReading(t)
    PROVE  TunnelsInv'
<1>1. /\ session \in [Connections -> SessionRow] /\ active \in 0 .. MaxRuntime
      /\ SlotsRegistered /\ UpdateConsistent /\ session[t] \in SessionRow
  BY DEF TunnelsInv, TunnelsTypeOK
<1>2. Gone \in SessionRow /\ Gone.at = "gone"
  BY TunnelIdFacts DEF Gone, SessionRow, Positions
<1>3. session[t].at \notin {"new", "checked", "gone"} =>
          session[t].runtime \in Runtimes /\ runtime[session[t].runtime].version # 0
  BY <1>1 DEF SlotsRegistered
<1>4. ASSUME NEW v \in Versions, Authenticate(t, v) PROVE TunnelsInv'
  <2>1. PICK d : d = [session[t] EXCEPT !.at = "checked"]
    OBVIOUS
  <2>2. PICK s : s = [d EXCEPT !.version = v]
    OBVIOUS
  <2>3. d \in SessionRow /\ d.at = "checked"
    BY <1>1, <2>1 DEF SessionRow, Positions
  <2>4. s \in SessionRow /\ s.at = "checked"
    BY <2>2, <2>3, TunnelIdFacts DEF SessionRow
  <2>5. session' = [session EXCEPT ![t] = s] /\ UNCHANGED <<configured, active, runtime, update>>
        /\ session[t].at = "new"
    BY <1>1, <1>4, <2>1, <2>2 DEF Authenticate, SessionRow
  <2> QED BY <2>4, <2>5, ConnectionMoves
<1>5. ASSUME LookUpRuntime(t) PROVE TunnelsInv'
  <2>1. CASE active = 0
    <3>1. session' = [session EXCEPT ![t] = Gone] /\ UNCHANGED <<configured, active, runtime, update>>
          /\ session[t].at = "checked"
      BY <1>5, <2>1 DEF LookUpRuntime
    <3> QED BY <1>2, <3>1, ConnectionMoves
  <2>2. CASE active # 0
    <3>1. PICK d : d = [session[t] EXCEPT !.at = "found"]
      OBVIOUS
    <3>2. PICK s : s = [d EXCEPT !.runtime = active]
      OBVIOUS
    <3>3. d \in SessionRow /\ d.at = "found"
      BY <1>1, <3>1 DEF SessionRow, Positions
    <3>4. s \in SessionRow /\ s.at = "found" /\ s.runtime = active
      BY <1>1, <3>2, <3>3 DEF SessionRow
    <3>5. session' = [session EXCEPT ![t] = s] /\ UNCHANGED <<configured, active, runtime, update>>
          /\ session[t].at = "checked"
      BY <1>1, <1>5, <2>2, <3>1, <3>2 DEF LookUpRuntime, SessionRow
    <3>6. active \in Runtimes /\ runtime[active].version # 0
      BY <1>1, <2>2, TunnelIdFacts DEF UpdateConsistent
    <3> QED BY <3>4, <3>5, <3>6, ConnectionMoves
  <2> QED BY <2>1, <2>2
<1>6. ASSUME Confirm(t) PROVE TunnelsInv'
  <2>1. PICK s : s = [session[t] EXCEPT !.at = "serving"]
    OBVIOUS
  <2>2. /\ s \in SessionRow /\ s.at = "serving" /\ s.runtime = session[t].runtime
        /\ s.cancelled = session[t].cancelled
    BY <1>1, <2>1 DEF SessionRow, Positions
  <2>3. session' = [session EXCEPT ![t] = s] /\ UNCHANGED <<configured, active, runtime, update>>
        /\ session[t].at = "registered"
    BY <1>1, <1>6, <2>1 DEF Confirm
  <2> QED BY <1>3, <2>2, <2>3, ConnectionMoves
<1>7. ASSUME ConfirmFails(t) PROVE TunnelsInv'
  <2>1. session' = [session EXCEPT ![t] = Gone] /\ UNCHANGED <<configured, active, runtime, update>>
        /\ session[t].at = "registered"
    BY <1>7 DEF ConfirmFails
  <2> QED BY <1>2, <2>1, ConnectionMoves
<1>8. ASSUME HeartbeatFails(t) PROVE TunnelsInv'
  <2>1. PICK s : s = [session[t] EXCEPT !.cancelled = TRUE]
    OBVIOUS
  <2>2. /\ s \in SessionRow /\ s.at = session[t].at /\ s.runtime = session[t].runtime /\ s.cancelled
    BY <1>1, <2>1 DEF SessionRow
  <2>3. session' = [session EXCEPT ![t] = s] /\ UNCHANGED <<configured, active, runtime, update>>
        /\ session[t].at = "serving"
    BY <1>1, <1>8, <2>1 DEF HeartbeatFails
  <2> QED BY <1>3, <2>2, <2>3, ConnectionMoves
<1>9. ASSUME StopReading(t) PROVE TunnelsInv'
  <2>1. PICK d : d = [session[t] EXCEPT !.at = "ending"]
    OBVIOUS
  <2>2. PICK s : s = [d EXCEPT !.cancelled = TRUE]
    OBVIOUS
  <2>3. d \in SessionRow /\ d.at = "ending" /\ d.runtime = session[t].runtime
    BY <1>1, <2>1 DEF SessionRow, Positions
  <2>4. s \in SessionRow /\ s.at = "ending" /\ s.runtime = session[t].runtime
    BY <2>2, <2>3 DEF SessionRow
  <2>5. session' = [session EXCEPT ![t] = s] /\ UNCHANGED <<configured, active, runtime, update>>
        /\ session[t].at = "serving"
    BY <1>1, <1>9, <2>1, <2>2 DEF StopReading, SessionRow
  <2> QED BY <1>3, <2>4, <2>5, ConnectionMoves
<1> QED BY <1>4, <1>5, <1>6, <1>7, <1>8, <1>9
LEMMA RegisterTunnelHolds == ASSUME TunnelsInv, NEW t \in Connections, RegisterTunnel(t) PROVE TunnelsInv'
<1>1. /\ TunnelsTypeOK /\ UpdateConsistent /\ SlotsRegistered /\ SlotKept
      /\ session \in [Connections -> SessionRow] /\ runtime \in [Runtimes -> RuntimeRow]
  BY DEF TunnelsInv, TunnelsTypeOK
<1>2. PICK r : r = session[t].runtime
  OBVIOUS
<1>3. PICK p : p = runtime[r].slot
  OBVIOUS
<1>4. PICK d : d = [session[t] EXCEPT !.at = "replacing"]
  OBVIOUS
<1>5. PICK s : s = [d EXCEPT !.old = p]
  OBVIOUS
<1>6. session[t].at = "found" /\ UNCHANGED <<configured, active, update>>
      /\ session' = [session EXCEPT ![t].at = "replacing", ![t].old = p]
      /\ runtime' = [runtime EXCEPT ![r].slot = t]
  BY <1>2, <1>3 DEF RegisterTunnel
<1>7. r \in Runtimes /\ runtime[r].version # 0 /\ runtime[r] \in RuntimeRow /\ session[t] \in SessionRow
  BY <1>1, <1>2, <1>6 DEF SlotsRegistered
<1>8. d \in SessionRow /\ d.at = "replacing" /\ d.runtime = r /\ d.cancelled = session[t].cancelled
  BY <1>2, <1>4, <1>7 DEF SessionRow, Positions
<1>9. s \in SessionRow /\ s.at = "replacing" /\ s.runtime = r /\ s.cancelled = session[t].cancelled /\ s.old = p
  BY <1>3, <1>5, <1>7, <1>8 DEF SessionRow, RuntimeRow
<1>10. session' = [session EXCEPT ![t] = s]
  BY <1>1, <1>4, <1>5, <1>6 DEF SessionRow
<1>11. /\ session' \in [Connections -> SessionRow] /\ session'[t] = s
       /\ \A u \in Connections \ {t} : session'[u] = session[u]
  BY <1>1, <1>9, <1>10
<1>12. /\ runtime' \in [Runtimes -> RuntimeRow]
       /\ \A q \in Runtimes : /\ runtime'[q].version = runtime[q].version
                              /\ runtime'[q].cancelled = runtime[q].cancelled
                              /\ runtime'[q].slot = IF q = r THEN t ELSE runtime[q].slot
  <2>1. runtime'[r] = [runtime[r] EXCEPT !.slot = t] /\ \A q \in Runtimes \ {r} : runtime'[q] = runtime[q]
    BY <1>1, <1>6, <1>7
  <2>2. /\ runtime'[r] \in RuntimeRow /\ runtime'[r].version = runtime[r].version
        /\ runtime'[r].cancelled = runtime[r].cancelled /\ runtime'[r].slot = t
    BY <1>7, <2>1, TunnelIdFacts DEF RuntimeRow
  <2>3. runtime' \in [Runtimes -> RuntimeRow]
    BY <1>1, <1>6, <2>1, <2>2
  <2> QED BY <2>1, <2>2, <2>3
<1>13. p # t
  BY <1>1, <1>3, <1>6, <1>7 DEF SlotsRegistered
<1>14. TunnelsTypeOK'
  BY <1>1, <1>6, <1>11, <1>12 DEF TunnelsTypeOK
<1>15. UpdateConsistent'
  <2>1. active # 0 => active \in Runtimes
    BY <1>1, TunnelIdFacts DEF TunnelsTypeOK
  <2> QED BY <1>1, <1>6, <1>12, <2>1 DEF UpdateConsistent
<1>16. SlotsRegistered'
  <2>1. ASSUME NEW q \in Runtimes, NEW u \in Connections, runtime'[q].slot = u
        PROVE  session'[u].at \notin {"new", "checked", "found"}
    BY <1>1, <1>9, <1>11, <1>12, <2>1 DEF SlotsRegistered
  <2>2. \A u \in Connections : session'[u].at = "replacing" => session'[u].old # u
    BY <1>1, <1>9, <1>11, <1>13 DEF SlotsRegistered
  <2>3. ASSUME NEW u \in Connections, session'[u].at \notin {"new", "checked", "gone"}
        PROVE  session'[u].runtime \in Runtimes /\ runtime'[session'[u].runtime].version # 0
    BY <1>1, <1>7, <1>9, <1>11, <1>12, <2>3 DEF SlotsRegistered
  <2> QED BY <2>1, <2>2, <2>3 DEF SlotsRegistered
<1>17. SlotKept'
  <2> SUFFICES ASSUME NEW u \in Connections, Registered(u)', ~ Cancelled(u)' PROVE HasSlot(u)' \/ AboutToGo(u)'
    BY DEF SlotKept
  <2>1. CASE u = t
    BY <1>7, <1>9, <1>11, <1>12, <2>1 DEF HasSlot
  <2>2. CASE u # t
    <3>1. session'[u] = session[u] /\ Registered(u)
      BY <1>11, <2>2 DEF Registered
    <3>2. session[u].runtime \in Runtimes
      BY <1>1, <3>1 DEF SlotsRegistered, Registered
    <3>3. ~ Cancelled(u)
      BY <1>12, <3>1, <3>2 DEF Cancelled
    <3>4. CASE HasSlot(u)
      <4>1. CASE session[u].runtime = r
        <5>1. session'[t].at = "replacing" /\ session'[t].old = u
          BY <1>3, <1>9, <1>11, <3>4, <4>1 DEF HasSlot
        <5> QED BY <5>1 DEF AboutToGo
      <4>2. CASE session[u].runtime # r
        BY <1>12, <3>1, <3>2, <3>4, <4>2 DEF HasSlot
      <4> QED BY <4>1, <4>2
    <3>5. CASE AboutToGo(u)
      <4>1. PICK v \in Connections : session[v].at = "replacing" /\ session[v].old = u
        BY <3>5 DEF AboutToGo
      <4>2. session'[v] = session[v]
        BY <1>6, <1>11, <4>1
      <4> QED BY <4>1, <4>2 DEF AboutToGo
    <3> QED BY <1>1, <3>1, <3>3, <3>4, <3>5 DEF SlotKept
  <2> QED BY <2>1, <2>2
<1> QED BY <1>14, <1>15, <1>16, <1>17 DEF TunnelsInv

LEMMA CancelReplacedHolds == ASSUME TunnelsInv, NEW t \in Connections, CancelReplaced(t) PROVE TunnelsInv'
<1>1. /\ TunnelsTypeOK /\ UpdateConsistent /\ SlotsRegistered /\ SlotKept
      /\ session \in [Connections -> SessionRow]
  BY DEF TunnelsInv, TunnelsTypeOK
<1>2. session[t].at = "replacing" /\ UNCHANGED <<configured, active, runtime, update>> /\ session[t].old # t
  BY <1>1 DEF CancelReplaced, SlotsRegistered
<1>3. PICK d : d = [session[t] EXCEPT !.at = "registered"]
  OBVIOUS
<1>4. PICK s : s = [d EXCEPT !.old = 0]
  OBVIOUS
<1>5. d \in SessionRow /\ d.at = "registered" /\ d.runtime = session[t].runtime /\ d.cancelled = session[t].cancelled
  BY <1>1, <1>3 DEF SessionRow, Positions
<1>6. s \in SessionRow /\ s.at = "registered" /\ s.runtime = session[t].runtime /\ s.cancelled = session[t].cancelled
  BY <1>4, <1>5, TunnelIdFacts DEF SessionRow
<1>7. session'[t] = s
  BY <1>1, <1>2, <1>3, <1>4 DEF CancelReplaced, SessionRow
<1>8. ASSUME NEW u \in Connections, u # t
      PROVE  /\ session'[u] \in SessionRow /\ session'[u].at = session[u].at
             /\ session'[u].runtime = session[u].runtime /\ session'[u].old = session[u].old
             /\ session[u].cancelled => session'[u].cancelled
             /\ u = session[t].old => session'[u].cancelled
  <2>1. CASE u = session[t].old
    <3>1. session'[u] = [session[u] EXCEPT !.cancelled = TRUE] /\ session[u] \in SessionRow
      BY <1>1, <1>8, <2>1 DEF CancelReplaced
    <3> QED BY <3>1 DEF SessionRow
  <2>2. CASE u # session[t].old
    BY <1>1, <1>8, <2>2 DEF CancelReplaced
  <2> QED BY <2>1, <2>2
<1>9. session' \in [Connections -> SessionRow]
  BY <1>6, <1>7, <1>8 DEF CancelReplaced
<1>10. TunnelsTypeOK' /\ UpdateConsistent'
  BY <1>1, <1>2, <1>9 DEF TunnelsTypeOK, UpdateConsistent
<1>11. SlotsRegistered'
  <2>1. ASSUME NEW q \in Runtimes, NEW u \in Connections, runtime[q].slot = u
        PROVE  session'[u].at \notin {"new", "checked", "found"}
    BY <1>1, <1>6, <1>7, <1>8, <2>1 DEF SlotsRegistered
  <2>2. \A u \in Connections : session'[u].at = "replacing" => session'[u].old # u
    BY <1>1, <1>6, <1>7, <1>8 DEF SlotsRegistered
  <2>3. ASSUME NEW u \in Connections, session'[u].at \notin {"new", "checked", "gone"}
        PROVE  session'[u].runtime \in Runtimes /\ runtime[session'[u].runtime].version # 0
    BY <1>1, <1>2, <1>6, <1>7, <1>8, <2>3 DEF SlotsRegistered
  <2> QED BY <1>2, <2>1, <2>2, <2>3 DEF SlotsRegistered
<1>12. SlotKept'
  <2> SUFFICES ASSUME NEW u \in Connections, Registered(u)', ~ Cancelled(u)' PROVE HasSlot(u)' \/ AboutToGo(u)'
    BY DEF SlotKept
  <2>1. /\ Registered(u) /\ ~ Cancelled(u) /\ session'[u].runtime = session[u].runtime
        /\ u # t => u # session[t].old
    BY <1>2, <1>6, <1>7, <1>8 DEF Registered, Cancelled
  <2>2. u # session[t].old
    BY <1>2, <2>1
  <2>3. CASE HasSlot(u)
    BY <1>2, <2>1, <2>3 DEF HasSlot
  <2>4. CASE AboutToGo(u)
    <3>1. PICK v \in Connections : session[v].at = "replacing" /\ session[v].old = u
      BY <2>4 DEF AboutToGo
    <3>2. v # t
      BY <2>2, <3>1
    <3>3. session'[v].at = "replacing" /\ session'[v].old = u
      BY <1>8, <3>1, <3>2
    <3> QED BY <3>3 DEF AboutToGo
  <2> QED BY <1>1, <2>1, <2>3, <2>4 DEF SlotKept
<1> QED BY <1>10, <1>11, <1>12 DEF TunnelsInv

LEMMA RemoveTunnelHolds == ASSUME TunnelsInv, NEW t \in Connections, RemoveTunnel(t) PROVE TunnelsInv'
<1>1. /\ TunnelsTypeOK /\ UpdateConsistent /\ SlotsRegistered /\ SlotKept
      /\ session \in [Connections -> SessionRow] /\ runtime \in [Runtimes -> RuntimeRow]
  BY DEF TunnelsInv, TunnelsTypeOK
<1>2. PICK r : r = session[t].runtime
  OBVIOUS
<1>3. /\ session[t].at = "ending" /\ session' = [session EXCEPT ![t] = Gone]
      /\ runtime' = [runtime EXCEPT ![r].slot = IF @ = t THEN 0 ELSE @]
      /\ UNCHANGED <<configured, active, update>>
  BY <1>2 DEF RemoveTunnel
<1>4. r \in Runtimes /\ runtime[r] \in RuntimeRow
  BY <1>1, <1>2, <1>3 DEF SlotsRegistered
<1>5. Gone \in SessionRow /\ Gone.at = "gone"
  BY TunnelIdFacts DEF Gone, SessionRow, Positions
<1>6. /\ session' \in [Connections -> SessionRow] /\ session'[t] = Gone
      /\ \A u \in Connections \ {t} : session'[u] = session[u]
  BY <1>1, <1>3, <1>5
<1>7. /\ runtime' \in [Runtimes -> RuntimeRow]
      /\ \A q \in Runtimes : /\ runtime'[q].version = runtime[q].version
                             /\ runtime'[q].cancelled = runtime[q].cancelled
                             /\ runtime'[q].slot \in {0, runtime[q].slot}
                             /\ runtime[q].slot # t => runtime'[q].slot = runtime[q].slot
  <2>1. PICK k : k = IF runtime[r].slot = t THEN 0 ELSE runtime[r].slot
    OBVIOUS
  <2>2. runtime'[r] = [runtime[r] EXCEPT !.slot = k] /\ \A q \in Runtimes \ {r} : runtime'[q] = runtime[q]
    BY <1>1, <1>3, <1>4, <2>1
  <2>3. /\ runtime'[r] \in RuntimeRow /\ runtime'[r].version = runtime[r].version
        /\ runtime'[r].cancelled = runtime[r].cancelled /\ runtime'[r].slot = k
    BY <1>4, <2>1, <2>2, TunnelIdFacts DEF RuntimeRow
  <2>4. runtime' \in [Runtimes -> RuntimeRow]
    BY <1>1, <1>3, <2>2, <2>3
  <2> QED BY <2>1, <2>2, <2>3, <2>4
<1>8. TunnelsTypeOK'
  BY <1>1, <1>3, <1>6, <1>7 DEF TunnelsTypeOK
<1>9. UpdateConsistent'
  <2>1. active # 0 => active \in Runtimes
    BY <1>1, TunnelIdFacts DEF TunnelsTypeOK
  <2> QED BY <1>1, <1>3, <1>7, <2>1 DEF UpdateConsistent
<1>10. SlotsRegistered'
  <2>1. ASSUME NEW q \in Runtimes, NEW u \in Connections, runtime'[q].slot = u
        PROVE  session'[u].at \notin {"new", "checked", "found"}
    <3>1. u # 0
      BY TunnelIdFacts
    <3>2. runtime[q].slot = u
      BY <1>7, <2>1, <3>1
    <3>3. session[u].at \notin {"new", "checked", "found"}
      BY <1>1, <3>2 DEF SlotsRegistered
    <3> QED BY <1>5, <1>6, <3>3
  <2>2. \A u \in Connections : session'[u].at = "replacing" => session'[u].old # u
    BY <1>1, <1>5, <1>6 DEF SlotsRegistered
  <2>3. ASSUME NEW u \in Connections, session'[u].at \notin {"new", "checked", "gone"}
        PROVE  session'[u].runtime \in Runtimes /\ runtime'[session'[u].runtime].version # 0
    BY <1>1, <1>5, <1>6, <1>7, <2>3 DEF SlotsRegistered
  <2> QED BY <2>1, <2>2, <2>3 DEF SlotsRegistered
<1>11. SlotKept'
  <2> SUFFICES ASSUME NEW u \in Connections, Registered(u)', ~ Cancelled(u)' PROVE HasSlot(u)' \/ AboutToGo(u)'
    BY DEF SlotKept
  <2>1. u # t /\ session'[u] = session[u] /\ Registered(u)
    BY <1>5, <1>6 DEF Registered
  <2>2. session[u].runtime \in Runtimes
    BY <1>1, <2>1 DEF SlotsRegistered, Registered
  <2>3. ~ Cancelled(u)
    BY <1>7, <2>1, <2>2 DEF Cancelled
  <2>4. CASE HasSlot(u)
    BY <1>7, <2>1, <2>2, <2>4 DEF HasSlot
  <2>5. CASE AboutToGo(u)
    <3>1. PICK v \in Connections : session[v].at = "replacing" /\ session[v].old = u
      BY <2>5 DEF AboutToGo
    <3>2. session'[v] = session[v]
      BY <1>3, <1>6, <3>1
    <3> QED BY <3>1, <3>2 DEF AboutToGo
  <2> QED BY <1>1, <2>1, <2>3, <2>4, <2>5 DEF SlotKept
<1> QED BY <1>8, <1>9, <1>10, <1>11 DEF TunnelsInv

\* The steps of apply_routes that touch no runtime and no connection.
LEMMA UpdateMoves ==
    ASSUME TunnelsInv, UNCHANGED <<runtime, session>>, configured' \in 0 .. MaxConfig,
           active' \in 0 .. MaxRuntime, update' \in UpdateRow, UpdateConsistent'
    PROVE  TunnelsInv'
  BY DEF TunnelsInv, TunnelsTypeOK, SlotsRegistered, SlotKept, Registered, Cancelled, HasSlot, AboutToGo

LEMMA PlainUpdateSteps ==
    ASSUME TunnelsInv, (\E v \in 0 .. MaxConfig : BeginUpdate(v)) \/ UpdateFails \/ FinishUpdate
    PROVE  TunnelsInv'
<1>1. /\ UpdateConsistent /\ update \in UpdateRow /\ active \in 0 .. MaxRuntime /\ configured \in 0 .. MaxConfig
  BY DEF TunnelsInv, TunnelsTypeOK
<1>2. ASSUME NEW v \in 0 .. MaxConfig, BeginUpdate(v) PROVE TunnelsInv'
  <2>1. update.at = "idle" /\ update.removed = 0 /\ UNCHANGED <<configured, runtime, session>>
    BY <1>1, <1>2 DEF BeginUpdate, UpdateConsistent
  <2>2. CASE active # 0 /\ runtime[active].version # v
    <3>1. update' = [at |-> "revoke", next |-> v, removed |-> active] /\ active' = 0
      BY <1>2, <2>2 DEF BeginUpdate
    <3>2. update' \in UpdateRow /\ active' \in 0 .. MaxRuntime
      BY <1>1, <3>1, TunnelIdFacts DEF UpdateRow
    <3>3. UpdateConsistent'
      BY <1>1, <2>1, <2>2, <3>1 DEF UpdateConsistent
    <3> QED BY <1>1, <2>1, <3>2, <3>3, UpdateMoves
  <2>3. CASE ~ (active # 0 /\ runtime[active].version # v)
    <3>1. update' = [at |-> "start", next |-> v, removed |-> 0] /\ active' = active
      BY <1>2, <2>3 DEF BeginUpdate
    <3>2. update' \in UpdateRow
      BY <3>1, TunnelIdFacts DEF UpdateRow
    <3>3. UpdateConsistent'
      BY <1>1, <2>1, <3>1 DEF UpdateConsistent
    <3> QED BY <1>1, <2>1, <3>1, <3>2, <3>3, UpdateMoves
  <2> QED BY <2>2, <2>3
<1>3. ASSUME UpdateFails \/ FinishUpdate PROVE TunnelsInv'
  <2>1. /\ update.at = "start" /\ update' = [update EXCEPT !.at = "idle"]
        /\ UNCHANGED <<active, runtime, session>> /\ configured' \in {configured, update.next}
    BY <1>3 DEF UpdateFails, FinishUpdate
  <2>2. update' \in UpdateRow /\ update'.at = "idle" /\ update'.removed = update.removed /\ update.next \in 0 .. MaxConfig
    BY <1>1, <2>1 DEF UpdateRow
  <2>3. UpdateConsistent'
    BY <1>1, <2>1, <2>2 DEF UpdateConsistent
  <2> QED BY <1>1, <2>1, <2>2, <2>3, UpdateMoves
<1> QED BY <1>2, <1>3

LEMMA StartRouteHolds == ASSUME TunnelsInv, NEW r \in Runtimes, StartRoute(r) PROVE TunnelsInv'
<1>1. /\ TunnelsTypeOK /\ UpdateConsistent /\ SlotsRegistered /\ SlotKept
      /\ runtime \in [Runtimes -> RuntimeRow] /\ update \in UpdateRow
  BY DEF TunnelsInv, TunnelsTypeOK
<1>2. /\ update.at = "start" /\ update.next # 0 /\ active = 0 /\ active' = r
      /\ runtime' = [runtime EXCEPT ![r].version = update.next] /\ runtime[r].version = 0
      /\ UNCHANGED <<configured, session, update>>
  BY DEF StartRoute
<1>3. /\ runtime' \in [Runtimes -> RuntimeRow]
      /\ \A q \in Runtimes : /\ runtime'[q].version = IF q = r THEN update.next ELSE runtime[q].version
                             /\ runtime'[q].cancelled = runtime[q].cancelled
                             /\ runtime'[q].slot = runtime[q].slot
  <2>1. runtime'[r] = [runtime[r] EXCEPT !.version = update.next] /\ \A q \in Runtimes \ {r} : runtime'[q] = runtime[q]
    BY <1>1, <1>2
  <2>2. /\ runtime'[r] \in RuntimeRow /\ runtime'[r].version = update.next
        /\ runtime'[r].cancelled = runtime[r].cancelled /\ runtime'[r].slot = runtime[r].slot
    BY <1>1, <2>1 DEF RuntimeRow, UpdateRow
  <2>3. runtime' \in [Runtimes -> RuntimeRow]
    BY <1>1, <1>2, <2>1, <2>2
  <2> QED BY <2>1, <2>2, <2>3
<1>4. TunnelsTypeOK'
  BY <1>1, <1>2, <1>3, TunnelIdFacts DEF TunnelsTypeOK
<1>5. UpdateConsistent'
  BY <1>1, <1>2, <1>3, TunnelIdFacts DEF UpdateConsistent
<1>6. SlotsRegistered'
  BY <1>1, <1>2, <1>3 DEF SlotsRegistered
<1>7. SlotKept'
  <2> SUFFICES ASSUME NEW u \in Connections, Registered(u)', ~ Cancelled(u)' PROVE HasSlot(u)' \/ AboutToGo(u)'
    BY DEF SlotKept
  <2>1. Registered(u) /\ session[u].runtime \in Runtimes
    BY <1>1, <1>2 DEF SlotsRegistered, Registered
  <2>2. ~ Cancelled(u)
    BY <1>2, <1>3, <2>1 DEF Cancelled
  <2> QED BY <1>1, <1>2, <1>3, <2>1, <2>2 DEF SlotKept, HasSlot, AboutToGo
<1> QED BY <1>4, <1>5, <1>6, <1>7 DEF TunnelsInv

LEMMA RevokeRuntimeHolds == ASSUME TunnelsInv, RevokeRuntime PROVE TunnelsInv'
<1>1. /\ TunnelsTypeOK /\ UpdateConsistent /\ SlotsRegistered /\ SlotKept
      /\ runtime \in [Runtimes -> RuntimeRow] /\ update \in UpdateRow /\ session \in [Connections -> SessionRow]
  BY DEF TunnelsInv, TunnelsTypeOK
<1>2. PICK r : r = update.removed
  OBVIOUS
<1>3. /\ update.at = "revoke" /\ update' = [update EXCEPT !.at = "start", !.removed = 0]
      /\ session' = [t \in Connections |-> IF t = runtime[r].slot THEN [session[t] EXCEPT !.cancelled = TRUE] ELSE session[t]]
      /\ runtime' = [runtime EXCEPT ![r].cancelled = TRUE, ![r].slot = 0]
      /\ UNCHANGED <<configured, active>>
  BY <1>2 DEF RevokeRuntime
<1>4. r \in Runtimes /\ active = 0 /\ runtime[r] \in RuntimeRow
  BY <1>1, <1>2, <1>3, TunnelIdFacts DEF UpdateConsistent, UpdateRow
<1>5. update' \in UpdateRow /\ update'.at = "start" /\ update'.removed = 0
  <2>1. PICK d : d = [update EXCEPT !.at = "start"]
    OBVIOUS
  <2>2. d \in UpdateRow /\ d.at = "start" /\ update' = [d EXCEPT !.removed = 0]
    BY <1>1, <1>3, <2>1 DEF UpdateRow
  <2> QED BY <2>2, TunnelIdFacts DEF UpdateRow
<1>6. /\ runtime' \in [Runtimes -> RuntimeRow] /\ runtime'[r].cancelled /\ runtime'[r].slot = 0
      /\ runtime'[r].version = runtime[r].version
      /\ \A q \in Runtimes \ {r} : runtime'[q] = runtime[q]
  <2>1. PICK d : d = [runtime[r] EXCEPT !.cancelled = TRUE]
    OBVIOUS
  <2>2. PICK k : k = [d EXCEPT !.slot = 0]
    OBVIOUS
  <2>3. d \in RuntimeRow /\ d.cancelled /\ d.version = runtime[r].version
    BY <1>4, <2>1 DEF RuntimeRow
  <2>4. k \in RuntimeRow /\ k.cancelled /\ k.version = runtime[r].version /\ k.slot = 0
    BY <2>2, <2>3, TunnelIdFacts DEF RuntimeRow
  <2>5. runtime' = [runtime EXCEPT ![r] = k]
    BY <1>1, <1>3, <1>4, <2>1, <2>2 DEF RuntimeRow
  <2> QED BY <1>1, <1>4, <2>4, <2>5
<1>7. ASSUME NEW u \in Connections
      PROVE  /\ session'[u] \in SessionRow /\ session'[u].at = session[u].at
             /\ session'[u].runtime = session[u].runtime /\ session'[u].old = session[u].old
             /\ session[u].cancelled => session'[u].cancelled
  <2>1. CASE u = runtime[r].slot
    <3>1. session'[u] = [session[u] EXCEPT !.cancelled = TRUE] /\ session[u] \in SessionRow
      BY <1>1, <1>3, <2>1
    <3> QED BY <3>1 DEF SessionRow
  <2>2. CASE u # runtime[r].slot
    BY <1>1, <1>3, <2>2
  <2> QED BY <2>1, <2>2
<1>8. session' \in [Connections -> SessionRow]
  BY <1>3, <1>7
<1>9. TunnelsTypeOK'
  BY <1>1, <1>3, <1>5, <1>6, <1>8 DEF TunnelsTypeOK
<1>10. UpdateConsistent'
  BY <1>1, <1>2, <1>3, <1>4, <1>5, <1>6 DEF UpdateConsistent
<1>11. SlotsRegistered'
  <2>1. ASSUME NEW q \in Runtimes, NEW u \in Connections, runtime'[q].slot = u
        PROVE  session'[u].at \notin {"new", "checked", "found"}
    BY <1>1, <1>6, <1>7, <2>1, TunnelIdFacts DEF SlotsRegistered
  <2>2. \A u \in Connections : session'[u].at = "replacing" => session'[u].old # u
    BY <1>1, <1>7 DEF SlotsRegistered
  <2>3. ASSUME NEW u \in Connections, session'[u].at \notin {"new", "checked", "gone"}
        PROVE  session'[u].runtime \in Runtimes /\ runtime'[session'[u].runtime].version # 0
    BY <1>1, <1>6, <1>7, <2>3 DEF SlotsRegistered
  <2> QED BY <2>1, <2>2, <2>3 DEF SlotsRegistered
<1>12. SlotKept'
  <2> SUFFICES ASSUME NEW u \in Connections, Registered(u)', ~ Cancelled(u)' PROVE HasSlot(u)' \/ AboutToGo(u)'
    BY DEF SlotKept
  <2>1. Registered(u) /\ session[u].runtime \in Runtimes /\ session'[u].runtime = session[u].runtime
    BY <1>1, <1>7 DEF SlotsRegistered, Registered
  <2>2. session[u].runtime # r /\ ~ Cancelled(u)
    BY <1>6, <1>7, <2>1 DEF Cancelled
  <2>3. HasSlot(u) => HasSlot(u)'
    BY <1>6, <2>1, <2>2 DEF HasSlot
  <2>4. AboutToGo(u) => AboutToGo(u)'
    BY <1>7 DEF AboutToGo
  <2> QED BY <1>1, <2>1, <2>2, <2>3, <2>4 DEF SlotKept
<1> QED BY <1>9, <1>10, <1>11, <1>12 DEF TunnelsInv

\* A node that believes it is registered is the one members are connected to, or is about
\* to be cancelled by the one that took its place; and no tunnel outlives the configuration
\* it was registered under: for every number of reloads, reconnections and tear-downs, in
\* every interleaving (register_tunnel, remove_tunnel, RouteRuntime::revoke, apply_routes).
THEOREM LiveTunnelsReachable == TunnelsSpec => []LiveTunnelIsReachable
<1>1. TunnelsInit => TunnelsInv
  <2> SUFFICES ASSUME TunnelsInit PROVE TunnelsInv
    OBVIOUS
  <2>1. /\ configured = 0 /\ active = 0 /\ update = [at |-> "idle", next |-> 0, removed |-> 0]
        /\ runtime = [r \in Runtimes |-> [version |-> 0, cancelled |-> FALSE, slot |-> 0]]
        /\ session = [t \in Connections |-> [at |-> "new", version |-> 0, runtime |-> 0, cancelled |-> FALSE, old |-> 0]]
    BY DEF TunnelsInit
  <2>2. TunnelsTypeOK
    BY <2>1, TunnelIdFacts DEF TunnelsTypeOK, UpdateRow, RuntimeRow, SessionRow, Positions
  <2>3. UpdateConsistent
    BY <2>1 DEF UpdateConsistent
  <2>4. SlotsRegistered /\ SlotKept
    BY <2>1, TunnelIdFacts DEF SlotsRegistered, SlotKept, Registered
  <2> QED BY <2>2, <2>3, <2>4 DEF TunnelsInv
<1>2. TunnelsInv /\ [TunnelsNext]_tunnelsVars => TunnelsInv'
  <2> SUFFICES ASSUME TunnelsInv, [TunnelsNext]_tunnelsVars PROVE TunnelsInv'
    OBVIOUS
  <2>1. CASE UNCHANGED tunnelsVars
    BY <2>1 DEF tunnelsVars, TunnelsInv, TunnelsTypeOK, UpdateConsistent, SlotsRegistered, SlotKept, Registered,
                Cancelled, HasSlot, AboutToGo
  <2>2. CASE TunnelsNext
    BY <2>2, PlainUpdateSteps, RevokeRuntimeHolds, StartRouteHolds, PlainConnectionSteps, RegisterTunnelHolds,
       CancelReplacedHolds, RemoveTunnelHolds DEF TunnelsNext, TunnelStep
  <2> QED BY <2>1, <2>2
<1>3. TunnelsInv => LiveTunnelIsReachable
  <2> SUFFICES ASSUME TunnelsInv, NEW t \in Connections, Registered(t), ~ Cancelled(t)
               PROVE  /\ HasSlot(t) \/ AboutToGo(t)
                      /\ session[t].runtime \in {active, update.removed}
    BY DEF LiveTunnelIsReachable, Registered, HasSlot, AboutToGo
  <2>1. session[t].runtime \in Runtimes /\ runtime[session[t].runtime].version # 0
    BY DEF TunnelsInv, SlotsRegistered, Registered
  <2> QED BY <2>1 DEF TunnelsInv, SlotKept, UpdateConsistent, Cancelled
<1> QED BY <1>1, <1>2, <1>3, PTL DEF TunnelsSpec

-----------------------------------------------------------------------------
(* Relay: a job that was read fits its grant for ever, because a grant     *)
(* only moves forward; so no revocation read earlier can undo a            *)
(* publication, and every row leaves the outbox with its work done.        *)

GrantStates == {"none", "pending", "published", "revoking", "revoked"}
Ending == {"revoking", "revoked"}
Purposes == {"nothing", "decide", "answer", "acknowledged", "fetch", "ensure"}
WorkerRow == [at : {"idle", "expire", "read", "work", "mark", "store", "reply"} \cup Purposes, for : Purposes,
              heard : BOOLEAN, node : RelayNodes, pass : 0 .. 2, jobs : SUBSET Jobs, job : Jobs \cup {<<>>},
              draft : 0 .. MaxGrant, port : Nat]
HostRow == [consents : BOOLEAN, blocked : BOOLEAN, current : 0 .. MaxGrant, successor : 0 .. MaxGrant]

RelayTypeOK ==
    /\ grant \in [Grants -> GrantStates] /\ outbox \in SUBSET Jobs /\ documents \in SUBSET Grants
    /\ worker \in [Workers -> WorkerRow] /\ host \in [RelayNodes -> HostRow]

\* A job that a worker has read: its grant exists, and one to be revoked stays so.
JobFits(j) == grant[j[2]] # "none" /\ (j[1] = "revoke" => grant[j[2]] \in Ending)

\* A worker between the file and the row: what it published is on disk, unless the grant
\* is being revoked by now, and what it removed is off disk, unless another wrote it late.
WorkerFits(x) ==
    /\ \A j \in x.jobs : JobFits(j)
    /\ x.at = "mark" => /\ x.job \in Jobs /\ JobFits(x.job)
                        /\ x.job[1] = "publish" /\ grant[x.job[2]] = "pending" => x.job[2] \in documents
                        /\ x.job[1] = "revoke" /\ x.job[2] \in documents => x.job[2] \in overtaken
    /\ x.at = "store" => x.draft # 0

RelayInv ==
    /\ RelayTypeOK /\ \A w \in Workers : WorkerFits(worker[w])
    /\ PublishedIsOnDisk /\ OutboxCoversGrants /\ RevokedIsOffDisk /\ ManagedStateLoads

\* A set of numbers that is not empty has a least one, and a bounded one has a largest.
LEMMA LeastNumber ==
    ASSUME NEW S, S \subseteq Nat, S # {}
    PROVE  \E a \in S : \A b \in S : a <= b
<1> DEFINE R == OpToRel(<, Nat)
<1>1. \E x \in S : \A y \in S : ~ (<<y, x>> \in R)
  BY NatLessThanWellFounded, WFMin
<1>2. \A x, y \in Nat : x < y => <<x, y>> \in R
  BY DEF OpToRel
<1> HIDE DEF R
<1>3. PICK x \in S : \A y \in S : ~ (<<y, x>> \in R)
  BY <1>1
<1>4. \A y \in S : ~ (y < x)
  BY <1>2, <1>3
<1> QED BY <1>4

LEMMA LargestGeneration ==
    ASSUME NEW S, S \subseteq 1 .. MaxGrant, S # {}
    PROVE  Max(S) \in S /\ \A b \in S : Max(S) >= b
<1>0. MaxGrant \in Nat
  BY RelayAssumption
<1> DEFINE T == {MaxGrant - k : k \in S}
<1>1. T \subseteq Nat /\ T # {}
  <2>1. \A k \in S : MaxGrant - k \in Nat
    BY <1>0
  <2>2. PICK k \in S : TRUE
    OBVIOUS
  <2>3. MaxGrant - k \in T
    OBVIOUS
  <2> QED BY <2>1, <2>3
<1>2. PICK m \in T : \A y \in T : m <= y
  BY <1>1, LeastNumber
<1>3. PICK k \in S : m = MaxGrant - k
  BY <1>2
<1>4. \A b \in S : k >= b
  <2> SUFFICES ASSUME NEW b \in S PROVE k >= b
    OBVIOUS
  <2>1. m <= MaxGrant - b
    BY <1>2
  <2> QED BY <1>0, <1>3, <2>1
<1>5. \E x \in S : \A y \in S : x >= y
  BY <1>4
<1> QED BY <1>5 DEF Max

LEMMA AssignmentType == \A n : Assignment(n) \in 0 .. MaxGrant
<1> SUFFICES ASSUME NEW n PROVE Assignment(n) \in 0 .. MaxGrant
  OBVIOUS
<1> DEFINE usable == {k \in 1 .. MaxGrant : grant[<<n, k>>] = "published" /\ <<n, k>> \notin lapsed}
<1>1. MaxGrant \in Nat
  BY RelayAssumption
<1>2. CASE usable = {}
  BY <1>1, <1>2 DEF Assignment
<1>3. CASE usable # {}
  <2>1. Max(usable) \in 1 .. MaxGrant
    BY <1>3, LargestGeneration
  <2> QED BY <1>1, <1>3, <2>1 DEF Assignment
<1> QED BY <1>2, <1>3

LEMMA RestingFits ==
    /\ Resting \in WorkerRow /\ Resting.at = "idle" /\ Resting.jobs = {}
    /\ Resting.node \in RelayNodes /\ Resting.draft = 0
<1>1. (CHOOSE n \in RelayNodes : TRUE) \in RelayNodes
  BY RelayAssumption
<1>2. MaxGrant \in Nat /\ 0 \in 0 .. MaxGrant
  BY RelayAssumption
<1> QED BY <1>1, <1>2 DEF Resting, WorkerRow, Purposes

LEMMA GrantFacts ==
    /\ \A g \in Grants : g[1] \in RelayNodes /\ g[2] \in 1 .. MaxGrant /\ g = <<g[1], g[2]>>
    /\ \A n \in RelayNodes, k \in 1 .. MaxGrant : <<n, k>> \in Grants
    /\ \A j \in Jobs : j[1] \in {"publish", "revoke"} /\ j[2] \in Grants /\ j = <<j[1], j[2]>>
    /\ \A g \in Grants : <<"publish", g>> \in Jobs /\ <<"revoke", g>> \in Jobs
    /\ MaxGrant \in Nat /\ 0 \in 0 .. MaxGrant
  BY RelayAssumption DEF Grants, Jobs

\* Grants only move forward, and a step takes away no document that is still needed; one
\* that it adds for a grant that has ended is remembered as written late.
Advances ==
    /\ \A g \in Grants : /\ grant[g] # "none" => grant'[g] # "none"
                         /\ grant[g] \in Ending => grant'[g] \in Ending
                         /\ grant'[g] = "pending" => grant[g] \in {"none", "pending"}
    /\ \A g \in documents : grant'[g] \in {"pending", "published"} => g \in documents'
    /\ \A g \in Grants : grant[g] \in Ending /\ g \in documents' => g \in documents \/ g \in overtaken'
    /\ overtaken \subseteq overtaken'

LEMMA FitsKept ==
    ASSUME Advances, NEW x \in WorkerRow, WorkerFits(x)
    PROVE  WorkerFits(x)'
<1>1. \A j \in Jobs : JobFits(j) => JobFits(j)'
  <2> SUFFICES ASSUME NEW j \in Jobs, JobFits(j) PROVE JobFits(j)'
    OBVIOUS
  <2>1. j[2] \in Grants
    BY GrantFacts
  <2> QED BY <2>1 DEF JobFits, Advances
<1>2. x.jobs \subseteq Jobs
  BY DEF WorkerRow
<1>3. ASSUME x.at = "mark"
      PROVE  /\ x.job \in Jobs /\ JobFits(x.job)'
             /\ x.job[1] = "publish" /\ grant'[x.job[2]] = "pending" => x.job[2] \in documents'
             /\ x.job[1] = "revoke" /\ x.job[2] \in documents' => x.job[2] \in overtaken'
  <2>1. x.job \in Jobs /\ JobFits(x.job) /\ x.job[2] \in Grants /\ grant[x.job[2]] # "none"
    BY <1>3, GrantFacts DEF WorkerFits, JobFits
  <2>2. ASSUME x.job[1] = "publish", grant'[x.job[2]] = "pending" PROVE x.job[2] \in documents'
    <3>1. grant[x.job[2]] = "pending"
      BY <2>1, <2>2 DEF Advances
    <3>2. x.job[2] \in documents
      BY <1>3, <2>2, <3>1 DEF WorkerFits
    <3> QED BY <2>2, <3>2 DEF Advances
  <2>3. ASSUME x.job[1] = "revoke", x.job[2] \in documents' PROVE x.job[2] \in overtaken'
    <3>1. grant[x.job[2]] \in Ending
      BY <2>1, <2>3 DEF JobFits
    <3>2. x.job[2] \in documents \/ x.job[2] \in overtaken'
      BY <2>1, <2>3, <3>1 DEF Advances
    <3>3. x.job[2] \in documents => x.job[2] \in overtaken
      BY <1>3, <2>3 DEF WorkerFits
    <3> QED BY <3>2, <3>3 DEF Advances
  <2> QED BY <1>1, <2>1, <2>2, <2>3
<1>4. x.at = "store" => x.draft # 0
  BY DEF WorkerFits
<1>5. Jobs' = Jobs
  BY DEF Jobs, Grants
<1> QED BY <1>1, <1>2, <1>3, <1>4, <1>5 DEF WorkerFits

\* A step of one worker.
LEMMA WorkerMoves ==
    ASSUME RelayInv, NEW w \in Workers, NEW x \in WorkerRow, worker' = [worker EXCEPT ![w] = x],
           grant' \in [Grants -> GrantStates], outbox' \in SUBSET Jobs, documents' \in SUBSET Grants,
           host' \in [RelayNodes -> HostRow], Advances, WorkerFits(x)',
           PublishedIsOnDisk', OutboxCoversGrants', RevokedIsOffDisk', ManagedStateLoads'
    PROVE  RelayInv'
<1>1. worker \in [Workers -> WorkerRow] /\ \A v \in Workers : WorkerFits(worker[v])
  BY DEF RelayInv, RelayTypeOK
<1>2. /\ Grants' = Grants /\ Jobs' = Jobs /\ Workers' = Workers /\ GrantStates' = GrantStates
      /\ WorkerRow' = WorkerRow /\ HostRow' = HostRow
  BY DEF Grants, Jobs, Workers, GrantStates, WorkerRow, HostRow, Purposes
<1>3. worker' \in [Workers -> WorkerRow] /\ worker'[w] = x /\ \A v \in Workers \ {w} : worker'[v] = worker[v]
  BY <1>1
<1>4. RelayTypeOK'
  BY <1>2, <1>3 DEF RelayTypeOK
<1>5. ASSUME NEW v \in Workers PROVE WorkerFits(worker[v])'
  <2>1. PICK y : y = worker'[v]
    OBVIOUS
  <2>2. y \in WorkerRow /\ WorkerFits(y)'
    <3>1. CASE v = w
      BY <1>3, <2>1, <3>1
    <3>2. CASE v # w
      <4>1. y = worker[v] /\ y \in WorkerRow
        BY <1>1, <1>3, <2>1, <3>2
      <4>2. WorkerFits(y)
        BY <1>1, <4>1
      <4> QED BY <4>1, <4>2, FitsKept
    <3> QED BY <3>1, <3>2
  <2> QED BY <2>1, <2>2 DEF WorkerFits, JobFits
<1> QED BY <1>2, <1>4, <1>5 DEF RelayInv

\* A step that leaves the tables alone, and moves one worker.
LEMMA WorkerMovesOnly ==
    ASSUME RelayInv, NEW w \in Workers, NEW x \in WorkerRow, worker' = [worker EXCEPT ![w] = x],
           UNCHANGED <<grant, outbox, documents, host, overtaken>>, WorkerFits(x)
    PROVE  RelayInv'
<1>1. RelayTypeOK /\ PublishedIsOnDisk /\ OutboxCoversGrants /\ RevokedIsOffDisk /\ ManagedStateLoads
  BY DEF RelayInv
<1>2. Advances
  BY DEF Advances
<1>3. WorkerFits(x)'
  BY <1>2, FitsKept
<1>4. PublishedIsOnDisk' /\ OutboxCoversGrants' /\ RevokedIsOffDisk' /\ ManagedStateLoads'
  BY <1>1 DEF PublishedIsOnDisk, OutboxCoversGrants, RevokedIsOffDisk, ManagedStateLoads, Grants
<1> QED BY <1>1, <1>2, <1>3, <1>4, WorkerMoves DEF RelayTypeOK

\* A step in which only nodes, the Relay or time moves.
LEMMA OthersMove ==
    ASSUME RelayInv, UNCHANGED <<grant, outbox, documents, worker, overtaken>>, host' \in [RelayNodes -> HostRow],
           ManagedStateLoads'
    PROVE  RelayInv'
  BY DEF RelayInv, RelayTypeOK, PublishedIsOnDisk, OutboxCoversGrants, RevokedIsOffDisk, WorkerFits, JobFits, Grants, Jobs, Workers,
         WorkerRow, GrantStates, HostRow

-----------------------------------------------------------------------------
(* The rows a worker goes through *)

LEMMA ReconcileRow ==
    ASSUME NEW f \in Purposes, NEW n \in RelayNodes, NEW b \in BOOLEAN, NEW y,
           y = [Resting EXCEPT !.at = "expire", !.for = f, !.node = n, !.heard = b]
    PROVE  y \in WorkerRow /\ y.at = "expire" /\ y.jobs = {}
  BY RestingFits DEF WorkerRow

LEMMA ProceedRow ==
    ASSUME NEW x \in WorkerRow, NEW y, y = [x EXCEPT !.at = x.for, !.jobs = {}, !.pass = 0, !.job = <<>>]
    PROVE  y \in WorkerRow /\ y.at \in Purposes /\ y.jobs = {}
<1>1. PICK d : d = [x EXCEPT !.at = x.for]
  OBVIOUS
<1>2. d \in WorkerRow /\ d.at \in Purposes
  BY <1>1 DEF WorkerRow
<1>3. PICK c : c = [d EXCEPT !.jobs = {}]
  OBVIOUS
<1>4. c \in WorkerRow /\ c.at = d.at /\ c.jobs = {}
  BY <1>2, <1>3 DEF WorkerRow
<1>5. PICK b : b = [c EXCEPT !.pass = 0]
  OBVIOUS
<1>6. b \in WorkerRow /\ b.at = d.at /\ b.jobs = {}
  BY <1>4, <1>5 DEF WorkerRow
<1>7. y = [b EXCEPT !.job = <<>>]
  BY <1>1, <1>3, <1>5 DEF WorkerRow
<1> QED BY <1>2, <1>6, <1>7 DEF WorkerRow

LEMMA ReplyRow ==
    ASSUME NEW x \in WorkerRow, NEW k \in 0 .. MaxGrant, NEW y,
           y = [x EXCEPT !.at = "reply", !.for = "ensure", !.draft = k]
    PROVE  y \in WorkerRow /\ y.at = "reply" /\ y.jobs = x.jobs
  BY DEF WorkerRow, Purposes

\* What does not change the tables.
LEMMA QuietRelaySteps ==
    ASSUME RelayInv, NEW w \in Workers,
           \/ StartLoop(w) \/ ReadJobs(w) \/ EndPass(w) \/ GiveUp(w) \/ Unheard(w)
           \/ \E n \in RelayNodes : Fetch(w, n) \/ Ensure(w, n)
           \/ KeepAssignment(w) \/ PrepareGrant(w) \/ Answer(w)
    PROVE  RelayInv'
<1>1. PICK x : x = worker[w]
  OBVIOUS
<1>2. x \in WorkerRow /\ WorkerFits(x) /\ outbox \in SUBSET Jobs
  BY <1>1 DEF RelayInv, RelayTypeOK
<1>3. UNCHANGED <<grant, outbox, documents, host, overtaken>>
  BY DEF StartLoop, ReadJobs, EndPass, GiveUp, Unheard, Fetch, Ensure, KeepAssignment, PrepareGrant, Answer
<1>4. ASSUME NEW y \in WorkerRow, y.jobs = {} \/ y.jobs \subseteq x.jobs, y.at \notin {"mark", "store"}
      PROVE  WorkerFits(y)
  BY <1>2, <1>4 DEF WorkerFits
<1>5. ASSUME Become(w, Resting) PROVE RelayInv'
  <2>1. WorkerFits(Resting)
    BY <1>4, RestingFits
  <2> QED BY <1>3, <1>5, <2>1, RestingFits, WorkerMovesOnly DEF Become
<1>6. ASSUME Proceed(w, x) PROVE RelayInv'
  <2>1. CASE x.for = "nothing"
    BY <1>5, <1>6, <2>1 DEF Proceed, Abort
  <2>2. CASE x.for # "nothing"
    <3>1. PICK y : y = [x EXCEPT !.at = x.for, !.jobs = {}, !.pass = 0, !.job = <<>>]
      OBVIOUS
    <3>2. y \in WorkerRow /\ y.at \in Purposes /\ y.jobs = {}
      BY <1>2, <3>1, ProceedRow
    <3>3. worker' = [worker EXCEPT ![w] = y]
      BY <1>6, <2>2, <3>1 DEF Proceed, Become
    <3>4. WorkerFits(y)
      BY <1>4, <3>2 DEF Purposes
    <3> QED BY <1>3, <3>2, <3>3, <3>4, WorkerMovesOnly
  <2> QED BY <2>1, <2>2
<1>7. CASE StartLoop(w)
  <2>1. PICK y : y = [Resting EXCEPT !.at = "expire", !.for = "nothing", !.node = Resting.node, !.heard = FALSE]
    OBVIOUS
  <2>2. worker' = [worker EXCEPT ![w] = y]
    BY <1>7, <2>1 DEF StartLoop, Reconcile, Become
  <2>3. y \in WorkerRow /\ y.at = "expire" /\ y.jobs = {}
    <3>1. Resting.node \in RelayNodes /\ "nothing" \in Purposes
      BY RestingFits DEF Purposes
    <3>2. PICK f \in Purposes, n \in RelayNodes : f = "nothing" /\ n = Resting.node
      BY <3>1
    <3>3. y = [Resting EXCEPT !.at = "expire", !.for = f, !.node = n, !.heard = FALSE]
      BY <2>1, <3>2
    <3> QED BY <3>3, ReconcileRow, Zenon
  <2> QED BY <1>3, <1>4, <2>2, <2>3, WorkerMovesOnly
<1>8. CASE ReadJobs(w)
  <2>1. CASE DueJobs = {}
    BY <1>1, <1>6, <1>8, <2>1 DEF ReadJobs
  <2>2. CASE DueJobs # {}
    <3>1. PICK d : d = [x EXCEPT !.at = "work"]
      OBVIOUS
    <3>2. PICK y : y = [d EXCEPT !.jobs = DueJobs]
      OBVIOUS
    <3>3. DueJobs \in SUBSET Jobs
      BY <1>2 DEF DueJobs
    <3>4. d \in WorkerRow /\ d.at = "work"
      BY <1>2, <3>1 DEF WorkerRow
    <3>5. y \in WorkerRow /\ y.at = "work" /\ y.jobs = DueJobs
      BY <3>2, <3>3, <3>4 DEF WorkerRow
    <3>6. worker' = [worker EXCEPT ![w] = y]
      BY <1>1, <1>2, <1>8, <2>2, <3>1, <3>2 DEF ReadJobs, Become, WorkerRow
    <3>7. \A j \in DueJobs : JobFits(j)
      BY DEF DueJobs, JobFits, Ending
    <3>8. WorkerFits(y)
      BY <3>5, <3>7 DEF WorkerFits
    <3> QED BY <1>3, <3>5, <3>6, <3>8, WorkerMovesOnly
  <2> QED BY <2>1, <2>2
<1>9. CASE EndPass(w)
  <2>1. CASE x.pass # 1
    BY <1>1, <1>6, <1>9, <2>1 DEF EndPass
  <2>2. CASE x.pass = 1
    <3>0. PICK d : d = [x EXCEPT !.at = "read"]
      OBVIOUS
    <3>1. PICK y : y = [d EXCEPT !.pass = 2]
      OBVIOUS
    <3>2. y \in WorkerRow /\ y.at = "read" /\ y.jobs = x.jobs
      <4>1. d \in WorkerRow /\ d.at = "read" /\ d.jobs = x.jobs
        BY <1>2, <3>0 DEF WorkerRow
      <4> QED BY <3>1, <4>1 DEF WorkerRow
    <3>3. worker' = [worker EXCEPT ![w] = y]
      BY <1>1, <1>2, <1>9, <2>2, <3>0, <3>1 DEF EndPass, Become, WorkerRow
    <3> QED BY <1>3, <1>4, <3>2, <3>3, WorkerMovesOnly
  <2> QED BY <2>1, <2>2
<1>10. CASE GiveUp(w)
  <2>1. PICK y : y = [x EXCEPT !.heard = FALSE]
    OBVIOUS
  <2>2. y \in WorkerRow /\ y.at = x.at /\ y.jobs = x.jobs /\ y.job = x.job /\ y.draft = x.draft
    BY <1>2, <2>1 DEF WorkerRow
  <2>3. worker' = [worker EXCEPT ![w] = y]
    BY <1>1, <1>10, <2>1 DEF GiveUp, Become
  <2>4. WorkerFits(y)
    BY <1>2, <2>2 DEF WorkerFits
  <2> QED BY <1>3, <2>2, <2>3, <2>4, WorkerMovesOnly
<1>11. CASE Unheard(w)
  BY <1>5, <1>11 DEF Unheard, Abort
<1>13. ASSUME NEW n \in RelayNodes, Fetch(w, n) PROVE RelayInv'
  <2>1. PICK k : k = Assignment(n)
    OBVIOUS
  <2>2. PICK y : y = [Resting EXCEPT !.at = "reply", !.for = "fetch", !.node = n, !.heard = TRUE, !.draft = k]
    OBVIOUS
  <2>3. y \in WorkerRow /\ y.at = "reply" /\ y.jobs = {}
    <3>1. k \in 0 .. MaxGrant /\ "fetch" \in Purposes /\ TRUE \in BOOLEAN
      BY <2>1, AssignmentType DEF Purposes
    <3> QED BY <2>2, <3>1, RestingFits DEF WorkerRow
  <2>4. worker' = [worker EXCEPT ![w] = y]
    BY <1>13, <2>1, <2>2 DEF Fetch, Become
  <2> QED BY <1>3, <1>4, <2>3, <2>4, WorkerMovesOnly
<1>14. ASSUME NEW n \in RelayNodes, Ensure(w, n) PROVE RelayInv'
  <2>1. PICK y : y = [Resting EXCEPT !.at = "expire", !.for = "decide", !.node = n, !.heard = TRUE]
    OBVIOUS
  <2>2. worker' = [worker EXCEPT ![w] = y]
    BY <1>14, <2>1 DEF Ensure, Reconcile, Become
  <2>3. y \in WorkerRow /\ y.at = "expire" /\ y.jobs = {}
    BY <2>1, ReconcileRow DEF Purposes
  <2> QED BY <1>3, <1>4, <2>2, <2>3, WorkerMovesOnly
<1>15. CASE KeepAssignment(w) \/ Answer(w)
  <2>1. PICK k : k = Assignment(x.node)
    OBVIOUS
  <2>2. PICK y : y = [x EXCEPT !.at = "reply", !.for = "ensure", !.draft = k]
    OBVIOUS
  <2>3. y \in WorkerRow /\ y.at = "reply" /\ y.jobs = x.jobs
    BY <1>2, <2>1, <2>2, AssignmentType, ReplyRow
  <2>4. worker' = [worker EXCEPT ![w] = y]
    BY <1>1, <1>15, <2>1, <2>2 DEF KeepAssignment, Answer, Become
  <2> QED BY <1>3, <1>4, <2>3, <2>4, WorkerMovesOnly
<1>16. CASE PrepareGrant(w)
  <2>1. CASE FreePorts = {}
    BY <1>5, <1>16, <2>1 DEF PrepareGrant, Abort
  <2>2. CASE FreePorts # {}
    <3>1. PICK known : known = {k \in 1 .. MaxGrant : grant[<<x.node, k>>] # "none"}
      OBVIOUS
    <3>2. PICK next : next = IF known = {} THEN 1 ELSE Max(known) + 1
      OBVIOUS
    <3>3. PICK q : q = Min(FreePorts)
      OBVIOUS
    <3>4. PICK y : y = [x EXCEPT !.at = "store", !.draft = next, !.port = q]
      OBVIOUS
    <3>5. worker' = [worker EXCEPT ![w] = y] /\ next <= MaxGrant
      BY <1>1, <1>16, <2>2, <3>1, <3>2, <3>3, <3>4 DEF PrepareGrant, Become
    <3>6. next \in 0 .. MaxGrant /\ next # 0
      <4>1. known # {} => Max(known) \in 1 .. MaxGrant
        BY <3>1, LargestGeneration
      <4> QED BY <3>2, <3>5, <4>1, GrantFacts
    <3>7. q \in Nat
      <4>1. FreePorts \subseteq Nat
        BY RelayAssumption DEF FreePorts
      <4>2. \E a \in FreePorts : \A b \in FreePorts : a <= b
        BY <2>2, <4>1, LeastNumber
      <4> QED BY <3>3, <4>1, <4>2 DEF Min
    <3>8. y \in WorkerRow /\ y.at = "store" /\ y.jobs = x.jobs /\ y.draft = next
      BY <1>2, <3>4, <3>6, <3>7 DEF WorkerRow
    <3>9. WorkerFits(y)
      BY <1>2, <3>6, <3>8 DEF WorkerFits
    <3> QED BY <1>3, <3>5, <3>8, <3>9, WorkerMovesOnly
  <2> QED BY <2>1, <2>2
<1> QED BY <1>7, <1>8, <1>9, <1>10, <1>11, <1>13, <1>14, <1>15, <1>16

\* Expiry, acknowledgement and revocation: live grants of a set begin to be revoked, and
\* each of them gets its row.
LEMMA RevokingStep ==
    ASSUME RelayInv, NEW w \in Workers, NEW y \in WorkerRow, worker' = [worker EXCEPT ![w] = y],
           y.jobs = {} \/ y.jobs = worker[w].jobs, y.at \notin {"mark", "store"},
           NEW gs \in SUBSET Grants, grant' \in [Grants -> GrantStates],
           \A g \in Grants : grant'[g] # grant[g] =>
               grant[g] \in {"pending", "published"} /\ grant'[g] = "revoking" /\ g \in gs,
           outbox' = QueueRevocations(grant', gs), UNCHANGED <<documents, host, overtaken>>
    PROVE  RelayInv'
<1>1. /\ RelayTypeOK /\ PublishedIsOnDisk /\ OutboxCoversGrants /\ RevokedIsOffDisk /\ ManagedStateLoads
      /\ WorkerFits(worker[w]) /\ worker[w] \in WorkerRow
  BY DEF RelayInv, RelayTypeOK
<1>2. Advances
  BY DEF Advances, Ending
<1>3. \A g \in gs : grant'[g] = "revoking" => <<"revoke", g>> \in outbox'
  BY DEF QueueRevocations
<1>4. outbox \subseteq outbox' /\ outbox' \in SUBSET Jobs
  <2>1. outbox \subseteq outbox' /\ outbox \in SUBSET Jobs
    BY <1>1 DEF QueueRevocations, RelayTypeOK
  <2>2. \A g \in gs : <<"revoke", g>> \in Jobs
    BY DEF Jobs
  <2> QED BY <2>1, <2>2 DEF QueueRevocations
<1>5. WorkerFits(y)
  BY <1>1 DEF WorkerFits
<1>6. WorkerFits(y)'
  BY <1>2, <1>5, FitsKept
<1>7. OutboxCoversGrants'
  <2>1. ASSUME NEW g \in Grants
        PROVE  /\ grant'[g] = "pending" => <<"publish", g>> \in outbox'
               /\ grant'[g] = "revoking" => <<"revoke", g>> \in outbox'
    <3>1. CASE grant'[g] = grant[g]
      BY <1>1, <1>4, <3>1 DEF OutboxCoversGrants
    <3>2. CASE grant'[g] # grant[g]
      BY <1>3, <3>2
    <3> QED BY <3>1, <3>2
  <2> QED BY <2>1 DEF OutboxCoversGrants, Grants
<1>8. PublishedIsOnDisk' /\ RevokedIsOffDisk' /\ ManagedStateLoads'
  BY <1>1 DEF PublishedIsOnDisk, RevokedIsOffDisk, ManagedStateLoads, Grants
<1> QED BY <1>1, <1>2, <1>4, <1>6, <1>7, <1>8, WorkerMoves DEF RelayTypeOK

LEMMA ExpireGrantsHolds == ASSUME RelayInv, NEW w \in Workers, ExpireGrants(w) PROVE RelayInv'
<1>1. PICK x : x = worker[w]
  OBVIOUS
<1>2. x \in WorkerRow /\ grant \in [Grants -> GrantStates]
  BY <1>1 DEF RelayInv, RelayTypeOK
<1>3. PICK y : y = [x EXCEPT !.at = "read", !.pass = 1]
  OBVIOUS
<1>4. /\ grant' = Expired /\ outbox' = QueueRevocations(grant', Grants)
      /\ worker' = [worker EXCEPT ![w] = y] /\ UNCHANGED <<documents, host, overtaken>>
  BY <1>1, <1>3 DEF ExpireGrants, Become
<1>5. y \in WorkerRow /\ y.at = "read" /\ y.jobs = x.jobs
  <2>1. PICK d : d = [x EXCEPT !.at = "read"]
    OBVIOUS
  <2>2. d \in WorkerRow /\ d.at = "read" /\ d.jobs = x.jobs
    BY <1>2, <2>1 DEF WorkerRow
  <2>3. y = [d EXCEPT !.pass = 1]
    BY <1>2, <1>3, <2>1 DEF WorkerRow
  <2> QED BY <2>2, <2>3 DEF WorkerRow
<1>6. \A g \in Grants : grant'[g] # grant[g] =>
          grant[g] \in {"pending", "published"} /\ grant'[g] = "revoking" /\ g \in Grants
  BY <1>4 DEF Expired
<1>7. grant' \in [Grants -> GrantStates]
  BY <1>2, <1>4 DEF Expired, GrantStates
<1> QED BY <1>1, <1>4, <1>5, <1>6, <1>7, RevokingStep

LEMMA AcknowledgeHolds ==
    ASSUME RelayInv, NEW w \in Workers, NEW n \in RelayNodes, Acknowledge(w, n)
    PROVE  RelayInv'
<1>1. PICK k : k = host[n].successor
  OBVIOUS
<1>2. k \in 0 .. MaxGrant /\ grant \in [Grants -> GrantStates]
  BY <1>1 DEF RelayInv, RelayTypeOK, HostRow
<1>3. PICK y : y = [Resting EXCEPT !.at = "expire", !.for = "acknowledged", !.node = n, !.heard = TRUE, !.draft = k]
  OBVIOUS
<1>4. PICK gs : gs = {n} \X (1 .. MaxGrant)
  OBVIOUS
<1>5. GenerationOf(<<n, k>>) = k
  BY DEF GenerationOf
<1>6. /\ grant' = [g \in Grants |-> IF NodeOf(g) = n /\ GenerationOf(g) < k /\ grant[g] = "published"
                                    THEN "revoking" ELSE grant[g]]
      /\ outbox' = QueueRevocations(grant', gs)
      /\ worker' = [worker EXCEPT ![w] = y] /\ UNCHANGED <<documents, host, overtaken>>
  BY <1>1, <1>3, <1>4, <1>5 DEF Acknowledge, Become
<1>7. y \in WorkerRow /\ y.at = "expire" /\ y.jobs = {}
  <2>1. "acknowledged" \in Purposes /\ TRUE \in BOOLEAN
    BY DEF Purposes
  <2> QED BY <1>2, <1>3, <2>1, RestingFits DEF WorkerRow
<1>8. gs \in SUBSET Grants
  BY <1>4 DEF Grants
<1>9. \A g \in Grants : grant'[g] # grant[g] =>
          grant[g] \in {"pending", "published"} /\ grant'[g] = "revoking" /\ g \in gs
  <2> SUFFICES ASSUME NEW g \in Grants, grant'[g] # grant[g]
               PROVE  grant[g] = "published" /\ grant'[g] = "revoking" /\ g \in gs
    OBVIOUS
  <2>1. NodeOf(g) = n /\ grant[g] = "published" /\ grant'[g] = "revoking"
    BY <1>6
  <2>2. g \in gs
    BY <1>4, <2>1 DEF NodeOf, Grants
  <2> QED BY <2>1, <2>2
<1>10. grant' \in [Grants -> GrantStates]
  BY <1>2, <1>6 DEF GrantStates
<1> QED BY <1>6, <1>7, <1>8, <1>9, <1>10, RevokingStep

LEMMA RevokeHolds ==
    ASSUME RelayInv, NEW w \in Workers, NEW g \in Grants, Revoke(w, g)
    PROVE  RelayInv'
<1>1. grant \in [Grants -> GrantStates]
  BY DEF RelayInv, RelayTypeOK
<1>2. PICK y : y = [Resting EXCEPT !.at = "expire", !.for = "nothing", !.node = NodeOf(g), !.heard = FALSE]
  OBVIOUS
<1>3. /\ grant' = [grant EXCEPT ![g] = IF @ \in {"pending", "published"} THEN "revoking" ELSE @]
      /\ outbox' = QueueRevocations(grant', {g})
      /\ worker' = [worker EXCEPT ![w] = y] /\ UNCHANGED <<documents, host, overtaken>>
  BY <1>2 DEF Revoke, Reconcile, Become
<1>4. y \in WorkerRow /\ y.at = "expire" /\ y.jobs = {}
  <2>1. "nothing" \in Purposes /\ FALSE \in BOOLEAN /\ NodeOf(g) \in RelayNodes
    BY GrantFacts DEF Purposes, NodeOf
  <2> QED BY <1>2, <2>1, RestingFits DEF WorkerRow
<1>5. \A q \in Grants : grant'[q] # grant[q] =>
          grant[q] \in {"pending", "published"} /\ grant'[q] = "revoking" /\ q \in {g}
  BY <1>1, <1>3
<1>6. grant' \in [Grants -> GrantStates]
  BY <1>1, <1>3 DEF GrantStates
<1> QED BY <1>3, <1>4, <1>5, <1>6, RevokingStep

\* What the file operation of a job that was read does to the tables' promises.
LEMMA CarryOutFacts ==
    ASSUME RelayInv, NEW j \in Jobs, JobFits(j), CarryOut(j), UNCHANGED <<grant, outbox, host>>
    PROVE  /\ documents' \in SUBSET Grants /\ Advances
           /\ j[1] = "publish" => j[2] \in documents'
           /\ j[1] = "revoke" => j[2] \notin documents'
           /\ PublishedIsOnDisk' /\ OutboxCoversGrants' /\ RevokedIsOffDisk' /\ ManagedStateLoads'
<1>1. /\ RelayTypeOK /\ PublishedIsOnDisk /\ OutboxCoversGrants /\ RevokedIsOffDisk /\ ManagedStateLoads
      /\ documents \in SUBSET Grants
  BY DEF RelayInv, RelayTypeOK
<1>2. j[2] \in Grants /\ j[1] \in {"publish", "revoke"} /\ (j[1] = "revoke" => grant[j[2]] \in Ending)
  BY GrantFacts DEF JobFits
<1>3. /\ documents' \in SUBSET Grants
      /\ \A g \in documents : g \notin documents' => grant[g] \in Ending
      /\ j[1] = "publish" => j[2] \in documents'
      /\ j[1] = "revoke" => j[2] \notin documents'
  BY <1>1, <1>2 DEF CarryOut, FileAfter
<1>4. /\ overtaken \subseteq overtaken'
      /\ \A g \in Grants : grant[g] \in Ending /\ g \in documents' => g \in documents \/ g \in overtaken'
  BY <1>1, <1>2 DEF CarryOut, FileAfter, Ending
<1>5. Advances
  BY <1>3, <1>4 DEF Advances, Ending
<1>6. PublishedIsOnDisk'
  BY <1>1, <1>3 DEF PublishedIsOnDisk, Ending, Grants
<1>7. RevokedIsOffDisk'
  BY <1>1, <1>4 DEF RevokedIsOffDisk, Ending, Grants
<1>8. OutboxCoversGrants' /\ ManagedStateLoads'
  BY <1>1 DEF OutboxCoversGrants, ManagedStateLoads, Grants
<1> QED BY <1>3, <1>5, <1>6, <1>7, <1>8

LEMMA RunJobHolds ==
    ASSUME RelayInv, NEW w \in Workers, NEW j \in Jobs, RunJob(w, j)
    PROVE  RelayInv'
<1>1. PICK x : x = worker[w]
  OBVIOUS
<1>2. RelayTypeOK /\ x \in WorkerRow /\ WorkerFits(x)
  BY <1>1 DEF RelayInv, RelayTypeOK
<1>3. PICK d : d = [x EXCEPT !.at = "mark"]
  OBVIOUS
<1>4. PICK c : c = [d EXCEPT !.jobs = x.jobs \ {j}]
  OBVIOUS
<1>5. PICK y : y = [c EXCEPT !.job = j]
  OBVIOUS
<1>6. /\ j \in x.jobs /\ CarryOut(j) /\ worker' = [worker EXCEPT ![w] = y]
      /\ UNCHANGED <<grant, outbox, host>>
  BY <1>1, <1>2, <1>3, <1>4, <1>5 DEF RunJob, Become, WorkerRow
<1>7. d \in WorkerRow /\ d.at = "mark" /\ d.jobs = x.jobs
  BY <1>2, <1>3 DEF WorkerRow
<1>8. c \in WorkerRow /\ c.at = "mark" /\ c.jobs = x.jobs \ {j}
  BY <1>4, <1>7 DEF WorkerRow
<1>9. y \in WorkerRow /\ y.at = "mark" /\ y.jobs = x.jobs \ {j} /\ y.job = j
  BY <1>5, <1>8 DEF WorkerRow
<1>10. JobFits(j) /\ j[2] \in Grants /\ j[1] \in {"publish", "revoke"}
  BY <1>2, <1>6, GrantFacts DEF WorkerFits
<1>11. /\ documents' \in SUBSET Grants /\ Advances
       /\ j[1] = "publish" => j[2] \in documents'
       /\ j[1] = "revoke" => j[2] \notin documents'
       /\ PublishedIsOnDisk' /\ OutboxCoversGrants' /\ RevokedIsOffDisk' /\ ManagedStateLoads'
  BY <1>6, <1>10, CarryOutFacts
<1>12. WorkerFits(y)'
  <2>1. \A i \in x.jobs : JobFits(i)
    BY <1>2 DEF WorkerFits
  <2> QED BY <1>6, <1>9, <1>10, <1>11, <2>1 DEF WorkerFits, JobFits, Jobs, Grants
<1> QED BY <1>2, <1>6, <1>9, <1>11, <1>12, WorkerMoves DEF RelayTypeOK

LEMMA FailJobHolds ==
    ASSUME RelayInv, NEW w \in Workers, NEW j \in Jobs, FailJob(w, j)
    PROVE  RelayInv'
<1>1. PICK x : x = worker[w]
  OBVIOUS
<1>2. RelayTypeOK /\ x \in WorkerRow /\ WorkerFits(x)
  BY <1>1 DEF RelayInv, RelayTypeOK
<1>3. PICK y : y = [x EXCEPT !.jobs = x.jobs \ {j}]
  OBVIOUS
<1>4. x.jobs \ {j} \in SUBSET Jobs
  BY <1>2 DEF WorkerRow
<1>5. y \in WorkerRow /\ y.at = x.at /\ y.jobs = x.jobs \ {j} /\ x.at = "work" /\ j \in x.jobs
  BY <1>1, <1>2, <1>3, <1>4 DEF FailJob, WorkerRow
<1>6. worker' = [worker EXCEPT ![w] = y] /\ UNCHANGED <<grant, outbox, host>>
  BY <1>1, <1>2, <1>3 DEF FailJob, Become, WorkerRow
<1>7. WorkerFits(y) /\ JobFits(j)
  BY <1>2, <1>5 DEF WorkerFits
<1>8. CASE UNCHANGED <<documents, overtaken>>
  BY <1>5, <1>6, <1>7, <1>8, WorkerMovesOnly
<1>9. CASE CarryOut(j)
  <2>1. /\ documents' \in SUBSET Grants /\ Advances
        /\ PublishedIsOnDisk' /\ OutboxCoversGrants' /\ RevokedIsOffDisk' /\ ManagedStateLoads'
    BY <1>6, <1>7, <1>9, CarryOutFacts
  <2>2. WorkerFits(y)'
    BY <1>5, <1>7, <2>1, FitsKept
  <2> QED BY <1>2, <1>5, <1>6, <2>1, <2>2, WorkerMoves DEF RelayTypeOK
<1> QED BY <1>8, <1>9 DEF FailJob

LEMMA MarkPublishedHolds == ASSUME RelayInv, NEW w \in Workers, MarkPublished(w) PROVE RelayInv'
<1>1. PICK x : x = worker[w]
  OBVIOUS
<1>2. PICK g : g = x.job[2]
  OBVIOUS
<1>3. /\ RelayTypeOK /\ PublishedIsOnDisk /\ OutboxCoversGrants /\ RevokedIsOffDisk /\ ManagedStateLoads
      /\ x \in WorkerRow /\ WorkerFits(x) /\ grant \in [Grants -> GrantStates] /\ outbox \in SUBSET Jobs
  BY <1>1 DEF RelayInv, RelayTypeOK
<1>4. x.at = "mark" /\ x.job[1] = "publish" /\ UNCHANGED <<documents, host, overtaken>>
  BY <1>1 DEF MarkPublished
<1>5. x.job \in Jobs /\ g \in Grants /\ x.job = <<"publish", g>> /\ (grant[g] = "pending" => g \in documents)
  BY <1>2, <1>3, <1>4, GrantFacts DEF WorkerFits
<1>6. CASE grant[g] # "pending"
  <2>1. worker' = [worker EXCEPT ![w] = Resting] /\ UNCHANGED <<grant, outbox>>
    BY <1>1, <1>2, <1>6 DEF MarkPublished, Abort, Become
  <2>2. WorkerFits(Resting)
    BY RestingFits DEF WorkerFits
  <2> QED BY <1>4, <2>1, <2>2, RestingFits, WorkerMovesOnly
<1>7. CASE grant[g] = "pending"
  <2>1. PICK d : d = [x EXCEPT !.at = "work"]
    OBVIOUS
  <2>2. PICK y : y = [d EXCEPT !.job = <<>>]
    OBVIOUS
  <2>3. /\ grant' = [grant EXCEPT ![g] = "published"] /\ outbox' = outbox \ {x.job}
        /\ worker' = [worker EXCEPT ![w] = y]
    BY <1>1, <1>2, <1>3, <1>7, <2>1, <2>2 DEF MarkPublished, Become, WorkerRow
  <2>4. d \in WorkerRow /\ d.at = "work" /\ d.jobs = x.jobs
    BY <1>3, <2>1 DEF WorkerRow
  <2>5. y \in WorkerRow /\ y.at = "work" /\ y.jobs = x.jobs
    BY <2>2, <2>4 DEF WorkerRow
  <2>6. /\ grant' \in [Grants -> GrantStates] /\ grant'[g] = "published"
        /\ \A q \in Grants \ {g} : grant'[q] = grant[q]
    BY <1>3, <1>5, <2>3 DEF GrantStates
  <2>7. Advances
    BY <1>3, <1>4, <1>7, <2>6 DEF Advances, Ending, RelayTypeOK
  <2>8. WorkerFits(y)
    BY <1>3, <2>5 DEF WorkerFits
  <2>9. WorkerFits(y)'
    BY <2>5, <2>7, <2>8, FitsKept
  <2>10. PublishedIsOnDisk' /\ RevokedIsOffDisk' /\ ManagedStateLoads'
    BY <1>3, <1>4, <1>5, <1>7, <2>6 DEF PublishedIsOnDisk, RevokedIsOffDisk, ManagedStateLoads, Grants
  <2>11. OutboxCoversGrants'
    <3>1. ASSUME NEW q \in Grants
          PROVE  /\ grant'[q] = "pending" => <<"publish", q>> \in outbox'
                 /\ grant'[q] = "revoking" => <<"revoke", q>> \in outbox'
      <4>1. CASE q = g
        BY <2>6, <4>1
      <4>2. CASE q # g
        <5>1. <<"publish", q>> # x.job /\ <<"revoke", q>> # x.job
          BY <1>5, <4>2
        <5> QED BY <1>3, <2>3, <2>6, <4>2, <5>1 DEF OutboxCoversGrants
      <4> QED BY <4>1, <4>2
    <3> QED BY <3>1 DEF OutboxCoversGrants, Grants
  <2>12. outbox' \in SUBSET Jobs
    BY <1>3, <2>3
  <2> QED BY <1>3, <1>4, <2>3, <2>5, <2>6, <2>7, <2>9, <2>10, <2>11, <2>12, WorkerMoves DEF RelayTypeOK
<1> QED BY <1>6, <1>7

LEMMA MarkRevokedHolds == ASSUME RelayInv, NEW w \in Workers, MarkRevoked(w) PROVE RelayInv'
<1>1. PICK x : x = worker[w]
  OBVIOUS
<1>2. PICK g : g = x.job[2]
  OBVIOUS
<1>3. /\ RelayTypeOK /\ PublishedIsOnDisk /\ OutboxCoversGrants /\ RevokedIsOffDisk /\ ManagedStateLoads
      /\ x \in WorkerRow /\ WorkerFits(x) /\ grant \in [Grants -> GrantStates] /\ outbox \in SUBSET Jobs
  BY <1>1 DEF RelayInv, RelayTypeOK
<1>4. x.at = "mark" /\ x.job[1] = "revoke" /\ UNCHANGED <<documents, host, overtaken>>
  BY <1>1 DEF MarkRevoked
<1>5. x.job \in Jobs /\ g \in Grants /\ x.job = <<"revoke", g>> /\ grant[g] \in Ending
      /\ (g \in documents => g \in overtaken)
  BY <1>2, <1>3, <1>4, GrantFacts DEF WorkerFits, JobFits
<1>6. PICK d : d = [x EXCEPT !.at = "work"]
  OBVIOUS
<1>7. PICK y : y = [d EXCEPT !.job = <<>>]
  OBVIOUS
<1>8. /\ grant' = [grant EXCEPT ![g] = IF @ = "revoking" THEN "revoked" ELSE @] /\ outbox' = outbox \ {x.job}
      /\ worker' = [worker EXCEPT ![w] = y]
  BY <1>1, <1>2, <1>3, <1>6, <1>7 DEF MarkRevoked, Become, WorkerRow
<1>9. d \in WorkerRow /\ d.at = "work" /\ d.jobs = x.jobs
  BY <1>3, <1>6 DEF WorkerRow
<1>10. y \in WorkerRow /\ y.at = "work" /\ y.jobs = x.jobs
  BY <1>7, <1>9 DEF WorkerRow
<1>11. /\ grant' \in [Grants -> GrantStates] /\ grant'[g] = "revoked"
       /\ \A q \in Grants \ {g} : grant'[q] = grant[q]
  BY <1>3, <1>5, <1>8 DEF GrantStates, Ending
<1>12. Advances
  BY <1>3, <1>4, <1>11 DEF Advances, Ending, RelayTypeOK
<1>13. WorkerFits(y)
  BY <1>3, <1>10 DEF WorkerFits
<1>14. WorkerFits(y)'
  BY <1>10, <1>12, <1>13, FitsKept
<1>15. PublishedIsOnDisk' /\ RevokedIsOffDisk' /\ ManagedStateLoads'
  BY <1>3, <1>4, <1>5, <1>11 DEF PublishedIsOnDisk, RevokedIsOffDisk, ManagedStateLoads, Grants
<1>16. OutboxCoversGrants'
  <2>1. ASSUME NEW q \in Grants
        PROVE  /\ grant'[q] = "pending" => <<"publish", q>> \in outbox'
               /\ grant'[q] = "revoking" => <<"revoke", q>> \in outbox'
    <3>1. CASE q = g
      BY <1>11, <3>1
    <3>2. CASE q # g
      <4>1. <<"publish", q>> # x.job /\ <<"revoke", q>> # x.job
        BY <1>5, <3>2
      <4> QED BY <1>3, <1>8, <1>11, <3>2, <4>1 DEF OutboxCoversGrants
    <3> QED BY <3>1, <3>2
  <2> QED BY <2>1 DEF OutboxCoversGrants, Grants
<1>17. outbox' \in SUBSET Jobs
  BY <1>3, <1>8
<1> QED BY <1>3, <1>4, <1>8, <1>10, <1>11, <1>12, <1>14, <1>15, <1>16, <1>17, WorkerMoves DEF RelayTypeOK

LEMMA StoreGrantHolds == ASSUME RelayInv, NEW w \in Workers, StoreGrant(w) PROVE RelayInv'
<1>1. PICK x : x = worker[w]
  OBVIOUS
<1>2. PICK g : g = <<x.node, x.draft>>
  OBVIOUS
<1>3. /\ RelayTypeOK /\ PublishedIsOnDisk /\ OutboxCoversGrants /\ RevokedIsOffDisk /\ ManagedStateLoads
      /\ x \in WorkerRow /\ WorkerFits(x) /\ grant \in [Grants -> GrantStates] /\ outbox \in SUBSET Jobs
  BY <1>1 DEF RelayInv, RelayTypeOK
<1>4. x.at = "store" /\ UNCHANGED <<documents, host, overtaken>>
  BY <1>1 DEF StoreGrant
<1>5. g \in Grants
  <2>1. x.draft \in 0 .. MaxGrant /\ x.draft # 0 /\ x.node \in RelayNodes
    BY <1>3, <1>4 DEF WorkerFits, WorkerRow
  <2>2. x.draft \in 1 .. MaxGrant
    BY <2>1, GrantFacts
  <2> QED BY <1>2, <2>1, <2>2, GrantFacts
<1>6. CASE grant[g] # "none"
  <2>1. worker' = [worker EXCEPT ![w] = Resting] /\ UNCHANGED <<grant, outbox>>
    BY <1>1, <1>2, <1>6 DEF StoreGrant, Abort, Become
  <2>2. WorkerFits(Resting)
    BY RestingFits DEF WorkerFits
  <2> QED BY <1>4, <2>1, <2>2, RestingFits, WorkerMovesOnly
<1>7. CASE grant[g] = "none"
  <2>1. PICK y : y = [Resting EXCEPT !.at = "expire", !.for = "answer", !.node = x.node, !.heard = x.heard]
    OBVIOUS
  <2>2. /\ grant' = [grant EXCEPT ![g] = "pending"] /\ outbox' = outbox \cup {<<"publish", g>>}
        /\ worker' = [worker EXCEPT ![w] = y]
    BY <1>1, <1>2, <1>7, <2>1 DEF StoreGrant, Reconcile, Become
  <2>3. y \in WorkerRow /\ y.at = "expire" /\ y.jobs = {}
    <3>1. "answer" \in Purposes /\ x.heard \in BOOLEAN /\ x.node \in RelayNodes
      BY <1>3 DEF Purposes, WorkerRow
    <3> QED BY <2>1, <3>1, RestingFits DEF WorkerRow
  <2>4. /\ grant' \in [Grants -> GrantStates] /\ grant'[g] = "pending"
        /\ \A q \in Grants \ {g} : grant'[q] = grant[q]
    BY <1>3, <1>5, <2>2 DEF GrantStates
  <2>5. Advances
    BY <1>3, <1>4, <1>7, <2>4 DEF Advances, Ending, RelayTypeOK
  <2>6. WorkerFits(y)'
    BY <2>3 DEF WorkerFits
  <2>7. PublishedIsOnDisk' /\ RevokedIsOffDisk' /\ ManagedStateLoads'
    BY <1>3, <1>4, <2>4 DEF PublishedIsOnDisk, RevokedIsOffDisk, ManagedStateLoads, Grants
  <2>8. OutboxCoversGrants'
    BY <1>3, <2>2, <2>4 DEF OutboxCoversGrants, Grants
  <2>9. outbox' \in SUBSET Jobs
    BY <1>3, <1>5, <2>2, GrantFacts
  <2> QED BY <1>3, <1>4, <2>2, <2>3, <2>4, <2>5, <2>6, <2>7, <2>8, <2>9, WorkerMoves DEF RelayTypeOK
<1> QED BY <1>6, <1>7

-----------------------------------------------------------------------------
(* The nodes' own slots *)

\* A row of a node in which the generations are in order.
Ordered(h) == h.current # 0 /\ h.successor # 0 => h.current < h.successor

LEMMA OneHostMoves ==
    ASSUME RelayInv, NEW n \in RelayNodes, NEW h \in HostRow, Ordered(h), host' = [host EXCEPT ![n] = h]
    PROVE  host' \in [RelayNodes -> HostRow] /\ ManagedStateLoads'
<1>1. host \in [RelayNodes -> HostRow] /\ ManagedStateLoads
  BY DEF RelayInv, RelayTypeOK
<1>2. host' \in [RelayNodes -> HostRow] /\ host'[n] = h /\ \A m \in RelayNodes \ {n} : host'[m] = host[m]
  BY <1>1
<1> QED BY <1>1, <1>2 DEF ManagedStateLoads, Ordered

\* What installing generation k leaves: the slots stay in order, whatever was there.
LEMMA InstalledOrdered ==
    ASSUME NEW h \in HostRow, Ordered(h), NEW k \in 1 .. MaxGrant
    PROVE  Installed(h, k) \in HostRow /\ Ordered(Installed(h, k))
<1>0. MaxGrant \in Nat /\ 0 \in 0 .. MaxGrant /\ k \in 0 .. MaxGrant /\ k # 0 /\ k \in Nat
  BY GrantFacts
<1>1. h.current \in 0 .. MaxGrant /\ h.successor \in 0 .. MaxGrant /\ h.current \in Nat /\ h.successor \in Nat
  BY <1>0 DEF HostRow
<1>2. CASE k = h.current
  <2>1. PICK s : s = IF h.successor > k THEN 0 ELSE h.successor
    OBVIOUS
  <2>2. Installed(h, k) = [h EXCEPT !.successor = s]
    BY <1>0, <1>2, <2>1 DEF Installed
  <2>3. s \in 0 .. MaxGrant /\ (s # 0 => s = h.successor)
    BY <1>0, <1>1, <2>1
  <2>4. PICK y : y = [h EXCEPT !.successor = s]
    OBVIOUS
  <2>5. y \in HostRow /\ y.current = h.current /\ y.successor = s
    BY <2>3, <2>4 DEF HostRow
  <2> QED BY <2>2, <2>3, <2>4, <2>5 DEF Ordered
<1>3. CASE k # h.current /\ ((k = h.successor /\ k # 0) \/ k < Max({h.current, h.successor}))
  BY <1>3 DEF Installed
<1>4. CASE k # h.current /\ ~ ((k = h.successor /\ k # 0) \/ k < Max({h.current, h.successor}))
  <2>1. PICK m : m = Max({h.current, h.successor})
    OBVIOUS
  <2>2. m \in {h.current, h.successor} /\ m >= h.current /\ m >= h.successor
    <3>1. \E x \in {h.current, h.successor} : \A y \in {h.current, h.successor} : x >= y
      BY <1>1
    <3> QED BY <2>1, <3>1 DEF Max
  <2>3. k > h.current
    BY <1>0, <1>1, <1>4, <2>1, <2>2
  <2>4. PICK d : d = [h EXCEPT !.successor = k]
    OBVIOUS
  <2>5. PICK y : y = [d EXCEPT !.blocked = FALSE]
    OBVIOUS
  <2>6. d \in HostRow /\ d.current = h.current /\ d.successor = k
    BY <1>0, <2>4 DEF HostRow
  <2>7. y \in HostRow /\ y.current = h.current /\ y.successor = k
    BY <2>5, <2>6 DEF HostRow
  <2>8. Installed(h, k) = y
    BY <1>4, <2>4, <2>5 DEF Installed, HostRow
  <2> QED BY <2>3, <2>7, <2>8 DEF Ordered
<1> QED BY <1>2, <1>3, <1>4

LEMMA WithdrawnOrdered ==
    ASSUME NEW h \in HostRow, NEW b \in BOOLEAN
    PROVE  Withdrawn(h, b) \in HostRow /\ Ordered(Withdrawn(h, b))
<1>1. 0 \in 0 .. MaxGrant /\ (h.blocked \/ b) \in BOOLEAN
  BY GrantFacts DEF HostRow
<1>2. PICK d : d = [h EXCEPT !.current = 0]
  OBVIOUS
<1>3. PICK e : e = [d EXCEPT !.successor = 0]
  OBVIOUS
<1>4. PICK y : y = [e EXCEPT !.blocked = h.blocked \/ b]
  OBVIOUS
<1>5. d \in HostRow /\ d.current = 0
  BY <1>1, <1>2 DEF HostRow
<1>6. e \in HostRow /\ e.current = 0
  BY <1>1, <1>3, <1>5 DEF HostRow
<1>7. y \in HostRow /\ y.current = 0
  BY <1>1, <1>4, <1>6 DEF HostRow
<1>8. Withdrawn(h, b) = y
  BY <1>2, <1>3, <1>4 DEF Withdrawn, HostRow
<1> QED BY <1>7, <1>8 DEF Ordered

LEMMA WorkerEnds ==
    ASSUME RelayInv, NEW w \in Workers, Abort(w), UNCHANGED <<grant, outbox, documents, overtaken>>,
           host' \in [RelayNodes -> HostRow], ManagedStateLoads'
    PROVE  RelayInv'
<1>1. RelayTypeOK /\ PublishedIsOnDisk /\ OutboxCoversGrants /\ RevokedIsOffDisk
  BY DEF RelayInv
<1>2. Advances
  BY DEF Advances
<1>3. WorkerFits(Resting)
  BY RestingFits DEF WorkerFits
<1>4. PICK y : y = Resting
  OBVIOUS
<1>5. y \in WorkerRow /\ WorkerFits(y)'
  BY <1>2, <1>3, <1>4, RestingFits, FitsKept
<1>6. PublishedIsOnDisk' /\ OutboxCoversGrants' /\ RevokedIsOffDisk'
  BY <1>1 DEF PublishedIsOnDisk, OutboxCoversGrants, RevokedIsOffDisk, Grants
<1>7. worker' = [worker EXCEPT ![w] = y]
  BY <1>4 DEF Abort, Become
<1> QED BY <1>1, <1>2, <1>5, <1>6, <1>7, WorkerMoves DEF RelayTypeOK

LEMMA DeliverAnswerHolds == ASSUME RelayInv, NEW w \in Workers, DeliverAnswer(w) PROVE RelayInv'
<1>1. PICK x : x = worker[w]
  OBVIOUS
<1>2. PICK n : n = x.node
  OBVIOUS
<1>3. PICK k : k = x.draft
  OBVIOUS
<1>4. PICK h : h = host[n]
  OBVIOUS
<1>5. PICK y : y = IF k # 0 THEN Installed(h, k)
                   ELSE IF x.for = "fetch" /\ Slots(n) # {} THEN Withdrawn(h, TRUE) ELSE h
  OBVIOUS
<1>6. host' = [host EXCEPT ![n] = y] /\ Abort(w) /\ UNCHANGED <<grant, outbox, documents, overtaken>>
  BY <1>1, <1>2, <1>3, <1>4, <1>5 DEF DeliverAnswer
<1>7. n \in RelayNodes /\ k \in 0 .. MaxGrant /\ h \in HostRow /\ Ordered(h)
  BY <1>1, <1>2, <1>3, <1>4 DEF RelayInv, RelayTypeOK, WorkerRow, ManagedStateLoads, Ordered
<1>8. k # 0 => k \in 1 .. MaxGrant
  BY <1>7, GrantFacts
<1>9. y \in HostRow /\ Ordered(y)
  BY <1>5, <1>7, <1>8, InstalledOrdered, WithdrawnOrdered
<1>10. host' \in [RelayNodes -> HostRow] /\ ManagedStateLoads'
  BY <1>6, <1>7, <1>9, OneHostMoves
<1> QED BY <1>6, <1>10, WorkerEnds

LEMMA PromoteHolds == ASSUME RelayInv, NEW w \in Workers, Promote(w) PROVE RelayInv'
<1>1. PICK n : n = worker[w].node
  OBVIOUS
<1>2. PICK h : h = host[n]
  OBVIOUS
<1>3. n \in RelayNodes /\ h \in HostRow /\ host \in [RelayNodes -> HostRow] /\ ManagedStateLoads
  BY <1>1, <1>2 DEF RelayInv, RelayTypeOK, WorkerRow
<1>4. Abort(w) /\ UNCHANGED <<grant, outbox, documents, overtaken>>
  BY DEF Promote
<1>5. CASE host' = host
  <2>1. host' \in [RelayNodes -> HostRow] /\ ManagedStateLoads'
    BY <1>3, <1>5 DEF ManagedStateLoads
  <2> QED BY <1>4, <2>1, WorkerEnds
<1>6. CASE host' = [host EXCEPT ![n].current = h.successor, ![n].successor = 0]
  <2>1. PICK d : d = [h EXCEPT !.current = h.successor]
    OBVIOUS
  <2>2. PICK y : y = [d EXCEPT !.successor = 0]
    OBVIOUS
  <2>3. d \in HostRow
    BY <1>3, <2>1 DEF HostRow
  <2>4. y \in HostRow /\ Ordered(y)
    BY <2>2, <2>3, GrantFacts DEF HostRow, Ordered
  <2>5. host' = [host EXCEPT ![n] = y]
    BY <1>2, <1>3, <1>6, <2>1, <2>2 DEF HostRow
  <2>6. host' \in [RelayNodes -> HostRow] /\ ManagedStateLoads'
    BY <1>3, <2>4, <2>5, OneHostMoves
  <2> QED BY <1>4, <2>6, WorkerEnds
<1> QED BY <1>1, <1>2, <1>5, <1>6 DEF Promote

LEMMA NodeStepHolds == ASSUME RelayInv, NEW n \in RelayNodes, NodeStep(n) PROVE RelayInv'
<1>1. PICK h : h = host[n]
  OBVIOUS
<1>2. h \in HostRow /\ host \in [RelayNodes -> HostRow] /\ Ordered(h) /\ ManagedStateLoads
  BY <1>1 DEF RelayInv, RelayTypeOK, ManagedStateLoads, Ordered
<1>3. UNCHANGED <<grant, outbox, documents, worker, overtaken>>
  BY DEF NodeStep, DropExpired, SetConsent, ControllerRefuses, Register
<1>4. CASE DropExpired(n)
  <2>1. PICK c : c = IF <<n, h.current>> \in lapsed THEN 0 ELSE h.current
    OBVIOUS
  <2>2. PICK s : s = IF <<n, h.successor>> \in lapsed THEN 0 ELSE h.successor
    OBVIOUS
  <2>3. PICK d : d = [h EXCEPT !.current = c]
    OBVIOUS
  <2>4. PICK y : y = [d EXCEPT !.successor = s]
    OBVIOUS
  <2>5. /\ c \in 0 .. MaxGrant /\ s \in 0 .. MaxGrant
        /\ c # 0 => c = h.current
        /\ s # 0 => s = h.successor
    BY <1>2, <2>1, <2>2, GrantFacts DEF HostRow
  <2>6. d \in HostRow /\ d.current = c /\ d.successor = h.successor
    BY <1>2, <2>3, <2>5 DEF HostRow
  <2>7. y \in HostRow /\ y.current = c /\ y.successor = s
    BY <2>4, <2>5, <2>6 DEF HostRow
  <2>8. Ordered(y)
    BY <1>2, <2>5, <2>7 DEF Ordered
  <2>9. host' = [host EXCEPT ![n] = y]
    BY <1>1, <1>2, <1>4, <2>1, <2>2, <2>3, <2>4 DEF DropExpired, HostRow
  <2> QED BY <1>3, <2>7, <2>8, <2>9, OneHostMoves, OthersMove
<1>5. CASE SetConsent(n)
  <2>1. CASE h.consents
    <3>1. PICK d : d = Withdrawn(h, FALSE)
      OBVIOUS
    <3>2. PICK e : e = [d EXCEPT !.consents = FALSE]
      OBVIOUS
    <3>3. PICK y : y = [e EXCEPT !.blocked = FALSE]
      OBVIOUS
    <3>4. d \in HostRow /\ d.current = 0
      BY <1>2, <3>1, WithdrawnOrdered DEF Withdrawn, HostRow
    <3>5. e \in HostRow /\ e.current = 0
      BY <3>2, <3>4 DEF HostRow
    <3>6. y \in HostRow /\ Ordered(y)
      BY <3>3, <3>5 DEF HostRow, Ordered
    <3>7. y = [d EXCEPT !.consents = FALSE, !.blocked = FALSE]
      BY <3>2, <3>3, <3>4 DEF HostRow
    <3>8. host' = [host EXCEPT ![n] = y]
      BY <1>1, <1>2, <1>5, <2>1, <3>1, <3>7 DEF SetConsent
    <3> QED BY <1>3, <3>6, <3>8, OneHostMoves, OthersMove
  <2>2. CASE ~ h.consents
    <3>1. PICK y : y = [h EXCEPT !.consents = TRUE]
      OBVIOUS
    <3>2. y \in HostRow /\ Ordered(y)
      BY <1>2, <3>1 DEF HostRow, Ordered
    <3>3. host' = [host EXCEPT ![n] = y]
      BY <1>1, <1>2, <1>5, <2>2, <3>1 DEF SetConsent
    <3> QED BY <1>3, <3>2, <3>3, OneHostMoves, OthersMove
  <2> QED BY <2>1, <2>2
<1>6. CASE \E k \in 1 .. MaxGrant : Register(n, k)
  <2>1. host' \in [RelayNodes -> HostRow] /\ ManagedStateLoads'
    BY <1>2, <1>6 DEF Register, ManagedStateLoads
  <2> QED BY <1>3, <2>1, OthersMove
<1>7. CASE ControllerRefuses(n)
  <2>1. PICK y : y = Withdrawn(h, TRUE)
    OBVIOUS
  <2>2. y \in HostRow /\ Ordered(y)
    BY <1>2, <2>1, WithdrawnOrdered
  <2>3. host' = [host EXCEPT ![n] = y]
    BY <1>1, <1>7, <2>1 DEF ControllerRefuses
  <2> QED BY <1>3, <2>2, <2>3, OneHostMoves, OthersMove
<1> QED BY <1>4, <1>5, <1>6, <1>7 DEF NodeStep

LEMMA RelayStepHolds == RelayInv /\ [RelayNext]_relayVars => RelayInv'
<1> SUFFICES ASSUME RelayInv, [RelayNext]_relayVars PROVE RelayInv'
  OBVIOUS
<1>1. host \in [RelayNodes -> HostRow] /\ ManagedStateLoads
  BY DEF RelayInv, RelayTypeOK
<1>2. ASSUME UNCHANGED <<grant, outbox, documents, worker, host, overtaken>> PROVE RelayInv'
  <2>1. host' \in [RelayNodes -> HostRow] /\ ManagedStateLoads'
    BY <1>1, <1>2 DEF ManagedStateLoads
  <2> QED BY <1>2, <2>1, OthersMove
<1>3. CASE UNCHANGED relayVars
  BY <1>2, <1>3 DEF relayVars
<1>4. ASSUME NEW w \in Workers, ReconcileStep(w) PROVE RelayInv'
  BY <1>4, ExpireGrantsHolds, QuietRelaySteps, RunJobHolds, FailJobHolds, MarkPublishedHolds, MarkRevokedHolds DEF ReconcileStep
<1>5. ASSUME NEW w \in Handlers, RequestStep(w) PROVE RelayInv'
  <2>1. w \in Workers
    BY DEF Workers
  <2> QED BY <1>5, <2>1, QuietRelaySteps, AcknowledgeHolds, StoreGrantHolds, DeliverAnswerHolds, PromoteHolds
          DEF RequestStep
<1>6. ASSUME NEW w \in Operators, OperatorStep(w) PROVE RelayInv'
  <2>1. w \in Workers
    BY DEF Workers
  <2> QED BY <1>6, <2>1, QuietRelaySteps, RevokeHolds DEF OperatorStep
<1>7. CASE \E g \in Grants : Lapse(g) \/ TunnelEnds(g)
  BY <1>2, <1>7 DEF Lapse, TunnelEnds
<1>8. CASE ApplyRoutes \/ ApplyFails
  BY <1>2, <1>8 DEF ApplyRoutes, ApplyFails
<1> QED BY <1>3, <1>4, <1>5, <1>6, <1>7, <1>8, NodeStepHolds DEF RelayNext

\* Whatever reconciliations and requests overlap, whatever file operation fails and whatever
\* answer comes late: a published grant is on the Relay's disk, a grant that is pending or
\* being revoked has its outbox row, a revoked one is off disk unless an overlapping worker
\* wrote its document late, and a node's generations stay in order (db.rs,
\* control-server relay.rs, node-host relay.rs).
THEOREM GrantsCarriedOut == RelaySpec => []GrantsAreCarriedOut
<1>1. RelayInit => RelayInv
  <2> SUFFICES ASSUME RelayInit PROVE RelayInv
    OBVIOUS
  <2>1. /\ grant = [g \in Grants |-> "none"] /\ outbox = {} /\ documents = {} /\ overtaken = {}
        /\ worker = [w \in Workers |-> Resting] /\ host = [n \in RelayNodes |-> NoAssignment]
    BY DEF RelayInit, EmptyRelayTables, NoRoutes
  <2>2. NoAssignment \in HostRow
    BY GrantFacts DEF NoAssignment, HostRow
  <2>3. RelayTypeOK
    BY <2>1, <2>2, RestingFits DEF RelayTypeOK, GrantStates
  <2>4. \A w \in Workers : WorkerFits(worker[w])
    BY <2>1, RestingFits DEF WorkerFits
  <2>5. PublishedIsOnDisk /\ OutboxCoversGrants /\ RevokedIsOffDisk /\ ManagedStateLoads
    BY <2>1 DEF PublishedIsOnDisk, OutboxCoversGrants, RevokedIsOffDisk, ManagedStateLoads, NoAssignment
  <2> QED BY <2>3, <2>4, <2>5 DEF RelayInv
<1>2. RelayInv => GrantsAreCarriedOut
  BY DEF RelayInv, GrantsAreCarriedOut
<1> QED BY <1>1, <1>2, RelayStepHolds, PTL DEF RelaySpec

-----------------------------------------------------------------------------
(* Quota: what was forwarded in a month and what flows may still forward   *)
(* fits every state that a restart may find.  The sum over the flows is    *)
(* stated by running totals along a fixed order of the flows, which a      *)
(* reservation or a forwarding shifts from one flow on.                    *)

FlowCount == Cardinality(Flows)
FlowOrder ==
    CHOOSE e \in [1 .. FlowCount -> Flows] :
        /\ \A i, j \in 1 .. FlowCount : i # j => e[i] # e[j]
        /\ \A f \in Flows : \E i \in 1 .. FlowCount : e[i] = f

\* What flow f may still forward in month m.
Share(f, m) == IF granted[f].month = m THEN granted[f].bytes ELSE 0

\* Totals that start at what was forwarded, and grow by every flow's share.
Totals(acc, m) ==
    /\ acc \in [0 .. FlowCount -> Nat] /\ acc[0] = forwarded[m]
    /\ \A i, j \in 0 .. FlowCount : i < j => acc[j] >= acc[i] + Share(FlowOrder[j], m)

\* The traffic of month m, with what flows hold, is at most cap.
Within(m, cap) == \E acc : Totals(acc, m) /\ acc[FlowCount] <= cap

RecordRow == [month : 0 .. MaxMonth, bytes : 0 .. Limit, retired : 0 .. MaxMonth]
FileRow == [water : 0 .. MaxMonth, record : RecordRow]
WriterRow == [at : {"idle", "create", "rename", "sync"}, next : FileRow, flow : Flows \cup {"none"}, bytes : 0 .. Limit]

QuotaTypeOK ==
    /\ clock \in Months /\ memory \in FileRow /\ store \in {"open", "closed", "poisoned"}
    /\ visible \in FileRow /\ durable \in FileRow /\ writer \in WriterRow
    /\ granted \in [Flows -> [bytes : 0 .. Limit, month : 0 .. MaxMonth]] /\ forwarded \in [Months -> Nat]

\* A month that a file does not yet count.
Ahead(file, m) == IF file.record.month # 0 THEN m > file.record.month ELSE m >= file.water

\* A file that counts all traffic, and can be read.
Counts(file) ==
    /\ Readable(file) /\ (file.water = 0 => file = Closed)
    /\ file.record.retired # 0 => file.record.month <= file.record.retired
    /\ \A m \in Months : /\ m = file.record.month => Within(m, file.record.bytes)
                         /\ Ahead(file, m) => Within(m, 0)

\* A commit under way: its file counts all traffic and leaves room for its reservation.
CommitFits ==
    writer.at # "idle" =>
        /\ store = "open" /\ Counts(writer.next) /\ writer.next.water >= memory.water
        /\ writer.flow # "none" => \E c \in Nat : /\ c + writer.bytes <= writer.next.record.bytes
                                                  /\ writer.next.record.month # 0
                                                  /\ Within(writer.next.record.month, c)

FilesAgree ==
    /\ store = "open" => durable = memory /\ memory.water # 0
    /\ store = "open" /\ writer.at # "sync" => visible = durable
    /\ writer.at = "sync" => visible = writer.next
    /\ memory.water <= visible.water

QuotaInv ==
    /\ QuotaTypeOK /\ Counts(durable) /\ Counts(visible) /\ CommitFits /\ FilesAgree
    /\ \A m \in Months : Within(m, Limit)

LEMMA FlowsOrdered ==
    /\ FlowCount \in Nat /\ FlowOrder \in [1 .. FlowCount -> Flows]
    /\ \A i, j \in 1 .. FlowCount : i # j => FlowOrder[i] # FlowOrder[j]
    /\ \A f \in Flows : \E i \in 1 .. FlowCount : FlowOrder[i] = f
<1>1. FlowCount \in Nat /\ ExistsBijection(1 .. FlowCount, Flows)
  BY FS_CardinalityType, QuotaAssumption DEF FlowCount
<1>2. PICK e : e \in Bijection(1 .. FlowCount, Flows)
  BY <1>1 DEF ExistsBijection
<1>3. /\ e \in [1 .. FlowCount -> Flows] /\ \A i, j \in 1 .. FlowCount : i # j => e[i] # e[j]
      /\ \A f \in Flows : \E i \in 1 .. FlowCount : e[i] = f
  BY <1>2 DEF Bijection, Injection, Surjection, IsInjective
<1> QED BY <1>1, <1>3 DEF FlowOrder

\* Steps that change neither what was forwarded nor what flows hold.
LEMMA WithinSame ==
    ASSUME UNCHANGED <<granted, forwarded>>, NEW m, NEW c
    PROVE  Within(m, c)' <=> Within(m, c)
  BY DEF Within, Totals, Share, FlowOrder, FlowCount

LEMMA WithinMore ==
    ASSUME NEW m, NEW c \in Nat, NEW d \in Nat, c <= d, Within(m, c)
    PROVE  Within(m, d)
<1>1. PICK acc : Totals(acc, m) /\ acc[FlowCount] <= c
  BY DEF Within
<1>2. acc[FlowCount] \in Nat
  BY <1>1, FlowsOrdered DEF Totals
<1> QED BY <1>1, <1>2 DEF Within

LEMMA WithinBounds ==
    ASSUME NEW m, NEW c \in Nat, Within(m, c), forwarded[m] \in Nat, \A f \in Flows : granted[f].bytes \in Nat
    PROVE  forwarded[m] <= c
<1>1. PICK acc : Totals(acc, m) /\ acc[FlowCount] <= c
  BY DEF Within
<1>2. CASE FlowCount = 0
  BY <1>1, <1>2 DEF Totals
<1>3. CASE FlowCount # 0
  <2>1. /\ 0 \in 0 .. FlowCount /\ FlowCount \in 0 .. FlowCount /\ 0 < FlowCount
        /\ FlowOrder[FlowCount] \in Flows /\ FlowCount \in Nat
    BY <1>3, FlowsOrdered
  <2>2. Share(FlowOrder[FlowCount], m) \in Nat
    BY <2>1 DEF Share
  <2>3. acc[FlowCount] >= forwarded[m] + Share(FlowOrder[FlowCount], m) /\ acc[FlowCount] \in Nat
    BY <1>1, <2>1 DEF Totals
  <2> QED BY <1>1, <2>2, <2>3
<1> QED BY <1>2, <1>3

\* Bytes that a flow holds are forwarded: the totals before it grow by them.
LEMMA ForwardWithin ==
    ASSUME QuotaTypeOK, NEW f \in Flows, ForwardBytes(f), NEW m \in Months, NEW c \in Nat, Within(m, c)
    PROVE  Within(m, c)'
<1>1. PICK acc : Totals(acc, m) /\ acc[FlowCount] <= c
  BY DEF Within
<1>2. PICK k \in 1 .. FlowCount : FlowOrder[k] = f
  BY FlowsOrdered
<1>3. PICK b : b = Share(f, m)
  OBVIOUS
<1>4. /\ b \in Nat /\ FlowCount \in Nat /\ forwarded[m] \in Nat
      /\ \A g \in Flows : Share(g, m) \in Nat
      /\ acc \in [0 .. FlowCount -> Nat]
  BY <1>1, <1>3, FlowsOrdered, QuotaAssumption DEF QuotaTypeOK, Share, Totals
<1>5. forwarded'[m] = forwarded[m] + b
  BY <1>3, <1>4 DEF ForwardBytes, QuotaTypeOK, Share
<1>6. Share(f, m)' = 0 /\ \A g \in Flows \ {f} : Share(g, m)' = Share(g, m)
  BY DEF ForwardBytes, QuotaTypeOK, Share, Nothing
<1>7. PICK new : new = [j \in 0 .. FlowCount |-> IF j < k THEN acc[j] + b ELSE acc[j]]
  OBVIOUS
<1>8. new \in [0 .. FlowCount -> Nat] /\ new[0] = forwarded'[m] /\ new[FlowCount] = acc[FlowCount]
  BY <1>1, <1>2, <1>4, <1>5, <1>7 DEF Totals
<1>9. ASSUME NEW i \in 0 .. FlowCount, NEW j \in 0 .. FlowCount, i < j
      PROVE  new[j] >= new[i] + Share(FlowOrder[j], m)'
  <2>1. j \in 1 .. FlowCount /\ FlowOrder[j] \in Flows /\ k \in 0 .. FlowCount /\ i \in Nat /\ j \in Nat /\ k \in Nat
    BY <1>4, <1>9, FlowsOrdered
  <2>2. acc[j] >= acc[i] + Share(FlowOrder[j], m) /\ acc[i] \in Nat /\ acc[j] \in Nat /\ acc[k] \in Nat
    BY <1>1, <1>4, <1>9, <2>1 DEF Totals
  <2>3. Share(FlowOrder[j], m) \in Nat
    BY <1>4, <2>1
  <2>4. CASE j = k
    <3>1. Share(FlowOrder[j], m)' = 0 /\ Share(FlowOrder[j], m) = b
      BY <1>2, <1>3, <1>6, <2>4
    <3>2. new[j] = acc[j] /\ new[i] = acc[i] + b
      BY <1>7, <1>9, <2>1, <2>4
    <3> QED BY <1>4, <2>2, <3>1, <3>2
  <2>5. CASE j # k
    <3>1. Share(FlowOrder[j], m)' = Share(FlowOrder[j], m)
      BY <1>2, <1>6, <2>1, <2>5, FlowsOrdered
    <3>2. CASE j < k \/ i >= k
      BY <1>4, <1>7, <1>9, <2>1, <2>2, <2>3, <3>1, <3>2
    <3>3. CASE i < k /\ k < j
      <4>1. acc[k] >= acc[i] + b
        BY <1>1, <1>2, <1>3, <2>1, <3>3 DEF Totals
      <4>2. acc[j] >= acc[k] + Share(FlowOrder[j], m)
        BY <1>1, <2>1, <3>3 DEF Totals
      <4>3. new[i] = acc[i] + b /\ new[j] = acc[j]
        BY <1>7, <1>9, <2>1, <3>3
      <4> QED BY <1>4, <2>2, <2>3, <3>1, <4>1, <4>2, <4>3
    <3> QED BY <2>1, <2>5, <3>2, <3>3
  <2> QED BY <2>4, <2>5
<1>10. Totals(new, m)'
  <2>1. FlowCount' = FlowCount /\ FlowOrder' = FlowOrder
    BY DEF FlowCount, FlowOrder
  <2> QED BY <1>8, <1>9, <2>1 DEF Totals, Share, FlowOrder, FlowCount
<1>11. FlowCount' = FlowCount
  BY DEF FlowCount
<1> QED BY <1>1, <1>8, <1>10, <1>11 DEF Within

\* A flow gets bytes: the totals from it on grow by them.
LEMMA GrantWithin ==
    ASSUME QuotaTypeOK, NEW f \in Flows, NEW s \in [bytes : 0 .. Limit, month : 0 .. MaxMonth],
           granted' = [granted EXCEPT ![f] = s], forwarded' = forwarded,
           NEW m \in Months, NEW c \in Nat, Within(m, c)
    PROVE  Within(m, c + (IF s.month = m THEN s.bytes ELSE 0))'
<1>1. PICK acc : Totals(acc, m) /\ acc[FlowCount] <= c
  BY DEF Within
<1>2. PICK k \in 1 .. FlowCount : FlowOrder[k] = f
  BY FlowsOrdered
<1>3. PICK b : b = IF s.month = m THEN s.bytes ELSE 0
  OBVIOUS
<1>4. /\ b \in Nat /\ FlowCount \in Nat /\ forwarded[m] \in Nat
      /\ \A g \in Flows : Share(g, m) \in Nat
      /\ acc \in [0 .. FlowCount -> Nat]
  BY <1>1, <1>3, FlowsOrdered, QuotaAssumption DEF QuotaTypeOK, Share, Totals
<1>5. Share(f, m)' = b /\ \A g \in Flows \ {f} : Share(g, m)' = Share(g, m)
  BY <1>3 DEF QuotaTypeOK, Share
<1>6. PICK new : new = [j \in 0 .. FlowCount |-> IF j < k THEN acc[j] ELSE acc[j] + b]
  OBVIOUS
<1>7. new \in [0 .. FlowCount -> Nat] /\ new[0] = forwarded'[m] /\ new[FlowCount] = acc[FlowCount] + b
  BY <1>1, <1>2, <1>4, <1>6 DEF Totals
<1>8. ASSUME NEW i \in 0 .. FlowCount, NEW j \in 0 .. FlowCount, i < j
      PROVE  new[j] >= new[i] + Share(FlowOrder[j], m)'
  <2>1. j \in 1 .. FlowCount /\ FlowOrder[j] \in Flows /\ i \in Nat /\ j \in Nat /\ k \in Nat
    BY <1>4, <1>8, FlowsOrdered
  <2>2. acc[j] >= acc[i] + Share(FlowOrder[j], m) /\ acc[i] \in Nat /\ acc[j] \in Nat
    BY <1>1, <1>4, <1>8, <2>1 DEF Totals
  <2>3. Share(FlowOrder[j], m) \in Nat
    BY <1>4, <2>1
  <2>4. CASE j = k
    <3>1. Share(FlowOrder[j], m)' = b
      BY <1>2, <1>5, <2>4
    <3>2. new[j] = acc[j] + b /\ new[i] = acc[i]
      BY <1>6, <1>8, <2>1, <2>4
    <3> QED BY <1>4, <2>2, <2>3, <3>1, <3>2
  <2>5. CASE j # k
    <3>1. Share(FlowOrder[j], m)' = Share(FlowOrder[j], m)
      BY <1>2, <1>5, <2>1, <2>5, FlowsOrdered
    <3>2. (new[j] = acc[j] /\ new[i] = acc[i]) \/ (new[j] = acc[j] + b /\ new[i] \in {acc[i], acc[i] + b})
      BY <1>6, <1>8, <2>1
    <3> QED BY <1>4, <2>2, <2>3, <3>1, <3>2
  <2> QED BY <2>4, <2>5
<1>9. Totals(new, m)'
  <2>1. FlowCount' = FlowCount /\ FlowOrder' = FlowOrder
    BY DEF FlowCount, FlowOrder
  <2> QED BY <1>7, <1>8, <2>1 DEF Totals, Share, FlowOrder, FlowCount
<1>10. FlowCount' = FlowCount /\ new[FlowCount] <= c + b
  <2>1. acc[FlowCount] \in Nat
    BY <1>4
  <2> QED BY <1>1, <1>4, <1>7, <2>1 DEF FlowCount
<1> QED BY <1>3, <1>9, <1>10 DEF Within

\* Flows lose what they hold.
LEMMA DropWithin ==
    ASSUME QuotaTypeOK, forwarded' = forwarded, NEW m \in Months, NEW c \in Nat, Within(m, c),
           \A f \in Flows : granted'[f] = granted[f] \/ granted'[f] = Nothing
    PROVE  Within(m, c)'
<1>1. PICK acc : Totals(acc, m) /\ acc[FlowCount] <= c
  BY DEF Within
<1>2. FlowCount \in Nat /\ acc \in [0 .. FlowCount -> Nat] /\ \A g \in Flows : Share(g, m) \in Nat
  BY <1>1, FlowsOrdered, QuotaAssumption DEF QuotaTypeOK, Share, Totals
<1>3. \A g \in Flows : Share(g, m)' = Share(g, m) \/ Share(g, m)' = 0
  BY DEF Share, Nothing
<1>4. ASSUME NEW i \in 0 .. FlowCount, NEW j \in 0 .. FlowCount, i < j
      PROVE  acc[j] >= acc[i] + Share(FlowOrder[j], m)'
  <2>1. FlowOrder[j] \in Flows
    BY <1>2, <1>4, FlowsOrdered
  <2>2. acc[j] >= acc[i] + Share(FlowOrder[j], m) /\ acc[i] \in Nat /\ acc[j] \in Nat
    BY <1>1, <1>2, <1>4 DEF Totals
  <2> QED BY <1>2, <1>3, <2>1, <2>2
<1>5. Totals(acc, m)'
  <2>1. FlowCount' = FlowCount /\ FlowOrder' = FlowOrder
    BY DEF FlowCount, FlowOrder
  <2> QED BY <1>1, <1>2, <1>4, <2>1 DEF Totals, Share, FlowOrder, FlowCount
<1>6. FlowCount' = FlowCount
  BY DEF FlowCount
<1> QED BY <1>1, <1>5, <1>6 DEF Within

-----------------------------------------------------------------------------
(* The steps of the quota store *)

\* The traffic of every month stays within whatever bounded it before.
TrafficKept == \A m \in Months, c \in Nat : Within(m, c) => Within(m, c)'

LEMMA CountsKept ==
    ASSUME TrafficKept, NEW file \in FileRow, Counts(file)
    PROVE  Counts(file)'
<1>1. file.record.bytes \in Nat /\ 0 \in Nat
  BY QuotaAssumption DEF FileRow, RecordRow
<1>2. \A m \in Months : /\ m = file.record.month => Within(m, file.record.bytes)'
                        /\ Ahead(file, m) => Within(m, 0)'
  BY <1>1 DEF Counts, TrafficKept
<1>3. /\ Readable(file)' /\ (file.water = 0 => file = Closed') /\ (\A m : Ahead(file, m)' <=> Ahead(file, m)) /\ Months' = Months
  BY DEF Counts, Readable, Ahead, Months, Closed, NoRecord
<1> QED BY <1>2, <1>3 DEF Counts

LEMMA LimitKept ==
    ASSUME TrafficKept, \A m \in Months : Within(m, Limit)
    PROVE  \A m \in Months : Within(m, Limit)'
  BY QuotaAssumption DEF TrafficKept

LEMMA CommitKept ==
    ASSUME QuotaTypeOK, TrafficKept, CommitFits, UNCHANGED <<writer, store, memory>>
    PROVE  CommitFits'
<1> SUFFICES ASSUME writer.at # "idle" PROVE CommitFits'
  BY DEF CommitFits
<1>1. writer.next \in FileRow /\ Counts(writer.next) /\ store = "open" /\ writer.next.water >= memory.water
  BY DEF CommitFits, QuotaTypeOK, WriterRow
<1>2. PICK nx : nx = writer.next
  OBVIOUS
<1>3. Counts(nx)'
  BY <1>1, <1>2, CountsKept
<1>4. Counts(writer.next)'
  <2>1. nx = writer'.next
    BY <1>2
  <2> QED BY <1>3, <2>1 DEF Counts, Readable, Ahead, Within, Totals, Share, Months
<1>5. ASSUME writer.flow # "none"
      PROVE  \E c \in Nat : /\ c + writer.bytes <= nx.record.bytes /\ nx.record.month # 0
                            /\ Within(nx.record.month, c)'
  <2>1. PICK c \in Nat : c + writer.bytes <= nx.record.bytes /\ nx.record.month # 0 /\ Within(nx.record.month, c)
    BY <1>2, <1>5 DEF CommitFits
  <2>2. nx.record.month \in Months
    BY <1>1, <1>2, <2>1, QuotaAssumption DEF FileRow, RecordRow, Months
  <2> QED BY <2>1, <2>2 DEF TrafficKept
<1> QED BY <1>1, <1>2, <1>4, <1>5 DEF CommitFits, Within, Totals, Share

\* Steps that move bytes or the clock, and no file.
LEMMA FilesStay ==
    ASSUME QuotaInv, TrafficKept, UNCHANGED <<memory, store, visible, durable, writer>>, clock' \in Months,
           granted' \in [Flows -> [bytes : 0 .. Limit, month : 0 .. MaxMonth]], forwarded' \in [Months -> Nat]
    PROVE  QuotaInv'
<1>1. /\ QuotaTypeOK /\ Counts(durable) /\ Counts(visible) /\ CommitFits /\ FilesAgree
      /\ \A m \in Months : Within(m, Limit)
  BY DEF QuotaInv
<1>2. QuotaTypeOK'
  BY <1>1 DEF QuotaTypeOK, Months, FileRow, RecordRow, WriterRow
<1>3. PICK d, v : d = durable /\ v = visible
  OBVIOUS
<1>4. Counts(d)' /\ Counts(v)'
  BY <1>1, <1>3, CountsKept DEF QuotaTypeOK
<1>5. Counts(durable)' /\ Counts(visible)'
  BY <1>3, <1>4 DEF Counts, Readable, Ahead, Within, Totals, Share, Months
<1>6. CommitFits'
  BY <1>1, CommitKept
<1>7. FilesAgree'
  BY <1>1 DEF FilesAgree
<1>8. \A m \in Months : Within(m, Limit)'
  BY <1>1, LimitKept
<1> QED BY <1>2, <1>5, <1>6, <1>7, <1>8 DEF QuotaInv, Months

LEMMA BytesMove ==
    ASSUME QuotaInv, \/ \E f \in Flows : ForwardBytes(f) \/ DropBytes(f)
                     \/ \E m \in Months : SetClock(m)
    PROVE  QuotaInv'
<1>1. QuotaTypeOK /\ Limit \in Nat /\ MaxMonth \in Nat
  BY QuotaAssumption DEF QuotaInv
<1>2. Nothing \in [bytes : 0 .. Limit, month : 0 .. MaxMonth]
  BY <1>1 DEF Nothing
<1>3. ASSUME NEW f \in Flows, ForwardBytes(f) PROVE QuotaInv'
  <2>1. TrafficKept
    BY <1>1, <1>3, ForwardWithin DEF TrafficKept
  <2>2. granted' \in [Flows -> [bytes : 0 .. Limit, month : 0 .. MaxMonth]]
    BY <1>1, <1>2, <1>3 DEF ForwardBytes, QuotaTypeOK
  <2>3. forwarded' \in [Months -> Nat]
    <3>1. granted[f].bytes \in Nat
      BY <1>1 DEF QuotaTypeOK
    <3>2. \A m \in Months : forwarded[m] + granted[f].bytes \in Nat
      BY <1>1, <3>1 DEF QuotaTypeOK
    <3> QED BY <1>1, <1>3, <3>2 DEF ForwardBytes, QuotaTypeOK
  <2> QED BY <1>1, <1>3, <2>1, <2>2, <2>3, FilesStay DEF ForwardBytes, QuotaTypeOK
<1>4. ASSUME NEW f \in Flows, DropBytes(f) PROVE QuotaInv'
  <2>1. \A g \in Flows : granted'[g] = granted[g] \/ granted'[g] = Nothing
    BY <1>1, <1>4 DEF DropBytes, QuotaTypeOK
  <2>2. TrafficKept
    BY <1>1, <1>4, <2>1, DropWithin DEF TrafficKept, DropBytes
  <2>3. granted' \in [Flows -> [bytes : 0 .. Limit, month : 0 .. MaxMonth]]
    BY <1>1, <1>2, <1>4 DEF DropBytes, QuotaTypeOK
  <2> QED BY <1>1, <1>4, <2>2, <2>3, FilesStay DEF DropBytes, QuotaTypeOK
<1>5. ASSUME NEW m \in Months, SetClock(m) PROVE QuotaInv'
  <2>1. TrafficKept
    BY <1>5, WithinSame DEF TrafficKept, SetClock
  <2> QED BY <1>1, <1>5, <2>1, FilesStay DEF SetClock, QuotaTypeOK
<1> QED BY <1>3, <1>4, <1>5

LEMMA NowFacts ==
    ASSUME QuotaInv, store = "open"
    PROVE  /\ EffectiveNow \in Months /\ EffectiveNow \in 0 .. MaxMonth /\ EffectiveNow >= memory.water
           /\ EffectiveNow \in Nat /\ EffectiveNow # 0 /\ MaxMonth \in Nat /\ Limit \in Nat
           /\ memory \in FileRow /\ Counts(memory) /\ memory.record \in RecordRow
<1>1. QuotaTypeOK /\ durable = memory /\ Counts(durable) /\ MaxMonth \in Nat /\ Limit \in Nat
  BY QuotaAssumption DEF QuotaInv, FilesAgree
<1>2. clock \in Months /\ memory \in FileRow /\ memory.water \in 0 .. MaxMonth /\ memory.record \in RecordRow
  BY <1>1 DEF QuotaTypeOK, FileRow
<1>3. EffectiveNow \in Months /\ EffectiveNow >= memory.water
  BY <1>1, <1>2 DEF EffectiveNow, Months
<1> QED BY <1>1, <1>2, <1>3 DEF Months

\* roll_record: the month is the current one, and the record counts its traffic.
LEMMA RolledFits ==
    ASSUME QuotaInv, store = "open", memory.record.month # 0, NEW r, r = Rolled(memory.record)
    PROVE  /\ r \in RecordRow /\ r.month = EffectiveNow /\ r.retired = memory.record.retired
           /\ Within(EffectiveNow, r.bytes)
           /\ \A m \in Months : m > EffectiveNow => Within(m, 0)
<1>1. PICK x : x = memory.record
  OBVIOUS
<1>2. PICK now : now = EffectiveNow
  OBVIOUS
<1>3. /\ now \in Months /\ now \in 0 .. MaxMonth /\ now \in Nat /\ x \in RecordRow /\ Counts(memory) /\ memory.water <= now
      /\ memory.water \in Nat /\ x.month \in Nat /\ x.month <= memory.water /\ 0 \in 0 .. Limit
  BY <1>1, <1>2, NowFacts DEF Counts, Readable, FileRow, RecordRow
<1>4. \A m \in Months : /\ m = x.month => Within(m, x.bytes)
                        /\ m > x.month => Within(m, 0)
  BY <1>1, <1>3 DEF Counts, Ahead
<1>5. \A m \in Months : m > now => Within(m, 0)
  BY <1>3, <1>4 DEF Months
<1>6. CASE x.month < now
  <2>1. PICK d : d = [x EXCEPT !.month = now]
    OBVIOUS
  <2>2. r = [d EXCEPT !.bytes = 0]
    BY <1>1, <1>2, <1>3, <1>6, <2>1 DEF Rolled, RecordRow
  <2>3. d \in RecordRow /\ d.month = now /\ d.retired = x.retired
    BY <1>3, <2>1 DEF RecordRow
  <2>4. r \in RecordRow /\ r.month = now /\ r.retired = x.retired /\ r.bytes = 0
    BY <1>3, <2>2, <2>3 DEF RecordRow
  <2>5. Within(now, 0)
    BY <1>3, <1>4, <1>6
  <2> QED BY <1>1, <1>2, <1>5, <2>4, <2>5
<1>7. CASE ~ x.month < now
  <2>1. x.month = now /\ r = x
    BY <1>1, <1>2, <1>3, <1>7 DEF Rolled
  <2>2. Within(now, x.bytes)
    BY <1>3, <1>4, <2>1
  <2> QED BY <1>1, <1>2, <1>3, <1>5, <2>1, <2>2
<1> QED BY <1>6, <1>7

\* A file with a record of the current month.
LEMMA CurrentFileCounts ==
    ASSUME QuotaInv, store = "open", NEW r \in RecordRow, r.month = EffectiveNow, r.retired = 0,
           Within(EffectiveNow, r.bytes), \A m \in Months : m > EffectiveNow => Within(m, 0),
           NEW file, file = [water |-> EffectiveNow, record |-> r]
    PROVE  file \in FileRow /\ Counts(file)
<1>1. PICK now : now = EffectiveNow
  OBVIOUS
<1>2. now \in Nat /\ now # 0 /\ now \in 0 .. MaxMonth
  BY <1>1, NowFacts
<1>3. file.water = now /\ file.record = r /\ file \in FileRow
  BY <1>1, <1>2 DEF FileRow
<1>4. Readable(file)
  BY <1>1, <1>2, <1>3 DEF Readable
<1>5. \A m \in Months : Ahead(file, m) => m > now
  BY <1>1, <1>2, <1>3 DEF Ahead
<1> QED BY <1>1, <1>2, <1>3, <1>4, <1>5 DEF Counts

\* A commit begins.
LEMMA CommitBegins ==
    ASSUME QuotaInv, Usable, NEW r, NEW f \in Flows \cup {"none"}, NEW n \in 0 .. Limit, Commit(r, f, n),
           NEW file \in FileRow, file = [water |-> EffectiveNow, record |-> r], Counts(file),
           f # "none" => r.month # 0 /\ \E c \in Nat : c + n <= r.bytes /\ Within(r.month, c),
           UNCHANGED <<clock, memory, store, visible, durable, temporary, granted, forwarded, stops>>
    PROVE  QuotaInv'
<1>1. /\ QuotaTypeOK /\ Counts(durable) /\ Counts(visible) /\ FilesAgree
      /\ \A m \in Months : Within(m, Limit)
  BY DEF QuotaInv
<1>2. store = "open" /\ writer.at = "idle"
  BY DEF Usable
<1>3. writer' = [at |-> "create", next |-> file, flow |-> f, bytes |-> n]
  BY DEF Commit
<1>4. TrafficKept
  BY WithinSame DEF TrafficKept
<1>5. QuotaTypeOK'
  BY <1>1, <1>3 DEF QuotaTypeOK, Months, FileRow, RecordRow, WriterRow
<1>6. PICK d, v : d = durable /\ v = visible
  OBVIOUS
<1>7. Counts(d)' /\ Counts(v)' /\ Counts(file)'
  BY <1>1, <1>4, <1>6, CountsKept DEF QuotaTypeOK
<1>8. Counts(durable)' /\ Counts(visible)'
  BY <1>6, <1>7 DEF Counts, Readable, Ahead, Within, Totals, Share, Months
<1>9. CommitFits'
  <2>1. writer'.next = file /\ writer'.at = "create" /\ writer'.flow = f /\ writer'.bytes = n /\ store' = "open"
    BY <1>2, <1>3
  <2>2. Counts(writer.next)'
    BY <1>7, <2>1 DEF Counts, Readable, Ahead, Within, Totals, Share, Months
  <2>3. file.water = EffectiveNow /\ EffectiveNow >= memory.water /\ file.record = r
    BY <1>2, NowFacts
  <2>4. writer'.next.water >= memory'.water
    BY <2>1, <2>3
  <2>5. ASSUME f # "none"
        PROVE  \E c \in Nat : c + n <= r.bytes /\ r.month # 0 /\ Within(r.month, c)'
    BY <2>5, WithinSame
  <2> QED BY <2>1, <2>2, <2>3, <2>4, <2>5 DEF CommitFits, Within, Totals, Share
<1>10. FilesAgree'
  BY <1>1, <1>2, <1>3 DEF FilesAgree
<1>11. \A m \in Months : Within(m, Limit)'
  BY <1>1, <1>4, LimitKept
<1> QED BY <1>5, <1>8, <1>9, <1>10, <1>11 DEF QuotaInv, Months

LEMMA ReserveHolds ==
    ASSUME QuotaInv, NEW f \in Flows, NEW n \in 1 .. MaxChunk, Reserve(f, n)
    PROVE  QuotaInv'
<1>1. PICK x : x = Rolled(memory.record)
  OBVIOUS
<1>2. PICK room : room = IF x.bytes >= Limit THEN 0 ELSE Limit - x.bytes
  OBVIOUS
<1>3. PICK share : share = IF n < room THEN n ELSE room
  OBVIOUS
<1>4. PICK r : r = [x EXCEPT !.bytes = x.bytes + share]
  OBVIOUS
<1>5. /\ Usable /\ HasRecord /\ share > 0 /\ Commit(r, f, share)
      /\ UNCHANGED <<clock, memory, store, visible, durable, temporary, granted, forwarded, stops>>
  BY <1>1, <1>2, <1>3, <1>4 DEF Reserve
<1>6. store = "open" /\ memory.record.month # 0 /\ memory.record.retired = 0
  BY <1>5 DEF Usable, HasRecord
<1>7. /\ x \in RecordRow /\ x.month = EffectiveNow /\ x.retired = 0 /\ Within(EffectiveNow, x.bytes)
      /\ \A m \in Months : m > EffectiveNow => Within(m, 0)
  BY <1>1, <1>6, RolledFits
<1>8. x.bytes \in Nat /\ Limit \in Nat /\ n \in Nat /\ EffectiveNow # 0
  BY <1>6, <1>7, NowFacts, QuotaAssumption DEF RecordRow
<1>9. share \in 0 .. Limit /\ share \in Nat /\ x.bytes + share \in 0 .. Limit
  BY <1>2, <1>3, <1>5, <1>8
<1>10. r \in RecordRow /\ r.month = EffectiveNow /\ r.retired = 0 /\ r.bytes = x.bytes + share
  BY <1>4, <1>7, <1>9 DEF RecordRow
<1>11. Within(EffectiveNow, r.bytes)
  BY <1>7, <1>8, <1>9, <1>10, WithinMore
<1>12. PICK file : file = [water |-> EffectiveNow, record |-> r]
  OBVIOUS
<1>13. file \in FileRow /\ Counts(file)
  BY <1>6, <1>7, <1>10, <1>11, <1>12, CurrentFileCounts
<1>14. r.month # 0 /\ \E c \in Nat : c + share <= r.bytes /\ Within(r.month, c)
  BY <1>7, <1>8, <1>9, <1>10
<1> QED BY <1>5, <1>9, <1>12, <1>13, <1>14, CommitBegins

LEMMA PermitStreamHolds == ASSUME QuotaInv, PermitStream PROVE QuotaInv'
<1>1. PICK r : r = Rolled(memory.record)
  OBVIOUS
<1>2. PICK file : file = [water |-> EffectiveNow, record |-> r]
  OBVIOUS
<1>3. /\ Usable /\ HasRecord /\ Commit(r, "none", 0)
      /\ UNCHANGED <<clock, memory, store, visible, durable, temporary, granted, forwarded, stops>>
  BY <1>1 DEF PermitStream
<1>4. store = "open" /\ memory.record.month # 0 /\ memory.record.retired = 0
  BY <1>3 DEF Usable, HasRecord
<1>5. /\ r \in RecordRow /\ r.month = EffectiveNow /\ r.retired = 0 /\ Within(EffectiveNow, r.bytes)
      /\ \A m \in Months : m > EffectiveNow => Within(m, 0)
  BY <1>1, <1>4, RolledFits
<1>6. file \in FileRow /\ Counts(file)
  BY <1>2, <1>4, <1>5, CurrentFileCounts
<1>7. 0 \in 0 .. Limit
  BY QuotaAssumption
<1> QED BY <1>2, <1>3, <1>6, <1>7, CommitBegins

\* A record that may be dropped counts no traffic of the current month.
LEMMA DroppedIsOver ==
    ASSUME QuotaInv, store = "open",
           \/ memory.record.month = 0
           \/ memory.record.retired # 0 /\ EffectiveNow >= memory.record.retired + RetentionMonths
    PROVE  \A m \in Months : m >= EffectiveNow => Within(m, 0)
<1>1. PICK now : now = EffectiveNow
  OBVIOUS
<1>2. PICK x : x = memory.record
  OBVIOUS
<1>3. /\ now \in Nat /\ memory.water <= now /\ memory.water \in Nat /\ Counts(memory) /\ x.month \in Nat /\ x.retired \in Nat
      /\ MaxMonth \in Nat
  BY <1>1, <1>2, NowFacts DEF FileRow, RecordRow
<1>4. x.retired # 0 => x.month <= x.retired
  BY <1>2, <1>3 DEF Counts
<1>5. \A m \in Months : m >= now => Ahead(memory, m)
  BY <1>1, <1>2, <1>3, <1>4 DEF Ahead, RetentionMonths, Months
<1> QED BY <1>1, <1>3, <1>5 DEF Counts

LEMMA ReconcileQuotaHolds ==
    ASSUME QuotaInv, NEW isActive \in BOOLEAN, ReconcileQuota(isActive)
    PROVE  QuotaInv'
<1>1. PICK x : x = memory.record
  OBVIOUS
<1>2. PICK kept \in Retained(x) :
          /\ Usable /\ Reconciled(kept, isActive) # x /\ Commit(Reconciled(kept, isActive), "none", 0)
          /\ UNCHANGED <<clock, memory, store, visible, durable, temporary, granted, forwarded, stops>>
  BY <1>1 DEF ReconcileQuota
<1>3. PICK r : r = Reconciled(kept, isActive)
  OBVIOUS
<1>4. PICK now : now = EffectiveNow
  OBVIOUS
<1>5. PICK file : file = [water |-> now, record |-> r]
  OBVIOUS
<1>6. store = "open" /\ 0 \in 0 .. Limit
  BY <1>2, QuotaAssumption DEF Usable
<1>7. /\ now \in Months /\ now \in 0 .. MaxMonth /\ now \in Nat /\ now # 0 /\ memory.water <= now /\ memory.water \in Nat
      /\ x \in RecordRow /\ Counts(memory) /\ MaxMonth \in Nat
  BY <1>1, <1>4, <1>6, NowFacts DEF FileRow
<1>8. x.month \in Nat /\ x.retired \in Nat /\ x.month <= memory.water
  BY <1>1, <1>7 DEF RecordRow, Counts, Readable
<1>9. kept = x \/ (kept = NoRecord /\ x.retired # 0 /\ now >= x.retired + RetentionMonths)
  <2>1. Retained(x) = IF x.retired = 0 \/ now < x.retired + RetentionMonths THEN {x}
                      ELSE IF now <= x.retired + RetentionMonths + 1 THEN {x, NoRecord} ELSE {NoRecord}
    BY <1>4 DEF Retained
  <2>2. x.retired + RetentionMonths \in Nat
    BY <1>8 DEF RetentionMonths
  <2>3. CASE x.retired = 0 \/ now < x.retired + RetentionMonths
    <3>1. Retained(x) = {x}
      BY <2>1, <2>3
    <3>2. kept = x
      BY <1>2, <3>1
    <3> QED BY <3>2
  <2>4. CASE ~ (x.retired = 0 \/ now < x.retired + RetentionMonths)
    <3>1. kept \in {x, NoRecord}
      BY <1>2, <2>1, <2>4
    <3>2. now >= x.retired + RetentionMonths
      BY <1>7, <2>2, <2>4
    <3> QED BY <2>4, <3>1, <3>2
  <2> QED BY <2>3, <2>4
<1>10. NoRecord.month = 0 /\ NoRecord.retired = 0 /\ NoRecord.bytes = 0 /\ NoRecord \in RecordRow
  BY <1>6, <1>7 DEF NoRecord, RecordRow
<1>11. kept.month = 0 => \A m \in Months : m >= now => Within(m, 0)
  BY <1>1, <1>4, <1>6, <1>9, DroppedIsOver
<1>12. ASSUME file \in FileRow, Counts(file) PROVE QuotaInv'
  BY <1>2, <1>3, <1>4, <1>5, <1>6, <1>12, CommitBegins
<1>13. CASE isActive /\ kept.month = 0
  <2>1. r = [month |-> now, bytes |-> 0, retired |-> 0]
    BY <1>3, <1>4, <1>13 DEF Reconciled
  <2>2. r \in RecordRow /\ r.month = now /\ r.retired = 0 /\ r.bytes = 0
    BY <1>6, <1>7, <2>1 DEF RecordRow
  <2>3. Within(now, 0) /\ \A m \in Months : m > now => Within(m, 0)
    BY <1>7, <1>11, <1>13 DEF Months
  <2> QED BY <1>4, <1>5, <1>6, <1>12, <2>2, <2>3, CurrentFileCounts
<1>14. CASE isActive /\ kept.month # 0
  <2>1. kept = x /\ x.month # 0
    BY <1>9, <1>10, <1>14
  <2>2. PICK y : y = Rolled(x)
    OBVIOUS
  <2>3. r = [y EXCEPT !.retired = 0]
    BY <1>3, <1>14, <2>1, <2>2 DEF Reconciled
  <2>4. /\ y \in RecordRow /\ y.month = now /\ Within(now, y.bytes)
        /\ \A m \in Months : m > now => Within(m, 0)
    BY <1>1, <1>4, <1>6, <2>1, <2>2, RolledFits
  <2>5. r \in RecordRow /\ r.month = now /\ r.retired = 0 /\ r.bytes = y.bytes
    BY <1>7, <2>3, <2>4 DEF RecordRow
  <2> QED BY <1>4, <1>5, <1>6, <1>12, <2>4, <2>5, CurrentFileCounts
<1>15. CASE ~ isActive /\ kept.month # 0 /\ kept.retired = 0
  <2>1. kept = x /\ x.month # 0 /\ x.retired = 0
    BY <1>9, <1>10, <1>15
  <2>2. r = [x EXCEPT !.retired = now]
    BY <1>3, <1>4, <1>15, <2>1 DEF Reconciled
  <2>3. r \in RecordRow /\ r.month = x.month /\ r.retired = now /\ r.bytes = x.bytes
    BY <1>7, <2>2 DEF RecordRow
  <2>4. file \in FileRow /\ file.water = now /\ file.record = r
    BY <1>5, <1>7, <2>3 DEF FileRow
  <2>5. Readable(file) /\ file.record.month <= file.record.retired
    BY <1>7, <1>8, <2>3, <2>4 DEF Readable
  <2>6. \A m : Ahead(file, m) <=> Ahead(memory, m)
    BY <1>1, <2>1, <2>3, <2>4 DEF Ahead
  <2>7. Counts(file)
    BY <1>1, <1>7, <2>3, <2>4, <2>5, <2>6 DEF Counts
  <2> QED BY <1>12, <2>4, <2>7
<1>16. CASE ~ isActive /\ (kept.month = 0 \/ kept.retired # 0)
  <2>1. r = kept
    BY <1>3, <1>16 DEF Reconciled
  <2>2. r = NoRecord /\ r \in RecordRow
    BY <1>2, <1>3, <1>9, <1>10, <2>1
  <2>3. file \in FileRow /\ file.water = now /\ file.record = NoRecord
    BY <1>5, <1>7, <2>2 DEF FileRow
  <2>4. Readable(file)
    BY <1>7, <1>10, <2>3 DEF Readable
  <2>5. \A m \in Months : Ahead(file, m) => m >= now
    BY <1>10, <2>3 DEF Ahead
  <2>6. \A m \in Months : m # 0
    BY <1>7 DEF Months
  <2>7. Counts(file)
    BY <1>7, <1>10, <1>11, <2>1, <2>2, <2>3, <2>4, <2>5, <2>6 DEF Counts
  <2> QED BY <1>12, <2>3, <2>7
<1> QED BY <1>13, <1>14, <1>15, <1>16

\* A step of persist_state or of a restart: only the files move.
LEMMA FilesMove ==
    ASSUME QuotaInv, UNCHANGED <<clock, forwarded>>, TrafficKept,
           granted' \in [Flows -> [bytes : 0 .. Limit, month : 0 .. MaxMonth]],
           NEW d, NEW v, d \in {visible, durable}, v \in {visible, durable, writer.next},
           v = writer.next => writer.at # "idle" \/ v \in {visible, durable},
           durable' = d, visible' = v, memory' \in FileRow, writer' \in WriterRow,
           store' \in {"open", "closed", "poisoned"}, CommitFits', FilesAgree'
    PROVE  QuotaInv'
<1>1. /\ QuotaTypeOK /\ Counts(durable) /\ Counts(visible) /\ CommitFits
      /\ \A m \in Months : Within(m, Limit)
  BY DEF QuotaInv
<1>2. d \in FileRow /\ v \in FileRow /\ Counts(d) /\ Counts(v)
  BY <1>1 DEF QuotaTypeOK, WriterRow, CommitFits
<1>3. QuotaTypeOK'
  BY <1>1, <1>2 DEF QuotaTypeOK, Months, FileRow, RecordRow, WriterRow
<1>4. Counts(d)' /\ Counts(v)'
  BY <1>2, CountsKept
<1>5. Counts(durable)' /\ Counts(visible)'
  BY <1>4 DEF Counts, Readable, Ahead, Within, Totals, Share, Months
<1>6. \A m \in Months : Within(m, Limit)'
  BY <1>1, LimitKept
<1> QED BY <1>3, <1>5, <1>6 DEF QuotaInv, Months

LEMMA IdleCommit ==
    /\ NoCommit \in WriterRow /\ NoCommit.at = "idle" /\ Closed \in FileRow /\ Closed.water = 0
    /\ Nothing \in [bytes : 0 .. Limit, month : 0 .. MaxMonth]
<1>1. 0 \in 0 .. Limit /\ 0 \in 0 .. MaxMonth
  BY QuotaAssumption
<1>2. NoRecord \in RecordRow
  BY <1>1 DEF NoRecord, RecordRow
<1>3. Closed \in FileRow
  BY <1>1, <1>2 DEF Closed, FileRow
<1> QED BY <1>1, <1>3 DEF NoCommit, WriterRow, Closed, Nothing

\* The temporary file, and the rename that makes it visible.
LEMMA WriteHolds == ASSUME QuotaInv, CreateTemporary \/ RenameState PROVE QuotaInv'
<1>1. QuotaTypeOK /\ CommitFits /\ FilesAgree /\ writer \in WriterRow
  BY DEF QuotaInv, QuotaTypeOK
<1>2. PICK y : y = [writer EXCEPT !.at = IF CreateTemporary THEN "rename" ELSE "sync"]
  OBVIOUS
<1>3. /\ writer' = y /\ UNCHANGED <<clock, memory, store, durable, granted, forwarded>>
      /\ writer.at \in {"create", "rename"}
  BY <1>2 DEF CreateTemporary, RenameState
<1>4. /\ y \in WriterRow /\ y.next = writer.next /\ y.flow = writer.flow /\ y.bytes = writer.bytes
      /\ y.at \in {"rename", "sync"}
  BY <1>1, <1>2 DEF WriterRow
<1>5. TrafficKept
  BY <1>3, WithinSame DEF TrafficKept
<1>6. CommitFits'
  <2>1. writer.at # "idle" /\ store' = "open" /\ Counts(writer.next) /\ writer.next \in FileRow
    BY <1>1, <1>3 DEF CommitFits, WriterRow
  <2>2. PICK nx : nx = writer.next
    OBVIOUS
  <2>3. Counts(nx)' /\ writer'.next = nx
    BY <1>3, <1>4, <1>5, <2>1, <2>2, CountsKept
  <2>4. Counts(writer.next)'
    BY <2>3 DEF Counts, Readable, Ahead, Within, Totals, Share, Months
  <2>5. writer'.next.water >= memory'.water
    BY <1>1, <1>3, <1>4, <2>1 DEF CommitFits
  <2>6. ASSUME writer.flow # "none"
        PROVE  \E c \in Nat : c + writer.bytes <= nx.record.bytes /\ nx.record.month # 0 /\ Within(nx.record.month, c)'
    <3>1. \E c \in Nat : c + writer.bytes <= nx.record.bytes /\ nx.record.month # 0 /\ Within(nx.record.month, c)
      BY <1>1, <1>3, <2>2, <2>6 DEF CommitFits
    <3> QED BY <1>3, <3>1, WithinSame
  <2> QED BY <1>3, <1>4, <2>1, <2>3, <2>4, <2>5, <2>6 DEF CommitFits, Within, Totals, Share
<1>7. CASE CreateTemporary
  <2>1. visible' = visible /\ y.at = "rename"
    BY <1>1, <1>2, <1>7 DEF CreateTemporary, WriterRow
  <2>2. FilesAgree'
    BY <1>1, <1>3, <1>7, <2>1 DEF FilesAgree, CreateTemporary
  <2> QED BY <1>1, <1>3, <1>4, <1>5, <1>6, <2>1, <2>2, FilesMove DEF QuotaTypeOK
<1>8. CASE RenameState
  <2>1. ~ CreateTemporary /\ visible' = writer.next
    BY <1>8 DEF RenameState, CreateTemporary
  <2>2. y.at = "sync"
    BY <1>1, <1>2, <2>1 DEF WriterRow
  <2>3. FilesAgree'
    <3>1. writer.next.water >= memory.water /\ memory.water \in Nat /\ writer.next.water \in Nat
      BY <1>1, <1>3 DEF CommitFits, QuotaTypeOK, WriterRow, FileRow
    <3> QED BY <1>1, <1>3, <1>4, <2>1, <2>2, <3>1 DEF FilesAgree
  <2> QED BY <1>1, <1>3, <1>4, <1>5, <1>6, <2>1, <2>3, FilesMove DEF QuotaTypeOK
<1> QED BY <1>7, <1>8

\* A write fails, or the machine stops.
LEMMA StopHolds == ASSUME QuotaInv, PersistFails \/ LosePower PROVE QuotaInv'
<1>1. QuotaTypeOK /\ FilesAgree
  BY DEF QuotaInv
<1>2. CASE PersistFails
  <2>1. TrafficKept
    BY <1>2, WithinSame DEF TrafficKept, PersistFails
  <2>2. CommitFits'
    BY <1>2, IdleCommit DEF PersistFails, CommitFits
  <2>3. FilesAgree'
    BY <1>1, <1>2, IdleCommit DEF PersistFails, FilesAgree
  <2> QED BY <1>1, <1>2, <2>1, <2>2, <2>3, FilesMove, IdleCommit DEF PersistFails, QuotaTypeOK
<1>3. CASE LosePower
  <2>1. PICK file \in {visible, durable} : visible' = file /\ durable' = file
    BY <1>3 DEF LosePower
  <2>2. granted' = [f \in Flows |-> Nothing] /\ forwarded' = forwarded /\ clock' = clock
    BY <1>3 DEF LosePower
  <2>3. TrafficKept
    BY <1>1, <2>2, DropWithin DEF TrafficKept
  <2>4. CommitFits'
    BY <1>3, IdleCommit DEF LosePower, CommitFits
  <2>5. FilesAgree'
    <3>1. visible'.water \in Nat
      BY <1>1, <2>1 DEF QuotaTypeOK, FileRow
    <3> QED BY <1>3, <3>1, IdleCommit DEF LosePower, FilesAgree
  <2> QED BY <1>3, <2>1, <2>2, <2>3, <2>4, <2>5, FilesMove, IdleCommit DEF LosePower
<1> QED BY <1>2, <1>3

\* The commit is done: the file counts the reservation that is handed out.
LEMMA SyncStateHolds == ASSUME QuotaInv, SyncState PROVE QuotaInv'
<1>1. /\ QuotaTypeOK /\ CommitFits /\ FilesAgree /\ writer \in WriterRow
      /\ \A m \in Months : Within(m, Limit)
  BY DEF QuotaInv, QuotaTypeOK
<1>2. PICK nx : nx = writer.next
  OBVIOUS
<1>3. /\ writer.at = "sync" /\ durable' = visible /\ memory' = nx /\ writer' = NoCommit
      /\ UNCHANGED <<clock, store, visible, forwarded>>
  BY <1>2 DEF SyncState
<1>4. /\ visible = nx /\ store = "open" /\ Counts(nx) /\ nx \in FileRow /\ nx.water >= memory.water
      /\ durable = memory /\ memory.water # 0 /\ memory.water \in Nat /\ nx.water \in Nat
  BY <1>1, <1>2, <1>3 DEF CommitFits, FilesAgree, QuotaTypeOK, WriterRow, FileRow
<1>5. /\ nx.record \in RecordRow /\ nx.record.bytes \in Nat /\ nx.record.bytes <= Limit
      /\ nx.record.month \in 0 .. MaxMonth /\ writer.bytes \in 0 .. Limit /\ writer.bytes \in Nat
      /\ MaxMonth \in Nat /\ Limit \in Nat /\ \A m \in Months : m \in Nat
  BY <1>1, <1>4, QuotaAssumption DEF FileRow, RecordRow, WriterRow, Months
<1>6. /\ granted' \in [Flows -> [bytes : 0 .. Limit, month : 0 .. MaxMonth]] /\ Counts(nx)'
      /\ \A m \in Months : Within(m, Limit)'
  <2>1. CASE writer.flow = "none"
    <3>1. granted' = granted
      BY <2>1 DEF SyncState
    <3>2. TrafficKept
      BY <1>3, <3>1, WithinSame DEF TrafficKept
    <3> QED BY <1>1, <1>4, <3>1, <3>2, CountsKept, LimitKept DEF QuotaTypeOK
  <2>2. CASE writer.flow # "none"
    <3>1. PICK f : f = writer.flow
      OBVIOUS
    <3>2. PICK s : s = [bytes |-> writer.bytes, month |-> nx.record.month]
      OBVIOUS
    <3>3. /\ f \in Flows /\ granted' = [granted EXCEPT ![f] = s] /\ forwarded' = forwarded
          /\ s \in [bytes : 0 .. Limit, month : 0 .. MaxMonth] /\ s.month = nx.record.month /\ s.bytes = writer.bytes
      BY <1>1, <1>2, <1>5, <2>2, <3>1, <3>2 DEF SyncState, WriterRow
    <3>4. PICK c \in Nat : c + writer.bytes <= nx.record.bytes /\ nx.record.month # 0 /\ Within(nx.record.month, c)
      BY <1>1, <1>2, <1>3, <2>2 DEF CommitFits
    <3>5. PICK now : now = nx.record.month
      OBVIOUS
    <3>6. now \in Months
      BY <1>5, <3>4, <3>5 DEF Months
    <3>7. PICK t : t = c + writer.bytes
      OBVIOUS
    <3>8. Within(now, t)'
      <4>1. PICK b : b = writer.bytes
        OBVIOUS
      <4>2. s.month = now /\ s.bytes = b
        BY <3>3, <3>5, <4>1
      <4>3. Within(now, c + b)'
        BY <1>1, <3>3, <3>4, <3>5, <3>6, <4>2, GrantWithin
      <4> QED BY <3>7, <4>1, <4>3
    <3>9. t \in Nat /\ t <= nx.record.bytes /\ t <= Limit
      BY <1>5, <3>4, <3>7
    <3>10. ASSUME NEW b \in Nat, t <= b PROVE Within(now, b)'
      <4>1. PICK acc : Totals(acc, now)' /\ acc[FlowCount] <= t
        BY <3>8 DEF Within, FlowCount
      <4>2. acc[FlowCount] \in Nat
        <5>1. acc \in [0 .. FlowCount -> Nat]
          BY <4>1 DEF Totals, FlowCount
        <5> QED BY <5>1, FlowsOrdered
      <4>3. acc[FlowCount] <= b
        BY <3>9, <3>10, <4>1, <4>2
      <4> QED BY <4>1, <4>3 DEF Within, FlowCount
    <3>11. ASSUME NEW m \in Months, m # now, NEW b \in Nat, Within(m, b) PROVE Within(m, b)'
      <4>1. s.month # m /\ b + 0 = b
        BY <3>3, <3>5, <3>11
      <4>2. Within(m, b + 0)'
        BY <1>1, <3>3, <3>11, <4>1, GrantWithin
      <4> QED BY <4>1, <4>2
    <3>12. \A m \in Months : Within(m, Limit)'
      BY <1>1, <1>5, <3>9, <3>10, <3>11
    <3>13. Counts(nx)'
      <4>1. \A m \in Months : m = nx.record.month => Within(m, nx.record.bytes)'
        BY <1>5, <3>5, <3>9, <3>10
      <4>2. ASSUME NEW m \in Months, Ahead(nx, m) PROVE Within(m, 0)'
        <5>1. m # now
          BY <1>5, <3>4, <3>5, <4>2 DEF Ahead
        <5>2. Within(m, 0)
          BY <1>4, <4>2 DEF Counts
        <5> QED BY <3>11, <5>1, <5>2
      <4>3. /\ Readable(nx)' /\ (nx.water = 0 => nx = Closed') /\ Months' = Months
            /\ \A m : Ahead(nx, m)' <=> Ahead(nx, m)
        BY <1>4 DEF Counts, Readable, Ahead, Months, Closed, NoRecord
      <4>4. nx.record.retired # 0 => nx.record.month <= nx.record.retired
        BY <1>4 DEF Counts
      <4> QED BY <4>1, <4>2, <4>3, <4>4 DEF Counts
    <3> QED BY <1>1, <3>3, <3>12, <3>13 DEF QuotaTypeOK
  <2> QED BY <2>1, <2>2
<1>7. QuotaTypeOK'
  BY <1>1, <1>3, <1>4, <1>6, IdleCommit DEF QuotaTypeOK, Months, FileRow, RecordRow, WriterRow
<1>8. Counts(durable)' /\ Counts(visible)'
  <2>1. durable' = nx /\ visible' = nx
    BY <1>3, <1>4
  <2> QED BY <1>6, <2>1 DEF Counts, Readable, Ahead, Within, Totals, Share, Months
<1>9. CommitFits'
  BY <1>3, IdleCommit DEF CommitFits
<1>10. FilesAgree'
  <2>1. nx.water # 0 /\ nx.water <= nx.water
    BY <1>4
  <2> QED BY <1>3, <1>4, <2>1, IdleCommit DEF FilesAgree
<1> QED BY <1>6, <1>7, <1>8, <1>9, <1>10 DEF QuotaInv, Months

LEMMA OpenStoreHolds == ASSUME QuotaInv, OpenStore PROVE QuotaInv'
<1>1. /\ QuotaTypeOK /\ CommitFits /\ Counts(visible) /\ \A m \in Months : Within(m, Limit)
  BY DEF QuotaInv
<1>2. PICK file : file = IF visible = Closed THEN [Closed EXCEPT !.water = clock] ELSE visible
  OBVIOUS
<1>3. /\ memory' = file /\ visible' = file /\ durable' = file /\ store' = "open" /\ store = "closed"
      /\ UNCHANGED <<clock, writer, granted, forwarded>>
  BY <1>2 DEF OpenStore
<1>4. writer.at = "idle" /\ clock \in Nat /\ clock # 0 /\ clock \in 0 .. MaxMonth
  BY <1>1, <1>3, QuotaAssumption DEF CommitFits, QuotaTypeOK, Months
<1>5. file \in FileRow /\ Counts(file) /\ file.water # 0 /\ file.water \in Nat
  <2>1. CASE visible = Closed
    <3>1. file = [water |-> clock, record |-> NoRecord]
      BY <1>2, <2>1 DEF Closed
    <3>2. NoRecord \in RecordRow /\ NoRecord.month = 0 /\ NoRecord.retired = 0
      BY IdleCommit DEF Closed, FileRow, NoRecord
    <3>3. file \in FileRow /\ file.water = clock /\ file.record = NoRecord
      BY <1>4, <3>1, <3>2 DEF FileRow
    <3>4. Readable(file)
      BY <1>4, <3>2, <3>3 DEF Readable
    <3>5. \A m \in Months : Ahead(Closed, m)
      BY <3>2, QuotaAssumption DEF Ahead, Closed, Months
    <3>6. \A m \in Months : Within(m, 0) /\ m # 0
      BY <1>1, <2>1, <3>5, QuotaAssumption DEF Counts, Months
    <3>7. Counts(file)
      BY <1>4, <3>2, <3>3, <3>4, <3>6 DEF Counts
    <3> QED BY <1>4, <3>3, <3>7
  <2>2. CASE visible # Closed
    <3>1. file = visible /\ file \in FileRow /\ Counts(file)
      BY <1>1, <1>2, <2>2 DEF QuotaTypeOK
    <3>2. file.water # 0
      BY <2>2, <3>1 DEF Counts
    <3> QED BY <3>1, <3>2, QuotaAssumption DEF FileRow
  <2> QED BY <2>1, <2>2
<1>6. TrafficKept
  BY <1>3, WithinSame DEF TrafficKept
<1>7. QuotaTypeOK'
  BY <1>1, <1>3, <1>5 DEF QuotaTypeOK, Months, FileRow, RecordRow, WriterRow
<1>8. Counts(file)' /\ \A m \in Months : Within(m, Limit)'
  BY <1>1, <1>5, <1>6, CountsKept, LimitKept
<1>9. Counts(durable)' /\ Counts(visible)'
  BY <1>3, <1>8 DEF Counts, Readable, Ahead, Within, Totals, Share, Months
<1>10. CommitFits'
  BY <1>3, <1>4 DEF CommitFits
<1>11. FilesAgree'
  BY <1>3, <1>4, <1>5 DEF FilesAgree
<1> QED BY <1>7, <1>8, <1>9, <1>10, <1>11 DEF QuotaInv, Months

\* The monthly budget is kept across power losses, failing writes, route changes and clocks
\* that are set back: no month's traffic exceeds the limit, the file that survives counts
\* all of it, and the Relay can read its state back (quota.rs, the pumps of relay.rs).
THEOREM QuotaKept == QuotaSpec => []QuotaIsKept
<1>1. QuotaInit => QuotaInv
  <2> SUFFICES ASSUME QuotaInit PROVE QuotaInv
    OBVIOUS
  <2>1. /\ clock = 1 /\ memory = Closed /\ store = "closed" /\ visible = Closed /\ durable = Closed
        /\ writer = NoCommit /\ granted = [f \in Flows |-> Nothing] /\ forwarded = [m \in Months |-> 0]
    BY DEF QuotaInit
  <2>2. QuotaTypeOK
    BY <2>1, IdleCommit, QuotaAssumption DEF QuotaTypeOK, Months
  <2>3. ASSUME NEW m \in Months, NEW c \in Nat PROVE Within(m, c)
    <3>1. PICK acc : acc = [i \in 0 .. FlowCount |-> 0]
      OBVIOUS
    <3>2. \A f \in Flows : Share(f, m) = 0
      BY <2>1 DEF Share, Nothing
    <3>3. \A j \in 1 .. FlowCount : Share(FlowOrder[j], m) = 0
      BY <3>2, FlowsOrdered
    <3>4. FlowCount \in 0 .. FlowCount /\ 0 \in 0 .. FlowCount /\ FlowCount \in Nat
      BY FlowsOrdered
    <3>5. acc \in [0 .. FlowCount -> Nat] /\ acc[0] = forwarded[m] /\ acc[FlowCount] <= c
      BY <2>1, <3>1, <3>4
    <3>6. \A i, j \in 0 .. FlowCount : i < j => acc[j] >= acc[i] + Share(FlowOrder[j], m)
      BY <3>1, <3>3, <3>4
    <3> QED BY <3>5, <3>6 DEF Within, Totals
  <2>4. Counts(Closed)
    <3>1. /\ Closed.water = 0 /\ Closed.record.month = 0 /\ Closed.record.retired = 0
      BY DEF Closed, NoRecord
    <3>2. \A m \in Months : m # 0
      BY QuotaAssumption DEF Months
    <3> QED BY <2>3, <3>1, <3>2 DEF Counts, Readable
  <2>5. CommitFits /\ FilesAgree
    BY <2>1, IdleCommit DEF CommitFits, FilesAgree
  <2>6. \A m \in Months : Within(m, Limit)
    BY <2>3, QuotaAssumption
  <2> QED BY <2>1, <2>2, <2>4, <2>5, <2>6 DEF QuotaInv
<1>2. QuotaInv /\ [QuotaNext]_quotaVars => QuotaInv'
  <2> SUFFICES ASSUME QuotaInv, [QuotaNext]_quotaVars PROVE QuotaInv'
    OBVIOUS
  <2>1. CASE RemoveTemporary \/ UNCHANGED quotaVars
    <3>1. UNCHANGED <<clock, memory, store, visible, durable, writer, granted, forwarded>>
      BY <2>1 DEF RemoveTemporary, quotaVars
    <3>2. TrafficKept
      BY <3>1, WithinSame DEF TrafficKept
    <3> QED BY <3>1, <3>2, FilesStay DEF QuotaInv, QuotaTypeOK
  <2>2. CASE QuotaNext /\ ~ RemoveTemporary
    BY <2>2, ReserveHolds, BytesMove, PermitStreamHolds, ReconcileQuotaHolds, WriteHolds, SyncStateHolds, StopHolds,
       OpenStoreHolds DEF QuotaNext
  <2> QED BY <2>1, <2>2
<1>3. QuotaInv => QuotaIsKept
  <2> SUFFICES ASSUME QuotaInv PROVE QuotaIsKept
    OBVIOUS
  <2>1. QuotaTypeOK /\ Limit \in Nat /\ MaxMonth \in Nat
    BY QuotaAssumption DEF QuotaInv
  <2>2. /\ \A m \in Months : forwarded[m] \in Nat
        /\ \A f \in Flows : granted[f].bytes \in Nat
    BY <2>1 DEF QuotaTypeOK
  <2>3. \A m \in Months : forwarded[m] <= Limit
    BY <2>1, <2>2, WithinBounds DEF QuotaInv
  <2>4. ASSUME durable.record.month # 0
        PROVE  forwarded[durable.record.month] <= durable.record.bytes
    <3>1. durable.record.month \in Months /\ durable.record.bytes \in Nat
      <4>1. durable.record.month \in 0 .. MaxMonth /\ durable.record.bytes \in Nat
        BY <2>1 DEF QuotaTypeOK, FileRow, RecordRow
      <4>2. \A m \in 0 .. MaxMonth : m # 0 => m \in Months
        BY <2>1 DEF Months
      <4> QED BY <2>4, <4>1, <4>2
    <3>2. Within(durable.record.month, durable.record.bytes)
      BY <3>1 DEF QuotaInv, Counts
    <3> QED BY <2>2, <3>1, <3>2, WithinBounds
  <2>5. QuotaStateLoads
    BY DEF QuotaInv, Counts, FilesAgree, QuotaStateLoads
  <2> QED BY <2>3, <2>4, <2>5 DEF QuotaIsKept, QuotaCoversTraffic
<1> QED BY <1>1, <1>2, <1>3, PTL DEF QuotaSpec

-----------------------------------------------------------------------------
(* Streams: credit, frames under way and updates under way together never  *)
(* exceed the window they were granted from.  The bytes of a sequence are  *)
(* a recursive function of its prefixes; what it computes follows from a   *)
(* least prefix at which two such functions would differ.                  *)

FrameRow == [kind : {"open", "open_ok", "open_error", "data", "fin", "window_update", "close"}, bytes : Nat]

\* The equation that the bytes of the prefixes satisfy.
Prefixes(g, frames, kind) ==
    g = [i \in 0 .. Len(frames) |-> IF i = 0 THEN 0 ELSE g[i - 1] + Weight(frames[i], kind)]

LEMMA PrefixesUnique ==
    ASSUME NEW frames \in Seq(FrameRow), NEW kind, NEW g, NEW h, Prefixes(g, frames, kind), Prefixes(h, frames, kind)
    PROVE  g[Len(frames)] = h[Len(frames)]
<1> DEFINE Differ == {i \in 0 .. Len(frames) : g[i] # h[i]}
<1>1. SUFFICES ASSUME Differ # {} PROVE FALSE
  <2>1. Len(frames) \in 0 .. Len(frames)
    BY LenProperties
  <2> QED BY <2>1
<1>2. Differ \subseteq Nat
  BY LenProperties
<1>3. PICK i \in Differ : \A j \in Differ : i <= j
  BY <1>1, <1>2, LeastNumber
<1>4. i \in 0 .. Len(frames) /\ i \in Nat /\ Len(frames) \in Nat
  BY LenProperties
<1>5. i # 0
  BY <1>4 DEF Prefixes
<1>6. i - 1 \in 0 .. Len(frames) /\ i - 1 \notin Differ
  <2>1. i - 1 \in 0 .. Len(frames) /\ i - 1 \in Nat /\ ~ i <= i - 1
    BY <1>4, <1>5
  <2> QED BY <1>3, <2>1
<1>7. g[i - 1] = h[i - 1]
  BY <1>6
<1>8. g[i] = g[i - 1] + Weight(frames[i], kind) /\ h[i] = h[i - 1] + Weight(frames[i], kind)
  BY <1>4, <1>5 DEF Prefixes
<1> QED BY <1>7, <1>8

LEMMA FrameWeights ==
    ASSUME NEW f \in FrameRow, NEW kind
    PROVE  Weight(f, kind) \in Nat
  BY DEF Weight, FrameRow

\* There is such a function, and its values are numbers.
LEMMA PrefixesExist ==
    ASSUME NEW frames \in Seq(FrameRow), NEW kind
    PROVE  \E g \in [0 .. Len(frames) -> Nat] : Prefixes(g, frames, kind)
<1> DEFINE Upto(n, g) == /\ g \in [0 .. n -> Nat] /\ g[0] = 0
                         /\ \A i \in 1 .. n : g[i] = g[i - 1] + Weight(frames[i], kind)
           Missing == {n \in 0 .. Len(frames) : ~ \E g : Upto(n, g)}
<1>0. Len(frames) \in Nat /\ \A i \in 1 .. Len(frames) : Weight(frames[i], kind) \in Nat
  BY LenProperties, ElementOfSeq, FrameWeights
<1>1. Missing = {}
  <2> SUFFICES ASSUME Missing # {} PROVE FALSE
    OBVIOUS
  <2>1. Missing \subseteq Nat
    BY <1>0
  <2>2. PICK n \in Missing : \A j \in Missing : n <= j
    BY <2>1, LeastNumber
  <2>3. n \in Nat /\ n \in 0 .. Len(frames)
    BY <2>1
  <2>4. CASE n = 0
    <3>1. PICK g : g = [i \in 0 .. 0 |-> 0]
      OBVIOUS
    <3>2. Upto(0, g)
      BY <3>1
    <3> QED BY <2>4, <3>2
  <2>5. CASE n # 0
    <3>1. n - 1 \in 0 .. Len(frames) /\ n - 1 \in Nat /\ ~ n <= n - 1
      BY <1>0, <2>3, <2>5
    <3>2. n - 1 \notin Missing
      BY <2>2, <3>1
    <3>3. PICK g : Upto(n - 1, g)
      BY <3>1, <3>2
    <3>4. PICK w : w = g[n - 1] + Weight(frames[n], kind)
      OBVIOUS
    <3>5. w \in Nat
      <4>1. n \in 1 .. Len(frames) /\ n - 1 \in 0 .. n - 1
        BY <1>0, <2>3, <2>5, <3>1
      <4> QED BY <1>0, <3>3, <3>4, <4>1
    <3>6. PICK h : h = [i \in 0 .. n |-> IF i = n THEN w ELSE g[i]]
      OBVIOUS
    <3>7. h \in [0 .. n -> Nat] /\ h[0] = 0
      BY <2>3, <2>5, <3>3, <3>5, <3>6
    <3>8. ASSUME NEW i \in 1 .. n PROVE h[i] = h[i - 1] + Weight(frames[i], kind)
      <4>1. i \in 0 .. n /\ i - 1 \in 0 .. n /\ i - 1 # n /\ i \in Nat
        BY <2>3, <2>5
      <4>2. h[i - 1] = g[i - 1]
        BY <3>6, <4>1
      <4>3. CASE i = n
        BY <3>4, <3>6, <4>1, <4>2, <4>3
      <4>4. CASE i # n
        <5>1. i \in 1 .. n - 1 /\ h[i] = g[i]
          BY <2>3, <3>6, <4>1, <4>4
        <5> QED BY <3>3, <4>2, <5>1
      <4> QED BY <4>3, <4>4
    <3> QED BY <3>7, <3>8
  <2> QED BY <2>4, <2>5
<1>2. PICK g : Upto(Len(frames), g)
  <2>1. PICK n : n = Len(frames)
    OBVIOUS
  <2> HIDE DEF Upto
  <2> QED BY <1>0, <1>1, <2>1
<1>3. \A i \in 0 .. Len(frames) : g[i] = IF i = 0 THEN 0 ELSE g[i - 1] + Weight(frames[i], kind)
  BY <1>0, <1>2
<1>4. g \in [0 .. Len(frames) -> Nat] /\ Prefixes(g, frames, kind)
  BY <1>2, <1>3 DEF Prefixes
<1> QED BY <1>4

LEMMA BytesIs ==
    ASSUME NEW frames \in Seq(FrameRow), NEW kind, NEW g, Prefixes(g, frames, kind)
    PROVE  Bytes(frames, kind) = g[Len(frames)]
<1> DEFINE upTo == CHOOSE h : h = [i \in 0 .. Len(frames) |-> IF i = 0 THEN 0 ELSE h[i - 1] + Weight(frames[i], kind)]
<1>1. upTo = [i \in 0 .. Len(frames) |-> IF i = 0 THEN 0 ELSE upTo[i - 1] + Weight(frames[i], kind)]
  BY DEF Prefixes
<1>2. Bytes(frames, kind) = upTo[Len(frames)]
  BY DEF Bytes
<1> HIDE DEF upTo
<1>3. Prefixes(upTo, frames, kind)
  BY <1>1 DEF Prefixes
<1> QED BY <1>2, <1>3, PrefixesUnique

LEMMA BytesType ==
    ASSUME NEW frames \in Seq(FrameRow), NEW kind
    PROVE  Bytes(frames, kind) \in Nat
<1>1. PICK g \in [0 .. Len(frames) -> Nat] : Prefixes(g, frames, kind)
  BY PrefixesExist
<1>2. Len(frames) \in 0 .. Len(frames)
  BY LenProperties
<1> QED BY <1>1, <1>2, BytesIs

LEMMA BytesEmpty == \A kind : Bytes(<<>>, kind) = 0
<1> SUFFICES ASSUME NEW kind PROVE Bytes(<<>>, kind) = 0
  OBVIOUS
<1>1. <<>> \in Seq(FrameRow) /\ Len(<<>>) = 0
  OBVIOUS
<1>2. PICK g \in [0 .. Len(<<>>) -> Nat] : Prefixes(g, <<>>, kind)
  BY <1>1, PrefixesExist
<1>3. g[0] = 0
  BY <1>1, <1>2 DEF Prefixes
<1> QED BY <1>1, <1>2, <1>3, BytesIs

LEMMA BytesAppend ==
    ASSUME NEW frames \in Seq(FrameRow), NEW f \in FrameRow, NEW kind
    PROVE  Bytes(Append(frames, f), kind) = Bytes(frames, kind) + Weight(f, kind)
<1>1. PICK n : n = Len(frames)
  OBVIOUS
<1>2. PICK more : more = Append(frames, f)
  OBVIOUS
<1>3. /\ more \in Seq(FrameRow) /\ Len(more) = n + 1 /\ n \in Nat /\ more[n + 1] = f
      /\ \A i \in 1 .. n : more[i] = frames[i]
  BY <1>1, <1>2
<1>4. PICK g \in [0 .. n -> Nat] : Prefixes(g, frames, kind)
  BY <1>1, PrefixesExist
<1>5. PICK h : h = [i \in 0 .. n + 1 |-> IF i = n + 1 THEN g[n] + Weight(f, kind) ELSE g[i]]
  OBVIOUS
<1>6. ASSUME NEW i \in 0 .. n + 1
      PROVE  h[i] = IF i = 0 THEN 0 ELSE h[i - 1] + Weight(more[i], kind)
  <2>1. i \in Nat /\ n \in 0 .. n
    BY <1>3
  <2>2. CASE i = 0
    <3>1. h[0] = g[0]
      BY <1>3, <1>5
    <3>2. g[0] = 0
      BY <1>1, <1>3, <1>4 DEF Prefixes
    <3> QED BY <2>2, <3>1, <3>2
  <2>3. CASE i = n + 1
    <3>1. i # 0 /\ i - 1 = n /\ n \in 0 .. n + 1 /\ n # n + 1
      BY <1>3, <2>3
    <3>2. h[i] = g[n] + Weight(f, kind) /\ h[n] = g[n]
      BY <1>5, <2>3, <3>1
    <3> QED BY <1>3, <2>3, <3>1, <3>2
  <2>4. CASE i # 0 /\ i # n + 1
    <3>1. i \in 1 .. n /\ i \in 0 .. n /\ i - 1 \in 0 .. n + 1 /\ i - 1 # n + 1
      BY <1>3, <2>1, <2>4
    <3>2. h[i] = g[i] /\ h[i - 1] = g[i - 1] /\ more[i] = frames[i]
      BY <1>3, <1>5, <2>4, <3>1
    <3>3. g[i] = g[i - 1] + Weight(frames[i], kind)
      BY <1>1, <1>4, <2>4, <3>1 DEF Prefixes
    <3> QED BY <2>4, <3>2, <3>3
  <2> QED BY <2>2, <2>3, <2>4
<1>7. Prefixes(h, more, kind)
  BY <1>3, <1>5, <1>6 DEF Prefixes
<1>8. Bytes(more, kind) = h[n + 1]
  BY <1>3, <1>7, BytesIs
<1>9. Bytes(frames, kind) = g[n]
  BY <1>1, <1>4, BytesIs
<1>10. h[n + 1] = g[n] + Weight(f, kind)
  BY <1>3, <1>5
<1> QED BY <1>2, <1>8, <1>9, <1>10

LEMMA BytesTail ==
    ASSUME NEW frames \in Seq(FrameRow), frames # <<>>, NEW kind
    PROVE  Bytes(frames, kind) = Weight(Head(frames), kind) + Bytes(Tail(frames), kind)
<1>1. PICK n : n = Len(frames)
  OBVIOUS
<1>2. PICK rest : rest = Tail(frames)
  OBVIOUS
<1>3. /\ rest \in Seq(FrameRow) /\ n \in Nat /\ n # 0 /\ Len(rest) = n - 1 /\ Head(frames) = frames[1]
      /\ \A i \in 1 .. n - 1 : rest[i] = frames[i + 1]
  BY <1>1, <1>2
<1>4. PICK w : w = Weight(Head(frames), kind)
  OBVIOUS
<1>5. w \in Nat /\ Head(frames) \in FrameRow
  BY <1>4, FrameWeights
<1>6. PICK g \in [0 .. n -> Nat] : Prefixes(g, frames, kind)
  BY <1>1, PrefixesExist
<1>7. \A i \in 0 .. n : g[i] = IF i = 0 THEN 0 ELSE g[i - 1] + Weight(frames[i], kind)
  BY <1>1, <1>6 DEF Prefixes
<1>8. g[1] = w
  BY <1>3, <1>4, <1>5, <1>7
<1>9. PICK h : h = [i \in 0 .. n - 1 |-> g[i + 1] - w]
  OBVIOUS
<1>10. ASSUME NEW i \in 0 .. n - 1
       PROVE  h[i] = IF i = 0 THEN 0 ELSE h[i - 1] + Weight(rest[i], kind)
  <2>1. i \in Nat /\ i + 1 \in 0 .. n /\ h[i] = g[i + 1] - w
    BY <1>3, <1>9
  <2>2. CASE i = 0
    BY <1>5, <1>8, <2>1, <2>2
  <2>3. CASE i # 0
    <3>1. i \in 1 .. n - 1 /\ i - 1 \in 0 .. n - 1 /\ i - 1 + 1 = i /\ i + 1 # 0 /\ i + 1 - 1 = i /\ i \in 0 .. n
      BY <1>3, <2>1, <2>3
    <3>2. h[i - 1] = g[i] - w
      BY <1>9, <3>1
    <3>3. g[i + 1] = g[i] + Weight(frames[i + 1], kind)
      BY <1>7, <2>1, <3>1
    <3>4. rest[i] = frames[i + 1] /\ g[i] \in Nat /\ frames[i + 1] \in FrameRow
      BY <1>1, <1>3, <1>6, <2>1, <3>1, ElementOfSeq
    <3>5. Weight(rest[i], kind) \in Nat
      BY <3>4, FrameWeights
    <3> QED BY <1>5, <2>1, <2>3, <3>2, <3>3, <3>4, <3>5
  <2> QED BY <2>2, <2>3
<1>11. Prefixes(h, rest, kind)
  BY <1>3, <1>9, <1>10 DEF Prefixes
<1>12. Bytes(rest, kind) = h[n - 1]
  BY <1>3, <1>11, BytesIs
<1>13. Bytes(frames, kind) = g[n] /\ g[n] \in Nat
  BY <1>1, <1>3, <1>6, BytesIs
<1>14. h[n - 1] = g[n] - w
  <2>1. n - 1 \in 0 .. n - 1 /\ n - 1 + 1 = n
    BY <1>3
  <2> QED BY <1>9, <2>1
<1> QED BY <1>2, <1>4, <1>5, <1>12, <1>13, <1>14

-----------------------------------------------------------------------------
(* The invariant of a stream *)

Pumping == {"off", "connect", "read", "subscribe", "check", "poll", "wait", "send", "done"}
Draining == {"off", "receive", "written", "granted", "done"}

StreamsTypeOK ==
    /\ open \in [Ends -> BOOLEAN] /\ notified \in [Ends -> BOOLEAN] /\ pump \in [Ends -> Pumping]
    /\ drain \in [Ends -> Draining] /\ credit \in [Ends -> Nat] /\ amount \in [Ends -> Nat]
    /\ window \in [Ends -> Nat] /\ holding \in [Ends -> Nat]
    /\ wire \in [Ends -> Seq(FrameRow)] /\ inbound \in [Ends -> Seq(FrameRow)]

\* A frame that grants bytes to send.
Promise(f) == IF f.kind \in {"open", "open_ok", "window_update"} THEN f.bytes ELSE 0
PromisedIn(s) == Bytes(s, "open") + Bytes(s, "open_ok") + Bytes(s, "window_update")
DataIn(s) == Bytes(s, "data")
NoOpen(s) == \A i \in DOMAIN s : s[i].kind # "open"

\* What end e has granted to the other end, which does not know it yet.
Owed(e) == PromisedIn(wire[e]) + (IF drain[e] = "granted" THEN holding[e] ELSE 0)

\* What end e may send, is about to send or has under way.
Held(e) == credit[e] + (IF pump[e] = "send" THEN amount[e] ELSE 0) + DataIn(wire[e])

CreditCovered == \A e \in Ends : Held(Peer(e)) + Owed(e) <= window[e]

\* The node has not answered the Relay's Open yet.
OpenFrame == Frame("open", Window)
Early == opening = "no" \/ wire["relay"] = <<OpenFrame>> \/ pump["node"] = "connect"

\* Each window is granted once, by Open and by OpenOk, while nothing is under way.
GrantedOnce ==
    /\ pump["relay"] # "connect"
    /\ opening = "no" => /\ wire["relay"] = <<>> /\ pump["node"] = "off" /\ credit["node"] = 0
                         /\ window["relay"] = Window
    /\ Early => /\ wire["node"] = <<>> /\ credit["relay"] = 0 /\ pump["relay"] = "off"
                /\ drain["node"] = "off" /\ drain["relay"] = "off"
                /\ window["node"] = Window /\ pump["node"] \in {"off", "connect"}
    /\ pump["node"] = "connect" => wire["relay"] = <<>> /\ opening # "no"
    /\ NoOpen(wire["node"]) /\ (NoOpen(wire["relay"]) \/ wire["relay"] = <<OpenFrame>>)

StreamsInv == StreamsTypeOK /\ CreditCovered /\ GrantedOnce /\ NoLostWakeup

LEMMA EndsFacts ==
    /\ "relay" \in Ends /\ "node" \in Ends /\ "relay" # "node"
    /\ Peer("relay") = "node" /\ Peer("node") = "relay"
    /\ \A e \in Ends : e = "relay" \/ e = "node"
    /\ \A e \in Ends : Peer(e) \in Ends /\ Peer(e) # e /\ Peer(Peer(e)) = e
    /\ \A e \in Ends : \A x \in Ends : x = e \/ x = Peer(e)
  BY DEF Ends, Peer

LEMMA PromiseWeights ==
    ASSUME NEW f \in FrameRow
    PROVE  /\ Promise(f) \in Nat /\ Weight(f, "data") \in Nat
           /\ Promise(f) = Weight(f, "open") + Weight(f, "open_ok") + Weight(f, "window_update")
  BY DEF Promise, Weight, FrameRow

LEMMA FramesTypes ==
    ASSUME NEW s \in Seq(FrameRow)
    PROVE  PromisedIn(s) \in Nat /\ DataIn(s) \in Nat
  BY BytesType DEF PromisedIn, DataIn

LEMMA FramesSent ==
    ASSUME NEW s \in Seq(FrameRow), NEW f \in FrameRow, NEW t, t = Append(s, f)
    PROVE  /\ t \in Seq(FrameRow) /\ PromisedIn(t) = PromisedIn(s) + Promise(f)
           /\ DataIn(t) = DataIn(s) + Weight(f, "data")
           /\ NoOpen(s) /\ f.kind # "open" => NoOpen(t)
<1>1. \A k : Bytes(t, k) = Bytes(s, k) + Weight(f, k) /\ Bytes(s, k) \in Nat /\ Weight(f, k) \in Nat
  BY BytesAppend, BytesType, FrameWeights
<1>2. t \in Seq(FrameRow)
  OBVIOUS
<1>3. PromisedIn(t) = PromisedIn(s) + Promise(f)
  <2>1. /\ Bytes(t, "open") = Bytes(s, "open") + Weight(f, "open")
        /\ Bytes(t, "open_ok") = Bytes(s, "open_ok") + Weight(f, "open_ok")
        /\ Bytes(t, "window_update") = Bytes(s, "window_update") + Weight(f, "window_update")
    BY <1>1
  <2>2. /\ Bytes(s, "open") \in Nat /\ Bytes(s, "open_ok") \in Nat /\ Bytes(s, "window_update") \in Nat
        /\ Weight(f, "open") \in Nat /\ Weight(f, "open_ok") \in Nat /\ Weight(f, "window_update") \in Nat
    BY <1>1
  <2> QED BY <2>1, <2>2, PromiseWeights DEF PromisedIn
<1>4. DataIn(t) = DataIn(s) + Weight(f, "data")
  BY <1>1 DEF DataIn
<1>5. ASSUME NoOpen(s), f.kind # "open" PROVE NoOpen(t)
  <2> SUFFICES ASSUME NEW i \in DOMAIN t PROVE t[i].kind # "open"
    BY DEF NoOpen
  <2>1. Len(s) \in Nat /\ DOMAIN s = 1 .. Len(s) /\ DOMAIN t = 1 .. Len(s) + 1
    BY LenProperties
  <2>2. CASE i = Len(s) + 1
    BY <1>5, <2>1, <2>2
  <2>3. CASE i # Len(s) + 1
    <3>1. i \in 1 .. Len(s) /\ t[i] = s[i]
      BY <2>1, <2>3
    <3> QED BY <1>5, <2>1, <3>1 DEF NoOpen
  <2> QED BY <2>2, <2>3
<1> QED BY <1>2, <1>3, <1>4, <1>5

LEMMA FramesTaken ==
    ASSUME NEW s \in Seq(FrameRow), s # <<>>, NEW t, t = Tail(s), NEW f, f = Head(s)
    PROVE  /\ t \in Seq(FrameRow) /\ f \in FrameRow
           /\ PromisedIn(s) = Promise(f) + PromisedIn(t)
           /\ DataIn(s) = Weight(f, "data") + DataIn(t)
           /\ NoOpen(s) => NoOpen(t) /\ f.kind # "open"
<1>1. t \in Seq(FrameRow) /\ f \in FrameRow
  OBVIOUS
<1>2. \A k : Bytes(s, k) = Weight(f, k) + Bytes(t, k) /\ Bytes(t, k) \in Nat /\ Weight(f, k) \in Nat
  BY <1>1, BytesTail, BytesType, FrameWeights
<1>3. PromisedIn(s) = Promise(f) + PromisedIn(t)
  <2>1. /\ Bytes(s, "open") = Weight(f, "open") + Bytes(t, "open")
        /\ Bytes(s, "open_ok") = Weight(f, "open_ok") + Bytes(t, "open_ok")
        /\ Bytes(s, "window_update") = Weight(f, "window_update") + Bytes(t, "window_update")
    BY <1>2
  <2>2. /\ Bytes(t, "open") \in Nat /\ Bytes(t, "open_ok") \in Nat /\ Bytes(t, "window_update") \in Nat
        /\ Weight(f, "open") \in Nat /\ Weight(f, "open_ok") \in Nat /\ Weight(f, "window_update") \in Nat
    BY <1>2
  <2>3. Promise(f) = Weight(f, "open") + Weight(f, "open_ok") + Weight(f, "window_update")
    BY <1>1, PromiseWeights
  <2> QED BY <2>1, <2>2, <2>3 DEF PromisedIn
<1>4. DataIn(s) = Weight(f, "data") + DataIn(t)
  BY <1>2 DEF DataIn
<1>5. ASSUME NoOpen(s) PROVE NoOpen(t) /\ f.kind # "open"
  <2>1. Len(s) \in Nat /\ Len(s) # 0 /\ DOMAIN s = 1 .. Len(s) /\ DOMAIN t = 1 .. Len(s) - 1 /\ f = s[1]
    BY LenProperties
  <2>2. \A i \in 1 .. Len(s) - 1 : t[i] = s[i + 1] /\ i + 1 \in 1 .. Len(s)
    BY <2>1
  <2>3. 1 \in 1 .. Len(s)
    BY <2>1
  <2> QED BY <1>5, <2>1, <2>2, <2>3 DEF NoOpen
<1> QED BY <1>1, <1>3, <1>4, <1>5

LEMMA Numbers ==
    ASSUME StreamsTypeOK, NEW e \in Ends
    PROVE  /\ Held(e) \in Nat /\ Owed(e) \in Nat /\ credit[e] \in Nat /\ amount[e] \in Nat /\ window[e] \in Nat
           /\ holding[e] \in Nat /\ wire[e] \in Seq(FrameRow) /\ PromisedIn(wire[e]) \in Nat /\ DataIn(wire[e]) \in Nat
<1>1. /\ credit[e] \in Nat /\ amount[e] \in Nat /\ window[e] \in Nat /\ holding[e] \in Nat
      /\ wire[e] \in Seq(FrameRow)
  BY DEF StreamsTypeOK
<1>2. PromisedIn(wire[e]) \in Nat /\ DataIn(wire[e]) \in Nat
  BY <1>1, FramesTypes
<1> QED BY <1>1, <1>2 DEF Held, Owed

\* Once the node has answered, no frame opens the stream again.
LEMMA LateStays ==
    ASSUME StreamsInv, opening' # "no", \A e \in Ends : pump'[e] # "connect" /\ NoOpen(wire'[e])
    PROVE  GrantedOnce'
<1>1. wire'["relay"] # <<OpenFrame>>
  <2>1. NoOpen(wire'["relay"])
    BY EndsFacts
  <2>2. ~ NoOpen(<<OpenFrame>>)
    <3>1. 1 \in DOMAIN <<OpenFrame>> /\ <<OpenFrame>>[1].kind = "open"
      BY DEF OpenFrame, Frame
    <3> QED BY <3>1 DEF NoOpen
  <2> QED BY <2>1, <2>2
<1>2. ~ Early'
  BY <1>1, EndsFacts DEF Early, OpenFrame, Frame
<1> QED BY <1>2, EndsFacts DEF GrantedOnce, Early, NoOpen

LEMMA LateFacts ==
    ASSUME StreamsInv, NEW e \in Ends, pump[e] \notin {"off", "connect"} \/ drain[e] # "off"
    PROVE  /\ ~ Early /\ opening # "no" /\ \A x \in Ends : pump[x] # "connect" /\ NoOpen(wire[x])
<1>1. ~ Early
  BY EndsFacts DEF StreamsInv, GrantedOnce
<1> QED BY <1>1, EndsFacts DEF Early, StreamsInv, GrantedOnce

\* A step at one end.
LEMMA EndStep ==
    ASSUME StreamsInv, StreamsTypeOK', NEW e \in Ends, NEW p, p = Peer(e),
           pump[e] \notin {"off", "connect"} \/ drain[e] # "off", pump'[e] # "connect", opening' = opening,
           NoOpen(wire'[e]), Held(e)' <= Held(e), Owed(e)' + window[e] <= Owed(e) + window'[e],
           credit'[p] = credit[p], pump'[p] = pump[p], amount'[p] = amount[p], wire'[p] = wire[p],
           drain'[p] = drain[p], holding'[p] = holding[p], window'[p] = window[p], notified'[p] = notified[p],
           pump'[e] \in {"poll", "wait"} /\ ~ notified'[e] => credit'[e] < amount'[e]
    PROVE  StreamsInv'
<1>1. p \in Ends /\ p # e /\ Peer(p) = e /\ \A x \in Ends : x = e \/ x = p
  BY EndsFacts
<1>2. ~ Early /\ opening # "no" /\ \A x \in Ends : pump[x] # "connect" /\ NoOpen(wire[x])
  BY LateFacts
<1>3. GrantedOnce'
  BY <1>1, <1>2, LateStays
<1>4. CreditCovered'
  <2>1. Held(p)' = Held(p) /\ Owed(p)' = Owed(p)
    BY DEF Held, Owed
  <2>2. /\ Held(e) \in Nat /\ Owed(e) \in Nat /\ Held(p) \in Nat /\ Owed(p) \in Nat /\ window[e] \in Nat
        /\ window[p] \in Nat
    BY <1>1, Numbers DEF StreamsInv
  <2>3. Held(e)' \in Nat /\ Owed(e)' \in Nat /\ window'[e] \in Nat
    <3>1. /\ credit'[e] \in Nat /\ amount'[e] \in Nat /\ window'[e] \in Nat /\ holding'[e] \in Nat
          /\ wire'[e] \in Seq(FrameRow)
      BY DEF StreamsTypeOK, FrameRow
    <3>2. PromisedIn(wire'[e]) \in Nat /\ DataIn(wire'[e]) \in Nat
      BY <3>1, FramesTypes
    <3>3. PICK sent, promised : sent = DataIn(wire'[e]) /\ promised = PromisedIn(wire'[e])
      OBVIOUS
    <3>4. Held(e)' \in Nat
      BY <3>1, <3>2 DEF Held
    <3>5. Owed(e)' \in Nat
      BY <3>1, <3>2 DEF Owed
    <3> QED BY <3>1, <3>4, <3>5
  <2>4. Held(p) + Owed(e) <= window[e] /\ Held(e) + Owed(p) <= window[p]
    BY <1>1 DEF StreamsInv, CreditCovered
  <2>5. Held(p)' + Owed(e)' <= window'[e] /\ Held(e)' + Owed(p)' <= window'[p]
    BY <2>1, <2>2, <2>3, <2>4
  <2>6. ASSUME NEW x \in Ends PROVE (Held(Peer(x)) + Owed(x) <= window[x])'
    <3>1. CASE x = e
      BY <1>1, <2>5, <3>1 DEF Held, Owed
    <3>2. CASE x = p
      BY <1>1, <2>5, <3>2 DEF Held, Owed
    <3> QED BY <1>1, <3>1, <3>2
  <2> QED BY <2>6 DEF CreditCovered, Ends
<1>5. NoLostWakeup'
  <2>1. ASSUME NEW x \in Ends, pump'[x] \in {"poll", "wait"}, ~ notified'[x] PROVE credit'[x] < amount'[x]
    BY <1>1, <2>1 DEF StreamsInv, NoLostWakeup
  <2> QED BY <2>1 DEF NoLostWakeup, Ends
<1> QED BY <1>3, <1>4, <1>5 DEF StreamsInv

-----------------------------------------------------------------------------
(* The pump from the socket into the tunnel, and the one back *)

LEMMA PumpHolds ==
    ASSUME StreamsInv, NEW e \in Ends,
           (\E n \in 1 .. MaxFrame : Read(e, n)) \/ Subscribe(e) \/ Consume(e) \/ Poll(e) \/ Wake(e)
    PROVE  StreamsInv'
<1>1. PICK p : p = Peer(e)
  OBVIOUS
<1>2. p \in Ends /\ p # e /\ StreamsTypeOK /\ NoLostWakeup /\ \A n \in 1 .. MaxFrame : n \in Nat
  BY <1>1, EndsFacts, StreamsAssumption DEF StreamsInv
<1>3. /\ pump[e] \in {"read", "subscribe", "check", "poll", "wait"} /\ UNCHANGED <<open, receiveVars, wire, opening>>
      /\ \E y \in Pumping : y \in {"subscribe", "check", "poll", "wait", "send"} /\ pump' = [pump EXCEPT ![e] = y]
  BY DEF Read, Subscribe, Consume, Poll, Wake, Pumping
<1>4. PICK y \in Pumping : y \in {"subscribe", "check", "poll", "wait", "send"} /\ pump' = [pump EXCEPT ![e] = y]
  BY <1>3
<1>5. pump' \in [Ends -> Pumping] /\ pump'[e] = y /\ pump'[p] = pump[p]
  BY <1>2, <1>4 DEF StreamsTypeOK
<1>6. UNCHANGED <<window, inbound, drain, holding, wire, open, opening>>
  BY <1>3 DEF receiveVars
<1>7. PICK c \in Nat, a \in Nat, b \in BOOLEAN :
          /\ credit' = [credit EXCEPT ![e] = c] /\ amount' = [amount EXCEPT ![e] = a]
          /\ notified' = [notified EXCEPT ![e] = b]
          /\ c + (IF y = "send" THEN a ELSE 0) <= credit[e]
          /\ y \in {"poll", "wait"} /\ ~ b => c < a
  <2>0. /\ credit[e] \in Nat /\ amount[e] \in Nat /\ notified[e] \in BOOLEAN
        /\ credit = [credit EXCEPT ![e] = credit[e]] /\ amount = [amount EXCEPT ![e] = amount[e]]
        /\ notified = [notified EXCEPT ![e] = notified[e]] /\ credit[e] + 0 <= credit[e]
    BY <1>2 DEF StreamsTypeOK
  <2>1. CASE \E n \in 1 .. MaxFrame : Read(e, n)
    <3>1. PICK n \in 1 .. MaxFrame : Read(e, n)
      BY <2>1
    <3>2. n \in Nat /\ amount' = [amount EXCEPT ![e] = n] /\ y = "subscribe" /\ UNCHANGED <<credit, notified>>
      BY <1>2, <1>5, <3>1 DEF Read, StreamsTypeOK
    <3>3. credit' = [credit EXCEPT ![e] = credit[e]] /\ notified' = [notified EXCEPT ![e] = notified[e]]
      BY <2>0, <3>2
    <3> QED BY <2>0, <3>2, <3>3
  <2>2. CASE Subscribe(e)
    <3>1. notified' = [notified EXCEPT ![e] = FALSE] /\ y = "check" /\ UNCHANGED <<credit, amount>>
      BY <1>2, <1>5, <2>2 DEF Subscribe, StreamsTypeOK
    <3>2. credit' = [credit EXCEPT ![e] = credit[e]] /\ amount' = [amount EXCEPT ![e] = amount[e]]
      BY <2>0, <3>1
    <3> QED BY <2>0, <3>1, <3>2
  <2>3. CASE Consume(e) /\ credit[e] >= amount[e]
    <3>1. /\ credit' = [credit EXCEPT ![e] = credit[e] - amount[e]] /\ y = "send" /\ UNCHANGED <<notified, amount>>
      BY <1>2, <1>5, <2>3 DEF Consume, StreamsTypeOK
    <3>2. credit[e] - amount[e] \in Nat /\ credit[e] - amount[e] + amount[e] <= credit[e]
      BY <2>0, <2>3
    <3> QED BY <2>0, <3>1, <3>2
  <2>4. CASE Consume(e) /\ ~ credit[e] >= amount[e]
    <3>1. y = "poll" /\ UNCHANGED <<credit, notified, amount>>
      BY <1>2, <1>5, <2>4 DEF Consume, StreamsTypeOK
    <3>2. credit[e] < amount[e] /\ credit[e] + 0 <= credit[e]
      BY <2>0, <2>4
    <3> QED BY <2>0, <3>1, <3>2
  <2>5. CASE Poll(e)
    <3>1. y = "wait" /\ UNCHANGED <<credit, notified, amount>> /\ pump[e] = "poll"
      BY <1>2, <1>5, <2>5 DEF Poll, StreamsTypeOK
    <3>2. ~ notified[e] => credit[e] < amount[e]
      BY <1>2, <3>1 DEF NoLostWakeup
    <3> QED BY <2>0, <3>1, <3>2
  <2>6. CASE Wake(e)
    <3>1. y = "subscribe" /\ UNCHANGED <<credit, notified, amount>>
      BY <1>2, <1>5, <2>6 DEF Wake, StreamsTypeOK
    <3> QED BY <2>0, <3>1
  <2> QED BY <2>1, <2>2, <2>3, <2>4, <2>5, <2>6
<1>8. /\ credit' \in [Ends -> Nat] /\ amount' \in [Ends -> Nat] /\ notified' \in [Ends -> BOOLEAN]
      /\ credit'[e] = c /\ amount'[e] = a /\ notified'[e] = b
      /\ credit'[p] = credit[p] /\ amount'[p] = amount[p] /\ notified'[p] = notified[p]
  BY <1>2, <1>7 DEF StreamsTypeOK
<1>9. StreamsTypeOK'
  BY <1>2, <1>5, <1>6, <1>8 DEF StreamsTypeOK, Ends, Pumping, Draining, FrameRow
<1>10. /\ credit[e] \in Nat /\ amount[e] \in Nat /\ DataIn(wire[e]) \in Nat /\ Owed(e) \in Nat /\ window[e] \in Nat
  BY <1>2, Numbers
<1>11. Held(e)' <= Held(e)
  <2>1. Held(e)' = c + (IF y = "send" THEN a ELSE 0) + DataIn(wire[e])
    BY <1>5, <1>6, <1>8 DEF Held
  <2>2. Held(e) = credit[e] + DataIn(wire[e])
    BY <1>3, <1>10 DEF Held
  <2> QED BY <1>7, <1>10, <2>1, <2>2
<1>12. Owed(e)' = Owed(e) /\ window'[e] = window[e]
  BY <1>6 DEF Owed
<1>13. NoOpen(wire'[e])
  BY <1>3, <1>6, LateFacts
<1>14. Owed(e)' + window[e] <= Owed(e) + window'[e]
  BY <1>10, <1>12
<1> QED BY <1>1, <1>3, <1>4, <1>5, <1>6, <1>7, <1>8, <1>9, <1>11, <1>13, <1>14, EndStep


\* A frame is sent.
LEMMA FrameSent ==
    ASSUME StreamsInv, NEW e \in Ends, NEW f \in FrameRow, f.kind # "open", Send(e, f), NoOpen(wire[e])
    PROVE  /\ wire' \in [Ends -> Seq(FrameRow)] /\ wire'[Peer(e)] = wire[Peer(e)] /\ NoOpen(wire'[e])
           /\ PromisedIn(wire'[e]) = PromisedIn(wire[e]) + Promise(f)
           /\ DataIn(wire'[e]) = DataIn(wire[e]) + Weight(f, "data")
<1>1. StreamsTypeOK /\ wire[e] \in Seq(FrameRow) /\ Peer(e) \in Ends /\ Peer(e) # e
  BY EndsFacts DEF StreamsInv, StreamsTypeOK
<1>2. PICK t : t = Append(wire[e], f)
  OBVIOUS
<1>3. /\ t \in Seq(FrameRow) /\ NoOpen(t) /\ PromisedIn(t) = PromisedIn(wire[e]) + Promise(f)
      /\ DataIn(t) = DataIn(wire[e]) + Weight(f, "data")
  BY <1>1, <1>2, FramesSent
<1>4. wire' = [wire EXCEPT ![e] = t]
  BY <1>2 DEF Send
<1>5. wire' \in [Ends -> Seq(FrameRow)] /\ wire'[e] = t /\ wire'[Peer(e)] = wire[Peer(e)]
  BY <1>1, <1>3, <1>4 DEF StreamsTypeOK
<1> QED BY <1>3, <1>5

LEMMA SendDataHolds == ASSUME StreamsInv, NEW e \in Ends, SendData(e) PROVE StreamsInv'
<1>1. PICK p : p = Peer(e)
  OBVIOUS
<1>2. p \in Ends /\ p # e /\ StreamsTypeOK
  BY <1>1, EndsFacts DEF StreamsInv
<1>3. /\ pump[e] = "send" /\ amount' = [amount EXCEPT ![e] = 0] /\ pump' = [pump EXCEPT ![e] = "read"]
      /\ UNCHANGED <<open, credit, notified, window, inbound, drain, holding, opening>>
  BY DEF SendData, receiveVars
<1>4. PICK f : f = Frame("data", amount[e])
  OBVIOUS
<1>5. /\ amount[e] \in Nat /\ credit[e] \in Nat /\ DataIn(wire[e]) \in Nat /\ window[e] \in Nat /\ Owed(e) \in Nat
      /\ PromisedIn(wire[e]) \in Nat /\ holding[e] \in Nat
  BY <1>2, Numbers
<1>6. f \in FrameRow /\ f.kind = "data" /\ Weight(f, "data") = amount[e] /\ Promise(f) = 0
  BY <1>4, <1>5 DEF Frame, FrameRow, Weight, Promise
<1>7. NoOpen(wire[e])
  BY <1>3, LateFacts
<1>8. /\ wire' \in [Ends -> Seq(FrameRow)] /\ wire'[p] = wire[p] /\ NoOpen(wire'[e])
      /\ PromisedIn(wire'[e]) = PromisedIn(wire[e]) + 0 /\ DataIn(wire'[e]) = DataIn(wire[e]) + amount[e]
  BY <1>1, <1>4, <1>6, <1>7, FrameSent DEF SendData
<1>9. /\ amount' \in [Ends -> Nat] /\ amount'[p] = amount[p] /\ amount'[e] = 0
      /\ pump' \in [Ends -> Pumping] /\ pump'[p] = pump[p] /\ pump'[e] = "read"
  BY <1>2, <1>3 DEF StreamsTypeOK, Pumping
<1>10. StreamsTypeOK'
  BY <1>2, <1>3, <1>8, <1>9 DEF StreamsTypeOK, Ends, Pumping, Draining, FrameRow
<1>11. Held(e)' <= Held(e)
  BY <1>3, <1>5, <1>8, <1>9 DEF Held
<1>12. Owed(e)' + window[e] <= Owed(e) + window'[e]
  BY <1>3, <1>5, <1>8 DEF Owed
<1> QED BY <1>1, <1>3, <1>8, <1>9, <1>10, <1>11, <1>12, EndStep

LEMMA SendFinHolds == ASSUME StreamsInv, NEW e \in Ends, SendFin(e) PROVE StreamsInv'
<1>1. PICK p : p = Peer(e)
  OBVIOUS
<1>2. p \in Ends /\ p # e /\ StreamsTypeOK
  BY <1>1, EndsFacts DEF StreamsInv
<1>3. /\ pump[e] = "read" /\ pump' = [pump EXCEPT ![e] = "done"]
      /\ UNCHANGED <<open, credit, notified, amount, window, inbound, drain, holding, opening>>
  BY DEF SendFin, receiveVars
<1>4. PICK f : f = Frame("fin", 0)
  OBVIOUS
<1>5. /\ amount[e] \in Nat /\ credit[e] \in Nat /\ DataIn(wire[e]) \in Nat /\ window[e] \in Nat
      /\ PromisedIn(wire[e]) \in Nat /\ holding[e] \in Nat
  BY <1>2, Numbers
<1>6. f \in FrameRow /\ f.kind = "fin" /\ Weight(f, "data") = 0 /\ Promise(f) = 0
  BY <1>4 DEF Frame, FrameRow, Weight, Promise
<1>7. NoOpen(wire[e])
  BY <1>3, LateFacts
<1>8. /\ wire' \in [Ends -> Seq(FrameRow)] /\ wire'[p] = wire[p] /\ NoOpen(wire'[e])
      /\ PromisedIn(wire'[e]) = PromisedIn(wire[e]) + 0 /\ DataIn(wire'[e]) = DataIn(wire[e]) + 0
  BY <1>1, <1>4, <1>6, <1>7, FrameSent DEF SendFin
<1>9. pump' \in [Ends -> Pumping] /\ pump'[p] = pump[p] /\ pump'[e] = "done"
  BY <1>2, <1>3 DEF StreamsTypeOK, Pumping
<1>10. StreamsTypeOK'
  BY <1>2, <1>3, <1>8, <1>9 DEF StreamsTypeOK, Ends, Pumping, Draining, FrameRow
<1>11. Held(e)' <= Held(e)
  BY <1>3, <1>5, <1>8, <1>9 DEF Held
<1>12. Owed(e)' + window[e] <= Owed(e) + window'[e]
  BY <1>3, <1>5, <1>8 DEF Owed
<1> QED BY <1>1, <1>3, <1>8, <1>9, <1>10, <1>11, <1>12, EndStep

LEMMA SendUpdateHolds == ASSUME StreamsInv, NEW e \in Ends, SendUpdate(e) PROVE StreamsInv'
<1>1. PICK p : p = Peer(e)
  OBVIOUS
<1>2. p \in Ends /\ p # e /\ StreamsTypeOK
  BY <1>1, EndsFacts DEF StreamsInv
<1>3. /\ drain[e] = "granted" /\ drain' = [drain EXCEPT ![e] = "receive"] /\ holding' = [holding EXCEPT ![e] = 0]
      /\ UNCHANGED <<open, credit, notified, pump, amount, window, inbound, opening>>
  BY DEF SendUpdate, sendVars
<1>4. PICK f : f = Frame("window_update", holding[e])
  OBVIOUS
<1>5. /\ amount[e] \in Nat /\ credit[e] \in Nat /\ DataIn(wire[e]) \in Nat /\ window[e] \in Nat
      /\ PromisedIn(wire[e]) \in Nat /\ holding[e] \in Nat /\ Held(e) \in Nat
  BY <1>2, Numbers
<1>6. f \in FrameRow /\ f.kind = "window_update" /\ Weight(f, "data") = 0 /\ Promise(f) = holding[e]
  BY <1>4, <1>5 DEF Frame, FrameRow, Weight, Promise
<1>7. NoOpen(wire[e]) /\ pump[e] # "connect"
  BY <1>3, LateFacts
<1>8. /\ wire' \in [Ends -> Seq(FrameRow)] /\ wire'[p] = wire[p] /\ NoOpen(wire'[e])
      /\ PromisedIn(wire'[e]) = PromisedIn(wire[e]) + holding[e] /\ DataIn(wire'[e]) = DataIn(wire[e]) + 0
  BY <1>1, <1>4, <1>6, <1>7, FrameSent DEF SendUpdate
<1>9. /\ drain' \in [Ends -> Draining] /\ drain'[p] = drain[p] /\ drain'[e] = "receive"
      /\ holding' \in [Ends -> Nat] /\ holding'[p] = holding[p]
  BY <1>2, <1>3 DEF StreamsTypeOK, Draining
<1>10. StreamsTypeOK'
  BY <1>2, <1>3, <1>8, <1>9 DEF StreamsTypeOK, Ends, Pumping, Draining, FrameRow
<1>11. Held(e)' <= Held(e)
  BY <1>3, <1>5, <1>8 DEF Held
<1>12. Owed(e)' + window[e] <= Owed(e) + window'[e]
  BY <1>3, <1>5, <1>8, <1>9 DEF Owed
<1>13. pump[e] \in {"poll", "wait"} /\ ~ notified[e] => credit[e] < amount[e]
  BY DEF StreamsInv, NoLostWakeup
<1> QED BY <1>1, <1>3, <1>7, <1>8, <1>9, <1>10, <1>11, <1>12, <1>13, EndStep

LEMMA EndStreamHolds == ASSUME StreamsInv, NEW e \in Ends, EndStream(e) PROVE StreamsInv'
<1>1. PICK p : p = Peer(e)
  OBVIOUS
<1>2. p \in Ends /\ p # e /\ StreamsTypeOK
  BY <1>1, EndsFacts DEF StreamsInv
<1>3. /\ pump[e] \notin {"off", "connect"} /\ pump' = [pump EXCEPT ![e] = "off"] /\ drain' = [drain EXCEPT ![e] = "off"]
      /\ open' = [open EXCEPT ![e] = FALSE]
      /\ UNCHANGED <<credit, notified, amount, window, inbound, holding, opening>>
  BY DEF EndStream
<1>4. PICK f : f = Frame("close", 0)
  OBVIOUS
<1>5. /\ amount[e] \in Nat /\ credit[e] \in Nat /\ DataIn(wire[e]) \in Nat /\ window[e] \in Nat
      /\ PromisedIn(wire[e]) \in Nat /\ holding[e] \in Nat
  BY <1>2, Numbers
<1>6. f \in FrameRow /\ f.kind = "close" /\ Weight(f, "data") = 0 /\ Promise(f) = 0
  BY <1>4 DEF Frame, FrameRow, Weight, Promise
<1>7. NoOpen(wire[e])
  BY <1>3, LateFacts
<1>8. /\ wire' \in [Ends -> Seq(FrameRow)] /\ wire'[p] = wire[p] /\ NoOpen(wire'[e])
      /\ PromisedIn(wire'[e]) = PromisedIn(wire[e]) + 0 /\ DataIn(wire'[e]) = DataIn(wire[e]) + 0
  BY <1>1, <1>4, <1>6, <1>7, FrameSent DEF EndStream
<1>9. /\ pump' \in [Ends -> Pumping] /\ pump'[p] = pump[p] /\ pump'[e] = "off"
      /\ drain' \in [Ends -> Draining] /\ drain'[p] = drain[p] /\ drain'[e] = "off"
      /\ open' \in [Ends -> BOOLEAN]
  BY <1>2, <1>3 DEF StreamsTypeOK, Pumping, Draining
<1>10. StreamsTypeOK'
  BY <1>2, <1>3, <1>8, <1>9 DEF StreamsTypeOK, Ends, Pumping, Draining, FrameRow
<1>11. Held(e)' <= Held(e)
  BY <1>3, <1>5, <1>8, <1>9 DEF Held
<1>12. Owed(e)' + window[e] <= Owed(e) + window'[e]
  BY <1>3, <1>5, <1>8, <1>9 DEF Owed
<1> QED BY <1>1, <1>3, <1>8, <1>9, <1>10, <1>11, <1>12, EndStep

\* A received frame is taken, written, and its bytes are added to the window.
LEMMA DrainHolds ==
    ASSUME StreamsInv, NEW e \in Ends, Deliver(e) \/ ReopenWindow(e) \/ FinishDrain(e)
    PROVE  StreamsInv'
<1>1. PICK p : p = Peer(e)
  OBVIOUS
<1>2. p \in Ends /\ p # e /\ StreamsTypeOK /\ inbound[e] \in Seq(FrameRow)
  BY <1>1, EndsFacts DEF StreamsInv, StreamsTypeOK
<1>3. drain[e] \in {"receive", "written"} /\ UNCHANGED <<open, credit, notified, pump, amount, wire, opening>>
  BY DEF Deliver, ReopenWindow, FinishDrain, sendVars
<1>4. /\ amount[e] \in Nat /\ credit[e] \in Nat /\ DataIn(wire[e]) \in Nat /\ window[e] \in Nat
      /\ PromisedIn(wire[e]) \in Nat /\ holding[e] \in Nat /\ Held(e) \in Nat
  BY <1>2, Numbers
<1>5. NoOpen(wire[e]) /\ pump[e] # "connect"
  BY <1>3, LateFacts
<1>6. Held(e)' = Held(e)
  BY <1>3 DEF Held
<1>7. pump[e] \in {"poll", "wait"} /\ ~ notified[e] => credit[e] < amount[e]
  BY DEF StreamsInv, NoLostWakeup
<1>8. PICK d \in Draining, h \in Nat, w \in Nat, q \in Seq(FrameRow) :
          /\ drain' = [drain EXCEPT ![e] = d] /\ holding' = [holding EXCEPT ![e] = h]
          /\ window' = [window EXCEPT ![e] = w] /\ inbound' = [inbound EXCEPT ![e] = q]
          /\ (IF d = "granted" THEN h ELSE 0) + window[e] <= w
  <2>0. /\ window = [window EXCEPT ![e] = window[e]] /\ holding = [holding EXCEPT ![e] = holding[e]]
        /\ inbound = [inbound EXCEPT ![e] = inbound[e]] /\ 0 + window[e] <= window[e]
        /\ {"written", "granted", "done"} \subseteq Draining
    BY <1>2, <1>4 DEF StreamsTypeOK, Draining
  <2>1. CASE Deliver(e)
    <3>1. Tail(inbound[e]) \in Seq(FrameRow) /\ Head(inbound[e]) \in FrameRow
      BY <1>2, <2>1 DEF Deliver
    <3>2. Head(inbound[e]).bytes \in Nat
      BY <3>1 DEF FrameRow
    <3>3. /\ drain' = [drain EXCEPT ![e] = "written"] /\ holding' = [holding EXCEPT ![e] = Head(inbound[e]).bytes]
          /\ inbound' = [inbound EXCEPT ![e] = Tail(inbound[e])] /\ window' = [window EXCEPT ![e] = window[e]]
      BY <1>2, <2>0, <2>1 DEF Deliver, StreamsTypeOK
    <3> QED BY <1>4, <2>0, <3>1, <3>2, <3>3
  <2>2. CASE ReopenWindow(e)
    <3>1. window[e] + holding[e] \in Nat /\ holding[e] + window[e] <= window[e] + holding[e]
      BY <1>4
    <3> QED BY <2>0, <2>2, <3>1, <1>4, <1>2 DEF ReopenWindow
  <2>3. CASE FinishDrain(e)
    <3>1. Tail(inbound[e]) \in Seq(FrameRow)
      BY <1>2, <2>3 DEF FinishDrain
    <3> QED BY <1>4, <2>0, <2>3, <3>1 DEF FinishDrain
  <2> QED BY <2>1, <2>2, <2>3
<1>9. /\ drain' \in [Ends -> Draining] /\ holding' \in [Ends -> Nat] /\ window' \in [Ends -> Nat]
      /\ inbound' \in [Ends -> Seq(FrameRow)]
      /\ drain'[e] = d /\ holding'[e] = h /\ window'[e] = w
      /\ drain'[p] = drain[p] /\ holding'[p] = holding[p] /\ window'[p] = window[p]
  BY <1>2, <1>8 DEF StreamsTypeOK
<1>10. StreamsTypeOK'
  BY <1>2, <1>3, <1>9 DEF StreamsTypeOK, Ends, Pumping, Draining, FrameRow
<1>11. Owed(e)' + window[e] <= Owed(e) + window'[e]
  <2>1. Owed(e)' = PromisedIn(wire[e]) + (IF d = "granted" THEN h ELSE 0) /\ Owed(e) = PromisedIn(wire[e])
    BY <1>3, <1>4, <1>9 DEF Owed
  <2> QED BY <1>4, <1>8, <1>9, <2>1
<1>12. Held(e)' <= Held(e) /\ NoOpen(wire'[e])
  BY <1>3, <1>4, <1>5, <1>6
<1> QED BY <1>1, <1>3, <1>5, <1>7, <1>9, <1>10, <1>11, <1>12, EndStep

-----------------------------------------------------------------------------
(* Opening a stream *)

LEMMA NothingOnWire == PromisedIn(<<>>) = 0 /\ DataIn(<<>>) = 0 /\ NoOpen(<<>>) /\ <<>> \in Seq(FrameRow)
  BY BytesEmpty DEF PromisedIn, DataIn, NoOpen

LEMMA CoveredByBoth ==
    ASSUME StreamsInv, (Held("node") + Owed("relay") <= window["relay"])',
           (Held("relay") + Owed("node") <= window["node"])'
    PROVE  CreditCovered'
<1>1. ASSUME NEW x \in Ends PROVE (Held(Peer(x)) + Owed(x) <= window[x])'
  <2>1. CASE x = "relay"
    BY <2>1, EndsFacts DEF Held, Owed
  <2>2. CASE x = "node"
    BY <2>2, EndsFacts DEF Held, Owed
  <2> QED BY <2>1, <2>2, EndsFacts
<1> QED BY <1>1 DEF CreditCovered, Ends

LEMMA OpenStreamHolds == ASSUME StreamsInv, OpenStream PROVE StreamsInv'
<1>1. /\ StreamsTypeOK /\ NoLostWakeup /\ opening = "no" /\ Early /\ Window \in Nat
      /\ wire["relay"] = <<>> /\ pump["node"] = "off" /\ credit["node"] = 0 /\ window["relay"] = Window
      /\ wire["node"] = <<>> /\ credit["relay"] = 0 /\ pump["relay"] = "off" /\ drain["node"] = "off"
      /\ drain["relay"] = "off" /\ window["node"] = Window
  BY StreamsAssumption DEF OpenStream, StreamsInv, GrantedOnce, Early
<1>2. /\ open' = [open EXCEPT !["relay"] = TRUE] /\ opening' = "waiting"
      /\ wire' = [wire EXCEPT !["relay"] = Append(wire["relay"], OpenFrame)]
      /\ UNCHANGED <<credit, notified, pump, amount, window, inbound, drain, holding>>
  BY DEF OpenStream, Send, sendVars, receiveVars, OpenFrame
<1>3. OpenFrame \in FrameRow /\ Promise(OpenFrame) = Window /\ Weight(OpenFrame, "data") = 0
  BY <1>1 DEF OpenFrame, Frame, FrameRow, Promise, Weight
<1>4. PICK t : t = Append(<<>>, OpenFrame)
  OBVIOUS
<1>5. t \in Seq(FrameRow) /\ PromisedIn(t) = 0 + Window /\ DataIn(t) = 0 + 0 /\ t = <<OpenFrame>>
  <2>1. t \in Seq(FrameRow) /\ PromisedIn(t) = PromisedIn(<<>>) + Window /\ DataIn(t) = DataIn(<<>>) + 0
    BY <1>3, <1>4, NothingOnWire, FramesSent
  <2>2. t = <<OpenFrame>>
    BY <1>4
  <2> QED BY <2>1, <2>2, NothingOnWire
<1>6. wire' \in [Ends -> Seq(FrameRow)] /\ wire'["relay"] = t /\ wire'["node"] = <<>> /\ open' \in [Ends -> BOOLEAN]
  BY <1>1, <1>2, <1>4, <1>5, EndsFacts DEF StreamsTypeOK
<1>7. StreamsTypeOK'
  BY <1>1, <1>2, <1>6 DEF StreamsTypeOK, Ends, Pumping, Draining, FrameRow
<1>8. Held("node")' = 0 /\ Owed("relay")' = Window /\ Held("relay")' = 0 /\ Owed("node")' = 0
  BY <1>1, <1>2, <1>5, <1>6, NothingOnWire DEF Held, Owed
<1>9. CreditCovered'
  BY <1>1, <1>2, <1>8, CoveredByBoth
<1>10. GrantedOnce'
  <2>1. OpenFrame' = OpenFrame
    BY DEF OpenFrame, Frame
  <2> QED BY <1>1, <1>2, <1>5, <1>6, <2>1, NothingOnWire DEF GrantedOnce, Early, NoOpen
<1>11. NoLostWakeup'
  BY <1>1, <1>2 DEF NoLostWakeup, Ends
<1> QED BY <1>7, <1>9, <1>10, <1>11 DEF StreamsInv

\* The node answers the Relay's Open.
LEMMA LocalHolds == ASSUME StreamsInv, LocalConnected \/ LocalUnavailable PROVE StreamsInv'
<1>1. /\ StreamsTypeOK /\ NoLostWakeup /\ pump["node"] = "connect" /\ Early /\ Window \in Nat /\ opening # "no"
      /\ wire["relay"] = <<>> /\ wire["node"] = <<>> /\ credit["relay"] = 0 /\ pump["relay"] = "off"
      /\ drain["node"] = "off" /\ window["node"] = Window
  BY StreamsAssumption DEF LocalConnected, LocalUnavailable, StreamsInv, GrantedOnce, Early
<1>2. PICK f : f = IF LocalConnected THEN Frame("open_ok", Window) ELSE Frame("open_error", 0)
  OBVIOUS
<1>3. PICK y : y = IF LocalConnected THEN "read" ELSE "off"
  OBVIOUS
<1>4. PICK d : d = IF LocalConnected THEN "receive" ELSE "off"
  OBVIOUS
<1>5. /\ wire' = [wire EXCEPT !["node"] = Append(wire["node"], f)] /\ pump' = [pump EXCEPT !["node"] = y]
      /\ UNCHANGED <<credit, notified, amount, window, inbound, holding, opening>>
  <2>1. CASE LocalConnected
    BY <1>2, <1>3, <2>1 DEF LocalConnected, StartPumps, Send
  <2>2. CASE ~ LocalConnected
    BY <1>2, <1>3, <2>2 DEF LocalUnavailable, Send, receiveVars
  <2> QED BY <2>1, <2>2
<1>6. drain' = [drain EXCEPT !["node"] = d] /\ open' \in [Ends -> BOOLEAN]
  <2>1. CASE LocalConnected
    BY <1>1, <1>4, <2>1 DEF LocalConnected, StartPumps, StreamsTypeOK
  <2>2. CASE ~ LocalConnected
    <3>1. drain' = drain /\ open' = [open EXCEPT !["node"] = FALSE] /\ d = "off"
      BY <1>4, <2>2 DEF LocalUnavailable, receiveVars
    <3>2. drain = [drain EXCEPT !["node"] = "off"]
      BY <1>1, EndsFacts DEF StreamsTypeOK
    <3>3. [open EXCEPT !["node"] = FALSE] \in [Ends -> BOOLEAN]
      BY <1>1 DEF StreamsTypeOK
    <3> QED BY <3>1, <3>2, <3>3
  <2> QED BY <2>1, <2>2
<1>7. f \in FrameRow /\ Promise(f) \in Nat /\ Promise(f) <= Window /\ Weight(f, "data") = 0 /\ f.kind # "open"
  BY <1>1, <1>2 DEF Frame, FrameRow, Promise, Weight
<1>8. PICK t : t = Append(<<>>, f)
  OBVIOUS
<1>9. t \in Seq(FrameRow) /\ PromisedIn(t) = 0 + Promise(f) /\ DataIn(t) = 0 + 0 /\ NoOpen(t)
  BY <1>7, <1>8, NothingOnWire, FramesSent
<1>10. /\ wire' \in [Ends -> Seq(FrameRow)] /\ wire'["node"] = t /\ wire'["relay"] = <<>>
       /\ pump' \in [Ends -> Pumping] /\ pump'["node"] = y /\ pump'["relay"] = "off"
       /\ drain' \in [Ends -> Draining] /\ drain'["node"] = d /\ drain'["relay"] = drain["relay"]
  BY <1>1, <1>3, <1>4, <1>5, <1>6, <1>8, <1>9, EndsFacts DEF StreamsTypeOK, Pumping, Draining
<1>11. y \in {"read", "off"} /\ d \in {"receive", "off"}
  BY <1>3, <1>4
<1>12. StreamsTypeOK'
  BY <1>1, <1>5, <1>6, <1>10 DEF StreamsTypeOK, Ends, Pumping, Draining, FrameRow
<1>13. CreditCovered'
  <2>1. credit["node"] \in Nat /\ Held("node") + Owed("relay") <= window["relay"] /\ window["relay"] \in Nat
    BY <1>1, Numbers, EndsFacts DEF StreamsInv, CreditCovered
  <2>2. Held("relay")' = 0 /\ Owed("node")' = Promise(f)
    BY <1>1, <1>5, <1>7, <1>9, <1>10, <1>11, NothingOnWire DEF Held, Owed
  <2>3. Held("node")' = credit["node"] /\ Held("node") = credit["node"]
    BY <1>1, <1>5, <1>9, <1>10, <1>11, <2>1, NothingOnWire DEF Held
  <2>4. Owed("relay")' = Owed("relay")
    BY <1>1, <1>5, <1>10 DEF Owed
  <2> QED BY <1>1, <1>5, <1>7, <2>1, <2>2, <2>3, <2>4, CoveredByBoth
<1>14. GrantedOnce'
  BY <1>1, <1>5, <1>9, <1>10, <1>11, NothingOnWire, EndsFacts, LateStays
<1>15. NoLostWakeup'
  <2>1. ASSUME NEW x \in Ends, pump'[x] \in {"poll", "wait"}, ~ notified'[x] PROVE credit'[x] < amount'[x]
    BY <1>10, <1>11, <2>1, EndsFacts
  <2> QED BY <2>1 DEF NoLostWakeup, Ends
<1> QED BY <1>12, <1>13, <1>14, <1>15 DEF StreamsInv

LEMMA OpenTimeoutHolds == ASSUME StreamsInv, OpenTimeout PROVE StreamsInv'
<1>1. /\ StreamsTypeOK /\ CreditCovered /\ GrantedOnce /\ NoLostWakeup /\ opening = "waiting" /\ opening' = "done"
      /\ open' = [open EXCEPT !["relay"] = FALSE]
      /\ UNCHANGED <<credit, notified, pump, amount, window, inbound, drain, holding, wire>>
  BY DEF OpenTimeout, StreamsInv, sendVars, receiveVars
<1>2. StreamsTypeOK'
  BY <1>1, EndsFacts DEF StreamsTypeOK, Ends, Pumping, Draining, FrameRow
<1>3. CreditCovered'
  BY <1>1 DEF CreditCovered, Held, Owed, Ends, Peer
<1>4. GrantedOnce'
  <2>1. OpenFrame' = OpenFrame
    BY DEF OpenFrame, Frame
  <2> QED BY <1>1, <2>1 DEF GrantedOnce, Early, NoOpen
<1>5. NoLostWakeup'
  BY <1>1 DEF NoLostWakeup, Ends
<1> QED BY <1>2, <1>3, <1>4, <1>5 DEF StreamsInv

-----------------------------------------------------------------------------
(* Frames arrive *)

\* The Relay's Open arrives at the node.
LEMMA ReceiveOpenHolds == ASSUME StreamsInv, NEW e \in Ends, Receive(e), Early PROVE StreamsInv'
<1>1. /\ StreamsTypeOK /\ NoLostWakeup /\ Window \in Nat
      /\ wire["node"] = <<>> /\ credit["relay"] = 0 /\ pump["relay"] = "off" /\ drain["node"] = "off"
      /\ drain["relay"] = "off" /\ window["node"] = Window /\ window["relay"] \in Nat
  BY StreamsAssumption, Numbers, EndsFacts DEF StreamsInv, GrantedOnce
<1>2. wire[Peer(e)] # <<>>
  BY DEF Receive
<1>3. e = "node" /\ Peer(e) = "relay" /\ wire["relay"] # <<>>
  BY <1>1, <1>2, EndsFacts
<1>4. wire["relay"] = <<OpenFrame>> /\ opening # "no"
  BY <1>3 DEF StreamsInv, GrantedOnce, Early
<1>5. Incoming(e) = OpenFrame /\ OpenFrame.kind = "open" /\ OpenFrame.bytes = Window /\ OpenFrame \in FrameRow
  BY <1>1, <1>3, <1>4 DEF Incoming, OpenFrame, Frame, FrameRow
<1>6. wire' = [wire EXCEPT !["relay"] = Tail(@)] /\ AcceptOpen(e, OpenFrame)
  BY <1>3, <1>5 DEF Receive
<1>7. /\ open' = [open EXCEPT !["node"] = TRUE] /\ pump' = [pump EXCEPT !["node"] = "connect"]
      /\ credit' = [credit EXCEPT !["node"] = Window]
      /\ UNCHANGED <<notified, amount, window, inbound, drain, holding, opening>>
  BY <1>3, <1>5, <1>6 DEF AcceptOpen, receiveVars
<1>8. Tail(<<OpenFrame>>) = <<>>
  OBVIOUS
<1>9. wire' \in [Ends -> Seq(FrameRow)] /\ wire'["relay"] = <<>> /\ wire'["node"] = <<>>
  BY <1>1, <1>4, <1>6, <1>8, NothingOnWire, EndsFacts DEF StreamsTypeOK
<1>10. /\ open' \in [Ends -> BOOLEAN] /\ pump' \in [Ends -> Pumping] /\ credit' \in [Ends -> Nat]
       /\ pump'["node"] = "connect" /\ pump'["relay"] = "off" /\ credit'["node"] = Window /\ credit'["relay"] = 0
  BY <1>1, <1>7, EndsFacts DEF StreamsTypeOK, Pumping
<1>11. StreamsTypeOK'
  BY <1>1, <1>7, <1>9, <1>10 DEF StreamsTypeOK, Ends, Pumping, Draining, FrameRow
<1>12. CreditCovered'
  <2>1. PICK t : t = <<OpenFrame>>
    OBVIOUS
  <2>2. t \in Seq(FrameRow) /\ t # <<>> /\ Head(t) = OpenFrame /\ Tail(t) = <<>>
    BY <1>5, <2>1
  <2>3. PromisedIn(t) = Promise(OpenFrame) + PromisedIn(<<>>)
    BY <2>2, FramesTaken
  <2>4. PromisedIn(wire["relay"]) = Window
    BY <1>1, <1>4, <1>5, <2>1, <2>3, NothingOnWire DEF Promise
  <2>5. Owed("relay") = Window /\ Held("node") \in Nat
    BY <1>1, <2>4, Numbers, EndsFacts DEF Owed
  <2>6. Held("node") + Owed("relay") <= window["relay"]
    BY EndsFacts DEF StreamsInv, CreditCovered
  <2>7. Held("node")' = Window /\ Owed("relay")' = 0 /\ Held("relay")' = 0 /\ Owed("node")' = 0
    BY <1>1, <1>7, <1>9, <1>10, NothingOnWire DEF Held, Owed
  <2>8. Window <= window["relay"]
    BY <1>1, <2>5, <2>6
  <2> QED BY <1>1, <1>7, <2>7, <2>8, CoveredByBoth
<1>13. GrantedOnce'
  BY <1>1, <1>4, <1>7, <1>9, <1>10, NothingOnWire DEF GrantedOnce, Early, NoOpen
<1>14. NoLostWakeup'
  <2>1. ASSUME NEW x \in Ends, pump'[x] \in {"poll", "wait"}, ~ notified'[x] PROVE credit'[x] < amount'[x]
    BY <1>10, <2>1, EndsFacts
  <2> QED BY <2>1 DEF NoLostWakeup, Ends
<1> QED BY <1>11, <1>12, <1>13, <1>14 DEF StreamsInv

\* A later frame moves bytes from what one end sent to what the other holds.
LEMMA LateReceive ==
    ASSUME StreamsInv, StreamsTypeOK', ~ Early, NEW e \in Ends, NEW p, p = Peer(e), NEW f \in FrameRow,
           PromisedIn(wire[p]) = Promise(f) + PromisedIn(wire'[p]),
           DataIn(wire[p]) = Weight(f, "data") + DataIn(wire'[p]),
           NoOpen(wire'[p]), NoOpen(wire'[e]),
           Owed(e)' <= Owed(e), Held(e)' <= Held(e) + Promise(f), window[e] <= window'[e] + Weight(f, "data"),
           credit'[p] = credit[p], pump'[p] = pump[p], amount'[p] = amount[p],
           drain'[p] = drain[p], holding'[p] = holding[p], window'[p] = window[p], notified'[p] = notified[p],
           pump'[e] # "connect", opening' # "no",
           pump'[e] \in {"poll", "wait"} /\ ~ notified'[e] => credit'[e] < amount'[e]
    PROVE  StreamsInv'
<1>1. p \in Ends /\ p # e /\ Peer(p) = e /\ \A x \in Ends : x = e \/ x = p
  BY EndsFacts
<1>2. pump[p] # "connect"
  BY <1>1, EndsFacts DEF Early, StreamsInv, GrantedOnce
<1>3. GrantedOnce'
  <2>1. \A x \in Ends : pump'[x] # "connect" /\ NoOpen(wire'[x])
    BY <1>1, <1>2
  <2> QED BY <2>1, LateStays
<1>4. CreditCovered'
  <2>1. Promise(f) \in Nat /\ Weight(f, "data") \in Nat
    BY PromiseWeights
  <2>2. /\ Held(e) \in Nat /\ Owed(e) \in Nat /\ Held(p) \in Nat /\ Owed(p) \in Nat /\ window[e] \in Nat
        /\ window[p] \in Nat /\ credit[p] \in Nat /\ amount[p] \in Nat /\ holding[p] \in Nat
    BY <1>1, Numbers DEF StreamsInv
  <2>3. ASSUME NEW x \in Ends
        PROVE  /\ Held(x)' \in Nat /\ Owed(x)' \in Nat /\ window'[x] \in Nat
               /\ PromisedIn(wire'[x]) \in Nat /\ DataIn(wire'[x]) \in Nat
    <3>1. /\ credit'[x] \in Nat /\ amount'[x] \in Nat /\ window'[x] \in Nat /\ holding'[x] \in Nat
          /\ wire'[x] \in Seq(FrameRow)
      BY DEF StreamsTypeOK, FrameRow
    <3>2. PromisedIn(wire'[x]) \in Nat /\ DataIn(wire'[x]) \in Nat
      BY <3>1, FramesTypes
    <3> QED BY <3>1, <3>2 DEF Held, Owed
  <2>4. /\ Held(e)' \in Nat /\ Owed(e)' \in Nat /\ window'[e] \in Nat
        /\ PromisedIn(wire'[p]) \in Nat /\ DataIn(wire'[p]) \in Nat
    BY <1>1, <2>3
  <2>5. Held(p) = Weight(f, "data") + Held(p)' /\ Held(p)' \in Nat
    <3>1. /\ Held(p) = credit[p] + (IF pump[p] = "send" THEN amount[p] ELSE 0) + (Weight(f, "data") + DataIn(wire'[p]))
          /\ Held(p)' = credit[p] + (IF pump[p] = "send" THEN amount[p] ELSE 0) + DataIn(wire'[p])
      BY DEF Held
    <3> QED BY <2>1, <2>2, <2>4, <3>1
  <2>6. Owed(p) = Promise(f) + Owed(p)' /\ Owed(p)' \in Nat
    <3>1. /\ Owed(p) = Promise(f) + PromisedIn(wire'[p]) + (IF drain[p] = "granted" THEN holding[p] ELSE 0)
          /\ Owed(p)' = PromisedIn(wire'[p]) + (IF drain[p] = "granted" THEN holding[p] ELSE 0)
      BY DEF Owed
    <3> QED BY <2>1, <2>2, <2>4, <3>1
  <2>7. Held(p) + Owed(e) <= window[e] /\ Held(e) + Owed(p) <= window[p]
    BY <1>1 DEF StreamsInv, CreditCovered
  <2>8. Held(p)' + Owed(e)' <= window'[e]
    BY <2>1, <2>2, <2>4, <2>5, <2>7
  <2>9. Held(e)' + Owed(p)' <= window'[p]
    BY <2>1, <2>2, <2>4, <2>6, <2>7
  <2>10. ASSUME NEW x \in Ends PROVE (Held(Peer(x)) + Owed(x) <= window[x])'
    <3>1. CASE x = e
      BY <1>1, <2>8, <3>1 DEF Held, Owed
    <3>2. CASE x = p
      BY <1>1, <2>9, <3>2 DEF Held, Owed
    <3> QED BY <1>1, <3>1, <3>2
  <2> QED BY <2>10 DEF CreditCovered, Ends
<1>5. NoLostWakeup'
  <2>1. ASSUME NEW x \in Ends, pump'[x] \in {"poll", "wait"}, ~ notified'[x] PROVE credit'[x] < amount'[x]
    BY <1>1, <2>1 DEF StreamsInv, NoLostWakeup
  <2> QED BY <2>1 DEF NoLostWakeup, Ends
<1> QED BY <1>3, <1>4, <1>5 DEF StreamsInv

LEMMA ReceiveWire ==
    ASSUME StreamsInv, NEW e \in Ends, Receive(e), ~ Early, NEW p, p = Peer(e), NEW f, f = Incoming(e)
    PROVE  /\ f \in FrameRow /\ f.kind # "open" /\ wire' \in [Ends -> Seq(FrameRow)]
           /\ PromisedIn(wire[p]) = Promise(f) + PromisedIn(wire'[p])
           /\ DataIn(wire[p]) = Weight(f, "data") + DataIn(wire'[p])
           /\ PromisedIn(wire'[e]) = PromisedIn(wire[e]) /\ DataIn(wire'[e]) = DataIn(wire[e])
           /\ NoOpen(wire'[p]) /\ NoOpen(wire'[e])
<1>1. p \in Ends /\ p # e /\ StreamsTypeOK /\ wire[e] \in Seq(FrameRow) /\ wire[p] \in Seq(FrameRow)
  BY EndsFacts DEF StreamsInv, StreamsTypeOK
<1>2. NoOpen(wire[e]) /\ NoOpen(wire[p])
  BY <1>1, EndsFacts DEF StreamsInv, GrantedOnce, Early
<1>3. wire[p] # <<>> /\ f = Head(wire[p])
  BY DEF Receive, Incoming
<1>4. PICK t : t = Tail(wire[p])
  OBVIOUS
<1>5. /\ f \in FrameRow /\ f.kind # "open" /\ t \in Seq(FrameRow) /\ NoOpen(t)
      /\ PromisedIn(wire[p]) = Promise(f) + PromisedIn(t) /\ DataIn(wire[p]) = Weight(f, "data") + DataIn(t)
  <2>1. PICK s : s = wire[p]
    OBVIOUS
  <2>2. s \in Seq(FrameRow) /\ s # <<>> /\ t = Tail(s) /\ f = Head(s) /\ NoOpen(s)
    BY <1>1, <1>2, <1>3, <1>4, <2>1
  <2>3. /\ t \in Seq(FrameRow) /\ f \in FrameRow /\ PromisedIn(s) = Promise(f) + PromisedIn(t)
        /\ DataIn(s) = Weight(f, "data") + DataIn(t) /\ NoOpen(t) /\ f.kind # "open"
    BY <2>2, FramesTaken, Zenon
  <2> QED BY <2>1, <2>3
<1>6. PICK rest : rest = [wire EXCEPT ![p] = t]
  OBVIOUS
<1>7. rest \in [Ends -> Seq(FrameRow)] /\ rest[p] = t /\ rest[e] = wire[e]
  BY <1>1, <1>5, <1>6 DEF StreamsTypeOK
<1>8. PICK c : c = Frame("close", 0)
  OBVIOUS
<1>9. c \in FrameRow /\ c.kind # "open" /\ Promise(c) = 0 /\ Weight(c, "data") = 0
  BY <1>8 DEF Frame, FrameRow, Promise, Weight
<1>10. PICK u : u = Append(wire[e], c)
  OBVIOUS
<1>11. /\ u \in Seq(FrameRow) /\ NoOpen(u) /\ PromisedIn(u) = PromisedIn(wire[e]) + 0
       /\ DataIn(u) = DataIn(wire[e]) + 0 /\ PromisedIn(wire[e]) \in Nat /\ DataIn(wire[e]) \in Nat
  <2>1. PICK s : s = wire[e]
    OBVIOUS
  <2>2. s \in Seq(FrameRow) /\ NoOpen(s) /\ u = Append(s, c)
    BY <1>1, <1>2, <1>10, <2>1
  <2>3. /\ u \in Seq(FrameRow) /\ NoOpen(u) /\ PromisedIn(u) = PromisedIn(s) + Promise(c)
        /\ DataIn(u) = DataIn(s) + Weight(c, "data")
    BY <1>9, <2>2, FramesSent, Zenon
  <2>4. PromisedIn(s) \in Nat /\ DataIn(s) \in Nat
    BY <2>2, FramesTypes, Zenon
  <2> QED BY <1>9, <2>1, <2>3, <2>4
<1>12. wire' = rest \/ wire' = [rest EXCEPT ![e] = Append(rest[e], c)]
  BY <1>4, <1>6, <1>8 DEF Receive
<1>13. CASE wire' = rest
  BY <1>2, <1>5, <1>7, <1>13
<1>14. CASE wire' = [rest EXCEPT ![e] = Append(rest[e], c)]
  <2>1. wire' \in [Ends -> Seq(FrameRow)] /\ wire'[p] = t /\ wire'[e] = u
    BY <1>1, <1>7, <1>10, <1>11, <1>14
  <2> QED BY <1>5, <1>11, <2>1
<1> QED BY <1>12, <1>13, <1>14

LEMMA ReceiveLateHolds == ASSUME StreamsInv, NEW e \in Ends, Receive(e), ~ Early PROVE StreamsInv'
<1>1. PICK p : p = Peer(e)
  OBVIOUS
<1>2. PICK f : f = Incoming(e)
  OBVIOUS
<1>3. /\ f \in FrameRow /\ f.kind # "open" /\ wire' \in [Ends -> Seq(FrameRow)]
      /\ PromisedIn(wire[p]) = Promise(f) + PromisedIn(wire'[p])
      /\ DataIn(wire[p]) = Weight(f, "data") + DataIn(wire'[p])
      /\ PromisedIn(wire'[e]) = PromisedIn(wire[e]) /\ DataIn(wire'[e]) = DataIn(wire[e])
      /\ NoOpen(wire'[p]) /\ NoOpen(wire'[e])
  BY <1>1, <1>2, ReceiveWire
<1>4. p \in Ends /\ p # e /\ StreamsTypeOK /\ opening # "no" /\ pump[e] # "connect"
  BY <1>1, EndsFacts DEF StreamsInv, GrantedOnce, Early
<1>5. /\ Held(e) \in Nat /\ Owed(e) \in Nat /\ credit[e] \in Nat /\ amount[e] \in Nat /\ window[e] \in Nat
      /\ holding[e] \in Nat /\ PromisedIn(wire[e]) \in Nat /\ DataIn(wire[e]) \in Nat
      /\ Promise(f) \in Nat /\ Weight(f, "data") \in Nat /\ f.bytes \in Nat
  BY <1>3, <1>4, Numbers, PromiseWeights DEF FrameRow
<1>6. pump[e] \in {"poll", "wait"} /\ ~ notified[e] => credit[e] < amount[e]
  BY DEF StreamsInv, NoLostWakeup
<1>7. ASSUME UNCHANGED <<credit, notified, pump, amount, window, drain, holding>>,
             open' \in [Ends -> BOOLEAN], inbound' \in [Ends -> Seq(FrameRow)], opening' \in {opening, "done"}
      PROVE  StreamsInv'
  <2>1. StreamsTypeOK'
    BY <1>3, <1>4, <1>7 DEF StreamsTypeOK, Ends, Pumping, Draining, FrameRow
  <2>2. Held(e)' = Held(e) /\ Owed(e)' = Owed(e)
    BY <1>3, <1>7 DEF Held, Owed
  <2>3. Held(e)' <= Held(e) + Promise(f) /\ Owed(e)' <= Owed(e) /\ window[e] <= window'[e] + Weight(f, "data")
    BY <1>5, <1>7, <2>2
  <2>4. opening' # "no"
    BY <1>4, <1>7
  <2> QED BY <1>1, <1>3, <1>4, <1>6, <1>7, <2>1, <2>3, <2>4, LateReceive
<1>8. CASE Fail \/ AcceptClose(e) \/ AcceptOpenError(e)
  <2>1. UNCHANGED <<credit, notified, pump, amount, window, drain, holding, inbound>>
    BY <1>8 DEF Fail, AcceptClose, AcceptOpenError, sendVars, receiveVars
  <2>2. open' \in [Ends -> BOOLEAN] /\ opening' \in {opening, "done"}
    BY <1>4, <1>8 DEF Fail, AcceptClose, AcceptOpenError, StreamsTypeOK
  <2> QED BY <1>4, <1>7, <2>1, <2>2 DEF StreamsTypeOK
<1>9. ASSUME \/ inbound' = [inbound EXCEPT ![e] = Append(inbound[e], f)] /\ UNCHANGED open
             \/ open' = [open EXCEPT ![e] = FALSE] /\ UNCHANGED inbound
      PROVE  open' \in [Ends -> BOOLEAN] /\ inbound' \in [Ends -> Seq(FrameRow)]
  <2>1. Append(inbound[e], f) \in Seq(FrameRow)
    BY <1>3, <1>4 DEF StreamsTypeOK
  <2> QED BY <1>4, <1>9, <2>1 DEF StreamsTypeOK
<1>10. CASE AcceptFin(e, f)
  <2>1. UNCHANGED <<credit, notified, pump, amount, window, drain, holding, opening>>
    BY <1>10 DEF AcceptFin, sendVars
  <2>2. open' \in [Ends -> BOOLEAN] /\ inbound' \in [Ends -> Seq(FrameRow)]
    BY <1>9, <1>10 DEF AcceptFin
  <2> QED BY <1>7, <2>1, <2>2
<1>11. CASE f.kind = "data" /\ f.bytes <= window[e] /\ AcceptData(e, f)
  <2>1. /\ window' = [window EXCEPT ![e] = window[e] - f.bytes]
        /\ UNCHANGED <<credit, notified, pump, amount, drain, holding, opening>>
    BY <1>11 DEF AcceptData, sendVars
  <2>2. open' \in [Ends -> BOOLEAN] /\ inbound' \in [Ends -> Seq(FrameRow)]
    BY <1>9, <1>11 DEF AcceptData
  <2>3. window[e] - f.bytes \in Nat /\ Weight(f, "data") = f.bytes
    BY <1>5, <1>11 DEF Weight
  <2>4. window' \in [Ends -> Nat] /\ window'[e] = window[e] - f.bytes /\ window'[p] = window[p]
    BY <1>4, <2>1, <2>3 DEF StreamsTypeOK
  <2>5. StreamsTypeOK'
    BY <1>3, <1>4, <2>1, <2>2, <2>4 DEF StreamsTypeOK, Ends, Pumping, Draining, FrameRow
  <2>6. Held(e)' = Held(e) /\ Owed(e)' = Owed(e)
    BY <1>3, <2>1 DEF Held, Owed
  <2>7. Held(e)' <= Held(e) + Promise(f) /\ Owed(e)' <= Owed(e) /\ window[e] <= window'[e] + Weight(f, "data")
    BY <1>5, <2>3, <2>4, <2>6
  <2> QED BY <1>1, <1>3, <1>4, <1>6, <2>1, <2>4, <2>5, <2>7, LateReceive
<1>12. CASE f.kind = "open_ok" /\ AcceptOpenOk(e, f)
  <2>1. /\ opening' = "done" /\ pump' = [pump EXCEPT ![e] = "read"] /\ drain' = [drain EXCEPT ![e] = "receive"]
        /\ credit' = [credit EXCEPT ![e] = credit[e] + f.bytes]
        /\ UNCHANGED <<open, notified, amount, window, inbound, holding>>
    BY <1>12 DEF AcceptOpenOk, StartPumps
  <2>2. /\ pump' \in [Ends -> Pumping] /\ pump'[e] = "read" /\ pump'[p] = pump[p]
        /\ drain' \in [Ends -> Draining] /\ drain'[e] = "receive" /\ drain'[p] = drain[p]
    BY <1>4, <2>1 DEF StreamsTypeOK, Pumping, Draining
  <2>3. credit[e] + f.bytes \in Nat
    BY <1>5
  <2>4. credit' \in [Ends -> Nat] /\ credit'[e] = credit[e] + f.bytes /\ credit'[p] = credit[p]
    BY <1>4, <2>1, <2>3 DEF StreamsTypeOK
  <2>5. StreamsTypeOK'
    BY <1>3, <1>4, <2>1, <2>2, <2>4 DEF StreamsTypeOK, Ends, Pumping, Draining, FrameRow
  <2>6. Promise(f) = f.bytes
    BY <1>12 DEF Promise
  <2>7. Held(e)' <= Held(e) + Promise(f)
    <3>1. PICK k : k = IF pump[e] = "send" THEN amount[e] ELSE 0
      OBVIOUS
    <3>2. k \in Nat /\ Held(e) = credit[e] + k + DataIn(wire[e])
      BY <1>5, <3>1 DEF Held
    <3>3. Held(e)' = credit[e] + f.bytes + 0 + DataIn(wire[e])
      BY <1>3, <2>2, <2>4 DEF Held
    <3> QED BY <1>5, <2>6, <3>2, <3>3
  <2>8. Owed(e)' <= Owed(e)
    BY <1>3, <1>5, <2>1, <2>2 DEF Owed
  <2>9. window[e] <= window'[e] + Weight(f, "data")
    BY <1>5, <2>1
  <2> QED BY <1>1, <1>3, <1>4, <2>1, <2>2, <2>4, <2>5, <2>7, <2>8, <2>9, LateReceive
<1>13. CASE f.kind = "window_update" /\ AcceptUpdate(e, f)
  <2>1. PICK b : b = (notified[e] \/ pump[e] \in {"check", "poll", "wait"})
    OBVIOUS
  <2>2. /\ credit' = [credit EXCEPT ![e] = credit[e] + f.bytes] /\ notified' = [notified EXCEPT ![e] = b]
        /\ UNCHANGED <<open, pump, amount, window, inbound, drain, holding, opening>>
    BY <1>13, <2>1 DEF AcceptUpdate, AddCredit, receiveVars
  <2>3. credit[e] + f.bytes \in Nat /\ b \in BOOLEAN
    <3>1. notified[e] \in BOOLEAN
      BY <1>4 DEF StreamsTypeOK
    <3>2. b \in BOOLEAN
      BY <2>1, <3>1
    <3>3. credit[e] + f.bytes \in Nat
      BY <1>5
    <3> QED BY <3>2, <3>3
  <2>4. /\ credit' \in [Ends -> Nat] /\ credit'[e] = credit[e] + f.bytes /\ credit'[p] = credit[p]
        /\ notified' \in [Ends -> BOOLEAN] /\ notified'[e] = b /\ notified'[p] = notified[p]
    BY <1>4, <2>2, <2>3 DEF StreamsTypeOK
  <2>5. StreamsTypeOK'
    BY <1>3, <1>4, <2>2, <2>4 DEF StreamsTypeOK, Ends, Pumping, Draining, FrameRow
  <2>6. Promise(f) = f.bytes
    BY <1>13 DEF Promise
  <2>7. Held(e)' <= Held(e) + Promise(f)
    <3>1. PICK k : k = IF pump[e] = "send" THEN amount[e] ELSE 0
      OBVIOUS
    <3>2. k \in Nat /\ Held(e) = credit[e] + k + DataIn(wire[e])
      BY <1>5, <3>1 DEF Held
    <3>3. Held(e)' = credit[e] + f.bytes + k + DataIn(wire[e])
      BY <1>3, <2>2, <2>4, <3>1 DEF Held
    <3> QED BY <1>5, <2>6, <3>2, <3>3
  <2>8. Owed(e)' <= Owed(e) /\ window[e] <= window'[e] + Weight(f, "data")
    BY <1>3, <1>5, <2>2 DEF Owed
  <2>9. pump'[e] \in {"poll", "wait"} /\ ~ notified'[e] => credit'[e] < amount'[e]
    BY <2>1, <2>2, <2>4
  <2> QED BY <1>1, <1>3, <1>4, <2>2, <2>4, <2>5, <2>7, <2>8, <2>9, LateReceive
<1> QED BY <1>2, <1>3, <1>8, <1>10, <1>11, <1>12, <1>13 DEF Receive

\* Flow control: whatever order the frames, the pumps and the ends of a stream come in,
\* data under way always fits the window of the end it goes to, and a pump that waits for
\* credit has not been passed over (flow.rs, the pumps of relay.rs and node.rs).
THEOREM FlowControlled == StreamsSpec => []FlowIsControlled
<1>1. StreamsInit => StreamsInv
  <2> SUFFICES ASSUME StreamsInit PROVE StreamsInv
    OBVIOUS
  <2>1. /\ open = [e \in Ends |-> FALSE] /\ credit = [e \in Ends |-> 0] /\ notified = [e \in Ends |-> FALSE]
        /\ pump = [e \in Ends |-> "off"] /\ amount = [e \in Ends |-> 0] /\ window = [e \in Ends |-> Window]
        /\ inbound = [e \in Ends |-> <<>>] /\ drain = [e \in Ends |-> "off"] /\ holding = [e \in Ends |-> 0]
        /\ wire = [e \in Ends |-> <<>>] /\ opening = "no"
    BY DEF StreamsInit, NothingToSend, NothingReceived
  <2>2. StreamsTypeOK
    BY <2>1, StreamsAssumption, NothingOnWire DEF StreamsTypeOK, Pumping, Draining
  <2>3. \A e \in Ends : Held(e) = 0 /\ Owed(e) = 0 /\ window[e] = Window
    BY <2>1, NothingOnWire DEF Held, Owed
  <2>4. CreditCovered
    BY <2>3, EndsFacts, StreamsAssumption DEF CreditCovered
  <2>5. GrantedOnce
    BY <2>1, EndsFacts, NothingOnWire DEF GrantedOnce, Early
  <2>6. NoLostWakeup
    BY <2>1 DEF NoLostWakeup
  <2> QED BY <2>2, <2>4, <2>5, <2>6 DEF StreamsInv
<1>2. StreamsInv /\ [StreamsNext]_streamsVars => StreamsInv'
  <2> SUFFICES ASSUME StreamsInv, [StreamsNext]_streamsVars PROVE StreamsInv'
    OBVIOUS
  <2>1. CASE UNCHANGED streamsVars
    BY <2>1 DEF streamsVars, StreamsInv, StreamsTypeOK, CreditCovered, GrantedOnce, Early, NoLostWakeup, Held, Owed,
                NoOpen, OpenFrame, Frame, Ends, Peer, Pumping, Draining, FrameRow
  <2>2. ASSUME NEW e \in Ends, PumpStep(e) PROVE StreamsInv'
    BY <2>2, PumpHolds, SendDataHolds, SendFinHolds, SendUpdateHolds, EndStreamHolds, DrainHolds, ReceiveOpenHolds,
       ReceiveLateHolds DEF PumpStep
  <2> QED BY <2>1, <2>2, OpenStreamHolds, LocalHolds, OpenTimeoutHolds DEF StreamsNext
<1>3. StreamsInv => FlowIsControlled
  <2> SUFFICES ASSUME StreamsInv, NEW e \in Ends PROVE Bytes(wire[Peer(e)], "data") <= window[e]
    BY DEF FlowIsControlled, WindowCoversFlight, StreamsInv
  <2>1. PICK p : p = Peer(e)
    OBVIOUS
  <2>2. /\ p \in Ends /\ Held(p) \in Nat /\ Owed(e) \in Nat /\ credit[p] \in Nat /\ amount[p] \in Nat
        /\ DataIn(wire[p]) \in Nat /\ window[e] \in Nat
    BY <2>1, EndsFacts, Numbers DEF StreamsInv
  <2>3. Held(p) + Owed(e) <= window[e]
    BY <2>1 DEF StreamsInv, CreditCovered
  <2>4. DataIn(wire[p]) <= Held(p)
    BY <2>2 DEF Held
  <2>5. DataIn(wire[p]) <= window[e]
    BY <2>2, <2>3, <2>4
  <2> QED BY <2>1, <2>5 DEF DataIn
<1> QED BY <1>1, <1>2, <1>3, PTL DEF StreamsSpec
=============================================================================
