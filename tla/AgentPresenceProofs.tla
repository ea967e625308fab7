------------------------ MODULE AgentPresenceProofs ------------------------
(***************************************************************************)
(* Theorems about AgentPresence, for any number of devices, connections    *)
(* and restarts: the caches keep no entry of a connection that is over,    *)
(* and the database shows no device online that is gone, but for the       *)
(* exceptions the properties name.                                         *)
(***************************************************************************)
EXTENDS AgentPresence, TLAPS

-----------------------------------------------------------------------------
(* What an update of one field does to a record. *)

\* The fields of a connection record have their types, and can be set one by one.
LEMMA ConnectionFields ==
  ASSUME NEW r \in ConnectionRecords
  PROVE  /\ r.phase \in Phases
         /\ r.device \in Devices \cup {None}
         /\ r.announced \in BOOLEAN
         /\ r.known \in BOOLEAN
         /\ r.wasOnline \in BOOLEAN
         /\ \A x \in Phases: [r EXCEPT !.phase = x] \in ConnectionRecords
         /\ \A x \in BOOLEAN: [r EXCEPT !.announced = x] \in ConnectionRecords
         /\ \A x \in BOOLEAN: [r EXCEPT !.known = x] \in ConnectionRecords
         /\ \A x \in Phases, d \in Devices:
              [r EXCEPT !.phase = x, !.device = d] \in ConnectionRecords
         /\ \A x \in Phases, b \in BOOLEAN:
              [r EXCEPT !.phase = x, !.wasOnline = b] \in ConnectionRecords
  BY DEF ConnectionRecords

CallSteps == {"none", "finding", "saving", "setting", "caching", "routing"}

\* The fields of a hub call have their types, and can be set one by one.
LEMMA CallFields ==
  ASSUME NEW r \in Calls
  PROVE  /\ r.step \in CallSteps
         /\ r.cameOnline \in BOOLEAN
         /\ r.wasOnline \in BOOLEAN
         /\ \A x \in CallSteps: [r EXCEPT !.step = x] \in Calls
         /\ \A x \in CallSteps, b \in BOOLEAN:
              [r EXCEPT !.step = x, !.wasOnline = b] \in Calls
         /\ \A x \in CallSteps, b \in BOOLEAN:
              [r EXCEPT !.step = x, !.cameOnline = b] \in Calls
  BY DEF Calls, CallSteps

\* A connection not used yet and a call not made have their types.
LEMMA NoRecords == NoConnection \in ConnectionRecords /\ NoCall \in Calls
  BY DEF NoConnection, ConnectionRecords, Phases, NoCall, Calls

\* The invariant holds when the server starts.
LEMMA InitInvariant == Init => PresenceInvariant
<1> SUFFICES ASSUME Init PROVE PresenceInvariant
  OBVIOUS
<1>1. TypeOK
  BY NoRecords, MaxRestartsAssumption DEF Init, TypeOK, MaxRestartsAssumption
<1>2. ConnectionsHaveDevices
  BY DEF Init, ConnectionsHaveDevices, NoConnection, NoCall
<1>3. InvocationsAreSeen
  BY DEF Init, InvocationsAreSeen, NoConnection, NoCall
<1>4. RoutesHaveEntries /\ OnlineIsTakenBack /\ NoStaleEntries
  BY DEF Init, RoutesHaveEntries, OnlineIsTakenBack, NoStaleEntries
<1> QED BY <1>1, <1>2, <1>3, <1>4 DEF PresenceInvariant

-----------------------------------------------------------------------------
(* Every step keeps every part of the invariant. *)

\* A step keeps the types.
LEMMA TypeStep ==
  ASSUME PresenceInvariant, [Next]_vars PROVE TypeOK'
<1>1. ASSUME NEW d \in Devices, NEW c \in Connections, Connect(d, c) PROVE TypeOK'
  BY <1>1, ConnectionFields, CallFields, NoRecords
     DEF Connect, PresenceInvariant, TypeOK, CallSteps, Phases, DeviceOf, Used, Written
<1>2. ASSUME NEW d \in Devices, ConnectionLost(d) PROVE TypeOK'
  BY <1>2, ConnectionFields, CallFields, NoRecords
     DEF ConnectionLost, PresenceInvariant, TypeOK, CallSteps, Phases, DeviceOf, Used, Written
<1>3. ASSUME NEW d \in Devices, StartHeartbeatTimer(d) PROVE TypeOK'
  BY <1>3, ConnectionFields, CallFields, NoRecords
     DEF StartHeartbeatTimer, PresenceInvariant, TypeOK, CallSteps, Phases, DeviceOf, Used, Written
<1>4. ASSUME NEW c \in Connections, DeviceCameOnline(c) PROVE TypeOK'
  BY <1>4, ConnectionFields, CallFields, NoRecords
     DEF DeviceCameOnline, PresenceInvariant, TypeOK, CallSteps, Phases, DeviceOf, Used, Written
<1>5. ASSUME NEW c \in Connections, DeviceHeartbeat(c) PROVE TypeOK'
  BY <1>5, ConnectionFields, CallFields, NoRecords
     DEF DeviceHeartbeat, PresenceInvariant, TypeOK, CallSteps, Phases, DeviceOf, Used, Written
<1>6. ASSUME NEW c \in Connections, FindDevice(c) PROVE TypeOK'
  <2>1. call[c] \in Calls /\ online[DeviceOf(c)] \in BOOLEAN
    <3>1. DeviceOf(c) \in Devices
      BY <1>6 DEF FindDevice, PresenceInvariant, ConnectionsHaveDevices, DeviceOf
    <3> QED BY <3>1 DEF PresenceInvariant, TypeOK
  <2>2. [call[c] EXCEPT !.step = "saving",
                       !.wasOnline = online[DeviceOf(c)]] \in Calls
    BY <2>1, CallFields DEF CallSteps
  <2> QED BY <1>6, <2>2 DEF FindDevice, PresenceInvariant, TypeOK
<1>7. ASSUME NEW c \in Connections, SaveDevice(c) PROVE TypeOK'
  BY <1>7, ConnectionFields, CallFields, NoRecords
     DEF SaveDevice, PresenceInvariant, TypeOK, CallSteps, Phases, DeviceOf, Used, Written
<1>8. ASSUME NEW c \in Connections, SetDevice(c) PROVE TypeOK'
  BY <1>8, ConnectionFields, CallFields, NoRecords
     DEF SetDevice, PresenceInvariant, TypeOK, CallSteps, Phases, DeviceOf, Used, Written
<1>9. ASSUME NEW c \in Connections, AddByConnectionId(c) PROVE TypeOK'
  BY <1>9, ConnectionFields, CallFields, NoRecords
     DEF AddByConnectionId, PresenceInvariant, TypeOK, CallSteps, Phases, DeviceOf, Used, Written
<1>10. ASSUME NEW c \in Connections, AddByDeviceId(c) PROVE TypeOK'
  BY <1>10, ConnectionFields, CallFields, NoRecords
     DEF AddByDeviceId, PresenceInvariant, TypeOK, CallSteps, Phases, DeviceOf, Used, Written
<1>11. ASSUME NEW c \in Connections, CallFails(c) PROVE TypeOK'
  BY <1>11, ConnectionFields, CallFields, NoRecords
     DEF CallFails, PresenceInvariant, TypeOK, CallSteps, Phases, DeviceOf, Used, Written
<1>12. ASSUME NEW c \in Connections, NoticeDisconnect(c) PROVE TypeOK'
  BY <1>12, ConnectionFields, CallFields, NoRecords
     DEF NoticeDisconnect, PresenceInvariant, TypeOK, CallSteps, Phases, DeviceOf, Used, Written
<1>13. ASSUME NEW c \in Connections, OnDisconnected(c) PROVE TypeOK'
  BY <1>13, ConnectionFields, CallFields, NoRecords
     DEF OnDisconnected, PresenceInvariant, TypeOK, CallSteps, Phases, DeviceOf, Used, Written
<1>14. ASSUME NEW c \in Connections, FindDisconnected(c) PROVE TypeOK'
  <2>1. conn[c] \in ConnectionRecords /\ online[DeviceOf(c)] \in BOOLEAN
    <3>1. DeviceOf(c) \in Devices
      BY <1>14 DEF FindDisconnected, PresenceInvariant, ConnectionsHaveDevices, DeviceOf
    <3> QED BY <3>1 DEF PresenceInvariant, TypeOK
  <2>2. [conn[c] EXCEPT !.phase = "marking",
                       !.wasOnline = online[DeviceOf(c)]] \in ConnectionRecords
    BY <2>1, ConnectionFields DEF Phases
  <2> QED BY <1>14, <2>2 DEF FindDisconnected, PresenceInvariant, TypeOK
<1>15. ASSUME NEW c \in Connections, SaveDisconnected(c) PROVE TypeOK'
  BY <1>15, ConnectionFields, CallFields, NoRecords
     DEF SaveDisconnected, PresenceInvariant, TypeOK, CallSteps, Phases, DeviceOf, Used, Written
<1>16. ASSUME NEW c \in Connections, DisconnectFails(c) PROVE TypeOK'
  BY <1>16, ConnectionFields, CallFields, NoRecords
     DEF DisconnectFails, PresenceInvariant, TypeOK, CallSteps, Phases, DeviceOf, Used, Written
<1>17. ASSUME NEW c \in Connections, RemoveByConnectionId(c) PROVE TypeOK'
  BY <1>17, ConnectionFields, CallFields, NoRecords
     DEF RemoveByConnectionId, PresenceInvariant, TypeOK, CallSteps, Phases, DeviceOf, Used, Written
<1>18. ASSUME NEW c \in Connections, RemoveByDeviceId(c) PROVE TypeOK'
  BY <1>18, ConnectionFields, CallFields, NoRecords
     DEF RemoveByDeviceId, PresenceInvariant, TypeOK, CallSteps, Phases, DeviceOf, Used, Written
<1>19. ASSUME ServerRestarts PROVE TypeOK'
  <2>1. conn' \in [Connections -> ConnectionRecords]
    <3>1. ASSUME NEW c \in Connections
          PROVE  [conn[c] EXCEPT !.phase = "over"] \in ConnectionRecords
      BY ConnectionFields DEF PresenceInvariant, TypeOK, Phases
    <3> QED BY <1>19, <3>1 DEF ServerRestarts, PresenceInvariant, TypeOK
  <2>2. restarts' \in 0 .. MaxRestarts
    BY <1>19, MaxRestartsAssumption
       DEF ServerRestarts, PresenceInvariant, TypeOK, MaxRestartsAssumption
  <2> QED BY <1>19, <2>1, <2>2, NoRecords DEF ServerRestarts, PresenceInvariant, TypeOK
<1>20. ASSUME UNCHANGED <<agent, heartbeats, conn, call, online, byConnection, byDevice, overlapped, unrecorded, restarts>> PROVE TypeOK'
  BY <1>20 DEF PresenceInvariant, TypeOK, CallSteps, Phases, DeviceOf, Used, Written
<1> QED
  BY <1>1, <1>2, <1>3, <1>4, <1>5, <1>6, <1>7, <1>8, <1>9, <1>10, <1>11, <1>12, <1>13, <1>14, <1>15, <1>16, <1>17, <1>18, <1>19, <1>20
     DEF Next, Agents, Invocation, OnDisconnectedAsync, vars

\* A connection at work keeps the device it authenticated as.
LEMMA DevicesStep ==
  ASSUME PresenceInvariant, [Next]_vars PROVE ConnectionsHaveDevices'
<1>1. ASSUME NEW d \in Devices, NEW c \in Connections, Connect(d, c) PROVE ConnectionsHaveDevices'
  BY <1>1, NoneAssumption
     DEF Connect, PresenceInvariant, NoneAssumption, TypeOK, ConnectionsHaveDevices, DeviceOf, Used, NoConnection, NoCall, ConnectionRecords, Calls
<1>2. ASSUME NEW d \in Devices, ConnectionLost(d) PROVE ConnectionsHaveDevices'
  BY <1>2, NoneAssumption
     DEF ConnectionLost, PresenceInvariant, NoneAssumption, TypeOK, ConnectionsHaveDevices, DeviceOf, Used, NoConnection, NoCall, ConnectionRecords, Calls
<1>3. ASSUME NEW c \in Connections, DeviceCameOnline(c) PROVE ConnectionsHaveDevices'
  BY <1>3, NoneAssumption
     DEF DeviceCameOnline, PresenceInvariant, NoneAssumption, TypeOK, ConnectionsHaveDevices, DeviceOf, Used, NoConnection, NoCall, ConnectionRecords, Calls
<1>4. ASSUME NEW c \in Connections, DeviceHeartbeat(c) PROVE ConnectionsHaveDevices'
  BY <1>4, NoneAssumption
     DEF DeviceHeartbeat, PresenceInvariant, NoneAssumption, TypeOK, ConnectionsHaveDevices, DeviceOf, Used, NoConnection, NoCall, ConnectionRecords, Calls
<1>5. ASSUME NEW c \in Connections, FindDevice(c) PROVE ConnectionsHaveDevices'
  BY <1>5, NoneAssumption
     DEF FindDevice, PresenceInvariant, NoneAssumption, TypeOK, ConnectionsHaveDevices, DeviceOf, Used, NoConnection, NoCall, ConnectionRecords, Calls
<1>6. ASSUME NEW c \in Connections, SaveDevice(c) PROVE ConnectionsHaveDevices'
  BY <1>6, NoneAssumption
     DEF SaveDevice, PresenceInvariant, NoneAssumption, TypeOK, ConnectionsHaveDevices, DeviceOf, Used, NoConnection, NoCall, ConnectionRecords, Calls
<1>7. ASSUME NEW c \in Connections, SetDevice(c) PROVE ConnectionsHaveDevices'
  BY <1>7, NoneAssumption
     DEF SetDevice, PresenceInvariant, NoneAssumption, TypeOK, ConnectionsHaveDevices, DeviceOf, Used, NoConnection, NoCall, ConnectionRecords, Calls
<1>8. ASSUME NEW c \in Connections, AddByConnectionId(c) PROVE ConnectionsHaveDevices'
  BY <1>8, NoneAssumption
     DEF AddByConnectionId, PresenceInvariant, NoneAssumption, TypeOK, ConnectionsHaveDevices, DeviceOf, Used, NoConnection, NoCall, ConnectionRecords, Calls
<1>9. ASSUME NEW c \in Connections, AddByDeviceId(c) PROVE ConnectionsHaveDevices'
  BY <1>9, NoneAssumption
     DEF AddByDeviceId, PresenceInvariant, NoneAssumption, TypeOK, ConnectionsHaveDevices, DeviceOf, Used, NoConnection, NoCall, ConnectionRecords, Calls
<1>10. ASSUME NEW c \in Connections, CallFails(c) PROVE ConnectionsHaveDevices'
  BY <1>10, NoneAssumption
     DEF CallFails, PresenceInvariant, NoneAssumption, TypeOK, ConnectionsHaveDevices, DeviceOf, Used, NoConnection, NoCall, ConnectionRecords, Calls
<1>11. ASSUME NEW c \in Connections, NoticeDisconnect(c) PROVE ConnectionsHaveDevices'
  BY <1>11, NoneAssumption
     DEF NoticeDisconnect, PresenceInvariant, NoneAssumption, TypeOK, ConnectionsHaveDevices, DeviceOf, Used, NoConnection, NoCall, ConnectionRecords, Calls
<1>12. ASSUME NEW c \in Connections, OnDisconnected(c) PROVE ConnectionsHaveDevices'
  BY <1>12, NoneAssumption
     DEF OnDisconnected, PresenceInvariant, NoneAssumption, TypeOK, ConnectionsHaveDevices, DeviceOf, Used, NoConnection, NoCall, ConnectionRecords, Calls
<1>13. ASSUME NEW c \in Connections, FindDisconnected(c) PROVE ConnectionsHaveDevices'
  BY <1>13, NoneAssumption
     DEF FindDisconnected, PresenceInvariant, NoneAssumption, TypeOK, ConnectionsHaveDevices, DeviceOf, Used, NoConnection, NoCall, ConnectionRecords, Calls
<1>14. ASSUME NEW c \in Connections, SaveDisconnected(c) PROVE ConnectionsHaveDevices'
  BY <1>14, NoneAssumption
     DEF SaveDisconnected, PresenceInvariant, NoneAssumption, TypeOK, ConnectionsHaveDevices, DeviceOf, Used, NoConnection, NoCall, ConnectionRecords, Calls
<1>15. ASSUME NEW c \in Connections, DisconnectFails(c) PROVE ConnectionsHaveDevices'
  BY <1>15, NoneAssumption
     DEF DisconnectFails, PresenceInvariant, NoneAssumption, TypeOK, ConnectionsHaveDevices, DeviceOf, Used, NoConnection, NoCall, ConnectionRecords, Calls
<1>16. ASSUME NEW c \in Connections, RemoveByConnectionId(c) PROVE ConnectionsHaveDevices'
  BY <1>16, NoneAssumption
     DEF RemoveByConnectionId, PresenceInvariant, NoneAssumption, TypeOK, ConnectionsHaveDevices, DeviceOf, Used, NoConnection, NoCall, ConnectionRecords, Calls
<1>17. ASSUME NEW c \in Connections, RemoveByDeviceId(c) PROVE ConnectionsHaveDevices'
  BY <1>17, NoneAssumption
     DEF RemoveByDeviceId, PresenceInvariant, NoneAssumption, TypeOK, ConnectionsHaveDevices, DeviceOf, Used, NoConnection, NoCall, ConnectionRecords, Calls
<1>18. ASSUME ServerRestarts PROVE ConnectionsHaveDevices'
  BY <1>18, NoneAssumption
     DEF ServerRestarts, PresenceInvariant, NoneAssumption, TypeOK, ConnectionsHaveDevices, DeviceOf, Used, NoConnection, NoCall, ConnectionRecords, Calls
<1>19. ASSUME UNCHANGED <<agent, conn, call, byConnection, byDevice>> PROVE ConnectionsHaveDevices'
  BY <1>19 DEF PresenceInvariant, NoneAssumption, TypeOK, ConnectionsHaveDevices, DeviceOf, Used, NoConnection, NoCall, ConnectionRecords, Calls
<1> QED
  BY <1>1, <1>2, <1>3, <1>4, <1>5, <1>6, <1>7, <1>8, <1>9, <1>10, <1>11, <1>12, <1>13, <1>14, <1>15, <1>16, <1>17, <1>18, <1>19
     DEF Next, Agents, Invocation, OnDisconnectedAsync, vars, StartHeartbeatTimer

\* What an invocation has read or written, its connection goes on remembering.
LEMMA SeenStep ==
  ASSUME PresenceInvariant, [Next]_vars PROVE InvocationsAreSeen'
<1>1. ASSUME NEW d \in Devices, NEW c \in Connections, Connect(d, c) PROVE InvocationsAreSeen'
  BY <1>1
     DEF Connect, PresenceInvariant, TypeOK, ConnectionsHaveDevices, InvocationsAreSeen, NoConnection, NoCall, ConnectionRecords, Calls
<1>2. ASSUME NEW c \in Connections, DeviceCameOnline(c) PROVE InvocationsAreSeen'
  BY <1>2
     DEF DeviceCameOnline, PresenceInvariant, TypeOK, ConnectionsHaveDevices, InvocationsAreSeen, NoConnection, NoCall, ConnectionRecords, Calls
<1>3. ASSUME NEW c \in Connections, DeviceHeartbeat(c) PROVE InvocationsAreSeen'
  BY <1>3
     DEF DeviceHeartbeat, PresenceInvariant, TypeOK, ConnectionsHaveDevices, InvocationsAreSeen, NoConnection, NoCall, ConnectionRecords, Calls
<1>4. ASSUME NEW c \in Connections, FindDevice(c) PROVE InvocationsAreSeen'
  BY <1>4
     DEF FindDevice, PresenceInvariant, TypeOK, ConnectionsHaveDevices, InvocationsAreSeen, NoConnection, NoCall, ConnectionRecords, Calls
<1>5. ASSUME NEW c \in Connections, SaveDevice(c) PROVE InvocationsAreSeen'
  BY <1>5
     DEF SaveDevice, PresenceInvariant, TypeOK, ConnectionsHaveDevices, InvocationsAreSeen, NoConnection, NoCall, ConnectionRecords, Calls
<1>6. ASSUME NEW c \in Connections, SetDevice(c) PROVE InvocationsAreSeen'
  BY <1>6
     DEF SetDevice, PresenceInvariant, TypeOK, ConnectionsHaveDevices, InvocationsAreSeen, NoConnection, NoCall, ConnectionRecords, Calls
<1>7. ASSUME NEW c \in Connections, AddByConnectionId(c) PROVE InvocationsAreSeen'
  BY <1>7
     DEF AddByConnectionId, PresenceInvariant, TypeOK, ConnectionsHaveDevices, InvocationsAreSeen, NoConnection, NoCall, ConnectionRecords, Calls
<1>8. ASSUME NEW c \in Connections, AddByDeviceId(c) PROVE InvocationsAreSeen'
  BY <1>8
     DEF AddByDeviceId, PresenceInvariant, TypeOK, ConnectionsHaveDevices, InvocationsAreSeen, NoConnection, NoCall, ConnectionRecords, Calls
<1>9. ASSUME NEW c \in Connections, CallFails(c) PROVE InvocationsAreSeen'
  BY <1>9
     DEF CallFails, PresenceInvariant, TypeOK, ConnectionsHaveDevices, InvocationsAreSeen, NoConnection, NoCall, ConnectionRecords, Calls
<1>10. ASSUME NEW c \in Connections, NoticeDisconnect(c) PROVE InvocationsAreSeen'
  BY <1>10
     DEF NoticeDisconnect, PresenceInvariant, TypeOK, ConnectionsHaveDevices, InvocationsAreSeen, NoConnection, NoCall, ConnectionRecords, Calls
<1>11. ASSUME NEW c \in Connections, OnDisconnected(c) PROVE InvocationsAreSeen'
  BY <1>11
     DEF OnDisconnected, PresenceInvariant, TypeOK, ConnectionsHaveDevices, InvocationsAreSeen, NoConnection, NoCall, ConnectionRecords, Calls
<1>12. ASSUME NEW c \in Connections, FindDisconnected(c) PROVE InvocationsAreSeen'
  BY <1>12
     DEF FindDisconnected, PresenceInvariant, TypeOK, ConnectionsHaveDevices, InvocationsAreSeen, NoConnection, NoCall, ConnectionRecords, Calls
<1>13. ASSUME NEW c \in Connections, SaveDisconnected(c) PROVE InvocationsAreSeen'
  BY <1>13
     DEF SaveDisconnected, PresenceInvariant, TypeOK, ConnectionsHaveDevices, InvocationsAreSeen, NoConnection, NoCall, ConnectionRecords, Calls
<1>14. ASSUME NEW c \in Connections, DisconnectFails(c) PROVE InvocationsAreSeen'
  BY <1>14
     DEF DisconnectFails, PresenceInvariant, TypeOK, ConnectionsHaveDevices, InvocationsAreSeen, NoConnection, NoCall, ConnectionRecords, Calls
<1>15. ASSUME NEW c \in Connections, RemoveByConnectionId(c) PROVE InvocationsAreSeen'
  BY <1>15
     DEF RemoveByConnectionId, PresenceInvariant, TypeOK, ConnectionsHaveDevices, InvocationsAreSeen, NoConnection, NoCall, ConnectionRecords, Calls
<1>16. ASSUME NEW c \in Connections, RemoveByDeviceId(c) PROVE InvocationsAreSeen'
  BY <1>16
     DEF RemoveByDeviceId, PresenceInvariant, TypeOK, ConnectionsHaveDevices, InvocationsAreSeen, NoConnection, NoCall, ConnectionRecords, Calls
<1>17. ASSUME ServerRestarts PROVE InvocationsAreSeen'
  BY <1>17
     DEF ServerRestarts, PresenceInvariant, TypeOK, ConnectionsHaveDevices, InvocationsAreSeen, NoConnection, NoCall, ConnectionRecords, Calls
<1>18. ASSUME UNCHANGED <<conn, call, byConnection, overlapped>> PROVE InvocationsAreSeen'
  BY <1>18 DEF PresenceInvariant, TypeOK, ConnectionsHaveDevices, InvocationsAreSeen, NoConnection, NoCall, ConnectionRecords, Calls
<1> QED
  BY <1>1, <1>2, <1>3, <1>4, <1>5, <1>6, <1>7, <1>8, <1>9, <1>10, <1>11, <1>12, <1>13, <1>14, <1>15, <1>16, <1>17, <1>18
     DEF Next, Agents, Invocation, OnDisconnectedAsync, vars, ConnectionLost, StartHeartbeatTimer

\* A cached route goes on having the connection it leads to.
LEMMA RoutesStep ==
  ASSUME PresenceInvariant, [Next]_vars PROVE RoutesHaveEntries'
<1>1. ASSUME NEW d \in Devices, NEW c \in Connections, Connect(d, c) PROVE RoutesHaveEntries'
  BY <1>1, NoneAssumption
     DEF Connect, PresenceInvariant, NoneAssumption, TypeOK, ConnectionsHaveDevices, InvocationsAreSeen, RoutesHaveEntries, DeviceOf, NoConnection, ConnectionRecords, Calls
<1>2. ASSUME NEW c \in Connections, DeviceCameOnline(c) PROVE RoutesHaveEntries'
  BY <1>2, NoneAssumption
     DEF DeviceCameOnline, PresenceInvariant, NoneAssumption, TypeOK, ConnectionsHaveDevices, InvocationsAreSeen, RoutesHaveEntries, DeviceOf, NoConnection, ConnectionRecords, Calls
<1>3. ASSUME NEW c \in Connections, SetDevice(c) PROVE RoutesHaveEntries'
  BY <1>3, NoneAssumption
     DEF SetDevice, PresenceInvariant, NoneAssumption, TypeOK, ConnectionsHaveDevices, InvocationsAreSeen, RoutesHaveEntries, DeviceOf, NoConnection, ConnectionRecords, Calls
<1>4. ASSUME NEW c \in Connections, AddByConnectionId(c) PROVE RoutesHaveEntries'
  BY <1>4, NoneAssumption
     DEF AddByConnectionId, PresenceInvariant, NoneAssumption, TypeOK, ConnectionsHaveDevices, InvocationsAreSeen, RoutesHaveEntries, DeviceOf, NoConnection, ConnectionRecords, Calls
<1>5. ASSUME NEW c \in Connections, AddByDeviceId(c) PROVE RoutesHaveEntries'
  BY <1>5, NoneAssumption
     DEF AddByDeviceId, PresenceInvariant, NoneAssumption, TypeOK, ConnectionsHaveDevices, InvocationsAreSeen, RoutesHaveEntries, DeviceOf, NoConnection, ConnectionRecords, Calls
<1>6. ASSUME NEW c \in Connections, NoticeDisconnect(c) PROVE RoutesHaveEntries'
  BY <1>6, NoneAssumption
     DEF NoticeDisconnect, PresenceInvariant, NoneAssumption, TypeOK, ConnectionsHaveDevices, InvocationsAreSeen, RoutesHaveEntries, DeviceOf, NoConnection, ConnectionRecords, Calls
<1>7. ASSUME NEW c \in Connections, OnDisconnected(c) PROVE RoutesHaveEntries'
  BY <1>7, NoneAssumption
     DEF OnDisconnected, PresenceInvariant, NoneAssumption, TypeOK, ConnectionsHaveDevices, InvocationsAreSeen, RoutesHaveEntries, DeviceOf, NoConnection, ConnectionRecords, Calls
<1>8. ASSUME NEW c \in Connections, FindDisconnected(c) PROVE RoutesHaveEntries'
  BY <1>8, NoneAssumption
     DEF FindDisconnected, PresenceInvariant, NoneAssumption, TypeOK, ConnectionsHaveDevices, InvocationsAreSeen, RoutesHaveEntries, DeviceOf, NoConnection, ConnectionRecords, Calls
<1>9. ASSUME NEW c \in Connections, SaveDisconnected(c) PROVE RoutesHaveEntries'
  BY <1>9, NoneAssumption
     DEF SaveDisconnected, PresenceInvariant, NoneAssumption, TypeOK, ConnectionsHaveDevices, InvocationsAreSeen, RoutesHaveEntries, DeviceOf, NoConnection, ConnectionRecords, Calls
<1>10. ASSUME NEW c \in Connections, DisconnectFails(c) PROVE RoutesHaveEntries'
  BY <1>10, NoneAssumption
     DEF DisconnectFails, PresenceInvariant, NoneAssumption, TypeOK, ConnectionsHaveDevices, InvocationsAreSeen, RoutesHaveEntries, DeviceOf, NoConnection, ConnectionRecords, Calls
<1>11. ASSUME NEW c \in Connections, RemoveByConnectionId(c) PROVE RoutesHaveEntries'
  BY <1>11, NoneAssumption
     DEF RemoveByConnectionId, PresenceInvariant, NoneAssumption, TypeOK, ConnectionsHaveDevices, InvocationsAreSeen, RoutesHaveEntries, DeviceOf, NoConnection, ConnectionRecords, Calls
<1>12. ASSUME NEW c \in Connections, RemoveByDeviceId(c) PROVE RoutesHaveEntries'
  BY <1>12, NoneAssumption
     DEF RemoveByDeviceId, PresenceInvariant, NoneAssumption, TypeOK, ConnectionsHaveDevices, InvocationsAreSeen, RoutesHaveEntries, DeviceOf, NoConnection, ConnectionRecords, Calls
<1>13. ASSUME ServerRestarts PROVE RoutesHaveEntries'
  BY <1>13, NoneAssumption
     DEF ServerRestarts, PresenceInvariant, NoneAssumption, TypeOK, ConnectionsHaveDevices, InvocationsAreSeen, RoutesHaveEntries, DeviceOf, NoConnection, ConnectionRecords, Calls
<1>14. ASSUME UNCHANGED <<conn, byConnection, byDevice, overlapped>> PROVE RoutesHaveEntries'
  BY <1>14 DEF PresenceInvariant, NoneAssumption, TypeOK, ConnectionsHaveDevices, InvocationsAreSeen, RoutesHaveEntries, DeviceOf, NoConnection, ConnectionRecords, Calls
<1> QED
  BY <1>1, <1>2, <1>3, <1>4, <1>5, <1>6, <1>7, <1>8, <1>9, <1>10, <1>11, <1>12, <1>13, <1>14
     DEF Next, Agents, Invocation, OnDisconnectedAsync, vars, ConnectionLost, StartHeartbeatTimer, DeviceHeartbeat, FindDevice, SaveDevice, CallFails

\* A device said to be online goes on having a connection that takes it back.
LEMMA OnlineStep ==
  ASSUME PresenceInvariant, [Next]_vars PROVE OnlineIsTakenBack'
<1>1. ASSUME NEW d \in Devices, NEW c \in Connections, Connect(d, c) PROVE OnlineIsTakenBack'
  BY <1>1, NoneAssumption
     DEF Connect, PresenceInvariant, NoneAssumption, TypeOK, ConnectionsHaveDevices, InvocationsAreSeen, OnlineIsTakenBack, WillTakeBack, DeviceOf, Written, NoConnection, NoCall, ConnectionRecords, Calls
<1>2. ASSUME NEW c \in Connections, DeviceCameOnline(c) PROVE OnlineIsTakenBack'
  BY <1>2, NoneAssumption
     DEF DeviceCameOnline, PresenceInvariant, NoneAssumption, TypeOK, ConnectionsHaveDevices, InvocationsAreSeen, OnlineIsTakenBack, WillTakeBack, DeviceOf, Written, NoConnection, NoCall, ConnectionRecords, Calls
<1>3. ASSUME NEW c \in Connections, DeviceHeartbeat(c) PROVE OnlineIsTakenBack'
  BY <1>3, NoneAssumption
     DEF DeviceHeartbeat, PresenceInvariant, NoneAssumption, TypeOK, ConnectionsHaveDevices, InvocationsAreSeen, OnlineIsTakenBack, WillTakeBack, DeviceOf, Written, NoConnection, NoCall, ConnectionRecords, Calls
<1>4. ASSUME NEW c \in Connections, FindDevice(c) PROVE OnlineIsTakenBack'
  BY <1>4, NoneAssumption
     DEF FindDevice, PresenceInvariant, NoneAssumption, TypeOK, ConnectionsHaveDevices, InvocationsAreSeen, OnlineIsTakenBack, WillTakeBack, DeviceOf, Written, NoConnection, NoCall, ConnectionRecords, Calls
<1>5. ASSUME NEW c \in Connections, SaveDevice(c) PROVE OnlineIsTakenBack'
  BY <1>5, NoneAssumption
     DEF SaveDevice, PresenceInvariant, NoneAssumption, TypeOK, ConnectionsHaveDevices, InvocationsAreSeen, OnlineIsTakenBack, WillTakeBack, DeviceOf, Written, NoConnection, NoCall, ConnectionRecords, Calls
<1>6. ASSUME NEW c \in Connections, SetDevice(c) PROVE OnlineIsTakenBack'
  BY <1>6, NoneAssumption
     DEF SetDevice, PresenceInvariant, NoneAssumption, TypeOK, ConnectionsHaveDevices, InvocationsAreSeen, OnlineIsTakenBack, WillTakeBack, DeviceOf, Written, NoConnection, NoCall, ConnectionRecords, Calls
<1>7. ASSUME NEW c \in Connections, AddByConnectionId(c) PROVE OnlineIsTakenBack'
  BY <1>7, NoneAssumption
     DEF AddByConnectionId, PresenceInvariant, NoneAssumption, TypeOK, ConnectionsHaveDevices, InvocationsAreSeen, OnlineIsTakenBack, WillTakeBack, DeviceOf, Written, NoConnection, NoCall, ConnectionRecords, Calls
<1>8. ASSUME NEW c \in Connections, AddByDeviceId(c) PROVE OnlineIsTakenBack'
  BY <1>8, NoneAssumption
     DEF AddByDeviceId, PresenceInvariant, NoneAssumption, TypeOK, ConnectionsHaveDevices, InvocationsAreSeen, OnlineIsTakenBack, WillTakeBack, DeviceOf, Written, NoConnection, NoCall, ConnectionRecords, Calls
<1>9. ASSUME NEW c \in Connections, CallFails(c) PROVE OnlineIsTakenBack'
  BY <1>9, NoneAssumption
     DEF CallFails, PresenceInvariant, NoneAssumption, TypeOK, ConnectionsHaveDevices, InvocationsAreSeen, OnlineIsTakenBack, WillTakeBack, DeviceOf, Written, NoConnection, NoCall, ConnectionRecords, Calls
<1>10. ASSUME NEW c \in Connections, NoticeDisconnect(c) PROVE OnlineIsTakenBack'
  BY <1>10, NoneAssumption
     DEF NoticeDisconnect, PresenceInvariant, NoneAssumption, TypeOK, ConnectionsHaveDevices, InvocationsAreSeen, OnlineIsTakenBack, WillTakeBack, DeviceOf, Written, NoConnection, NoCall, ConnectionRecords, Calls
<1>11. ASSUME NEW c \in Connections, OnDisconnected(c) PROVE OnlineIsTakenBack'
  <2> SUFFICES ASSUME NEW d \in Devices, online[d]
               PROVE  \E e \in Connections: conn'[e].device = d /\ WillTakeBack(e)'
    BY <1>11 DEF OnDisconnected, OnlineIsTakenBack
  <2>1. PICK e \in Connections: conn[e].device = d /\ WillTakeBack(e)
    BY DEF PresenceInvariant, OnlineIsTakenBack
  <2>2. conn'[e].device = d
    BY <1>11, <2>1 DEF OnDisconnected, PresenceInvariant, TypeOK
  <2>3. CASE e = c
    BY <1>11, <2>1, <2>3
       DEF OnDisconnected, WillTakeBack, PresenceInvariant, TypeOK, ConnectionRecords
  <2>4. CASE e # c
    BY <1>11, <2>1, <2>4
       DEF OnDisconnected, WillTakeBack, PresenceInvariant, TypeOK
  <2> QED BY <2>2, <2>3, <2>4
<1>12. ASSUME NEW c \in Connections, FindDisconnected(c) PROVE OnlineIsTakenBack'
  BY <1>12, NoneAssumption
     DEF FindDisconnected, PresenceInvariant, NoneAssumption, TypeOK, ConnectionsHaveDevices, InvocationsAreSeen, OnlineIsTakenBack, WillTakeBack, DeviceOf, Written, NoConnection, NoCall, ConnectionRecords, Calls
<1>13. ASSUME NEW c \in Connections, SaveDisconnected(c) PROVE OnlineIsTakenBack'
  BY <1>13, NoneAssumption
     DEF SaveDisconnected, PresenceInvariant, NoneAssumption, TypeOK, ConnectionsHaveDevices, InvocationsAreSeen, OnlineIsTakenBack, WillTakeBack, DeviceOf, Written, NoConnection, NoCall, ConnectionRecords, Calls
<1>14. ASSUME NEW c \in Connections, DisconnectFails(c) PROVE OnlineIsTakenBack'
  BY <1>14, NoneAssumption
     DEF DisconnectFails, PresenceInvariant, NoneAssumption, TypeOK, ConnectionsHaveDevices, InvocationsAreSeen, OnlineIsTakenBack, WillTakeBack, DeviceOf, Written, NoConnection, NoCall, ConnectionRecords, Calls
<1>15. ASSUME NEW c \in Connections, RemoveByConnectionId(c) PROVE OnlineIsTakenBack'
  BY <1>15, NoneAssumption
     DEF RemoveByConnectionId, PresenceInvariant, NoneAssumption, TypeOK, ConnectionsHaveDevices, InvocationsAreSeen, OnlineIsTakenBack, WillTakeBack, DeviceOf, Written, NoConnection, NoCall, ConnectionRecords, Calls
<1>16. ASSUME NEW c \in Connections, RemoveByDeviceId(c) PROVE OnlineIsTakenBack'
  BY <1>16, NoneAssumption
     DEF RemoveByDeviceId, PresenceInvariant, NoneAssumption, TypeOK, ConnectionsHaveDevices, InvocationsAreSeen, OnlineIsTakenBack, WillTakeBack, DeviceOf, Written, NoConnection, NoCall, ConnectionRecords, Calls
<1>17. ASSUME ServerRestarts PROVE OnlineIsTakenBack'
  BY <1>17, NoneAssumption
     DEF ServerRestarts, PresenceInvariant, NoneAssumption, TypeOK, ConnectionsHaveDevices, InvocationsAreSeen, OnlineIsTakenBack, WillTakeBack, DeviceOf, Written, NoConnection, NoCall, ConnectionRecords, Calls
<1>18. ASSUME UNCHANGED <<conn, call, online, overlapped, unrecorded>> PROVE OnlineIsTakenBack'
  BY <1>18 DEF PresenceInvariant, NoneAssumption, TypeOK, ConnectionsHaveDevices, InvocationsAreSeen, OnlineIsTakenBack, WillTakeBack, DeviceOf, Written, NoConnection, NoCall, ConnectionRecords, Calls
<1> QED
  BY <1>1, <1>2, <1>3, <1>4, <1>5, <1>6, <1>7, <1>8, <1>9, <1>10, <1>11, <1>12, <1>13, <1>14, <1>15, <1>16, <1>17, <1>18
     DEF Next, Agents, Invocation, OnDisconnectedAsync, vars, ConnectionLost, StartHeartbeatTimer

\* A connection that has ended leaves no entry in the cache.
LEMMA StaleStep ==
  ASSUME PresenceInvariant, [Next]_vars PROVE NoStaleEntries'
<1>1. ASSUME NEW d \in Devices, NEW c \in Connections, Connect(d, c) PROVE NoStaleEntries'
  BY <1>1, NoneAssumption
     DEF Connect, PresenceInvariant, NoneAssumption, TypeOK, ConnectionsHaveDevices, InvocationsAreSeen, RoutesHaveEntries, NoStaleEntries, DeviceOf, NoConnection, ConnectionRecords, Calls
<1>2. ASSUME NEW c \in Connections, DeviceCameOnline(c) PROVE NoStaleEntries'
  BY <1>2, NoneAssumption
     DEF DeviceCameOnline, PresenceInvariant, NoneAssumption, TypeOK, ConnectionsHaveDevices, InvocationsAreSeen, RoutesHaveEntries, NoStaleEntries, DeviceOf, NoConnection, ConnectionRecords, Calls
<1>3. ASSUME NEW c \in Connections, SetDevice(c) PROVE NoStaleEntries'
  BY <1>3, NoneAssumption
     DEF SetDevice, PresenceInvariant, NoneAssumption, TypeOK, ConnectionsHaveDevices, InvocationsAreSeen, RoutesHaveEntries, NoStaleEntries, DeviceOf, NoConnection, ConnectionRecords, Calls
<1>4. ASSUME NEW c \in Connections, AddByConnectionId(c) PROVE NoStaleEntries'
  BY <1>4, NoneAssumption
     DEF AddByConnectionId, PresenceInvariant, NoneAssumption, TypeOK, ConnectionsHaveDevices, InvocationsAreSeen, RoutesHaveEntries, NoStaleEntries, DeviceOf, NoConnection, ConnectionRecords, Calls
<1>5. ASSUME NEW c \in Connections, AddByDeviceId(c) PROVE NoStaleEntries'
  BY <1>5, NoneAssumption
     DEF AddByDeviceId, PresenceInvariant, NoneAssumption, TypeOK, ConnectionsHaveDevices, InvocationsAreSeen, RoutesHaveEntries, NoStaleEntries, DeviceOf, NoConnection, ConnectionRecords, Calls
<1>6. ASSUME NEW c \in Connections, NoticeDisconnect(c) PROVE NoStaleEntries'
  BY <1>6, NoneAssumption
     DEF NoticeDisconnect, PresenceInvariant, NoneAssumption, TypeOK, ConnectionsHaveDevices, InvocationsAreSeen, RoutesHaveEntries, NoStaleEntries, DeviceOf, NoConnection, ConnectionRecords, Calls
<1>7. ASSUME NEW c \in Connections, OnDisconnected(c) PROVE NoStaleEntries'
  BY <1>7, NoneAssumption
     DEF OnDisconnected, PresenceInvariant, NoneAssumption, TypeOK, ConnectionsHaveDevices, InvocationsAreSeen, RoutesHaveEntries, NoStaleEntries, DeviceOf, NoConnection, ConnectionRecords, Calls
<1>8. ASSUME NEW c \in Connections, FindDisconnected(c) PROVE NoStaleEntries'
  BY <1>8, NoneAssumption
     DEF FindDisconnected, PresenceInvariant, NoneAssumption, TypeOK, ConnectionsHaveDevices, InvocationsAreSeen, RoutesHaveEntries, NoStaleEntries, DeviceOf, NoConnection, ConnectionRecords, Calls
<1>9. ASSUME NEW c \in Connections, SaveDisconnected(c) PROVE NoStaleEntries'
  BY <1>9, NoneAssumption
     DEF SaveDisconnected, PresenceInvariant, NoneAssumption, TypeOK, ConnectionsHaveDevices, InvocationsAreSeen, RoutesHaveEntries, NoStaleEntries, DeviceOf, NoConnection, ConnectionRecords, Calls
<1>10. ASSUME NEW c \in Connections, DisconnectFails(c) PROVE NoStaleEntries'
  BY <1>10, NoneAssumption
     DEF DisconnectFails, PresenceInvariant, NoneAssumption, TypeOK, ConnectionsHaveDevices, InvocationsAreSeen, RoutesHaveEntries, NoStaleEntries, DeviceOf, NoConnection, ConnectionRecords, Calls
<1>11. ASSUME NEW c \in Connections, RemoveByConnectionId(c) PROVE NoStaleEntries'
  BY <1>11, NoneAssumption
     DEF RemoveByConnectionId, PresenceInvariant, NoneAssumption, TypeOK, ConnectionsHaveDevices, InvocationsAreSeen, RoutesHaveEntries, NoStaleEntries, DeviceOf, NoConnection, ConnectionRecords, Calls
<1>12. ASSUME NEW c \in Connections, RemoveByDeviceId(c) PROVE NoStaleEntries'
  BY <1>12, NoneAssumption
     DEF RemoveByDeviceId, PresenceInvariant, NoneAssumption, TypeOK, ConnectionsHaveDevices, InvocationsAreSeen, RoutesHaveEntries, NoStaleEntries, DeviceOf, NoConnection, ConnectionRecords, Calls
<1>13. ASSUME ServerRestarts PROVE NoStaleEntries'
  BY <1>13, NoneAssumption
     DEF ServerRestarts, PresenceInvariant, NoneAssumption, TypeOK, ConnectionsHaveDevices, InvocationsAreSeen, RoutesHaveEntries, NoStaleEntries, DeviceOf, NoConnection, ConnectionRecords, Calls
<1>14. ASSUME UNCHANGED <<conn, byConnection, byDevice, overlapped>> PROVE NoStaleEntries'
  BY <1>14 DEF PresenceInvariant, NoneAssumption, TypeOK, ConnectionsHaveDevices, InvocationsAreSeen, RoutesHaveEntries, NoStaleEntries, DeviceOf, NoConnection, ConnectionRecords, Calls
<1> QED
  BY <1>1, <1>2, <1>3, <1>4, <1>5, <1>6, <1>7, <1>8, <1>9, <1>10, <1>11, <1>12, <1>13, <1>14
     DEF Next, Agents, Invocation, OnDisconnectedAsync, vars, ConnectionLost, StartHeartbeatTimer, DeviceHeartbeat, FindDevice, SaveDevice, CallFails

\* The invariant is inductive: every step, and a stutter, keeps all its parts.
LEMMA NextKeepsInvariant ==
  PresenceInvariant /\ [Next]_vars => PresenceInvariant'
<1> SUFFICES ASSUME PresenceInvariant, [Next]_vars PROVE PresenceInvariant'
  OBVIOUS
<1> QED BY TypeStep, DevicesStep, SeenStep, RoutesStep, OnlineStep, StaleStep
           DEF PresenceInvariant

(* What holds of presence together is an invariant: the types, what belongs *)
(* to what, and who will take back which entry.                             *)
THEOREM PresenceIsConsistent == Spec => []PresenceInvariant
<1> QED BY InitInvariant, NextKeepsInvariant, PTL DEF Spec

(* Neither dictionary of AgentHubSessionCache keeps an entry of a connection *)
(* whose OnDisconnectedAsync is done, unless it ran beside an invocation.    *)
THEOREM CacheForgetsEndedConnections == Spec => []NoStaleEntries
<1>1. PresenceInvariant => NoStaleEntries
  BY DEF PresenceInvariant
<1> QED BY <1>1, PresenceIsConsistent, PTL

(* A device without connections is not online in the database, unless the   *)
(* end of one of them overlapped with an invocation or could not be saved.  *)
THEOREM GoneDevicesAreOffline == Spec => []OfflineWhenGone
<1>1. PresenceInvariant => OfflineWhenGone
  <2> SUFFICES ASSUME PresenceInvariant, NEW d \in Devices, Gone(d), online[d]
               PROVE  \E c \in overlapped \cup unrecorded: conn[c].device = d
    BY DEF OfflineWhenGone
  <2>1. PICK c \in Connections: conn[c].device = d /\ WillTakeBack(c)
    BY DEF PresenceInvariant, OnlineIsTakenBack
  <2>2. conn[c].phase = "over"
    BY <2>1 DEF Gone
  <2>3. c \in overlapped \cup unrecorded
    BY <2>1, <2>2 DEF WillTakeBack, PresenceInvariant, InvocationsAreSeen
  <2> QED BY <2>1, <2>3
<1> QED BY <1>1, PresenceIsConsistent, PTL
=============================================================================
