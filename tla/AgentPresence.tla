---------------------------- MODULE AgentPresence ----------------------------
(***************************************************************************)
(* How the server knows which devices are online and how to reach them:    *)
(* AgentHub's handlers for an agent that connects, sends heartbeats and    *)
(* loses its connection, the two dictionaries of AgentHubSessionCache and  *)
(* the IsOnline column of the database.                                    *)
(*                                                                         *)
(* A step is one access to shared state: a query or an update of the       *)
(* database, one operation on a dictionary.  Handlers of different         *)
(* connections interleave between any two of them, and so do an invocation *)
(* and the OnDisconnectedAsync of the same connection, which does not wait *)
(* for an invocation that awaits the database.                             *)
(***************************************************************************)
EXTENDS Naturals, FiniteSets

CONSTANTS
    Devices,
    Connections,   \* connections of agents to AgentHub; an id is never reused
    MaxRestarts,   \* bound on restarts of the server
    None

ASSUME NoneAssumption == None \notin Devices /\ None \notin Connections
ASSUME MaxRestartsAssumption == MaxRestarts \in Nat

VARIABLES
    agent,         \* the connection each device's agent uses
    heartbeats,    \* the devices whose agent has started its heartbeat timer
    conn,          \* each connection as the server sees it
    call,          \* the invocation in progress on each connection
    online,        \* Device.IsOnline in the database
    byConnection,  \* _connectionIdToDeviceLookup: the connections with an entry
    byDevice,      \* _deviceIdToConnectionIdLookup
    overlapped,    \* history: OnDisconnectedAsync ran beside an invocation
    unrecorded,    \* history: DeviceDisconnected failed
    restarts

vars == <<agent, heartbeats, conn, call, online, byConnection, byDevice,
          overlapped, unrecorded, restarts>>

-----------------------------------------------------------------------------
\* A connection is open until the server notices its end.  OnDisconnectedAsync
\* then reads and writes the database and removes the two cache entries.
Phases == {"unused", "open", "closed", "looking", "marking", "uncaching",
           "unrouting", "over"}
ConnectionRecords ==
    [phase: Phases,
     device: Devices \cup {None},
     announced: BOOLEAN,    \* DeviceCameOnline has been called
     known: BOOLEAN,        \* Context.Items has the device
     wasOnline: BOOLEAN]    \* IsOnline as DeviceDisconnected read it
NoConnection == [phase |-> "unused", device |-> None, announced |-> FALSE,
                 known |-> FALSE, wasOnline |-> FALSE]

\* DeviceCameOnline and DeviceHeartbeat make the same steps.
Calls ==
    [step: {"none", "finding", "saving", "setting", "caching", "routing"},
     cameOnline: BOOLEAN,   \* which of the two it is
     wasOnline: BOOLEAN]    \* IsOnline as AddOrUpdateDevice read it
NoCall == [step |-> "none", cameOnline |-> FALSE, wasOnline |-> FALSE]

Init ==
    /\ agent = [d \in Devices |-> None]
    /\ heartbeats = {}
    /\ conn = [c \in Connections |-> NoConnection]
    /\ call = [c \in Connections |-> NoCall]
    /\ online = [d \in Devices |-> FALSE]
    /\ byConnection = {}
    /\ byDevice = [d \in Devices |-> None]
    /\ overlapped = {}
    /\ unrecorded = {}
    /\ restarts = 0

DeviceOf(c) == conn[c].device
Used(c) == agent[DeviceOf(c)] = c

\* The database is updated through Entity Framework, which writes a column
\* only if its value differs from the one that was read.
Written(wasOnline, value, d) ==
    IF wasOnline = value THEN online ELSE [online EXCEPT ![d] = value]

-----------------------------------------------------------------------------
(* The agent. *)

\* AgentHubConnection.Connect, or an automatic reconnect: a new connection.
\* The server may not have noticed the end of the last one.
Connect(d, c) ==
    /\ agent[d] = None
    /\ conn[c].phase = "unused"
    /\ agent' = [agent EXCEPT ![d] = c]
    /\ conn' = [conn EXCEPT ![c].phase = "open", ![c].device = d]
    /\ UNCHANGED <<heartbeats, call, online, byConnection, byDevice,
                   overlapped, unrecorded, restarts>>

\* The agent's end of the connection is lost, or the agent drops it because
\* it cannot verify the server.
ConnectionLost(d) ==
    /\ agent[d] # None
    /\ agent' = [agent EXCEPT ![d] = None]
    /\ UNCHANGED <<heartbeats, conn, call, online, byConnection, byDevice,
                   overlapped, unrecorded, restarts>>

\* Connect starts the timer once DeviceCameOnline has returned true.
StartHeartbeatTimer(d) ==
    /\ agent[d] # None
    /\ conn[agent[d]].announced
    /\ call[agent[d]].step = "none"
    /\ heartbeats' = heartbeats \cup {d}
    /\ UNCHANGED <<agent, conn, call, online, byConnection, byDevice,
                   overlapped, unrecorded, restarts>>

-----------------------------------------------------------------------------
(* AgentHub: the invocations of a connection run one at a time. *)

DeviceCameOnline(c) ==
    /\ conn[c].phase = "open"
    /\ Used(c)
    /\ ~conn[c].announced
    /\ call[c].step = "none"
    /\ conn' = [conn EXCEPT ![c].announced = TRUE]
    /\ call' = [call EXCEPT ![c] = [NoCall EXCEPT !.step = "finding",
                                                  !.cameOnline = TRUE]]
    /\ UNCHANGED <<agent, heartbeats, online, byConnection, byDevice,
                   overlapped, unrecorded, restarts>>

\* A heartbeat may have been sent before the agent lost the connection.
DeviceHeartbeat(c) ==
    /\ conn[c].phase = "open"
    /\ DeviceOf(c) \in heartbeats
    /\ call[c].step = "none"
    /\ call' = [call EXCEPT ![c] = [NoCall EXCEPT !.step = "finding"]]
    /\ UNCHANGED <<agent, heartbeats, conn, online, byConnection, byDevice,
                   overlapped, unrecorded, restarts>>

\* AddOrUpdateDevice reads the device...
FindDevice(c) ==
    /\ call[c].step = "finding"
    /\ call' = [call EXCEPT ![c].step = "saving",
                            ![c].wasOnline = online[DeviceOf(c)]]
    /\ UNCHANGED <<agent, heartbeats, conn, online, byConnection, byDevice,
                   overlapped, unrecorded, restarts>>

\* ...and saves it as online.
SaveDevice(c) ==
    /\ call[c].step = "saving"
    /\ online' = Written(call[c].wasOnline, TRUE, DeviceOf(c))
    /\ call' = [call EXCEPT ![c].step = "setting"]
    /\ UNCHANGED <<agent, heartbeats, conn, byConnection, byDevice, overlapped,
                   unrecorded, restarts>>

\* Device = result.Value.
SetDevice(c) ==
    /\ call[c].step = "setting"
    /\ conn' = [conn EXCEPT ![c].known = TRUE]
    /\ call' = [call EXCEPT ![c].step = "caching"]
    /\ UNCHANGED <<agent, heartbeats, online, byConnection, byDevice,
                   overlapped, unrecorded, restarts>>

\* AddOrUpdateByConnectionId, one dictionary after the other.
AddByConnectionId(c) ==
    /\ call[c].step = "caching"
    /\ byConnection' = byConnection \cup {c}
    /\ call' = [call EXCEPT ![c].step = "routing"]
    /\ UNCHANGED <<agent, heartbeats, conn, online, byDevice, overlapped,
                   unrecorded, restarts>>

\* Faulty: it does not replace the connection of a device that has one.
AddByDeviceId_TryAdd(c) ==
    /\ call[c].step = "routing"
    /\ byDevice' = [byDevice EXCEPT ![DeviceOf(c)] = IF @ = None THEN c ELSE @]
    /\ call' = [call EXCEPT ![c] = NoCall]
    /\ UNCHANGED <<agent, heartbeats, conn, online, byConnection, overlapped,
                   unrecorded, restarts>>

AddByDeviceId(c) ==
    /\ call[c].step = "routing"
    /\ byDevice' = [byDevice EXCEPT ![DeviceOf(c)] = c]
    /\ call' = [call EXCEPT ![c] = NoCall]
    /\ UNCHANGED <<agent, heartbeats, conn, online, byConnection, overlapped,
                   unrecorded, restarts>>

\* The device is banned, its organization unknown, or the database fails.
\* DeviceCameOnline then returns false or aborts the connection, and the agent
\* connects again; a failed heartbeat is only logged.
CallFails(c) ==
    /\ call[c].step \in {"finding", "saving"}
    /\ call' = [call EXCEPT ![c] = NoCall]
    /\ IF call[c].cameOnline /\ Used(c)
       THEN agent' = [agent EXCEPT ![DeviceOf(c)] = None]
       ELSE UNCHANGED agent
    /\ UNCHANGED <<heartbeats, conn, online, byConnection, byDevice,
                   overlapped, unrecorded, restarts>>

\* The server notices that a connection is over, 30 seconds later or at once.
NoticeDisconnect(c) ==
    /\ conn[c].phase = "open"
    /\ ~Used(c)
    /\ conn' = [conn EXCEPT ![c].phase = "closed"]
    /\ UNCHANGED <<agent, heartbeats, call, online, byConnection, byDevice,
                   overlapped, unrecorded, restarts>>

\* Faulty: only the connection the device is reached through marks it.
OnDisconnected_Routed(c) ==
    /\ conn[c].phase = "closed"
    /\ conn' = [conn EXCEPT ![c].phase =
                  IF byDevice[DeviceOf(c)] = c THEN "looking" ELSE "uncaching"]
    /\ overlapped' = IF call[c].step = "none" THEN overlapped
                     ELSE overlapped \cup {c}
    /\ UNCHANGED <<agent, heartbeats, call, online, byConnection, byDevice,
                   unrecorded, restarts>>

\* OnDisconnectedAsync up to the test of Device.
OnDisconnected(c) ==
    /\ conn[c].phase = "closed"
    /\ conn' = [conn EXCEPT ![c].phase =
                  IF conn[c].known THEN "looking" ELSE "uncaching"]
    /\ overlapped' = IF call[c].step = "none" THEN overlapped
                     ELSE overlapped \cup {c}
    /\ UNCHANGED <<agent, heartbeats, call, online, byConnection, byDevice,
                   unrecorded, restarts>>

\* DeviceDisconnected reads the device...
FindDisconnected(c) ==
    /\ conn[c].phase = "looking"
    /\ conn' = [conn EXCEPT ![c].phase = "marking",
                            ![c].wasOnline = online[DeviceOf(c)]]
    /\ UNCHANGED <<agent, heartbeats, call, online, byConnection, byDevice,
                   overlapped, unrecorded, restarts>>

\* ...and saves it as not online.
SaveDisconnected(c) ==
    /\ conn[c].phase = "marking"
    /\ online' = Written(conn[c].wasOnline, FALSE, DeviceOf(c))
    /\ conn' = [conn EXCEPT ![c].phase = "uncaching"]
    /\ UNCHANGED <<agent, heartbeats, call, byConnection, byDevice, overlapped,
                   unrecorded, restarts>>

\* The database fails; the finally block still runs.
DisconnectFails(c) ==
    /\ conn[c].phase \in {"looking", "marking"}
    /\ conn' = [conn EXCEPT ![c].phase = "uncaching"]
    /\ unrecorded' = unrecorded \cup {c}
    /\ UNCHANGED <<agent, heartbeats, call, online, byConnection, byDevice,
                   overlapped, restarts>>

\* Faulty: the connection's entry is only looked up.
RemoveByConnectionId_Kept(c) ==
    /\ conn[c].phase = "uncaching"
    /\ conn' = [conn EXCEPT ![c].phase =
                  IF c \in byConnection THEN "unrouting" ELSE "over"]
    /\ UNCHANGED <<agent, heartbeats, call, online, byConnection, byDevice,
                   overlapped, unrecorded, restarts>>

\* TryRemoveByConnectionId: the connection's entry and, if there was one...
RemoveByConnectionId(c) ==
    /\ conn[c].phase = "uncaching"
    /\ byConnection' = byConnection \ {c}
    /\ conn' = [conn EXCEPT ![c].phase =
                  IF c \in byConnection THEN "unrouting" ELSE "over"]
    /\ UNCHANGED <<agent, heartbeats, call, online, byDevice, overlapped,
                   unrecorded, restarts>>

\* ...the entry of its device, whichever connection that names.
RemoveByDeviceId(c) ==
    /\ conn[c].phase = "unrouting"
    /\ byDevice' = [byDevice EXCEPT ![DeviceOf(c)] = None]
    /\ conn' = [conn EXCEPT ![c].phase = "over"]
    /\ UNCHANGED <<agent, heartbeats, call, online, byConnection, overlapped,
                   unrecorded, restarts>>

\* The server stops, without running any handler to its end, and starts again;
\* SetAllDevicesNotOnline runs before it accepts connections.
ServerRestarts ==
    /\ restarts < MaxRestarts
    /\ restarts' = restarts + 1
    /\ agent' = [d \in Devices |-> None]
    /\ conn' = [c \in Connections |->
                  IF conn[c].phase = "unused" THEN conn[c]
                  ELSE [conn[c] EXCEPT !.phase = "over"]]
    /\ call' = [c \in Connections |-> NoCall]
    /\ online' = [d \in Devices |-> FALSE]
    /\ byConnection' = {}
    /\ byDevice' = [d \in Devices |-> None]
    /\ UNCHANGED <<heartbeats, overlapped, unrecorded>>

-----------------------------------------------------------------------------
Agents == \E d \in Devices: \/ \E c \in Connections: Connect(d, c)
                            \/ ConnectionLost(d)
                            \/ StartHeartbeatTimer(d)

Invocation(c) ==
    \/ DeviceCameOnline(c)
    \/ DeviceHeartbeat(c)
    \/ FindDevice(c)
    \/ SaveDevice(c)
    \/ SetDevice(c)
    \/ AddByConnectionId(c)
    \/ AddByDeviceId(c)
    \/ CallFails(c)

OnDisconnectedAsync(c) ==
    \/ NoticeDisconnect(c)
    \/ OnDisconnected(c)
    \/ FindDisconnected(c)
    \/ SaveDisconnected(c)
    \/ DisconnectFails(c)
    \/ RemoveByConnectionId(c)
    \/ RemoveByDeviceId(c)

Next ==
    \/ Agents
    \/ \E c \in Connections: Invocation(c) \/ OnDisconnectedAsync(c)
    \/ ServerRestarts

Spec == Init /\ [][Next]_vars

(***************************************************************************)
(* Agents reconnect for ever, timers fire and handlers go on.  The         *)
(* database fails now and then, not always: saving is strongly fair.       *)
(***************************************************************************)
Fairness ==
    /\ \A d \in Devices: WF_vars(StartHeartbeatTimer(d))
    /\ \A c \in Connections:
         /\ WF_vars(DeviceCameOnline(c))
         /\ WF_vars(DeviceHeartbeat(c) /\ Used(c))
         /\ SF_vars(FindDevice(c))
         /\ SF_vars(SaveDevice(c))
         /\ WF_vars(SetDevice(c))
         /\ WF_vars(AddByConnectionId(c))
         /\ WF_vars(AddByDeviceId(c))
         /\ WF_vars(OnDisconnectedAsync(c))

FairSpec == Spec /\ Fairness
-----------------------------------------------------------------------------
(* Properties. *)

\* Every variable keeps its type.
TypeOK ==
    /\ agent \in [Devices -> Connections \cup {None}]
    /\ heartbeats \subseteq Devices
    /\ conn \in [Connections -> ConnectionRecords]
    /\ call \in [Connections -> Calls]
    /\ online \in [Devices -> BOOLEAN]
    /\ byConnection \subseteq Connections
    /\ byDevice \in [Devices -> Connections \cup {None}]
    /\ overlapped \subseteq Connections
    /\ unrecorded \subseteq Connections
    /\ restarts \in 0 .. MaxRestarts

\* What the server sends to a device, and what it counts as online, is a
\* connection whose OnDisconnectedAsync has not finished, unless that handler
\* ran beside an invocation of the same connection, which then put the entry
\* back.  In particular a restart and a registration that is overtaken by the
\* end of an older connection leave nothing behind.
NoStaleEntries ==
    /\ \A c \in byConnection:
         conn[c].phase \in {"unrouting", "over"} => c \in overlapped
    /\ \A d \in Devices:
         (byDevice[d] # None /\ conn[byDevice[d]].phase = "over") =>
             byDevice[d] \in overlapped

\* A device all of whose connections are over is not shown online, with the
\* same exception, and one for an OnDisconnectedAsync whose update failed.
\* The update writes IsOnline only if it read another value, so this depends
\* on what the handlers of the device's other connections did in between.
Gone(d) == \A c \in Connections: conn[c].device = d => conn[c].phase = "over"
OfflineWhenGone ==
    \A d \in Devices: (Gone(d) /\ online[d]) =>
        \E c \in overlapped \cup unrecorded: conn[c].device = d

\* The inductive invariant behind the two.  A connection belongs to a device
\* as soon as it is used, and is used by the agent only while it is open...
ConnectionsHaveDevices ==
    /\ \A c \in Connections: conn[c].phase # "unused" => conn[c].device \in Devices
    /\ \A c \in Connections: conn[c].phase = "unused" =>
         conn[c].device = None /\ c \notin byConnection
    /\ \A c \in Connections: call[c].step # "none" => conn[c].phase # "unused"
    /\ \A d \in Devices: agent[d] # None =>
         conn[agent[d]].phase = "open" /\ conn[agent[d]].device = d
    /\ \A d \in Devices: byDevice[d] # None => conn[byDevice[d]].device = d
\* ...an invocation that runs when the handler has begun is recorded as such,
\* and one that does not find its connection's device knows it already...
InvocationsAreSeen ==
    \A c \in Connections:
        /\ (call[c].step # "none"
              /\ conn[c].phase \notin {"open", "closed"}) => c \in overlapped
        /\ call[c].step \in {"caching", "routing"} => conn[c].known
        /\ call[c].step = "routing" =>
             c \in byConnection \/ c \in overlapped
\* ...so that a route to a connection implies its entry...
RoutesHaveEntries ==
    \A d \in Devices: byDevice[d] # None =>
        \/ byDevice[d] \in byConnection
        \/ conn[byDevice[d]].phase = "unrouting"
        \/ byDevice[d] \in overlapped
\* ...and somebody will take a device's IsOnline back.
WillTakeBack(c) ==
    \/ c \in overlapped \cup unrecorded
    \/ call[c].step = "setting"
    \/ conn[c].known /\ conn[c].phase \in {"open", "closed", "looking"}
    \/ conn[c].phase = "marking" /\ conn[c].wasOnline
OnlineIsTakenBack ==
    \A d \in Devices: online[d] =>
        \E c \in Connections: conn[c].device = d /\ WillTakeBack(c)
PresenceInvariant ==
    TypeOK /\ ConnectionsHaveDevices /\ InvocationsAreSeen /\ RoutesHaveEntries
           /\ OnlineIsTakenBack /\ NoStaleEntries

\* A device whose agent keeps its connection is in the end reachable through
\* exactly that connection, and shown online: what the end of an older
\* connection, or of a late invocation on it, destroys, a heartbeat repairs.
Reachable(d) ==
    /\ agent[d] # None
    /\ byDevice[d] = agent[d]
    /\ agent[d] \in byConnection
    /\ online[d]
SteadyDeviceIsReachable ==
    \A d \in Devices: <>[](agent[d] # None) => <>[]Reachable(d)

=============================================================================
