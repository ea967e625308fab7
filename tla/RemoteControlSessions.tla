----------------------- MODULE RemoteControlSessions -----------------------
(***************************************************************************)
(* The life of an unattended remote control session on the server: the     *)
(* session cache and its lock, the session objects the hubs share without  *)
(* a lock, and the parties that act on them - the technician's console,    *)
(* the agent that launches desktop processes, those processes, the         *)
(* browser viewers, the cleaner and the reconnector.                       *)
(*                                                                         *)
(* A step is a synchronous stretch of one handler.  It ends where the      *)
(* handler leaves the cache lock or awaits something that can take time (a *)
(* client's answer, a ready signal, a stream), and between two tests of a  *)
(* session's Mode or a test and its assignment.  A one-way hub message     *)
(* does not end it.  A connection id that no longer names a live           *)
(* connection is written None: sending to it has no effect.                *)
(*                                                                         *)
(* An access key is one Boolean, access: a key has one AccessKey, made     *)
(* with it, and whoever should know it does or was given an empty one.     *)
(***************************************************************************)
EXTENDS Naturals, FiniteSets

CONSTANTS
    Sessions,    \* RemoteControlSession objects; an object is never reused
    Keys,        \* UnattendedSessionId values, each made with an access key
    Desktops,    \* desktop processes with their hub connection
    Viewers,     \* browser connections to ViewerHub
    EnforceAttendedAccess,   \* the values the server setting may have
    MaxEvents,   \* bound on session switches, crashes and lost connections
    None

ASSUME NoneAssumption ==
    /\ None \notin Sessions
    /\ None \notin Keys
    /\ None \notin Desktops
ASSUME SettingAssumption == EnforceAttendedAccess \subseteq BOOLEAN
ASSUME MaxEventsAssumption == MaxEvents \in Nat

VARIABLES
    cache,       \* RemoteControlSessionCache._sessions
    cleaning,    \* the key RemoveExpiredSessions is about to remove, in the lock
    session,     \* the fields of every session object
    signal,      \* the _sessionReadySignal each object was constructed with
    request,     \* what the technician's request for a key is waiting for
    consent,     \* history: whether the user of a key's device must agree
    agentOnline, \* the agent is connected and in AgentHubSessionCache
    commands,    \* launches the agent has been told to make
    desktop,     \* the desktop processes and what their connection holds
    viewer,      \* the viewers and what their connection holds
    notices,     \* RelaunchedScreenCasterReady messages on their way
    events       \* how many of the MaxEvents have happened

vars == <<cache, cleaning, session, signal, request, consent, agentOnline,
          commands, desktop, viewer, notices, events>>

-----------------------------------------------------------------------------
(* The state each party keeps. *)

Modes == {"unused", "unknown", "unattended", "attended"}

\* StreamerState as the code tests it.  "switching" is ChangingSessions or
\* WindowsLoggingOff, "shuttingDown" is WindowsShuttingDown, both together
\* with DisconnectExpected.
StreamerStates == {"initial", "connected", "reconnecting", "switching",
                   "shuttingDown", "disconnected"}
DisconnectExpected == {"switching", "shuttingDown"}

SessionRecords ==
    [mode: Modes, key: Keys \cup {None},
     access: BOOLEAN,                   \* AccessKey is filled in
     signal: Sessions, disposed: BOOLEAN,
     streamer: StreamerStates, viewers: SUBSET Viewers,
     desktop: Desktops \cup {None},     \* DesktopConnectionId
     device: BOOLEAN,                   \* DeviceId is filled in
     agent: BOOLEAN,                    \* AgentConnectionId is the live one
     requireConsent: BOOLEAN]

\* new RemoteControlSession(): every field at its default.
NewSession(s) ==
    [mode |-> "unknown", key |-> None, access |-> FALSE,
     signal |-> s, disposed |-> FALSE,
     streamer |-> "initial", viewers |-> {}, desktop |-> None,
     device |-> FALSE, agent |-> FALSE, requireConsent |-> FALSE]

Commands == [key: Keys, access: BOOLEAN, relaunch: BOOLEAN, viewers: SUBSET Viewers]

DesktopRecords ==
    [phase: {"off", "starting", "cleared", "adopting", "registered", "serving",
             "closing", "lost"},
     key: Keys \cup {None}, access: BOOLEAN, relaunch: BOOLEAN,
     viewers: SUBSET Viewers,
     session: Sessions \cup {None},     \* DesktopHub.SessionInfo
     cast: SUBSET Viewers,              \* AppState.Viewers
     left: SUBSET Viewers]              \* DisconnectViewer calls on their way
NoDesktop == [phase |-> "off", key |-> None, access |-> FALSE,
              relaunch |-> FALSE, viewers |-> {}, session |-> None,
              cast |-> {}, left |-> {}]

ViewerRecords ==
    [phase: {"off", "requesting", "found", "admitted", "attending",
             "prompting", "casting", "offered", "watching", "idle", "leaving",
             "gone"},                   \* all but the prompt's answer is over
     key: Keys \cup {None},             \* ViewerApp.SessionId
     access: BOOLEAN,                   \* ViewerApp.AccessKey is filled in
     found: Sessions \cup {None},       \* the session just looked up
     session: Sessions \cup {None},     \* ViewerHub.SessionInfo
     attends: BOOLEAN,                  \* is about to set Mode to Attended
     prompt: Desktops \cup {None}]      \* who is asked PromptForAccess
NoViewer == [phase |-> "off", key |-> None, access |-> FALSE, found |-> None,
             session |-> None, attends |-> FALSE, prompt |-> None]

\* shown: access in the addresses of the viewer pages of the key.
Requests ==
    [phase: {"unused"}, session: {None}, shown: SUBSET BOOLEAN] \cup
    [phase: {"waiting", "ready", "over", "cloned"}, session: Sessions,
     shown: SUBSET BOOLEAN]

Init ==
    /\ cache = [k \in Keys |-> None]
    /\ cleaning = None
    /\ session = [s \in Sessions |-> [NewSession(s) EXCEPT !.mode = "unused"]]
    /\ signal = [s \in Sessions |-> "reset"]
    /\ request = [k \in Keys |-> [phase |-> "unused", session |-> None, shown |-> {}]]
    /\ consent = [k \in Keys |-> "free"]
    /\ agentOnline = TRUE
    /\ commands = {}
    /\ desktop = [d \in Desktops |-> NoDesktop]
    /\ viewer = [v \in Viewers |-> NoViewer]
    /\ notices = {}
    /\ events = 0

-----------------------------------------------------------------------------
(* Helpers. *)

Unlocked == cleaning = None
Unused(s) == session[s].mode = "unused"
Listening(d) == d # None /\ desktop[d].phase \in {"registered", "serving", "closing"}
Open(v) == viewer[v].phase \notin {"off", "leaving", "gone"}
\* A hub runs the invocations of a connection one at a time.  An open stream
\* does not hold up the next one, and the end of the connection does not wait
\* for one that awaits an answer.
Interruptible(v) ==
    viewer[v].phase \in {"requesting", "casting", "offered", "watching", "idle"}
Stoppable(v) == Interruptible(v) \/ viewer[v].phase \in {"prompting", "attending"}

Launch(k) == [key |-> k, access |-> TRUE, relaunch |-> FALSE, viewers |-> {}]
Relaunch(k, access, vs) ==
    [key |-> k, access |-> access, relaunch |-> TRUE, viewers |-> vs]
RelaunchOf(s) == Relaunch(session[s].key, session[s].access, session[s].viewers)

\* A message to the agent through the connection id a session remembers.
SendToAgent(s, c) ==
    commands' = IF session[s].agent THEN commands \cup {c} ELSE commands

\* d after its casts to vs ended.  The last one to end shuts the process down.
CastsEnded(d, vs) ==
    LET rest == desktop[d].cast \ vs IN
    [desktop[d] EXCEPT !.cast = rest,
                       !.phase = IF rest = {} /\ desktop[d].cast # {}
                                 THEN "closing" ELSE @]

\* desktops after ViewerDisconnected(v) reached d: it stops casting to v and
\* calls DisconnectViewer for it.
ViewerDisconnected(d, v) ==
    IF Listening(d)
    THEN [desktop EXCEPT ![d] = [CastsEnded(d, {v}) EXCEPT !.left = @ \cup {v}]]
    ELSE desktop

\* desktops after GetScreenCast(v) was sent to d.
GetScreenCast(d, v) ==
    IF Listening(d) THEN [desktop EXCEPT ![d].cast = @ \cup {v}] ELSE desktop

\* Dispose disposes the signal the object holds, once per object.
Disposed(s) == [session EXCEPT ![s].disposed = TRUE]
SignalsAfterDispose(s) ==
    IF session[s].disposed THEN signal
    ELSE [signal EXCEPT ![session[s].signal] = "disposed"]

\* Faulty: the copy keeps the id it was copied from.
CreateNew_SameId(s, k) == [session[s] EXCEPT !.viewers = {}]

\* CreateNew: a memberwise copy, so with the same signal object, the same
\* desktop connection and the same streamer state, under a new id with a new
\* access key.
CreateNew(s, k) == [session[s] EXCEPT !.key = k, !.access = TRUE, !.viewers = {}]

\* v's record once its prompt is over, if its connection was still open.
Answered(v, phase) ==
    CASE viewer[v].phase = "prompting" ->
           [viewer[v] EXCEPT !.phase = phase, !.prompt = None]
      [] viewer[v].phase = "gone" -> NoViewer
      [] OTHER -> [viewer[v] EXCEPT !.prompt = None]

Event == events < MaxEvents /\ events' = events + 1

-----------------------------------------------------------------------------
(* The technician's console. *)

\* CircuitConnection.RemoteControl: a session with a new id is cached and the
\* agent is told to launch a desktop process.  The access key goes with the
\* launch; the session gets it from the process.
RemoteControl(k, s, enforce) ==
    /\ Unlocked
    /\ agentOnline
    /\ request[k].phase = "unused"
    /\ Unused(s)
    /\ session' = [session EXCEPT ![s] =
                     [NewSession(s) EXCEPT !.key = k, !.device = TRUE,
                        !.agent = TRUE, !.requireConsent = enforce]]
    /\ cache' = [cache EXCEPT ![k] = s]
    /\ request' = [request EXCEPT ![k] = [phase |-> "waiting", session |-> s,
                                              shown |-> {}]]
    /\ consent' = [consent EXCEPT ![k] = IF enforce THEN "required" ELSE "free"]
    /\ commands' = commands \cup {Launch(k)}
    /\ UNCHANGED <<cleaning, signal, agentOnline, desktop, viewer, notices,
                   events>>

\* v can stand for a new connection: nothing refers to an earlier one by it.
NewConnection(v) ==
    /\ viewer[v] = NoViewer
    /\ \A s \in Sessions: v \notin session[s].viewers
    /\ \A c \in commands: v \notin c.viewers
    /\ \A d \in Desktops:
         v \notin desktop[d].viewers \cup desktop[d].cast \cup desktop[d].left

\* DeviceCard.StartRemoteControl: the ready signal is seen within 20 seconds,
\* the viewer page opens.
OpenViewer(k, v) ==
    /\ request[k].phase = "waiting"
    /\ signal[session[request[k].session].signal] = "set"
    /\ NewConnection(v)
    /\ LET access == session[request[k].session].access IN
         /\ viewer' = [viewer EXCEPT ![v].phase = "requesting", ![v].key = k,
                                     ![v].access = access]
         /\ request' = [request EXCEPT ![k].phase = "ready", ![k].shown = {access}]
    /\ UNCHANGED <<cache, cleaning, session, signal, consent, agentOnline,
                   commands, desktop, notices, events>>

\* DeviceCard.StartRemoteControl: the 20 seconds are over.
SessionFailedToStart(k) ==
    /\ request[k].phase = "waiting"
    /\ request' = [request EXCEPT ![k].phase = "over"]
    /\ UNCHANGED <<cache, cleaning, session, signal, consent, agentOnline,
                   commands, desktop, viewer, notices, events>>

\* The page of a known session is loaded again, by a connection of its own.
ReopenViewer(k, v, access) ==
    /\ request[k].phase = "ready"
    /\ access \in request[k].shown
    /\ NewConnection(v)
    /\ viewer' = [viewer EXCEPT ![v].phase = "requesting", ![v].key = k,
                                ![v].access = access]
    /\ UNCHANGED <<cache, cleaning, session, signal, request, consent,
                   agentOnline, commands, desktop, notices, events>>

-----------------------------------------------------------------------------
(* The agent. *)

\* AppLauncherWin.LaunchRemoteControl and RestartScreenCaster start a process.
LaunchDesktop(c, d) ==
    /\ c \in commands
    /\ desktop[d] = NoDesktop
    /\ commands' = commands \ {c}
    /\ desktop' = [desktop EXCEPT ![d] =
                     [NoDesktop EXCEPT !.phase = "starting", !.key = c.key,
                        !.access = c.access, !.relaunch = c.relaunch, !.viewers = c.viewers]]
    /\ UNCHANGED <<cache, cleaning, session, signal, request, consent,
                   agentOnline, viewer, notices, events>>

\* The process cannot be started.  After a relaunch the viewers are told
\* ConnectionFailed and stop their connections.
LaunchFails(c) ==
    /\ Event
    /\ c \in commands
    /\ commands' = commands \ {c}
    /\ viewer' = [v \in Viewers |->
                    IF v \in c.viewers /\ Stoppable(v) /\ agentOnline
                    THEN [viewer[v] EXCEPT !.phase = "leaving"]
                    ELSE viewer[v]]
    /\ UNCHANGED <<cache, cleaning, session, signal, request, consent,
                   agentOnline, desktop, notices>>

\* The agent's connection is lost, with any of the messages on it.  No
\* session's AgentConnectionId names a live connection any more.
AgentDisconnects ==
    /\ Event
    /\ agentOnline
    /\ agentOnline' = FALSE
    /\ session' = [s \in Sessions |-> [session[s] EXCEPT !.agent = FALSE]]
    /\ \E kept \in SUBSET commands: commands' = kept
    /\ UNCHANGED <<cache, cleaning, signal, request, consent, desktop, viewer,
                   notices>>

\* HubConnection_Reconnected: the device is back in the agent cache under a
\* new connection id; sessions are not looked at.
AgentReconnects ==
    /\ ~agentOnline
    /\ agentOnline' = TRUE
    /\ UNCHANGED <<cache, cleaning, session, signal, request, consent,
                   commands, desktop, viewer, notices, events>>

\* AgentHubConnection.Connect: after coming online the agent calls
\* CheckForPendingRemoteControlSessions, which relaunches every cached
\* session of its device.
Pending == {k \in Keys: cache[k] # None /\ session[cache[k]].device}
AgentConnects ==
    /\ ~agentOnline
    /\ agentOnline' = TRUE
    /\ session' = [s \in Sessions |->
                     IF \E k \in Pending: cache[k] = s
                     THEN [session[s] EXCEPT !.agent = TRUE]
                     ELSE session[s]]
    /\ commands' = commands \cup
         {Relaunch(k, session[cache[k]].access, session[cache[k]].viewers):
             k \in Pending}
    /\ UNCHANGED <<cache, cleaning, signal, request, consent, desktop, viewer,
                   notices, events>>

-----------------------------------------------------------------------------
(* A desktop process and DesktopHub. *)

\* ReceiveUnattendedSessionInfo up to its first return: a cached session that
\* has an access key is not given to a process with another one.  Such a
\* process shuts down.
CheckTakeover(d) ==
    /\ Unlocked
    /\ desktop[d].phase = "starting"
    /\ LET s == cache[desktop[d].key]
           refused == s # None /\ session[s].access /\ ~desktop[d].access
       IN desktop' = [desktop EXCEPT ![d].phase = IF refused THEN "lost" ELSE "cleared"]
    /\ UNCHANGED <<cache, cleaning, session, signal, request, consent,
                   agentOnline, commands, viewer, notices, events>>

\* Faulty: the connection's own object takes the place of a cached one.
AdoptSession_Replaces(d, s) ==
    /\ Unlocked
    /\ desktop[d].phase = "cleared"
    /\ Unused(s)
    /\ session' = [session EXCEPT ![s] = NewSession(s)]
    /\ cache' = [cache EXCEPT ![desktop[d].key] = s]
    /\ desktop' = [desktop EXCEPT ![d].phase = "adopting", ![d].session = s]
    /\ UNCHANGED <<cleaning, signal, request, consent, agentOnline, commands,
                   viewer, notices, events>>

\* GetOrAdd: the session that is cached by now, or the connection's own
\* default object when the key is not cached.
AdoptSession(d, s) ==
    /\ Unlocked
    /\ desktop[d].phase = "cleared"
    /\ LET k == desktop[d].key IN
         IF cache[k] # None
         THEN s = cache[k] /\ UNCHANGED <<cache, session>>
         ELSE /\ Unused(s)
              /\ session' = [session EXCEPT ![s] = NewSession(s)]
              /\ cache' = [cache EXCEPT ![k] = s]
    /\ desktop' = [desktop EXCEPT ![d].phase = "adopting", ![d].session = s]
    /\ UNCHANGED <<cleaning, signal, request, consent, agentOnline, commands,
                   viewer, notices, events>>

\* Faulty: the mode is not assigned.
AssignSession_NoMode(d) ==
    /\ desktop[d].phase = "adopting"
    /\ session' = [session EXCEPT ![desktop[d].session].desktop = d,
                                  ![desktop[d].session].key = desktop[d].key,
                                  ![desktop[d].session].access = desktop[d].access]
    /\ desktop' = [desktop EXCEPT ![d].phase = "registered"]
    /\ UNCHANGED <<cache, cleaning, signal, request, consent, agentOnline,
                   commands, viewer, notices, events>>

\* Faulty: the id is not assigned.
AssignSession_NoId(d) ==
    /\ desktop[d].phase = "adopting"
    /\ session' = [session EXCEPT ![desktop[d].session].mode = "unattended",
                                  ![desktop[d].session].desktop = d,
                                  ![desktop[d].session].access = desktop[d].access]
    /\ desktop' = [desktop EXCEPT ![d].phase = "registered"]
    /\ UNCHANGED <<cache, cleaning, signal, request, consent, agentOnline,
                   commands, viewer, notices, events>>

\* The assignments that follow GetOrAdd, outside the lock.
AssignSession(d) ==
    /\ desktop[d].phase = "adopting"
    /\ session' = [session EXCEPT ![desktop[d].session].mode = "unattended",
                                  ![desktop[d].session].desktop = d,
                                  ![desktop[d].session].key = desktop[d].key,
                                  ![desktop[d].session].access = desktop[d].access]
    /\ desktop' = [desktop EXCEPT ![d].phase = "registered"]
    /\ UNCHANGED <<cache, cleaning, signal, request, consent, agentOnline,
                   commands, viewer, notices, events>>

\* NotifyRequesterUnattendedReady, after a first launch.
NotifyRequesterUnattendedReady(d) ==
    /\ Unlocked
    /\ desktop[d].phase = "registered" /\ ~desktop[d].relaunch
    /\ LET s == cache[session[desktop[d].session].key] IN
         signal' = IF s = None THEN signal
                   ELSE [signal EXCEPT ![session[s].signal] =
                           IF @ = "disposed" THEN @ ELSE "set"]
    /\ desktop' = [desktop EXCEPT ![d].phase = "serving"]
    /\ UNCHANGED <<cache, cleaning, session, request, consent, agentOnline,
                   commands, viewer, notices, events>>

\* NotifyViewersRelaunchedScreenCasterReady, after a relaunch: it sends the
\* id and the access key of the session the connection holds to the viewers
\* it was started with.
NotifyViewersRelaunched(d) ==
    /\ desktop[d].phase = "registered" /\ desktop[d].relaunch
    /\ session' = [session EXCEPT ![desktop[d].session].desktop = d]
    /\ notices' = notices \cup
         {[viewer |-> v, key |-> session[desktop[d].session].key,
           access |-> session[desktop[d].session].access]:
             v \in {w \in desktop[d].viewers: Open(w)}}
    /\ desktop' = [desktop EXCEPT ![d].phase = "serving", ![d].viewers = {},
                                  ![d].relaunch = FALSE]
    /\ UNCHANGED <<cache, cleaning, signal, request, consent, agentOnline,
                   commands, viewer, events>>

\* Faulty: the whole list is cleared.
DisconnectViewer_All(d, v) ==
    /\ Listening(d)
    /\ v \in desktop[d].left
    /\ session' = [session EXCEPT ![desktop[d].session].viewers = {}]
    /\ desktop' = [desktop EXCEPT ![d].left = @ \ {v}]
    /\ UNCHANGED <<cache, cleaning, signal, request, consent, agentOnline,
                   commands, viewer, notices, events>>

\* DisconnectViewer, called back by a desktop that was told
\* ViewerDisconnected.
DisconnectViewer(d, v) ==
    /\ Listening(d)
    /\ v \in desktop[d].left
    /\ session' = [session EXCEPT ![desktop[d].session].viewers = @ \ {v}]
    /\ desktop' = [desktop EXCEPT ![d].left = @ \ {v}]
    /\ UNCHANGED <<cache, cleaning, signal, request, consent, agentOnline,
                   commands, viewer, notices, events>>

\* NotifySessionChanged, and NotifySessionEnding on a logoff: the casts stop,
\* a new process is asked for unless consent is still to be given.
NotifySessionChanged(d) ==
    /\ Event
    /\ Listening(d)
    /\ LET s == desktop[d].session IN
         /\ session' = [session EXCEPT ![s].streamer = "switching"]
         /\ IF session[s].requireConsent
            THEN UNCHANGED commands
            ELSE SendToAgent(s, RelaunchOf(s))
    /\ desktop' = [desktop EXCEPT ![d] = CastsEnded(d, Viewers)]
    /\ UNCHANGED <<cache, cleaning, signal, request, consent, agentOnline,
                   viewer, notices>>

\* NotifySessionEnding on a system shutdown.
NotifySystemShutdown(d) ==
    /\ Event
    /\ Listening(d)
    /\ session' = [session EXCEPT ![desktop[d].session].streamer = "shuttingDown"]
    /\ desktop' = [desktop EXCEPT ![d] = CastsEnded(d, Viewers)]
    /\ UNCHANGED <<cache, cleaning, signal, request, consent, agentOnline,
                   commands, viewer, notices>>

\* The cast loop of one viewer ends by itself: the viewer stopped responding,
\* which counts as an event unless it is gone.
CastStops(d, v) ==
    /\ IF viewer[v].phase \in {"off", "gone"} THEN UNCHANGED events ELSE Event
    /\ Listening(d)
    /\ v \in desktop[d].cast
    /\ desktop' = [desktop EXCEPT ![d] = CastsEnded(d, {v})]
    /\ UNCHANGED <<cache, cleaning, session, signal, request, consent,
                   agentOnline, commands, viewer, notices>>

\* IdleTimer: 30 seconds without a viewer and without an open prompt.  With a
\* viewer on its way to the session this takes a slow viewer, which counts as
\* an event.
OnTheWay(k) ==
    \/ \E n \in notices: n.key = k
    \/ \E v \in Viewers: /\ viewer[v].phase \in {"requesting", "found", "admitted"}
                         /\ viewer[v].key = k
    \/ request[k].phase = "waiting"
IdleTimerElapses(d) ==
    /\ desktop[d].phase = "serving"
    /\ desktop[d].cast = {}
    /\ \A v \in Viewers: viewer[v].prompt # d
    /\ IF OnTheWay(desktop[d].key) THEN Event ELSE UNCHANGED events
    /\ desktop' = [desktop EXCEPT ![d].phase = "closing"]
    /\ UNCHANGED <<cache, cleaning, session, signal, request, consent,
                   agentOnline, commands, viewer, notices>>

\* ShutdownService.Shutdown: a viewer that came in meanwhile is disconnected,
\* unless the process saw none and simply exits.
DesktopExits(d) ==
    /\ desktop[d].phase = "closing"
    /\ \E told \in {{}, desktop[d].cast}:
         /\ session' = [session EXCEPT ![desktop[d].session].viewers = @ \ told]
         /\ viewer' = [v \in Viewers |->
                         IF v \in told /\ Stoppable(v)
                         THEN [viewer[v] EXCEPT !.phase = "leaving"]
                         ELSE viewer[v]]
    /\ desktop' = [desktop EXCEPT ![d].phase = "lost", ![d].cast = {},
                                  ![d].left = {}]
    /\ UNCHANGED <<cache, cleaning, signal, request, consent, agentOnline,
                   commands, notices, events>>

\* The process, or its connection, is gone at any other point.
DesktopCrashes(d) ==
    /\ Event
    /\ desktop[d].phase \in {"starting", "registered", "serving"}
    /\ desktop' = [desktop EXCEPT ![d].phase = "lost", ![d].cast = {},
                                  ![d].left = {}]
    /\ UNCHANGED <<cache, cleaning, session, signal, request, consent,
                   agentOnline, commands, viewer, notices>>

\* What the end of d's connection does besides OnDisconnectedAsync: nothing
\* reaches d any more and the prompts it was showing fail.
Forget(d, ss) ==
    [s \in Sessions |-> IF ss[s].desktop = d
                        THEN [ss[s] EXCEPT !.desktop = None] ELSE ss[s]]
FailPrompts(d) ==
    [v \in Viewers |->
        IF viewer[v].prompt = d THEN Answered(v, "idle") ELSE viewer[v]]

\* viewers after ScreenCasterDisconnected reached vs: their pages stop.
ScreenCasterDisconnected(vs, viewers) ==
    [v \in Viewers |-> IF v \in vs /\ Stoppable(v)
                       THEN [viewers[v] EXCEPT !.phase = "leaving"]
                       ELSE viewers[v]]

\* RestartScreenCaster: the agent is looked up again by the session's device.
RestartScreenCaster(d, s) ==
    LET reachable == session[s].device /\ agentOnline IN
    /\ session' = Forget(d, [session EXCEPT ![s].streamer = "reconnecting",
                                            ![s].agent = @ \/ reachable])
    /\ commands' = IF reachable
                   THEN commands \cup {RelaunchOf(s)}
                   ELSE commands
    /\ UNCHANGED cache

\* Faulty: the object is disposed and stays cached.
TryRemove_Keeps(d, k) ==
    LET s == cache[k] IN
    /\ session' = Forget(d, IF s = None THEN session ELSE Disposed(s))
    /\ UNCHANGED <<cache, commands>>

\* TryRemove: whatever object is cached under the key is removed and disposed.
TryRemove(d, k) ==
    LET s == cache[k] IN
    /\ cache' = [cache EXCEPT ![k] = None]
    /\ session' = Forget(d, IF s = None THEN session ELSE Disposed(s))
    /\ UNCHANGED commands

ResetSignal(s) == [signal EXCEPT ![session[s].signal] = "reset"]

\* OnDisconnectedAsync of a session that is taken for an attended one.  It
\* removes the key AttendedSessionId from the cache, which is empty.
AttendedEnds(d, s) ==
    /\ Unlocked
    /\ session[s].mode = "attended"
    /\ session' = Forget(d, [session EXCEPT ![s].streamer = "disconnected"])
    /\ signal' = ResetSignal(s)
    /\ viewer' = ScreenCasterDisconnected(session[s].viewers, FailPrompts(d))
    /\ UNCHANGED <<cache, commands>>

\* And of one that is not.
UnattendedEnds(d, s) ==
    /\ session[s].mode # "attended"
    /\ viewer' = FailPrompts(d)
    /\ \/ /\ session[s].streamer \in DisconnectExpected
          /\ session' = Forget(d, session)
          /\ signal' = ResetSignal(s)
          /\ UNCHANGED <<cache, commands>>
       \/ /\ session[s].streamer \notin DisconnectExpected
          /\ session[s].viewers # {} /\ session[s].requireConsent
          /\ RestartScreenCaster(d, s)
          /\ signal' = ResetSignal(s)
       \/ /\ session[s].streamer \notin DisconnectExpected
          /\ ~(session[s].viewers # {} /\ session[s].requireConsent)
          /\ Unlocked
          /\ TryRemove(d, session[s].key)
          /\ LET cached == cache[session[s].key] IN
               signal' = IF cached = None
                         THEN ResetSignal(s)
                         ELSE IF session[cached].disposed
                         THEN ResetSignal(s)
                         ELSE [ResetSignal(s) EXCEPT
                                 ![session[cached].signal] = "disposed"]

\* OnDisconnectedAsync.  Reset throws when the signal is disposed, and the
\* rest of the handler is skipped; so it is, in effect, for a connection that
\* has only its default object.  An object a process holds has its mode.
DesktopOnDisconnected(d) ==
    /\ desktop[d].phase = "lost"
    /\ desktop' = [desktop EXCEPT ![d] = NoDesktop]
    /\ LET s == desktop[d].session IN
         \/ /\ \/ s = None
               \/ s # None /\ signal[session[s].signal] = "disposed"
            /\ session' = Forget(d, session)
            /\ viewer' = FailPrompts(d)
            /\ UNCHANGED <<cache, signal, commands>>
         \/ /\ s # None
            /\ signal[session[s].signal] # "disposed"
            /\ AttendedEnds(d, s) \/ UnattendedEnds(d, s)
    /\ UNCHANGED <<cleaning, request, consent, agentOnline, notices, events>>

-----------------------------------------------------------------------------
(* A viewer and ViewerHub. *)

\* The RelaunchedScreenCasterReady handler: the page takes the key and the
\* access key it is told and requests a screen cast again.
ReceiveNotice(n) ==
    /\ n \in notices
    /\ Interruptible(n.viewer)
    /\ notices' = notices \ {n}
    /\ viewer' = [viewer EXCEPT ![n.viewer].phase = "requesting",
                                ![n.viewer].key = n.key,
                                ![n.viewer].access = n.access]
    /\ request' = [request EXCEPT
                     ![n.key].phase = IF @ = "cloned" THEN "ready" ELSE @,
                     ![n.key].shown = @ \cup {n.access}]
    /\ UNCHANGED <<cache, cleaning, session, signal, consent, agentOnline,
                   commands, desktop, events>>

\* SendScreenCastRequestToDevice up to TryGetValue.  The page of a viewer
\* whose key is not found stops its connection.
FindSession(v) ==
    /\ Unlocked
    /\ viewer[v].phase = "requesting"
    /\ LET s == cache[viewer[v].key] IN
         viewer' = IF s = None
                   THEN [viewer EXCEPT ![v].phase = "leaving"]
                   ELSE [viewer EXCEPT ![v].phase = "found", ![v].found = s]
    /\ UNCHANGED <<cache, cleaning, session, signal, request, consent,
                   agentOnline, commands, desktop, notices, events>>

\* Its access check.  Of a session a process is just adopting the mode is
\* assigned first and the access key last.
CheckAccess(v) ==
    /\ viewer[v].phase = "found"
    /\ LET s == viewer[v].found
           unattended == session[s].mode = "unattended"
           adopted == \E d \in Desktops: /\ desktop[d].phase = "adopting"
                                         /\ desktop[d].session = s
           differs == viewer[v].access # session[s].access
       IN \/ /\ ~(unattended /\ differs)
             /\ viewer' = [viewer EXCEPT ![v].phase = "admitted"]
          \/ /\ (unattended \/ adopted) /\ differs
             /\ viewer' = [viewer EXCEPT ![v].phase = "leaving", ![v].found = None]
    /\ UNCHANGED <<cache, cleaning, session, signal, request, consent,
                   agentOnline, commands, desktop, notices, events>>

\* SendScreenCastRequestToDevice from there to its first await: the viewer is
\* added to the session's list, then the user is asked for consent, or the
\* cast is requested, or the session will be taken for an attended one.
AttachViewer(v) ==
    /\ viewer[v].phase = "admitted"
    /\ LET s == viewer[v].found IN
         /\ session' = [session EXCEPT ![s].viewers = @ \cup {v}]
         /\ \/ /\ session[s].mode = "unattended" /\ session[s].requireConsent
               /\ viewer' = [viewer EXCEPT ![v] =
                    [@ EXCEPT !.phase = IF session[s].desktop = None THEN "idle"
                                                                ELSE "prompting",
                              !.prompt = session[s].desktop,
                              !.session = s, !.found = None]]
               /\ UNCHANGED desktop
            \/ /\ session[s].mode = "unattended" /\ ~session[s].requireConsent
               /\ desktop' = GetScreenCast(session[s].desktop, v)
               /\ viewer' = [viewer EXCEPT ![v] =
                    [@ EXCEPT !.phase = "casting", !.session = s, !.found = None]]
            \/ /\ session[s].mode # "unattended"
               /\ viewer' = [viewer EXCEPT ![v] =
                    [@ EXCEPT !.phase = "attending", !.attends = TRUE,
                              !.session = s, !.found = None]]
               /\ UNCHANGED desktop
    /\ UNCHANGED <<cache, cleaning, signal, request, consent, agentOnline,
                   commands, notices, events>>

\* The session the viewer found without a mode, or attended, becomes attended,
\* whatever it is by now.  A process that is unattended ignores the
\* RequestScreenCast that follows.
TakeForAttended(v) ==
    /\ viewer[v].attends
    /\ session' = [session EXCEPT ![viewer[v].session].mode = "attended"]
    /\ viewer' = [viewer EXCEPT
                     ![v].phase = IF @ = "attending" THEN "casting" ELSE @,
                     ![v].attends = FALSE]
    /\ UNCHANGED <<cache, cleaning, signal, request, consent, agentOnline,
                   commands, desktop, notices, events>>

\* The user agrees; RequireConsent is cleared and the cast is requested from
\* the desktop the session has by now, for a viewer that may be gone.
ConsentGiven(v) ==
    /\ viewer[v].prompt # None
    /\ Listening(viewer[v].prompt)
    /\ LET s == viewer[v].session IN
         /\ session' = [session EXCEPT ![s].requireConsent = FALSE]
         /\ desktop' = GetScreenCast(session[s].desktop, v)
         /\ consent' = [consent EXCEPT ![session[s].key] = "given"]
    /\ viewer' = [viewer EXCEPT ![v] = Answered(v, "casting")]
    /\ UNCHANGED <<cache, cleaning, signal, request, agentOnline, commands,
                   notices, events>>

\* Faulty: RequireConsent is cleared before the answer is looked at.
ConsentRefused_Cleared(v) ==
    /\ viewer[v].prompt # None
    /\ Listening(viewer[v].prompt)
    /\ session' = [session EXCEPT ![viewer[v].session].requireConsent = FALSE]
    /\ viewer' = [viewer EXCEPT ![v] = Answered(v, "leaving")]
    /\ UNCHANGED <<cache, cleaning, signal, request, consent,
                   agentOnline, commands, desktop, notices, events>>

\* The user refuses, or does not answer in time: the request fails and the
\* page stops its connection.
ConsentRefused(v) ==
    /\ viewer[v].prompt # None
    /\ Listening(viewer[v].prompt)
    /\ viewer' = [viewer EXCEPT ![v] = Answered(v, "leaving")]
    /\ UNCHANGED <<cache, cleaning, session, signal, request, consent,
                   agentOnline, commands, desktop, notices, events>>

\* SendDesktopStream released the viewer's ReadySignal.
StreamOffered(v) ==
    /\ viewer[v].phase = "casting"
    /\ \E d \in Desktops: v \in desktop[d].cast
    /\ viewer' = [viewer EXCEPT ![v].phase = "offered"]
    /\ UNCHANGED <<cache, cleaning, session, signal, request, consent,
                   agentOnline, commands, desktop, notices, events>>

\* Faulty: the session is not marked as connected.
StreamConnected_NoState(v) ==
    /\ viewer[v].phase = "offered"
    /\ viewer' = [viewer EXCEPT ![v].phase = "watching"]
    /\ UNCHANGED <<cache, cleaning, session, signal, request, consent,
                   agentOnline, commands, desktop, notices, events>>

\* GetDesktopStream after its wait.
StreamConnected(v) ==
    /\ viewer[v].phase = "offered"
    /\ viewer' = [viewer EXCEPT ![v].phase = "watching"]
    /\ session' = [session EXCEPT ![viewer[v].session].streamer = "connected"]
    /\ UNCHANGED <<cache, cleaning, signal, request, consent, agentOnline,
                   commands, desktop, notices, events>>

\* The stream ends, or GetDesktopStream waited 30 seconds for nothing.  The
\* page stays open.
StreamEnds(v) ==
    /\ viewer[v].phase \in {"casting", "watching"}
    /\ \A d \in Desktops: v \notin desktop[d].cast
    /\ viewer' = [viewer EXCEPT ![v].phase = "idle"]
    /\ UNCHANGED <<cache, cleaning, session, signal, request, consent,
                   agentOnline, commands, desktop, notices, events>>

\* ChangeWindowsSession, whatever the page is doing: the viewer leaves its
\* session for a copy of it under a new key, and the agent is told to launch a
\* process for the copy.
ChangeWindowsSession(v, k, new) ==
    /\ Event
    /\ Unlocked
    /\ Interruptible(v)
    /\ viewer[v].session # None
    /\ session[viewer[v].session].mode = "unattended"
    /\ request[k].phase = "unused"
    /\ Unused(new)
    /\ LET s == viewer[v].session IN
         /\ session' = [session EXCEPT ![s].viewers = @ \ {v},
                                       ![new] = CreateNew(s, k)]
         /\ desktop' = ViewerDisconnected(session[s].desktop, v)
         /\ SendToAgent(s, Relaunch(k, TRUE, {v}))
         /\ consent' = [consent EXCEPT ![k] = consent[session[s].key]]
    /\ cache' = [cache EXCEPT ![k] = new]
    /\ request' = [request EXCEPT ![k] = [phase |-> "cloned", session |-> new,
                                             shown |-> {}]]
    /\ viewer' = [viewer EXCEPT ![v].session = new]
    /\ UNCHANGED <<cleaning, signal, agentOnline, notices>>

\* The browser tab is closed.
CloseViewer(v) ==
    /\ Stoppable(v)
    /\ viewer' = [viewer EXCEPT ![v].phase = "leaving"]
    /\ UNCHANGED <<cache, cleaning, session, signal, request, consent,
                   agentOnline, commands, desktop, notices, events>>

\* Faulty: it returns early when the session has no desktop connection.
ViewerOnDisconnected_Early(v) ==
    /\ viewer[v].phase = "leaving" /\ ~viewer[v].attends
    /\ LET s == viewer[v].session IN
         IF s = None
         THEN UNCHANGED <<session, desktop>>
         ELSE IF session[s].desktop = None
         THEN UNCHANGED <<session, desktop>>
         ELSE /\ desktop' = ViewerDisconnected(session[s].desktop, v)
              /\ session' = [session EXCEPT ![s].viewers = @ \ {v}]
    /\ viewer' = [viewer EXCEPT ![v] =
                    IF @.prompt = None THEN NoViewer ELSE [@ EXCEPT !.phase = "gone"]]
    /\ notices' = {n \in notices: n.viewer # v}
    /\ UNCHANGED <<cache, cleaning, signal, request, consent, agentOnline,
                   commands, events>>

\* ViewerHub.OnDisconnectedAsync.
ViewerOnDisconnected(v) ==
    /\ viewer[v].phase = "leaving" /\ ~viewer[v].attends
    /\ LET s == viewer[v].session IN
         IF s = None
         THEN UNCHANGED <<session, desktop>>
         ELSE /\ desktop' = ViewerDisconnected(session[s].desktop, v)
              /\ session' = [session EXCEPT ![s].viewers = @ \ {v}]
    /\ viewer' = [viewer EXCEPT ![v] =
                    IF @.prompt = None THEN NoViewer ELSE [@ EXCEPT !.phase = "gone"]]
    /\ notices' = {n \in notices: n.viewer # v}
    /\ UNCHANGED <<cache, cleaning, signal, request, consent, agentOnline,
                   commands, events>>

-----------------------------------------------------------------------------
(* The background services. *)

\* RemoveExpiredSessions tests a session inside the lock.  Its minute of life
\* can be over at any point after the technician's 20 seconds of waiting.
FindExpiredSession(k) ==
    /\ Unlocked
    /\ cache[k] # None
    /\ request[k].phase # "waiting"
    /\ session[cache[k]].mode \in {"unattended", "unknown"}
    /\ session[cache[k]].viewers = {}
    /\ cleaning' = k
    /\ UNCHANGED <<cache, session, signal, request, consent, agentOnline,
                   commands, desktop, viewer, notices, events>>

\* Then it removes and disposes it.  Viewers are added outside the lock.
RemoveExpiredSession ==
    /\ cleaning # None
    /\ cache' = [cache EXCEPT ![cleaning] = None]
    /\ session' = Disposed(cache[cleaning])
    /\ signal' = SignalsAfterDispose(cache[cleaning])
    /\ cleaning' = None
    /\ UNCHANGED <<request, consent, agentOnline, commands, desktop, viewer,
                   notices, events>>

\* RemoteControlSessionReconnector, for one session of a tick.
Reconnect(k) ==
    /\ cache[k] # None
    /\ LET s == cache[k] IN
         /\ session[s].mode = "unattended"
         /\ session[s].streamer \notin {"connected", "shuttingDown"}
         /\ session[s].viewers # {}
         /\ SendToAgent(s, RelaunchOf(s))
    /\ UNCHANGED <<cache, cleaning, session, signal, request, consent,
                   agentOnline, desktop, viewer, notices, events>>

-----------------------------------------------------------------------------
Console ==
    \E k \in Keys:
        \/ \E s \in Sessions, e \in EnforceAttendedAccess: RemoteControl(k, s, e)
        \/ \E v \in Viewers: \/ OpenViewer(k, v)
                             \/ \E access \in BOOLEAN: ReopenViewer(k, v, access)
        \/ SessionFailedToStart(k)

Agent ==
    \/ \E c \in commands: LaunchFails(c) \/ \E d \in Desktops: LaunchDesktop(c, d)
    \/ AgentDisconnects
    \/ AgentReconnects
    \/ AgentConnects

Desktop ==
    \E d \in Desktops:
        \/ CheckTakeover(d)
        \/ \E s \in Sessions: AdoptSession(d, s)
        \/ AssignSession(d)
        \/ NotifyRequesterUnattendedReady(d)
        \/ NotifyViewersRelaunched(d)
        \/ \E v \in Viewers: DisconnectViewer(d, v) \/ CastStops(d, v)
        \/ NotifySessionChanged(d)
        \/ NotifySystemShutdown(d)
        \/ IdleTimerElapses(d)
        \/ DesktopExits(d)
        \/ DesktopCrashes(d)
        \/ DesktopOnDisconnected(d)

Viewer ==
    \/ \E n \in notices: ReceiveNotice(n)
    \/ \E v \in Viewers:
        \/ FindSession(v)
        \/ CheckAccess(v)
        \/ AttachViewer(v)
        \/ TakeForAttended(v)
        \/ ConsentGiven(v)
        \/ ConsentRefused(v)
        \/ StreamOffered(v)
        \/ StreamConnected(v)
        \/ StreamEnds(v)
        \/ \E k \in Keys, s \in Sessions: ChangeWindowsSession(v, k, s)
        \/ CloseViewer(v)
        \/ ViewerOnDisconnected(v)

Service ==
    \/ \E k \in Keys: FindExpiredSession(k) \/ Reconnect(k)
    \/ RemoveExpiredSession

Next == Console \/ Agent \/ Desktop \/ Viewer \/ Service

Spec == Init /\ [][Next]_vars

(***************************************************************************)
(* What the code does by itself is done: processes that were asked for are *)
(* started and register, messages arrive, handlers finish, the timers of   *)
(* the console, the services and the idle desktop fire, a lost agent comes *)
(* back.  People need not act (open or close a page, answer a prompt), and *)
(* events need not happen.  Starting a cast is strongly fair: a relaunched *)
(* process can make a viewer ask again meanwhile, but at most every ten    *)
(* seconds (RateLimiter), and a process must become free to be launched.   *)
(* Steps of one party that exclude each other share a condition.           *)
(***************************************************************************)
Fairness ==
    /\ WF_vars(AgentReconnects \/ AgentConnects)
    /\ SF_vars(\E c \in commands, d \in Desktops: LaunchDesktop(c, d))
    /\ WF_vars(RemoveExpiredSession)
    /\ \A k \in Keys: /\ WF_vars(SessionFailedToStart(k))
                      /\ SF_vars(FindExpiredSession(k))
                      /\ WF_vars(Reconnect(k))
    /\ \A d \in Desktops:
         /\ SF_vars(CheckTakeover(d) \/ \E s \in Sessions: AdoptSession(d, s))
         /\ WF_vars(AssignSession(d) \/ NotifyViewersRelaunched(d) \/ DesktopExits(d))
         /\ SF_vars(NotifyRequesterUnattendedReady(d))
         /\ WF_vars(IdleTimerElapses(d) /\ UNCHANGED events)
         /\ SF_vars(DesktopOnDisconnected(d))
         /\ \A v \in Viewers: /\ WF_vars(DisconnectViewer(d, v))
                              /\ WF_vars(CastStops(d, v) /\ UNCHANGED events)
    /\ \A v \in Viewers:
         /\ WF_vars(\E n \in notices: n.viewer = v /\ ReceiveNotice(n))
         /\ SF_vars(FindSession(v))
         /\ WF_vars(CheckAccess(v) \/ AttachViewer(v) \/ TakeForAttended(v))
         /\ SF_vars(StreamOffered(v) \/ StreamConnected(v))
         /\ WF_vars(StreamEnds(v) \/ ViewerOnDisconnected(v))

FairSpec == Spec /\ Fairness

-----------------------------------------------------------------------------
(* Properties. *)

\* Every variable keeps its type.
TypeOK ==
    /\ cache \in [Keys -> Sessions \cup {None}]
    /\ cleaning \in Keys \cup {None}
    /\ session \in [Sessions -> SessionRecords]
    /\ signal \in [Sessions -> {"reset", "set", "disposed"}]
    /\ request \in [Keys -> Requests]
    /\ consent \in [Keys -> {"free", "required", "given"}]
    /\ agentOnline \in BOOLEAN
    /\ commands \subseteq Commands
    /\ desktop \in [Desktops -> DesktopRecords]
    /\ viewer \in [Viewers -> ViewerRecords]
    /\ notices \subseteq [viewer: Viewers, key: Keys, access: BOOLEAN]
    /\ events \in 0 .. MaxEvents

\* Nobody is handed another session: an object found under a key bears that
\* key, so does the object a desktop process registered for, and a viewer
\* holds the object of the key its page shows or of one it was moved from.
\* Between GetOrAdd and the assignments that follow it a new object bears no
\* key yet.
CachedUnderOwnKey ==
    \A k \in Keys: cache[k] # None =>
        \/ session[cache[k]].key = k
        \/ \E d \in Desktops: /\ desktop[d].phase = "adopting"
                              /\ desktop[d].session = cache[k]
                              /\ desktop[d].key = k
DesktopServesOwnKey ==
    \A d \in Desktops: Listening(d) =>
        session[desktop[d].session].key = desktop[d].key

\* The inductive invariant behind these two.  A viewer knows a key, and an
\* object it refers to was constructed...
ViewerReferences ==
    \A v \in Viewers:
        /\ viewer[v].phase # "off" => viewer[v].key \in Keys
        /\ viewer[v].session # None => ~Unused(viewer[v].session)
        /\ viewer[v].found # None => ~Unused(viewer[v].found)
        /\ viewer[v].phase \in {"found", "admitted"} => viewer[v].found # None
        /\ viewer[v].phase \in {"attending", "prompting", "casting", "offered",
                               "watching"}
             => viewer[v].session # None
        /\ viewer[v].phase = "attending" => viewer[v].attends
        /\ viewer[v].attends => /\ viewer[v].phase \in {"attending", "leaving"}
                               /\ viewer[v].session # None
        /\ viewer[v].prompt # None =>
             /\ viewer[v].phase \in {"prompting", "leaving", "gone"}
             /\ viewer[v].session # None
\* ...so is one that the cache or a desktop process refers to...
Holds(d) == desktop[d].session # None
ObjectReferences ==
    /\ \A k \in Keys: cache[k] # None => ~Unused(cache[k])
    /\ \A d \in Desktops:
         /\ desktop[d].phase # "off" => desktop[d].key \in Keys
         /\ desktop[d].phase \in {"off", "starting", "cleared"} => ~Holds(d)
         /\ desktop[d].phase \in {"adopting", "registered", "serving", "closing"}
              => Holds(d)
         /\ Holds(d) => ~Unused(desktop[d].session)
\* ...which refer to it under one key only, the key it bears...
OneKeyPerObject ==
    /\ \A k, l \in Keys: (cache[k] # None /\ cache[k] = cache[l]) => k = l
    /\ \A k \in Keys, d \in Desktops:
         (Holds(d) /\ cache[k] = desktop[d].session) => desktop[d].key = k
    /\ \A d, e \in Desktops:
         (Holds(d) /\ desktop[d].session = desktop[e].session)
            => desktop[d].key = desktop[e].key
    /\ \A k \in Keys: cache[k] # None => session[cache[k]].key \in {k, None}
    /\ \A d \in Desktops: Holds(d) =>
         session[desktop[d].session].key \in {desktop[d].key, None}
\* ...once a desktop process is done assigning it.
KeyedOnceAdopted ==
    /\ \A d \in Desktops: (Holds(d) /\ desktop[d].phase # "adopting") =>
         session[desktop[d].session].key # None
    /\ \A s \in Sessions: session[s].mode = "unattended" =>
         session[s].key # None
    /\ \A s \in Sessions: (~Unused(s) /\ session[s].key = None) =>
         \E d \in Desktops: desktop[d].phase = "adopting" /\ desktop[d].session = s
KeyInvariant ==
    TypeOK /\ ViewerReferences /\ ObjectReferences /\ OneKeyPerObject
           /\ KeyedOnceAdopted

\* A session the console made, or a copy of one, is never taken for an attended
\* one, which the cleaner would not remove and the reconnector not serve, nor
\* is a viewer's request about to do so: that happens only to an object a
\* process brought into the cache itself.
OnlyRecreatedAreAttended ==
    \A s \in Sessions:
        \/ session[s].mode = "attended"
        \/ \E v \in Viewers: viewer[v].attends /\ viewer[v].session = s
      => ~session[s].device

\* A ready signal is disposed under a cached session only because an object
\* that shares it, a clone or the original, was disposed.
SignalLostOnlyThroughClone ==
    \A k \in Keys: cache[k] # None =>
        LET s == cache[k] IN
        signal[session[s].signal] = "disposed" =>
            \E t \in Sessions \ {s}: /\ session[t].signal = session[s].signal
                                     /\ session[t].disposed

\* As long as the object of a session is the one the console made, or a
\* clone of it, no viewer gets past the consent check before a user agreed.
ConsentBeforeCast ==
    \A v \in Viewers: viewer[v].phase \in {"casting", "offered", "watching"} =>
        LET s == viewer[v].session IN
        (session[s].device /\ session[s].key # None) =>
            consent[session[s].key] # "required"

\* A viewer that is watching is on the list of the session it watches, unless
\* that session was cloned: a viewer that moved to a clone and then follows
\* an older notice back is taken off by the call that was to book its leaving.
HasCopy(s) == \E t \in Sessions \ {s}: session[t].signal = session[s].signal
WatchersAreListed ==
    \A v \in Viewers: viewer[v].phase = "watching" =>
        \/ v \in session[viewer[v].session].viewers
        \/ HasCopy(viewer[v].session)

\* The inductive invariant behind these four.  An object waits on its own
\* signal, unless it is a clone; a clone and its original are registered.
\* The desktop an object names holds it, or the object it was cloned from.
Assigned == {"unattended", "attended"}
SignalsAreOwn ==
    \A s \in Sessions:
        /\ Unused(s) => signal[s] = "reset" /\ ~session[s].disposed
        /\ \/ session[s].signal = s
           \/ /\ session[s].mode \in Assigned
              /\ session[session[s].signal].mode \in Assigned
        /\ session[s].desktop # None =>
             /\ Holds(session[s].desktop)
             /\ session[desktop[session[s].desktop].session].signal = session[s].signal

\* A key is known nowhere before it is requested or made for a clone...
KeysAreRequested ==
    \A k \in Keys:
        /\ request[k].phase # "unused" =>
             request[k].session # None /\ ~Unused(request[k].session)
        /\ request[k].phase = "unused" =>
             /\ cache[k] = None
             /\ \A s \in Sessions: session[s].key # k
             /\ \A c \in commands: c.key # k
             /\ \A d \in Desktops: desktop[d].key # k

\* ...and has no viewers before the console saw its session ready.
Served(k) == request[k].phase \in {"ready", "cloned"}
ViewedOnceServed ==
    /\ \A v \in Viewers: viewer[v].key # None => Served(viewer[v].key)
    /\ \A n \in notices: Served(n.key)
    /\ \A c \in commands: c.viewers # {} => Served(c.key)
    /\ \A d \in Desktops: desktop[d].viewers # {} =>
         desktop[d].key \in Keys /\ Served(desktop[d].key)
    /\ \A d \in Desktops: Holds(d) =>
         (session[desktop[d].session].viewers # {} => Served(desktop[d].key))
    /\ \A k \in Keys: cache[k] # None =>
         (session[cache[k]].viewers # {} => Served(k))
    /\ \A s \in Sessions: session[s].key # None =>
         (session[s].viewers # {} => Served(session[s].key))

\* From TryGetValue to the assignments that follow it the object a viewer
\* found stays the one of the viewer's key.
Belongs(s, k) ==
    /\ session[s].key \in {k, None}
    /\ \A l \in Keys: cache[l] = s => l = k
    /\ \A d \in Desktops: desktop[d].session = s => desktop[d].key = k
FoundUnderOwnKey ==
    \A v \in Viewers: viewer[v].phase \in {"found", "admitted"} =>
        Belongs(viewer[v].found, viewer[v].key)

\* An object the console made is not seen ready before a desktop process has
\* registered for it; no process takes its place in the cache beside it.
FreshUntilAssigned ==
    /\ \A s \in Sessions:
         (session[s].mode = "unknown" /\ session[s].key # None) =>
            /\ request[session[s].key].session = s
            /\ ~Served(session[s].key)
            /\ signal[s] # "set"
    /\ \A d \in Desktops: (Holds(d) /\ desktop[d].phase # "adopting") =>
         session[desktop[d].session].mode \in Assigned
    /\ \A d \in Desktops, k \in Keys:
         (Holds(d) /\ desktop[d].key = k /\ cache[k] = request[k].session) =>
            cache[k] \in {None, desktop[d].session}

\* A signal is disposed with an object that has it, and an object that is
\* disposed leaves the cache, unless it is the clone of a disposed one.
DisposedLeave ==
    /\ \A x \in Sessions: signal[x] = "disposed" =>
         \E t \in Sessions: session[t].signal = x /\ session[t].disposed
    /\ \A k \in Keys: (cache[k] # None /\ session[cache[k]].disposed) =>
         \E t \in Sessions \ {cache[k]}: /\ session[t].signal = session[cache[k]].signal
                                         /\ session[t].disposed
    /\ cleaning # None => cache[cleaning] # None

\* Only the object the console made for a key, or the clone made for it, knows
\* its device; it asks for consent as long as the user has not agreed.
ConsentIsAsked ==
    \A s \in Sessions: session[s].device =>
        /\ session[s].key # None
        /\ request[session[s].key].session = s
        /\ consent[session[s].key] = "required" => session[s].requireConsent

\* A process calls DisconnectViewer for a viewer that is still there only if
\* the viewer moved to a clone.
Attached == {"attending", "prompting", "casting", "offered", "watching"}
ListsAreKept ==
    /\ \A d \in Desktops, v \in Viewers: v \in desktop[d].left =>
         /\ Holds(d)
         /\ viewer[v].phase \in {"off", "gone"} \/ HasCopy(desktop[d].session)
    /\ \A v \in Viewers: viewer[v].phase \in Attached =>
         v \in session[viewer[v].session].viewers \/ HasCopy(viewer[v].session)

SessionInvariant ==
    /\ KeyInvariant
    /\ SignalsAreOwn
    /\ KeysAreRequested
    /\ ViewedOnceServed
    /\ FoundUnderOwnKey
    /\ FreshUntilAssigned
    /\ DisposedLeave
    /\ ConsentIsAsked
    /\ OnlyRecreatedAreAttended
    /\ ConsentBeforeCast
    /\ ListsAreKept

\* What no step does: put another object in the place of a cached one; give an
\* object in use that has a key another key; revive an object that was disposed
\* or bring one back that has left the cache; let a viewer join a session of
\* another key than its own (the object it found may have no key until the
\* process that brought it has assigned it).
EntryStands(k) == cache[k] # None => cache'[k] \in {cache[k], None}
KeyIsKept(s) ==
    (~Unused(s) /\ session[s].key # None) => session'[s].key = session[s].key
EndsForGood(s) ==
    /\ session[s].disposed => session'[s].disposed
    /\ (~Unused(s) /\ \A k \in Keys: cache[k] # s) => \A k \in Keys: cache'[k] # s
JoinsOwnSession(v) ==
    (viewer[v].phase \notin Attached /\ viewer'[v].phase \in Attached) =>
        session'[viewer'[v].session].key \in {viewer[v].key, None}
SessionsKeepTheirPlace ==
    [][/\ \A k \in Keys: EntryStands(k)
       /\ \A s \in Sessions: KeyIsKept(s) /\ EndsForGood(s)
       /\ \A v \in Viewers: JoinsOwnSession(v)]_vars

\* "Don't restart if consent wasn't granted on the first request", the comment
\* in OnDisconnectedAsync: a session that this handler is restarting is not
\* one that still waits for consent.
RestartOnlyAfterConsent ==
    \A s \in Sessions: session[s].streamer = "reconnecting" =>
        ~session[s].requireConsent

\* A session whose viewers wait for a desktop - after a session switch, a
\* failed launch, a failed prompt - is connected again, given up by its
\* viewers or dropped, as long as its agent connection id is good: the
\* reconnector keeps asking for a process until one serves them.
WaitsForDesktop(k) ==
    /\ cache[k] # None
    /\ session[cache[k]].mode = "unattended"
    /\ session[cache[k]].viewers # {}
    /\ session[cache[k]].agent
    /\ ~session[cache[k]].requireConsent
    /\ session[cache[k]].streamer \notin {"connected", "shuttingDown"}
WaitingViewersAreServed ==
    \A k \in Keys: WaitsForDesktop(k) ~> ~WaitsForDesktop(k)

\* When every viewer has left for good, every session leaves the cache, but
\* for one that was taken for attended, which the cleaner leaves alone.
AbandonedSessionsAreRemoved ==
    <>[](\A v \in Viewers: viewer[v].phase \in {"off", "gone"})
        => <>[](\A k \in Keys: cache[k] = None \/ session[cache[k]].mode = "attended")

=============================================================================
