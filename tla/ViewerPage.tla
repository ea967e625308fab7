----------------------------- MODULE ViewerPage -----------------------------
(***************************************************************************)
(* The page of a viewer: its connections to the hub, the casts it asks     *)
(* for, and what it shows (ViewerHubConnection, App, ToggleConnectUI).     *)
(*                                                                         *)
(* JavaScript runs one task after another.  A step is a task with the      *)
(* microtasks it leaves: a stop() of a connection that is connected ends,  *)
(* before anything else happens, in the rejection of what was invoked on   *)
(* it, the end of its streams and its onclose.  That is so with WebSockets *)
(* (see HubConnection), which the connections here use.                    *)
(***************************************************************************)
EXTENDS Naturals, Sequences, FiniteSets

CONSTANTS
    MaxLinks,       \* bound: connections the page builds
    MaxRelaunches,  \* bound: relaunched screen casters per connection
    Notices         \* what the notices that end a session set the status to

Connecting == "Connecting to remote device"
Errored == "Connection error"
Ended == "Stream ended."
Closed == "Connection closed."
IdRequired == "Session ID is required."
Passing == "a message"      \* of Reconnecting and ShowMessage
Refusal == "a reason"       \* result.Reason
Statuses == {"", Connecting, Errored, Ended, Closed, IdRequired, Passing, Refusal} \cup Notices

ASSUME PageBounds == MaxLinks \in Nat \ {0} /\ MaxRelaunches \in Nat

Links == 1 .. MaxLinks

VARIABLES
    mode,       \* ViewerApp.Mode
    current,    \* this.Connection, 0 while there is none
    link,       \* the state of each connection
    reason,     \* what the status was set to by whoever stopped it, or ""
    casts,      \* the runs of SendScreenCastRequestToDevice, in order
    status,     \* StatusMessage.innerText
    shown       \* what ToggleConnectUI shows: "connect" or "screen"

vars == <<mode, current, link, reason, casts, status, shown>>

(* A cast awaits the viewer options or the result of its request, streams, *)
(* is over (its stream ended, or an await failed that nobody catches), or  *)
(* was refused: its request was invoked on a connection that was not       *)
(* connected (its link remains that of the options).                       *)
Live == {"options", "asking", "streaming"}
CastRecords == [link: Links, state: Live \cup {"over", "refused"}]
LinkStates == {"idle", "connecting", "connected", "stopping", "failed", "closed"}

-----------------------------------------------------------------------------
(* The casts after connection l closed, with the connections in states ls  *)
(* and on this.Connection: the rejected options are caught, and the        *)
(* request that follows is invoked on it, which rejects it unless it is    *)
(* connected.                                                              *)
Cancelled(ls, l, on) ==
    [k \in DOMAIN casts |->
        IF casts[k].link # l THEN casts[k]
        ELSE CASE casts[k].state \in {"asking", "streaming"} -> [casts[k] EXCEPT !.state = "over"]
               [] casts[k].state = "options" ->
                    IF ls[on] = "connected" THEN [link |-> on, state |-> "asking"]
                    ELSE [casts[k] EXCEPT !.state = "refused"]
               [] OTHER -> casts[k]]

Streams(l) == \E k \in DOMAIN casts : casts[k].link = l /\ casts[k].state = "streaming"

(* A wrong variant, for a mutant: the end always sets the status. *)
StatusAfter_Overwrites(l, s) == IF Streams(l) THEN Ended ELSE Closed

(* The streams' error handlers and onclose set a status only if there is none. *)
StatusAfter(l, s) == IF s # "" THEN s ELSE IF Streams(l) THEN Ended ELSE Closed

(* A wrong variant, for a mutant: the connect UI depends on the status too. *)
Close_StatusOnly(ls, l, s, on) ==
    /\ link' = [ls EXCEPT ![l] = "closed"]
    /\ casts' = Cancelled([ls EXCEPT ![l] = "closed"], l, on)
    /\ status' = StatusAfter(l, s)
    /\ shown' = IF s = "" THEN "connect" ELSE shown

(* Connection l of the connections ls closes; the status is s by then, and *)
(* this.Connection is on.                                                  *)
Close(ls, l, s, on) ==
    /\ link' = [ls EXCEPT ![l] = "closed"]
    /\ casts' = Cancelled([ls EXCEPT ![l] = "closed"], l, on)
    /\ status' = StatusAfter(l, s)
    /\ shown' = "connect"

(* stop() of connection l by a task that leaves the status at s. *)
Stop(ls, l, s, on) ==
    \/ /\ ls[l] = "connected"
       /\ Close(ls, l, s, on)
       /\ reason' = [reason EXCEPT ![l] = s]
    \/ /\ ls[l] = "connecting"
       /\ link' = [ls EXCEPT ![l] = "stopping"]
       /\ status' = s
       /\ UNCHANGED <<reason, casts, shown>>
    \/ /\ ls[l] \notin {"connecting", "connected"}
       /\ link' = ls
       /\ status' = s
       /\ UNCHANGED <<reason, casts, shown>>

(* Wrong variants, for mutants: the old connection is not stopped, and one *)
(* that has failed is started again.                                       *)
Connect_KeepsOld(s) ==
    /\ current + 1 \in Links
    /\ current' = current + 1
    /\ link' = [link EXCEPT ![current + 1] = "connecting"]
    /\ status' = s
    /\ UNCHANGED <<reason, casts, shown>>

Connect_Restarts(s) ==
    LET next == IF current # 0 THEN current ELSE 1
    IN  /\ link[next] \in {"idle", "failed"}
        /\ current' = next
        /\ link' = [link EXCEPT ![next] = "connecting"]
        /\ status' = s
        /\ UNCHANGED <<reason, casts, shown>>

(* Connect(): the connection there is stops and the next one starts. *)
Connect(s) ==
    LET next == current + 1
        ls == [link EXCEPT ![next] = "connecting"]
    IN  /\ next \in Links
        /\ current' = next
        /\ IF current = 0
           THEN link' = ls /\ status' = s /\ UNCHANGED <<reason, casts, shown>>
           ELSE Stop(ls, current, s, next)

-----------------------------------------------------------------------------
Init ==
    /\ mode \in {"Attended", "Unattended"}
    /\ current = 0
    /\ link = [l \in Links |-> "idle"]
    /\ reason = [l \in Links |-> ""]
    /\ casts = << >>
    /\ status = ""
    /\ shown = "connect"

(* ViewerApp.Init in unattended mode *)
ConnectAtOnce ==
    /\ mode = "Unattended" /\ current = 0
    /\ Connect(Connecting)
    /\ UNCHANGED mode

(* The connect box is there: a click, or Enter in one of its inputs, also  *)
(* while a connection is being made.                                       *)
ConnectBox == shown = "connect" /\ mode = "Attended"

ConnectToClient == ConnectBox /\ Connect(status) /\ UNCHANGED mode

ConnectWithoutId ==
    /\ ConnectBox
    /\ status' = IdRequired
    /\ UNCHANGED <<mode, current, link, reason, casts, shown>>

(* DisconnectButton *)
Disconnect ==
    /\ shown = "screen"
    /\ Stop(link, current, Closed, current)
    /\ UNCHANGED <<mode, current>>

(* A wrong variant, for a mutant: nothing is asked for. *)
Started_NoCast(l) ==
    /\ link[l] = "connecting"
    /\ link' = [link EXCEPT ![l] = "connected"]
    /\ UNCHANGED <<mode, current, reason, casts, status, shown>>

(* start() has succeeded and the first cast is asked for. *)
Started(l) ==
    /\ link[l] = "connecting"
    /\ link' = [link EXCEPT ![l] = "connected"]
    /\ casts' = Append(casts, [link |-> current, state |-> "options"])
    /\ UNCHANGED <<mode, current, reason, status, shown>>

(* start() has failed, or was stopped: its catch. *)
StartFails(l) ==
    /\ link[l] \in {"connecting", "stopping"}
    /\ link' = [link EXCEPT ![l] = "failed"]
    /\ status' = Errored
    /\ shown' = "connect"
    /\ UNCHANGED <<mode, current, reason, casts>>

(* The connection is lost or the server closes it. *)
LinkLost(l) ==
    /\ link[l] = "connected"
    /\ Close(link, l, status, current)
    /\ UNCHANGED <<mode, current, reason>>

-----------------------------------------------------------------------------
(* SendScreenCastRequestToDevice                                           *)

ShownUnchanged == UNCHANGED <<mode, current, link, reason, status, shown>>
Answered(k, s) == k \in DOMAIN casts /\ casts[k].state = s /\ link[casts[k].link] = "connected"

(* The options are there, or reading them failed and the settings' are     *)
(* used; the request goes out on this.Connection.                          *)
GotViewerOptions(k) ==
    /\ Answered(k, "options")
    /\ casts' = [casts EXCEPT ![k] = [link |-> current, state |-> "asking"]]
    /\ ShownUnchanged

(* The request is granted: the stream of this.Connection is subscribed to. *)
RequestGranted(k) ==
    /\ Answered(k, "asking")
    /\ casts' = [casts EXCEPT ![k] = [link |-> current, state |-> "streaming"]]
    /\ ShownUnchanged

(* !result.IsSuccess *)
RequestRefused(k) ==
    /\ Answered(k, "asking")
    /\ Stop(link, current, Refusal, current)
    /\ UNCHANGED <<mode, current>>

(* The hub method throws: nobody catches it, the connection goes on. *)
RequestThrows(k) ==
    /\ Answered(k, "asking")
    /\ casts' = [casts EXCEPT ![k].state = "over"]
    /\ ShownUnchanged

(* The stream completes or fails while the connection goes on. *)
StreamEnds(k) ==
    /\ Answered(k, "streaming")
    /\ casts' = [casts EXCEPT ![k].state = "over"]
    /\ status' = IF status = "" THEN Ended ELSE status
    /\ shown' = "connect"
    /\ UNCHANGED <<mode, current, link, reason>>

-----------------------------------------------------------------------------
(* Messages of the hub and of the desktop.                                 *)

(* ConnectionFailed, ReconnectFailed, ConnectionRequestDenied,             *)
(* ViewerRemoved and ScreenCasterDisconnected                              *)
SessionEnds(l, n) ==
    /\ link[l] = "connected"
    /\ Stop(link, current, n, current)
    /\ UNCHANGED <<mode, current>>

(* RelaunchedScreenCasterReady *)
Relaunched(l) ==
    /\ link[l] = "connected"
    /\ Cardinality({k \in DOMAIN casts : casts[k].link = l}) <= MaxRelaunches
    /\ casts' = Append(casts, [link |-> current, state |-> "options"])
    /\ ShownUnchanged

(* Reconnecting, ShowMessage *)
ShowMessage(l) ==
    /\ link[l] = "connected"
    /\ status' = Passing
    /\ UNCHANGED <<mode, current, link, reason, casts, shown>>

(* The screen's data, which the desktop sends once the request reached it: *)
(* the screen is shown and the status cleared.                             *)
HandleScreenData(l) ==
    /\ link[l] = "connected"
    /\ \E k \in DOMAIN casts : casts[k].link = l /\ casts[k].state # "options"
    /\ shown' = "screen" /\ status' = ""
    /\ UNCHANGED <<mode, current, link, reason, casts>>

-----------------------------------------------------------------------------
User == ConnectAtOnce \/ ConnectToClient \/ ConnectWithoutId \/ Disconnect
Connection(l) == Started(l) \/ StartFails(l) \/ LinkLost(l)
Request(k) == \/ GotViewerOptions(k)
              \/ RequestGranted(k) \/ RequestRefused(k) \/ RequestThrows(k)
Message(l) == \/ \E n \in Notices : SessionEnds(l, n)
              \/ Relaunched(l) \/ ShowMessage(l) \/ HandleScreenData(l)

Next == \/ User
        \/ \E l \in Links : Connection(l) \/ Message(l)
        \/ \E k \in DOMAIN casts : Request(k) \/ StreamEnds(k)

Spec == Init /\ [][Next]_vars

(* A start settles and invocations are answered, by the time-outs of the   *)
(* connection if by nothing else; a stream brings the screen's data or is  *)
(* ended by the hub, which waits thirty seconds for it.                    *)
MaxCasts == MaxLinks * (MaxRelaunches + 1)
FairSpec ==
    /\ Spec
    /\ \A l \in Links : WF_vars(Started(l) \/ StartFails(l))
    /\ \A k \in 1 .. MaxCasts :
         /\ WF_vars(k \in DOMAIN casts /\ Request(k))
         /\ WF_vars(k \in DOMAIN casts /\ (StreamEnds(k) \/ HandleScreenData(casts[k].link)))

-----------------------------------------------------------------------------
TypeOK ==
    /\ mode \in {"Attended", "Unattended"}
    /\ current \in 0 .. MaxLinks
    /\ link \in [Links -> LinkStates]
    /\ reason \in [Links -> Statuses]
    /\ casts \in Seq(CastRecords)
    /\ status \in Statuses
    /\ shown \in {"connect", "screen"}

(* Only this.Connection is connecting or connected: an older one was       *)
(* stopped.                                                                *)
OneConnection ==
    /\ \A l \in Links : link[l] \in {"connecting", "connected"} => l = current
    /\ \A l \in Links : link[l] = "idle" <=> l > current

(* A cast that is not over belongs to a connection that is connected: the  *)
(* awaits that read this.Connection anew never find another one.           *)
LiveCastsAreConnected ==
    \A k \in DOMAIN casts : casts[k].state \in Live => link[casts[k].link] = "connected"

(* The screen is shown only while a connection could have brought it. *)
ScreenIsConnected ==
    shown = "screen" => current # 0 /\ link[current] = "connected"

(* The inductive invariant of the page. *)
PageInvariant ==
    /\ TypeOK
    /\ OneConnection
    /\ LiveCastsAreConnected
    /\ ScreenIsConnected

Idle == current # 0 /\ link[current] \in {"closed", "failed"}

(* When the connection is over the page offers to connect and says why,    *)
(* whatever came first: the stream's end, the connection's or a notice.    *)
IdlePageSaysSo ==
    Idle => shown = "connect" /\ status # ""

(* The reason of a stop is not overwritten by what the stop causes, only   *)
(* by the late failure of an older connection's start and by the user.     *)
ReasonIsShown ==
    Idle /\ reason[current] # "" =>
        \/ status \in {reason[current], IdRequired}
        \/ status = Errored /\ \E l \in 1 .. current - 1 : link[l] = "failed"

(* A connection that is made shows a screen or gives way: to the next one, *)
(* to the end of its casts, or to a request that threw.                    *)
ConnectingEnds ==
    \A l \in Links :
        link[l] = "connecting" ~>
            \/ shown = "screen" \/ link[l] \in {"failed", "closed"} \/ current # l
            \/ \E k \in DOMAIN casts : casts[k].link = l /\ casts[k].state = "over"

(* The page uses each of its connections as a HubClient: it starts it      *)
(* once, and what it waits for is what it invoked while it was connected.  *)
(* (The request that follows options which the end of their connection     *)
(* rejected is invoked on one that is closed or connecting, and refused.)  *)
LiveCasts(l) == {k \in DOMAIN casts : casts[k].link = l /\ casts[k].state \in Live}
Client(l) == INSTANCE HubClient WITH state <- link[l], pending <- Cardinality(LiveCasts(l))
LinksAreClients ==
    /\ \A l \in Links : Client(l)!Init
    /\ [][\A l \in Links : Client(l)!Next \/ UNCHANGED Client(l)!vars]_vars
=============================================================================
