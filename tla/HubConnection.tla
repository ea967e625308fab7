---------------------------- MODULE HubConnection ----------------------------
(***************************************************************************)
(* The connection of the viewer's page to the hub as the SignalR client    *)
(* makes it: HubConnection over HttpConnection over WebSocketTransport or  *)
(* LongPollingTransport, without the automatic and the stateful reconnect, *)
(* which the page does not ask for.                                        *)
(*                                                                         *)
(* A step is a task of the browser and the microtasks it leaves.  With a   *)
(* WebSocket a stop is over with the task that made it; with long polling  *)
(* it waits for a DELETE.                                                  *)
(***************************************************************************)
EXTENDS Naturals, Sequences

CONSTANTS
    Offers,         \* the transports a server may offer, in order, that the client supports
    MaxCallbacks    \* bound: invocations and streams at a time

WebSockets == "WebSockets"
LongPolling == "LongPolling"

ASSUME HubAssumption ==
    /\ Offers \subseteq Seq({WebSockets, LongPolling}) \ {<< >>}
    /\ MaxCallbacks \in Nat

VARIABLES
    alive,          \* the server answers
    offered,        \* negotiateResponse.availableTransports
    hub,            \* HubConnection._connectionState
    hubStarted,     \* HubConnection._connectionStarted
    stopError,      \* _stopDuringStartError is set
    handshook,      \* _receivedHandshakeResponse
    callbacks,      \* number of _callbacks
    timeout,        \* _timeoutHandle is armed
    ping,           \* _pingServerHandle is armed
    http,           \* HttpConnection._connectionState
    httpStarted,    \* HttpConnection._connectionStarted
    tried,          \* number of transports tried
    line,           \* the transport: "none", "opening", "open", "aborted", "dropped"
    awaits,         \* what start() awaits
    start,          \* the promise of start(): "none", "pending", "kept", "rejected"
    closes          \* how often onclose was called

hubVars == <<hub, hubStarted, stopError, callbacks, timeout, ping, awaits, start, closes>>
httpVars == <<http, httpStarted, line>>
vars == <<alive, offered, handshook, tried, hubVars, httpVars>>

States == {"Disconnected", "Connecting", "Connected", "Disconnecting"}
Awaited == {"nothing", "negotiation", "transport", "request", "handshake", "stop"}

Transport == IF tried = 0 THEN "none" ELSE offered[tried]
OverWebSocket == Transport = WebSockets
OverLongPolling == Transport = LongPolling

-----------------------------------------------------------------------------
(* How a connection ends.                                                  *)

(* A wrong variant, for a mutant: what was invoked is not rejected. *)
ConnectionClosed_KeepsCallbacks ==
    /\ stopError' = TRUE
    /\ timeout' = FALSE /\ ping' = FALSE
    /\ IF hubStarted
       THEN /\ hub' = "Disconnected" /\ hubStarted' = FALSE /\ closes' = closes + 1
            /\ UNCHANGED <<callbacks, awaits, start>>
       ELSE /\ IF awaits = "request" THEN UNCHANGED <<hub, awaits, start>>
               ELSE hub' = "Disconnected" /\ awaits' = "nothing" /\ start' = "rejected"
            /\ UNCHANGED <<hubStarted, callbacks, closes>>

(* Another: onclose is called for a start that fails too. *)
ConnectionClosed_CallsAlways ==
    /\ stopError' = TRUE
    /\ callbacks' = 0
    /\ timeout' = FALSE /\ ping' = FALSE
    /\ closes' = closes + 1
    /\ IF hubStarted
       THEN hub' = "Disconnected" /\ hubStarted' = FALSE /\ UNCHANGED <<awaits, start>>
       ELSE /\ IF awaits = "request" THEN UNCHANGED <<hub, awaits, start>>
               ELSE hub' = "Disconnected" /\ awaits' = "nothing" /\ start' = "rejected"
            /\ UNCHANGED hubStarted

(* _connectionClosed: whoever invoked something hears of it, then onclose. *)
(* A start that awaits the handshake or its own stop fails; one whose      *)
(* request is still under way fails when that is over.                     *)
ConnectionClosed ==
    /\ stopError' = TRUE
    /\ callbacks' = 0
    /\ timeout' = FALSE /\ ping' = FALSE
    /\ IF hubStarted
       THEN /\ hub' = "Disconnected" /\ hubStarted' = FALSE /\ closes' = closes + 1
            /\ UNCHANGED <<awaits, start>>
       ELSE /\ IF awaits = "request" THEN UNCHANGED <<hub, awaits, start>>
               ELSE hub' = "Disconnected" /\ awaits' = "nothing" /\ start' = "rejected"
            /\ UNCHANGED <<hubStarted, closes>>

(* The start fails before the hub's part of it has begun, or after all is  *)
(* closed.                                                                 *)
StartRejected ==
    /\ hub' = "Disconnected" /\ awaits' = "nothing" /\ start' = "rejected"
    /\ UNCHANGED <<hubStarted, stopError, callbacks, timeout, ping, closes>>

(* _stopConnection, when the transport has closed. *)
StopConnection ==
    /\ http' = "Disconnected" /\ httpStarted' = FALSE /\ line' = "none"
    /\ IF httpStarted THEN ConnectionClosed ELSE StartRejected

(* HttpConnection.stop of a connection that is connected by long polling. *)
AbortPolling ==
    /\ http' = "Disconnecting" /\ line' = "aborted"
    /\ UNCHANGED httpStarted

(* HttpConnection.stop: a WebSocket closes at once, polling is aborted, a  *)
(* start under way is left to find out.                                    *)
HttpStop ==
    \/ http = "Connected" /\ ~OverWebSocket /\ AbortPolling
    \/ http = "Connecting" /\ http' = "Disconnecting" /\ UNCHANGED <<httpStarted, line>>
    \/ http \in {"Disconnecting", "Disconnected"} /\ UNCHANGED httpVars

ClosesAtOnce == http = "Connected" /\ OverWebSocket

(* HubConnection._stopInternal *)
StopInternal ==
    /\ hub \in {"Connecting", "Connected"}
    /\ \/ ClosesAtOnce /\ StopConnection
       \/ /\ ~ClosesAtOnce /\ HttpStop
          /\ hub' = "Disconnecting" /\ stopError' = TRUE
          /\ timeout' = FALSE /\ ping' = FALSE
          /\ UNCHANGED <<hubStarted, callbacks, awaits, start, closes>>

-----------------------------------------------------------------------------
(* start()                                                                 *)

Init ==
    /\ alive = TRUE
    /\ offered \in Offers
    /\ hub = "Disconnected" /\ hubStarted = FALSE
    /\ stopError = FALSE /\ handshook = FALSE
    /\ callbacks = 0 /\ timeout = FALSE /\ ping = FALSE
    /\ http = "Disconnected" /\ httpStarted = FALSE
    /\ tried = 0 /\ line = "none"
    /\ awaits = "nothing" /\ start = "none" /\ closes = 0

Start ==
    /\ start = "none"
    /\ hub' = "Connecting" /\ http' = "Connecting"
    /\ awaits' = "negotiation" /\ start' = "pending"
    /\ UNCHANGED <<alive, offered, hubStarted, stopError, handshook, callbacks, timeout, ping,
                   httpStarted, tried, line, closes>>

(* HttpConnection._startInternal fails. *)
HttpStartFails ==
    /\ http' = "Disconnected" /\ line' = "none"
    /\ StartRejected
    /\ UNCHANGED <<alive, offered, handshook, httpStarted, tried>>

(* An answer to negotiate; only the first one asks whether stop() was      *)
(* called meanwhile.                                                       *)
Negotiated ==
    /\ awaits = "negotiation" /\ alive
    /\ \/ http = "Disconnecting" /\ tried = 0 /\ HttpStartFails
       \/ /\ http = "Connecting" \/ tried > 0
          /\ tried' = tried + 1 /\ line' = "opening" /\ awaits' = "transport"
          /\ UNCHANGED <<alive, offered, hub, hubStarted, stopError, handshook, callbacks,
                         timeout, ping, http, httpStarted, start, closes>>

NegotiationFails == awaits = "negotiation" /\ HttpStartFails

(* The transport could not be started: the next one is, after another      *)
(* negotiation, unless stop() was called.                                  *)
TransportFails ==
    /\ awaits = "transport"
    /\ \/ (http = "Disconnecting" \/ tried = Len(offered)) /\ HttpStartFails
       \/ /\ http = "Connecting" /\ tried < Len(offered)
          /\ awaits' = "negotiation" /\ line' = "none"
          /\ UNCHANGED <<alive, offered, hub, hubStarted, stopError, handshook, callbacks,
                         timeout, ping, http, httpStarted, tried, start, closes>>

(* A wrong variant, for a mutant: a stop meanwhile is not noticed. *)
TransportStarted_NoCheck ==
    /\ awaits = "transport" /\ alive
    /\ http' = "Connected" /\ httpStarted' = TRUE /\ line' = "open"
    /\ awaits' = IF OverWebSocket THEN "handshake" ELSE "request"
    /\ timeout' = OverWebSocket
    /\ UNCHANGED <<hub, hubStarted, stopError, callbacks, ping, start, closes>>
    /\ UNCHANGED <<alive, offered, handshook, tried>>

(* Another: the timer is started only by what arrives. *)
TransportStarted_NoTimer ==
    /\ awaits = "transport" /\ alive
    /\ \/ /\ http = "Connecting"
          /\ http' = "Connected" /\ httpStarted' = TRUE /\ line' = "open"
          /\ awaits' = IF OverWebSocket THEN "handshake" ELSE "request"
          /\ UNCHANGED <<hub, hubStarted, stopError, callbacks, timeout, ping, start, closes>>
       \/ http = "Disconnecting" /\ OverWebSocket /\ StopConnection
       \/ /\ http = "Disconnecting" /\ ~OverWebSocket
          /\ line' = "aborted" /\ awaits' = "stop"
          /\ UNCHANGED <<hub, hubStarted, stopError, callbacks, timeout, ping, http,
                         httpStarted, start, closes>>
    /\ UNCHANGED <<alive, offered, handshook, tried>>

(* The transport is open: the handshake request goes out, with a WebSocket *)
(* at once.  If stop() was called it is the stop that goes on.             *)
TransportStarted ==
    /\ awaits = "transport" /\ alive
    /\ \/ /\ http = "Connecting"
          /\ http' = "Connected" /\ httpStarted' = TRUE /\ line' = "open"
          /\ awaits' = IF OverWebSocket THEN "handshake" ELSE "request"
          /\ timeout' = OverWebSocket
          /\ UNCHANGED <<hub, hubStarted, stopError, callbacks, ping, start, closes>>
       \/ http = "Disconnecting" /\ OverWebSocket /\ StopConnection
       \/ /\ http = "Disconnecting" /\ ~OverWebSocket
          /\ line' = "aborted" /\ awaits' = "stop"
          /\ UNCHANGED <<hub, hubStarted, stopError, callbacks, timeout, ping, http,
                         httpStarted, start, closes>>
    /\ UNCHANGED <<alive, offered, handshook, tried>>

(* The first poll ends with an answer that is neither 200 nor an error:    *)
(* the transport is dropped.  If the connection is connecting it goes on   *)
(* without one: the handshake cannot be sent, and start() awaits a stop    *)
(* that nothing will end.                                                  *)
FirstPollEnds ==
    /\ awaits = "transport" /\ alive /\ OverLongPolling
    /\ \/ http = "Disconnecting" /\ HttpStartFails
       \/ /\ http = "Connecting"
          /\ http' = "Disconnecting" /\ httpStarted' = TRUE /\ line' = "dropped"
          /\ awaits' = "stop"
          /\ UNCHANGED <<alive, offered, hub, hubStarted, stopError, handshook, callbacks,
                         timeout, ping, tried, start, closes>>

(* A wrong variant, for a mutant: the handshake is all that counts. *)
StartGoesOn_NoCheck ==
    /\ UNCHANGED <<callbacks, closes, stopError>>
    /\ hub' = "Connected" /\ hubStarted' = TRUE
    /\ awaits' = "nothing" /\ start' = "kept"

(* start() goes on behind the handshake: it is over, or it was stopped and *)
(* awaits the end of that.                                                 *)
StartGoesOn ==
    /\ UNCHANGED <<callbacks, closes, stopError>>
    /\ \/ /\ ~stopError
          /\ hub' = "Connected" /\ hubStarted' = TRUE
          /\ awaits' = "nothing" /\ start' = "kept"
       \/ /\ stopError
          /\ awaits' = "stop"
          /\ UNCHANGED <<hub, hubStarted, start>>

(* The request of the handshake, posted with long polling, was taken. *)
RequestSent ==
    /\ awaits = "request"
    /\ alive
    /\ \/ http = "Disconnected" /\ StartRejected
       \/ http # "Disconnected" /\ handshook /\ StartGoesOn /\ UNCHANGED <<timeout, ping>>
       \/ /\ http # "Disconnected" /\ ~handshook
          /\ awaits' = "handshake"
          /\ UNCHANGED <<hub, hubStarted, stopError, callbacks, timeout, ping, start, closes>>
    /\ UNCHANGED <<alive, offered, handshook, tried, httpVars>>

(* It was not: start() stops the connection and awaits the end of that. *)
RequestFails ==
    /\ awaits = "request"
    /\ \/ http = "Disconnected" /\ StartRejected /\ UNCHANGED httpVars
       \/ /\ http # "Disconnected" /\ HttpStop
          /\ awaits' = "stop"
          /\ UNCHANGED <<hub, hubStarted, stopError, callbacks, timeout, ping, start, closes>>
    /\ UNCHANGED <<alive, offered, handshook, tried>>

-----------------------------------------------------------------------------
(* What arrives, also while polling is aborted.                            *)
Receives == alive /\ line \in {"open", "aborted"} /\ httpStarted

(* The handshake's answer. *)
HandshakeDone ==
    /\ Receives /\ ~handshook
    /\ handshook' = TRUE
    /\ timeout' = OverWebSocket /\ ping' = FALSE
    /\ IF awaits = "handshake" THEN StartGoesOn
       ELSE UNCHANGED <<hub, hubStarted, stopError, callbacks, awaits, start, closes>>
    /\ UNCHANGED <<alive, offered, tried, httpVars>>

(* A Close message follows in the same data, before start() goes on. *)
HandshakeWithClose ==
    /\ Receives /\ ~handshook
    /\ handshook' = TRUE
    /\ \/ ClosesAtOnce /\ StopConnection
       \/ /\ ~ClosesAtOnce /\ HttpStop
          /\ IF awaits = "handshake" THEN StartGoesOn
             ELSE UNCHANGED <<hub, hubStarted, stopError, callbacks, awaits, start, closes>>
          /\ UNCHANGED <<timeout, ping>>
       \/ /\ ~ClosesAtOnce /\ HttpStop
          /\ hub = "Connecting" /\ hub' = "Disconnecting" /\ stopError' = TRUE
          /\ awaits' = IF awaits = "handshake" THEN "stop" ELSE awaits
          /\ UNCHANGED <<hubStarted, callbacks, timeout, ping, start, closes>>
    /\ UNCHANGED <<alive, offered, tried>>

(* The handshake is refused, or its answer makes no sense: the transport   *)
(* closes, unless it does already.                                         *)
HandshakeRefused ==
    /\ Receives /\ ~handshook
    /\ \/ http = "Connected" /\ StopConnection
       \/ /\ http = "Disconnecting"
          /\ awaits' = IF awaits = "handshake" THEN "stop" ELSE awaits
          /\ UNCHANGED <<hub, hubStarted, stopError, callbacks, timeout, ping, start, closes, httpVars>>
    /\ UNCHANGED <<alive, offered, handshook, tried>>

(* A wrong variant, for a mutant: what arrives stops the timer and does    *)
(* not start it again.                                                     *)
Received_NoReset ==
    /\ Receives /\ handshook
    /\ callbacks' \in {callbacks} \cup {n \in {callbacks - 1} : callbacks > 0}
    /\ timeout' = FALSE /\ ping' = OverWebSocket
    /\ UNCHANGED <<alive, offered, hub, hubStarted, stopError, handshook, http, httpStarted,
                   tried, line, awaits, start, closes>>

(* A message, perhaps the answer to an invocation. *)
Received ==
    /\ Receives /\ handshook
    /\ callbacks' \in {callbacks} \cup {n \in {callbacks - 1} : callbacks > 0}
    /\ timeout' = OverWebSocket /\ ping' = OverWebSocket
    /\ UNCHANGED <<alive, offered, hub, hubStarted, stopError, handshook, http, httpStarted,
                   tried, line, awaits, start, closes>>

(* A Close message that allows to reconnect, and one that does not. *)
CloseReceived ==
    /\ Receives /\ handshook
    /\ \/ ClosesAtOnce /\ StopConnection
       \/ ~ClosesAtOnce /\ HttpStop /\ UNCHANGED hubVars
       \/ StopInternal
    /\ UNCHANGED <<alive, offered, handshook, tried>>

-----------------------------------------------------------------------------
(* The application, the timers and the network.                            *)

(* stop(): ignored unless there is something to stop. *)
Stop == StopInternal /\ UNCHANGED <<alive, offered, handshook, tried>>

(* invoke() and stream(); on a connection that is not connected any more   *)
(* they fail at once.                                                      *)
Invoke ==
    /\ hub = "Connected" /\ http = "Connected" /\ callbacks < MaxCallbacks
    /\ callbacks' = callbacks + 1 /\ ping' = FALSE
    /\ UNCHANGED <<alive, offered, hub, hubStarted, stopError, handshook, timeout, http,
                   httpStarted, tried, line, awaits, start, closes>>

(* What was invoked could not be sent. *)
SendFails ==
    /\ callbacks > 0 /\ callbacks' = callbacks - 1
    /\ UNCHANGED <<alive, offered, hub, hubStarted, stopError, handshook, timeout, ping, http,
                   httpStarted, tried, line, awaits, start, closes>>

SendPing ==
    /\ ping /\ ping' = FALSE
    /\ UNCHANGED <<alive, offered, hub, hubStarted, stopError, handshook, callbacks, timeout,
                   http, httpStarted, tried, line, awaits, start, closes>>

ServerTimeout ==
    /\ timeout
    /\ StopConnection
    /\ UNCHANGED <<alive, offered, handshook, tried>>

(* The socket closes, or a poll fails or is the last one. *)
LineLost ==
    /\ line = "open" /\ http = "Connected"
    /\ StopConnection
    /\ UNCHANGED <<alive, offered, handshook, tried>>

(* The DELETE was answered or given up. *)
PollingStopped ==
    /\ line = "aborted"
    /\ StopConnection
    /\ UNCHANGED <<alive, offered, handshook, tried>>

(* The server is gone without a word: nothing more is answered. *)
ServerFallsSilent ==
    /\ alive /\ alive' = FALSE
    /\ UNCHANGED <<offered, handshook, tried, hubVars, httpVars>>

Starting == \/ Start \/ Negotiated \/ NegotiationFails \/ TransportFails
            \/ TransportStarted \/ FirstPollEnds \/ RequestSent \/ RequestFails
Arriving == \/ HandshakeDone \/ HandshakeWithClose \/ HandshakeRefused
            \/ Received \/ CloseReceived
Other == \/ Stop \/ Invoke \/ SendFails \/ SendPing \/ ServerTimeout
         \/ LineLost \/ PollingStopped \/ ServerFallsSilent

Next == Starting \/ Arriving \/ Other

Spec == Init /\ [][Next]_vars

(* Requests are answered or time out, a socket opens or fails, the server  *)
(* that lives answers the handshake, and the timer runs out when nothing   *)
(* arrives any more.                                                       *)
FairSpec ==
    /\ Spec
    /\ WF_vars(Negotiated \/ NegotiationFails)
    /\ WF_vars(TransportStarted \/ TransportFails \/ FirstPollEnds)
    /\ WF_vars(RequestSent \/ RequestFails)
    /\ WF_vars(HandshakeDone \/ HandshakeWithClose \/ HandshakeRefused)
    /\ WF_vars(PollingStopped)
    /\ WF_vars(~alive /\ ServerTimeout)

-----------------------------------------------------------------------------
TypeOK ==
    /\ {alive, hubStarted, stopError, handshook, timeout, ping, httpStarted} \subseteq BOOLEAN
    /\ offered \in Offers
    /\ {hub, http} \subseteq States
    /\ callbacks \in Nat /\ closes \in Nat
    /\ tried \in 0 .. Len(offered)
    /\ line \in {"none", "opening", "open", "aborted", "dropped"}
    /\ awaits \in Awaited
    /\ start \in {"none", "pending", "kept", "rejected"}
    /\ start = "pending" <=> awaits # "nothing"

(* The hub's state, its start and the state of the connection under it     *)
(* agree: a hub that is connected has a connection that is or is stopping, *)
(* and one that is disconnected has none.                                  *)
StatesAgree ==
    /\ hubStarted => start = "kept" /\ httpStarted /\ hub \in {"Connected", "Disconnecting"}
    /\ start = "none" => hub = "Disconnected" /\ tried = 0 /\ ~stopError
    /\ hub = "Connected" => hubStarted
    /\ hub \in {"Connecting", "Disconnecting"} /\ ~hubStarted => start = "pending"
    /\ start = "pending" => hub \in {"Connecting", "Disconnecting"} /\ ~hubStarted
    /\ hub = "Disconnected" => http = "Disconnected"
    /\ hub = "Disconnecting" => stopError /\ http \notin {"Connecting", "Connected"}
    /\ stopError /\ hub = "Connecting" => http = "Disconnected"

(* The line is there as long as the connection needs it. *)
LineAgrees ==
    /\ http = "Connected" => line = "open" /\ httpStarted
    /\ line = "open" => http = "Connected"
    /\ line = "aborted" => http = "Disconnecting" /\ ~OverWebSocket
    /\ httpStarted => line \in {"open", "aborted", "dropped"}
    /\ line = "dropped" =>
         /\ http = "Disconnecting" /\ httpStarted /\ awaits = "stop"
         /\ OverLongPolling /\ ~handshook
    /\ line = "aborted" => httpStarted \/ awaits = "stop"
    /\ http = "Connecting" => awaits \in {"negotiation", "transport"}
    /\ awaits \in {"negotiation", "transport"} => http \in {"Connecting", "Disconnecting"} /\ ~httpStarted
    /\ awaits = "transport" <=> line = "opening"
    /\ awaits = "request" => ~OverWebSocket
    /\ awaits = "handshake" => httpStarted
    /\ handshook => start # "none" /\ awaits \notin {"negotiation", "transport", "handshake"}
    /\ awaits = "stop" => line \in {"aborted", "dropped"}
    /\ http = "Disconnecting" => \/ awaits \in {"negotiation", "transport"}
                                 \/ line \in {"aborted", "dropped"}
    /\ awaits = "negotiation" => tried < Len(offered)
    /\ line # "none" => tried # 0

(* What was invoked is waited for only while it may be answered, or will   *)
(* be rejected by the end of the connection.                               *)
CallbacksCanEnd == callbacks > 0 => hubStarted /\ httpStarted

(* The timer that notices a silent server runs whenever a WebSocket is     *)
(* open, and never otherwise: no timer of a connection outlives it.        *)
TimersGuardTheLine ==
    /\ timeout <=> http = "Connected" /\ OverWebSocket
    /\ ping => timeout /\ hub = "Connected"

(* The inductive invariant of the connection. *)
HubInvariant ==
    /\ TypeOK
    /\ StatesAgree
    /\ LineAgrees
    /\ CallbacksCanEnd
    /\ TimersGuardTheLine

(* onclose is called once for a start that was kept, when the connection   *)
(* is over, and never for one that failed.                                 *)
ClosedOncePerStart ==
    closes = IF start = "kept" /\ ~hubStarted THEN 1 ELSE 0

(* A start settles, also when it is stopped and when the server falls      *)
(* silent.  It does not in two cases, both of long polling: while it waits *)
(* for the handshake of a silent server, since polls that time out are     *)
(* made again for ever, and when its first poll dropped the transport.     *)
StartSettles ==
    start = "pending" ~>
        \/ start # "pending"
        \/ awaits = "handshake" /\ OverLongPolling /\ ~alive
        \/ line = "dropped"

(* A stop ends, also when the server is silent, but not after a first poll *)
(* that dropped the transport.                                             *)
StopSettles == hub = "Disconnecting" ~> hub = "Disconnected" \/ line = "dropped"

(* With a WebSocket a silent server is noticed, and whatever was invoked   *)
(* is rejected.                                                            *)
SilenceIsNoticed ==
    hub = "Connected" /\ ~alive /\ OverWebSocket ~> hub = "Disconnected" /\ callbacks = 0

(* The connection is the HubClient the page believes it to be. *)
ClientState ==
    CASE start = "none" -> "idle"
      [] start = "pending" /\ hub = "Connecting" -> "connecting"
      [] start = "pending" /\ hub # "Connecting" -> "stopping"
      [] start = "rejected" -> "failed"
      [] start = "kept" /\ hub = "Connected" -> "connected"
      [] start = "kept" /\ hub = "Disconnecting" -> "closing"
      [] OTHER -> "closed"

Client == INSTANCE HubClient WITH state <- ClientState, pending <- callbacks
IsAHubClient == Client!Spec
=============================================================================
