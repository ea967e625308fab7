------------------------- MODULE HubConnectionProofs -------------------------
(***************************************************************************)
(* Proofs about HubConnection, for every set of offers and every number of *)
(* invocations: its invariant, that onclose is called once per start, and  *)
(* that the connection is the HubClient the page builds on.                *)
(***************************************************************************)
EXTENDS HubConnection, TLAPS

-----------------------------------------------------------------------------
(* What steps leave alone. *)
ServerUnchanged == UNCHANGED <<alive, offered, handshook, tried>>

LEMMA HubInit == Init => HubInvariant /\ ClosedOncePerStart
<1> SUFFICES ASSUME Init PROVE HubInvariant /\ ClosedOncePerStart
  OBVIOUS
<1>1. Len(offered) \in Nat /\ 0 \in 0 .. Len(offered) /\ 0 < Len(offered)
  BY HubAssumption DEF Init
<1>2. {alive, hubStarted, stopError, handshook, timeout, ping, httpStarted} \subseteq BOOLEAN
  BY DEF Init
<1>3. TypeOK
  BY <1>1, <1>2 DEF Init, TypeOK, States, Awaited
<1>4. StatesAgree /\ CallbacksCanEnd /\ TimersGuardTheLine /\ ClosedOncePerStart
  BY DEF Init, StatesAgree, CallbacksCanEnd, TimersGuardTheLine, ClosedOncePerStart
<1>5. LineAgrees
  BY <1>1 DEF Init, LineAgrees
<1> QED BY <1>3, <1>4, <1>5 DEF HubInvariant

(* The end of the connection under the hub, for whatever reason. *)
LEMMA ConnectionEnds ==
    ASSUME HubInvariant, StopConnection, http # "Disconnected",
           UNCHANGED <<alive, offered, tried>>, handshook' \in {handshook, TRUE}
    PROVE  HubInvariant'
<1>1. TypeOK'
  <2>1. {alive, hubStarted, stopError, handshook, timeout, ping, httpStarted}' \subseteq BOOLEAN
    BY DEF HubInvariant, TypeOK, StopConnection, ConnectionClosed, StartRejected
  <2>2. callbacks' \in Nat /\ closes' \in Nat
    BY DEF HubInvariant, TypeOK, StopConnection, ConnectionClosed, StartRejected
  <2>3. (start = "pending" <=> awaits # "nothing")'
    BY DEF HubInvariant, TypeOK, StatesAgree, StopConnection, ConnectionClosed, StartRejected
  <2>4. /\ {hub, http}' \subseteq States
        /\ line' \in {"none", "opening", "open", "aborted", "dropped"}
        /\ awaits' \in Awaited
        /\ start' \in {"none", "pending", "kept", "rejected"}
    BY DEF HubInvariant, TypeOK, States, Awaited, StopConnection, ConnectionClosed,
           StartRejected
  <2> QED BY <2>1, <2>2, <2>3, <2>4 DEF HubInvariant, TypeOK
<1>2. StatesAgree'
  BY DEF HubInvariant, TypeOK, StatesAgree, LineAgrees, StopConnection, ConnectionClosed,
         StartRejected
<1>3. LineAgrees'
  BY DEF HubInvariant, TypeOK, StatesAgree, LineAgrees, StopConnection, ConnectionClosed,
         StartRejected, OverWebSocket, OverLongPolling, Transport
<1>4. CallbacksCanEnd' /\ TimersGuardTheLine'
  BY DEF HubInvariant, TypeOK, StatesAgree, LineAgrees, CallbacksCanEnd,
         TimersGuardTheLine, StopConnection, ConnectionClosed, StartRejected
<1> QED BY <1>1, <1>2, <1>3, <1>4 DEF HubInvariant

(* A stop that is not over at once: the start finds out, or polling is     *)
(* aborted.                                                                *)
LEMMA StopBegins ==
    ASSUME HubInvariant, StopInternal, ~ClosesAtOnce, ServerUnchanged
    PROVE  HubInvariant'
<1> USE DEF ServerUnchanged
<1>1. /\ hub \in {"Connecting", "Connected"} /\ HttpStop
      /\ hub' = "Disconnecting" /\ stopError' = TRUE
      /\ timeout' = FALSE /\ ping' = FALSE
      /\ UNCHANGED <<hubStarted, callbacks, awaits, start, closes>>
  BY DEF StopInternal
<1>2. CASE http = "Connected" /\ ~OverWebSocket /\ AbortPolling
  BY <1>1, <1>2 DEF HubInvariant, TypeOK, StatesAgree, LineAgrees, CallbacksCanEnd,
     TimersGuardTheLine, States, OverWebSocket, OverLongPolling, Transport, AbortPolling
<1>3. CASE http = "Connecting" /\ http' = "Disconnecting" /\ UNCHANGED <<httpStarted, line>>
  BY <1>1, <1>3 DEF HubInvariant, TypeOK, StatesAgree, LineAgrees, CallbacksCanEnd,
     TimersGuardTheLine, States, OverWebSocket, OverLongPolling, Transport
<1>4. CASE http \in {"Disconnecting", "Disconnected"} /\ UNCHANGED httpVars
  BY <1>1, <1>4 DEF HubInvariant, TypeOK, StatesAgree, LineAgrees, CallbacksCanEnd,
     TimersGuardTheLine, States, OverWebSocket, OverLongPolling, Transport, httpVars
<1> QED BY <1>1, <1>2, <1>3, <1>4 DEF HttpStop

(* The start fails below the hub. *)
LEMMA StartEnds ==
    ASSUME HubInvariant, HttpStartFails, awaits \in {"negotiation", "transport"}
    PROVE  HubInvariant'
BY DEF HubInvariant, TypeOK, StatesAgree, LineAgrees, CallbacksCanEnd,
     TimersGuardTheLine, States, Awaited, OverWebSocket, OverLongPolling, Transport, HttpStartFails, StartRejected

(* The handshake is answered while start() awaits it, or its request; the  *)
(* connection under the hub is as it was or is being aborted.              *)
LEMMA HandshakeEnds ==
    ASSUME HubInvariant, StartGoesOn, handshook' = TRUE, httpStarted,
           awaits \in {"request", "handshake"},
           UNCHANGED <<alive, offered, tried, httpStarted>>, line # "dropped",
           \/ UNCHANGED <<http, line>>
           \/ AbortPolling /\ ~OverWebSocket,
           timeout' \in BOOLEAN, timeout' <=> http' = "Connected" /\ OverWebSocket,
           ping' = FALSE
    PROVE  HubInvariant'
<1>1. TypeOK'
  <2>1. {alive, hubStarted, stopError, handshook, timeout, ping, httpStarted}' \subseteq BOOLEAN
    BY DEF HubInvariant, TypeOK, StartGoesOn
  <2>2. /\ {hub, http}' \subseteq States
        /\ line' \in {"none", "opening", "open", "aborted", "dropped"}
        /\ awaits' \in Awaited
        /\ start' \in {"none", "pending", "kept", "rejected"}
        /\ (start = "pending" <=> awaits # "nothing")'
    BY DEF HubInvariant, TypeOK, States, Awaited, StartGoesOn, AbortPolling
  <2> QED BY <2>1, <2>2 DEF HubInvariant, TypeOK, StartGoesOn
<1>2. StatesAgree'
  BY DEF HubInvariant, TypeOK, StatesAgree, LineAgrees, StartGoesOn, AbortPolling
<1>3. LineAgrees'
  BY DEF HubInvariant, TypeOK, StatesAgree, LineAgrees, StartGoesOn, AbortPolling,
         OverWebSocket, OverLongPolling, Transport
<1>4. CallbacksCanEnd' /\ TimersGuardTheLine'
  BY DEF HubInvariant, TypeOK, StatesAgree, LineAgrees, CallbacksCanEnd, TimersGuardTheLine,
         StartGoesOn, OverWebSocket, OverLongPolling, Transport
<1> QED BY <1>1, <1>2, <1>3, <1>4 DEF HubInvariant

-----------------------------------------------------------------------------
(* The steps, one by one. *)

LEMMA StartKeeps ==
    ASSUME HubInvariant, Start
    PROVE  HubInvariant'
<1>1. tried = 0 /\ start = "none" /\ UNCHANGED <<tried, offered>>
  BY DEF Start, HubInvariant, StatesAgree
<1>2. tried' < Len(offered')
  BY <1>1, HubAssumption DEF HubInvariant, TypeOK
<1> QED BY <1>1, <1>2 DEF HubInvariant, TypeOK, StatesAgree, LineAgrees, CallbacksCanEnd,
     TimersGuardTheLine, States, Awaited, OverWebSocket, OverLongPolling, Transport, Start

LEMMA NegotiatedKeeps ==
    ASSUME HubInvariant, Negotiated
    PROVE  HubInvariant'
<1>1. CASE HttpStartFails
  BY <1>1, StartEnds DEF Negotiated
<1>2. CASE ~HttpStartFails
  <2>1. /\ Len(offered) \in Nat /\ tried \in 0 .. Len(offered)
        /\ awaits = "negotiation" /\ tried < Len(offered)
    BY <1>2, HubAssumption DEF Negotiated, HubInvariant, TypeOK, LineAgrees
  <2>2. tried' = tried + 1
    BY <1>2 DEF Negotiated
  <2>7. tried' \in 0 .. Len(offered) /\ tried' # 0
    BY <2>1, <2>2
  <2>3. /\ line' = "opening" /\ awaits' = "transport"
        /\ UNCHANGED <<alive, offered, hub, hubStarted, stopError, handshook, callbacks,
                       timeout, ping, http, httpStarted, start, closes>>
    BY <1>2 DEF Negotiated
  <2>4. TypeOK'
    BY <2>1, <2>7, <2>3 DEF HubInvariant, TypeOK, Awaited
  <2>5. (StatesAgree /\ CallbacksCanEnd /\ TimersGuardTheLine)'
    BY <2>1, <2>7, <2>3 DEF HubInvariant, TypeOK, StatesAgree, LineAgrees, CallbacksCanEnd,
       TimersGuardTheLine
  <2>6. LineAgrees'
    BY <2>1, <2>7, <2>3 DEF HubInvariant, TypeOK, StatesAgree, LineAgrees
  <2> QED BY <2>4, <2>5, <2>6 DEF HubInvariant
<1> QED BY <1>1, <1>2

LEMMA TransportStartedKeeps ==
    ASSUME HubInvariant, TransportStarted
    PROVE  HubInvariant'
<1>1. CASE StopConnection
  BY <1>1, ConnectionEnds DEF TransportStarted, ServerUnchanged, HubInvariant, LineAgrees
<1>2. CASE http = "Connecting" /\ ~StopConnection
  BY <1>2 DEF HubInvariant, TypeOK, StatesAgree, LineAgrees, CallbacksCanEnd,
     TimersGuardTheLine, States, Awaited, OverWebSocket, OverLongPolling, Transport, TransportStarted
<1>3. CASE http = "Disconnecting" /\ ~StopConnection
  BY <1>3 DEF HubInvariant, TypeOK, StatesAgree, LineAgrees, CallbacksCanEnd,
     TimersGuardTheLine, States, Awaited, OverWebSocket, OverLongPolling, Transport, TransportStarted
<1> QED BY <1>1, <1>2, <1>3 DEF TransportStarted

LEMMA FirstPollEndsKeeps ==
    ASSUME HubInvariant, FirstPollEnds
    PROVE  HubInvariant'
<1>1. CASE HttpStartFails
  BY <1>1, StartEnds DEF FirstPollEnds
<1>2. CASE http = "Connecting" /\ ~HttpStartFails
  BY <1>2 DEF HubInvariant, TypeOK, StatesAgree, LineAgrees, CallbacksCanEnd,
     TimersGuardTheLine, States, Awaited, OverWebSocket, OverLongPolling, Transport, FirstPollEnds
<1> QED BY <1>1, <1>2 DEF FirstPollEnds

LEMMA RequestSentKeeps ==
    ASSUME HubInvariant, RequestSent
    PROVE  HubInvariant'
<1> USE DEF httpVars
<1>1. CASE http = "Disconnected"
  BY <1>1 DEF HubInvariant, TypeOK, StatesAgree, LineAgrees, CallbacksCanEnd,
     TimersGuardTheLine, States, Awaited, OverWebSocket, OverLongPolling, Transport, RequestSent, StartRejected
<1>2. CASE http # "Disconnected" /\ handshook
  <2>1. httpStarted /\ ~OverWebSocket /\ ~timeout /\ ~ping /\ line # "dropped"
    BY <1>2 DEF HubInvariant, TypeOK, StatesAgree, LineAgrees, CallbacksCanEnd,
     TimersGuardTheLine, States, Awaited, OverWebSocket, OverLongPolling, Transport, RequestSent
  <2>2. /\ StartGoesOn /\ awaits = "request"
        /\ UNCHANGED <<alive, offered, handshook, tried, http, httpStarted, line, timeout, ping>>
    BY <1>2 DEF RequestSent
  <2>3. handshook' = TRUE /\ timeout' = FALSE /\ ping' = FALSE
    BY <1>2, <2>1, <2>2 DEF HubInvariant, TypeOK
  <2> QED BY <2>1, <2>2, <2>3, HandshakeEnds
<1>3. CASE http # "Disconnected" /\ ~handshook
  BY <1>3 DEF HubInvariant, TypeOK, StatesAgree, LineAgrees, CallbacksCanEnd,
     TimersGuardTheLine, States, Awaited, OverWebSocket, OverLongPolling, Transport, RequestSent
<1> QED BY <1>1, <1>2, <1>3 DEF RequestSent

LEMMA HandshakeWithCloseKeeps ==
    ASSUME HubInvariant, HandshakeWithClose
    PROVE  HubInvariant'
<1>0. line # "dropped"
  BY DEF HandshakeWithClose, Receives
<1>1. /\ httpStarted /\ ~handshook /\ handshook' = TRUE /\ UNCHANGED <<alive, offered, tried>>
  BY DEF HandshakeWithClose, Receives
<1>2. CASE ClosesAtOnce /\ StopConnection
  BY <1>1, <1>2, ConnectionEnds DEF ClosesAtOnce
<1>3. CASE ~ClosesAtOnce /\ HttpStop
  <2>1. /\ UNCHANGED httpStarted /\ http' = "Disconnecting" /\ line' = "aborted"
        /\ ~OverWebSocket /\ ~timeout
        /\ UNCHANGED <<http, line>> \/ AbortPolling
    BY <1>0, <1>1, <1>3 DEF HttpStop, AbortPolling, httpVars, ClosesAtOnce, HubInvariant, TypeOK,
       StatesAgree, LineAgrees, TimersGuardTheLine, States
  <2>2. CASE awaits = "handshake" /\ StartGoesOn /\ UNCHANGED <<timeout, ping>>
    <3>1. timeout' = FALSE /\ ping' = FALSE
      BY <2>1, <2>2 DEF HubInvariant, TypeOK, TimersGuardTheLine
    <3> QED BY <1>0, <1>1, <2>1, <2>2, <3>1, HandshakeEnds
  <2>3. CASE awaits # "handshake" /\ UNCHANGED hubVars
    BY <1>0, <1>1, <2>1, <2>3 DEF hubVars, HubInvariant, TypeOK, StatesAgree, LineAgrees, CallbacksCanEnd,
     TimersGuardTheLine, States, Awaited, OverWebSocket, OverLongPolling, Transport
  <2>4. CASE /\ hub = "Connecting" /\ hub' = "Disconnecting" /\ stopError' = TRUE
             /\ awaits' = IF awaits = "handshake" THEN "stop" ELSE awaits
             /\ UNCHANGED <<hubStarted, callbacks, timeout, ping, start, closes>>
    BY <1>0, <1>1, <2>1, <2>4 DEF HubInvariant, TypeOK, StatesAgree, LineAgrees, CallbacksCanEnd,
     TimersGuardTheLine, States, Awaited, OverWebSocket, OverLongPolling, Transport
  <2> QED BY <1>3, <2>2, <2>3, <2>4 DEF HandshakeWithClose, hubVars
<1> QED BY <1>2, <1>3 DEF HandshakeWithClose

LEMMA HandshakeRefusedKeeps ==
    ASSUME HubInvariant, HandshakeRefused
    PROVE  HubInvariant'
<1>1. CASE http = "Connected"
  BY <1>1, ConnectionEnds DEF HandshakeRefused, ServerUnchanged
<1>2. CASE http = "Disconnecting"
  BY <1>2 DEF HubInvariant, TypeOK, StatesAgree, LineAgrees, CallbacksCanEnd,
     TimersGuardTheLine, States, Awaited, OverWebSocket, OverLongPolling, Transport, HandshakeRefused, httpVars, Receives
<1> QED BY <1>1, <1>2 DEF HandshakeRefused

LEMMA StopKeeps ==
    ASSUME HubInvariant, StopInternal, ServerUnchanged
    PROVE  HubInvariant'
<1>1. CASE ClosesAtOnce
  BY <1>1, ConnectionEnds DEF StopInternal, ClosesAtOnce, ServerUnchanged
<1>2. CASE ~ClosesAtOnce
  BY <1>2, StopBegins
<1> QED BY <1>1, <1>2

LEMMA CloseReceivedKeeps ==
    ASSUME HubInvariant, CloseReceived
    PROVE  HubInvariant'
<1>1. CASE ClosesAtOnce /\ StopConnection
  BY <1>1, ConnectionEnds DEF CloseReceived, ServerUnchanged, ClosesAtOnce
<1>2. CASE ~ClosesAtOnce /\ HttpStop /\ UNCHANGED hubVars
  BY <1>2 DEF HubInvariant, TypeOK, StatesAgree, LineAgrees, CallbacksCanEnd,
     TimersGuardTheLine, States, Awaited, OverWebSocket, OverLongPolling, Transport, CloseReceived, Receives, ClosesAtOnce, HttpStop, AbortPolling, httpVars, hubVars
<1>3. CASE StopInternal
  BY <1>3, StopKeeps DEF CloseReceived, ServerUnchanged
<1> QED BY <1>1, <1>2, <1>3 DEF CloseReceived

LEMMA InvokeKeeps ==
    ASSUME HubInvariant, Invoke
    PROVE  HubInvariant'
<1>1. callbacks + 1 \in Nat
  BY DEF HubInvariant, TypeOK
<1> QED BY <1>1 DEF HubInvariant, TypeOK, StatesAgree, LineAgrees, CallbacksCanEnd,
     TimersGuardTheLine, States, Awaited, OverWebSocket, OverLongPolling, Transport, Invoke

LEMMA HubNext ==
    ASSUME HubInvariant, [Next]_vars
    PROVE  HubInvariant'
<1>1. CASE Start
  BY <1>1, StartKeeps
<1>2. CASE Negotiated
  BY <1>2, NegotiatedKeeps
<1>3. CASE NegotiationFails
  BY <1>3, StartEnds DEF NegotiationFails
<1>4. CASE TransportFails
  BY <1>4 DEF HubInvariant, TypeOK, StatesAgree, LineAgrees, CallbacksCanEnd,
     TimersGuardTheLine, States, Awaited, OverWebSocket, OverLongPolling, Transport, TransportFails, HttpStartFails, StartRejected
<1>5. CASE TransportStarted
  BY <1>5, TransportStartedKeeps
<1>6. CASE RequestSent
  BY <1>6, RequestSentKeeps
<1>7. CASE RequestFails
  BY <1>7 DEF HubInvariant, TypeOK, StatesAgree, LineAgrees, CallbacksCanEnd,
     TimersGuardTheLine, States, Awaited, OverWebSocket, OverLongPolling, Transport, RequestFails, HttpStop, AbortPolling, StartRejected, httpVars
<1>8. CASE HandshakeDone
  BY <1>8 DEF HubInvariant, TypeOK, StatesAgree, LineAgrees, CallbacksCanEnd,
     TimersGuardTheLine, States, Awaited, OverWebSocket, OverLongPolling, Transport, HandshakeDone, StartGoesOn, Receives, httpVars
<1>9. CASE HandshakeWithClose
  BY <1>9, HandshakeWithCloseKeeps
<1>10. CASE HandshakeRefused
  BY <1>10, HandshakeRefusedKeeps
<1>11. CASE Received
  BY <1>11 DEF HubInvariant, TypeOK, StatesAgree, LineAgrees, CallbacksCanEnd,
     TimersGuardTheLine, States, Awaited, OverWebSocket, OverLongPolling, Transport, Received, Receives
<1>12. CASE CloseReceived
  BY <1>12, CloseReceivedKeeps
<1>13. CASE Stop
  BY <1>13, StopKeeps DEF Stop, ServerUnchanged
<1>14. CASE Invoke
  BY <1>14, InvokeKeeps
<1>15. CASE SendFails
  BY <1>15 DEF HubInvariant, TypeOK, StatesAgree, LineAgrees, CallbacksCanEnd,
     TimersGuardTheLine, States, Awaited, OverWebSocket, OverLongPolling, Transport, SendFails
<1>16. CASE SendPing
  BY <1>16 DEF HubInvariant, TypeOK, StatesAgree, LineAgrees, CallbacksCanEnd,
     TimersGuardTheLine, States, Awaited, OverWebSocket, OverLongPolling, Transport, SendPing
<1>17. CASE ServerTimeout
  BY <1>17, ConnectionEnds DEF ServerTimeout, HubInvariant, TypeOK, TimersGuardTheLine
<1>18. CASE LineLost
  BY <1>18, ConnectionEnds DEF LineLost
<1>19. CASE PollingStopped
  BY <1>19, ConnectionEnds DEF PollingStopped, HubInvariant, LineAgrees
<1>20. CASE ServerFallsSilent
  BY <1>20 DEF HubInvariant, TypeOK, StatesAgree, LineAgrees, CallbacksCanEnd,
     TimersGuardTheLine, States, Awaited, OverWebSocket, OverLongPolling, Transport, ServerFallsSilent, hubVars, httpVars
<1>21. CASE FirstPollEnds
  BY <1>21, FirstPollEndsKeeps
<1>22. CASE UNCHANGED vars
  BY <1>22 DEF HubInvariant, TypeOK, StatesAgree, LineAgrees, CallbacksCanEnd,
     TimersGuardTheLine, States, Awaited, OverWebSocket, OverLongPolling, Transport, vars, hubVars, httpVars
<1> QED
  BY <1>1, <1>2, <1>3, <1>4, <1>5, <1>6, <1>7, <1>8, <1>9, <1>10, <1>11, <1>12, <1>13, <1>14,
     <1>15, <1>16, <1>17, <1>18, <1>19, <1>20, <1>21, <1>22 DEF Next, Starting, Arriving, Other

(* The states of the hub's part, of the connection under it, of start()    *)
(* and of the timers agree in every reachable state.                       *)
THEOREM HubInvariantHolds == Spec => []HubInvariant
BY HubInit, HubNext, PTL DEF Spec

-----------------------------------------------------------------------------
(* What a step does to what the application sees of the connection.        *)

Seen == <<start, hub, hubStarted, callbacks, closes>>

StartsShape ==
    /\ start = "none" /\ start' = "pending" /\ hub' = "Connecting"
    /\ UNCHANGED <<hubStarted, callbacks, closes>>

RejectedShape ==
    /\ start = "pending" /\ start' = "rejected" /\ callbacks' = 0
    /\ UNCHANGED <<hubStarted, closes>>

KeptShape ==
    /\ start = "pending" /\ hub = "Connecting"
    /\ start' = "kept" /\ hub' = "Connected" /\ hubStarted' = TRUE
    /\ UNCHANGED <<callbacks, closes>>

StopsShape ==
    /\ hub \in {"Connecting", "Connected"} /\ hub' = "Disconnecting"
    /\ UNCHANGED <<start, hubStarted, callbacks, closes>>

ClosedShape ==
    /\ start = "kept" /\ hubStarted = TRUE /\ hub' = "Disconnected" /\ hubStarted' = FALSE
    /\ callbacks' = 0 /\ closes' = closes + 1
    /\ UNCHANGED start

UsedShape ==
    /\ \/ hub = "Connected" /\ callbacks' = callbacks + 1
       \/ callbacks > 0 /\ callbacks' = callbacks - 1
    /\ UNCHANGED <<start, hub, hubStarted, closes>>

SeenShape == \/ StartsShape \/ RejectedShape \/ KeptShape \/ StopsShape
             \/ ClosedShape \/ UsedShape \/ UNCHANGED Seen

LEMMA NextIsSeen ==
    ASSUME HubInvariant, [Next]_vars
    PROVE  SeenShape
<1> USE DEF SeenShape, Seen
<1>0. /\ hub \in States /\ hubStarted \in BOOLEAN /\ callbacks \in Nat
      /\ start = "pending" <=> awaits # "nothing"
      /\ callbacks > 0 => hubStarted
      /\ hubStarted => start = "kept" /\ hub \in {"Connected", "Disconnecting"}
      /\ start = "pending" => hub \in {"Connecting", "Disconnecting"} /\ ~hubStarted
  BY DEF HubInvariant, TypeOK, StatesAgree, CallbacksCanEnd
<1>1. ASSUME awaits # "nothing", StartRejected PROVE RejectedShape
  BY <1>0, <1>1 DEF StartRejected, RejectedShape
<1>2. ASSUME StopConnection, http # "Disconnected" PROVE SeenShape
  <2>1. CASE ~httpStarted
    <3>1. awaits # "nothing" /\ StartRejected
      BY <1>2, <2>1 DEF StopConnection, HubInvariant, LineAgrees, TypeOK, States
    <3> QED BY <1>1, <3>1
  <2>2. CASE httpStarted /\ hubStarted
    BY <1>0, <1>2, <2>2 DEF StopConnection, ConnectionClosed, ClosedShape
  <2>3. CASE httpStarted /\ ~hubStarted /\ awaits = "request"
    BY <1>0, <1>2, <2>3 DEF StopConnection, ConnectionClosed
  <2>4. CASE httpStarted /\ ~hubStarted /\ awaits # "request"
    <3>1. start = "pending"
      BY <1>0, <1>2, <2>4 DEF HubInvariant, StatesAgree, States
    <3> QED BY <1>0, <1>2, <2>4, <3>1 DEF StopConnection, ConnectionClosed, RejectedShape
  <2> QED BY <2>1, <2>2, <2>3, <2>4
<1>3. ASSUME StopInternal PROVE SeenShape
  <2>1. CASE ClosesAtOnce /\ StopConnection
    BY <1>2, <2>1 DEF ClosesAtOnce
  <2>2. CASE ~(ClosesAtOnce /\ StopConnection)
    BY <1>3, <2>2 DEF StopInternal, StopsShape
  <2> QED BY <2>1, <2>2
<1>4. ASSUME awaits \in {"request", "handshake"}, http # "Disconnected", StartGoesOn PROVE SeenShape
  <2>1. ~stopError => hub = "Connecting"
    BY <1>0, <1>4 DEF HubInvariant, StatesAgree
  <2> QED BY <1>0, <1>4, <2>1 DEF StartGoesOn, KeptShape
<1>5. CASE Start
  BY <1>5 DEF Start, StartsShape
<1>6. CASE Negotiated \/ NegotiationFails \/ TransportFails
  BY <1>1, <1>6 DEF Negotiated, NegotiationFails, TransportFails, HttpStartFails
<1>7. CASE TransportStarted
  BY <1>2, <1>7 DEF TransportStarted
<1>8. CASE RequestSent
  BY <1>1, <1>4, <1>8 DEF RequestSent
<1>9. CASE RequestFails
  BY <1>1, <1>9 DEF RequestFails
<1>10. CASE HandshakeDone
  <2>1. http # "Disconnected"
    BY <1>10 DEF HandshakeDone, Receives, HubInvariant, LineAgrees
  <2> QED BY <1>4, <1>10, <2>1 DEF HandshakeDone
<1>11. CASE HandshakeWithClose
  <2>1. http # "Disconnected"
    BY <1>11 DEF HandshakeWithClose, Receives, HubInvariant, LineAgrees
  <2>2. CASE hub = "Connecting" /\ hub' = "Disconnecting" /\ UNCHANGED <<start, hubStarted, callbacks, closes>>
    BY <2>2 DEF StopsShape
  <2> QED BY <1>2, <1>4, <1>11, <2>1, <2>2 DEF HandshakeWithClose
<1>12. CASE HandshakeRefused
  BY <1>2, <1>12 DEF HandshakeRefused
<1>13. CASE Received \/ SendFails
  BY <1>0, <1>13 DEF Received, SendFails, UsedShape
<1>14. CASE CloseReceived
  BY <1>2, <1>3, <1>14 DEF CloseReceived, ClosesAtOnce, hubVars
<1>15. CASE Stop
  BY <1>3, <1>15 DEF Stop
<1>16. CASE Invoke
  BY <1>16 DEF Invoke, UsedShape
<1>17. CASE ServerTimeout
  BY <1>2, <1>17 DEF ServerTimeout, HubInvariant, TimersGuardTheLine
<1>18. CASE LineLost \/ PollingStopped
  BY <1>2, <1>18 DEF LineLost, PollingStopped, HubInvariant, LineAgrees
<1>19. CASE SendPing \/ ServerFallsSilent \/ UNCHANGED vars
  BY <1>19 DEF SendPing, ServerFallsSilent, vars, hubVars
<1>20. CASE FirstPollEnds
  BY <1>1, <1>20 DEF FirstPollEnds, HttpStartFails
<1> QED
  BY <1>5, <1>6, <1>7, <1>8, <1>9, <1>10, <1>11, <1>12, <1>13, <1>14, <1>15, <1>16, <1>17,
     <1>18, <1>19, <1>20 DEF Next, Starting, Arriving, Other

LEMMA ClosesNext ==
    ASSUME HubInvariant, ClosedOncePerStart, SeenShape
    PROVE  ClosedOncePerStart'
<1>1. /\ hubStarted => start = "kept"
      /\ start = "pending" => ~hubStarted
      /\ hubStarted \in BOOLEAN
  BY DEF HubInvariant, TypeOK, StatesAgree
<1> QED
  BY <1>1 DEF ClosedOncePerStart, SeenShape, Seen, StartsShape, RejectedShape, KeptShape,
     StopsShape, ClosedShape, UsedShape

(* onclose is called once for each start that was kept, and not before the *)
(* connection is over; a start that fails does not cause it.               *)
THEOREM OncloseIsCalledOnce == Spec => []ClosedOncePerStart
<1>1. HubInvariant /\ ClosedOncePerStart /\ [Next]_vars => ClosedOncePerStart'
  BY NextIsSeen, ClosesNext
<1> QED BY <1>1, HubInit, HubInvariantHolds, PTL DEF Spec

-----------------------------------------------------------------------------
(* The refinement: the connection is the HubClient of the page.            *)

LEMMA ClientStep ==
    ASSUME HubInvariant, HubInvariant', SeenShape
    PROVE  Client!Next \/ UNCHANGED Client!vars
<1> USE DEF Client!Next, Client!vars
<1>1. /\ hub \in States /\ hubStarted \in BOOLEAN /\ callbacks \in Nat
      /\ callbacks > 0 => hubStarted
      /\ hub = "Connected" => hubStarted
      /\ hubStarted => start = "kept" /\ hub \in {"Connected", "Disconnecting"}
      /\ hub \in {"Connecting", "Disconnecting"} /\ ~hubStarted => start = "pending"
      /\ start = "pending" => hub \in {"Connecting", "Disconnecting"} /\ ~hubStarted
  BY DEF HubInvariant, TypeOK, StatesAgree, CallbacksCanEnd
<1>2. CASE StartsShape
  BY <1>2 DEF StartsShape, ClientState, Client!Start
<1>3. CASE RejectedShape
  BY <1>1, <1>3 DEF RejectedShape, ClientState, Client!StartFails
<1>4. CASE KeptShape
  BY <1>1, <1>4 DEF KeptShape, ClientState, Client!Started
<1>5. CASE StopsShape
  BY <1>1, <1>5 DEF StopsShape, ClientState, Client!Stop, Client!StopStart
<1>6. CASE ClosedShape
  BY <1>1, <1>6 DEF ClosedShape, ClientState, Client!Close
<1>7. CASE UsedShape
  BY <1>1, <1>7 DEF UsedShape, ClientState, Client!Invoke, Client!Answer
<1>8. CASE UNCHANGED Seen
  BY <1>8 DEF Seen, ClientState
<1> QED BY <1>2, <1>3, <1>4, <1>5, <1>6, <1>7, <1>8 DEF SeenShape

(* The connection implements the HubClient that ViewerPage builds on.      *)
THEOREM ConnectionIsAHubClient == Spec => IsAHubClient
<1>1. Init => Client!Init
  BY DEF Init, Client!Init, ClientState
<1>2. HubInvariant /\ HubInvariant' /\ [Next]_vars => [Client!Next]_Client!vars
  BY NextIsSeen, ClientStep
<1> QED BY <1>1, <1>2, HubInvariantHolds, PTL DEF Spec, IsAHubClient, Client!Spec
=============================================================================
