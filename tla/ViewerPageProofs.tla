-------------------------- MODULE ViewerPageProofs --------------------------
(***************************************************************************)
(* Proofs about ViewerPage, for any number of connections and relaunches.  *)
(* PageInvariant is inductive.  What an idle page says needs one fact      *)
(* more, that a connection somebody stopped is closed; and by the          *)
(* invariant every step is, for every connection, a step of HubClient or   *)
(* none.                                                                   *)
(***************************************************************************)
EXTENDS ViewerPage, FiniteSetTheorems, TLAPS

(* A record behind a sequence of records, and one in its place. *)
LEMMA AppendCast ==
    ASSUME NEW s \in Seq(CastRecords), NEW c \in CastRecords
    PROVE  /\ Append(s, c) \in Seq(CastRecords)
           /\ Len(Append(s, c)) = Len(s) + 1
           /\ Len(s) \in Nat
           /\ \A i \in 1 .. Len(s) : Append(s, c)[i] = s[i]
           /\ Append(s, c)[Len(s) + 1] = c
  OBVIOUS

LEMMA ReplaceCast ==
    ASSUME NEW s \in Seq(CastRecords), NEW k \in 1 .. Len(s), NEW c \in CastRecords
    PROVE  /\ [s EXCEPT ![k] = c] \in Seq(CastRecords)
           /\ Len([s EXCEPT ![k] = c]) = Len(s)
           /\ [s EXCEPT ![k] = c][k] = c
           /\ \A i \in 1 .. Len(s) : i # k => [s EXCEPT ![k] = c][i] = s[i]
  OBVIOUS

(* The numbers of the connections. *)
LEMMA LinkNumbers ==
    /\ 0 \in 0 .. MaxLinks
    /\ \A c \in 0 .. MaxLinks : c # 0 => c \in Links
    /\ \A c \in Links, l \in Links : l <= c /\ l # c => l \in 1 .. c - 1
    /\ \A c \in Links, l \in Links : ~(l > c) => l # c + 1
<1>1. MaxLinks \in Nat /\ MaxLinks > 0
  BY PageBounds
<1> QED BY <1>1 DEF Links

(* The casts and their connections. *)
LEMMA CastTypes ==
    ASSUME TypeOK
    PROVE  /\ casts \in Seq(CastRecords)
           /\ DOMAIN casts = 1 .. Len(casts)
           /\ Len(casts) \in Nat
           /\ \A k \in DOMAIN casts :
                casts[k] \in CastRecords /\ casts[k].link \in Links
<1>1. casts \in Seq(CastRecords)
  BY DEF TypeOK
<1>2. \A c \in CastRecords : c.link \in Links
  BY DEF CastRecords
<1> QED BY <1>1, <1>2

(* Only this.Connection is connected, so only its casts are live. *)
LEMMA OneLive ==
    ASSUME PageInvariant
    PROVE  /\ \A l \in Links : link[l] \in {"connecting", "connected"} => l = current
           /\ \A k \in DOMAIN casts : casts[k].state \in Live => casts[k].link = current
  BY CastTypes DEF PageInvariant, OneConnection, LiveCastsAreConnected

(* The casts of a connection that closes are over, the others untouched.   *)
LEMMA CancelledCasts ==
    ASSUME TypeOK, NEW l \in Links, NEW ls, NEW on, ls[on] # "connected"
    PROVE  /\ Cancelled(ls, l, on) \in Seq(CastRecords)
           /\ DOMAIN Cancelled(ls, l, on) = DOMAIN casts
           /\ \A k \in DOMAIN casts :
                /\ Cancelled(ls, l, on)[k].link = casts[k].link
                /\ casts[k].link # l => Cancelled(ls, l, on)[k] = casts[k]
                /\ casts[k].link = l => Cancelled(ls, l, on)[k].state \notin Live
<1>1. ASSUME NEW k \in DOMAIN casts
      PROVE  /\ Cancelled(ls, l, on)[k] \in CastRecords
             /\ Cancelled(ls, l, on)[k].link = casts[k].link
             /\ casts[k].link # l => Cancelled(ls, l, on)[k] = casts[k]
             /\ casts[k].link = l => Cancelled(ls, l, on)[k].state \notin Live
  <2>1. casts[k] \in CastRecords
    BY CastTypes
  <2>2. /\ casts[k].link \in Links /\ casts[k].state \in Live \cup {"over", "refused"}
        /\ \A st \in Live \cup {"over", "refused"} :
             LET c == [casts[k] EXCEPT !.state = st]
             IN  c \in CastRecords /\ c.link = casts[k].link /\ c.state = st
    BY <2>1 DEF CastRecords
  <2>3. Cancelled(ls, l, on)[k] =
          IF casts[k].link # l THEN casts[k]
          ELSE IF casts[k].state \in {"asking", "streaming"} THEN [casts[k] EXCEPT !.state = "over"]
          ELSE IF casts[k].state = "options" THEN [casts[k] EXCEPT !.state = "refused"]
          ELSE casts[k]
    BY <2>2 DEF Cancelled, Live
  <2>4. CASE casts[k].link # l
    BY <2>1, <2>3, <2>4
  <2>5. CASE casts[k].link = l /\ casts[k].state \in {"asking", "streaming"}
    BY <2>2, <2>3, <2>5 DEF Live
  <2>6. CASE casts[k].link = l /\ casts[k].state = "options"
    BY <2>2, <2>3, <2>6 DEF Live
  <2>7. CASE casts[k].link = l /\ casts[k].state \in {"over", "refused"}
    BY <2>1, <2>3, <2>7 DEF Live
  <2> QED BY <2>2, <2>4, <2>5, <2>6, <2>7 DEF Live
<1>2. DOMAIN Cancelled(ls, l, on) = DOMAIN casts
  BY DEF Cancelled
<1>3. Cancelled(ls, l, on) = [k \in 1 .. Len(casts) |-> Cancelled(ls, l, on)[k]]
  BY CastTypes DEF Cancelled
<1>4. Cancelled(ls, l, on) \in Seq(CastRecords)
  BY <1>1, <1>3, CastTypes
<1> QED BY <1>1, <1>2, <1>4

-----------------------------------------------------------------------------
(* Every step has one of six shapes.  Proofs about a step that do not turn *)
(* on who takes it use the shape: a start, a connection that settles, one  *)
(* that closes (with or without a start), a cast that begins or goes on,   *)
(* and what only changes the status or shows the screen.                   *)

(* The other variables of a start with this.Connection not connected. *)
StartShape ==
    /\ current + 1 \in Links /\ current' = current + 1
    /\ current # 0 => link[current] # "connected"
    /\ link' = IF current # 0 /\ link[current] = "connecting"
               THEN [link EXCEPT ![current + 1] = "connecting", ![current] = "stopping"]
               ELSE [link EXCEPT ![current + 1] = "connecting"]
    /\ UNCHANGED <<mode, reason, casts, shown>>
    /\ status' \in Statuses

CloseShape ==
    /\ current \in Links /\ link[current] = "connected"
    /\ \/ current' = current /\ link' = [link EXCEPT ![current] = "closed"]
       \/ /\ current + 1 \in Links /\ current' = current + 1
          /\ link' = [link EXCEPT ![current + 1] = "connecting", ![current] = "closed"]
    /\ casts' = Cancelled(link', current, current')
    /\ \E s \in Statuses :
         /\ status' = StatusAfter(current, s)
         /\ reason' \in {reason, [reason EXCEPT ![current] = s]}
    /\ shown' = "connect" /\ mode' = mode

SettleShape(l) ==
    \/ Started(l)
    \/ StartFails(l)

CastShape(k) ==
    /\ k \in DOMAIN casts /\ casts[k].state \in Live /\ link[casts[k].link] = "connected"
    /\ \E c \in CastRecords : c.link = casts[k].link /\ casts' = [casts EXCEPT ![k] = c]
    /\ UNCHANGED <<mode, current, link, reason>>
    /\ \/ UNCHANGED <<status, shown>>
       \/ status' \in Statuses /\ shown' = "connect"

RelaunchShape ==
    /\ current \in Links /\ link[current] = "connected"
    /\ casts' = Append(casts, [link |-> current, state |-> "options"])
    /\ ShownUnchanged

ShowShape ==
    /\ UNCHANGED <<mode, current, link, reason, casts>>
    /\ \/ status' = IdRequired /\ shown' = shown
       \/ /\ current \in Links /\ link[current] = "connected"
          /\ status' \in Statuses /\ shown' \in {shown, "screen"}

StepShape ==
    \/ StartShape \/ CloseShape
    \/ \E l \in Links : SettleShape(l)
    \/ \E k \in DOMAIN casts : CastShape(k)
    \/ RelaunchShape \/ ShowShape

(* A stop of this.Connection while it is connected. *)
LEMMA StopConnected ==
    ASSUME PageInvariant, current \in Links, link[current] = "connected",
           NEW s \in Statuses, Stop(link, current, s, current), UNCHANGED <<mode, current>>
    PROVE  CloseShape
<1>1. Close(link, current, s, current) /\ reason' = [reason EXCEPT ![current] = s]
  BY DEF Stop
<1>2. link' = [link EXCEPT ![current] = "closed"] /\ casts' = Cancelled(link', current, current')
  BY <1>1 DEF Close
<1> QED BY <1>1, <1>2 DEF Close, CloseShape

(* A start, with this.Connection connected or not. *)
LEMMA ConnectSteps ==
    ASSUME PageInvariant, NEW s \in Statuses, Connect(s), UNCHANGED mode
    PROVE  StartShape \/ CloseShape
<1> DEFINE ls == [link EXCEPT ![current + 1] = "connecting"]
<1>1. /\ current \in 0 .. MaxLinks /\ current + 1 \in Links /\ current' = current + 1
      /\ link \in [Links -> LinkStates]
      /\ \/ current = 0 /\ link' = ls /\ status' = s /\ UNCHANGED <<reason, casts, shown>>
         \/ current # 0 /\ Stop(ls, current, s, current + 1)
  BY DEF Connect, PageInvariant, TypeOK
<1>2. CASE current = 0
  BY <1>1, <1>2 DEF StartShape
<1>3. CASE current # 0 /\ link[current] = "connected"
  <2>1. current \in Links /\ ls[current] = "connected"
    BY <1>1, <1>3 DEF Links
  <2>2. Close(ls, current, s, current + 1) /\ reason' = [reason EXCEPT ![current] = s]
    BY <1>1, <1>3, <2>1 DEF Stop
  <2>3. link' = [ls EXCEPT ![current] = "closed"] /\ casts' = Cancelled(link', current, current')
    BY <1>1, <2>2 DEF Close
  <2> QED BY <1>1, <1>3, <2>1, <2>2, <2>3 DEF Close, CloseShape
<1>4. CASE current # 0 /\ link[current] # "connected"
  <2>1. current \in Links /\ ls[current] = link[current]
    BY <1>1, <1>4 DEF Links
  <2>2. /\ link' = IF link[current] = "connecting" THEN [ls EXCEPT ![current] = "stopping"]
                    ELSE ls
        /\ status' = s /\ UNCHANGED <<reason, casts, shown>>
    BY <1>1, <1>4, <2>1 DEF Stop
  <2> QED BY <1>1, <1>4, <2>2 DEF StartShape
<1> QED BY <1>2, <1>3, <1>4

LEMMA NextHasShape ==
    ASSUME PageInvariant, Next
    PROVE  StepShape
<1>0. /\ \A l \in Links : link[l] = "connected" => l = current /\ current \in Links
      /\ Notices \subseteq Statuses /\ {"", Connecting, Closed, IdRequired, Passing, Refusal} \subseteq Statuses
      /\ status \in Statuses
  BY OneLive DEF PageInvariant, TypeOK, Statuses
<1>1. ASSUME NEW s \in Statuses, Connect(s), UNCHANGED mode PROVE StepShape
  BY <1>1, ConnectSteps DEF StepShape
<1>2. CASE ConnectAtOnce \/ ConnectToClient
  BY <1>0, <1>1, <1>2 DEF ConnectAtOnce, ConnectToClient
<1>3. CASE ConnectWithoutId
  BY <1>3 DEF ConnectWithoutId, StepShape, ShowShape
<1>4. ASSUME current \in Links, link[current] = "connected", NEW s \in Statuses,
             Stop(link, current, s, current), UNCHANGED <<mode, current>>
      PROVE  StepShape
  BY <1>4, StopConnected DEF StepShape
<1>5. CASE Disconnect
  <2>1. current \in Links /\ link[current] = "connected"
    BY <1>5 DEF Disconnect, PageInvariant, ScreenIsConnected, TypeOK, Links
  <2> QED BY <1>0, <1>4, <1>5, <2>1 DEF Disconnect
<1>6. ASSUME NEW l \in Links, Connection(l) PROVE StepShape
  <2>1. CASE LinkLost(l)
    <3>1. l = current /\ current \in Links
      BY <1>0, <2>1 DEF LinkLost
    <3>2. Close(link, current, status, current) /\ UNCHANGED <<mode, current, reason>>
      BY <2>1, <3>1 DEF LinkLost
    <3>3. link' = [link EXCEPT ![current] = "closed"] /\ casts' = Cancelled(link', current, current')
      BY <3>2 DEF Close
    <3>4. CloseShape
      BY <1>0, <2>1, <3>1, <3>2, <3>3 DEF LinkLost, Close, CloseShape
    <3> QED BY <3>4 DEF StepShape
  <2> QED BY <1>6, <2>1 DEF Connection, StepShape, SettleShape
<1>7. ASSUME NEW l \in Links, Message(l) PROVE StepShape
  <2>1. link[l] = "connected"
    BY <1>7 DEF Message, SessionEnds, Relaunched, ShowMessage, HandleScreenData
  <2>2. l = current /\ current \in Links
    BY <1>0, <2>1
  <2>3. CASE \E n \in Notices : SessionEnds(l, n)
    BY <1>0, <1>4, <2>1, <2>2, <2>3 DEF SessionEnds
  <2>4. CASE Relaunched(l)
    BY <2>1, <2>2, <2>4 DEF Relaunched, StepShape, RelaunchShape
  <2>5. CASE ShowMessage(l) \/ HandleScreenData(l)
    BY <1>0, <2>1, <2>2, <2>5 DEF ShowMessage, HandleScreenData, StepShape, ShowShape
  <2> QED BY <1>7, <2>3, <2>4, <2>5 DEF Message
<1>8. ASSUME NEW k \in DOMAIN casts, Request(k) \/ StreamEnds(k) PROVE StepShape
  <2>1. /\ casts[k] \in CastRecords /\ casts[k].link = current /\ current \in Links
        /\ casts[k].state \in Live /\ link[casts[k].link] = "connected"
    <3>1. casts[k].state \in Live /\ link[casts[k].link] = "connected"
      BY <1>8 DEF Request, GotViewerOptions, RequestGranted, RequestRefused, RequestThrows,
                  StreamEnds, Answered, Live
    <3> QED BY <1>0, <3>1, CastTypes DEF PageInvariant
  <2>2. ASSUME NEW st \in Live \cup {"over", "refused"}
        PROVE  /\ [link |-> current, state |-> st] \in CastRecords
               /\ [casts[k] EXCEPT !.state = st] \in CastRecords
               /\ [casts[k] EXCEPT !.state = st].link = casts[k].link
               /\ [casts EXCEPT ![k].state = st] = [casts EXCEPT ![k] = [casts[k] EXCEPT !.state = st]]
    BY <2>1 DEF CastRecords
  <2>3. CASE GotViewerOptions(k) \/ RequestGranted(k)
    <3>1. \E c \in CastRecords : c.link = casts[k].link /\ casts' = [casts EXCEPT ![k] = c]
      BY <2>1, <2>2, <2>3 DEF GotViewerOptions, RequestGranted, Live
    <3>2. ShownUnchanged
      BY <2>3 DEF GotViewerOptions, RequestGranted
    <3> QED BY <2>1, <3>1, <3>2 DEF ShownUnchanged, CastShape, StepShape
  <2>4. CASE RequestThrows(k)
    <3>1. \E c \in CastRecords : c.link = casts[k].link /\ casts' = [casts EXCEPT ![k] = c]
      BY <2>2, <2>4 DEF RequestThrows
    <3> QED BY <2>1, <2>4, <3>1 DEF RequestThrows, ShownUnchanged, CastShape, StepShape
  <2>5. CASE StreamEnds(k)
    <3>1. \E c \in CastRecords : c.link = casts[k].link /\ casts' = [casts EXCEPT ![k] = c]
      BY <2>2, <2>5 DEF StreamEnds
    <3>2. status' \in Statuses /\ shown' = "connect"
      BY <1>0, <2>5 DEF StreamEnds, Statuses
    <3> QED BY <2>1, <2>5, <3>1, <3>2 DEF StreamEnds, CastShape, StepShape
  <2>6. CASE RequestRefused(k)
    BY <1>0, <1>4, <2>1, <2>6 DEF RequestRefused
  <2> QED BY <1>8, <2>3, <2>4, <2>5, <2>6 DEF Request
<1> QED BY <1>2, <1>3, <1>5, <1>6, <1>7, <1>8 DEF Next, User

-----------------------------------------------------------------------------
(* PageInvariant at the start and after a step of each shape. *)
LEMMA PageInit == Init => PageInvariant
<1> SUFFICES ASSUME Init PROVE PageInvariant
  OBVIOUS
<1>1. casts \in Seq(CastRecords) /\ \A k \in DOMAIN casts : FALSE
  <2>1. casts = << >>
    BY DEF Init
  <2>2. << >> \in Seq(CastRecords) /\ DOMAIN << >> = {}
    OBVIOUS
  <2> QED BY <2>1, <2>2
<1>2. "idle" \in LinkStates /\ "" \in Statuses /\ \A l \in Links : l > 0
  BY DEF LinkStates, Statuses, Links
<1>3. link \in [Links -> LinkStates] /\ \A l \in Links : link[l] = "idle"
  BY <1>2 DEF Init
<1>4. reason \in [Links -> Statuses]
  BY <1>2 DEF Init
<1>5. TypeOK
  <2>1. current \in 0 .. MaxLinks
    BY LinkNumbers DEF Init
  <2>2. /\ mode \in {"Attended", "Unattended"} /\ shown \in {"connect", "screen"}
        /\ status \in Statuses
    BY <1>2 DEF Init
  <2> QED BY <1>1, <1>3, <1>4, <2>1, <2>2 DEF TypeOK
<1>6. OneConnection
  BY <1>2, <1>3 DEF Init, OneConnection
<1> QED BY <1>1, <1>5, <1>6 DEF Init, PageInvariant, LiveCastsAreConnected, ScreenIsConnected

(* What a step of the shape of a start keeps. *)
LEMMA StartKeeps ==
    ASSUME PageInvariant, StartShape
    PROVE  PageInvariant'
<1> USE DEF PageInvariant
<1>1. /\ current \in 0 .. MaxLinks /\ link \in [Links -> LinkStates]
      /\ \A l \in Links : link[l] = "idle" <=> l > current
      /\ \A l \in Links : link[l] \in {"connecting", "connected"} => l = current
  BY DEF TypeOK, OneConnection
<1>2. /\ link' \in [Links -> LinkStates] /\ current' = current + 1 /\ current + 1 \in Links
      /\ link'[current + 1] = "connecting"
      /\ \A l \in Links \ {current, current + 1} : link'[l] = link[l]
      /\ current \in Links => link[current] # "connected"
      /\ current \in Links => link'[current] \notin {"idle", "connecting", "connected"}
  <2>1. CASE current # 0 /\ link[current] = "connecting"
    BY <1>1, <2>1 DEF StartShape, LinkStates, Links
  <2>2. CASE current # 0 /\ link[current] # "connecting"
    BY <1>1, <2>2 DEF StartShape, LinkStates, Links
  <2>3. CASE current = 0
    BY <1>1, <2>3 DEF StartShape, LinkStates, Links
  <2> QED BY <2>1, <2>2, <2>3
<1>3. TypeOK'
  BY <1>1, <1>2 DEF StartShape, TypeOK, Links
<1>4. OneConnection'
  BY <1>1, <1>2 DEF OneConnection, Links
<1>5. \A l \in Links : link[l] # "connected"
  BY <1>1, <1>2
<1>6. LiveCastsAreConnected' /\ ScreenIsConnected'
  <2>1. /\ casts' = casts /\ shown' = shown /\ current \in 0 .. MaxLinks
        /\ \A k \in DOMAIN casts : casts[k].state \notin Live
    BY <1>5, CastTypes DEF StartShape, LiveCastsAreConnected, TypeOK
  <2>2. shown # "screen"
    BY <1>5, <2>1 DEF ScreenIsConnected, Links
  <2> QED BY <2>1, <2>2 DEF LiveCastsAreConnected, ScreenIsConnected
<1> QED BY <1>3, <1>4, <1>6

(* The end of this.Connection sets a status and ends all casts. *)
LEMMA CloseKeeps ==
    ASSUME PageInvariant, CloseShape
    PROVE  PageInvariant'
<1> USE DEF PageInvariant
<1>1. /\ current \in Links /\ link \in [Links -> LinkStates]
      /\ \A l \in Links : link[l] = "idle" <=> l > current
      /\ \A l \in Links : link[l] \in {"connecting", "connected"} => l = current
  BY DEF TypeOK, OneConnection, CloseShape
<1>2. /\ current' \in Links
      /\ link' \in [Links -> LinkStates]
      /\ link'[current] = "closed"
      /\ \/ current' = current /\ \A l \in Links : l # current => link'[l] = link[l]
         \/ /\ current' = current + 1 /\ link'[current + 1] = "connecting"
            /\ \A l \in Links \ {current, current + 1} : link'[l] = link[l]
  BY <1>1 DEF CloseShape, LinkStates, Links
<1>3. /\ casts' \in Seq(CastRecords) /\ DOMAIN casts' = DOMAIN casts
      /\ \A k \in DOMAIN casts : casts'[k].state \notin Live
  <2>1. casts' = Cancelled(link', current, current') /\ link'[current'] # "connected"
    BY <1>1, <1>2 DEF CloseShape
  <2>2. \A k \in DOMAIN casts : casts[k].state \in Live => casts[k].link = current
    BY OneLive
  <2> QED BY <1>1, <2>1, <2>2, CancelledCasts
<1>4. status' \in Statuses /\ reason' \in [Links -> Statuses]
  BY DEF CloseShape, StatusAfter, Statuses, TypeOK
<1>5. TypeOK'
  BY <1>2, <1>3, <1>4 DEF CloseShape, TypeOK, Links
<1>6. OneConnection'
  BY <1>1, <1>2 DEF OneConnection, Links
<1>7. LiveCastsAreConnected' /\ ScreenIsConnected'
  BY <1>3 DEF CloseShape, LiveCastsAreConnected, ScreenIsConnected
<1> QED BY <1>5, <1>6, <1>7

(* A start settles: if it succeeded it was that of this.Connection. *)
LEMMA SettleKeeps ==
    ASSUME PageInvariant, NEW l \in Links, SettleShape(l)
    PROVE  PageInvariant'
<1> USE DEF PageInvariant
<1>1. /\ current \in 0 .. MaxLinks /\ link \in [Links -> LinkStates]
      /\ \A m \in Links : link[m] = "idle" <=> m > current
      /\ \A m \in Links : link[m] \in {"connecting", "connected"} => m = current
  BY DEF TypeOK, OneConnection
<1>2. CASE Started(l)
  <2>1. l = current /\ link[l] = "connecting" /\ current' = current /\ shown' = shown
        /\ link' = [link EXCEPT ![l] = "connected"]
    BY <1>1, <1>2 DEF Started
  <2>2. [link |-> current, state |-> "options"] \in CastRecords
    BY <2>1 DEF CastRecords, Live
  <2>3. /\ casts' \in Seq(CastRecords) /\ Len(casts') = Len(casts) + 1
        /\ \A k \in 1 .. Len(casts) : casts'[k] = casts[k]
        /\ casts'[Len(casts) + 1].link = l
    BY <1>2, <2>1, <2>2, AppendCast, CastTypes DEF Started
  <2>4. TypeOK'
    BY <1>1, <1>2, <2>1, <2>3 DEF Started, TypeOK, LinkStates
  <2>5. OneConnection'
    BY <1>1, <2>1 DEF OneConnection
  <2>6. \A k \in 1 .. Len(casts) : casts[k].state \in Live => link'[casts[k].link] = "connected"
    BY <1>1, <2>1, CastTypes DEF LiveCastsAreConnected
  <2>7. link'[l] = "connected"
    BY <1>1, <2>1
  <2>8. LiveCastsAreConnected'
    <3>1. DOMAIN casts' = 1 .. Len(casts) + 1 /\ Len(casts) \in Nat
      BY <2>3, CastTypes
    <3>2. \A k \in 1 .. Len(casts) + 1 : k \in 1 .. Len(casts) \/ k = Len(casts) + 1
      BY <3>1
    <3> QED BY <2>3, <2>6, <2>7, <3>1, <3>2 DEF LiveCastsAreConnected
  <2>9. ScreenIsConnected'
    BY <2>1 DEF ScreenIsConnected
  <2> QED BY <2>4, <2>5, <2>8, <2>9
<1>3. CASE StartFails(l)
  <2>1. TypeOK'
    BY <1>1, <1>3 DEF StartFails, TypeOK, LinkStates, Statuses
  <2>2. OneConnection'
    BY <1>1, <1>3 DEF StartFails, OneConnection
  <2>3. LiveCastsAreConnected'
    BY <1>1, <1>3, CastTypes DEF StartFails, LiveCastsAreConnected
  <2> QED BY <1>3, <2>1, <2>2, <2>3 DEF StartFails, ScreenIsConnected
<1> QED BY <1>2, <1>3 DEF SettleShape

(* A cast that goes on or ends stays on its connection. *)
LEMMA CastKeeps ==
    ASSUME PageInvariant, NEW k \in DOMAIN casts, CastShape(k)
    PROVE  PageInvariant'
<1> USE DEF PageInvariant
<1>1. PICK c \in CastRecords : c.link = casts[k].link /\ casts' = [casts EXCEPT ![k] = c]
  BY DEF CastShape
<1>2. /\ casts' \in Seq(CastRecords) /\ Len(casts') = Len(casts)
      /\ casts'[k].link = casts[k].link
      /\ \A i \in 1 .. Len(casts) : i # k => casts'[i] = casts[i]
  BY <1>1, CastTypes, ReplaceCast
<1>3. TypeOK'
  BY <1>2 DEF CastShape, TypeOK
<1>4. LiveCastsAreConnected'
  BY <1>2, CastTypes DEF CastShape, LiveCastsAreConnected
<1> QED BY <1>3, <1>4 DEF CastShape, OneConnection, ScreenIsConnected

LEMMA RelaunchKeeps ==
    ASSUME PageInvariant, RelaunchShape
    PROVE  PageInvariant'
<1> USE DEF PageInvariant
<1>1. [link |-> current, state |-> "options"] \in CastRecords
  BY DEF RelaunchShape, CastRecords, Live
<1>2. /\ casts' \in Seq(CastRecords) /\ Len(casts') = Len(casts) + 1
      /\ \A k \in 1 .. Len(casts) : casts'[k] = casts[k]
      /\ casts'[Len(casts) + 1].link = current
  BY <1>1, AppendCast, CastTypes DEF RelaunchShape
<1>3. TypeOK'
  BY <1>2 DEF RelaunchShape, ShownUnchanged, TypeOK
<1>4. LiveCastsAreConnected'
  <2>1. DOMAIN casts' = 1 .. Len(casts) + 1 /\ Len(casts) \in Nat
    BY <1>2, CastTypes
  <2>2. \A k \in 1 .. Len(casts) + 1 : k \in 1 .. Len(casts) \/ k = Len(casts) + 1
    BY <2>1
  <2>3. link' = link /\ link[current] = "connected"
    BY DEF RelaunchShape, ShownUnchanged
  <2> QED BY <1>2, <2>1, <2>2, <2>3, CastTypes DEF LiveCastsAreConnected
<1> QED BY <1>3, <1>4 DEF RelaunchShape, ShownUnchanged, OneConnection, ScreenIsConnected

LEMMA PageNext == PageInvariant /\ [Next]_vars => PageInvariant'
<1> SUFFICES ASSUME PageInvariant, [Next]_vars PROVE PageInvariant'
  OBVIOUS
<1>1. CASE UNCHANGED vars
  BY <1>1 DEF vars, PageInvariant, TypeOK, OneConnection, LiveCastsAreConnected, ScreenIsConnected
<1>2. CASE ShowShape
  <2>1. status' \in Statuses /\ shown' \in {"connect", "screen"}
    BY <1>2 DEF ShowShape, PageInvariant, TypeOK, Statuses
  <2>2. TypeOK'
    BY <1>2, <2>1 DEF ShowShape, PageInvariant, TypeOK
  <2>3. ScreenIsConnected'
    <3>1. UNCHANGED <<current, link>>
      BY <1>2 DEF ShowShape
    <3>2. CASE shown' = shown
      BY <3>1, <3>2 DEF PageInvariant, ScreenIsConnected
    <3>3. CASE current \in Links /\ link[current] = "connected"
      BY <3>1, <3>3 DEF ScreenIsConnected, Links
    <3> QED BY <1>2, <3>2, <3>3 DEF ShowShape
  <2>4. OneConnection' /\ LiveCastsAreConnected'
    BY <1>2 DEF ShowShape, PageInvariant, OneConnection, LiveCastsAreConnected
  <2> QED BY <2>2, <2>3, <2>4 DEF PageInvariant
<1>3. CASE StepShape
  BY <1>2, <1>3, StartKeeps, CloseKeeps, SettleKeeps, CastKeeps, RelaunchKeeps DEF StepShape
<1> QED BY <1>1, <1>3, NextHasShape

(* In every reachable state, for any number of connections, only           *)
(* this.Connection is being made or connected, what has been asked for     *)
(* belongs to it, and the screen is shown only while it is connected.      *)
THEOREM PageInvariantHolds == Spec => []PageInvariant
<1>1. Init => PageInvariant
  BY PageInit
<1>2. PageInvariant /\ [Next]_vars => PageInvariant'
  BY PageNext
<1> QED BY <1>1, <1>2, PTL DEF Spec

-----------------------------------------------------------------------------
(* What an idle page says.  A connection somebody stopped is closed, so a  *)
(* start that fails is none that has a reason.                             *)
StoppedIsClosed == \A l \in Links : reason[l] # "" => link[l] = "closed"

IdleInvariant == StoppedIsClosed /\ IdlePageSaysSo /\ ReasonIsShown

LEMMA IdleInit == Init => IdleInvariant
  BY DEF Init, IdleInvariant, StoppedIsClosed, IdlePageSaysSo, ReasonIsShown, Idle

LEMMA IdleClose ==
    ASSUME PageInvariant, IdleInvariant, CloseShape
    PROVE  IdleInvariant'
<1>1. /\ current \in Links /\ link \in [Links -> LinkStates] /\ reason \in [Links -> Statuses]
      /\ link[current] = "connected" /\ shown' = "connect"
      /\ \A l \in Links : link[l] = "idle" <=> l > current
  BY DEF PageInvariant, TypeOK, OneConnection, CloseShape
<1>2. PICK s \in Statuses :
         /\ status' = StatusAfter(current, s)
         /\ reason' \in {reason, [reason EXCEPT ![current] = s]}
  BY DEF CloseShape
<1>3. status' # "" /\ (s # "" => status' = s)
  BY <1>2 DEF StatusAfter, Ended, Closed
<1>4. /\ link'[current] = "closed"
      /\ \/ current' = current /\ \A l \in Links : l # current => link'[l] = link[l]
         \/ /\ current' = current + 1 /\ link'[current + 1] = "connecting"
            /\ \A l \in Links \ {current, current + 1} : link'[l] = link[l]
  BY <1>1 DEF CloseShape, Links
<1>5. reason[current] = "" /\ \A l \in Links : l > current => reason[l] = ""
  BY <1>1 DEF IdleInvariant, StoppedIsClosed
<1>6. StoppedIsClosed'
  <2> SUFFICES ASSUME NEW l \in Links, reason'[l] # "" PROVE link'[l] = "closed"
    BY DEF StoppedIsClosed
  <2>1. CASE l = current
    BY <1>4, <2>1
  <2>2. CASE l # current
    <3>1. reason[l] # ""
      BY <1>1, <1>2, <2>2
    <3>2. link[l] = "closed" /\ ~(l > current)
      BY <1>5, <3>1 DEF IdleInvariant, StoppedIsClosed
    <3>3. l # current + 1
      BY <3>2, <1>1, LinkNumbers
    <3> QED BY <1>4, <2>2, <3>2, <3>3
  <2> QED BY <2>1, <2>2
<1>7. Idle' => current' = current
  BY <1>4 DEF Idle
<1>8. IdlePageSaysSo' /\ ReasonIsShown'
  BY <1>1, <1>2, <1>3, <1>5, <1>7 DEF IdlePageSaysSo, ReasonIsShown
<1> QED BY <1>6, <1>8 DEF IdleInvariant

LEMMA IdleFails ==
    ASSUME PageInvariant, IdleInvariant, NEW l \in Links, StartFails(l)
    PROVE  IdleInvariant'
<1>1. /\ current \in 0 .. MaxLinks /\ l <= current /\ link[l] \in {"connecting", "stopping"}
      /\ link \in [Links -> LinkStates] /\ link' = [link EXCEPT ![l] = "failed"]
      /\ status' = Errored /\ shown' = "connect" /\ UNCHANGED <<current, reason>>
  BY DEF PageInvariant, TypeOK, OneConnection, StartFails, Links
<1>2. StoppedIsClosed'
  BY <1>1 DEF IdleInvariant, StoppedIsClosed
<1>3. IdlePageSaysSo'
  BY <1>1 DEF IdlePageSaysSo, Errored
<1>4. ReasonIsShown'
  <2> SUFFICES ASSUME Idle', reason[current] # "" PROVE status' = Errored /\ \E m \in 1 .. current - 1 : link'[m] = "failed"
    BY <1>1 DEF ReasonIsShown
  <2>1. current \in Links
    <3>1. current # 0
      BY <1>1 DEF Idle
    <3> QED BY <1>1, <3>1, LinkNumbers
  <2>2. link[current] = "closed"
    BY <2>1 DEF IdleInvariant, StoppedIsClosed
  <2>3. l # current /\ link'[l] = "failed"
    BY <1>1, <2>2
  <2>4. l \in 1 .. current - 1
    BY <1>1, <2>1, <2>3, LinkNumbers
  <2> QED BY <1>1, <2>3, <2>4
<1> QED BY <1>2, <1>3, <1>4 DEF IdleInvariant

LEMMA IdleNext == PageInvariant /\ IdleInvariant /\ [Next]_vars => IdleInvariant'
<1> SUFFICES ASSUME PageInvariant, IdleInvariant, [Next]_vars PROVE IdleInvariant'
  OBVIOUS
<1>1. ASSUME UNCHANGED <<current, link, reason, status, shown>> PROVE IdleInvariant'
  BY <1>1 DEF IdleInvariant, StoppedIsClosed, IdlePageSaysSo, ReasonIsShown, Idle
<1>2. ASSUME UNCHANGED reason, \A l \in Links : link'[l] = "closed" <=> link[l] = "closed",
             current' \in Links, link'[current'] \notin {"closed", "failed"}
      PROVE  IdleInvariant'
  BY <1>2 DEF IdleInvariant, StoppedIsClosed, IdlePageSaysSo, ReasonIsShown, Idle
<1>3. CASE StartShape
  <2>1. /\ link \in [Links -> LinkStates] /\ current \in 0 .. MaxLinks
        /\ \A l \in Links : link[l] = "idle" <=> l > current
    BY DEF PageInvariant, TypeOK, OneConnection
  <2>2. /\ reason' = reason /\ current' = current + 1 /\ current' \in Links
        /\ link'[current'] = "connecting" /\ link[current + 1] = "idle"
        /\ \A l \in Links : link'[l] = "closed" <=> link[l] = "closed"
    <3>1. CASE current # 0 /\ link[current] = "connecting"
      BY <1>3, <2>1, <3>1 DEF StartShape, Links
    <3>2. CASE ~(current # 0 /\ link[current] = "connecting")
      BY <1>3, <2>1, <3>2 DEF StartShape, Links
    <3> QED BY <3>1, <3>2
  <2> QED BY <1>2, <2>2
<1>4. ASSUME NEW l \in Links, Started(l) PROVE IdleInvariant'
  <2>1. /\ l = current /\ link \in [Links -> LinkStates] /\ link[l] = "connecting"
        /\ link' = [link EXCEPT ![l] = "connected"] /\ UNCHANGED <<current, reason>>
    BY <1>4, OneLive DEF PageInvariant, TypeOK, Started
  <2> QED BY <1>2, <2>1
<1>5. ASSUME UNCHANGED <<link, current, reason>>, current \in Links, link[current] = "connected"
      PROVE  IdleInvariant'
  BY <1>2, <1>5
<1>6. ASSUME NEW k \in DOMAIN casts, CastShape(k) PROVE IdleInvariant'
  <2>1. casts[k].link = current /\ casts[k].link \in Links
    BY <1>6, OneLive, CastTypes DEF CastShape, PageInvariant
  <2> QED BY <1>5, <1>6, <2>1 DEF CastShape
<1>7. CASE RelaunchShape
  BY <1>1, <1>7 DEF RelaunchShape, ShownUnchanged
<1>8. CASE ShowShape
  <2>1. CASE status' = IdRequired /\ shown' = shown
    BY <1>8, <2>1 DEF ShowShape, IdleInvariant, StoppedIsClosed, IdlePageSaysSo, ReasonIsShown,
                      Idle, IdRequired
  <2>2. CASE current \in Links /\ link[current] = "connected"
    BY <1>5, <1>8, <2>2 DEF ShowShape
  <2> QED BY <1>8, <2>1, <2>2 DEF ShowShape
<1>9. CASE StepShape
  BY <1>3, <1>4, <1>6, <1>7, <1>8, <1>9, IdleClose, IdleFails DEF StepShape, SettleShape
<1>10. CASE UNCHANGED vars
  BY <1>1, <1>10 DEF vars
<1> QED BY <1>9, <1>10, NextHasShape

(* When the connection is over the page offers to connect and says why. *)
THEOREM IdlePageAlwaysSaysSo == Spec => []IdlePageSaysSo
<1>1. PageInvariant /\ IdleInvariant /\ [Next]_vars => IdleInvariant'
  BY IdleNext
<1>2. IdleInvariant => IdlePageSaysSo
  BY DEF IdleInvariant
<1> QED BY <1>1, <1>2, IdleInit, PageInvariantHolds, PTL DEF Spec

(* The reason of a stop is not overwritten by what the stop causes. *)
THEOREM ReasonIsAlwaysShown == Spec => []ReasonIsShown
<1>1. PageInvariant /\ IdleInvariant /\ [Next]_vars => IdleInvariant'
  BY IdleNext
<1>2. IdleInvariant => ReasonIsShown
  BY DEF IdleInvariant
<1> QED BY <1>1, <1>2, IdleInit, PageInvariantHolds, PTL DEF Spec

-----------------------------------------------------------------------------
(* The refinement.  What is pending on a connection is counted by the      *)
(* number of its live casts.                                               *)
LEMMA LiveCastsAreCounted ==
    ASSUME PageInvariant, NEW l \in Links
    PROVE  /\ IsFiniteSet(LiveCasts(l)) /\ Cardinality(LiveCasts(l)) \in Nat
           /\ link[l] # "connected" => LiveCasts(l) = {}
           /\ LiveCasts(l) = {} => Cardinality(LiveCasts(l)) = 0
<1>1. DOMAIN casts = 1 .. Len(casts) /\ Len(casts) \in Nat
  BY CastTypes DEF PageInvariant
<1>2. IsFiniteSet(DOMAIN casts)
  BY <1>1, FS_Interval
<1>3. IsFiniteSet(LiveCasts(l)) /\ Cardinality(LiveCasts(l)) \in Nat
  BY <1>2, FS_Subset, FS_CardinalityType DEF LiveCasts
<1>4. link[l] # "connected" => LiveCasts(l) = {}
  BY DEF LiveCasts, PageInvariant, LiveCastsAreConnected
<1> QED BY <1>3, <1>4, FS_EmptySet

(* The steps of HubClient, said of a connection of the page. *)
LEMMA ClientKeeps ==
    ASSUME NEW l \in Links, LiveCasts(l)' = LiveCasts(l),
           \/ link[l] = "idle" /\ link'[l] = "connecting"
           \/ link[l] = "connecting" /\ link'[l] = "stopping"
           \/ link[l] \in {"connecting", "stopping"} /\ link'[l] = "failed"
           \/ link'[l] = link[l]
    PROVE  Client(l)!Next \/ UNCHANGED Client(l)!vars
<1>1. Cardinality(LiveCasts(l))' = Cardinality(LiveCasts(l))
  OBVIOUS
<1> QED BY <1>1 DEF Client!Next, Client!vars, Client!Start, Client!StartFails, Client!StopStart

LEMMA ClientGoesOn ==
    ASSUME NEW l \in Links, NEW n, Cardinality(LiveCasts(l))' = n,
           \/ link[l] = "connecting" /\ link'[l] = "connected" /\ n \in {0, 1}
           \/ link[l] = "connected" /\ link'[l] = "closed" /\ n = 0
           \/ /\ link[l] = "connected" /\ link'[l] = link[l]
              /\ \/ n = Cardinality(LiveCasts(l)) + 1
                 \/ Cardinality(LiveCasts(l)) > 0 /\ n = Cardinality(LiveCasts(l)) - 1
    PROVE  Client(l)!Next
<1>1. CASE link[l] = "connecting" /\ link'[l] = "connected" /\ n \in {0, 1}
  BY <1>1 DEF Client!Next, Client!Started
<1>2. CASE link[l] = "connected" /\ link'[l] = "closed" /\ n = 0
  BY <1>2 DEF Client!Next, Client!Close
<1>3. CASE link[l] = "connected" /\ link'[l] = link[l]
  BY <1>3 DEF Client!Next, Client!Invoke, Client!Answer
<1> QED BY <1>1, <1>2, <1>3

(* A cast behind the others is a live cast more on its connection. *)
LEMMA CastBegins ==
    ASSUME PageInvariant, NEW l \in Links,
           casts' = Append(casts, [link |-> l, state |-> "options"])
    PROVE  /\ Cardinality(LiveCasts(l))' = Cardinality(LiveCasts(l)) + 1
           /\ \A m \in Links : m # l => LiveCasts(m)' = LiveCasts(m)
<1>1. [link |-> l, state |-> "options"] \in CastRecords
  BY DEF CastRecords, Live
<1>2. /\ DOMAIN casts' = 1 .. Len(casts) + 1 /\ DOMAIN casts = 1 .. Len(casts)
      /\ Len(casts) \in Nat /\ \A k \in 1 .. Len(casts) : casts'[k] = casts[k]
      /\ casts'[Len(casts) + 1] = [link |-> l, state |-> "options"]
  BY <1>1, AppendCast, CastTypes DEF PageInvariant
<1>3. DOMAIN casts' = DOMAIN casts \cup {Len(casts) + 1} /\ Len(casts) + 1 \notin DOMAIN casts
  BY <1>2
<1>4. LiveCasts(l)' = LiveCasts(l) \cup {Len(casts) + 1} /\ Len(casts) + 1 \notin LiveCasts(l)
  BY <1>2, <1>3 DEF LiveCasts, Live
<1>5. \A m \in Links : m # l => LiveCasts(m)' = LiveCasts(m)
  BY <1>2, <1>3 DEF LiveCasts
<1>6. Cardinality(LiveCasts(l) \cup {Len(casts) + 1}) = Cardinality(LiveCasts(l)) + 1
  BY <1>4, LiveCastsAreCounted, FS_AddElement
<1> QED BY <1>4, <1>5, <1>6

(* A cast that is over or goes on is a live cast less on its connection,   *)
(* or as many.                                                             *)
LEMMA CastGoesOn ==
    ASSUME PageInvariant, NEW k \in DOMAIN casts, casts[k].state \in Live,
           NEW c \in CastRecords, c.link = casts[k].link, casts' = [casts EXCEPT ![k] = c]
    PROVE  /\ \/ LiveCasts(c.link)' = LiveCasts(c.link)
              \/ /\ Cardinality(LiveCasts(c.link)) > 0
                 /\ Cardinality(LiveCasts(c.link))' = Cardinality(LiveCasts(c.link)) - 1
           /\ \A m \in Links : m # c.link => LiveCasts(m)' = LiveCasts(m)
<1>1. /\ DOMAIN casts' = DOMAIN casts /\ casts'[k] = c
      /\ \A i \in DOMAIN casts : i # k => casts'[i] = casts[i]
  BY CastTypes, ReplaceCast DEF PageInvariant
<1>2. \A m \in Links : m # c.link => LiveCasts(m)' = LiveCasts(m)
  BY <1>1 DEF LiveCasts
<1>3. CASE c.state \in Live
  BY <1>1, <1>2, <1>3 DEF LiveCasts
<1>4. CASE c.state \notin Live
  <2>1. c.link \in Links /\ k \in LiveCasts(c.link)
    BY DEF CastRecords, LiveCasts
  <2>2. LiveCasts(c.link)' = LiveCasts(c.link) \ {k}
    BY <1>1, <1>4 DEF LiveCasts
  <2>3. /\ IsFiniteSet(LiveCasts(c.link)) /\ Cardinality(LiveCasts(c.link)) \in Nat
        /\ Cardinality(LiveCasts(c.link) \ {k}) = Cardinality(LiveCasts(c.link)) - 1
        /\ Cardinality(LiveCasts(c.link) \ {k}) \in Nat
    BY <2>1, LiveCastsAreCounted, FS_RemoveElement, FS_CardinalityType
  <2> QED BY <1>2, <2>2, <2>3
<1> QED BY <1>3, <1>4

LEMMA ClientNext ==
    ASSUME PageInvariant, [Next]_vars, NEW l \in Links
    PROVE  Client(l)!Next \/ UNCHANGED Client(l)!vars
<1>1. /\ link \in [Links -> LinkStates] /\ current \in 0 .. MaxLinks
      /\ \A m \in Links : link[m] = "idle" <=> m > current
      /\ \A m \in Links : link[m] \in {"connecting", "connected"} => m = current
  BY DEF PageInvariant, TypeOK, OneConnection
<1>2. ASSUME UNCHANGED <<link, casts>> PROVE Client(l)!Next \/ UNCHANGED Client(l)!vars
  BY <1>2, ClientKeeps DEF LiveCasts
<1>3. CASE StartShape
  <2>1. LiveCasts(l)' = LiveCasts(l) /\ current + 1 \in Links
    BY <1>3 DEF StartShape, LiveCasts
  <2>2. \/ link[l] = "idle" /\ link'[l] = "connecting"
        \/ link[l] = "connecting" /\ link'[l] = "stopping"
        \/ link'[l] = link[l]
    <3>1. CASE current # 0 /\ link[current] = "connecting"
      BY <1>1, <1>3, <2>1, <3>1 DEF StartShape, Links
    <3>2. CASE ~(current # 0 /\ link[current] = "connecting")
      BY <1>1, <1>3, <2>1, <3>2 DEF StartShape, Links
    <3> QED BY <3>1, <3>2
  <2> QED BY <2>1, <2>2, ClientKeeps
<1>4. CASE CloseShape
  <2>1. /\ current \in Links /\ link[current] = "connected" /\ link'[current] = "closed"
        /\ l # current => \/ link'[l] = link[l]
                          \/ link[l] = "idle" /\ link'[l] = "connecting"
    <3>1. current \in Links /\ link[current] = "connected" /\ current # current + 1
      BY <1>4 DEF CloseShape, Links
    <3>2. CASE link' = [link EXCEPT ![current] = "closed"]
      BY <1>1, <3>1, <3>2
    <3>3. CASE /\ current + 1 \in Links
               /\ link' = [link EXCEPT ![current + 1] = "connecting", ![current] = "closed"]
      <4>1. link[current + 1] = "idle"
        BY <1>1, <3>3 DEF Links
      <4> QED BY <1>1, <3>1, <3>3, <4>1
    <3> QED BY <1>4, <3>1, <3>2, <3>3 DEF CloseShape
  <2>2. /\ DOMAIN casts' = DOMAIN casts
        /\ \A k \in DOMAIN casts :
             /\ casts'[k].link = casts[k].link
             /\ casts[k].link # current => casts'[k] = casts[k]
             /\ casts[k].link = current => casts'[k].state \notin Live
    <3>1. casts' = Cancelled(link', current, current') /\ link'[current'] # "connected"
      BY <1>1, <1>4, <2>1 DEF CloseShape, Links
    <3> QED BY <2>1, <3>1, CancelledCasts DEF PageInvariant
  <2>3. CASE l # current
    <3>1. LiveCasts(l)' = LiveCasts(l)
      BY <2>2, <2>3 DEF LiveCasts
    <3> QED BY <2>1, <2>3, <3>1, ClientKeeps
  <2>4. CASE l = current
    <3>1. LiveCasts(l)' = {}
      BY <2>2, <2>4 DEF LiveCasts
    <3>2. Cardinality(LiveCasts(l))' = 0
      BY <3>1, FS_EmptySet
    <3> QED BY <2>1, <2>4, <3>2, ClientGoesOn
  <2> QED BY <2>3, <2>4
<1>5. ASSUME NEW m \in Links, Started(m) PROVE Client(l)!Next \/ UNCHANGED Client(l)!vars
  <2>1. /\ m = current /\ link[m] = "connecting" /\ link' = [link EXCEPT ![m] = "connected"]
        /\ casts' = Append(casts, [link |-> m, state |-> "options"])
    BY <1>1, <1>5 DEF Started
  <2>2. CASE l = m
    <3>1. Cardinality(LiveCasts(l))' = 1
      BY <2>1, <2>2, CastBegins, LiveCastsAreCounted
    <3> QED BY <1>1, <2>1, <2>2, <3>1, ClientGoesOn
  <2>3. CASE l # m
    <3>1. LiveCasts(l)' = LiveCasts(l) /\ link'[l] = link[l]
      BY <1>1, <2>1, <2>3, CastBegins
    <3> QED BY <3>1, ClientKeeps
  <2> QED BY <2>2, <2>3
<1>6. ASSUME NEW m \in Links, StartFails(m) PROVE Client(l)!Next \/ UNCHANGED Client(l)!vars
  <2>1. LiveCasts(l)' = LiveCasts(l)
    BY <1>6 DEF StartFails, LiveCasts
  <2>2. \/ link'[l] = link[l]
        \/ link[l] \in {"connecting", "stopping"} /\ link'[l] = "failed"
    BY <1>1, <1>6 DEF StartFails
  <2> QED BY <2>1, <2>2, ClientKeeps
<1>7. ASSUME NEW k \in DOMAIN casts, CastShape(k) PROVE Client(l)!Next \/ UNCHANGED Client(l)!vars
  <2>1. PICK c \in CastRecords : c.link = casts[k].link /\ casts' = [casts EXCEPT ![k] = c]
    BY <1>7 DEF CastShape
  <2>2. link' = link /\ link[c.link] = "connected" /\ casts[k].state \in Live
    BY <1>7, <2>1 DEF CastShape
  <2> QED BY <2>1, <2>2, CastGoesOn, ClientKeeps, ClientGoesOn
<1>8. CASE RelaunchShape
  <2>1. /\ current \in Links /\ link[current] = "connected" /\ link' = link
        /\ casts' = Append(casts, [link |-> current, state |-> "options"])
    BY <1>8 DEF RelaunchShape, ShownUnchanged
  <2> QED BY <2>1, CastBegins, ClientKeeps, ClientGoesOn
<1>9. CASE StepShape
  BY <1>2, <1>3, <1>4, <1>5, <1>6, <1>7, <1>8, <1>9 DEF StepShape, SettleShape, ShowShape
<1>10. CASE UNCHANGED vars
  BY <1>2, <1>10 DEF vars
<1> QED BY <1>9, <1>10, NextHasShape

LEMMA ClientInit == Init => \A l \in Links : Client(l)!Init
<1> SUFFICES ASSUME Init, NEW l \in Links PROVE Client(l)!Init
  OBVIOUS
<1>1. link[l] = "idle"
  BY DEF Init
<1>2. Cardinality(LiveCasts(l)) = 0
  BY <1>1, PageInit, LiveCastsAreCounted
<1> QED BY <1>1, <1>2 DEF Client!Init

(* Every connection of the page is used as a HubClient: it is started at   *)
(* most once, and what the page waits for on it was invoked while it was   *)
(* connected and is over when it is not (ViewerHubConnection.Connect,      *)
(* SendScreenCastRequestToDevice; a request it refused is not waited for). *)
THEOREM LinksAreAlwaysClients == Spec => LinksAreClients
<1> DEFINE Clients == \A l \in Links : Client(l)!Next \/ UNCHANGED Client(l)!vars
<1>1. PageInvariant /\ [Next]_vars => Clients
  BY ClientNext
<1>2. Init => \A l \in Links : Client(l)!Init
  BY ClientInit
<1> HIDE DEF Clients
<1>3. Spec => [][Clients]_vars
  BY <1>1, PageInvariantHolds, PTL DEF Spec
<1> QED BY <1>2, <1>3 DEF LinksAreClients, Clients, Spec

=============================================================================
