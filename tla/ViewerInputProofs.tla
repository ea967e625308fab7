-------------------------- MODULE ViewerInputProofs --------------------------
(***************************************************************************)
(* Proofs about ViewerInput, for any keys, places and bounds.  All of them *)
(* rest on InputInvariant: what the desktop does not have yet is on its    *)
(* way in the right order.  An action either appends one message to the    *)
(* queue or, if it is Answer, takes the first one off and may append one.  *)
(***************************************************************************)
EXTENDS ViewerInput, TLAPS

USE InputsAssumption, PlacesAssumption, BoundsAssumption

(* What the handlers put into the queue is a message. *)
LEMMA MessagesAreMessages ==
    /\ \A p \in Places \cup {Finger}, t \in Continuations : Move(p, t) \in Messages
    /\ \A b \in {"left", "right"}, d \in {"mouse", "touch"}, t \in Continuations :
         Press(b, d, t) \in Messages /\ Release(b, d, t) \in Messages
    /\ \A k \in Keys : KeyDown(k) \in Messages /\ KeyUp(k) \in Messages
    /\ {KeyPress, KeyStatesUp, Wheel} \subseteq Messages
  BY DEF Messages, Moves, Buttons, KeyStrokes, Others, Move, Press, Release,
         KeyDown, KeyUp, KeyPress, KeyStatesUp, Wheel

(* What the parts of the invariant watch for, in each of the messages. *)
Unwatched(m) == m \in Messages /\ ~IsMouseMove(m) /\ ~PressesKey(m) /\ ~PressesRight(m)

LEMMA WhatIsWatched ==
    /\ \A t \in Continuations : Unwatched(Move(Finger, t))
    /\ \A p \in Places, t \in Continuations :
         LET m == Move(p, t)
         IN  m \in Messages /\ ~PressesKey(m) /\ ~PressesRight(m)
    /\ \A b \in {"left", "right"}, d \in {"mouse", "touch"}, t \in Continuations :
         Unwatched(Release(b, d, t))
    /\ \A b \in {"left", "right"}, t \in Continuations : Unwatched(Press(b, "mouse", t))
    /\ \A t \in Continuations : Unwatched(Press("left", "touch", t))
    /\ \A t \in Continuations :
         LET m == RightClick(t)
         IN  m \in Messages /\ m.then = t /\ ~IsMouseMove(m) /\ ~PressesKey(m)
    /\ \A k \in Keys :
         LET m == KeyDown(k)
         IN  m \in Messages /\ ~IsMouseMove(m) /\ ~PressesRight(m)
    /\ \A k \in Keys : Unwatched(KeyUp(k))
    /\ Unwatched(KeyPress) /\ Unwatched(KeyStatesUp) /\ Unwatched(Wheel)
<1> USE MessagesAreMessages DEF Unwatched, IsMouseMove, PressesKey, PressesRight
<1>1. \A t \in Continuations : Unwatched(Move(Finger, t))
  BY DEF Move
<1>2. \A p \in Places, t \in Continuations :
        LET m == Move(p, t)
        IN  m \in Messages /\ ~PressesKey(m) /\ ~PressesRight(m)
  BY DEF Move
<1>3. \A b \in {"left", "right"}, d \in {"mouse", "touch"}, t \in Continuations :
        Unwatched(Release(b, d, t))
  BY DEF Release
<1>4. /\ \A b \in {"left", "right"}, t \in Continuations : Unwatched(Press(b, "mouse", t))
      /\ \A t \in Continuations : Unwatched(Press("left", "touch", t))
  BY DEF Press
<1>5. \A t \in Continuations :
        LET m == RightClick(t)
        IN  m \in Messages /\ m.then = t /\ ~IsMouseMove(m) /\ ~PressesKey(m)
  BY DEF RightClick, Press
<1>6. \A k \in Keys :
        LET m == KeyDown(k)
        IN  m \in Messages /\ ~IsMouseMove(m) /\ ~PressesRight(m)
  BY DEF KeyDown
<1>7. \A k \in Keys : Unwatched(KeyUp(k))
  BY DEF KeyUp
<1>8. Unwatched(KeyPress) /\ Unwatched(KeyStatesUp) /\ Unwatched(Wheel)
  BY DEF KeyPress, KeyStatesUp, Wheel
<1> QED BY <1>1, <1>2, <1>3, <1>4, <1>5, <1>6, <1>7, <1>8

(* The queue with a message behind it. *)
LEMMA AppendToQueue ==
    ASSUME NEW s \in Seq(Messages), NEW m \in Messages
    PROVE  /\ Append(s, m) \in Seq(Messages)
           /\ Len(Append(s, m)) = Len(s) + 1
           /\ Len(s) \in Nat
           /\ \A i \in 1 .. Len(s) : Append(s, m)[i] = s[i]
           /\ Append(s, m)[Len(s) + 1] = m
  OBVIOUS

(* The queue without its first message. *)
LEMMA RestOfQueue ==
    ASSUME NEW s \in Seq(Messages), s # << >>
    PROVE  /\ Tail(s) \in Seq(Messages)
           /\ Len(s) \in Nat \ {0}
           /\ Len(Tail(s)) = Len(s) - 1
           /\ \A i \in 1 .. Len(s) - 1 : Tail(s)[i] = s[i + 1]
           /\ Head(s) = s[1]
           /\ Head(s) \in Messages
  OBVIOUS

(* The desktop stays a desktop. *)
LEMMA ApplyIsDesktop ==
    ASSUME NEW d \in Desktops, NEW m \in Messages
    PROVE  Apply(d, m) \in Desktops
<1>1. CASE m \in Moves
  BY <1>1 DEF Apply, Desktops, Moves
<1>2. CASE m \in Buttons
  BY <1>2 DEF Apply, Desktops, Buttons
<1>3. CASE m \in KeyStrokes
  <2>1. m.key \in Keys /\ m.kind \in {"keyDown", "keyUp"}
    BY <1>3 DEF KeyStrokes
  <2> QED BY <2>1 DEF Apply, Desktops
<1>4. CASE m \in Others
  BY <1>4 DEF Apply, Desktops, Others
<1> QED BY <1>1, <1>2, <1>3, <1>4 DEF Messages

-----------------------------------------------------------------------------
(* The parts of the invariant when the queue grows and the desktop stays.  *)

LEMMA LastMoveKept ==
    ASSUME TypeOK, LastMoveOnItsWay, UNCHANGED <<mouse, timer, desktop>>,
           \/ sent' = sent
           \/ \E m \in Messages : sent' = Append(sent, m) /\ ~IsMouseMove(m)
    PROVE  LastMoveOnItsWay'
<1>1. CASE sent' = sent
  BY <1>1 DEF LastMoveOnItsWay, IsMouseMove
<1>2. ASSUME NEW m \in Messages, sent' = Append(sent, m), ~IsMouseMove(m)
      PROVE  LastMoveOnItsWay'
  <2> sent \in Seq(Messages)
    BY DEF TypeOK
  <2>1. \A j \in 1 .. Len(sent') : j \in 1 .. Len(sent) \/ sent'[j] = m
    BY <1>2, AppendToQueue
  <2>2. \A j \in 1 .. Len(sent) : sent'[j] = sent[j] /\ j \in 1 .. Len(sent')
    BY <1>2, AppendToQueue
  <2>3. CASE timer # None
    BY <2>3 DEF LastMoveOnItsWay
  <2>4. ASSUME NEW i \in 1 .. Len(sent), timer = None,
               IsMouseMove(sent[i]), sent[i].at = mouse,
               \A j \in i + 1 .. Len(sent) : ~IsMouseMove(sent[j])
        PROVE  LastMoveOnItsWay'
    <3>1. i \in 1 .. Len(sent') /\ sent'[i] = sent[i]
      BY <2>2
    <3>2. \A j \in i + 1 .. Len(sent') : ~IsMouseMove(sent'[j])
      BY <1>2, <2>4, AppendToQueue
    <3> QED BY <2>4, <3>1, <3>2 DEF LastMoveOnItsWay, IsMouseMove
  <2>5. CASE timer = None /\ \A j \in 1 .. Len(sent) : ~IsMouseMove(sent[j])
    <3>1. \A j \in 1 .. Len(sent') : ~IsMouseMove(sent'[j])
      BY <1>2, <2>5, AppendToQueue
    <3>2. desktop.cursor \in {mouse, Finger}
      BY <2>5 DEF LastMoveOnItsWay
    <3> QED BY <2>5, <3>1, <3>2 DEF LastMoveOnItsWay, IsMouseMove
  <2> QED BY <2>3, <2>4, <2>5 DEF LastMoveOnItsWay
<1> QED BY <1>1, <1>2

LEMMA ReleaseOfKeysKept ==
    ASSUME TypeOK, ReleaseOfKeysOnItsWay,
           UNCHANGED <<desktop, hasFocus, viewOnly>>,
           \/ sent' = sent
           \/ \E m \in Messages : sent' = Append(sent, m) /\ ~PressesKey(m)
    PROVE  ReleaseOfKeysOnItsWay'
<1> sent \in Seq(Messages)
  BY DEF TypeOK
<1>1. CASE sent' = sent
  BY <1>1 DEF ReleaseOfKeysOnItsWay, PressesKey
<1>2. ASSUME NEW m \in Messages, sent' = Append(sent, m), ~PressesKey(m)
      PROVE  ReleaseOfKeysOnItsWay'
  <2> SUFFICES ASSUME ~hasFocus', ~viewOnly'
               PROVE  ReleaseOfKeysOnItsWay'
    BY DEF ReleaseOfKeysOnItsWay
  <2>1. ~hasFocus /\ ~viewOnly
    OBVIOUS
  <2>2. ASSUME NEW i \in 1 .. Len(sent), sent[i].kind = "keyStatesUp",
               \A j \in i + 1 .. Len(sent) : ~PressesKey(sent[j])
        PROVE  ReleaseOfKeysOnItsWay'
    <3>1. i \in 1 .. Len(sent') /\ sent'[i] = sent[i]
      BY <1>2, AppendToQueue
    <3>2. \A j \in i + 1 .. Len(sent') : ~PressesKey(sent'[j])
      BY <1>2, <2>2, AppendToQueue
    <3> QED BY <2>2, <3>1, <3>2 DEF ReleaseOfKeysOnItsWay, PressesKey
  <2>3. CASE /\ desktop.keys = {}
             /\ \A j \in 1 .. Len(sent) : ~PressesKey(sent[j])
    <3>1. \A j \in 1 .. Len(sent') : ~PressesKey(sent'[j])
      BY <1>2, <2>3, AppendToQueue
    <3> QED BY <2>3, <3>1 DEF ReleaseOfKeysOnItsWay, PressesKey
  <2> QED BY <2>1, <2>2, <2>3 DEF ReleaseOfKeysOnItsWay
<1> QED BY <1>1, <1>2

LEMMA ReleaseOfRightKept ==
    ASSUME TypeOK, ReleaseOfRightOnItsWay, UNCHANGED desktop,
           \/ sent' = sent
           \/ \E m \in Messages :
                /\ sent' = Append(sent, m)
                /\ PressesRight(m) => m.then \in {"releaseRight", "endReleaseRight"}
    PROVE  ReleaseOfRightOnItsWay'
<1> sent \in Seq(Messages)
  BY DEF TypeOK
<1>1. CASE sent' = sent
  BY <1>1 DEF ReleaseOfRightOnItsWay, PressesRight, ReleasesRight
<1>2. ASSUME NEW m \in Messages, sent' = Append(sent, m),
             PressesRight(m) => m.then \in {"releaseRight", "endReleaseRight"}
      PROVE  ReleaseOfRightOnItsWay'
  <2>1. \A i \in 1 .. Len(sent') :
          PressesRight(sent'[i]) => sent'[i].then \in {"releaseRight", "endReleaseRight"}
    BY <1>2, AppendToQueue DEF ReleaseOfRightOnItsWay
  <2>2. ASSUME NEW i \in 1 .. Len(sent), ReleasesRight(sent[i])
        PROVE  i \in 1 .. Len(sent') /\ ReleasesRight(sent'[i])
    BY <1>2, <2>2, AppendToQueue
  <2> QED BY <2>1, <2>2 DEF ReleaseOfRightOnItsWay, PressesRight, ReleasesRight
<1> QED BY <1>1, <1>2

-----------------------------------------------------------------------------
(* The parts of the invariant when the hub answers.                        *)

(* What a message does to the cursor, to the keys and to the right button. *)
LEMMA ApplyFields ==
    ASSUME NEW d \in Desktops, NEW m \in Messages
    PROVE  /\ Apply(d, m).cursor = IF m.kind = "move" THEN m.at ELSE d.cursor
           /\ m.kind = "keyStatesUp" => Apply(d, m).keys = {}
           /\ d.keys = {} /\ ~PressesKey(m) => Apply(d, m).keys = {}
           /\ ReleasesRight(m) => Apply(d, m).right = "up"
           /\ Apply(d, m).right = "touch" => d.right = "touch" \/ PressesRight(m)
<1>1. CASE m \in Moves
  BY <1>1 DEF Apply, Desktops, Moves, PressesKey, ReleasesRight, PressesRight
<1>2. CASE m \in Buttons
  <2>1. CASE m.button = "left"
    BY <1>2, <2>1 DEF Apply, Desktops, Buttons, PressesKey, ReleasesRight, PressesRight
  <2>2. CASE m.button = "right"
    BY <1>2, <2>2 DEF Apply, Desktops, Buttons, PressesKey, ReleasesRight, PressesRight
  <2> QED BY <1>2, <2>1, <2>2 DEF Buttons
<1>3. CASE m \in KeyStrokes
  <2>1. m.key \in Keys /\ m.kind \in {"keyDown", "keyUp"}
    BY <1>3 DEF KeyStrokes
  <2> QED BY <2>1 DEF Apply, Desktops, PressesKey, ReleasesRight, PressesRight
<1>4. CASE m \in Others
  BY <1>4 DEF Apply, Desktops, Others, PressesKey, ReleasesRight, PressesRight
<1> QED BY <1>1, <1>2, <1>3, <1>4 DEF Messages

(* The queue behind the message that is answered. *)
RestGoesOn ==
    \/ sent' = Tail(sent)
    \/ \E m \in Messages :
         /\ sent' = Append(Tail(sent), m)
         /\ ~IsMouseMove(m) /\ ~PressesKey(m) /\ ~PressesRight(m)

(* A handler that goes on sends no mouse move, key or right press; the     *)
(* handler of a right click sends the release.                             *)
LEMMA AnswerQueue ==
    ASSUME TypeOK, Answer
    PROVE  /\ sent \in Seq(Messages) /\ sent # << >>
           /\ Head(sent) \in Messages
           /\ desktop \in Desktops /\ desktop' = Apply(desktop, Head(sent))
           /\ RestGoesOn
           /\ Head(sent).then \in {"releaseRight", "endReleaseRight"} =>
                \E m \in Messages : sent' = Append(Tail(sent), m) /\ ReleasesRight(m)
<1> DEFINE Others1 == {Press("left", "touch", "nothing"), Wheel,
                       Release("left", "touch", "reset"),
                       Release("left", "touch", "endGesture")}
           Rights == {Release("right", "touch", "afterRight"),
                      Release("right", "touch", "endAfterRight")}
<1>1. sent \in Seq(Messages) /\ sent # << >> /\ desktop \in Desktops
  BY DEF TypeOK, Answer
<1>2. \A m \in Others1 \cup Rights :
        m \in Messages /\ ~IsMouseMove(m) /\ ~PressesKey(m) /\ ~PressesRight(m)
  BY WhatIsWatched DEF Continuations, Unwatched
<1>3. \A m \in Rights : ReleasesRight(m)
  BY DEF Release, ReleasesRight
<1>4. Resume(Head(sent).then, Tail(sent)) /\ desktop' = Apply(desktop, Head(sent))
  BY DEF Answer
<1>5. \/ sent' = Tail(sent) /\ Head(sent).then \notin {"releaseRight", "endReleaseRight"}
      \/ \E m \in Others1 : /\ sent' = Append(Tail(sent), m)
                            /\ Head(sent).then \notin {"releaseRight", "endReleaseRight"}
      \/ \E m \in Rights : sent' = Append(Tail(sent), m)
  BY <1>4 DEF Resume
<1> HIDE DEF Others1, Rights
<1> QED BY <1>1, <1>2, <1>3, <1>4, <1>5, RestOfQueue DEF RestGoesOn

(* Where the messages of the queue stand after an answer. *)
LEMMA QueueAfterAnswer ==
    ASSUME sent \in Seq(Messages), sent # << >>, RestGoesOn
    PROVE  /\ \A i \in 2 .. Len(sent) :
                 i - 1 \in 1 .. Len(sent') /\ sent'[i - 1] = sent[i]
           /\ \A j \in 1 .. Len(sent') :
                 \/ j + 1 \in 2 .. Len(sent) /\ sent'[j] = sent[j + 1]
                 \/ /\ j = Len(sent)
                    /\ ~IsMouseMove(sent'[j]) /\ ~PressesKey(sent'[j])
                    /\ ~PressesRight(sent'[j])
           /\ Len(sent) \in Nat \ {0} /\ Len(sent') \in {Len(sent) - 1, Len(sent)}
<1>1. CASE sent' = Tail(sent)
  BY <1>1, RestOfQueue
<1>2. ASSUME NEW m \in Messages, sent' = Append(Tail(sent), m),
             ~IsMouseMove(m), ~PressesKey(m), ~PressesRight(m)
      PROVE  /\ \A i \in 2 .. Len(sent) :
                   i - 1 \in 1 .. Len(sent') /\ sent'[i - 1] = sent[i]
             /\ \A j \in 1 .. Len(sent') :
                   \/ j + 1 \in 2 .. Len(sent) /\ sent'[j] = sent[j + 1]
                   \/ j = Len(sent) /\ sent'[j] = m
             /\ Len(sent) \in Nat \ {0} /\ Len(sent') = Len(sent)
  BY <1>2, RestOfQueue, AppendToQueue
<1> QED BY <1>1, <1>2 DEF RestGoesOn

LEMMA LastMoveAnswered ==
    ASSUME TypeOK, LastMoveOnItsWay, Answer
    PROVE  LastMoveOnItsWay'
<1> DEFINE cursor == IF Head(sent).kind = "move" THEN Head(sent).at ELSE desktop.cursor
<1>1. /\ desktop'.cursor = cursor
      /\ UNCHANGED <<mouse, timer>>
      /\ sent \in Seq(Messages) /\ sent # << >> /\ RestGoesOn
      /\ Head(sent) = sent[1]
  BY AnswerQueue, ApplyFields, RestOfQueue DEF Answer, inputVars
<1> HIDE DEF cursor
<1>2. CASE timer # None
  BY <1>1, <1>2 DEF LastMoveOnItsWay
<1>3. ASSUME NEW i \in 1 .. Len(sent), timer = None,
             IsMouseMove(sent[i]), sent[i].at = mouse,
             \A j \in i + 1 .. Len(sent) : ~IsMouseMove(sent[j])
      PROVE  LastMoveOnItsWay'
  <2>1. CASE i = 1
    <3>1. cursor = mouse
      BY <1>1, <1>3, <2>1 DEF cursor, IsMouseMove
    <3>2. \A j \in 1 .. Len(sent') : ~IsMouseMove(sent'[j])
      BY <1>1, <1>3, <2>1, QueueAfterAnswer
    <3> QED BY <1>1, <1>3, <3>1, <3>2 DEF LastMoveOnItsWay, IsMouseMove
  <2>2. CASE i # 1
    <3> DEFINE k == i - 1
    <3>1. k \in 1 .. Len(sent') /\ sent'[k] = sent[i]
      BY <1>1, <2>2, QueueAfterAnswer
    <3>2. \A j \in k + 1 .. Len(sent') : ~IsMouseMove(sent'[j])
      BY <1>1, <1>3, QueueAfterAnswer
    <3> HIDE DEF k
    <3> QED BY <1>1, <1>3, <3>1, <3>2 DEF LastMoveOnItsWay, IsMouseMove
  <2> QED BY <2>1, <2>2
<1>4. CASE /\ timer = None
           /\ desktop.cursor \in {mouse, Finger}
           /\ \A j \in 1 .. Len(sent) : ~IsMouseMove(sent[j])
  <2>1. \A j \in 1 .. Len(sent') : ~IsMouseMove(sent'[j])
    BY <1>1, <1>4, QueueAfterAnswer
  <2>2. ~IsMouseMove(sent[1])
    BY <1>1, <1>4, QueueAfterAnswer
  <2>3. cursor \in {mouse, Finger}
    BY <1>1, <1>4, <2>2 DEF cursor, IsMouseMove
  <2> QED BY <1>1, <1>4, <2>1, <2>3 DEF LastMoveOnItsWay, IsMouseMove
<1> QED BY <1>2, <1>3, <1>4 DEF LastMoveOnItsWay

LEMMA ReleaseOfKeysAnswered ==
    ASSUME TypeOK, ReleaseOfKeysOnItsWay, Answer
    PROVE  ReleaseOfKeysOnItsWay'
<1> SUFFICES ASSUME ~hasFocus', ~viewOnly'
             PROVE  ReleaseOfKeysOnItsWay'
  BY DEF ReleaseOfKeysOnItsWay
<1>1. /\ ~hasFocus /\ ~viewOnly
      /\ sent \in Seq(Messages) /\ sent # << >> /\ RestGoesOn
      /\ Head(sent) = sent[1] /\ sent[1] \in Messages
      /\ desktop \in Desktops /\ desktop' = Apply(desktop, sent[1])
  BY AnswerQueue, RestOfQueue DEF Answer, inputVars
<1>2. ASSUME NEW i \in 1 .. Len(sent), sent[i].kind = "keyStatesUp",
             \A j \in i + 1 .. Len(sent) : ~PressesKey(sent[j])
      PROVE  ReleaseOfKeysOnItsWay'
  <2>1. CASE i = 1
    <3>1. desktop'.keys = {}
      BY <1>1, <1>2, <2>1, ApplyFields
    <3>2. \A j \in 1 .. Len(sent') : ~PressesKey(sent'[j])
      BY <1>1, <1>2, <2>1, QueueAfterAnswer
    <3> QED BY <3>1, <3>2 DEF ReleaseOfKeysOnItsWay, PressesKey
  <2>2. CASE i # 1
    <3> DEFINE k == i - 1
    <3>1. k \in 1 .. Len(sent') /\ sent'[k] = sent[i]
      BY <1>1, <2>2, QueueAfterAnswer
    <3>2. \A j \in k + 1 .. Len(sent') : ~PressesKey(sent'[j])
      BY <1>1, <1>2, QueueAfterAnswer
    <3> HIDE DEF k
    <3> QED BY <1>2, <3>1, <3>2 DEF ReleaseOfKeysOnItsWay, PressesKey
  <2> QED BY <2>1, <2>2
<1>3. CASE /\ desktop.keys = {}
           /\ \A j \in 1 .. Len(sent) : ~PressesKey(sent[j])
  <2>1. \A j \in 1 .. Len(sent') : ~PressesKey(sent'[j])
    BY <1>1, <1>3, QueueAfterAnswer
  <2>2. ~PressesKey(sent[1])
    BY <1>1, <1>3, QueueAfterAnswer
  <2>3. desktop'.keys = {}
    BY <1>1, <1>3, <2>2, ApplyFields
  <2> QED BY <2>1, <2>3 DEF ReleaseOfKeysOnItsWay, PressesKey
<1> QED BY <1>1, <1>2, <1>3 DEF ReleaseOfKeysOnItsWay

LEMMA ReleaseOfRightAnswered ==
    ASSUME TypeOK, ReleaseOfRightOnItsWay, Answer
    PROVE  ReleaseOfRightOnItsWay'
<1>1. /\ sent \in Seq(Messages) /\ sent # << >> /\ RestGoesOn
      /\ Head(sent) = sent[1] /\ sent[1] \in Messages
      /\ desktop \in Desktops /\ desktop' = Apply(desktop, sent[1])
      /\ Len(sent) \in Nat \ {0}
  BY AnswerQueue, RestOfQueue DEF Answer
<1>2. \A i \in 1 .. Len(sent') :
        PressesRight(sent'[i]) => sent'[i].then \in {"releaseRight", "endReleaseRight"}
  BY <1>1, QueueAfterAnswer DEF ReleaseOfRightOnItsWay
<1>3. ASSUME desktop'.right = "touch"
      PROVE  \E i \in 1 .. Len(sent') : ReleasesRight(sent'[i])
  <2>1. CASE PressesRight(sent[1])
    <3>1. sent[1].then \in {"releaseRight", "endReleaseRight"}
      BY <1>1, <2>1 DEF ReleaseOfRightOnItsWay
    <3>2. PICK m \in Messages : sent' = Append(Tail(sent), m) /\ ReleasesRight(m)
      BY <1>1, <3>1, AnswerQueue
    <3>3. sent'[Len(sent')] = m /\ Len(sent') \in 1 .. Len(sent')
      BY <1>1, <3>2, RestOfQueue, AppendToQueue
    <3> QED BY <3>2, <3>3
  <2>2. CASE ~PressesRight(sent[1])
    <3>1. desktop.right = "touch" /\ ~ReleasesRight(sent[1])
      BY <1>1, <1>3, <2>2, ApplyFields
    <3>2. PICK i \in 1 .. Len(sent) : ReleasesRight(sent[i])
      BY <3>1 DEF ReleaseOfRightOnItsWay
    <3>3. i \in 2 .. Len(sent)
      BY <1>1, <3>1, <3>2
    <3>4. i - 1 \in 1 .. Len(sent') /\ sent'[i - 1] = sent[i]
      BY <1>1, <3>3, QueueAfterAnswer
    <3> QED BY <3>2, <3>4
  <2> QED BY <2>1, <2>2
<1> QED BY <1>2, <1>3 DEF ReleaseOfRightOnItsWay, PressesRight, ReleasesRight

-----------------------------------------------------------------------------
(* The type invariant, by the kind of action.                              *)

LEMMA InitType == Init => InputInvariant
<1> SUFFICES ASSUME Init PROVE InputInvariant
  OBVIOUS
<1>1. TypeOK
  <2>1. desktop \in Desktops
    BY DEF Init, Desktops
  <2>2. sent \in Seq(Messages) /\ touches \in Nat /\ fingers \in 0 .. 2
    BY DEF Init
  <2>3. /\ viewOnly \in BOOLEAN /\ held \subseteq Keys
        /\ gesture \in {"none", "touch", "held", "panned"}
        /\ {mouse, timer} \subseteq Places \cup {None}
    BY DEF Init
  <2>4. /\ {hasFocus, typing} \subseteq BOOLEAN
        /\ {longPressStarted, isDragging, isPinchZooming, isScrolling} \subseteq BOOLEAN
    BY DEF Init
  <2> QED BY <2>1, <2>2, <2>3, <2>4 DEF TypeOK
<1>2. LastMoveOnItsWay /\ ReleaseOfKeysOnItsWay /\ ReleaseOfRightOnItsWay
  BY DEF Init, LastMoveOnItsWay, ReleaseOfKeysOnItsWay, ReleaseOfRightOnItsWay
<1> QED BY <1>1, <1>2 DEF InputInvariant

(* A message a handler sends, and that it is none of those the parts watch. *)
SendsNothingWatched ==
    \/ UNCHANGED sent
    \/ \E m \in Messages :
         /\ sent' = Append(sent, m)
         /\ ~IsMouseMove(m) /\ ~PressesKey(m)
         /\ PressesRight(m) => m.then \in {"releaseRight", "endReleaseRight"}

LEMMA TouchStep ==
    ASSUME TypeOK, Touch
    PROVE  /\ SendsNothingWatched
           /\ UNCHANGED <<viewOnly, inputVars, desktop>>
           /\ fingers' \in 0 .. 2 /\ touches' \in Nat
           /\ gesture' \in {"none", "touch", "held", "panned"}
           /\ {longPressStarted', isDragging', isPinchZooming', isScrolling'} \subseteq BOOLEAN
<1> DEFINE Sent == {Move(Finger, "startLongPress"), Move(Finger, "pressLeft"),
                    Move(Finger, "nothing"), Move(Finger, "scroll"), Wheel,
                    Release("left", "touch", "reset"),
                    Release("left", "touch", "endGesture"),
                    RightClick("releaseRight"), RightClick("endReleaseRight")}
<1>1. \A m \in Sent :
        /\ m \in Messages
        /\ ~IsMouseMove(m) /\ ~PressesKey(m)
        /\ PressesRight(m) => m.then \in {"releaseRight", "endReleaseRight"}
  BY WhatIsWatched DEF Continuations, Unwatched
<1>2. \/ UNCHANGED sent
      \/ \E m \in Sent : sent' = Append(sent, m)
  BY DEF Touch, TouchStart, LongPress, Pan, StartDrag, Drag, Scroll, PinchZoom,
         LiftPointer, LiftTouch, Send
<1>3. SendsNothingWatched
  <2> HIDE DEF Sent
  <2> QED BY <1>1, <1>2 DEF SendsNothingWatched
<1>4. /\ UNCHANGED <<viewOnly, inputVars, desktop>>
      /\ gesture' \in {"none", "touch", "held", "panned"}
      /\ {longPressStarted', isDragging', isPinchZooming', isScrolling'} \subseteq BOOLEAN
  BY DEF TypeOK, Touch, TouchStart, LongPress, Pan, StartDrag, Drag, Scroll,
         PinchZoom, LiftPointer, LiftTouch, TouchUnchanged, TouchMoveUnchanged,
         ResetTouchState, touchState
<1>5. fingers' \in 0 .. 2 /\ touches' \in Nat
  BY DEF TypeOK, Touch, TouchStart, LongPress, Pan, StartDrag, Drag, Scroll,
         PinchZoom, LiftPointer, LiftTouch, TouchMoveUnchanged
<1> QED BY <1>3, <1>4, <1>5

LEMMA SentIsTyped ==
    ASSUME TypeOK, UNCHANGED sent \/ \E m \in Messages : sent' = Append(sent, m)
    PROVE  sent' \in Seq(Messages)
  BY AppendToQueue DEF TypeOK

(* Touch: nothing the other parts watch is sent, a right press with its    *)
(* release to follow.                                                      *)
LEMMA TouchKeepsInvariant ==
    ASSUME InputInvariant, Touch
    PROVE  InputInvariant'
<1>1. TypeOK
  BY DEF InputInvariant
<1>2. TypeOK'
  BY <1>1, TouchStep, SentIsTyped DEF TypeOK, inputVars, SendsNothingWatched
<1>3. LastMoveOnItsWay'
  BY <1>1, TouchStep, LastMoveKept DEF InputInvariant, inputVars, SendsNothingWatched
<1>4. ReleaseOfKeysOnItsWay'
  BY <1>1, TouchStep, ReleaseOfKeysKept
     DEF InputInvariant, inputVars, SendsNothingWatched
<1>5. ReleaseOfRightOnItsWay'
  BY <1>1, TouchStep, ReleaseOfRightKept DEF InputInvariant, SendsNothingWatched
<1> QED BY <1>2, <1>3, <1>4, <1>5 DEF InputInvariant

(* The mouse: a move is kept by the timeout or put behind all others.      *)
LEMMA MouseKeepsInvariant ==
    ASSUME InputInvariant, Mouse
    PROVE  InputInvariant'
<1>1. TypeOK /\ sent \in Seq(Messages) /\ LastMoveOnItsWay
  BY DEF InputInvariant, TypeOK
<1>2. /\ UNCHANGED <<viewOnly, hasFocus, typing, held, fingers, gesture,
                     touchState, desktop, touches>>
      /\ \/ UNCHANGED <<sent, mouse>> /\ timer' = mouse' /\ timer' \in Places
         \/ UNCHANGED sent /\ mouse' \in Places /\ timer' = mouse'
         \/ /\ timer' = None /\ mouse' \in Places
            /\ sent' = Append(sent, Move(mouse', "nothing"))
         \/ /\ UNCHANGED <<mouse, timer>>
            /\ \E b \in {"left", "right"} :
                 \/ sent' = Append(sent, Press(b, "mouse", "nothing"))
                 \/ sent' = Append(sent, Release(b, "mouse", "nothing"))
         \/ UNCHANGED <<mouse, timer>> /\ sent' = Append(sent, Wheel)
  <2>1. ASSUME NEW p \in Places, MouseMove(p) PROVE <1>2
    BY <2>1 DEF MouseMove, MouseUnchanged, Send
  <2>2. CASE SendLastMove
    <3>1. timer \in Places /\ timer = mouse
      BY <1>1, <2>2 DEF SendLastMove, LastMoveOnItsWay, TypeOK
    <3> QED BY <2>2, <3>1 DEF SendLastMove, MouseUnchanged, Send
  <2>3. ASSUME NEW b \in {"left", "right"}, MouseButton(b) PROVE <1>2
    BY <2>3 DEF MouseButton, MouseUnchanged, Send
  <2>4. CASE MouseWheel
    BY <2>4 DEF MouseWheel, MouseUnchanged, Send
  <2> QED BY <2>1, <2>2, <2>3, <2>4 DEF Mouse
<1>3. \E m \in Messages : sent' = Append(sent, m) \/ UNCHANGED sent
  BY <1>2, MessagesAreMessages DEF Continuations
<1>4. TypeOK'
  <2>1. sent' \in Seq(Messages)
    BY <1>1, <1>3, SentIsTyped
  <2> QED BY <1>1, <1>2, <2>1 DEF TypeOK, touchState
<1>5. \/ UNCHANGED sent
      \/ \E m \in Messages :
           sent' = Append(sent, m) /\ ~PressesKey(m) /\ ~PressesRight(m)
  <2>1. \A p \in Places : /\ Move(p, "nothing") \in Messages
                          /\ ~PressesKey(Move(p, "nothing"))
                          /\ ~PressesRight(Move(p, "nothing"))
    BY WhatIsWatched DEF Continuations
  <2>2. \A b \in {"left", "right"} :
          \A m \in {Press(b, "mouse", "nothing"), Release(b, "mouse", "nothing"), Wheel} :
             m \in Messages /\ ~PressesKey(m) /\ ~PressesRight(m)
    BY WhatIsWatched DEF Continuations, Unwatched
  <2> QED BY <1>2, <2>1, <2>2
<1>6. ReleaseOfKeysOnItsWay'
  BY <1>1, <1>2, <1>5, ReleaseOfKeysKept DEF InputInvariant
<1>7. ReleaseOfRightOnItsWay'
  BY <1>1, <1>2, <1>5, ReleaseOfRightKept DEF InputInvariant
<1>8. LastMoveOnItsWay'
  <2>1. CASE timer' = mouse' /\ timer' \in Places
    BY <2>1 DEF LastMoveOnItsWay
  <2>2. CASE /\ timer' = None /\ mouse' \in Places
             /\ sent' = Append(sent, Move(mouse', "nothing"))
    <3> DEFINE i == Len(sent')
    <3>1. Move(mouse', "nothing") \in Messages
      BY <2>2, MessagesAreMessages DEF Continuations
    <3>2. i \in 1 .. Len(sent') /\ sent'[i] = Move(mouse', "nothing")
          /\ i + 1 .. Len(sent') = {}
      BY <1>1, <2>2, <3>1, AppendToQueue
    <3>3. IsMouseMove(sent'[i]) /\ sent'[i].at = mouse'
      BY <2>2, <3>2 DEF IsMouseMove, Move
    <3> HIDE DEF i
    <3> QED BY <2>2, <3>2, <3>3 DEF LastMoveOnItsWay, IsMouseMove
  <2>3. ASSUME UNCHANGED <<mouse, timer>>,
               NEW b \in {"left", "right"},
               NEW m \in {Press(b, "mouse", "nothing"),
                          Release(b, "mouse", "nothing"), Wheel},
               sent' = Append(sent, m)
        PROVE  LastMoveOnItsWay'
    <3>1. m \in Messages /\ ~IsMouseMove(m)
      BY WhatIsWatched DEF Continuations, Unwatched
    <3> QED BY <1>1, <1>2, <2>3, <3>1, LastMoveKept
  <2> QED BY <1>2, <2>1, <2>2, <2>3
<1> QED BY <1>4, <1>6, <1>7, <1>8 DEF InputInvariant

(* The keyboard: keydown is sent only with the focus, and losing the focus *)
(* puts the release of all keys behind every keydown.                      *)
LEMMA KeyboardKeepsInvariant ==
    ASSUME InputInvariant, Keyboard
    PROVE  InputInvariant'
<1>1. TypeOK /\ sent \in Seq(Messages)
  BY DEF InputInvariant, TypeOK
<1>2. /\ UNCHANGED <<viewOnly, mouse, timer, fingers, gesture, touchState,
                     desktop, touches>>
      /\ {hasFocus', typing'} \subseteq BOOLEAN /\ held' \subseteq Keys
      /\ \/ hasFocus' /\ UNCHANGED sent
         \/ /\ hasFocus'
            /\ \E k \in Keys : sent' = Append(sent, KeyDown(k)) \/ sent' = Append(sent, KeyUp(k))
         \/ hasFocus' /\ sent' = Append(sent, KeyPress)
         \/ ~hasFocus' /\ viewOnly' /\ UNCHANGED sent
         \/ ~hasFocus' /\ sent' = Append(sent, KeyStatesUp)
  <2>1. ASSUME NEW k \in Keys, KeyIsDown(k) PROVE <1>2
    BY <1>1, <2>1 DEF KeyIsDown, KeyboardUnchanged, Send, TypeOK
  <2>2. ASSUME NEW k \in Keys, KeyIsUp(k) PROVE <1>2
    BY <1>1, <2>2 DEF KeyIsUp, KeyboardUnchanged, Send, TypeOK
  <2>3. CASE ToggleTouchKeyboard
    BY <1>1, <2>3 DEF ToggleTouchKeyboard, KeyboardUnchanged, TypeOK
  <2>4. CASE TypeEnter
    BY <1>1, <2>4 DEF TypeEnter, KeyboardUnchanged, Send, TypeOK
  <2>5. CASE Blur
    BY <1>1, <2>5 DEF Blur, KeyboardUnchanged, Send, TypeOK
  <2>6. CASE Focus
    BY <1>1, <2>6 DEF Focus, KeyboardUnchanged, TypeOK
  <2> QED BY <2>1, <2>2, <2>3, <2>4, <2>5, <2>6 DEF Keyboard
<1>3. \/ UNCHANGED sent
      \/ \E m \in Messages :
           sent' = Append(sent, m) /\ ~IsMouseMove(m) /\ ~PressesRight(m)
  <2>1. \A k \in Keys : \A m \in {KeyDown(k), KeyUp(k), KeyPress, KeyStatesUp} :
          m \in Messages /\ ~IsMouseMove(m) /\ ~PressesRight(m)
    BY WhatIsWatched DEF Unwatched
  <2>2. \A m \in {KeyPress, KeyStatesUp} :
          m \in Messages /\ ~IsMouseMove(m) /\ ~PressesRight(m)
    BY WhatIsWatched DEF Unwatched
  <2> QED BY <1>2, <2>1, <2>2
<1>4. TypeOK'
  <2>1. sent' \in Seq(Messages)
    BY <1>1, <1>3, SentIsTyped
  <2> QED BY <1>1, <1>2, <2>1 DEF TypeOK, touchState
<1>5. LastMoveOnItsWay'
  BY <1>1, <1>2, <1>3, LastMoveKept DEF InputInvariant
<1>6. ReleaseOfRightOnItsWay'
  BY <1>1, <1>2, <1>3, ReleaseOfRightKept DEF InputInvariant
<1>7. ReleaseOfKeysOnItsWay'
  <2>1. CASE hasFocus' \/ viewOnly'
    BY <2>1 DEF ReleaseOfKeysOnItsWay
  <2>2. CASE sent' = Append(sent, KeyStatesUp)
    <3> DEFINE i == Len(sent')
    <3>1. i \in 1 .. Len(sent') /\ sent'[i] = KeyStatesUp /\ i + 1 .. Len(sent') = {}
      BY <1>1, <2>2, MessagesAreMessages, AppendToQueue
    <3>2. sent'[i].kind = "keyStatesUp"
      BY <3>1 DEF KeyStatesUp
    <3> HIDE DEF i
    <3> QED BY <3>1, <3>2 DEF ReleaseOfKeysOnItsWay, PressesKey
  <2> QED BY <1>2, <2>1, <2>2
<1> QED BY <1>4, <1>5, <1>6, <1>7 DEF InputInvariant

LEMMA AnswerKeepsInvariant ==
    ASSUME InputInvariant, Answer
    PROVE  InputInvariant'
<1>1. TypeOK
  BY DEF InputInvariant
<1>2. sent' \in Seq(Messages)
  <2>1. Tail(sent) \in Seq(Messages)
    BY <1>1, AnswerQueue, RestOfQueue
  <2> QED BY <1>1, <2>1, AnswerQueue, AppendToQueue DEF RestGoesOn
<1>3. desktop' \in Desktops
  BY <1>1, AnswerQueue, ApplyIsDesktop
<1>4. {longPressStarted', isDragging', isPinchZooming', isScrolling'} \subseteq BOOLEAN
  BY <1>1 DEF TypeOK, Answer, Resume, ResetTouchState, EndGesture, touchState
<1>5. TypeOK'
  BY <1>1, <1>2, <1>3, <1>4 DEF TypeOK, Answer, inputVars
<1> QED BY <1>1, <1>5, LastMoveAnswered, ReleaseOfKeysAnswered, ReleaseOfRightAnswered
        DEF InputInvariant

-----------------------------------------------------------------------------
(* Nothing a handler sends is forgotten or overtaken, whatever the viewer's *)
(* mouse, fingers and keys do while answers are awaited.                    *)
THEOREM InputInvariantHolds == Spec => []InputInvariant
<1>1. ASSUME InputInvariant, [Next]_vars
      PROVE  InputInvariant'
  <2>1. CASE Touch
    BY <1>1, <2>1, TouchKeepsInvariant
  <2>2. CASE Mouse
    BY <1>1, <2>2, MouseKeepsInvariant
  <2>3. CASE Keyboard
    BY <1>1, <2>3, KeyboardKeepsInvariant
  <2>4. CASE Answer
    BY <1>1, <2>4, AnswerKeepsInvariant
  <2>5. CASE ToggleViewOnly
    <3>1. hasFocus' /\ UNCHANGED <<inputVars, fingers, gesture, touchState, sent, desktop, touches>>
      BY <2>5 DEF ToggleViewOnly, inputVars
    <3>2. TypeOK'
      BY <1>1, <2>5, <3>1 DEF InputInvariant, TypeOK, ToggleViewOnly, inputVars, touchState
    <3>3. LastMoveOnItsWay' /\ ReleaseOfRightOnItsWay'
      BY <1>1, <3>1, LastMoveKept, ReleaseOfRightKept DEF InputInvariant, inputVars
    <3>4. ReleaseOfKeysOnItsWay'
      BY <3>1 DEF ReleaseOfKeysOnItsWay
    <3> QED BY <3>2, <3>3, <3>4 DEF InputInvariant
  <2>6. CASE UNCHANGED vars
    <3>1. UNCHANGED <<viewOnly, inputVars, fingers, gesture, touchState, sent, desktop, touches>>
      BY <2>6 DEF vars
    <3>2. TypeOK'
      BY <1>1, <3>1 DEF InputInvariant, TypeOK, inputVars, touchState
    <3> QED BY <1>1, <3>1, <3>2, LastMoveKept, ReleaseOfKeysKept, ReleaseOfRightKept
            DEF InputInvariant, inputVars
  <2> QED BY <1>1, <2>1, <2>2, <2>3, <2>4, <2>5, <2>6 DEF Next
<1> QED BY <1>1, InitType, PTL DEF Spec

(* The throttle never loses the last move. *)
THEOREM LastMoveIsAlwaysSent == Spec => []LastMoveIsSent
<1>1. InputInvariant => LastMoveIsSent
  BY DEF InputInvariant, LastMoveOnItsWay, LastMoveIsSent
<1> QED BY <1>1, InputInvariantHolds, PTL

(* No key stays down on the desktop once the window has lost the focus. *)
THEOREM KeysAreAlwaysReleased == Spec => []KeysAreReleasedOnBlur
<1>1. InputInvariant => KeysAreReleasedOnBlur
  BY DEF InputInvariant, ReleaseOfKeysOnItsWay, KeysAreReleasedOnBlur
<1> QED BY <1>1, InputInvariantHolds, PTL

(* A right click that a finger began is finished. *)
THEOREM RightClicksAreAlwaysFinished == Spec => []RightClicksAreFinished
<1>1. InputInvariant => RightClicksAreFinished
  BY DEF InputInvariant, ReleaseOfRightOnItsWay, RightClicksAreFinished
<1> QED BY <1>1, InputInvariantHolds, PTL
=============================================================================
