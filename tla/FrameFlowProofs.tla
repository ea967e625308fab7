--------------------------- MODULE FrameFlowProofs ---------------------------
(***************************************************************************)
(* Proofs about FrameFlow, for any number of frames and chunks and any     *)
(* limits.  FrameInvariant is inductive; the bound on the flow follows     *)
(* from an invariant of its own, and every step of the stream is, by       *)
(* FrameInvariant, a step of FrameDelivery or none.                        *)
(***************************************************************************)
EXTENDS FrameFlow, TLAPS

(* A sequence of numbers with one behind it. *)
LEMMA AppendNumber ==
    ASSUME NEW s \in Seq(Nat), NEW m \in Nat
    PROVE  /\ Append(s, m) \in Seq(Nat)
           /\ Len(Append(s, m)) = Len(s) + 1
           /\ Len(s) \in Nat
           /\ \A i \in 1 .. Len(s) : Append(s, m)[i] = s[i]
           /\ Append(s, m)[Len(s) + 1] = m
  OBVIOUS

(* The inductive part of FlowIsBounded: while a frame is captured after a  *)
(* wait that succeeded there is room for it.                               *)
FlowInvariant ==
    /\ {sinceReceipt, timedOut} \subseteq Nat
    /\ FlowIsBounded
    /\ loop = "capture" => sinceReceipt < MaxAhead

(* Type correctness holds at the start and is kept by every step. *)
LEMMA TypeInit == Init => TypeOK
<1>1. Init => {stop, streamEnded} \subseteq BOOLEAN
  BY Zenon DEF Init
<1>2. Init => ends \in Seq(Nat) /\ acks \in Seq(Nat) /\ drawn \subseteq Nat
  BY DEF Init
<1> QED BY <1>1, <1>2 DEF Init, TypeOK

LEMMA TypeNext == TypeOK /\ [Next]_vars => TypeOK'
<1> SUFFICES ASSUME TypeOK, [Next]_vars PROVE TypeOK'
  OBVIOUS
<1> USE DEF TypeOK, OthersUnchanged, StreamUnchanged, PageUnchanged, pageVars, desktopVars
<1>1. CASE UNCHANGED vars
  BY <1>1 DEF vars
<1>2. CASE StopRequested \/ NextFrame \/ ViewerKeepsUp \/ WaitTimesOut \/ NothingToSend \/ EndCast
  BY <1>2 DEF StopRequested, NextFrame, ViewerKeepsUp, WaitTimesOut, NothingToSend, EndCast
<1>3. ASSUME NEW n \in 1 .. MaxParts, CastFrame(n) PROVE TypeOK'
  <2>1. put + n \in Nat
    BY FrameBounds
  <2>2. ends' \in Seq(Nat)
    BY <1>3, <2>1, AppendNumber DEF CastFrame
  <2> QED BY <1>3, <2>2 DEF CastFrame
<1>4. CASE SendChunk
  BY <1>4 DEF SendChunk
<1>5. CASE FrameReceived
  BY <1>5 DEF FrameReceived
<1>6. CASE ChunkArrives
  BY <1>6 DEF ChunkArrives
<1>7. CASE StreamCompletes
  <2>1. stop' = stop /\ streamEnded' \in BOOLEAN
    BY <1>7 DEF StreamCompletes
  <2> QED BY <1>7, <2>1 DEF StreamCompletes
<1>8. CASE StreamFails
  <2>1. PICK n \in 0 .. Len(acks) : acks' = SubSeq(acks, 1, n)
    BY <1>8 DEF StreamFails
  <2>2. acks' \in Seq(Nat)
    BY <2>1
  <2>3. stop' = stop /\ streamEnded' \in BOOLEAN
    BY <1>8 DEF StreamFails
  <2> QED BY <1>8, <2>2, <2>3 DEF StreamFails
<1>9. CASE ProcessStream
  BY <1>9 DEF ProcessStream
<1>10. CASE ReadHeader
  BY <1>10 DEF ReadHeader
<1>11. CASE DecodeFails
  BY <1>11 DEF DecodeFails
<1>12. ASSUME NEW f \in 1 .. Len(ends), DrawFrame(f) PROVE TypeOK'
  <2>1. acks' \in Seq(Nat) /\ ends[f] \in Nat
    <3>1. acks' = Append(acks, f) \/ acks' = acks
      BY <1>12, Zenon DEF DrawFrame
    <3>2. acks \in Seq(Nat) /\ f \in Nat /\ ends[f] \in Nat
      OBVIOUS
    <3> HIDE DEF TypeOK
    <3> QED BY <3>1, <3>2, AppendNumber
  <2>2. drawn' \subseteq Nat /\ from' = ends[f] /\ proc' = "scheduled"
    BY <1>12 DEF DrawFrame
  <2>3. UNCHANGED <<desktopVars, arrived, streamEnded, spliced, failures>>
    BY <1>12 DEF DrawFrame
  <2> QED BY <2>1, <2>2, <2>3
<1> QED BY <1>1, <1>2, <1>3, <1>4, <1>5, <1>6, <1>7, <1>8, <1>9, <1>10, <1>11, <1>12
        DEF Next, Desktop, Stream, Page

-----------------------------------------------------------------------------
(* A frame that is cast comes behind the others. *)
LEMMA CastAppends ==
    ASSUME TypeOK, NEW n \in 1 .. MaxParts, CastFrame(n)
    PROVE  /\ Len(ends') = Len(ends) + 1 /\ Len(ends) \in Nat
           /\ \A f \in 1 .. Len(ends) : ends'[f] = ends[f]
           /\ ends'[Len(ends) + 1] = put + n
<1>1. ends \in Seq(Nat) /\ put + n \in Nat
  BY FrameBounds DEF TypeOK
<1> QED BY <1>1, AppendNumber DEF CastFrame

(* The frames follow each other: only the loop changes them. *)
LEMMA FramesFollowNext ==
  TypeOK /\ FramesFollow /\ [Next]_vars => FramesFollow'
<1> SUFFICES ASSUME TypeOK, FramesFollow, [Next]_vars PROVE FramesFollow'
  OBVIOUS
<1>1. CASE UNCHANGED desktopVars
  BY <1>1 DEF desktopVars, FramesFollow
<1>2. CASE StopRequested \/ NextFrame \/ ViewerKeepsUp \/ WaitTimesOut \/ NothingToSend \/ EndCast \/ FrameReceived
  BY <1>2 DEF StopRequested, NextFrame, ViewerKeepsUp, WaitTimesOut, NothingToSend, EndCast,
              FrameReceived, FramesFollow
<1>3. ASSUME NEW n \in 1 .. MaxParts, CastFrame(n) PROVE FramesFollow'
  <2>1. /\ Len(ends') = Len(ends) + 1 /\ ends'[Len(ends) + 1] = put + n
        /\ \A f \in 1 .. Len(ends) : ends'[f] = ends[f]
        /\ loop' = "send" /\ put' = put /\ loop # "send"
    BY <1>3, CastAppends DEF CastFrame
  <2>2. /\ Len(ends) \in Nat /\ put \in Nat /\ n \in Nat /\ 0 < n
        /\ \A f \in 1 .. Len(ends) : ends[f] \in Nat
    BY FrameBounds DEF TypeOK
  <2>3. /\ \A f \in 1 .. Len(ends) : 0 < ends[f]
        /\ \A f, g \in 1 .. Len(ends) : f < g => ends[f] < ends[g]
        /\ put = (IF Len(ends) = 0 THEN 0 ELSE ends[Len(ends)])
    BY <2>1 DEF FramesFollow
  <2>4. ASSUME NEW f \in 1 .. Len(ends) PROVE ends[f] <= put
    <3>1. put = ends[Len(ends)] /\ Len(ends) \in 1 .. Len(ends)
      BY <2>2, <2>3
    <3>2. f = Len(ends) \/ f < Len(ends)
      BY <2>2
    <3> QED BY <2>2, <2>3, <3>1, <3>2
  <2>5. \A f \in 1 .. Len(ends') : f \in 1 .. Len(ends) \/ f = Len(ends) + 1
    BY <2>1, <2>2
  <2>6. \A f \in 1 .. Len(ends') : 0 < ends'[f]
    BY <2>1, <2>2, <2>3, <2>5
  <2>7. ASSUME NEW f \in 1 .. Len(ends'), NEW g \in 1 .. Len(ends'), f < g
        PROVE  ends'[f] < ends'[g]
    <3>1. f \in 1 .. Len(ends)
      BY <2>1, <2>2, <2>7
    <3>2. CASE g \in 1 .. Len(ends)
      BY <2>1, <2>3, <2>7, <3>1, <3>2
    <3>3. CASE g = Len(ends) + 1
      BY <2>1, <2>2, <2>4, <3>1, <3>3
    <3> QED BY <2>5, <3>2, <3>3
  <2>8. Len(ends') > 0 /\ put' < ends'[Len(ends')]
    BY <2>1, <2>2
  <2>9. \A f \in 1 .. Len(ends') - 1 : ends'[f] <= put'
    BY <2>1, <2>2, <2>4
  <2> QED BY <2>1, <2>6, <2>7, <2>8, <2>9 DEF FramesFollow
<1>4. CASE SendChunk
  BY <1>4 DEF SendChunk, FramesFollow, TypeOK
<1> QED BY <1>1, <1>2, <1>3, <1>4
        DEF Next, Desktop, Stream, Page, vars, ChunkArrives, StreamCompletes, StreamFails,
            StreamUnchanged, ProcessStream, ReadHeader, DrawFrame, DecodeFails, PageUnchanged

(* Frames that begin at the same place are the same, and of two frames the *)
(* one that ends first is the earlier.                                     *)
LEMMA OneFrameBegins ==
    ASSUME TypeOK, FramesFollow,
           NEW f \in 1 .. Len(ends), NEW g \in 1 .. Len(ends)
    PROVE  /\ BeginsWith(f) => from < ends[f]
           /\ BeginsWith(f) /\ BeginsWith(g) => f = g
           /\ BeginsWith(f) /\ ends[g] <= from => g < f
           /\ BeginsWith(f) /\ from = ends[g] => g = f - 1
           /\ BeginsWith(f) /\ from = 0 => f = 1
<1>1. /\ from \in Nat /\ Len(ends) \in Nat
      /\ \A h \in 1 .. Len(ends) : ends[h] \in Nat /\ 0 < ends[h]
      /\ \A h, k \in 1 .. Len(ends) : h < k => ends[h] < ends[k]
  BY DEF TypeOK, FramesFollow
<1>0. \A h, k \in 1 .. Len(ends) : ends[h] = ends[k] => h = k
  BY <1>1
<1>2. ASSUME NEW h \in 1 .. Len(ends), BeginsWith(h)
      PROVE  /\ h = 1 => from = 0
             /\ h # 1 => h - 1 \in 1 .. Len(ends) /\ from = ends[h - 1]
  BY <1>2 DEF BeginsWith
<1>3. BeginsWith(f) => from < ends[f]
  BY <1>1, <1>2
<1>4. BeginsWith(f) /\ from = 0 => f = 1
  BY <1>1, <1>2
<1>5. BeginsWith(f) /\ from = ends[g] => g = f - 1
  <2> SUFFICES ASSUME BeginsWith(f), from = ends[g] PROVE g = f - 1
    OBVIOUS
  <2>1. f # 1
    BY <1>1, <1>2
  <2>2. f - 1 \in 1 .. Len(ends) /\ ends[f - 1] = ends[g]
    BY <1>2, <2>1
  <2> QED BY <1>0, <2>2
<1>6. BeginsWith(f) /\ BeginsWith(g) => f = g
  <2> SUFFICES ASSUME BeginsWith(f), BeginsWith(g) PROVE f = g
    OBVIOUS
  <2>1. CASE f = 1
    BY <1>1, <1>2, <2>1
  <2>2. CASE f # 1
    <3>1. f - 1 \in 1 .. Len(ends) /\ from = ends[f - 1]
      BY <1>2, <2>2
    <3>2. g # 1 /\ g - 1 \in 1 .. Len(ends) /\ from = ends[g - 1]
      BY <1>1, <1>2, <3>1
    <3>3. f - 1 = g - 1
      BY <1>0, <3>1, <3>2
    <3> QED BY <3>3
  <2> QED BY <2>1, <2>2
<1>7. BeginsWith(f) /\ ends[g] <= from => g < f
  BY <1>1, <1>3
<1> QED BY <1>3, <1>4, <1>5, <1>6, <1>7

-----------------------------------------------------------------------------
(* The buffer stays a part of the stream behind what was drawn. *)
LEMMA BufferNext ==
  TypeOK /\ FramesFollow /\ BufferInStream /\ DecodesWholeFrames /\ [Next]_vars
      => BufferInStream'
<1> SUFFICES ASSUME TypeOK, FramesFollow, BufferInStream, DecodesWholeFrames, [Next]_vars
             PROVE  BufferInStream'
  OBVIOUS
<1> USE DEF TypeOK, BufferInStream
<1>1. CASE UNCHANGED vars \/ StopRequested \/ NextFrame \/ ViewerKeepsUp \/ WaitTimesOut
           \/ NothingToSend \/ EndCast \/ FrameReceived
  BY <1>1 DEF vars, pageVars, desktopVars, OthersUnchanged, StopRequested, NextFrame, ViewerKeepsUp,
              WaitTimesOut, NothingToSend, EndCast, FrameReceived
<1>2. ASSUME NEW n \in 1 .. MaxParts, CastFrame(n) PROVE BufferInStream'
  <2>1. /\ Len(ends') = Len(ends) + 1 /\ Len(ends) \in Nat
        /\ \A f \in 1 .. Len(ends) : ends'[f] = ends[f]
    BY <1>2, CastAppends
  <2>2. UNCHANGED <<put, arrived, pageVars>>
    BY <1>2 DEF CastFrame, OthersUnchanged
  <2>3. \A f \in drawn : f \in 1 .. Len(ends') /\ ends'[f] <= from
    <3>1. \A f \in drawn : f \in 1 .. Len(ends) /\ ends[f] <= from
      OBVIOUS
    <3>2. 1 .. Len(ends) \subseteq 1 .. Len(ends')
      BY ONLY <2>1
    <3> QED BY ONLY <2>1, <3>1, <3>2
  <2> QED BY <2>2, <2>3 DEF pageVars
<1>3. CASE SendChunk
  BY <1>3 DEF SendChunk, OthersUnchanged, pageVars
<1>4. CASE ChunkArrives
  BY <1>4 DEF ChunkArrives, StreamUnchanged, desktopVars
<1>9. CASE StreamCompletes \/ StreamFails
  <2>1. UNCHANGED <<ends, put, arrived, spliced, from, proc, drawn>>
    BY <1>9 DEF StreamCompletes, StreamFails, StreamUnchanged, desktopVars
  <2> QED BY <2>1
<1>5. CASE ProcessStream
  BY <1>5 DEF ProcessStream, PageUnchanged, desktopVars
<1>6. CASE ReadHeader
  BY <1>6 DEF ReadHeader, PageUnchanged, desktopVars
<1>7. CASE DecodeFails
  BY <1>7 DEF DecodeFails, PageUnchanged, desktopVars
<1>8. ASSUME NEW f \in 1 .. Len(ends), DrawFrame(f) PROVE BufferInStream'
  <2>1. /\ from' = ends[f] /\ drawn' = drawn \cup {f} /\ proc' = "scheduled"
        /\ UNCHANGED <<ends, put, arrived, spliced>>
    BY <1>8 DEF DrawFrame, PageUnchanged, desktopVars
  <2>2. from < ends[f] /\ ends[f] <= spliced
    BY <1>8, OneFrameBegins DEF DrawFrame, DecodesWholeFrames
  <2>3. \A g \in drawn : ends[g] \in Nat
    OBVIOUS
  <2> QED BY <2>1, <2>2, <2>3
<1> QED BY <1>1, <1>2, <1>3, <1>4, <1>5, <1>6, <1>7, <1>8, <1>9
        DEF Next, Desktop, Stream, Page

(* What is decoded is all there. *)
LEMMA WholeFramesNext ==
  TypeOK /\ FramesFollow /\ BufferInStream /\ DecodesWholeFrames /\ [Next]_vars
      => DecodesWholeFrames'
<1> SUFFICES ASSUME TypeOK, FramesFollow, BufferInStream, DecodesWholeFrames, [Next]_vars
             PROVE  DecodesWholeFrames'
  OBVIOUS
<1>1. CASE UNCHANGED <<ends, spliced, from, proc>>
  BY <1>1 DEF DecodesWholeFrames, BeginsWith
<1>2. ASSUME NEW n \in 1 .. MaxParts, CastFrame(n) PROVE DecodesWholeFrames'
  <2> SUFFICES ASSUME proc = "decode", NEW f \in 1 .. Len(ends'), BeginsWith(f)'
               PROVE  ends'[f] <= spliced
    BY <1>2 DEF CastFrame, OthersUnchanged, pageVars, DecodesWholeFrames
  <2>1. /\ Len(ends') = Len(ends) + 1 /\ Len(ends) \in Nat
        /\ \A g \in 1 .. Len(ends) : ends'[g] = ends[g]
        /\ loop # "send" /\ from' = from
    BY <1>2, CastAppends DEF CastFrame, OthersUnchanged, pageVars
  <2>2. CASE f \in 1 .. Len(ends)
    <3>1. BeginsWith(f)
      BY <2>1, <2>2 DEF BeginsWith
    <3> QED BY <2>1, <2>2, <3>1 DEF DecodesWholeFrames
  <2>3. CASE f = Len(ends) + 1
    <3>1. from = put
      <4>1. f # 1 => ends'[f - 1] = ends[Len(ends)]
        BY <2>1, <2>3
      <4>2. from = IF f = 1 THEN 0 ELSE ends[Len(ends)]
        BY <2>1, <4>1 DEF BeginsWith
      <4>3. put = (IF Len(ends) = 0 THEN 0 ELSE ends[Len(ends)])
        BY <2>1 DEF FramesFollow
      <4> QED BY <2>1, <2>3, <4>2, <4>3
    <3>2. from < spliced /\ spliced <= put
      BY DEF BufferInStream, TypeOK
    <3> QED BY <3>1, <3>2 DEF TypeOK
  <2> QED BY <2>1, <2>2, <2>3
<1>3. CASE ProcessStream
  BY <1>3 DEF ProcessStream, DecodesWholeFrames
<1>4. CASE ReadHeader
  <2> SUFFICES ASSUME proc' = "decode", NEW g \in 1 .. Len(ends), BeginsWith(g)
               PROVE  ends[g] <= spliced
    BY <1>4 DEF ReadHeader, PageUnchanged, desktopVars, DecodesWholeFrames, BeginsWith
  <2>1. Aligned
    BY DEF Aligned, BeginsWith, TypeOK
  <2>2. PICK f \in 1 .. Len(ends) : BeginsWith(f) /\ ends[f] <= spliced
    BY <1>4, <2>1 DEF ReadHeader
  <2> QED BY <2>2, OneFrameBegins
<1>5. CASE DecodeFails
  BY <1>5 DEF DecodeFails, DecodesWholeFrames
<1>6. ASSUME NEW f \in 1 .. Len(ends), DrawFrame(f) PROVE DecodesWholeFrames'
  BY <1>6 DEF DrawFrame, DecodesWholeFrames
<1> QED BY <1>1, <1>2, <1>3, <1>4, <1>5, <1>6
        DEF Next, Desktop, Stream, Page, vars, pageVars, desktopVars, OthersUnchanged,
            StreamUnchanged, StopRequested, NextFrame, ViewerKeepsUp, WaitTimesOut, NothingToSend,
            SendChunk, EndCast, FrameReceived, ChunkArrives, StreamCompletes, StreamFails

(* As long as every image was decoded, the frame the buffer begins with is *)
(* the one after those that were drawn.                                    *)
LEMMA NextFrameIsDrawn ==
    ASSUME TypeOK, FramesFollow, NoFrameIsMissing, failures = 0,
           NEW f \in 1 .. Len(ends), BeginsWith(f)
    PROVE  drawn = 1 .. f - 1
<1>1. PICK k \in 0 .. Len(ends) :
         drawn = 1 .. k /\ from = (IF k = 0 THEN 0 ELSE ends[k])
  BY DEF NoFrameIsMissing
<1>2. Len(ends) \in Nat
  BY DEF TypeOK
<1>3. CASE k = 0
  <2>1. f = 1
    BY <1>1, <1>3, OneFrameBegins
  <2> QED BY <1>1, <1>3, <2>1
<1>4. CASE k # 0
  <2>1. k \in 1 .. Len(ends) /\ from = ends[k]
    BY <1>1, <1>2, <1>4
  <2>2. k = f - 1
    BY <2>1, OneFrameBegins
  <2> QED BY <1>1, <2>2
<1> QED BY <1>3, <1>4

(* As long as every image was decoded no frame is missing. *)
LEMMA NoFrameIsMissingNext ==
  TypeOK /\ FramesFollow /\ BufferInStream /\ NoFrameIsMissing /\ [Next]_vars
      => NoFrameIsMissing'
<1> SUFFICES ASSUME TypeOK, FramesFollow, BufferInStream, NoFrameIsMissing, [Next]_vars
             PROVE  NoFrameIsMissing'
  OBVIOUS
<1>1. CASE UNCHANGED <<ends, from, drawn, failures>>
  BY <1>1 DEF NoFrameIsMissing
<1>2. ASSUME NEW n \in 1 .. MaxParts, CastFrame(n) PROVE NoFrameIsMissing'
  <2> SUFFICES ASSUME failures = 0
               PROVE  \E k \in 0 .. Len(ends') :
                         drawn = 1 .. k /\ from = (IF k = 0 THEN 0 ELSE ends'[k])
    BY <1>2 DEF CastFrame, OthersUnchanged, pageVars, NoFrameIsMissing
  <2>1. /\ Len(ends') = Len(ends) + 1 /\ Len(ends) \in Nat
        /\ \A f \in 1 .. Len(ends) : ends'[f] = ends[f]
    BY <1>2, CastAppends
  <2>2. PICK k \in 0 .. Len(ends) :
           drawn = 1 .. k /\ from = (IF k = 0 THEN 0 ELSE ends[k])
    BY DEF NoFrameIsMissing
  <2>3. k \in 0 .. Len(ends') /\ from = (IF k = 0 THEN 0 ELSE ends'[k])
    BY <2>1, <2>2
  <2> QED BY <2>2, <2>3
<1>3. CASE DecodeFails
  BY <1>3 DEF DecodeFails, NoFrameIsMissing, TypeOK
<1>4. ASSUME NEW f \in 1 .. Len(ends), DrawFrame(f) PROVE NoFrameIsMissing'
  <2> SUFFICES ASSUME failures = 0
               PROVE  \E k \in 0 .. Len(ends) :
                         drawn' = 1 .. k /\ from' = (IF k = 0 THEN 0 ELSE ends[k])
    BY <1>4 DEF DrawFrame, PageUnchanged, desktopVars, NoFrameIsMissing
  <2>1. drawn = 1 .. f - 1
    BY <1>4, NextFrameIsDrawn DEF DrawFrame
  <2>2. f \in 0 .. Len(ends) /\ f # 0 /\ drawn \cup {f} = 1 .. f
    BY <2>1 DEF TypeOK
  <2> QED BY <1>4, <2>2 DEF DrawFrame
<1> QED BY <1>1, <1>2, <1>3, <1>4
        DEF Next, Desktop, Stream, Page, vars, pageVars, desktopVars, OthersUnchanged,
            StreamUnchanged, PageUnchanged, StopRequested, NextFrame, ViewerKeepsUp, WaitTimesOut,
            NothingToSend, SendChunk, EndCast, FrameReceived, ChunkArrives, StreamCompletes,
            StreamFails, ProcessStream, ReadHeader

(* Receipts stay in the order of the frames. *)
LEMMA ReceiptsNext ==
  TypeOK /\ FramesFollow /\ BufferInStream /\ ReceiptsInOrder /\ [Next]_vars
      => ReceiptsInOrder'
<1> SUFFICES ASSUME TypeOK, FramesFollow, BufferInStream, ReceiptsInOrder, [Next]_vars
             PROVE  ReceiptsInOrder'
  OBVIOUS
<1>1. CASE UNCHANGED <<lastReceived, drawn, acks>>
  BY <1>1 DEF ReceiptsInOrder
<1>2. CASE FrameReceived
  <2>1. /\ acks # << >> /\ lastReceived' = acks[1] /\ drawn' = drawn
        /\ Len(acks') = Len(acks) - 1 /\ Len(acks) \in Nat /\ Len(acks) > 0
        /\ \A i \in 1 .. Len(acks') : acks'[i] = acks[i + 1] /\ i + 1 \in 1 .. Len(acks)
    BY <1>2 DEF FrameReceived, pageVars, TypeOK
  <2>2. 1 \in 1 .. Len(acks) /\ acks[1] \in drawn
    BY <2>1 DEF ReceiptsInOrder
  <2>3. \A i \in 1 .. Len(acks') : acks'[i] \in drawn /\ acks[1] < acks'[i]
    BY <2>1, <2>2 DEF ReceiptsInOrder
  <2>4. \A i, j \in 1 .. Len(acks') : i < j => acks'[i] < acks'[j]
    BY <2>1 DEF ReceiptsInOrder
  <2> QED BY <2>1, <2>2, <2>3, <2>4 DEF ReceiptsInOrder
<1>3. CASE StreamFails
  <2>1. UNCHANGED <<lastReceived, drawn>>
    BY <1>3 DEF StreamFails, StreamUnchanged, desktopVars
  <2>2. PICK n \in 0 .. Len(acks) : acks' = SubSeq(acks, 1, n)
    BY <1>3 DEF StreamFails
  <2>3. /\ \A i \in 1 .. Len(acks') : acks'[i] = acks[i] /\ i \in 1 .. Len(acks)
    BY <2>2 DEF TypeOK
  <2> QED BY <2>1, <2>3 DEF ReceiptsInOrder
<1>4. ASSUME NEW f \in 1 .. Len(ends), DrawFrame(f) PROVE ReceiptsInOrder'
  <2>1. lastReceived' = lastReceived /\ drawn' = drawn \cup {f}
    BY <1>4 DEF DrawFrame, PageUnchanged, desktopVars
  <2>2. \A g \in drawn : g < f
    BY <1>4, OneFrameBegins DEF DrawFrame, BufferInStream
  <2>3. CASE acks' = acks
    BY <2>1, <2>3 DEF ReceiptsInOrder
  <2>4. CASE acks' = Append(acks, f)
    <3>1. acks \in Seq(Nat) /\ f \in Nat /\ 0 < f
      BY DEF TypeOK
    <3>2. /\ Len(acks') = Len(acks) + 1 /\ Len(acks) \in Nat
          /\ acks'[Len(acks) + 1] = f
          /\ \A i \in 1 .. Len(acks) : acks'[i] = acks[i]
      BY <2>4, <3>1, AppendNumber
    <3>3. \A i \in 1 .. Len(acks') : i \in 1 .. Len(acks) \/ i = Len(acks) + 1
      BY <3>2
    <3>4. \A i \in 1 .. Len(acks) : acks[i] \in drawn /\ acks[i] < f
      BY <2>2 DEF ReceiptsInOrder
    <3>5. lastReceived < f
      BY <2>2, <3>1 DEF ReceiptsInOrder
    <3>6. \A i \in 1 .. Len(acks') : acks'[i] \in drawn' /\ lastReceived < acks'[i]
      BY <2>1, <3>2, <3>3, <3>5 DEF ReceiptsInOrder
    <3>7. ASSUME NEW i \in 1 .. Len(acks'), NEW j \in 1 .. Len(acks'), i < j
          PROVE  acks'[i] < acks'[j]
      <4>1. i \in 1 .. Len(acks)
        BY <3>2, <3>7
      <4>2. CASE j \in 1 .. Len(acks)
        BY <3>2, <3>7, <4>1, <4>2 DEF ReceiptsInOrder
      <4>3. CASE j = Len(acks) + 1
        BY <3>2, <3>4, <4>1, <4>3
      <4> QED BY <3>3, <4>2, <4>3
    <3> QED BY <2>1, <3>6, <3>7 DEF ReceiptsInOrder
  <2>5. acks' = Append(acks, f) \/ acks' = acks
    BY <1>4, Zenon DEF DrawFrame
  <2> QED BY <2>3, <2>4, <2>5
<1> QED BY <1>1, <1>2, <1>3, <1>4
        DEF Next, Desktop, Stream, Page, vars, pageVars, desktopVars, OthersUnchanged,
            StreamUnchanged, PageUnchanged, StopRequested, NextFrame, ViewerKeepsUp, WaitTimesOut,
            NothingToSend, CastFrame, SendChunk, EndCast, ChunkArrives, StreamCompletes,
            ProcessStream, ReadHeader, DecodeFails

-----------------------------------------------------------------------------
(* FrameInvariant is inductive. *)
LEMMA FrameInit == Init => FrameInvariant
<1> SUFFICES ASSUME Init PROVE FrameInvariant
  OBVIOUS
<1>1. ends = << >> /\ acks = << >> /\ drawn = {} /\ from = 0 /\ put = 0
      /\ arrived = 0 /\ spliced = 0 /\ proc = "scheduled" /\ loop = "top"
      /\ lastReceived = 0
  BY DEF Init
<1>2. FramesFollow /\ BufferInStream /\ DecodesWholeFrames /\ ReceiptsInOrder
  BY <1>1 DEF FramesFollow, BufferInStream, DecodesWholeFrames, ReceiptsInOrder
<1>3. NoFrameIsMissing
  <2>1. 0 \in 0 .. Len(ends) /\ drawn = 1 .. 0
    BY <1>1
  <2> QED BY <1>1, <2>1 DEF NoFrameIsMissing
<1> QED BY <1>2, <1>3, TypeInit DEF FrameInvariant

LEMMA FrameNext == FrameInvariant /\ [Next]_vars => FrameInvariant'
  BY TypeNext, FramesFollowNext, BufferNext, NoFrameIsMissingNext, WholeFramesNext,
     ReceiptsNext DEF FrameInvariant

(* For any numbers of frames and chunks: the page draws a frame only when  *)
(* it has all of it, none is missing while every image can be decoded, and *)
(* receipts are on their way in the order of the frames.                   *)
THEOREM FrameInvariantHolds == Spec => []FrameInvariant
<1>1. Init => FrameInvariant
  BY FrameInit
<1>2. FrameInvariant /\ [Next]_vars => FrameInvariant'
  BY FrameNext
<1> QED BY <1>1, <1>2, PTL DEF Spec

-----------------------------------------------------------------------------
(* FlowInvariant is inductive. *)
LEMMA FlowInit == Init => FlowInvariant
  BY FrameBounds DEF Init, FlowInvariant, FlowIsBounded

LEMMA FlowNext == FlowInvariant /\ [Next]_vars => FlowInvariant'
<1> SUFFICES ASSUME FlowInvariant, [Next]_vars PROVE FlowInvariant'
  OBVIOUS
<1> USE FrameBounds DEF FlowInvariant, FlowIsBounded
<1>1. CASE UNCHANGED <<loop, sinceReceipt, timedOut>>
  BY <1>1
<1>2. CASE NextFrame \/ ViewerKeepsUp \/ WaitTimesOut \/ NothingToSend \/ EndCast
  BY <1>2 DEF NextFrame, ViewerKeepsUp, WaitTimesOut, NothingToSend, EndCast
<1>3. ASSUME NEW n \in 1 .. MaxParts, CastFrame(n) PROVE FlowInvariant'
  <2>1. {sinceReceipt, timedOut, MaxAhead} \subseteq Nat /\ sinceReceipt <= MaxAhead + timedOut
    OBVIOUS
  <2>2. sinceReceipt' = sinceReceipt + 1 /\ loop' = "send"
    BY <1>3 DEF CastFrame
  <2>3. CASE loop = "capture"
    <3>1. timedOut' = timedOut /\ sinceReceipt < MaxAhead
      BY <1>3, <2>1, <2>3 DEF CastFrame
    <3> QED BY ONLY <2>1, <2>2, <3>1 DEF FlowInvariant, FlowIsBounded
  <2>4. CASE loop = "overdue"
    <3>1. timedOut' = timedOut + 1
      BY <1>3, <2>4 DEF CastFrame
    <3> QED BY ONLY <2>1, <2>2, <3>1 DEF FlowInvariant, FlowIsBounded
  <2> QED BY <1>3, <2>3, <2>4 DEF CastFrame
<1>4. CASE SendChunk
  BY <1>4 DEF SendChunk
<1>5. CASE FrameReceived
  BY <1>5 DEF FrameReceived
<1> QED BY <1>1, <1>2, <1>3, <1>4, <1>5
        DEF Next, Desktop, Stream, Page, vars, desktopVars, StreamUnchanged, PageUnchanged,
            StopRequested, ChunkArrives, StreamCompletes, StreamFails, ProcessStream,
            ReadHeader, DrawFrame, DecodeFails

(* For any limit: without a receipt the caster sends as many frames as the *)
(* limit says and one more for every wait that timed out.                  *)
THEOREM FlowIsAlwaysBounded == Spec => []FlowIsBounded
<1>1. Init => FlowInvariant
  BY FlowInit
<1>2. FlowInvariant /\ [Next]_vars => FlowInvariant'
  BY FlowNext
<1>3. FlowInvariant => FlowIsBounded
  BY DEF FlowInvariant
<1> QED BY <1>1, <1>2, <1>3, PTL DEF Spec

-----------------------------------------------------------------------------
(* Every step of the stream is a step of FrameDelivery or none. *)
LEMMA DeliveryInit == Init => Delivery!Init
  BY DEF Init, Delivery!Init

LEMMA DeliveryNext ==
  FrameInvariant /\ [Next]_vars => [Delivery!Next]_(Delivery!vars)
<1> SUFFICES ASSUME FrameInvariant, [Next]_vars PROVE [Delivery!Next]_(Delivery!vars)
  OBVIOUS
<1> USE DEF FrameInvariant
<1>1. CASE UNCHANGED <<ends, drawn, lastReceived, failures>>
  BY <1>1 DEF Delivery!vars
<1>2. ASSUME NEW n \in 1 .. MaxParts, CastFrame(n) PROVE Delivery!Cast
  <2>1. Len(ends') = Len(ends) + 1
    BY <1>2, CastAppends
  <2> QED BY <1>2, <2>1 DEF CastFrame, OthersUnchanged, pageVars, Delivery!Cast
<1>3. CASE DecodeFails
  <2>1. failures' > 0 /\ UNCHANGED <<ends, drawn, lastReceived>>
    BY <1>3 DEF DecodeFails, PageUnchanged, desktopVars, TypeOK
  <2>2. Delivery!Spoil
    BY <2>1 DEF Delivery!Spoil
  <2> QED BY <2>2 DEF Delivery!Next
<1>4. ASSUME NEW f \in 1 .. Len(ends), DrawFrame(f) PROVE Delivery!Draw(f)
  <2>1. UNCHANGED <<ends, lastReceived, failures>> /\ drawn' = drawn \cup {f}
    BY <1>4 DEF DrawFrame, PageUnchanged, desktopVars
  <2>2. \A g \in drawn : g < f
    BY <1>4, OneFrameBegins DEF DrawFrame, BufferInStream
  <2>3. ~(failures > 0) => drawn = 1 .. f - 1
    BY <1>4, NextFrameIsDrawn DEF DrawFrame, TypeOK
  <2>4. f <= Len(ends)
    BY DEF TypeOK
  <2> QED BY <2>1, <2>2, <2>3, <2>4 DEF Delivery!Draw
<1>5. CASE FrameReceived
  <2>1. /\ acks # << >> /\ lastReceived' = acks[1]
        /\ UNCHANGED <<ends, drawn, failures>>
    BY <1>5 DEF FrameReceived, pageVars, TypeOK
  <2>2. 1 \in 1 .. Len(acks)
    BY <2>1 DEF TypeOK
  <2>3. acks[1] \in drawn /\ lastReceived < acks[1]
    BY <2>2 DEF ReceiptsInOrder
  <2>4. acks[1] \in 1 .. Len(ends)
    BY <2>3 DEF BufferInStream
  <2>5. Delivery!Acknowledge(acks[1])
    BY <2>1, <2>3 DEF Delivery!Acknowledge
  <2> QED BY <2>4, <2>5 DEF Delivery!Next
<1>6. ASSUME NEW n \in 1 .. MaxParts, CastFrame(n) PROVE Delivery!Next
  BY <1>2, <1>6 DEF Delivery!Next
<1>7. ASSUME NEW f \in 1 .. Len(ends), DrawFrame(f) PROVE Delivery!Next
  BY <1>4, <1>7 DEF Delivery!Next
<1> QED BY <1>1, <1>3, <1>5, <1>6, <1>7
        DEF Next, Desktop, Stream, Page, vars, pageVars, desktopVars, OthersUnchanged,
            StreamUnchanged, PageUnchanged, StopRequested, NextFrame, ViewerKeepsUp, WaitTimesOut,
            NothingToSend, SendChunk, EndCast, ChunkArrives, StreamCompletes, StreamFails,
            ProcessStream, ReadHeader

(* For any numbers of frames and chunks the stream implements              *)
(* FrameDelivery: frames are drawn in order, each once, without a gap as   *)
(* long as images can be decoded, and only what was drawn is acknowledged. *)
THEOREM StreamDelivers == Spec => DeliverySpec
<1>1. Init => Delivery!Init
  BY DeliveryInit
<1>2. FrameInvariant /\ [Next]_vars => [Delivery!Next]_(Delivery!vars)
  BY DeliveryNext
<1> QED BY <1>1, <1>2, FrameInvariantHolds, PTL DEF Spec, DeliverySpec, Delivery!Spec

=============================================================================
