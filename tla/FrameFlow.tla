------------------------------ MODULE FrameFlow ------------------------------
(***************************************************************************)
(* One desktop stream from the capture loop to the canvas.                 *)
(*                                                                         *)
(* The desktop (ScreenCaster.GetDesktopStream, Viewer) waits until the     *)
(* viewer keeps up, captures, and yields a frame - a header of 28 bytes    *)
(* and the image - in chunks of 50,000 bytes.  The page (CaptureProcessor) *)
(* appends the chunks that came to a buffer once per animation frame,      *)
(* cuts a frame off its front, draws it and acknowledges it.               *)
(*                                                                         *)
(* The stream is a sequence of chunks that nothing reorders, so a chunk is *)
(* its number: put chunks were yielded, arrived of them are at the page,   *)
(* the buffer holds those after from up to spliced, ReceivedChunks those   *)
(* after spliced up to arrived.  ends[f] is the last chunk of frame f.     *)
(***************************************************************************)
EXTENDS Naturals, Sequences

CONSTANTS
    MaxFrames,      \* bound: frames in a behaviour
    MaxParts,       \* bound: chunks of a frame
    MaxAhead,       \* frames the caster sends without a receipt (10)
    MaxFailures     \* bound: images that cannot be decoded

ASSUME FrameBounds ==
    /\ {MaxFrames, MaxFailures} \subseteq Nat
    /\ {MaxParts, MaxAhead} \subseteq Nat \ {0}

VARIABLES
    loop,           \* where the capture loop stands
    stop,           \* DisconnectRequested, not IsResponsive, or session ending
    ends, put,
    sinceReceipt,   \* _framesSentSinceLastReceipt
    timedOut,       \* those of them that were sent after a wait timed out
    lastReceived,   \* the frame _lastFrameReceived is the time of
    arrived,
    streamEnded,    \* StreamingState.StreamEnded
    spliced, from,
    proc,           \* the await ProcessStream stands at
    drawn,
    failures,       \* images that could not be decoded so far
    acks            \* FrameReceived messages on their way

desktopVars == <<loop, stop, ends, put, sinceReceipt, timedOut, lastReceived>>
pageVars == <<streamEnded, spliced, from, proc, drawn, failures>>
vars == <<desktopVars, arrived, pageVars, acks>>

Init ==
    /\ loop = "top" /\ stop = FALSE
    /\ ends = << >> /\ put = 0
    /\ sinceReceipt = 0 /\ timedOut = 0 /\ lastReceived = 0
    /\ arrived = 0 /\ streamEnded = FALSE
    /\ spliced = 0 /\ from = 0
    /\ proc = "scheduled"
    /\ drawn = {} /\ failures = 0
    /\ acks = << >>

-----------------------------------------------------------------------------
(* The capture loop.                                                       *)

OthersUnchanged == UNCHANGED <<arrived, pageVars, acks>>

(* Somebody removes the viewer, its pings fail, or the session ends. *)
StopRequested ==
    /\ ~stop /\ stop' = TRUE
    /\ UNCHANGED <<loop, ends, put, sinceReceipt, timedOut, lastReceived>>
    /\ OthersUnchanged

(* The loop's condition is looked at once for each frame, before the wait:  *)
(* a stop that comes during the wait takes effect after the next frame.     *)
NextFrame ==
    /\ loop = "top" /\ ~stop
    /\ loop' = "wait"
    /\ UNCHANGED <<stop, ends, put, sinceReceipt, timedOut, lastReceived>>
    /\ OthersUnchanged

(* A wrong variant, for a mutant: only the time is looked at. *)
ViewerKeepsUp_NoCount ==
    /\ loop = "wait"
    /\ loop' = "capture"
    /\ UNCHANGED <<stop, ends, put, sinceReceipt, timedOut, lastReceived>>
    /\ OthersUnchanged

(* WaitForViewer returns true.  Whether the last frame sent is less than a *)
(* second after the last one received is for the clock to say.             *)
ViewerKeepsUp ==
    /\ loop = "wait"
    /\ sinceReceipt < MaxAhead
    /\ loop' = "capture"
    /\ UNCHANGED <<stop, ends, put, sinceReceipt, timedOut, lastReceived>>
    /\ OthersUnchanged

(* One of its two waits is over after five seconds; the caller logs it and *)
(* goes on.                                                                *)
WaitTimesOut ==
    /\ loop = "wait"
    /\ sinceReceipt >= MaxAhead \/ lastReceived < Len(ends)
    /\ loop' = "overdue"
    /\ UNCHANGED <<stop, ends, put, sinceReceipt, timedOut, lastReceived>>
    /\ OthersUnchanged

(* No frame could be captured, or nothing changed on the screen. *)
NothingToSend ==
    /\ loop \in {"capture", "overdue"}
    /\ loop' = "top"
    /\ UNCHANGED <<stop, ends, put, sinceReceipt, timedOut, lastReceived>>
    /\ OthersUnchanged

(* AppendSentFrame, then the header and the image in a stream of n chunks *)
CastFrame(n) ==
    /\ loop \in {"capture", "overdue"} /\ Len(ends) < MaxFrames
    /\ ends' = Append(ends, put + n)
    /\ sinceReceipt' = sinceReceipt + 1
    /\ timedOut' = timedOut + (IF loop = "overdue" THEN 1 ELSE 0)
    /\ loop' = "send"
    /\ UNCHANGED <<stop, put, lastReceived>>
    /\ OthersUnchanged

(* yield return chunk *)
SendChunk ==
    /\ loop = "send"
    /\ put' = put + 1
    /\ loop' = IF put + 1 = ends[Len(ends)] THEN "top" ELSE "send"
    /\ UNCHANGED <<stop, ends, sinceReceipt, timedOut, lastReceived>>
    /\ OthersUnchanged

EndCast ==
    /\ loop = "top" /\ stop
    /\ loop' = "done"
    /\ UNCHANGED <<stop, ends, put, sinceReceipt, timedOut, lastReceived>>
    /\ OthersUnchanged

(* HandleFrameReceived and SetLastFrameReceived *)
FrameReceived ==
    /\ acks # << >>
    /\ lastReceived' = Head(acks)
    /\ sinceReceipt' = 0 /\ timedOut' = 0
    /\ acks' = Tail(acks)
    /\ UNCHANGED <<loop, stop, ends, put, arrived, pageVars>>

-----------------------------------------------------------------------------
(* The stream: next, complete and error of the page's subscription.        *)

StreamUnchanged == UNCHANGED <<desktopVars, spliced, from, proc, drawn, failures>>

ChunkArrives ==
    /\ ~streamEnded /\ arrived < put
    /\ arrived' = arrived + 1
    /\ UNCHANGED <<streamEnded, acks>>
    /\ StreamUnchanged

StreamCompletes ==
    /\ ~streamEnded /\ loop = "done" /\ arrived = put
    /\ streamEnded' = TRUE
    /\ UNCHANGED <<arrived, acks>>
    /\ StreamUnchanged

(* The connection or the hub's enumeration fails: chunks and the last of    *)
(* the receipts that are on their way are lost.                             *)
StreamFails ==
    /\ ~streamEnded
    /\ streamEnded' = TRUE
    /\ \E n \in 0 .. Len(acks) : acks' = SubSeq(acks, 1, n)
    /\ UNCHANGED arrived
    /\ StreamUnchanged

-----------------------------------------------------------------------------
(* ProcessStream, once per animation frame.                                *)

PageUnchanged == UNCHANGED <<desktopVars, arrived, streamEnded>>

(* The buffer begins where a frame does, with frame f. *)
BeginsWith(f) == f \in 1 .. Len(ends) /\ from = (IF f = 1 THEN 0 ELSE ends[f - 1])
Aligned == from = 0 \/ \E f \in 1 .. Len(ends) : from = ends[f]

(* The chunks that came join the buffer. *)
ProcessStream ==
    /\ proc = "scheduled"
    /\ IF streamEnded
       THEN proc' = "over" /\ UNCHANGED spliced
       ELSE /\ spliced' = arrived
            /\ proc' = IF from = arrived THEN "scheduled" ELSE "header"
    /\ UNCHANGED <<from, drawn, failures, acks>>
    /\ PageUnchanged

(* A wrong variant, for a mutant: whatever has arrived is decoded. *)
ReadHeader_AnySize ==
    /\ proc = "header"
    /\ proc' = "decode"
    /\ UNCHANGED <<spliced, from, drawn, failures, acks>>
    /\ PageUnchanged

(* The header has been read: is the image all there?  A buffer that does   *)
(* not begin with a header has any number in its place.                    *)
ReadHeader ==
    /\ proc = "header"
    /\ \/ \E f \in 1 .. Len(ends) :
            /\ BeginsWith(f)
            /\ proc' = IF ends[f] <= spliced THEN "decode" ELSE "scheduled"
       \/ ~Aligned /\ proc' \in {"scheduled", "decode"}
    /\ UNCHANGED <<spliced, from, drawn, failures, acks>>
    /\ PageUnchanged

(* Wrong variants, for mutants: the whole buffer goes with the frame, and no *)
(* receipt is sent.                                                          *)
DrawFrame_DropsRest(f) ==
    /\ proc = "decode" /\ BeginsWith(f)
    /\ drawn' = drawn \cup {f}
    /\ from' = spliced
    /\ acks' = Append(acks, f)
    /\ proc' = "scheduled"
    /\ UNCHANGED <<spliced, failures>>
    /\ PageUnchanged

DrawFrame_NoReceipt(f) ==
    /\ proc = "decode" /\ BeginsWith(f)
    /\ drawn' = drawn \cup {f}
    /\ from' = ends[f]
    /\ proc' = "scheduled"
    /\ UNCHANGED <<spliced, failures, acks>>
    /\ PageUnchanged

(* drawImage, the frame is cut off the buffer and SendFrameReceived goes    *)
(* out, or not when the connection is gone.                                 *)
DrawFrame(f) ==
    /\ proc = "decode" /\ BeginsWith(f)
    /\ drawn' = drawn \cup {f}
    /\ from' = ends[f]
    /\ acks' = Append(acks, f) \/ (streamEnded /\ UNCHANGED acks)
    /\ proc' = "scheduled"
    /\ UNCHANGED <<spliced, failures>>
    /\ PageUnchanged

(* createImageBitmap rejects: the whole buffer is dropped. *)
DecodeFails ==
    /\ proc = "decode"
    /\ ~Aligned \/ failures < MaxFailures
    /\ failures' = failures + 1
    /\ from' = spliced
    /\ proc' = "scheduled"
    /\ UNCHANGED <<spliced, drawn, acks>>
    /\ PageUnchanged

-----------------------------------------------------------------------------
Desktop == \/ StopRequested \/ NextFrame \/ ViewerKeepsUp \/ WaitTimesOut \/ NothingToSend
           \/ \E n \in 1 .. MaxParts : CastFrame(n)
           \/ SendChunk \/ EndCast \/ FrameReceived
Stream == ChunkArrives \/ StreamCompletes \/ StreamFails
Page == \/ ProcessStream \/ ReadHeader \/ DecodeFails
        \/ \E f \in 1 .. Len(ends) : DrawFrame(f)

Next == Desktop \/ Stream \/ Page

Spec == Init /\ [][Next]_vars

(* The enumerator goes on with a frame it has begun, the connection carries *)
(* chunks and receipts, and the browser calls back for every animation      *)
(* frame and decodes; captures, stops and failures happen as they like.     *)
FairSpec ==
    /\ Spec
    /\ WF_vars(SendChunk) /\ WF_vars(ChunkArrives) /\ WF_vars(FrameReceived)
    /\ WF_vars(Page)

-----------------------------------------------------------------------------
TypeOK ==
    /\ loop \in {"top", "wait", "capture", "overdue", "send", "done"}
    /\ {stop, streamEnded} \subseteq BOOLEAN
    /\ ends \in Seq(Nat)
    /\ put \in Nat /\ sinceReceipt \in Nat /\ timedOut \in Nat /\ lastReceived \in Nat
    /\ arrived \in Nat /\ spliced \in Nat /\ from \in Nat /\ failures \in Nat
    /\ proc \in {"scheduled", "header", "decode", "over"}
    /\ drawn \subseteq Nat
    /\ acks \in Seq(Nat)

(* The frames follow each other and end with what was or is being yielded. *)
FramesFollow ==
    /\ \A f \in 1 .. Len(ends) : 0 < ends[f]
    /\ \A f, g \in 1 .. Len(ends) : f < g => ends[f] < ends[g]
    /\ IF loop = "send"
       THEN /\ Len(ends) > 0 /\ put < ends[Len(ends)]
            /\ \A f \in 1 .. Len(ends) - 1 : ends[f] <= put
       ELSE put = (IF Len(ends) = 0 THEN 0 ELSE ends[Len(ends)])

(* The page's buffer is a part of the stream behind all frames it has drawn. *)
BufferInStream ==
    /\ from <= spliced /\ spliced <= arrived /\ arrived <= put
    /\ proc \in {"header", "decode"} => from < spliced
    /\ \A f \in drawn : f \in 1 .. Len(ends) /\ ends[f] <= from

(* As long as every image was decoded the buffer begins behind the last     *)
(* frame that was drawn, and no frame is missing.                           *)
NoFrameIsMissing ==
    failures = 0 =>
        \E n \in 0 .. Len(ends) :
            /\ drawn = 1 .. n
            /\ from = (IF n = 0 THEN 0 ELSE ends[n])

(* A frame is cut off only when all of it is in the buffer. *)
DecodesWholeFrames ==
    proc = "decode" =>
        \A f \in 1 .. Len(ends) : BeginsWith(f) => ends[f] <= spliced

(* Receipts are on their way in the order of the frames, each for one that  *)
(* was drawn after the last received.                                       *)
ReceiptsInOrder ==
    /\ lastReceived \in drawn \cup {0}
    /\ \A i \in 1 .. Len(acks) : acks[i] \in drawn /\ lastReceived < acks[i]
    /\ \A i, j \in 1 .. Len(acks) : i < j => acks[i] < acks[j]

(* "Prevent publisher from overwhelming consumer bewteen receipts": without *)
(* a receipt the caster sends MaxAhead frames, and then one per time-out.   *)
FlowIsBounded ==
    sinceReceipt <= MaxAhead + timedOut

(* The inductive invariant of the stream. *)
FrameInvariant ==
    /\ TypeOK
    /\ FramesFollow
    /\ BufferInStream
    /\ NoFrameIsMissing
    /\ DecodesWholeFrames
    /\ ReceiptsInOrder

(* The stream keeps the promise of FrameDelivery. *)
Delivery == INSTANCE FrameDelivery
              WITH cast <- Len(ends), acknowledged <- lastReceived,
                   spoilt <- failures > 0
DeliverySpec == Delivery!Spec

(* While the stream goes on and images can be decoded, every frame that was *)
(* cast is drawn and the caster hears of it.                                *)
FramesAreAcknowledged ==
    \A f \in 1 .. MaxFrames :
        Len(ends) >= f ~> lastReceived >= f \/ streamEnded \/ failures > 0
=============================================================================
