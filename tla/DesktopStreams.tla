---------------------------- MODULE DesktopStreams ----------------------------
(***************************************************************************)
(* How the stream of a desktop process finds the viewer that asked for it: *)
(* the StreamId a session keeps for its last request, the signalers of     *)
(* DesktopStreamCache where SendDesktopStream and GetDesktopStream meet,   *)
(* and ScreenCaster's list of viewers, which decides when the process may  *)
(* close.  One session and its desktop process; the pages ask whenever     *)
(* they are opened or told that the screen caster is ready again.          *)
(*                                                                         *)
(* A step is a synchronous stretch of a handler, up to an await.  Which of *)
(* the tasks waiting for a SemaphoreSlim a Release wakes is not specified. *)
(***************************************************************************)
EXTENDS Naturals, FiniteSets

CONSTANTS
    Viewers,
    Requests,    \* runs of SendScreenCastRequestToDevice; each makes a StreamId
    Signalers,   \* StreamSignaler objects; an object is never reused
    None

ASSUME NoneAssumption ==
    None \notin Viewers /\ None \notin Requests /\ None \notin Signalers

VARIABLES
    streamId,    \* RemoteControlSession.StreamId, named by the request made it
    ask,         \* each request: whose it is and how far it has come
    cast,        \* its cast: the desktop's part and DesktopHub's handler
    read,        \* its reader: ViewerHub.GetDesktopStream
    cache,       \* DesktopStreamCache._streamingSessions
    signaler,    \* the fields of every signaler
    shown,       \* AppState.Viewers: the cast each viewer is listed with
    gone,        \* the viewers whose connection has ended
    shutdown,    \* ScreenCaster called the shutdown service
    abandoned    \* history: signalers on which a reader's wait timed out

vars == <<streamId, ask, cast, read, cache, signaler, shown, gone, shutdown,
          abandoned>>

-----------------------------------------------------------------------------
Asks == [phase: {"unused", "asking", "accepted", "subscribed"},
         viewer: Viewers \cup {None}]
Casts ==
    [desk: {"none", "told", "casting", "ending", "over"},
     upload: {"none", "coming", "held", "ending", "over", "failed"},
     id: Requests \cup {None},
     sig: Signalers \cup {None}]
Readers ==
    [phase: {"none", "waiting", "woken", "reading", "over", "timedOut"},
     id: Requests \cup {None},
     sig: Signalers \cup {None},
     source: Requests \cup {None}]     \* the cast whose stream is read
SignalerRecords ==
    [id: Requests \cup {None},
     stream: Requests \cup {None},     \* the cast whose stream it offers
     ready: BOOLEAN, end: BOOLEAN,     \* the semaphores' counts
     disposed: BOOLEAN]
NewSignaler(i) == [id |-> i, stream |-> None, ready |-> FALSE, end |-> FALSE,
                   disposed |-> FALSE]

Init ==
    /\ streamId = None
    /\ ask = [r \in Requests |-> [phase |-> "unused", viewer |-> None]]
    /\ cast = [r \in Requests |-> [desk |-> "none", upload |-> "none",
                                   id |-> None, sig |-> None]]
    /\ read = [r \in Requests |-> [phase |-> "none", id |-> None, sig |-> None,
                                   source |-> None]]
    /\ cache = [i \in Requests |-> None]
    /\ signaler = [x \in Signalers |-> NewSignaler(None)]
    /\ shown = [v \in Viewers |-> None]
    /\ gone = {}
    /\ shutdown = FALSE
    /\ abandoned = {}

ViewerOf(r) == ask[r].viewer
\* The hub runs the invocations of a connection one at a time.
Busy(v) == \E r \in Requests: ask[r].viewer = v /\ ask[r].phase = "asking"

\* The tasks that wait for a signaler's semaphores.
Waiting(x) == {r \in Requests: read[r].phase = "waiting" /\ read[r].sig = x}
Holding(x) == {r \in Requests: cast[r].upload = "held" /\ cast[r].sig = x}

\* GetOrAdd: x is the cached signaler of i, or a new one.
GetOrAdd(i, x) == IF cache[i] # None THEN x = cache[i] ELSE signaler[x].id = None
Got(i, x) == IF cache[i] # None THEN signaler[x] ELSE NewSignaler(i)

-----------------------------------------------------------------------------
(* ViewerHub and the page. *)

\* SendScreenCastRequestToDevice up to the prompt: the session gets a new id.
SendScreenCastRequest(v, r) ==
    /\ ask[r].phase = "unused"
    /\ v \notin gone
    /\ ~Busy(v)
    /\ streamId' = r
    /\ ask' = [ask EXCEPT ![r] = [phase |-> "asking", viewer |-> v]]
    /\ UNCHANGED <<cast, read, cache, signaler, shown, gone, shutdown,
                   abandoned>>

\* After the prompt, if there is one, the desktop is told the id the session
\* has by then.
GetScreenCast(r) ==
    /\ ask[r].phase = "asking"
    /\ ask' = [ask EXCEPT ![r].phase = "accepted"]
    /\ cast' = [cast EXCEPT ![r].desk = "told", ![r].id = streamId]
    /\ UNCHANGED <<streamId, read, cache, signaler, shown, gone, shutdown,
                   abandoned>>

\* Faulty: the reader looks at the signal's count instead of waiting for it.
GetDesktopStream_Peeks(r, x) ==
    /\ ask[r].phase = "accepted"
    /\ ViewerOf(r) \notin gone
    /\ ~Busy(ViewerOf(r))
    /\ GetOrAdd(streamId, x)
    /\ LET s == Got(streamId, x) IN
         /\ signaler' = [signaler EXCEPT ![x] = s]
         /\ read' = [read EXCEPT ![r] =
                       [phase |-> IF s.ready THEN "woken" ELSE "waiting",
                        id |-> streamId, sig |-> x, source |-> None]]
    /\ cache' = [cache EXCEPT ![streamId] = x]
    /\ ask' = [ask EXCEPT ![r].phase = "subscribed"]
    /\ UNCHANGED <<streamId, cast, shown, gone, shutdown, abandoned>>

\* The page calls GetDesktopStream, which reads the session's id again and
\* waits for the signaler's ReadySignal.
GetDesktopStream(r, x) ==
    /\ ask[r].phase = "accepted"
    /\ ViewerOf(r) \notin gone
    /\ ~Busy(ViewerOf(r))
    /\ GetOrAdd(streamId, x)
    /\ LET s == Got(streamId, x) IN
         /\ signaler' = [signaler EXCEPT ![x] = [s EXCEPT !.ready = FALSE]]
         /\ read' = [read EXCEPT ![r] =
                       [phase |-> IF s.ready THEN "woken" ELSE "waiting",
                        id |-> streamId, sig |-> x, source |-> None]]
    /\ cache' = [cache EXCEPT ![streamId] = x]
    /\ ask' = [ask EXCEPT ![r].phase = "subscribed"]
    /\ UNCHANGED <<streamId, cast, shown, gone, shutdown, abandoned>>

\* The reader goes on with the stream the signaler offers now.
ReadStream(r) ==
    /\ read[r].phase = "woken"
    /\ read' = [read EXCEPT ![r].phase = "reading",
                            ![r].source = signaler[read[r].sig].stream]
    /\ UNCHANGED <<streamId, ask, cast, cache, signaler, shown, gone, shutdown,
                   abandoned>>

\* The 30 seconds of WaitForStreamSession are over.
WaitTimesOut(r) ==
    /\ read[r].phase = "waiting"
    /\ read' = [read EXCEPT ![r].phase = "timedOut"]
    /\ abandoned' = abandoned \cup {read[r].sig}
    /\ UNCHANGED <<streamId, ask, cast, cache, signaler, shown, gone, shutdown>>

\* EndSignal.Release wakes a handler or is kept for it.  (It throws, when all
\* is done, if the signaler is disposed.)
ReleaseEndSignal(x) ==
    \/ /\ signaler[x].disposed
       /\ UNCHANGED <<signaler, cast>>
    \/ /\ ~signaler[x].disposed
       /\ \E h \in Holding(x): cast' = [cast EXCEPT ![h].upload = "ending"]
       /\ UNCHANGED signaler
    \/ /\ ~signaler[x].disposed
       /\ Holding(x) = {}
       /\ signaler' = [signaler EXCEPT ![x].end = TRUE]
       /\ UNCHANGED cast

\* Faulty: no finally block; a viewer that leaves the stream signals nothing.
StopReading_Completed(r) ==
    /\ read[r].phase = "reading"
    /\ \/ /\ cast[read[r].source].desk # "casting"
          /\ ReleaseEndSignal(read[r].sig)
       \/ /\ cast[read[r].source].desk = "casting"
          /\ ViewerOf(r) \in gone
          /\ UNCHANGED <<signaler, cast>>
    /\ read' = [read EXCEPT ![r].phase = "over"]
    /\ UNCHANGED <<streamId, ask, cache, shown, gone, shutdown, abandoned>>

\* GetDesktopStream ends, with the stream or with the viewer.
StopReading(r) ==
    /\ read[r].phase = "reading"
    /\ cast[read[r].source].desk # "casting" \/ ViewerOf(r) \in gone
    /\ ReleaseEndSignal(read[r].sig)
    /\ read' = [read EXCEPT ![r].phase = "over"]
    /\ UNCHANGED <<streamId, ask, cache, shown, gone, shutdown, abandoned>>

\* A page's connection ends.  The desktop, told by OnDisconnectedAsync, stops
\* the cast its list has for the viewer.
ViewerLeaves(v) ==
    /\ v \notin gone
    /\ gone' = gone \cup {v}
    /\ IF shown[v] = None
       THEN UNCHANGED <<shown, cast>>
       ELSE /\ shown' = [shown EXCEPT ![v] = None]
            /\ cast' = [cast EXCEPT ![shown[v]].desk =
                          IF @ = "casting" THEN "ending" ELSE @]
    /\ UNCHANGED <<streamId, ask, read, cache, signaler, shutdown, abandoned>>

-----------------------------------------------------------------------------
(* The desktop process and DesktopHub. *)

\* BeginScreenCastingImpl lists the viewer and sends the stream.
BeginScreenCasting(r) ==
    /\ cast[r].desk = "told"
    /\ ~shutdown
    /\ shown' = [shown EXCEPT ![ViewerOf(r)] = r]
    /\ cast' = [cast EXCEPT ![r].desk = "casting", ![r].upload = "coming"]
    /\ UNCHANGED <<streamId, ask, read, cache, signaler, gone, shutdown,
                   abandoned>>

\* SendDesktopStream puts its stream into the signaler of its id, ...
Offered(r, x) == [Got(cast[r].id, x) EXCEPT !.stream = r]

\* ... and once ReadySignal is released it waits for EndSignal.
AwaitEnd(r, x, ready) ==
    LET s == Offered(r, x) IN
    /\ signaler' = [signaler EXCEPT ![x] = [s EXCEPT !.ready = ready, !.end = FALSE]]
    /\ cache' = [cache EXCEPT ![cast[r].id] = x]
    /\ cast' = [cast EXCEPT ![r].upload = IF s.end THEN "ending" ELSE "held",
                            ![r].sig = x]

\* The release wakes a reader, ...
WakeReader(r, x) ==
    /\ \E w \in Waiting(x): read' = [read EXCEPT ![w].phase = "woken"]
    /\ AwaitEnd(r, x, Offered(r, x).ready)

\* ... or is kept for the next one, ...
OfferStream(r, x) ==
    /\ Waiting(x) = {}
    /\ ~Offered(r, x).ready
    /\ AwaitEnd(r, x, TRUE)
    /\ UNCHANGED read

\* Faulty: a release of a semaphore that is full is ignored.
ReleaseThrows_Ignored(r, x) ==
    /\ Waiting(x) = {}
    /\ Offered(r, x).ready
    /\ AwaitEnd(r, x, TRUE)
    /\ UNCHANGED read

\* ... or throws, if nobody has taken the last offer: the signaler is removed
\* and disposed.
ReleaseThrows(r, x) ==
    /\ Waiting(x) = {}
    /\ Offered(r, x).ready
    /\ signaler' = [signaler EXCEPT ![x] = [Offered(r, x) EXCEPT !.disposed = TRUE]]
    /\ cache' = [cache EXCEPT ![cast[r].id] = None]
    /\ cast' = [cast EXCEPT ![r].upload = "failed", ![r].sig = x]
    /\ UNCHANGED read

SendDesktopStream(r, x) ==
    /\ cast[r].upload = "coming"
    /\ GetOrAdd(cast[r].id, x)
    /\ WakeReader(r, x) \/ OfferStream(r, x) \/ ReleaseThrows(r, x)
    /\ UNCHANGED <<streamId, ask, shown, gone, shutdown, abandoned>>

\* Faulty: the signaler is disposed but stays in the cache.
RemoveSignaler_Kept(r) ==
    /\ cast[r].upload \in {"ending", "held"}
    /\ signaler' = [signaler EXCEPT ![cast[r].sig].disposed = TRUE]
    /\ cast' = [cast EXCEPT ![r].upload = "over"]
    /\ UNCHANGED <<streamId, ask, read, cache, shown, gone, shutdown, abandoned>>

\* The end of SendDesktopStream, after EndSignal or after eight hours.
RemoveSignaler(r) ==
    /\ cast[r].upload \in {"ending", "held"}
    /\ cache' = [cache EXCEPT ![cast[r].id] = None]
    /\ signaler' = [signaler EXCEPT ![cast[r].sig].disposed = TRUE]
    /\ cast' = [cast EXCEPT ![r].upload = "over"]
    /\ UNCHANGED <<streamId, ask, read, shown, gone, shutdown, abandoned>>

\* GetDesktopStream of ScreenCaster comes to its end: the viewer does not
\* respond, or the Windows session ends.
StreamCompletes(r) ==
    /\ cast[r].desk = "casting"
    /\ cast' = [cast EXCEPT ![r].desk = "ending"]
    /\ UNCHANGED <<streamId, ask, read, cache, signaler, shown, gone, shutdown,
                   abandoned>>

\* BeginScreenCastingImpl's finally block: it takes the viewer off the list,
\* by the viewer's id, and closes the process if the list is empty.
EndScreenCasting(r) ==
    /\ cast[r].desk = "ending"
    /\ ~shutdown
    /\ cast' = [cast EXCEPT ![r].desk = "over"]
    /\ shown' = [shown EXCEPT ![ViewerOf(r)] = None]
    /\ shutdown' = (\A v \in Viewers: shown'[v] = None)
    /\ UNCHANGED <<streamId, ask, read, cache, signaler, gone, abandoned>>

-----------------------------------------------------------------------------
ViewerHub ==
    \/ \E v \in Viewers: \/ \E r \in Requests: SendScreenCastRequest(v, r)
                         \/ ViewerLeaves(v)
    \/ \E r \in Requests: \/ GetScreenCast(r)
                          \/ \E x \in Signalers: GetDesktopStream(r, x)
                          \/ ReadStream(r)
                          \/ WaitTimesOut(r)
                          \/ StopReading(r)

DesktopHub ==
    \E r \in Requests: \/ BeginScreenCasting(r)
                       \/ \E x \in Signalers: SendDesktopStream(r, x)
                       \/ RemoveSignaler(r)
                       \/ StreamCompletes(r)
                       \/ EndScreenCasting(r)

Next == ViewerHub \/ DesktopHub

Spec == Init /\ [][Next]_vars

\* Handlers go on once what they wait for has happened.  The timeouts are not
\* relied on, and pages and casts may last for ever.
Fairness ==
    \A r \in Requests:
        /\ WF_vars(ReadStream(r))
        /\ WF_vars(StopReading(r))
        /\ WF_vars(cast[r].upload = "ending" /\ RemoveSignaler(r))

FairSpec == Spec /\ Fairness

-----------------------------------------------------------------------------
(* Properties. *)

\* Every variable keeps its type.
TypeOK ==
    /\ streamId \in Requests \cup {None}
    /\ ask \in [Requests -> Asks]
    /\ cast \in [Requests -> Casts]
    /\ read \in [Requests -> Readers]
    /\ cache \in [Requests -> Signalers \cup {None}]
    /\ signaler \in [Signalers -> SignalerRecords]
    /\ shown \in [Viewers -> Requests \cup {None}]
    /\ gone \subseteq Viewers
    /\ shutdown \in BOOLEAN
    /\ abandoned \subseteq Signalers

\* A request is asked, cast and read in this order.
PhasesInOrder ==
    \A r \in Requests:
        /\ ask[r].phase \in {"unused", "asking"} => cast[r].desk = "none"
        /\ ask[r].phase # "subscribed" => read[r].phase = "none"
        /\ cast[r].desk \in {"none", "told"} => cast[r].upload = "none"

\* Handlers and readers know an id, and the signaler they work with is the
\* one that was made for it.
IdsAreKnown ==
    \A r \in Requests:
        /\ ask[r].phase # "unused" => streamId # None
        /\ cast[r].desk = "told" \/ cast[r].upload = "coming" => cast[r].id # None
Serving == {"held", "ending"}
HandlersMatch ==
    \A r \in Requests: cast[r].upload \in Serving =>
        /\ cast[r].id # None
        /\ cast[r].sig # None
        /\ signaler[cast[r].sig].id = cast[r].id
Reading == {"waiting", "woken", "reading"}
ReadersMatch ==
    \A r \in Requests: read[r].phase \in Reading =>
        /\ read[r].id # None
        /\ read[r].sig # None
        /\ signaler[read[r].sig].id = read[r].id

\* A stream that is offered or read has a handler that waits for its end, or
\* the handler is over and has disposed the signaler.
OffersHaveHandlers ==
    \A x \in Signalers:
        \/ signaler[x].ready
        \/ \E r \in Requests: read[r].phase \in {"woken", "reading"} /\ read[r].sig = x
        => \/ signaler[x].disposed
           \/ \E h \in Requests: cast[h].upload \in Serving /\ cast[h].sig = x

\* A signaler stays in the cache only as long as somebody uses it, unless a
\* reader gave up on it: a handler that fails, or that ends while another one
\* of the same id goes on, leaves nothing behind.
Uses(r, x) ==
    \/ cast[r].upload \in Serving /\ cast[r].sig = x
    \/ read[r].phase \in Reading /\ read[r].sig = x
SignalersHaveUsers ==
    \A i \in Requests: cache[i] # None =>
        \/ cache[i] \in abandoned
        \/ \E r \in Requests: Uses(r, cache[i])

\* Whoever gets a signaler from the cache can wait for it and release it: it
\* is not disposed and bears the id it was asked for.
CachedSignalersWork ==
    \A i \in Requests: cache[i] # None =>
        ~signaler[cache[i]].disposed /\ signaler[cache[i]].id = i

\* What the handlers, the readers, the signalers and the cache always have in
\* common; every step preserves it.
StreamInvariant ==
    /\ TypeOK
    /\ PhasesInOrder
    /\ IdsAreKnown
    /\ HandlersMatch
    /\ ReadersMatch
    /\ OffersHaveHandlers
    /\ SignalersHaveUsers
    /\ CachedSignalersWork

\* The releases of ReadySignal and the waits for it balance: as many readers
\* were woken through a signaler as streams were offered through it, less the
\* offer it still keeps.  It does not say which stream a reader found.
TakenBy(x) == {r \in Requests: /\ read[r].sig = x
                               /\ read[r].phase \in {"woken", "reading", "over"}}
MadeFor(x) == {r \in Requests: /\ cast[r].sig = x
                               /\ cast[r].upload \in {"held", "ending", "over"}}
OffersBalance ==
    \A x \in Signalers:
        Cardinality(TakenBy(x)) + (IF signaler[x].ready THEN 1 ELSE 0)
            = Cardinality(MadeFor(x))

\* The stream a signaler keeps was sent through it, and so was every stream a
\* reader went on with; a reader that was woken finds one.
Sent(c, x) ==
    x # None /\ cast[c].sig = x /\ cast[c].upload \in {"held", "ending", "over", "failed"}
KeepsSent(x) ==
    LET s == signaler[x] IN
    /\ s.stream # None => Sent(s.stream, x) /\ cast[s.stream].id = s.id
    /\ s.ready => s.stream # None
ReadsSent(r) ==
    LET d == read[r] IN
    /\ d.phase = "woken" => signaler[d.sig].stream # None
    /\ d.phase \in {"reading", "over"} <=> d.source # None
    /\ d.source # None => Sent(d.source, d.sig) /\ cast[d.source].id = d.id
StreamsAreSent ==
    /\ \A x \in Signalers: KeepsSent(x)
    /\ \A r \in Requests: ReadsSent(r)

\* A reader that GetDesktopStream lets through never finds signaler.Stream
\* null or left from another id, and two readers share one stream, each with a
\* part of its chunks, only where a second stream was sent under their id and
\* took the place of the first before it was read.
ReadersGetTheirStream ==
    \A r \in Requests: read[r].phase \in {"reading", "over"} =>
        LET c == read[r].source IN
        /\ c # None
        /\ cast[c].id = read[r].id
        /\ \A q \in Requests \ {r}: read[q].source = c =>
              \E other \in MadeFor(read[r].sig): other # c

\* The inductive invariant behind it: a signaler that was not constructed was
\* never offered, and there are as many offers as there were requests at most.
NewSignalersAreUnused ==
    \A x \in Signalers: signaler[x].id = None =>
        /\ ~signaler[x].ready
        /\ \A r \in Requests: read[r].sig # x /\ cast[r].sig # x
RequestsAreFinite == IsFiniteSet({r \in Requests: ask[r].phase # "unused"})
OfferInvariant ==
    /\ StreamInvariant
    /\ NewSignalersAreUnused
    /\ RequestsAreFinite
    /\ OffersBalance
    /\ StreamsAreSent

\* A stream that was read to its end is forgotten: its signaler leaves the
\* cache without waiting for the eight hours.
ReadStreamsAreForgotten ==
    \A r \in Requests:
        read[r].phase = "over" ~> (\A i \in Requests: cache[i] # read[r].sig)
=============================================================================
