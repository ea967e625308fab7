------------------------- MODULE DesktopStreamsProofs -------------------------
(***************************************************************************)
(* Proofs about DesktopStreams, for any number of viewers, requests and    *)
(* signalers.  StreamInvariant is inductive; two facts carry it.  An id is *)
(* cached only with the signaler made for it (CachedSignalersWork), so a   *)
(* handler that ends removes the signaler it disposes and no other.  And a *)
(* stream that is offered or read has a handler (OffersHaveHandlers), so a *)
(* reader that ends leaves the signaler to the one who will remove it.     *)
(*                                                                         *)
(* OfferInvariant adds the count of the offers and of their takers to it,  *)
(* and whose stream each signaler keeps and each reader reads.  If two     *)
(* readers read one stream, two offers were made, the second by another    *)
(* cast: that is the count's use.  The sets counted are finite because each request in them was sent, and  *)
(* every step sends one request at most: Requests itself may be infinite.  *)
(***************************************************************************)
EXTENDS DesktopStreams, FiniteSetTheorems, TLAPS

-----------------------------------------------------------------------------
(* Records keep their type when a field gets a value of its type. *)

\* The fields of a request can be set.
LEMMA AskUpdates ==
    \A a \in Asks: \A p \in {"accepted", "subscribed"}: [a EXCEPT !.phase = p] \in Asks
  BY DEF Asks

\* The fields of a cast can be set.
LEMMA CastUpdates ==
    \A c \in Casts:
        /\ \A d \in {"told", "casting", "ending", "over"}: [c EXCEPT !.desk = d] \in Casts
        /\ \A u \in {"coming", "held", "ending", "over", "failed"}:
              [c EXCEPT !.upload = u] \in Casts
        /\ \A i \in Requests \cup {None}: [c EXCEPT !.id = i] \in Casts
        /\ \A x \in Signalers: [c EXCEPT !.sig = x] \in Casts
  BY DEF Casts

\* The fields of a reader can be set.
LEMMA ReaderUpdates ==
    \A d \in Readers:
        /\ \A p \in {"woken", "reading", "over", "timedOut"}: [d EXCEPT !.phase = p] \in Readers
        /\ \A c \in Requests \cup {None}: [d EXCEPT !.source = c] \in Readers
  BY DEF Readers

\* The fields of a signaler can be set.
LEMMA SignalerUpdates ==
    \A s \in SignalerRecords:
        /\ \A c \in Requests: [s EXCEPT !.stream = c] \in SignalerRecords
        /\ \A b \in BOOLEAN: /\ [s EXCEPT !.ready = b] \in SignalerRecords
                             /\ [s EXCEPT !.end = b] \in SignalerRecords
                             /\ [s EXCEPT !.disposed = b] \in SignalerRecords
  BY DEF SignalerRecords

\* The fields of the records have their types.
LEMMA FieldsTyped ==
    /\ \A c \in Casts: c.id \in Requests \cup {None} /\ c.sig \in Signalers \cup {None}
    /\ \A d \in Readers: d.id \in Requests \cup {None} /\ d.sig \in Signalers \cup {None}
    /\ \A s \in SignalerRecords:
          /\ s.id \in Requests \cup {None} /\ s.stream \in Requests \cup {None}
          /\ s.ready \in BOOLEAN /\ s.end \in BOOLEAN /\ s.disposed \in BOOLEAN
  BY DEF Casts, Readers, SignalerRecords

-----------------------------------------------------------------------------
(* What the parts of the steps do. *)

\* The signaler GetOrAdd returns is the one for its id, and not disposed.  If
\* it is a new one nobody works with it yet.
LEMMA GotWorks ==
    ASSUME StreamInvariant, NEW i \in Requests, NEW x \in Signalers, GetOrAdd(i, x)
    PROVE  /\ Got(i, x) \in SignalerRecords
           /\ Got(i, x).id = i
           /\ ~Got(i, x).disposed
           /\ signaler[x].id \in {i, None}
           /\ cache[i] # x => ~Got(i, x).ready /\ signaler[x].id = None
           /\ cache[i] = x => Got(i, x) = signaler[x]
  <1>1. CASE cache[i] # None
    BY <1>1, FieldsTyped DEF StreamInvariant, TypeOK, CachedSignalersWork, GetOrAdd, Got
  <1>2. CASE cache[i] = None
    <2>1. Got(i, x) = NewSignaler(i) /\ signaler[x].id = None
      BY <1>2 DEF GetOrAdd, Got
    <2>2. NewSignaler(i) \in SignalerRecords /\ NewSignaler(i).id = i
             /\ ~NewSignaler(i).disposed /\ ~NewSignaler(i).ready
      BY DEF NewSignaler, SignalerRecords
    <2> QED BY <1>2, <2>1, <2>2, NoneAssumption
  <1> QED BY <1>1, <1>2

\* Nobody works with a signaler that has no id.
LEMMA FreshIsUnused ==
    ASSUME StreamInvariant, NEW x \in Signalers, signaler[x].id = None
    PROVE  \A r \in Requests: ~Uses(r, x)
  BY DEF StreamInvariant, HandlersMatch, ReadersMatch, Uses

\* Releasing EndSignal only moves a handler on, or keeps the release.
LEMMA EndSignalReleased ==
    ASSUME StreamInvariant, NEW x \in Signalers, ReleaseEndSignal(x)
    PROVE  /\ cast' \in [Requests -> Casts]
           /\ signaler' \in [Signalers -> SignalerRecords]
           /\ \A h \in Requests:
                 /\ cast'[h].id = cast[h].id
                 /\ cast'[h].sig = cast[h].sig
                 /\ cast'[h].desk = cast[h].desk
                 /\ cast'[h].upload = "none" <=> cast[h].upload = "none"
                 /\ cast'[h].upload = "coming" <=> cast[h].upload = "coming"
                 /\ cast'[h].upload \in Serving <=> cast[h].upload \in Serving
           /\ \A y \in Signalers:
                 /\ signaler'[y].id = signaler[y].id
                 /\ signaler'[y].ready = signaler[y].ready
                 /\ signaler'[y].disposed = signaler[y].disposed
  <1> USE DEF StreamInvariant, TypeOK, Serving
  <1>1. CASE UNCHANGED <<signaler, cast>>
    BY <1>1
  <1>2. CASE \E h \in Holding(x): cast' = [cast EXCEPT ![h].upload = "ending"] /\ UNCHANGED signaler
    <2> PICK h \in Holding(x): cast' = [cast EXCEPT ![h].upload = "ending"] BY <1>2
    <2>1. h \in Requests /\ cast[h].upload = "held" BY DEF Holding
    <2>2. cast' \in [Requests -> Casts] BY <2>1, CastUpdates
    <2>3. \A q \in Requests: /\ q # h => cast'[q] = cast[q]
                             /\ cast'[h].id = cast[h].id
                             /\ cast'[h].sig = cast[h].sig
                             /\ cast'[h].desk = cast[h].desk
                             /\ cast'[h].upload = "ending"
      BY <2>1 DEF Casts
    <2> QED BY <1>2, <2>1, <2>2, <2>3
  <1>3. CASE signaler' = [signaler EXCEPT ![x].end = TRUE] /\ UNCHANGED cast
    <2>1. signaler' \in [Signalers -> SignalerRecords] BY <1>3, SignalerUpdates
    <2>2. \A y \in Signalers: /\ signaler'[y].id = signaler[y].id
                              /\ signaler'[y].ready = signaler[y].ready
                              /\ signaler'[y].disposed = signaler[y].disposed
      BY <1>3 DEF SignalerRecords
    <2> QED BY <1>3, <2>1, <2>2
  <1> QED BY <1>1, <1>2, <1>3 DEF ReleaseEndSignal

\* AwaitEnd makes r the handler of x, which is cached for r's id.
LEMMA EndAwaited ==
    ASSUME StreamInvariant, NEW r \in Requests, NEW x \in Signalers, NEW b \in BOOLEAN,
           cast[r].id \in Requests, GetOrAdd(cast[r].id, x), AwaitEnd(r, x, b)
    PROVE  /\ cast' \in [Requests -> Casts]
           /\ signaler' \in [Signalers -> SignalerRecords]
           /\ cache' \in [Requests -> Signalers \cup {None}]
           /\ cast'[r].upload \in Serving /\ cast'[r].sig = x /\ cast'[r].id = cast[r].id
           /\ cast'[r].upload # "coming"
           /\ cast'[r].desk = cast[r].desk
           /\ \A h \in Requests \ {r}: cast'[h] = cast[h]
           /\ signaler'[x].id = cast[r].id /\ ~signaler'[x].disposed
           /\ \A y \in Signalers \ {x}: signaler'[y] = signaler[y]
           /\ cache'[cast[r].id] = x
           /\ \A i \in Requests \ {cast[r].id}: cache'[i] = cache[i]
  <1> DEFINE i == cast[r].id
             s == Offered(r, x)
             u == IF s.end THEN "ending" ELSE "held"
  <1>1. Got(i, x) \in SignalerRecords /\ Got(i, x).id = i /\ ~Got(i, x).disposed
    BY GotWorks
  <1>2. s \in SignalerRecords /\ s.id = i /\ ~s.disposed
    <2>1. s \in SignalerRecords BY <1>1, SignalerUpdates DEF Offered
    <2>2. s.id = Got(i, x).id /\ s.disposed = Got(i, x).disposed
      BY <1>1 DEF Offered, SignalerRecords
    <2> QED BY <2>1, <2>2, <1>1
  <1>3. /\ [s EXCEPT !.ready = b, !.end = FALSE] \in SignalerRecords
        /\ [s EXCEPT !.ready = b, !.end = FALSE].id = i
        /\ ~[s EXCEPT !.ready = b, !.end = FALSE].disposed
    <2> HIDE DEF s
    <2> QED BY <1>2 DEF SignalerRecords
  <1>4. u \in {"held", "ending"} OBVIOUS
  <1>5. /\ signaler' = [signaler EXCEPT ![x] = [s EXCEPT !.ready = b, !.end = FALSE]]
        /\ cache' = [cache EXCEPT ![i] = x]
        /\ cast' = [cast EXCEPT ![r].upload = u, ![r].sig = x]
    BY DEF AwaitEnd
  <1>6. TypeOK BY DEF StreamInvariant
  <1> HIDE DEF u, s
  <1>7. cast' \in [Requests -> Casts] BY <1>4, <1>5, <1>6, CastUpdates DEF TypeOK
  <1>8. /\ cast'[r].upload = u /\ cast'[r].sig = x /\ cast'[r].id = i /\ cast'[r].desk = cast[r].desk
        /\ \A h \in Requests \ {r}: cast'[h] = cast[h]
    BY <1>5, <1>6 DEF TypeOK, Casts
  <1>9. /\ signaler' \in [Signalers -> SignalerRecords]
        /\ signaler'[x] = [s EXCEPT !.ready = b, !.end = FALSE]
        /\ \A y \in Signalers \ {x}: signaler'[y] = signaler[y]
    BY <1>3, <1>5, <1>6 DEF TypeOK
  <1>10. /\ cache' \in [Requests -> Signalers \cup {None}]
         /\ cache'[i] = x
         /\ \A j \in Requests \ {i}: cache'[j] = cache[j]
    BY <1>5, <1>6 DEF TypeOK
  <1> QED BY <1>3, <1>4, <1>7, <1>8, <1>9, <1>10 DEF Serving


-----------------------------------------------------------------------------
(* Every step preserves the invariant. *)

\* StreamInvariant is inductive.
LEMMA StreamInvariantKept == StreamInvariant /\ [Next]_vars => StreamInvariant'
<1> SUFFICES ASSUME StreamInvariant, [Next]_vars PROVE StreamInvariant' OBVIOUS
<1> USE DEF StreamInvariant
<1>1. ASSUME NEW v \in Viewers, NEW r \in Requests, SendScreenCastRequest(v, r) PROVE StreamInvariant'
  <2>1. TypeOK' BY <1>1, NoneAssumption DEF SendScreenCastRequest, TypeOK, Asks
  <2>2. PhasesInOrder'
    BY <1>1, NoneAssumption DEF SendScreenCastRequest, TypeOK, PhasesInOrder, Asks
  <2>3. IdsAreKnown'
    BY <1>1, NoneAssumption DEF SendScreenCastRequest, TypeOK, IdsAreKnown, Asks
  <2>4. HandlersMatch'
    BY <1>1, NoneAssumption DEF SendScreenCastRequest, TypeOK, HandlersMatch, Serving, Asks
  <2>5. ReadersMatch'
    BY <1>1, NoneAssumption DEF SendScreenCastRequest, TypeOK, ReadersMatch, Reading, Asks
  <2>6. OffersHaveHandlers'
    BY <1>1, NoneAssumption DEF SendScreenCastRequest, TypeOK, OffersHaveHandlers, Serving, Asks
  <2>7. SignalersHaveUsers'
    BY <1>1, NoneAssumption
      DEF SendScreenCastRequest, TypeOK, SignalersHaveUsers, Uses, Serving, Reading, Asks
  <2>8. CachedSignalersWork'
    BY <1>1, NoneAssumption DEF SendScreenCastRequest, TypeOK, CachedSignalersWork, Asks
  <2> QED BY <2>1, <2>2, <2>3, <2>4, <2>5, <2>6, <2>7, <2>8
<1>2. ASSUME NEW r \in Requests, GetScreenCast(r) PROVE StreamInvariant'
  <2>1. TypeOK'
    BY <1>2, AskUpdates, CastUpdates, NoneAssumption DEF GetScreenCast, TypeOK, IdsAreKnown
  <2>2. PhasesInOrder'
    BY <1>2, NoneAssumption DEF GetScreenCast, TypeOK, PhasesInOrder, Asks, Casts
  <2>3. IdsAreKnown' BY <1>2, NoneAssumption DEF GetScreenCast, TypeOK, IdsAreKnown, Asks, Casts
  <2>4. HandlersMatch'
    BY <1>2, NoneAssumption DEF GetScreenCast, TypeOK, HandlersMatch, Serving, Asks, Casts
  <2>5. ReadersMatch'
    BY <1>2, NoneAssumption DEF GetScreenCast, TypeOK, ReadersMatch, Reading, Asks, Casts
  <2>6. OffersHaveHandlers'
    BY <1>2, NoneAssumption DEF GetScreenCast, TypeOK, OffersHaveHandlers, Serving, Asks, Casts
  <2>7. SignalersHaveUsers'
    BY <1>2, NoneAssumption
      DEF GetScreenCast, TypeOK, SignalersHaveUsers, Uses, Serving, Reading, Asks, Casts
  <2>8. CachedSignalersWork'
    BY <1>2, NoneAssumption DEF GetScreenCast, TypeOK, CachedSignalersWork, Asks, Casts
  <2> QED BY <2>1, <2>2, <2>3, <2>4, <2>5, <2>6, <2>7, <2>8
<1>3. ASSUME NEW r \in Requests, NEW x \in Signalers, GetDesktopStream(r, x) PROVE StreamInvariant'
  <2> DEFINE i == streamId
             s == Got(i, x)
             t == [s EXCEPT !.ready = FALSE]
             d == [phase |-> IF s.ready THEN "woken" ELSE "waiting",
                   id |-> i, sig |-> x, source |-> None]
  <2>1. i \in Requests /\ GetOrAdd(i, x)
    BY <1>3 DEF GetDesktopStream, TypeOK, IdsAreKnown
  <2>2. /\ s \in SignalerRecords /\ s.id = i /\ ~s.disposed
        /\ signaler[x].id \in {i, None}
        /\ cache[i] # x => ~s.ready /\ signaler[x].id = None
        /\ cache[i] = x => s = signaler[x]
    BY <2>1, GotWorks DEF StreamInvariant
  <2>3. t \in SignalerRecords /\ t.id = i /\ ~t.disposed /\ ~t.ready
    <3> HIDE DEF s
    <3> QED BY <2>2 DEF SignalerRecords
  <2>4. d \in Readers /\ d.id = i /\ d.sig = x /\ d.phase \in {"woken", "waiting"}
           /\ (d.phase = "woken" => s.ready)
    BY <2>1, NoneAssumption DEF Readers
  <2>5. /\ signaler' = [signaler EXCEPT ![x] = t]
        /\ read' = [read EXCEPT ![r] = d]
        /\ cache' = [cache EXCEPT ![i] = x]
        /\ ask' = [ask EXCEPT ![r].phase = "subscribed"]
        /\ UNCHANGED <<streamId, cast, shown, gone, shutdown, abandoned>>
        /\ ask[r].phase = "accepted"
    BY <1>3 DEF GetDesktopStream
  <2> HIDE DEF i, s, t, d
  <2>6. \A q \in Requests: Uses(q, x) => cache[i] = x
    BY <2>2, FreshIsUnused
  <2>a. TypeOK'
    BY <2>1, <2>3, <2>4, <2>5, AskUpdates DEF TypeOK
  <2>b. PhasesInOrder' /\ IdsAreKnown'
    BY <2>5 DEF TypeOK, PhasesInOrder, IdsAreKnown, Asks
  <2>c. HandlersMatch'
    BY <2>2, <2>3, <2>5, <2>6 DEF TypeOK, HandlersMatch, Uses
  <2>d. ReadersMatch'
    BY <2>1, <2>2, <2>3, <2>4, <2>5, <2>6, NoneAssumption DEF TypeOK, ReadersMatch, Uses
  <2>e. OffersHaveHandlers'
    <3> SUFFICES ASSUME NEW y \in Signalers,
                        \/ signaler'[y].ready
                        \/ \E q \in Requests: read'[q].phase \in {"woken", "reading"}
                                                /\ read'[q].sig = y
                 PROVE  signaler'[y].disposed
                          \/ \E h \in Requests: cast'[h].upload \in Serving /\ cast'[h].sig = y
      BY DEF OffersHaveHandlers
    <3>1. CASE y # x
      BY <3>1, <2>4, <2>5 DEF TypeOK, OffersHaveHandlers
    <3>2. CASE y = x
      <4>1. s.ready \/ \E q \in Requests: read[q].phase \in {"woken", "reading"} /\ read[q].sig = x
        BY <3>2, <2>3, <2>4, <2>5 DEF TypeOK
      <4>2. cache[i] = x
        BY <4>1, <2>2, <2>6 DEF Uses, Reading
      <4> QED BY <3>2, <4>1, <4>2, <2>2, <2>5 DEF OffersHaveHandlers
    <3> QED BY <3>1, <3>2
  <2>f. SignalersHaveUsers'
    <3>1. Uses(r, x)'
      BY <2>4, <2>5 DEF TypeOK, Uses, Reading
    <3>2. \A q \in Requests, y \in Signalers: Uses(q, y) => Uses(q, y)'
      BY <2>5 DEF TypeOK, Uses, PhasesInOrder, Reading
    <3>3. \A j \in Requests: cache'[j] # None => j = i \/ cache[j] = cache'[j]
      BY <2>1, <2>5 DEF TypeOK
    <3>4. cache'[i] = x
      BY <2>1, <2>5 DEF TypeOK
    <3> QED BY <3>1, <3>2, <3>3, <3>4, <2>5 DEF TypeOK, SignalersHaveUsers
  <2>g. CachedSignalersWork'
    BY <2>2, <2>3, <2>5, NoneAssumption DEF TypeOK, CachedSignalersWork
  <2> QED BY <2>a, <2>b, <2>c, <2>d, <2>e, <2>f, <2>g
<1>4. ASSUME NEW r \in Requests, ReadStream(r) PROVE StreamInvariant'
  <2>1. TypeOK'
    BY <1>4, ReaderUpdates, FieldsTyped, NoneAssumption
      DEF ReadStream, TypeOK, ReadersMatch, Reading
  <2>2. PhasesInOrder' BY <1>4, NoneAssumption DEF ReadStream, TypeOK, PhasesInOrder, Readers
  <2>3. IdsAreKnown' BY <1>4, NoneAssumption DEF ReadStream, TypeOK, IdsAreKnown, Readers
  <2>4. HandlersMatch'
    BY <1>4, NoneAssumption DEF ReadStream, TypeOK, HandlersMatch, Serving, Readers
  <2>5. ReadersMatch'
    BY <1>4, NoneAssumption DEF ReadStream, TypeOK, ReadersMatch, Reading, Readers
  <2>6. OffersHaveHandlers'
    BY <1>4, NoneAssumption DEF ReadStream, TypeOK, OffersHaveHandlers, Serving, Readers
  <2>7. SignalersHaveUsers'
    BY <1>4, NoneAssumption
      DEF ReadStream, TypeOK, SignalersHaveUsers, Uses, Serving, Reading, Readers
  <2>8. CachedSignalersWork'
    BY <1>4, NoneAssumption DEF ReadStream, TypeOK, CachedSignalersWork, Readers
  <2> QED BY <2>1, <2>2, <2>3, <2>4, <2>5, <2>6, <2>7, <2>8
<1>5. ASSUME NEW r \in Requests, WaitTimesOut(r) PROVE StreamInvariant'
  <2>1. TypeOK'
    <3>1. read[r] \in Readers /\ read[r].sig \in Signalers
      BY <1>5, FieldsTyped DEF WaitTimesOut, TypeOK, ReadersMatch, Reading
    <3>2. read' \in [Requests -> Readers]
      BY <1>5, <3>1, ReaderUpdates DEF WaitTimesOut, TypeOK
    <3>3. abandoned' \subseteq Signalers
      BY <1>5, <3>1 DEF WaitTimesOut, TypeOK
    <3> QED BY <1>5, <3>2, <3>3 DEF WaitTimesOut, TypeOK
  <2>2. PhasesInOrder' BY <1>5, NoneAssumption DEF WaitTimesOut, TypeOK, PhasesInOrder, Readers
  <2>3. IdsAreKnown' BY <1>5, NoneAssumption DEF WaitTimesOut, TypeOK, IdsAreKnown, Readers
  <2>4. HandlersMatch'
    BY <1>5, NoneAssumption DEF WaitTimesOut, TypeOK, HandlersMatch, Serving, Readers
  <2>5. ReadersMatch'
    BY <1>5, NoneAssumption DEF WaitTimesOut, TypeOK, ReadersMatch, Reading, Readers
  <2>6. OffersHaveHandlers'
    BY <1>5, NoneAssumption DEF WaitTimesOut, TypeOK, OffersHaveHandlers, Serving, Readers
  <2>7. SignalersHaveUsers'
    BY <1>5, NoneAssumption
      DEF WaitTimesOut, TypeOK, SignalersHaveUsers, Uses, Serving, Reading, Readers
  <2>8. CachedSignalersWork'
    BY <1>5, NoneAssumption DEF WaitTimesOut, TypeOK, CachedSignalersWork, Readers
  <2> QED BY <2>1, <2>2, <2>3, <2>4, <2>5, <2>6, <2>7, <2>8
<1>6. ASSUME NEW r \in Requests, StopReading(r) PROVE StreamInvariant'
  <2> DEFINE x == read[r].sig
  <2>1. x \in Signalers /\ read[r].phase = "reading" /\ ReleaseEndSignal(x)
    BY <1>6, FieldsTyped DEF StopReading, TypeOK, ReadersMatch, Reading
  <2>2. /\ read' = [read EXCEPT ![r].phase = "over"]
        /\ UNCHANGED <<streamId, ask, cache, shown, gone, shutdown, abandoned>>
    BY <1>6 DEF StopReading
  <2> HIDE DEF x
  <2>3. /\ cast' \in [Requests -> Casts]
        /\ signaler' \in [Signalers -> SignalerRecords]
        /\ \A h \in Requests:
              /\ cast'[h].id = cast[h].id
              /\ cast'[h].sig = cast[h].sig
              /\ cast'[h].desk = cast[h].desk
              /\ cast'[h].upload = "none" <=> cast[h].upload = "none"
              /\ cast'[h].upload = "coming" <=> cast[h].upload = "coming"
              /\ cast'[h].upload \in Serving <=> cast[h].upload \in Serving
        /\ \A y \in Signalers:
              /\ signaler'[y].id = signaler[y].id
              /\ signaler'[y].ready = signaler[y].ready
              /\ signaler'[y].disposed = signaler[y].disposed
    BY <2>1, EndSignalReleased DEF StreamInvariant
  <2>4. /\ read' \in [Requests -> Readers]
        /\ \A q \in Requests: /\ read'[q].id = read[q].id
                              /\ read'[q].sig = read[q].sig
                              /\ q # r => read'[q].phase = read[q].phase
        /\ read'[r].phase = "over"
    <3>1. read' \in [Requests -> Readers] BY <2>2, ReaderUpdates DEF TypeOK
    <3> QED BY <3>1, <2>2 DEF TypeOK, Readers
  <2>a. TypeOK' BY <2>2, <2>3, <2>4 DEF TypeOK
  <2>b. PhasesInOrder' /\ IdsAreKnown'
    BY <2>1, <2>2, <2>3, <2>4 DEF PhasesInOrder, IdsAreKnown
  <2>c. HandlersMatch' BY <2>3, FieldsTyped DEF TypeOK, HandlersMatch
  <2>d. ReadersMatch'
    <3>1. ASSUME NEW q \in Requests, read'[q].phase \in Reading
          PROVE  /\ read[q].phase \in Reading /\ read[q].sig \in Signalers
                 /\ signaler'[read[q].sig].id = signaler[read[q].sig].id
      BY <2>3, <2>4, <3>1, FieldsTyped DEF TypeOK, ReadersMatch, Reading
    <3> QED BY <2>4, <3>1 DEF ReadersMatch
  <2>e. OffersHaveHandlers' BY <2>3, <2>4 DEF OffersHaveHandlers
  <2>f. SignalersHaveUsers'
    <3> SUFFICES ASSUME NEW i \in Requests, cache[i] # None
                 PROVE  (cache[i] \in abandoned \/ \E q \in Requests: Uses(q, cache[i]))'
      BY <2>2 DEF SignalersHaveUsers
    <3>1. cache'[i] = cache[i] /\ cache[i] \in Signalers /\ abandoned' = abandoned
      BY <2>2 DEF TypeOK
    <3>2. CASE cache[i] = x
      <4>1. \E h \in Requests: cast[h].upload \in Serving /\ cast[h].sig = x
        BY <3>1, <3>2, <2>1 DEF OffersHaveHandlers, CachedSignalersWork, x
      <4>2. PICK h \in Requests: cast[h].upload \in Serving /\ cast[h].sig = x BY <4>1
      <4>3. cast'[h].upload \in Serving /\ cast'[h].sig = x BY <4>2, <2>3
      <4> QED BY <4>3, <3>1, <3>2 DEF Uses
    <3>3. CASE cache[i] # x
      <4>1. \A q \in Requests: Uses(q, cache[i]) => Uses(q, cache[i])'
        BY <3>1, <3>3, <2>3, <2>4 DEF Uses, x
      <4> QED BY <4>1, <3>1 DEF SignalersHaveUsers
    <3> QED BY <3>2, <3>3
  <2>g. CachedSignalersWork' BY <2>2, <2>3 DEF TypeOK, CachedSignalersWork
  <2> QED BY <2>a, <2>b, <2>c, <2>d, <2>e, <2>f, <2>g
<1>7. ASSUME NEW v \in Viewers, ViewerLeaves(v) PROVE StreamInvariant'
  <2>1. /\ cast' \in [Requests -> Casts]
        /\ shown' \in [Viewers -> Requests \cup {None}]
        /\ \A q \in Requests: /\ cast'[q].id = cast[q].id
                              /\ cast'[q].sig = cast[q].sig
                              /\ cast'[q].upload = cast[q].upload
                              /\ \/ cast'[q].desk = cast[q].desk
                                 \/ cast[q].desk = "casting" /\ cast'[q].desk = "ending"
    <3>1. CASE shown[v] = None
      BY <1>7, <3>1 DEF ViewerLeaves, TypeOK
    <3>2. CASE shown[v] # None
      <4> DEFINE c == shown[v]
                 d == IF cast[c].desk = "casting" THEN "ending" ELSE cast[c].desk
      <4>1. c \in Requests
        BY <3>2 DEF TypeOK
      <4>2. cast[c] \in Casts /\ [cast[c] EXCEPT !.desk = d] \in Casts
        BY <4>1 DEF TypeOK, Casts
      <4>3. cast' = [cast EXCEPT ![c].desk = d]
        BY <1>7, <3>2 DEF ViewerLeaves
      <4>4. shown' = [shown EXCEPT ![v] = None]
        BY <1>7, <3>2 DEF ViewerLeaves
      <4> HIDE DEF c
      <4>5. cast' \in [Requests -> Casts]
        <5> HIDE DEF d
        <5> QED BY <4>1, <4>2, <4>3 DEF TypeOK
      <4>6. \A q \in Requests: /\ cast'[q].id = cast[q].id
                               /\ cast'[q].sig = cast[q].sig
                               /\ cast'[q].upload = cast[q].upload
                               /\ \/ cast'[q].desk = cast[q].desk
                                  \/ cast[q].desk = "casting" /\ cast'[q].desk = "ending"
        BY <4>1, <4>3 DEF TypeOK, Casts
      <4> QED BY <4>4, <4>5, <4>6 DEF TypeOK
    <3> QED BY <3>1, <3>2
  <2>2. UNCHANGED <<streamId, ask, read, cache, signaler, shutdown, abandoned>>
           /\ gone' = gone \cup {v}
    BY <1>7 DEF ViewerLeaves
  <2>a. TypeOK' BY <2>1, <2>2 DEF TypeOK
  <2>b. PhasesInOrder' /\ IdsAreKnown'
    BY <2>1, <2>2 DEF TypeOK, PhasesInOrder, IdsAreKnown
  <2>c. HandlersMatch' BY <2>1, <2>2 DEF HandlersMatch
  <2>d. ReadersMatch' BY <2>2 DEF ReadersMatch
  <2>e. OffersHaveHandlers' BY <2>1, <2>2 DEF OffersHaveHandlers
  <2>f. SignalersHaveUsers' BY <2>1, <2>2 DEF SignalersHaveUsers, Uses
  <2>g. CachedSignalersWork' BY <2>2 DEF CachedSignalersWork
  <2> QED BY <2>a, <2>b, <2>c, <2>d, <2>e, <2>f, <2>g
<1>8. ASSUME NEW r \in Requests, BeginScreenCasting(r) PROVE StreamInvariant'
  <2>1. TypeOK' BY <1>8, CastUpdates, NoneAssumption DEF BeginScreenCasting, TypeOK
  <2>2. PhasesInOrder'
    BY <1>8, NoneAssumption DEF BeginScreenCasting, TypeOK, PhasesInOrder, Casts
  <2>3. IdsAreKnown' BY <1>8, NoneAssumption DEF BeginScreenCasting, TypeOK, IdsAreKnown, Casts
  <2>a. /\ \A h \in Requests: /\ cast'[h].id = cast[h].id /\ cast'[h].sig = cast[h].sig
                              /\ cast'[h].upload \in Serving <=> cast[h].upload \in Serving
        /\ UNCHANGED <<read, cache, signaler, abandoned>>
    <3>1. cast \in [Requests -> Casts] /\ cast[r].upload = "none"
      BY <1>8 DEF BeginScreenCasting, TypeOK, PhasesInOrder
    <3> QED BY <1>8, <3>1 DEF BeginScreenCasting, Casts, Serving
  <2>4. HandlersMatch'
    BY <2>a DEF HandlersMatch
  <2>5. ReadersMatch'
    BY <2>a DEF ReadersMatch
  <2>6. OffersHaveHandlers'
    BY <2>a DEF OffersHaveHandlers
  <2>7. SignalersHaveUsers'
    BY <2>a DEF SignalersHaveUsers, Uses
  <2>8. CachedSignalersWork'
    BY <2>a DEF CachedSignalersWork
  <2> QED BY <2>1, <2>2, <2>3, <2>4, <2>5, <2>6, <2>7, <2>8
<1>9. ASSUME NEW r \in Requests, NEW x \in Signalers, SendDesktopStream(r, x) PROVE StreamInvariant'
  <2> DEFINE i == cast[r].id
  <2>1. /\ i \in Requests
        /\ cast[r].upload = "coming"
        /\ GetOrAdd(i, x)
        /\ UNCHANGED <<streamId, ask, shown, gone, shutdown, abandoned>>
    BY <1>9, FieldsTyped DEF SendDesktopStream, TypeOK, IdsAreKnown
  <2>2. /\ Got(i, x) \in SignalerRecords /\ Got(i, x).id = i /\ ~Got(i, x).disposed
        /\ signaler[x].id \in {i, None}
        /\ cache[i] # x => signaler[x].id = None
    BY <2>1, GotWorks DEF StreamInvariant
  <2>3. \A q \in Requests: Uses(q, x) => cache[i] = x
    BY <2>2, FreshIsUnused
  <2>5. Offered(r, x) \in SignalerRecords /\ Offered(r, x).ready \in BOOLEAN
    <3>1. Offered(r, x) \in SignalerRecords BY <2>2, SignalerUpdates DEF Offered
    <3> QED BY <3>1, FieldsTyped
  <2> HIDE DEF i
  <2>6. ASSUME NEW b \in BOOLEAN, AwaitEnd(r, x, b),
               \/ UNCHANGED read
               \/ \E w \in Waiting(x): read' = [read EXCEPT ![w].phase = "woken"]
        PROVE  StreamInvariant'
    <3>1. /\ cast' \in [Requests -> Casts]
          /\ signaler' \in [Signalers -> SignalerRecords]
          /\ cache' \in [Requests -> Signalers \cup {None}]
          /\ cast'[r].upload \in Serving /\ cast'[r].sig = x /\ cast'[r].id = i
          /\ cast'[r].upload # "coming"
          /\ cast'[r].desk = cast[r].desk
          /\ \A h \in Requests \ {r}: cast'[h] = cast[h]
          /\ signaler'[x].id = i /\ ~signaler'[x].disposed
          /\ \A y \in Signalers \ {x}: signaler'[y] = signaler[y]
          /\ cache'[i] = x
          /\ \A j \in Requests \ {i}: cache'[j] = cache[j]
      BY <2>1, <2>6, EndAwaited DEF i, StreamInvariant
    <3>2. /\ read' \in [Requests -> Readers]
          /\ \A q \in Requests:
                /\ read'[q].id = read[q].id
                /\ read'[q].sig = read[q].sig
                /\ \/ read'[q].phase = read[q].phase
                   \/ /\ read[q].phase = "waiting" /\ read'[q].phase = "woken"
                      /\ read[q].sig = x
      <4>1. CASE UNCHANGED read
        BY <4>1 DEF TypeOK
      <4>2. CASE \E w \in Waiting(x): read' = [read EXCEPT ![w].phase = "woken"]
        <5> PICK w \in Waiting(x): read' = [read EXCEPT ![w].phase = "woken"] BY <4>2
        <5>1. w \in Requests /\ read[w].phase = "waiting" /\ read[w].sig = x BY DEF Waiting
        <5>2. read' \in [Requests -> Readers] BY <5>1, ReaderUpdates DEF TypeOK
        <5> QED BY <5>1, <5>2 DEF TypeOK, Readers
      <4> QED BY <2>6, <4>1, <4>2
    <3>3. \A q \in Requests: read'[q].phase \in Reading <=> read[q].phase \in Reading
      BY <3>2 DEF Reading
    <3>4. \A q \in Requests, y \in Signalers: Uses(q, y) => Uses(q, y)'
      BY <2>1, <3>1, <3>2, <3>3 DEF Uses, Serving
    <3>a. TypeOK' BY <2>1, <3>1, <3>2 DEF TypeOK
    <3>b. PhasesInOrder' /\ IdsAreKnown'
      <4>1. cast'[r].upload # "none" BY <3>1 DEF Serving
      <4>2. cast[r].desk \notin {"none", "told"} BY <2>1 DEF PhasesInOrder
      <4>3. PhasesInOrder' BY <2>1, <3>1, <3>2, <4>1, <4>2 DEF PhasesInOrder
      <4>4. IdsAreKnown' BY <2>1, <3>1, <4>2 DEF IdsAreKnown
      <4> QED BY <4>3, <4>4
    <3>5. \A q \in Requests, y \in Signalers: Uses(q, y) => signaler'[y].id = signaler[y].id
      <4> TAKE q \in Requests, y \in Signalers
      <4> HAVE Uses(q, y)
      <4>1. CASE y = x
        <5>1. cache[i] = x BY <2>3, <4>1
        <5>2. signaler[x].id = i BY <2>1, <5>1, NoneAssumption DEF CachedSignalersWork
        <5> QED BY <3>1, <4>1, <5>2
      <4>2. CASE y # x BY <3>1, <4>2
      <4> QED BY <4>1, <4>2
    <3>c. HandlersMatch'
      BY <2>1, <3>1, <3>5, NoneAssumption, FieldsTyped DEF TypeOK, HandlersMatch, Uses
    <3>d. ReadersMatch'
      BY <3>2, <3>3, <3>5, FieldsTyped DEF TypeOK, ReadersMatch, Uses
    <3>e. OffersHaveHandlers'
      <4> SUFFICES ASSUME NEW y \in Signalers,
                          \/ signaler'[y].ready
                          \/ \E q \in Requests: read'[q].phase \in {"woken", "reading"}
                                                  /\ read'[q].sig = y
                   PROVE  signaler'[y].disposed
                            \/ \E h \in Requests: cast'[h].upload \in Serving /\ cast'[h].sig = y
        BY DEF OffersHaveHandlers
      <4>1. CASE y = x BY <4>1, <3>1
      <4>2. CASE y # x
        <5>1. signaler[y].ready \/ \E q \in Requests: read[q].phase \in {"woken", "reading"}
                                                        /\ read[q].sig = y
          BY <4>2, <3>1, <3>2
        <5>2. signaler[y].disposed
                \/ \E h \in Requests: cast[h].upload \in Serving /\ cast[h].sig = y
          BY <5>1 DEF OffersHaveHandlers
        <5>3. cast[r].upload \notin Serving BY <2>1 DEF Serving
        <5> QED BY <4>2, <5>2, <5>3, <3>1
      <4> QED BY <4>1, <4>2
    <3>f. SignalersHaveUsers'
      <4>1. Uses(r, x)' BY <3>1 DEF Uses
      <4> QED BY <2>1, <3>1, <3>4, <4>1 DEF TypeOK, SignalersHaveUsers
    <3>g. CachedSignalersWork'
      BY <2>2, <3>1, NoneAssumption DEF TypeOK, CachedSignalersWork
    <3> QED BY <3>a, <3>b, <3>c, <3>d, <3>e, <3>f, <3>g DEF StreamInvariant
  <2>7. CASE WakeReader(r, x) \/ OfferStream(r, x)
    BY <2>5, <2>6, <2>7 DEF WakeReader, OfferStream
  <2>8. CASE ReleaseThrows(r, x)
    <3> DEFINE t == [Offered(r, x) EXCEPT !.disposed = TRUE]
    <3>1. cache[i] = x /\ signaler[x].id = i
      <4>1. Offered(r, x).ready = Got(i, x).ready
        BY <2>2 DEF Offered, SignalerRecords, i
      <4>2. Got(i, x).ready BY <2>8, <4>1 DEF ReleaseThrows
      <4> QED BY <2>1, <4>2, <2>2, GotWorks DEF StreamInvariant
    <3>2. t \in SignalerRecords /\ t.id = i /\ t.disposed
      <4>1. Offered(r, x).id = i BY <2>2 DEF Offered, SignalerRecords, i
      <4> QED BY <4>1, <2>5 DEF SignalerRecords
    <3>3. /\ signaler' = [signaler EXCEPT ![x] = t]
          /\ cache' = [cache EXCEPT ![i] = None]
          /\ cast' = [cast EXCEPT ![r].upload = "failed", ![r].sig = x]
          /\ UNCHANGED read
      BY <2>8 DEF ReleaseThrows, i
    <3> HIDE DEF t
    <3>4. /\ cast' \in [Requests -> Casts]
          /\ cast'[r].upload = "failed" /\ cast'[r].desk = cast[r].desk
          /\ \A h \in Requests \ {r}: cast'[h] = cast[h]
      <4>1. cast' \in [Requests -> Casts] BY <3>3, CastUpdates DEF TypeOK
      <4> QED BY <3>3, <4>1 DEF TypeOK, Casts
    <3>5. /\ signaler' \in [Signalers -> SignalerRecords]
          /\ signaler'[x].id = i /\ signaler'[x].disposed
          /\ \A y \in Signalers \ {x}: signaler'[y] = signaler[y]
          /\ cache' \in [Requests -> Signalers \cup {None}]
          /\ cache'[i] = None
          /\ \A j \in Requests \ {i}: cache'[j] = cache[j]
      <4>1. signaler' \in [Signalers -> SignalerRecords] /\ signaler'[x] = t
               /\ \A y \in Signalers \ {x}: signaler'[y] = signaler[y]
        BY <3>2, <3>3 DEF TypeOK
      <4>2. cache' \in [Requests -> Signalers \cup {None}] /\ cache'[i] = None
               /\ \A j \in Requests \ {i}: cache'[j] = cache[j]
        BY <2>1, <3>3 DEF TypeOK
      <4> QED BY <3>2, <4>1, <4>2
    <3>a. TypeOK' BY <2>1, <3>3, <3>4, <3>5 DEF TypeOK
    <3>b. PhasesInOrder' /\ IdsAreKnown'
      BY <2>1, <3>3, <3>4 DEF TypeOK, PhasesInOrder, IdsAreKnown
    <3>6. \A y \in Signalers: signaler'[y].id = signaler[y].id
      BY <3>1, <3>5
    <3>c. HandlersMatch'
      BY <3>4, <3>6, FieldsTyped DEF TypeOK, HandlersMatch, Serving
    <3>d. ReadersMatch'
      BY <3>1, <3>3, <3>5 DEF TypeOK, ReadersMatch
    <3>e. OffersHaveHandlers'
      BY <2>1, <3>3, <3>4, <3>5 DEF TypeOK, OffersHaveHandlers, Serving
    <3>f. SignalersHaveUsers'
      BY <2>1, <3>3, <3>4, <3>5 DEF TypeOK, SignalersHaveUsers, Uses, Serving
    <3>g. CachedSignalersWork'
      BY <3>1, <3>5 DEF TypeOK, CachedSignalersWork
    <3> QED BY <3>a, <3>b, <3>c, <3>d, <3>e, <3>f, <3>g DEF StreamInvariant
  <2> QED BY <1>9, <2>7, <2>8 DEF SendDesktopStream
<1>10. ASSUME NEW r \in Requests, RemoveSignaler(r) PROVE StreamInvariant'
  <2>1. TypeOK'
    BY <1>10, CastUpdates, SignalerUpdates, FieldsTyped, NoneAssumption
      DEF RemoveSignaler, TypeOK, HandlersMatch, Serving
  <2>2. PhasesInOrder'
    BY <1>10, NoneAssumption DEF RemoveSignaler, TypeOK, PhasesInOrder, Casts, SignalerRecords
  <2>3. IdsAreKnown'
    BY <1>10, NoneAssumption DEF RemoveSignaler, TypeOK, IdsAreKnown, Casts, SignalerRecords
  <2>4. HandlersMatch'
    BY <1>10, NoneAssumption
      DEF RemoveSignaler, TypeOK, HandlersMatch, Serving, Casts, SignalerRecords
  <2>5. ReadersMatch'
    BY <1>10, NoneAssumption
      DEF RemoveSignaler, TypeOK, ReadersMatch, Reading, Casts, SignalerRecords
  <2>6. OffersHaveHandlers'
    BY <1>10, NoneAssumption
      DEF RemoveSignaler, TypeOK, OffersHaveHandlers, Serving, HandlersMatch, Casts,
          SignalerRecords
  <2>7. SignalersHaveUsers'
    BY <1>10, NoneAssumption
      DEF RemoveSignaler, TypeOK, SignalersHaveUsers, Uses, Serving, Reading, HandlersMatch,
          ReadersMatch, CachedSignalersWork, Casts, SignalerRecords
  <2>8. CachedSignalersWork'
    BY <1>10, NoneAssumption
      DEF RemoveSignaler, TypeOK, CachedSignalersWork, HandlersMatch, Serving, Casts,
          SignalerRecords
  <2> QED BY <2>1, <2>2, <2>3, <2>4, <2>5, <2>6, <2>7, <2>8
<1>11. ASSUME NEW r \in Requests, StreamCompletes(r) PROVE StreamInvariant'
  <2>1. TypeOK' BY <1>11, CastUpdates, NoneAssumption DEF StreamCompletes, TypeOK
  <2>2. PhasesInOrder'
    BY <1>11, NoneAssumption DEF StreamCompletes, TypeOK, PhasesInOrder, Casts
  <2>3. IdsAreKnown' BY <1>11, NoneAssumption DEF StreamCompletes, TypeOK, IdsAreKnown, Casts
  <2>4. HandlersMatch'
    BY <1>11, NoneAssumption DEF StreamCompletes, TypeOK, HandlersMatch, Serving, Casts
  <2>5. ReadersMatch'
    BY <1>11, NoneAssumption DEF StreamCompletes, TypeOK, ReadersMatch, Reading, Casts
  <2>6. OffersHaveHandlers'
    BY <1>11, NoneAssumption DEF StreamCompletes, TypeOK, OffersHaveHandlers, Serving, Casts
  <2>7. SignalersHaveUsers'
    BY <1>11, NoneAssumption
      DEF StreamCompletes, TypeOK, SignalersHaveUsers, Uses, Serving, Reading, Casts
  <2>8. CachedSignalersWork'
    BY <1>11, NoneAssumption DEF StreamCompletes, TypeOK, CachedSignalersWork, Casts
  <2> QED BY <2>1, <2>2, <2>3, <2>4, <2>5, <2>6, <2>7, <2>8
<1>12. ASSUME NEW r \in Requests, EndScreenCasting(r) PROVE StreamInvariant'
  <2>1. TypeOK' BY <1>12, CastUpdates, NoneAssumption DEF EndScreenCasting, TypeOK
  <2>2. PhasesInOrder'
    BY <1>12, NoneAssumption DEF EndScreenCasting, TypeOK, PhasesInOrder, Casts
  <2>3. IdsAreKnown' BY <1>12, NoneAssumption DEF EndScreenCasting, TypeOK, IdsAreKnown, Casts
  <2>4. HandlersMatch'
    BY <1>12, NoneAssumption DEF EndScreenCasting, TypeOK, HandlersMatch, Serving, Casts
  <2>5. ReadersMatch'
    BY <1>12, NoneAssumption DEF EndScreenCasting, TypeOK, ReadersMatch, Reading, Casts
  <2>6. OffersHaveHandlers'
    BY <1>12, NoneAssumption DEF EndScreenCasting, TypeOK, OffersHaveHandlers, Serving, Casts
  <2>7. SignalersHaveUsers'
    BY <1>12, NoneAssumption
      DEF EndScreenCasting, TypeOK, SignalersHaveUsers, Uses, Serving, Reading, Casts
  <2>8. CachedSignalersWork'
    BY <1>12, NoneAssumption DEF EndScreenCasting, TypeOK, CachedSignalersWork, Casts
  <2> QED BY <2>1, <2>2, <2>3, <2>4, <2>5, <2>6, <2>7, <2>8
<1>13. CASE UNCHANGED vars
  BY <1>13
    DEF vars, TypeOK, PhasesInOrder, IdsAreKnown, HandlersMatch, ReadersMatch,
        OffersHaveHandlers, SignalersHaveUsers, CachedSignalersWork, Uses
<1> QED
  BY <1>1, <1>2, <1>3, <1>4, <1>5, <1>6, <1>7, <1>8, <1>9, <1>10, <1>11, <1>12, <1>13
    DEF Next, ViewerHub, DesktopHub

-----------------------------------------------------------------------------
(* Offers.                                                                 *)

\* The requests that take or make the offers of a signaler are finitely many,
\* however many there can be.
LEMMA OffersAreFinite ==
  ASSUME OfferInvariant, NEW x \in Signalers
  PROVE  /\ IsFiniteSet(TakenBy(x)) /\ Cardinality(TakenBy(x)) \in Nat
         /\ IsFiniteSet(MadeFor(x)) /\ Cardinality(MadeFor(x)) \in Nat
<1> DEFINE used == {r \in Requests: ask[r].phase # "unused"}
<1>1. IsFiniteSet(used) /\ PhasesInOrder
  BY DEF OfferInvariant, RequestsAreFinite, StreamInvariant
<1>2. TakenBy(x) \in SUBSET used /\ MadeFor(x) \in SUBSET used
  BY <1>1 DEF TakenBy, MadeFor, PhasesInOrder
<1> HIDE DEF used
<1>3. IsFiniteSet(TakenBy(x)) /\ IsFiniteSet(MadeFor(x))
  BY <1>1, <1>2, FS_Subset
<1> QED BY <1>3, FS_CardinalityType

\* A step that makes and takes no offer.
LEMMA OffersFrame ==
  ASSUME OfferInvariant, StreamInvariant', StreamsAreSent',
         \A r \in Requests: ask'[r].phase # "unused" <=> ask[r].phase # "unused",
         \A r \in Requests:
            /\ read'[r].sig = read[r].sig
            /\ read'[r].phase \in {"woken", "reading", "over"}
                 <=> read[r].phase \in {"woken", "reading", "over"},
         \A r \in Requests:
            /\ cast'[r].sig = cast[r].sig
            /\ cast'[r].upload \in {"held", "ending", "over"}
                 <=> cast[r].upload \in {"held", "ending", "over"},
         \A x \in Signalers: /\ signaler'[x].ready = signaler[x].ready
                             /\ signaler'[x].id = signaler[x].id
  PROVE  OfferInvariant'
<1>1. RequestsAreFinite'
  <2>1. {r \in Requests: ask'[r].phase # "unused"} = {r \in Requests: ask[r].phase # "unused"}
    OBVIOUS
  <2> QED BY <2>1 DEF OfferInvariant, RequestsAreFinite
<1>2. NewSignalersAreUnused'
  BY DEF OfferInvariant, NewSignalersAreUnused
<1>3. OffersBalance'
  <2>1. \A x \in Signalers: TakenBy(x)' = TakenBy(x) /\ MadeFor(x)' = MadeFor(x)
    BY DEF TakenBy, MadeFor
  <2> QED BY <2>1 DEF OfferInvariant, OffersBalance
<1> QED BY <1>1, <1>2, <1>3 DEF OfferInvariant

\* An offer is in a signaler that was constructed before, and GetOrAdd keeps it.
LEMMA GotOffers ==
  ASSUME OfferInvariant, NEW i \in Requests, NEW x \in Signalers, GetOrAdd(i, x)
  PROVE  /\ Got(i, x) \in SignalerRecords /\ Got(i, x).id = i
         /\ Got(i, x).ready = signaler[x].ready
<1>1. StreamInvariant
  BY DEF OfferInvariant
<1>2. /\ Got(i, x) \in SignalerRecords /\ Got(i, x).id = i
      /\ cache[i] # x => ~Got(i, x).ready /\ signaler[x].id = None
      /\ cache[i] = x => Got(i, x) = signaler[x]
  BY <1>1, GotWorks
<1>3. Got(i, x).ready \in BOOLEAN /\ signaler[x].ready \in BOOLEAN
  BY <1>1, <1>2, FieldsTyped DEF StreamInvariant, TypeOK
<1>4. CASE cache[i] = x
  BY <1>2, <1>4
<1>5. CASE cache[i] # x
  BY <1>2, <1>3, <1>5 DEF OfferInvariant, NewSignalersAreUnused
<1> QED BY <1>2, <1>4, <1>5

\* A reader takes an offer at once if there is one.
LEMMA GetDesktopStreamKeepsOffers ==
  ASSUME OfferInvariant, StreamInvariant', StreamsAreSent', NEW r \in Requests, NEW x \in Signalers,
         GetDesktopStream(r, x)
  PROVE  OfferInvariant'
<1> DEFINE s == Got(streamId, x)
<1>1. StreamInvariant /\ TypeOK /\ PhasesInOrder /\ streamId \in Requests
      /\ GetOrAdd(streamId, x) /\ ask[r].phase = "accepted"
  BY DEF GetDesktopStream, OfferInvariant, StreamInvariant, IdsAreKnown, TypeOK
<1>2. s \in SignalerRecords /\ s.id = streamId /\ s.ready = signaler[x].ready
  BY <1>1, GotOffers
<1>3. /\ signaler' = [signaler EXCEPT ![x] = [s EXCEPT !.ready = FALSE]]
      /\ read' = [read EXCEPT ![r] =
                    [phase |-> IF s.ready THEN "woken" ELSE "waiting",
                     id |-> streamId, sig |-> x, source |-> None]]
      /\ ask' = [ask EXCEPT ![r].phase = "subscribed"]
      /\ cast' = cast
  BY DEF GetDesktopStream
<1> HIDE DEF s
<1>4. /\ \A y \in Signalers \ {x}: signaler'[y] = signaler[y]
      /\ signaler'[x].ready = FALSE /\ signaler'[x].id = streamId
  BY <1>1, <1>2, <1>3 DEF TypeOK, SignalerRecords
<1>5. /\ \A q \in Requests \ {r}: read'[q] = read[q]
      /\ read'[r].phase = (IF s.ready THEN "woken" ELSE "waiting") /\ read'[r].sig = x
      /\ read[r].phase = "none"
  BY <1>1, <1>3 DEF TypeOK, PhasesInOrder
<1>6. RequestsAreFinite'
  <2>1. \A q \in Requests: ask'[q].phase # "unused" <=> ask[q].phase # "unused"
    BY <1>1, <1>3 DEF TypeOK, Asks
  <2>2. {q \in Requests: ask'[q].phase # "unused"} = {q \in Requests: ask[q].phase # "unused"}
    BY <2>1
  <2> QED BY <2>2 DEF OfferInvariant, RequestsAreFinite
<1>7. NewSignalersAreUnused'
  <2> SUFFICES ASSUME NEW y \in Signalers, signaler'[y].id = None
               PROVE  ~signaler'[y].ready /\ \A q \in Requests: read'[q].sig # y /\ cast[q].sig # y
    BY <1>3 DEF NewSignalersAreUnused
  <2>1. y # x
    BY <1>1, <1>4, NoneAssumption
  <2> QED BY <1>4, <1>5, <2>1 DEF OfferInvariant, NewSignalersAreUnused
<1>8. OffersBalance'
  <2> SUFFICES ASSUME NEW y \in Signalers
               PROVE  Cardinality(TakenBy(y)') + (IF signaler'[y].ready THEN 1 ELSE 0)
                        = Cardinality(MadeFor(y)')
    BY DEF OffersBalance
  <2>1. /\ Cardinality(TakenBy(y)) + (IF signaler[y].ready THEN 1 ELSE 0)
             = Cardinality(MadeFor(y))
        /\ MadeFor(y)' = MadeFor(y)
    BY <1>3 DEF OfferInvariant, OffersBalance, MadeFor
  <2>2. CASE y = x /\ s.ready
    <3>1. TakenBy(x)' = TakenBy(x) \cup {r} /\ r \notin TakenBy(x)
      BY <1>5, <2>2 DEF TakenBy
    <3>2. Cardinality(TakenBy(x) \cup {r}) = Cardinality(TakenBy(x)) + 1
      BY <3>1, OffersAreFinite, FS_AddElement
    <3>3. Cardinality(TakenBy(x)) \in Nat
      BY OffersAreFinite
    <3>4. signaler[y].ready /\ ~signaler'[y].ready
      BY <1>2, <1>4, <2>2
    <3>5. Cardinality(TakenBy(y)) + 1 = Cardinality(MadeFor(y)')
      BY <2>1, <3>4
    <3>6. Cardinality(TakenBy(y)') = Cardinality(TakenBy(y)) + 1
      BY <2>2, <3>1, <3>2
    <3>7. Cardinality(TakenBy(y)') + 0 = Cardinality(MadeFor(y)')
      <4>1. Cardinality(TakenBy(y)') = Cardinality(MadeFor(y)') /\ Cardinality(TakenBy(y)') \in Nat
        BY <2>2, <3>3, <3>5, <3>6
      <4> QED BY <4>1
    <3> QED BY <3>4, <3>7
  <2>3. CASE ~(y = x /\ s.ready)
    <3>1. TakenBy(y)' = TakenBy(y)
      BY <1>5, <2>3 DEF TakenBy
    <3>2. signaler'[y].ready = signaler[y].ready
      <4>1. signaler[x].ready \in BOOLEAN
        BY <1>1, FieldsTyped DEF TypeOK
      <4> QED BY <1>2, <1>4, <2>3, <4>1
    <3> QED BY <2>1, <3>1, <3>2
  <2> QED BY <2>2, <2>3
<1> QED BY <1>6, <1>7, <1>8 DEF OfferInvariant

\* A handler whose release wakes a reader or is kept makes one offer; it is
\* taken at once, or was not there before.
LEMMA OfferMade ==
  ASSUME OfferInvariant, StreamInvariant', StreamsAreSent', NEW r \in Requests, NEW x \in Signalers,
         cast[r].upload = "coming", GetOrAdd(cast[r].id, x), UNCHANGED ask,
         WakeReader(r, x) \/ OfferStream(r, x)
  PROVE  OfferInvariant'
<1> DEFINE i == cast[r].id
           s == Offered(r, x)
<1>1. StreamInvariant /\ TypeOK /\ i \in Requests
  BY FieldsTyped DEF OfferInvariant, StreamInvariant, IdsAreKnown, TypeOK
<1>2. s \in SignalerRecords /\ s.id = i /\ s.ready = signaler[x].ready
  <2>1. Got(i, x) \in SignalerRecords /\ Got(i, x).id = i /\ Got(i, x).ready = signaler[x].ready
    BY <1>1, GotOffers
  <2> QED BY <2>1, SignalerUpdates DEF Offered, SignalerRecords
<1>3. PICK b \in BOOLEAN: /\ AwaitEnd(r, x, b)
                          /\ \/ /\ b = s.ready
                                /\ \E w \in Waiting(x): read' = [read EXCEPT ![w].phase = "woken"]
                             \/ /\ b = TRUE /\ ~s.ready
                                /\ UNCHANGED read
  <2>1. s.ready \in BOOLEAN
    BY <1>2, FieldsTyped
  <2> QED BY <2>1 DEF WakeReader, OfferStream
<1> HIDE DEF s
<1>4. /\ cast'[r].upload \in Serving /\ cast'[r].sig = x
      /\ \A h \in Requests \ {r}: cast'[h] = cast[h]
      /\ signaler'[x].id = i
      /\ \A y \in Signalers \ {x}: signaler'[y] = signaler[y]
  BY <1>1, <1>3, EndAwaited
<1>5. signaler'[x].ready = b
  <2>1. signaler' = [signaler EXCEPT ![x] = [s EXCEPT !.ready = b, !.end = FALSE]]
    BY <1>3 DEF AwaitEnd, s
  <2> QED BY <1>1, <1>2, <2>1 DEF TypeOK, SignalerRecords
<1>6. \A q \in Requests: read'[q].sig = read[q].sig
  BY <1>1, <1>3 DEF TypeOK, Readers
<1>7. RequestsAreFinite'
  BY DEF OfferInvariant, RequestsAreFinite
<1>8. NewSignalersAreUnused'
  <2> SUFFICES ASSUME NEW y \in Signalers, signaler'[y].id = None
               PROVE  ~signaler'[y].ready /\ \A q \in Requests: read'[q].sig # y /\ cast'[q].sig # y
    BY DEF NewSignalersAreUnused
  <2>1. y # x
    BY <1>1, <1>4, NoneAssumption
  <2> QED BY <1>4, <1>6, <2>1 DEF OfferInvariant, NewSignalersAreUnused
<1>9. MadeFor(x)' = MadeFor(x) \cup {r} /\ r \notin MadeFor(x)
      /\ \A y \in Signalers \ {x}: MadeFor(y)' = MadeFor(y)
  BY <1>4 DEF MadeFor, Serving
<1>10. Cardinality(MadeFor(x)') = Cardinality(MadeFor(x)) + 1
  BY <1>9, OffersAreFinite, FS_AddElement
<1>11. \A y \in Signalers: /\ Cardinality(TakenBy(y)) \in Nat /\ Cardinality(MadeFor(y)) \in Nat
                           /\ Cardinality(TakenBy(y)) + (IF signaler[y].ready THEN 1 ELSE 0)
                                = Cardinality(MadeFor(y))
  BY OffersAreFinite DEF OfferInvariant, OffersBalance
<1>12. \A y \in Signalers: Cardinality(TakenBy(y)') + (IF signaler'[y].ready THEN 1 ELSE 0)
                             = Cardinality(MadeFor(y)')
  <2>1. CASE b = s.ready /\ \E w \in Waiting(x): read' = [read EXCEPT ![w].phase = "woken"]
    <3>1. PICK w \in Waiting(x): read' = [read EXCEPT ![w].phase = "woken"]
      BY <2>1
    <3>2. w \in Requests /\ read[w].phase = "waiting" /\ read[w].sig = x
      BY DEF Waiting
    <3>3. read'[w].phase = "woken" /\ \A q \in Requests \ {w}: read'[q].phase = read[q].phase
      BY <1>1, <3>1, <3>2 DEF TypeOK, Readers
    <3>4. TakenBy(x)' = TakenBy(x) \cup {w} /\ w \notin TakenBy(x)
          /\ \A y \in Signalers \ {x}: TakenBy(y)' = TakenBy(y)
      BY <1>6, <3>2, <3>3 DEF TakenBy
    <3>5. Cardinality(TakenBy(x)') = Cardinality(TakenBy(x)) + 1
      BY <3>4, OffersAreFinite, FS_AddElement
    <3>6. signaler'[x].ready = signaler[x].ready
      BY <1>2, <1>5, <2>1
    <3>7. ASSUME NEW y \in Signalers, y # x
          PROVE  Cardinality(TakenBy(y)') + (IF signaler'[y].ready THEN 1 ELSE 0)
                   = Cardinality(MadeFor(y)')
      <4>1. TakenBy(y)' = TakenBy(y) /\ MadeFor(y)' = MadeFor(y) /\ signaler'[y] = signaler[y]
        BY <1>4, <1>9, <3>4, <3>7
      <4> QED BY <1>11, <4>1
    <3>8. Cardinality(TakenBy(x)') + (IF signaler'[x].ready THEN 1 ELSE 0)
            = Cardinality(MadeFor(x)')
      <4> DEFINE t == Cardinality(TakenBy(x))
                 m == Cardinality(MadeFor(x))
                 n == IF signaler[x].ready THEN 1 ELSE 0
      <4>1. t \in Nat /\ m \in Nat /\ n \in Nat /\ t + n = m
        BY <1>11
      <4>2. (IF signaler'[x].ready THEN 1 ELSE 0) = n
        BY <3>6
      <4>3. Cardinality(TakenBy(x)') = t + 1 /\ Cardinality(MadeFor(x)') = m + 1
        BY <1>10, <3>5
      <4> HIDE DEF t, m, n
      <4>4. (t + 1) + n = m + 1
        BY <4>1
      <4> QED BY <4>2, <4>3, <4>4
    <3> QED BY <3>7, <3>8
  <2>2. CASE b = TRUE /\ ~s.ready /\ UNCHANGED read
    <3>1. \A y \in Signalers: TakenBy(y)' = TakenBy(y)
      BY <2>2 DEF TakenBy
    <3>2. signaler'[x].ready /\ ~signaler[x].ready
      BY <1>2, <1>5, <2>2
    <3>3. ASSUME NEW y \in Signalers, y # x
          PROVE  Cardinality(TakenBy(y)') + (IF signaler'[y].ready THEN 1 ELSE 0)
                   = Cardinality(MadeFor(y)')
      <4>1. TakenBy(y)' = TakenBy(y) /\ MadeFor(y)' = MadeFor(y) /\ signaler'[y] = signaler[y]
        BY <1>4, <1>9, <3>1, <3>3
      <4> QED BY <1>11, <4>1
    <3>4. Cardinality(TakenBy(x)') + (IF signaler'[x].ready THEN 1 ELSE 0)
            = Cardinality(MadeFor(x)')
      <4> DEFINE t == Cardinality(TakenBy(x))
                 m == Cardinality(MadeFor(x))
      <4>1. t \in Nat /\ m \in Nat /\ t + 0 = m
        BY <1>11, <3>2
      <4>2. (IF signaler'[x].ready THEN 1 ELSE 0) = 1
        BY <3>2
      <4>3. Cardinality(TakenBy(x)') = t /\ Cardinality(MadeFor(x)') = m + 1
        BY <1>10, <3>1
      <4> HIDE DEF t, m
      <4>4. t + 1 = m + 1
        BY <4>1
      <4> QED BY <4>2, <4>3, <4>4
    <3> QED BY <3>3, <3>4
  <2> QED BY <1>3, <2>1, <2>2
<1>13. OffersBalance'
  BY <1>12 DEF OffersBalance
<1> QED BY <1>7, <1>8, <1>13 DEF OfferInvariant

\* A handler whose release throws makes no offer.
LEMMA ReleaseThrowsKeepsOffers ==
  ASSUME OfferInvariant, StreamInvariant', StreamsAreSent', NEW r \in Requests, NEW x \in Signalers,
         cast[r].upload = "coming", GetOrAdd(cast[r].id, x), UNCHANGED ask,
         ReleaseThrows(r, x)
  PROVE  OfferInvariant'
<1> DEFINE i == cast[r].id
           s == Offered(r, x)
<1>1. StreamInvariant /\ TypeOK /\ i \in Requests
  BY FieldsTyped DEF OfferInvariant, StreamInvariant, IdsAreKnown, TypeOK
<1>2. s \in SignalerRecords /\ s.id = i /\ s.ready = signaler[x].ready
  <2>1. Got(i, x) \in SignalerRecords /\ Got(i, x).id = i /\ Got(i, x).ready = signaler[x].ready
    BY <1>1, GotOffers
  <2> QED BY <2>1, SignalerUpdates DEF Offered, SignalerRecords
<1>3. /\ signaler' = [signaler EXCEPT ![x] = [s EXCEPT !.disposed = TRUE]]
      /\ cast' = [cast EXCEPT ![r].upload = "failed", ![r].sig = x]
      /\ UNCHANGED read
  BY DEF ReleaseThrows
<1> HIDE DEF s
<1>4. /\ signaler'[x].ready = signaler[x].ready /\ signaler'[x].id = i
      /\ \A y \in Signalers \ {x}: signaler'[y] = signaler[y]
  BY <1>1, <1>2, <1>3 DEF TypeOK, SignalerRecords
<1>5. /\ cast'[r].upload = "failed" /\ cast'[r].sig = x
      /\ \A h \in Requests \ {r}: cast'[h] = cast[h]
  BY <1>1, <1>3 DEF TypeOK, Casts
<1>6. RequestsAreFinite'
  BY DEF OfferInvariant, RequestsAreFinite
<1>7. NewSignalersAreUnused'
  <2> SUFFICES ASSUME NEW y \in Signalers, signaler'[y].id = None
               PROVE  ~signaler'[y].ready /\ \A q \in Requests: read[q].sig # y /\ cast'[q].sig # y
    BY <1>3 DEF NewSignalersAreUnused
  <2>1. y # x
    BY <1>1, <1>4, NoneAssumption
  <2> QED BY <1>4, <1>5, <2>1 DEF OfferInvariant, NewSignalersAreUnused
<1>8. OffersBalance'
  <2>1. \A y \in Signalers: TakenBy(y)' = TakenBy(y) /\ MadeFor(y)' = MadeFor(y)
                            /\ signaler'[y].ready = signaler[y].ready
    BY <1>3, <1>4, <1>5 DEF TakenBy, MadeFor
  <2> QED BY <2>1 DEF OfferInvariant, OffersBalance
<1> QED BY <1>6, <1>7, <1>8 DEF OfferInvariant

\* A new request adds one to those there were.
LEMMA SendScreenCastRequestKeepsOffers ==
  ASSUME OfferInvariant, StreamInvariant', StreamsAreSent', NEW v \in Viewers, NEW r \in Requests,
         SendScreenCastRequest(v, r)
  PROVE  OfferInvariant'
<1>1. /\ TypeOK
      /\ ask' = [ask EXCEPT ![r] = [phase |-> "asking", viewer |-> v]]
      /\ UNCHANGED <<cast, read, signaler>>
  BY DEF SendScreenCastRequest, OfferInvariant, StreamInvariant
<1>2. {q \in Requests: ask'[q].phase # "unused"}
        = {q \in Requests: ask[q].phase # "unused"} \cup {r}
  BY <1>1 DEF TypeOK
<1>3. RequestsAreFinite'
  BY <1>2, FS_AddElement DEF OfferInvariant, RequestsAreFinite
<1>4. NewSignalersAreUnused' /\ OffersBalance'
  BY <1>1 DEF OfferInvariant, NewSignalersAreUnused, OffersBalance, TakenBy, MadeFor
<1> QED BY <1>3, <1>4 DEF OfferInvariant

-----------------------------------------------------------------------------
(* Whose stream is kept and read.                                          *)

\* A stream that was sent stays with its id and its signaler, and the readers
\* and signalers keep what they have: nothing changes in whose stream is whose.
LEMMA SentFrame ==
  ASSUME StreamsAreSent,
         \A c \in Requests: cast[c].upload \in {"held", "ending", "over", "failed"} =>
            /\ cast'[c].upload \in {"held", "ending", "over", "failed"}
            /\ cast'[c].sig = cast[c].sig /\ cast'[c].id = cast[c].id,
         signaler \in [Signalers -> SignalerRecords], read \in [Requests -> Readers],
         \A x \in Signalers: /\ signaler'[x].ready => signaler[x].ready
                             /\ signaler'[x].stream = signaler[x].stream
                             /\ signaler'[x].id = signaler[x].id,
         \A r \in Requests:
            /\ read'[r].sig = read[r].sig
            /\ read'[r].id = read[r].id
            /\ read'[r].source = read[r].source
            /\ read'[r].phase = "woken" => read[r].phase = "woken" /\ read[r].sig \in Signalers
            /\ read'[r].phase \in {"reading", "over"} <=> read[r].phase \in {"reading", "over"}
  PROVE  StreamsAreSent'
<1>1. \A c \in Requests, x \in Signalers \cup {None}: Sent(c, x) => Sent(c, x)' /\ cast'[c].id = cast[c].id
  BY DEF Sent
<1>2. ASSUME NEW x \in Signalers
      PROVE  KeepsSent(x)'
  <2>1. signaler[x].stream \in Requests \cup {None}
    BY FieldsTyped
  <2> QED BY <1>1, <2>1 DEF StreamsAreSent, KeepsSent, ReadsSent, Sent
<1>3. ASSUME NEW r \in Requests
      PROVE  ReadsSent(r)'
  <2>1. read[r].source \in Requests \cup {None} /\ read[r].sig \in Signalers \cup {None}
    BY FieldsTyped DEF Readers
  <2> QED BY <1>1, <2>1 DEF StreamsAreSent, KeepsSent, ReadsSent, Sent
<1> QED BY <1>2, <1>3 DEF StreamsAreSent

\* A reader that is let through at once finds the stream that was offered.
LEMMA GetDesktopStreamKeepsSent ==
  ASSUME OfferInvariant, NEW r \in Requests, NEW x \in Signalers, GetDesktopStream(r, x)
  PROVE  StreamsAreSent'
<1> DEFINE s == Got(streamId, x)
<1>1. /\ StreamInvariant /\ TypeOK /\ PhasesInOrder /\ StreamsAreSent /\ streamId \in Requests
      /\ GetOrAdd(streamId, x) /\ ask[r].phase = "accepted"
  BY DEF GetDesktopStream, OfferInvariant, StreamInvariant, IdsAreKnown, TypeOK
<1>2. /\ s \in SignalerRecords /\ s.id = streamId
      /\ \/ s = signaler[x]
         \/ s.stream = None /\ ~s.ready /\ signaler[x].id = None
  <2>1. s \in SignalerRecords /\ s.id = streamId /\ (cache[streamId] = x => s = signaler[x])
    BY <1>1, GotWorks
  <2>2. CASE cache[streamId] # x
    <3>1. s = NewSignaler(streamId) /\ signaler[x].id = None
      BY <1>1, <2>2 DEF GetOrAdd, Got
    <3> QED BY <2>1, <3>1 DEF NewSignaler
  <2> QED BY <2>1, <2>2
<1>3. /\ signaler' = [signaler EXCEPT ![x] = [s EXCEPT !.ready = FALSE]]
      /\ read' = [read EXCEPT ![r] =
                    [phase |-> IF s.ready THEN "woken" ELSE "waiting",
                     id |-> streamId, sig |-> x, source |-> None]]
      /\ cast' = cast
  BY DEF GetDesktopStream
<1> HIDE DEF s
<1>4. /\ \A y \in Signalers \ {x}: signaler'[y] = signaler[y]
      /\ ~signaler'[x].ready /\ signaler'[x].id = streamId /\ signaler'[x].stream = s.stream
  BY <1>1, <1>2, <1>3 DEF TypeOK, SignalerRecords
<1>5. /\ \A q \in Requests \ {r}: read'[q] = read[q]
      /\ read'[r].phase = (IF s.ready THEN "woken" ELSE "waiting")
      /\ read'[r].sig = x /\ read'[r].id = streamId /\ read'[r].source = None
  BY <1>1, <1>3 DEF TypeOK
<1>6. \A c \in Requests, y \in Signalers \cup {None}: Sent(c, y)' = Sent(c, y)
  BY <1>3 DEF Sent
<1>7. ASSUME NEW y \in Signalers
      PROVE  KeepsSent(y)'
  <2>1. CASE y = x
    BY <1>1, <1>2, <1>3, <1>4, <2>1, NoneAssumption DEF StreamsAreSent, KeepsSent, ReadsSent, Sent
  <2>2. CASE y # x
    BY <1>1, <1>3, <1>4, <2>2 DEF StreamsAreSent, KeepsSent, Sent
  <2> QED BY <2>1, <2>2
<1>8. ASSUME NEW q \in Requests
      PROVE  ReadsSent(q)'
  <2>1. CASE q = r
    BY <1>1, <1>2, <1>4, <1>5, <2>1 DEF StreamsAreSent, KeepsSent, ReadsSent, Sent
  <2>2. CASE q # r
    <3>1. read'[q] = read[q]
      BY <1>5, <2>2
    <3>2. read[q].phase = "woken" => signaler'[read[q].sig].stream # None
      <4> SUFFICES ASSUME read[q].phase = "woken" PROVE signaler'[read[q].sig].stream # None
        OBVIOUS
      <4>1. read[q].sig \in Signalers /\ signaler[read[q].sig].stream # None
        BY <1>1, FieldsTyped DEF StreamInvariant, TypeOK, ReadersMatch, Reading, StreamsAreSent, KeepsSent, ReadsSent, Sent
      <4>2. signaler[x].id = None => read[q].sig # x
        BY DEF OfferInvariant, NewSignalersAreUnused
      <4> QED BY <1>2, <1>4, <4>1, <4>2
    <3> QED BY <1>1, <1>3, <3>1, <3>2 DEF StreamsAreSent, ReadsSent, Sent
  <2> QED BY <2>1, <2>2
<1> QED BY <1>7, <1>8 DEF StreamsAreSent

\* A reader goes on with the stream its signaler keeps.
LEMMA ReadStreamKeepsSent ==
  ASSUME OfferInvariant, NEW r \in Requests, ReadStream(r)
  PROVE  StreamsAreSent'
<1> DEFINE c == signaler[read[r].sig].stream
<1>1. /\ TypeOK /\ StreamsAreSent /\ read[r].phase = "woken"
      /\ read[r].sig \in Signalers /\ signaler[read[r].sig].id = read[r].id
      /\ UNCHANGED <<cast, signaler>>
  BY FieldsTyped DEF ReadStream, OfferInvariant, StreamInvariant, TypeOK, ReadersMatch, Reading
<1>2. c # None /\ Sent(c, read[r].sig) /\ cast[c].id = read[r].id
  BY <1>1 DEF StreamsAreSent, KeepsSent, ReadsSent, Sent
<1>3. /\ \A q \in Requests \ {r}: read'[q] = read[q]
      /\ read'[r].phase = "reading" /\ read'[r].source = c
      /\ read'[r].sig = read[r].sig /\ read'[r].id = read[r].id
  BY <1>1 DEF ReadStream, TypeOK, Readers
<1> HIDE DEF c
<1>4. \A y \in Signalers: KeepsSent(y)'
  BY <1>1 DEF StreamsAreSent, KeepsSent, Sent
<1>5. ASSUME NEW q \in Requests
      PROVE  ReadsSent(q)'
  <2>1. CASE q = r
    BY <1>1, <1>2, <1>3, <2>1 DEF Sent, ReadsSent
  <2>2. CASE q # r
    BY <1>1, <1>3, <2>2 DEF StreamsAreSent, KeepsSent, ReadsSent, Sent
  <2> QED BY <2>1, <2>2
<1> QED BY <1>4, <1>5 DEF StreamsAreSent

\* A handler's stream takes the place of the one its signaler had, whether its
\* release succeeds or throws.
LEMMA SendDesktopStreamKeepsSent ==
  ASSUME OfferInvariant, NEW r \in Requests, NEW x \in Signalers, SendDesktopStream(r, x)
  PROVE  StreamsAreSent'
<1> DEFINE i == cast[r].id
           s == Offered(r, x)
<1>1. /\ StreamInvariant /\ TypeOK /\ StreamsAreSent /\ i \in Requests
      /\ cast[r].upload = "coming" /\ GetOrAdd(i, x)
  BY FieldsTyped DEF SendDesktopStream, OfferInvariant, StreamInvariant, IdsAreKnown, TypeOK
<1>2. s \in SignalerRecords /\ s.id = i /\ s.stream = r
  <2>1. Got(i, x) \in SignalerRecords /\ Got(i, x).id = i
    BY <1>1, GotOffers
  <2> QED BY <2>1, SignalerUpdates DEF Offered, SignalerRecords
<1>3. PICK t \in SignalerRecords, u \in {"held", "ending", "failed"}:
         /\ t.id = i /\ t.stream = r
         /\ signaler' = [signaler EXCEPT ![x] = t]
         /\ cast' = [cast EXCEPT ![r].upload = u, ![r].sig = x]
  <2>1. CASE ReleaseThrows(r, x)
    <3>1. [s EXCEPT !.disposed = TRUE] \in SignalerRecords
          /\ [s EXCEPT !.disposed = TRUE].id = i /\ [s EXCEPT !.disposed = TRUE].stream = r
      <4> HIDE DEF s
      <4> QED BY <1>2 DEF SignalerRecords
    <3> QED BY <2>1, <3>1 DEF ReleaseThrows
  <2>2. CASE \E b \in BOOLEAN: AwaitEnd(r, x, b)
    <3>1. PICK b \in BOOLEAN: AwaitEnd(r, x, b)
      BY <2>2
    <3>2. [s EXCEPT !.ready = b, !.end = FALSE] \in SignalerRecords
          /\ [s EXCEPT !.ready = b, !.end = FALSE].id = i
          /\ [s EXCEPT !.ready = b, !.end = FALSE].stream = r
      <4> HIDE DEF s
      <4> QED BY <1>2 DEF SignalerRecords
    <3> QED BY <3>1, <3>2 DEF AwaitEnd
  <2>3. s.ready \in BOOLEAN
    BY <1>2, FieldsTyped
  <2> QED BY <2>1, <2>2, <2>3 DEF SendDesktopStream, WakeReader, OfferStream
<1>4. /\ cast'[r].upload = u /\ cast'[r].sig = x /\ cast'[r].id = i
      /\ \A h \in Requests \ {r}: cast'[h] = cast[h]
  BY <1>1, <1>3 DEF TypeOK, Casts
<1>5. signaler'[x] = t /\ \A y \in Signalers \ {x}: signaler'[y] = signaler[y]
  BY <1>1, <1>3 DEF TypeOK
<1>6. \A q \in Requests: /\ read'[q].sig = read[q].sig
                         /\ read'[q].id = read[q].id
                         /\ read'[q].source = read[q].source
                         /\ read'[q].phase \in {"reading", "over"} <=> read[q].phase \in {"reading", "over"}
                         /\ read'[q].phase = "woken" =>
                              \/ read[q].phase = "woken" /\ read[q].sig \in Signalers
                              \/ read[q].sig = x
  <2>1. \A q \in Requests: read[q].phase = "woken" => read[q].sig \in Signalers
    BY <1>1, FieldsTyped DEF StreamInvariant, TypeOK, ReadersMatch, Reading
  <2>2. CASE UNCHANGED read
    BY <2>1, <2>2
  <2>3. CASE \E w \in Waiting(x): read' = [read EXCEPT ![w].phase = "woken"]
    <3>1. PICK w \in Requests: /\ read[w].phase = "waiting" /\ read[w].sig = x
                               /\ read' = [read EXCEPT ![w].phase = "woken"]
      BY <2>3 DEF Waiting
    <3> QED BY <1>1, <2>1, <3>1 DEF TypeOK, Readers
  <2> QED BY <2>2, <2>3 DEF SendDesktopStream, WakeReader, OfferStream, ReleaseThrows
<1>7. Sent(r, x)' /\ \A c \in Requests, y \in Signalers \cup {None}:
         Sent(c, y) => c # r /\ Sent(c, y)' /\ cast'[c].id = cast[c].id
  BY <1>1, <1>3, <1>4, NoneAssumption DEF Sent
<1>8. ASSUME NEW y \in Signalers
      PROVE  KeepsSent(y)'
  <2>1. CASE y = x
    <3>1. signaler'[x].stream = r /\ signaler'[x].id = i /\ r # None
      BY <1>3, <1>5, NoneAssumption
    <3>2. Sent(r, x)' /\ cast'[r].id = i
      BY <1>4, <1>7
    <3> QED BY <2>1, <3>1, <3>2 DEF Sent, KeepsSent
  <2>2. CASE y # x
    <3>1. signaler[y].stream \in Requests \cup {None}
      BY <1>1, FieldsTyped DEF TypeOK
    <3> QED BY <1>1, <1>5, <1>7, <2>2, <3>1 DEF StreamsAreSent, KeepsSent, ReadsSent, Sent
  <2> QED BY <2>1, <2>2
<1>9. ASSUME NEW q \in Requests
      PROVE  ReadsSent(q)'
  <2>1. read[q].source \in Requests \cup {None} /\ read[q].sig \in Signalers \cup {None}
    BY <1>1, FieldsTyped DEF TypeOK, Readers
  <2>2. read'[q].phase = "woken" => signaler'[read'[q].sig].stream # None
    BY <1>1, <1>3, <1>5, <1>6, NoneAssumption DEF StreamsAreSent, KeepsSent, ReadsSent, Sent
  <2> QED BY <1>1, <1>6, <1>7, <2>1, <2>2 DEF StreamsAreSent, KeepsSent, ReadsSent, Sent
<1> QED BY <1>8, <1>9 DEF StreamsAreSent

\* Whose stream is kept and read is settled by every step.
LEMMA StreamsAreSentKept ==
  ASSUME OfferInvariant, [Next]_vars
  PROVE  StreamsAreSent'
<1>1. /\ StreamInvariant /\ TypeOK /\ PhasesInOrder /\ StreamsAreSent
      /\ signaler \in [Signalers -> SignalerRecords] /\ read \in [Requests -> Readers]
      /\ \A r \in Requests: read[r].phase \in Reading => read[r].sig \in Signalers
  BY FieldsTyped DEF OfferInvariant, StreamInvariant, TypeOK, ReadersMatch
<1>2. ASSUME NEW r \in Requests, NEW x \in Signalers, GetDesktopStream(r, x) PROVE StreamsAreSent'
  BY <1>2, GetDesktopStreamKeepsSent
<1>3. ASSUME NEW r \in Requests, ReadStream(r) PROVE StreamsAreSent'
  BY <1>3, ReadStreamKeepsSent
<1>4. ASSUME NEW r \in Requests, NEW x \in Signalers, SendDesktopStream(r, x) PROVE StreamsAreSent'
  BY <1>4, SendDesktopStreamKeepsSent
<1>5. ASSUME NEW v \in Viewers, NEW r \in Requests, SendScreenCastRequest(v, r) PROVE StreamsAreSent'
  BY <1>1, <1>5, SentFrame DEF SendScreenCastRequest, Reading
<1>6. ASSUME NEW r \in Requests, GetScreenCast(r) PROVE StreamsAreSent'
  <2>1. /\ UNCHANGED <<read, signaler>> /\ cast[r].upload = "none"
        /\ cast' = [cast EXCEPT ![r].desk = "told", ![r].id = streamId]
    BY <1>1, <1>6 DEF GetScreenCast, PhasesInOrder
  <2>2. \A c \in Requests: cast[c].upload # "none" =>
           cast'[c].upload = cast[c].upload /\ cast'[c].sig = cast[c].sig /\ cast'[c].id = cast[c].id
    BY <1>1, <2>1 DEF TypeOK, Casts
  <2> QED BY <1>1, <2>1, <2>2, SentFrame DEF Reading
<1>7. ASSUME NEW r \in Requests, WaitTimesOut(r) PROVE StreamsAreSent'
  <2>1. \A q \in Requests: /\ read'[q].sig = read[q].sig
                           /\ read'[q].id = read[q].id
                           /\ read'[q].source = read[q].source
                           /\ read'[q].phase = "woken" => read[q].phase = "woken"
                           /\ read'[q].phase \in {"reading", "over"} <=> read[q].phase \in {"reading", "over"}
    BY <1>1, <1>7 DEF WaitTimesOut, Readers
  <2> QED BY <1>1, <1>7, <2>1, SentFrame DEF WaitTimesOut, Reading
<1>8. ASSUME NEW r \in Requests, StopReading(r) PROVE StreamsAreSent'
  <2>1. read[r].sig \in Signalers /\ ReleaseEndSignal(read[r].sig)
    BY <1>1, <1>8 DEF StopReading, Reading
  <2>2. \A q \in Requests: /\ read'[q].sig = read[q].sig
                           /\ read'[q].id = read[q].id
                           /\ read'[q].source = read[q].source
                           /\ read'[q].phase = "woken" => read[q].phase = "woken"
                           /\ read'[q].phase \in {"reading", "over"} <=> read[q].phase \in {"reading", "over"}
    BY <1>1, <1>8 DEF StopReading, Readers
  <2>3. \A y \in Signalers: /\ signaler'[y].ready = signaler[y].ready
                            /\ signaler'[y].stream = signaler[y].stream
                            /\ signaler'[y].id = signaler[y].id
    BY <1>1, <2>1 DEF ReleaseEndSignal, SignalerRecords
  <2>4. \A c \in Requests: cast[c].upload \in {"held", "ending", "over", "failed"} =>
           /\ cast'[c].upload \in {"held", "ending", "over", "failed"}
           /\ cast'[c].sig = cast[c].sig /\ cast'[c].id = cast[c].id
    <3>1. CASE UNCHANGED cast
      BY <3>1
    <3>2. CASE \E h \in Holding(read[r].sig): cast' = [cast EXCEPT ![h].upload = "ending"]
      <4>1. PICK h \in Requests: cast' = [cast EXCEPT ![h].upload = "ending"]
        BY <3>2 DEF Holding
      <4> QED BY <1>1, <4>1 DEF TypeOK, Casts
    <3> QED BY <2>1, <3>1, <3>2 DEF ReleaseEndSignal
  <2> QED BY <1>1, <2>2, <2>3, <2>4, SentFrame DEF Reading
<1>9. ASSUME NEW v \in Viewers, ViewerLeaves(v) PROVE StreamsAreSent'
  <2>1. UNCHANGED <<read, signaler>>
    BY <1>9 DEF ViewerLeaves
  <2>2. \A c \in Requests: cast'[c].sig = cast[c].sig /\ cast'[c].upload = cast[c].upload
                           /\ cast'[c].id = cast[c].id
    <3>1. CASE shown[v] = None
      BY <1>9, <3>1 DEF ViewerLeaves
    <3>2. CASE shown[v] # None
      <4>1. shown[v] \in Requests
        BY <1>1, <3>2 DEF TypeOK
      <4> DEFINE d == cast'[shown[v]].desk
      <4>2. cast' = [cast EXCEPT ![shown[v]].desk = d]
        BY <1>1, <1>9, <3>2, <4>1 DEF ViewerLeaves, TypeOK, Casts
      <4> HIDE DEF d
      <4> QED BY <1>1, <4>1, <4>2 DEF TypeOK, Casts
    <3> QED BY <3>1, <3>2
  <2> QED BY <1>1, <2>1, <2>2, SentFrame DEF Reading
<1>10. ASSUME NEW r \in Requests,
              \/ BeginScreenCasting(r) \/ StreamCompletes(r)
              \/ EndScreenCasting(r) \/ RemoveSignaler(r)
       PROVE  StreamsAreSent'
  <2>1. read' = read
    BY <1>10 DEF BeginScreenCasting, StreamCompletes, EndScreenCasting, RemoveSignaler
  <2>2. \A y \in Signalers: /\ signaler'[y].ready = signaler[y].ready
                            /\ signaler'[y].stream = signaler[y].stream
                            /\ signaler'[y].id = signaler[y].id
    <3>1. CASE RemoveSignaler(r)
      BY <1>1, <3>1 DEF RemoveSignaler, SignalerRecords
    <3>2. CASE signaler' = signaler
      BY <3>2
    <3> QED BY <1>10, <3>1, <3>2 DEF BeginScreenCasting, StreamCompletes, EndScreenCasting
  <2>3. \A c \in Requests: cast[c].upload \in {"held", "ending", "over", "failed"} =>
           /\ cast'[c].upload \in {"held", "ending", "over", "failed"}
           /\ cast'[c].sig = cast[c].sig /\ cast'[c].id = cast[c].id
    <3>1. CASE BeginScreenCasting(r)
      <4>1. cast[r].upload = "none"
        BY <1>1, <3>1 DEF BeginScreenCasting, PhasesInOrder
      <4> QED BY <1>1, <3>1, <4>1 DEF BeginScreenCasting, TypeOK, Casts
    <3>2. CASE StreamCompletes(r)
      BY <1>1, <3>2 DEF StreamCompletes, TypeOK, Casts
    <3>3. CASE EndScreenCasting(r)
      BY <1>1, <3>3 DEF EndScreenCasting, TypeOK, Casts
    <3>4. CASE RemoveSignaler(r)
      BY <1>1, <3>4 DEF RemoveSignaler, TypeOK, Casts
    <3> QED BY <1>10, <3>1, <3>2, <3>3, <3>4
  <2> QED BY <1>1, <2>1, <2>2, <2>3, SentFrame DEF Reading
<1>11. CASE UNCHANGED vars
  BY <1>1, <1>11, SentFrame DEF vars, Reading
<1> QED BY <1>2, <1>3, <1>4, <1>5, <1>6, <1>7, <1>8, <1>9, <1>10, <1>11
        DEF Next, ViewerHub, DesktopHub

\* Two readers of one stream were woken by two offers, of which the stream is
\* one at most.
LEMMA SharedStreamWasReplaced ==
  ASSUME OfferInvariant
  PROVE  ReadersGetTheirStream
<1> SUFFICES ASSUME NEW r \in Requests, read[r].phase \in {"reading", "over"}
             PROVE  /\ read[r].source # None
                    /\ cast[read[r].source].id = read[r].id
                    /\ \A q \in Requests \ {r}: read[q].source = read[r].source =>
                          \E other \in MadeFor(read[r].sig): other # read[r].source
  BY DEF ReadersGetTheirStream
<1> DEFINE c == read[r].source
           x == read[r].sig
<1>1. c # None /\ Sent(c, x) /\ cast[c].id = read[r].id
  BY DEF OfferInvariant, StreamsAreSent, KeepsSent, ReadsSent, Sent
<1>2. c \in Requests /\ x \in Signalers
  <2>1. c \in Requests \cup {None} /\ x \in Signalers \cup {None} /\ cast[c] \in Casts
    BY <1>1, FieldsTyped DEF OfferInvariant, StreamInvariant, TypeOK, Readers
  <2>2. x # None
    BY <1>1 DEF Sent
  <2> QED BY <1>1, <2>1, <2>2
<1>3. ASSUME NEW q \in Requests \ {r}, read[q].source = c
      PROVE  \E other \in MadeFor(x): other # c
  <2>1. read[q].phase \in {"reading", "over"} /\ Sent(c, read[q].sig)
    BY <1>1, <1>3 DEF OfferInvariant, StreamsAreSent, KeepsSent, ReadsSent, Sent
  <2>2. read[q].sig = x
    BY <1>1, <2>1 DEF Sent
  <2>3. {r, q} \subseteq TakenBy(x)
    BY <2>1, <2>2 DEF TakenBy
  <2>4. Cardinality({r, q}) = 2 /\ IsFiniteSet({r, q})
    <3>1. IsFiniteSet({r}) /\ Cardinality({r}) = 1
      BY FS_Singleton
    <3>2. {r, q} = {r} \cup {q} /\ q \notin {r}
      OBVIOUS
    <3> QED BY <3>1, <3>2, FS_AddElement
  <2>5. 2 <= Cardinality(TakenBy(x)) /\ Cardinality(TakenBy(x)) \in Nat
    BY <1>2, <2>3, <2>4, OffersAreFinite, FS_Subset
  <2>6. Cardinality(MadeFor(x)) # 1
    <3> DEFINE n == IF signaler[x].ready THEN 1 ELSE 0
               k == Cardinality(TakenBy(x))
    <3>1. k + n = Cardinality(MadeFor(x)) /\ n \in {0, 1}
      BY <1>2 DEF OfferInvariant, OffersBalance
    <3>2. k \in Nat /\ 2 <= k
      BY <2>5
    <3> HIDE DEF k, n
    <3> QED BY <3>1, <3>2
  <2>7. MadeFor(x) # {}
    <3>1. SUFFICES ASSUME MadeFor(x) = {} PROVE FALSE
      OBVIOUS
    <3> DEFINE n == IF signaler[x].ready THEN 1 ELSE 0
               k == Cardinality(TakenBy(x))
    <3>2. k + n = 0 /\ n \in {0, 1}
      BY <1>2, <3>1, FS_EmptySet DEF OfferInvariant, OffersBalance
    <3>3. k \in Nat /\ 2 <= k
      BY <2>5
    <3> HIDE DEF k, n
    <3> QED BY <3>2, <3>3
  <2>8. MadeFor(x) # {c}
    BY <2>6, FS_Singleton
  <2> QED BY <2>7, <2>8
<1> QED BY <1>1, <1>3

\* OfferInvariant is inductive.
LEMMA OfferInvariantKept ==
  ASSUME OfferInvariant, [Next]_vars
  PROVE  OfferInvariant'
<1>1. /\ StreamInvariant /\ StreamInvariant' /\ TypeOK /\ PhasesInOrder
      /\ StreamsAreSent'
  BY StreamInvariantKept, StreamsAreSentKept DEF OfferInvariant, StreamInvariant
<1>2. ASSUME NEW v \in Viewers, NEW r \in Requests, SendScreenCastRequest(v, r)
      PROVE  OfferInvariant'
  BY <1>1, <1>2, SendScreenCastRequestKeepsOffers
<1>3. ASSUME NEW r \in Requests, NEW x \in Signalers, GetDesktopStream(r, x)
      PROVE  OfferInvariant'
  BY <1>1, <1>3, GetDesktopStreamKeepsOffers
<1>4. ASSUME NEW r \in Requests, NEW x \in Signalers, SendDesktopStream(r, x)
      PROVE  OfferInvariant'
  BY <1>1, <1>4, OfferMade, ReleaseThrowsKeepsOffers DEF SendDesktopStream
<1>5. ASSUME NEW r \in Requests, GetScreenCast(r) PROVE OfferInvariant'
  <2>1. UNCHANGED <<read, signaler>>
    BY <1>5 DEF GetScreenCast
  <2>2. \A q \in Requests: ask'[q].phase # "unused" <=> ask[q].phase # "unused"
    BY <1>1, <1>5 DEF GetScreenCast, TypeOK, Asks
  <2>3. \A q \in Requests: cast'[q].sig = cast[q].sig /\ cast'[q].upload = cast[q].upload
    BY <1>1, <1>5 DEF GetScreenCast, TypeOK, Casts
  <2> QED BY <1>1, <2>1, <2>2, <2>3, OffersFrame
<1>6. ASSUME NEW r \in Requests, ReadStream(r) \/ WaitTimesOut(r) PROVE OfferInvariant'
  <2>1. UNCHANGED <<ask, cast, signaler>>
    BY <1>6 DEF ReadStream, WaitTimesOut
  <2>2. \A q \in Requests: /\ read'[q].sig = read[q].sig
                           /\ read'[q].phase \in {"woken", "reading", "over"}
                                <=> read[q].phase \in {"woken", "reading", "over"}
    BY <1>1, <1>6 DEF ReadStream, WaitTimesOut, TypeOK, Readers
  <2> QED BY <1>1, <2>1, <2>2, OffersFrame
<1>7. ASSUME NEW r \in Requests, StopReading(r) PROVE OfferInvariant'
  <2>1. UNCHANGED ask /\ read[r].sig \in Signalers /\ ReleaseEndSignal(read[r].sig)
    BY <1>1, <1>7, FieldsTyped DEF StopReading, StreamInvariant, TypeOK, ReadersMatch, Reading
  <2>2. \A q \in Requests: /\ read'[q].sig = read[q].sig
                           /\ read'[q].phase \in {"woken", "reading", "over"}
                                <=> read[q].phase \in {"woken", "reading", "over"}
    BY <1>1, <1>7 DEF StopReading, TypeOK, Readers
  <2>3. \A y \in Signalers: signaler'[y].ready = signaler[y].ready /\ signaler'[y].id = signaler[y].id
    BY <1>1, <2>1, EndSignalReleased
  <2>4. \A q \in Requests: /\ cast'[q].sig = cast[q].sig
                           /\ cast'[q].upload \in {"held", "ending", "over"}
                                <=> cast[q].upload \in {"held", "ending", "over"}
    <3>1. CASE UNCHANGED cast
      BY <3>1
    <3>2. CASE \E h \in Holding(read[r].sig): cast' = [cast EXCEPT ![h].upload = "ending"]
      <4>1. PICK h \in Requests: /\ cast[h].upload = "held"
                                 /\ cast' = [cast EXCEPT ![h].upload = "ending"]
        BY <3>2 DEF Holding
      <4> QED BY <1>1, <4>1 DEF TypeOK, Casts
    <3> QED BY <2>1, <3>1, <3>2 DEF ReleaseEndSignal
  <2> QED BY <1>1, <2>1, <2>2, <2>3, <2>4, OffersFrame
<1>8. ASSUME NEW v \in Viewers, ViewerLeaves(v) PROVE OfferInvariant'
  <2>1. UNCHANGED <<ask, read, signaler>>
    BY <1>8 DEF ViewerLeaves
  <2>2. \A q \in Requests: cast'[q].sig = cast[q].sig /\ cast'[q].upload = cast[q].upload
    <3>1. CASE shown[v] = None
      <4>1. cast' = cast
        BY <1>8, <3>1 DEF ViewerLeaves
      <4> QED BY <4>1
    <3>2. CASE shown[v] # None
      <4>1. shown[v] \in Requests
        BY <1>1, <3>2 DEF TypeOK
      <4> DEFINE d == cast'[shown[v]].desk
      <4>2. cast' = [cast EXCEPT ![shown[v]].desk = d]
        BY <1>1, <1>8, <3>2, <4>1 DEF ViewerLeaves, TypeOK, Casts
      <4> HIDE DEF d
      <4> QED BY <1>1, <4>1, <4>2 DEF TypeOK, Casts
    <3> QED BY <3>1, <3>2
  <2> QED BY <1>1, <2>1, <2>2, OffersFrame
<1>9. ASSUME NEW r \in Requests,
             BeginScreenCasting(r) \/ StreamCompletes(r) \/ EndScreenCasting(r)
      PROVE  OfferInvariant'
  <2>1. UNCHANGED <<ask, read, signaler>>
    BY <1>9 DEF BeginScreenCasting, StreamCompletes, EndScreenCasting
  <2>2. CASE BeginScreenCasting(r)
    <3>1. cast[r].upload = "none"
      BY <1>1, <2>2 DEF BeginScreenCasting, PhasesInOrder
    <3>2. \A q \in Requests: /\ cast'[q].sig = cast[q].sig
                             /\ cast'[q].upload \in {"held", "ending", "over"}
                                  <=> cast[q].upload \in {"held", "ending", "over"}
      BY <1>1, <2>2, <3>1 DEF BeginScreenCasting, TypeOK, Casts
    <3> QED BY <1>1, <2>1, <3>2, OffersFrame
  <2>3. CASE StreamCompletes(r) \/ EndScreenCasting(r)
    <3> DEFINE d == cast'[r].desk
    <3>1. cast' = [cast EXCEPT ![r].desk = d]
      <4>1. CASE StreamCompletes(r)
        BY <1>1, <4>1 DEF StreamCompletes, TypeOK, Casts
      <4>2. CASE EndScreenCasting(r)
        BY <1>1, <4>2 DEF EndScreenCasting, TypeOK, Casts
      <4> QED BY <2>3, <4>1, <4>2
    <3> HIDE DEF d
    <3>2. \A q \in Requests: cast'[q].sig = cast[q].sig /\ cast'[q].upload = cast[q].upload
      BY <1>1, <3>1 DEF TypeOK, Casts
    <3> QED BY <1>1, <2>1, <3>2, OffersFrame
  <2> QED BY <1>9, <2>2, <2>3
<1>10. ASSUME NEW r \in Requests, RemoveSignaler(r) PROVE OfferInvariant'
  <2>1. UNCHANGED <<ask, read>> /\ cast[r].upload \in {"held", "ending"}
    BY <1>10 DEF RemoveSignaler
  <2>2. \A q \in Requests: /\ cast'[q].sig = cast[q].sig
                           /\ cast'[q].upload \in {"held", "ending", "over"}
                                <=> cast[q].upload \in {"held", "ending", "over"}
    BY <1>1, <1>10, <2>1 DEF RemoveSignaler, TypeOK, Casts
  <2>3. \A y \in Signalers: signaler'[y].ready = signaler[y].ready /\ signaler'[y].id = signaler[y].id
    BY <1>1, <1>10 DEF RemoveSignaler, TypeOK, SignalerRecords
  <2> QED BY <1>1, <2>1, <2>2, <2>3, OffersFrame
<1>11. CASE UNCHANGED vars
  BY <1>1, <1>11, OffersFrame DEF vars
<1> QED BY <1>2, <1>3, <1>4, <1>5, <1>6, <1>7, <1>8, <1>9, <1>10, <1>11
        DEF Next, ViewerHub, DesktopHub

-----------------------------------------------------------------------------
(* The theorems. *)

\* The invariant holds when nobody has asked yet.
LEMMA InitStreamInvariant ==
  ASSUME Init
  PROVE  StreamInvariant
<1>1. TypeOK
  BY DEF Init, TypeOK, Asks, Casts, Readers, SignalerRecords, NewSignaler
<1>2. PhasesInOrder /\ IdsAreKnown /\ HandlersMatch /\ ReadersMatch
  BY DEF Init, PhasesInOrder, IdsAreKnown, HandlersMatch, ReadersMatch, Serving, Reading
<1>3. OffersHaveHandlers
  BY DEF Init, OffersHaveHandlers, NewSignaler
<1>4. SignalersHaveUsers /\ CachedSignalersWork
  BY DEF Init, SignalersHaveUsers, CachedSignalersWork
<1> QED BY <1>1, <1>2, <1>3, <1>4 DEF StreamInvariant

\* Handlers, readers, signalers and the cache belong together, for any number
\* of viewers, requests and signalers.
THEOREM StreamsAreConsistent == Spec => []StreamInvariant
<1> QED BY InitStreamInvariant, StreamInvariantKept, PTL DEF Spec

\* Whoever gets a signaler from the cache can wait for it and release it.
THEOREM CachedSignalersCanBeUsed == Spec => []CachedSignalersWork
<1>1. StreamInvariant => CachedSignalersWork BY DEF StreamInvariant
<1> QED BY <1>1, StreamsAreConsistent, PTL

\* No signaler stays in the cache when its handlers and readers are done,
\* unless a reader gave up on it.
THEOREM SignalersAreRemoved == Spec => []SignalersHaveUsers
<1>1. StreamInvariant => SignalersHaveUsers BY DEF StreamInvariant
<1> QED BY <1>1, StreamsAreConsistent, PTL

\* The offers and their takers agree, for any number of viewers, requests and
\* signalers; only finitely many requests were made.
THEOREM OffersAreConsistent == Spec => []OfferInvariant
<1>1. ASSUME Init PROVE OfferInvariant
  <2>1. StreamInvariant
    BY <1>1, InitStreamInvariant
  <2>2. RequestsAreFinite
    <3>1. {r \in Requests: ask[r].phase # "unused"} = {}
      BY <1>1 DEF Init
    <3> QED BY <3>1, FS_EmptySet DEF RequestsAreFinite
  <2>3. NewSignalersAreUnused
    BY <1>1, NoneAssumption DEF Init, NewSignalersAreUnused, NewSignaler
  <2>4. OffersBalance
    <3>1. \A x \in Signalers: TakenBy(x) = {} /\ MadeFor(x) = {} /\ ~signaler[x].ready
      BY <1>1 DEF Init, TakenBy, MadeFor, NewSignaler
    <3> QED BY <3>1, FS_EmptySet DEF OffersBalance
  <2>5. StreamsAreSent
    BY <1>1, NoneAssumption DEF Init, StreamsAreSent, KeepsSent, ReadsSent, NewSignaler
  <2> QED BY <2>1, <2>2, <2>3, <2>4, <2>5 DEF OfferInvariant
<1> QED BY <1>1, OfferInvariantKept, PTL DEF Spec

\* A reader that is let through has a stream of its id, and shares it only
\* where a second stream was sent through the signaler.
THEOREM ReadersAlwaysGetTheirStream == Spec => []ReadersGetTheirStream
<1> QED BY OffersAreConsistent, SharedStreamWasReplaced, PTL

=============================================================================
