-------------------- MODULE RemoteControlSessionsProofs --------------------
(***************************************************************************)
(* Theorems about RemoteControlSessions, for every value of its constants: *)
(* its type invariant; that nobody is handed another session than the one  *)
(* whose key it asked for (the first half, by KeyInvariant); and that      *)
(* consent, lists of viewers, ready signals and modes stay right when      *)
(* sessions are cloned, relaunched and disposed (the second half, by       *)
(* SessionInvariant, which needs KeyInvariant); and what no step does to a *)
(* session (SessionsKeepTheirPlace, at the end).                           *)
(***************************************************************************)
EXTENDS RemoteControlSessions, TLAPS

-----------------------------------------------------------------------------
(* What an update of one field does to the records of the specification. *)

\* The fields of a session object have their types, and can be set.
LEMMA SessionFields ==
  ASSUME NEW r \in SessionRecords
  PROVE  /\ r.key \in Keys \cup {None}
         /\ r.signal \in Sessions
         /\ r.viewers \in SUBSET Viewers
         /\ r.desktop \in Desktops \cup {None}
         /\ r.agent \in BOOLEAN
         /\ r.device \in BOOLEAN
         /\ r.access \in BOOLEAN
         /\ \A x \in Modes: [r EXCEPT !.mode = x] \in SessionRecords
         /\ \A x \in Keys \cup {None}: [r EXCEPT !.key = x] \in SessionRecords
         /\ \A x \in SUBSET Viewers: [r EXCEPT !.viewers = x] \in SessionRecords
         /\ \A x \in Desktops \cup {None}:
              [r EXCEPT !.desktop = x] \in SessionRecords
         /\ \A x \in StreamerStates: [r EXCEPT !.streamer = x] \in SessionRecords
         /\ \A x \in BOOLEAN: [r EXCEPT !.agent = x] \in SessionRecords
         /\ \A x \in BOOLEAN: [r EXCEPT !.disposed = x] \in SessionRecords
         /\ \A x \in BOOLEAN: [r EXCEPT !.requireConsent = x] \in SessionRecords
  BY DEF SessionRecords

ViewerPhases == {"off", "requesting", "found", "admitted", "attending",
                 "prompting", "casting", "offered", "watching", "idle", "leaving",
                 "gone"}

\* The fields of a viewer have their types, and can be set.
LEMMA ViewerFields ==
  ASSUME NEW r \in ViewerRecords
  PROVE  /\ r.key \in Keys \cup {None}
         /\ r.found \in Sessions \cup {None}
         /\ r.session \in Sessions \cup {None}
         /\ r.prompt \in Desktops \cup {None}
         /\ r.access \in BOOLEAN
         /\ r.attends \in BOOLEAN
         /\ \A x \in ViewerPhases: [r EXCEPT !.phase = x] \in ViewerRecords
         /\ \A x \in Keys \cup {None}: [r EXCEPT !.key = x] \in ViewerRecords
         /\ \A x \in Sessions \cup {None}: [r EXCEPT !.found = x] \in ViewerRecords
         /\ \A x \in Sessions \cup {None}:
              [r EXCEPT !.session = x] \in ViewerRecords
         /\ \A x \in Desktops \cup {None}: [r EXCEPT !.prompt = x] \in ViewerRecords
  BY DEF ViewerRecords, ViewerPhases

DesktopPhases == {"off", "starting", "cleared", "adopting", "registered",
                  "serving", "closing", "lost"}

\* The fields of a desktop process have their types, and can be set.
LEMMA DesktopFields ==
  ASSUME NEW r \in DesktopRecords
  PROVE  /\ r.phase \in DesktopPhases
         /\ r.key \in Keys \cup {None}
         /\ r.session \in Sessions \cup {None}
         /\ r.viewers \in SUBSET Viewers
         /\ r.cast \in SUBSET Viewers
         /\ r.left \in SUBSET Viewers
         /\ \A x \in DesktopPhases: [r EXCEPT !.phase = x] \in DesktopRecords
         /\ \A x \in Sessions \cup {None}:
              [r EXCEPT !.session = x] \in DesktopRecords
         /\ \A x \in SUBSET Viewers: [r EXCEPT !.viewers = x] \in DesktopRecords
         /\ \A x \in SUBSET Viewers: [r EXCEPT !.cast = x] \in DesktopRecords
         /\ \A x \in SUBSET Viewers: [r EXCEPT !.left = x] \in DesktopRecords
         /\ \A x \in BOOLEAN: [r EXCEPT !.relaunch = x] \in DesktopRecords
  BY DEF DesktopRecords, DesktopPhases

\* The fields of a console's request have their types, and its phase can be set.
LEMMA RequestFields ==
  ASSUME NEW r \in Requests
  PROVE  /\ r.session \in Sessions \cup {None}
         /\ r.shown \in SUBSET BOOLEAN
         /\ r.phase # "unused" => r.session \in Sessions
         /\ \A y \in SUBSET BOOLEAN: [r EXCEPT !.shown = y] \in Requests
         /\ \A x \in {"waiting", "ready", "over", "cloned"}:
              r.phase # "unused" => [r EXCEPT !.phase = x] \in Requests
         /\ \A x \in {"waiting", "ready", "over", "cloned"}, y \in SUBSET BOOLEAN:
              r.phase # "unused" => [r EXCEPT !.phase = x, !.shown = y] \in Requests
  BY DEF Requests

\* What the server sends an agent is a command of the agent's queue.
LEMMA CommandType ==
  ASSUME NEW k \in Keys, NEW access \in BOOLEAN, NEW vs \in SUBSET Viewers
  PROVE  Launch(k) \in Commands /\ Relaunch(k, access, vs) \in Commands
  BY DEF Launch, Relaunch, Commands

\* A relaunch for an object that has a key is one.
LEMMA RelaunchType ==
  ASSUME NEW s \in Sessions, session[s] \in SessionRecords, session[s].key \in Keys
  PROVE  RelaunchOf(s) \in Commands
BY CommandType, SessionFields DEF RelaunchOf

\* A session object just created has its type.
LEMMA NewSessionType ==
  ASSUME NEW s \in Sessions
  PROVE  NewSession(s) \in SessionRecords
  BY DEF NewSession, SessionRecords, Modes, StreamerStates

\* A desktop and a viewer that do not run have their types.
LEMMA EmptyRecordsType == NoDesktop \in DesktopRecords /\ NoViewer \in ViewerRecords
  BY DEF NoDesktop, NoViewer, DesktopRecords, ViewerRecords

-----------------------------------------------------------------------------
(* Most steps leave alone which object is known under which key: the cache  *)
(* can only lose entries, an object keeps its key, and a desktop process    *)
(* moves on with the object it holds or ends.                               *)

KeepsSkeleton ==
    /\ \A k \in Keys: cache'[k] \in {cache[k], None}
    /\ \A s \in Sessions:
         /\ session'[s].key = session[s].key
         /\ Unused(s)' = Unused(s)
         /\ session'[s].mode = "unattended" => session[s].mode = "unattended"
    /\ \A d \in Desktops:
         \/ /\ desktop[d].phase # "adopting"
            /\ desktop'[d].phase = "off"
            /\ desktop'[d].session = None
         \/ /\ desktop'[d].key = desktop[d].key
            /\ desktop'[d].session = desktop[d].session
            /\ \/ desktop'[d].phase = desktop[d].phase
               \/ /\ desktop[d].phase \in {"registered", "serving", "closing"}
                  /\ desktop'[d].phase \in {"serving", "closing", "lost"}
               \/ /\ desktop[d].phase = "starting"
                  /\ desktop'[d].phase \in {"cleared", "lost"}

\* A step that keeps the skeleton keeps what relates cache, objects and desktops.
LEMMA SkeletonKept ==
  ASSUME KeyInvariant, KeepsSkeleton, TypeOK'
  PROVE  ObjectReferences' /\ OneKeyPerObject' /\ KeyedOnceAdopted'
<1> USE NoneAssumption DEF KeyInvariant, KeepsSkeleton, NoneAssumption
<1>1. /\ cache \in [Keys -> Sessions \cup {None}]
      /\ \A d \in Desktops: desktop[d].session \in Sessions \cup {None}
      /\ \A d \in Desktops: Holds(d)' =>
           /\ Holds(d)
           /\ desktop'[d].session = desktop[d].session
           /\ desktop'[d].key = desktop[d].key
  BY DesktopFields DEF TypeOK, Holds
<1>2. ObjectReferences'
  BY <1>1 DEF ObjectReferences, Holds, Unused
<1>3. OneKeyPerObject'
  BY <1>1 DEF OneKeyPerObject, Holds
<1>4. KeyedOnceAdopted'
  BY <1>1 DEF KeyedOnceAdopted, ObjectReferences, Holds
<1> QED BY <1>2, <1>3, <1>4

\* With the viewers' references kept as well, such a step keeps the invariant.
LEMMA Kept ==
  ASSUME KeyInvariant, KeepsSkeleton, TypeOK', ViewerReferences'
  PROVE  KeyInvariant'
BY SkeletonKept DEF KeyInvariant

\* Viewers that do not move keep their references when the skeleton is kept.
LEMMA ViewersKept ==
  ASSUME KeyInvariant, KeepsSkeleton, viewer' = viewer
  PROVE  ViewerReferences'
<1>1. \A v \in Viewers: /\ viewer[v].session \in Sessions \cup {None}
                        /\ viewer[v].found \in Sessions \cup {None}
  BY ViewerFields DEF KeyInvariant, TypeOK
<1> QED BY <1>1 DEF KeyInvariant, KeepsSkeleton, ViewerReferences

(* A viewer that goes on with the references it has, or is gone. *)
GoesOn(v) ==
    /\ viewer[v].phase # "off"
    /\ viewer'[v].key = viewer[v].key
    /\ viewer'[v].session = viewer[v].session
    /\ viewer'[v].found = viewer[v].found
    /\ viewer'[v].phase \notin {"found", "admitted", "attending", "prompting"}
    /\ viewer'[v].attends => viewer[v].attends /\ viewer'[v].phase = "leaving"
    /\ viewer'[v].phase \in {"casting", "offered", "watching"} =>
         viewer[v].phase \in {"attending", "prompting", "casting", "offered",
                              "watching"}
    /\ viewer'[v].prompt # None => /\ viewer[v].prompt # None
                                   /\ viewer'[v].phase \in {"leaving", "gone"}

\* So do viewers that stay, leave, or go on with the references they had.
LEMMA ViewersGoOn ==
  ASSUME KeyInvariant, KeepsSkeleton,
         \A v \in Viewers: \/ viewer'[v] = viewer[v]
                           \/ viewer'[v] = NoViewer
                           \/ GoesOn(v)
  PROVE  ViewerReferences'
<1>1. \A v \in Viewers: /\ viewer[v].session \in Sessions \cup {None}
                        /\ viewer[v].found \in Sessions \cup {None}
  BY ViewerFields DEF KeyInvariant, TypeOK
<1>2. \A s \in Sessions: session[s].mode # "unused" => session'[s].mode # "unused"
  BY DEF KeepsSkeleton, Unused
<1>3. ViewerReferences
  BY DEF KeyInvariant
<1>4. /\ NoViewer.phase = "off" /\ NoViewer.session = None
      /\ NoViewer.found = None /\ NoViewer.prompt = None /\ ~NoViewer.attends
  BY DEF NoViewer
<1>5. ASSUME NEW v \in Viewers
      PROVE  /\ viewer'[v].phase # "off" => viewer'[v].key \in Keys
             /\ viewer'[v].session # None =>
                  session'[viewer'[v].session].mode # "unused"
             /\ viewer'[v].found # None =>
                  session'[viewer'[v].found].mode # "unused"
             /\ viewer'[v].phase \in {"found", "admitted"} => viewer'[v].found # None
             /\ viewer'[v].phase \in {"attending", "prompting", "casting", "offered",
                                      "watching"}
                  => viewer'[v].session # None
             /\ viewer'[v].phase = "attending" => viewer'[v].attends
             /\ viewer'[v].attends =>
                  /\ viewer'[v].phase \in {"attending", "leaving"}
                  /\ viewer'[v].session # None
             /\ viewer'[v].prompt # None =>
                  /\ viewer'[v].phase \in {"prompting", "leaving", "gone"}
                  /\ viewer'[v].session # None
  <2>1. CASE viewer'[v] = viewer[v]
    BY <1>1, <1>2, <1>3, <2>1 DEF ViewerReferences, Unused
  <2>2. CASE viewer'[v] = NoViewer
    BY <1>4, <2>2
  <2>3. CASE GoesOn(v)
    BY <1>1, <1>2, <1>3, <2>3 DEF ViewerReferences, Unused, GoesOn
  <2> QED BY <2>1, <2>2, <2>3
<1> QED BY <1>5 DEF ViewerReferences, Unused

\* A registered desktop holds an object, and the object has a key.
LEMMA HeldKeys ==
  ASSUME KeyInvariant, NEW d \in Desktops,
         desktop[d].phase \in {"registered", "serving", "closing"}
  PROVE  /\ desktop[d].session \in Sessions
         /\ session[desktop[d].session].key \in Keys
<1>1. /\ desktop[d].session \in Sessions \cup {None}
      /\ \A s \in Sessions: session[s].key \in Keys \cup {None}
  BY DesktopFields, SessionFields DEF KeyInvariant, TypeOK
<1> QED BY <1>1 DEF KeyInvariant, ObjectReferences, KeyedOnceAdopted, Holds

\* A viewer past its request, or with a prompt open, holds an object.
LEMMA ViewerHolds ==
  ASSUME KeyInvariant, NEW v \in Viewers,
         \/ viewer[v].phase \in {"attending", "prompting", "casting", "offered",
                                 "watching"}
         \/ viewer[v].attends
         \/ viewer[v].prompt # None
  PROVE  viewer[v].session \in Sessions
<1>1. viewer[v].session \in Sessions \cup {None}
  BY ViewerFields DEF KeyInvariant, TypeOK
<1> QED BY <1>1 DEF KeyInvariant, ViewerReferences

\* A viewer whose prompt has been answered has its type.
LEMMA AnsweredType ==
  ASSUME KeyInvariant, NEW v \in Viewers, NEW p \in ViewerPhases
  PROVE  Answered(v, p) \in ViewerRecords
<1>1. viewer[v] \in ViewerRecords
  BY DEF KeyInvariant, TypeOK
<1>2. /\ [viewer[v] EXCEPT !.phase = p, !.prompt = None] \in ViewerRecords
      /\ [viewer[v] EXCEPT !.prompt = None] \in ViewerRecords
  BY <1>1 DEF ViewerRecords, ViewerPhases
<1>3. NoViewer \in ViewerRecords
  BY DEF NoViewer, ViewerRecords
<1> QED BY <1>2, <1>3 DEF Answered

\* A viewer whose prompt has been answered goes on with what it had, or is gone.
LEMMA AnsweredGoesOn ==
  ASSUME KeyInvariant, NEW v \in Viewers, viewer[v].prompt # None,
         NEW p \in {"idle", "leaving", "casting"}, viewer'[v] = Answered(v, p)
  PROVE  viewer'[v] = NoViewer \/ GoesOn(v)
<1>1. /\ viewer[v] \in ViewerRecords
      /\ viewer[v].phase \in {"prompting", "leaving", "gone"}
      /\ viewer[v].attends => viewer[v].phase = "leaving"
  BY DEF KeyInvariant, TypeOK, ViewerReferences
<1>2. CASE viewer[v].phase = "prompting"
  <2>1. viewer'[v] = [viewer[v] EXCEPT !.phase = p, !.prompt = None]
    BY <1>2 DEF Answered
  <2> QED BY <1>1, <1>2, <2>1 DEF GoesOn, ViewerRecords
<1>3. CASE viewer[v].phase = "gone"
  BY <1>3 DEF Answered
<1>4. CASE viewer[v].phase = "leaving"
  <2>1. viewer'[v] = [viewer[v] EXCEPT !.prompt = None]
    BY <1>4 DEF Answered
  <2> QED BY <1>1, <1>4, <2>1 DEF GoesOn, ViewerRecords
<1> QED BY <1>1, <1>2, <1>3, <1>4

\* The count of disturbances stays below its bound.
LEMMA EventType ==
  ASSUME KeyInvariant, Event
  PROVE  events' \in 0 .. MaxEvents
BY MaxEventsAssumption DEF KeyInvariant, TypeOK, Event, MaxEventsAssumption

\* Ending casts leaves a desktop its key, its object and, unless it closes, its phase.
LEMMA CastsEndedType ==
  ASSUME KeyInvariant, NEW d \in Desktops, NEW vs
  PROVE  LET r == CastsEnded(d, vs) IN
         /\ r \in DesktopRecords
         /\ r.key = desktop[d].key
         /\ r.session = desktop[d].session
         /\ r.phase \in {desktop[d].phase, "closing"}
<1>1. desktop[d] \in DesktopRecords
  BY DEF KeyInvariant, TypeOK
<1>2. desktop[d].cast \ vs \in SUBSET Viewers
  BY <1>1, DesktopFields
<1>3. [desktop[d] EXCEPT !.cast = desktop[d].cast \ vs] \in DesktopRecords
  BY <1>1, <1>2, DesktopFields
<1>4. CastsEnded(d, vs) \in
        {[desktop[d] EXCEPT !.cast = desktop[d].cast \ vs],
         [desktop[d] EXCEPT !.cast = desktop[d].cast \ vs, !.phase = "closing"]}
  <2>1. desktop[d].phase = [desktop[d] EXCEPT !.cast = desktop[d].cast \ vs].phase
    BY <1>1 DEF DesktopRecords
  <2> QED BY <1>1, <2>1 DEF CastsEnded, DesktopRecords
<1> QED
  BY <1>1, <1>3, <1>4 DEF DesktopRecords

\* A call to a desktop leaves it its key and object, and at most makes it close.
LEMMA DesktopsAfterCalls ==
  ASSUME KeyInvariant, NEW v \in Viewers, NEW c \in Desktops \cup {None},
         NEW e \in {desktop, GetScreenCast(c, v), ViewerDisconnected(c, v)}
  PROVE  /\ e \in [Desktops -> DesktopRecords]
         /\ \A d \in Desktops:
              /\ e[d].key = desktop[d].key
              /\ e[d].session = desktop[d].session
              /\ \/ e[d].phase = desktop[d].phase
                 \/ /\ desktop[d].phase \in {"registered", "serving", "closing"}
                    /\ e[d].phase = "closing"
<1>1. desktop \in [Desktops -> DesktopRecords]
  BY DEF KeyInvariant, TypeOK
<1>2. CASE ~Listening(c)
  BY <1>1, <1>2 DEF GetScreenCast, ViewerDisconnected
<1>3. CASE Listening(c)
  <2>1. c \in Desktops /\ desktop[c].phase \in {"registered", "serving", "closing"}
    BY <1>3, NoneAssumption DEF Listening, NoneAssumption
  <2>2. CASE e = desktop
    BY <1>1, <2>2
  <2>3. CASE e = GetScreenCast(c, v)
    <3>1. desktop[c].cast \cup {v} \in SUBSET Viewers
      BY <1>1, <2>1, DesktopFields
    <3>2. [desktop[c] EXCEPT !.cast = @ \cup {v}] \in DesktopRecords
      BY <1>1, <2>1, <3>1, DesktopFields
    <3> QED BY <1>1, <1>3, <2>1, <2>3, <3>2 DEF GetScreenCast
  <2>4. CASE e = ViewerDisconnected(c, v)
    <3> DEFINE r == CastsEnded(c, {v})
    <3>1. /\ r \in DesktopRecords
          /\ r.key = desktop[c].key
          /\ r.session = desktop[c].session
          /\ r.phase \in {desktop[c].phase, "closing"}
      BY <2>1, CastsEndedType
    <3> HIDE DEF r
    <3>2. r.left \cup {v} \in SUBSET Viewers
      BY <3>1, DesktopFields
    <3>3. [r EXCEPT !.left = @ \cup {v}] \in DesktopRecords
      BY <3>1, <3>2, DesktopFields
    <3>4. e = [desktop EXCEPT ![c] = [r EXCEPT !.left = @ \cup {v}]]
      BY <1>3, <2>4 DEF ViewerDisconnected, r
    <3>5. /\ e[c] = [r EXCEPT !.left = @ \cup {v}]
          /\ \A d \in Desktops \ {c}: e[d] = desktop[d]
      BY <1>1, <2>1, <3>4
    <3>6. /\ e[c].key = r.key
          /\ e[c].session = r.session
          /\ e[c].phase = r.phase
      BY <3>1, <3>5 DEF DesktopRecords
    <3> QED
      BY <1>1, <2>1, <3>1, <3>3, <3>4, <3>5, <3>6
  <2> QED BY <2>2, <2>3, <2>4
<1> QED BY <1>2, <1>3

(* A step that leaves the keys and modes of objects, and the cache, alone. *)
LEMMA SkeletonOfDesktops ==
  ASSUME cache' = cache,
         \A s \in Sessions: /\ session'[s].key = session[s].key
                            /\ session'[s].mode = session[s].mode,
         \A d \in Desktops:
           /\ desktop'[d].key = desktop[d].key
           /\ desktop'[d].session = desktop[d].session
           /\ \/ desktop'[d].phase = desktop[d].phase
              \/ /\ desktop[d].phase \in {"registered", "serving", "closing"}
                 /\ desktop'[d].phase \in {"serving", "closing", "lost"}
              \/ /\ desktop[d].phase = "starting"
                 /\ desktop'[d].phase \in {"cleared", "lost"}
  PROVE  KeepsSkeleton
BY DEF KeepsSkeleton, Unused

\* SessionFailedToStart preserves the invariant.
LEMMA SessionFailedToStartKeeps ==
  ASSUME KeyInvariant, NEW k \in Keys, SessionFailedToStart(k)
  PROVE  KeyInvariant'
<1>1. request \in [Keys -> Requests]
  BY DEF KeyInvariant, TypeOK
<1>2. request' \in [Keys -> Requests]
  <2>1. [request[k] EXCEPT !.phase = "over"] \in Requests
    BY <1>1, RequestFields DEF SessionFailedToStart
  <2> QED BY <1>1, <2>1 DEF SessionFailedToStart
<1>3. TypeOK'
  BY <1>2 DEF KeyInvariant, TypeOK, SessionFailedToStart
<1>4. KeepsSkeleton
  BY DEF KeepsSkeleton, Unused, SessionFailedToStart
<1>5. ViewerReferences'
  BY <1>4, ViewersKept DEF SessionFailedToStart
<1> QED BY <1>3, <1>4, <1>5, Kept

\* OpenViewer preserves the invariant.
LEMMA OpenViewerKeeps ==
  ASSUME KeyInvariant, NEW k \in Keys, NEW v \in Viewers, OpenViewer(k, v)
  PROVE  KeyInvariant'
<1> DEFINE access == session[request[k].session].access
<1>1. /\ request \in [Keys -> Requests]
      /\ viewer \in [Viewers -> ViewerRecords]
      /\ session \in [Sessions -> SessionRecords]
      /\ request[k].phase = "waiting"
      /\ request' = [request EXCEPT ![k].phase = "ready", ![k].shown = {access}]
      /\ viewer' = [viewer EXCEPT ![v].phase = "requesting", ![v].key = k,
                                  ![v].access = access]
  BY DEF KeyInvariant, TypeOK, OpenViewer
<1>2. access \in BOOLEAN
  <2>1. request[k].session \in Sessions
    BY <1>1, RequestFields
  <2> QED BY <1>1, <2>1, SessionFields
<1> HIDE DEF access
<1>3. request' \in [Keys -> Requests]
  <2>1. [request[k] EXCEPT !.phase = "ready", !.shown = {access}] \in Requests
    BY <1>1, <1>2, RequestFields
  <2> QED BY <1>1, <2>1
<1>4. viewer' \in [Viewers -> ViewerRecords]
  <2>1. [viewer[v] EXCEPT !.phase = "requesting", !.key = k, !.access = access]
          \in ViewerRecords
    BY ZenonT(30), <1>1, <1>2 DEF ViewerRecords
  <2> QED BY <1>1, <2>1
<1>5. TypeOK'
  BY <1>3, <1>4 DEF KeyInvariant, TypeOK, OpenViewer
<1>6. KeepsSkeleton
  BY DEF KeepsSkeleton, Unused, OpenViewer
<1>7. ViewerReferences'
  <2>1. /\ viewer'[v].phase = "requesting" /\ viewer'[v].key = k
        /\ viewer'[v].session = None /\ viewer'[v].found = None
        /\ viewer'[v].prompt = None /\ ~viewer'[v].attends
        /\ \A w \in Viewers \ {v}: viewer'[w] = viewer[w]
    BY <1>1 DEF OpenViewer, NewConnection, NoViewer
  <2>2. ViewerReferences /\ session' = session
    BY DEF KeyInvariant, OpenViewer
  <2> QED BY <2>1, <2>2 DEF ViewerReferences, Unused
<1> QED BY <1>5, <1>6, <1>7, Kept

\* ReopenViewer preserves the invariant.
LEMMA ReopenViewerKeeps ==
  ASSUME KeyInvariant, NEW k \in Keys, NEW v \in Viewers, NEW access \in BOOLEAN,
         ReopenViewer(k, v, access)
  PROVE  KeyInvariant'
<1>1. /\ viewer \in [Viewers -> ViewerRecords]
      /\ viewer' = [viewer EXCEPT ![v].phase = "requesting", ![v].key = k,
                                  ![v].access = access]
  BY DEF KeyInvariant, TypeOK, ReopenViewer
<1>2. viewer' \in [Viewers -> ViewerRecords]
  <2>1. [viewer[v] EXCEPT !.phase = "requesting", !.key = k, !.access = access]
          \in ViewerRecords
    BY <1>1 DEF ViewerRecords
  <2> QED BY <1>1, <2>1
<1>3. TypeOK'
  BY <1>2 DEF KeyInvariant, TypeOK, ReopenViewer
<1>4. KeepsSkeleton
  BY DEF KeepsSkeleton, Unused, ReopenViewer
<1>5. ViewerReferences'
  <2>1. /\ viewer'[v].phase = "requesting" /\ viewer'[v].key = k
        /\ viewer'[v].session = None /\ viewer'[v].found = None
        /\ viewer'[v].prompt = None /\ ~viewer'[v].attends
        /\ \A w \in Viewers \ {v}: viewer'[w] = viewer[w]
    BY <1>1 DEF ReopenViewer, NewConnection, NoViewer
  <2>2. ViewerReferences /\ session' = session
    BY DEF KeyInvariant, ReopenViewer
  <2> QED BY <2>1, <2>2 DEF ViewerReferences, Unused
<1> QED BY <1>3, <1>4, <1>5, Kept

\* LaunchFails preserves the invariant.
LEMMA LaunchFailsKeeps ==
  ASSUME KeyInvariant, NEW c \in commands, LaunchFails(c)
  PROVE  KeyInvariant'
<1>1. /\ commands \subseteq Commands
      /\ viewer \in [Viewers -> ViewerRecords]
  BY DEF KeyInvariant, TypeOK
<1>2. commands' \subseteq Commands
  BY <1>1, CommandType DEF LaunchFails
<1>3. viewer' \in [Viewers -> ViewerRecords]
  BY <1>1, ViewerFields DEF LaunchFails, ViewerPhases
<1>4. TypeOK'
  BY <1>2, <1>3, EventType DEF KeyInvariant, TypeOK, LaunchFails
<1>5. KeepsSkeleton
  BY DEF KeepsSkeleton, Unused, LaunchFails
<1>6. \A w \in Viewers: viewer'[w] = viewer[w] \/ viewer'[w] = NoViewer \/ GoesOn(w)
  <2>1. ViewerReferences
    BY DEF KeyInvariant
  <2> QED BY <1>1, <2>1 DEF GoesOn, LaunchFails, Stoppable, Interruptible
<1>7. ViewerReferences'
  BY <1>5, <1>6, ViewersGoOn
<1> QED BY <1>4, <1>5, <1>7, Kept

\* AgentDisconnects preserves the invariant.
LEMMA AgentDisconnectsKeeps ==
  ASSUME KeyInvariant, AgentDisconnects
  PROVE  KeyInvariant'
<1>1. /\ session \in [Sessions -> SessionRecords]
      /\ session' = [s \in Sessions |-> [session[s] EXCEPT !.agent = FALSE]]
      /\ commands' \subseteq Commands
  BY DEF KeyInvariant, TypeOK, AgentDisconnects
<1>2. session' \in [Sessions -> SessionRecords]
  BY <1>1, SessionFields
<1>3. TypeOK'
  BY <1>1, <1>2, EventType DEF KeyInvariant, TypeOK, AgentDisconnects
<1>4. KeepsSkeleton
  <2>1. \A s \in Sessions: /\ session'[s].key = session[s].key
                           /\ session'[s].mode = session[s].mode
    BY <1>1 DEF SessionRecords
  <2> QED BY <2>1, SkeletonOfDesktops DEF AgentDisconnects
<1>5. ViewerReferences'
  BY <1>4, ViewersKept DEF AgentDisconnects
<1> QED BY <1>3, <1>4, <1>5, Kept

\* AgentReconnects preserves the invariant.
LEMMA AgentReconnectsKeeps ==
  ASSUME KeyInvariant, AgentReconnects
  PROVE  KeyInvariant'
<1>1. TypeOK'
  BY DEF KeyInvariant, TypeOK, AgentReconnects
<1>2. KeepsSkeleton
  BY DEF KeepsSkeleton, Unused, AgentReconnects
<1>3. ViewerReferences'
  BY <1>2, ViewersKept DEF AgentReconnects
<1> QED BY <1>1, <1>2, <1>3, Kept

\* AgentConnects preserves the invariant.
LEMMA AgentConnectsKeeps ==
  ASSUME KeyInvariant, AgentConnects
  PROVE  KeyInvariant'
<1>1. /\ cache \in [Keys -> Sessions \cup {None}]
      /\ session \in [Sessions -> SessionRecords]
      /\ commands \subseteq Commands
  BY DEF KeyInvariant, TypeOK
<1>2. session' \in [Sessions -> SessionRecords]
  BY <1>1, SessionFields DEF AgentConnects, Pending
<1>3. commands' \subseteq Commands
  BY <1>1, CommandType, SessionFields DEF AgentConnects, Pending
<1>4. TypeOK'
  BY <1>2, <1>3 DEF KeyInvariant, TypeOK, AgentConnects
<1>5. KeepsSkeleton
  BY <1>1 DEF KeepsSkeleton, Unused, AgentConnects, Pending
<1>6. ViewerReferences'
  BY <1>5, ViewersKept DEF AgentConnects
<1> QED BY <1>4, <1>5, <1>6, Kept

\* NotifyRequesterUnattendedReady preserves the invariant.
LEMMA NotifyRequesterUnattendedReadyKeeps ==
  ASSUME KeyInvariant, NEW d \in Desktops, NotifyRequesterUnattendedReady(d)
  PROVE  KeyInvariant'
<1>1. /\ desktop \in [Desktops -> DesktopRecords]
      /\ signal \in [Sessions -> {"reset", "set", "disposed"}]
      /\ desktop[d].phase = "registered"
      /\ desktop' = [desktop EXCEPT ![d].phase = "serving"]
  BY DEF KeyInvariant, TypeOK, NotifyRequesterUnattendedReady
<1>2. signal' \in [Sessions -> {"reset", "set", "disposed"}]
  BY <1>1 DEF NotifyRequesterUnattendedReady
<1>3. desktop' \in [Desktops -> DesktopRecords]
  BY <1>1, DesktopFields DEF DesktopPhases
<1>4. TypeOK'
  BY <1>2, <1>3 DEF KeyInvariant, TypeOK, NotifyRequesterUnattendedReady
<1>5. KeepsSkeleton
  <2>1. /\ desktop'[d].key = desktop[d].key
        /\ desktop'[d].session = desktop[d].session
        /\ desktop'[d].phase = "serving"
        /\ \A e \in Desktops \ {d}: desktop'[e] = desktop[e]
    BY <1>1
  <2>2. cache' = cache /\ session' = session
    BY DEF NotifyRequesterUnattendedReady
  <2> QED BY <1>1, <2>1, <2>2, SkeletonOfDesktops
<1>6. ViewerReferences'
  BY <1>5, ViewersKept DEF NotifyRequesterUnattendedReady
<1> QED BY <1>4, <1>5, <1>6, Kept

\* NotifyViewersRelaunched preserves the invariant.
LEMMA NotifyViewersRelaunchedKeeps ==
  ASSUME KeyInvariant, NEW d \in Desktops, NotifyViewersRelaunched(d)
  PROVE  KeyInvariant'
<1>1. /\ session \in [Sessions -> SessionRecords]
      /\ desktop \in [Desktops -> DesktopRecords]
      /\ notices \subseteq [viewer: Viewers, key: Keys, access: BOOLEAN]
      /\ desktop[d].phase = "registered"
      /\ session' = [session EXCEPT ![desktop[d].session].desktop = d]
      /\ desktop' = [desktop EXCEPT ![d].phase = "serving", ![d].viewers = {},
                                    ![d].relaunch = FALSE]
  BY DEF KeyInvariant, TypeOK, NotifyViewersRelaunched
<1>2. /\ desktop[d].session \in Sessions
      /\ session[desktop[d].session].key \in Keys
  BY <1>1, HeldKeys
<1>3. session' \in [Sessions -> SessionRecords]
  BY <1>1, <1>2, SessionFields
<1>4. desktop' \in [Desktops -> DesktopRecords]
  <2>1. [desktop[d] EXCEPT !.phase = "serving", !.viewers = {},
                           !.relaunch = FALSE] \in DesktopRecords
    BY ZenonT(30), <1>1 DEF DesktopRecords
  <2> QED BY <1>1, <2>1
<1>5. notices' \subseteq [viewer: Viewers, key: Keys, access: BOOLEAN]
  <2>1. desktop[d].viewers \in SUBSET Viewers
    BY <1>1, DesktopFields
  <2>2. \A v \in desktop[d].viewers:
          [viewer |-> v, key |-> session[desktop[d].session].key,
           access |-> session[desktop[d].session].access]
            \in [viewer: Viewers, key: Keys, access: BOOLEAN]
    BY <1>1, <1>2, <2>1, SessionFields
  <2> QED BY <1>1, <2>2 DEF NotifyViewersRelaunched
<1>6. TypeOK'
  BY <1>3, <1>4, <1>5 DEF KeyInvariant, TypeOK, NotifyViewersRelaunched
<1>7. KeepsSkeleton
  BY <1>1, <1>2, SkeletonOfDesktops DEF NotifyViewersRelaunched
<1>8. ViewerReferences'
  BY <1>7, ViewersKept DEF NotifyViewersRelaunched
<1> QED BY <1>6, <1>7, <1>8, Kept

\* DisconnectViewer preserves the invariant.
LEMMA DisconnectViewerKeeps ==
  ASSUME KeyInvariant, NEW d \in Desktops, NEW v \in Viewers, DisconnectViewer(d, v)
  PROVE  KeyInvariant'
<1>1. /\ session \in [Sessions -> SessionRecords]
      /\ desktop \in [Desktops -> DesktopRecords]
  BY DEF KeyInvariant, TypeOK
<1>2. session' \in [Sessions -> SessionRecords]
  BY <1>1, SessionFields DEF DisconnectViewer
<1>3. desktop' \in [Desktops -> DesktopRecords]
  BY <1>1, DesktopFields DEF DisconnectViewer, Listening, DesktopPhases
<1>4. TypeOK'
  BY <1>2, <1>3 DEF KeyInvariant, TypeOK, DisconnectViewer
<1>5. KeepsSkeleton
  BY <1>1 DEF KeepsSkeleton, Unused, DisconnectViewer, Listening
<1>6. ViewerReferences'
  BY <1>5, ViewersKept DEF DisconnectViewer
<1> QED BY <1>4, <1>5, <1>6, Kept

\* CastStops preserves the invariant.
LEMMA CastStopsKeeps ==
  ASSUME KeyInvariant, NEW d \in Desktops, NEW v \in Viewers, CastStops(d, v)
  PROVE  KeyInvariant'
<1>1. /\ desktop \in [Desktops -> DesktopRecords]
      /\ desktop[d].phase \in {"registered", "serving", "closing"}
      /\ desktop' = [desktop EXCEPT ![d] = CastsEnded(d, {v})]
  BY DEF KeyInvariant, TypeOK, CastStops, Listening
<1>2. desktop' \in [Desktops -> DesktopRecords]
  BY <1>1, CastsEndedType
<1>3. TypeOK'
  <2>1. events' \in 0 .. MaxEvents
    BY EventType DEF KeyInvariant, TypeOK, CastStops
  <2> QED BY <1>2, <2>1 DEF KeyInvariant, TypeOK, CastStops
<1>4. KeepsSkeleton
  BY <1>1, CastsEndedType, SkeletonOfDesktops DEF CastStops
<1>5. ViewerReferences'
  BY <1>4, ViewersKept DEF CastStops
<1> QED BY <1>3, <1>4, <1>5, Kept

\* NotifySessionChanged preserves the invariant.
LEMMA NotifySessionChangedKeeps ==
  ASSUME KeyInvariant, NEW d \in Desktops, NotifySessionChanged(d)
  PROVE  KeyInvariant'
<1> DEFINE s == desktop[d].session
<1>1. /\ session \in [Sessions -> SessionRecords]
      /\ desktop \in [Desktops -> DesktopRecords]
      /\ desktop[d].phase \in {"registered", "serving", "closing"}
      /\ session' = [session EXCEPT ![s].streamer = "switching"]
      /\ desktop' = [desktop EXCEPT ![d] = CastsEnded(d, Viewers)]
  BY DEF KeyInvariant, TypeOK, NotifySessionChanged, Listening
<1>2. s \in Sessions /\ session[s].key \in Keys
  BY <1>1, HeldKeys
<1>3. session' \in [Sessions -> SessionRecords]
  BY <1>1, <1>2, SessionFields DEF StreamerStates
<1>4. desktop' \in [Desktops -> DesktopRecords]
  BY <1>1, CastsEndedType
<1>5. commands' \subseteq Commands
  <2>1. RelaunchOf(s) \in Commands
    BY <1>1, <1>2, RelaunchType
  <2> QED
    BY <2>1 DEF KeyInvariant, TypeOK, NotifySessionChanged, SendToAgent
<1>6. TypeOK'
  BY <1>3, <1>4, <1>5, EventType DEF KeyInvariant, TypeOK, NotifySessionChanged
<1>7. KeepsSkeleton
  BY <1>1, <1>2, CastsEndedType, SkeletonOfDesktops DEF NotifySessionChanged
<1>8. ViewerReferences'
  BY <1>7, ViewersKept DEF NotifySessionChanged
<1> QED BY <1>6, <1>7, <1>8, Kept

\* NotifySystemShutdown preserves the invariant.
LEMMA NotifySystemShutdownKeeps ==
  ASSUME KeyInvariant, NEW d \in Desktops, NotifySystemShutdown(d)
  PROVE  KeyInvariant'
<1> DEFINE s == desktop[d].session
<1>1. /\ session \in [Sessions -> SessionRecords]
      /\ desktop \in [Desktops -> DesktopRecords]
      /\ desktop[d].phase \in {"registered", "serving", "closing"}
      /\ session' = [session EXCEPT ![s].streamer = "shuttingDown"]
      /\ desktop' = [desktop EXCEPT ![d] = CastsEnded(d, Viewers)]
  BY DEF KeyInvariant, TypeOK, NotifySystemShutdown, Listening
<1>2. s \in Sessions /\ session[s].key \in Keys
  BY <1>1, HeldKeys
<1>3. session' \in [Sessions -> SessionRecords]
  BY <1>1, <1>2, SessionFields DEF StreamerStates
<1>4. desktop' \in [Desktops -> DesktopRecords]
  BY <1>1, CastsEndedType
<1>5. commands' \subseteq Commands
  BY DEF KeyInvariant, TypeOK, NotifySystemShutdown
<1>6. TypeOK'
  BY <1>3, <1>4, <1>5, EventType DEF KeyInvariant, TypeOK, NotifySystemShutdown
<1>7. KeepsSkeleton
  BY <1>1, <1>2, CastsEndedType, SkeletonOfDesktops DEF NotifySystemShutdown
<1>8. ViewerReferences'
  BY <1>7, ViewersKept DEF NotifySystemShutdown
<1> QED BY <1>6, <1>7, <1>8, Kept

\* IdleTimerElapses preserves the invariant.
LEMMA IdleTimerElapsesKeeps ==
  ASSUME KeyInvariant, NEW d \in Desktops, IdleTimerElapses(d)
  PROVE  KeyInvariant'
<1>1. desktop \in [Desktops -> DesktopRecords]
  BY DEF KeyInvariant, TypeOK
<1>2. desktop' \in [Desktops -> DesktopRecords]
  BY <1>1, DesktopFields DEF IdleTimerElapses, DesktopPhases
<1>3. TypeOK'
  BY <1>2, EventType DEF KeyInvariant, TypeOK, IdleTimerElapses
<1>4. KeepsSkeleton
  BY <1>1 DEF KeepsSkeleton, Unused, IdleTimerElapses
<1>5. ViewerReferences'
  BY <1>4, ViewersKept DEF IdleTimerElapses
<1> QED BY <1>3, <1>4, <1>5, Kept

\* DesktopExits preserves the invariant.
LEMMA DesktopExitsKeeps ==
  ASSUME KeyInvariant, NEW d \in Desktops, DesktopExits(d)
  PROVE  KeyInvariant'
<1>1. /\ session \in [Sessions -> SessionRecords]
      /\ desktop \in [Desktops -> DesktopRecords]
      /\ viewer \in [Viewers -> ViewerRecords]
  BY DEF KeyInvariant, TypeOK
<1>0. desktop[d].cast \in SUBSET Viewers
  BY <1>1, DesktopFields
<1>2. PICK told \in SUBSET Viewers:
        /\ session' = [session EXCEPT ![desktop[d].session].viewers = @ \ told]
        /\ viewer' = [v \in Viewers |->
                        IF v \in told /\ Stoppable(v)
                        THEN [viewer[v] EXCEPT !.phase = "leaving"]
                        ELSE viewer[v]]
  BY <1>0 DEF DesktopExits
<1>3. session' \in [Sessions -> SessionRecords]
  BY <1>1, <1>2, SessionFields
<1>4. desktop' \in [Desktops -> DesktopRecords]
  <2>1. desktop[d] \in DesktopRecords
    BY <1>1
  <2>2. [desktop[d] EXCEPT !.phase = "lost", !.cast = {}, !.left = {}]
          \in DesktopRecords
    BY <2>1 DEF DesktopRecords
  <2> QED BY <1>1, <2>2 DEF DesktopExits
<1>5. viewer' \in [Viewers -> ViewerRecords]
  <2>1. \A v \in Viewers: [viewer[v] EXCEPT !.phase = "leaving"] \in ViewerRecords
    BY <1>1, ViewerFields DEF ViewerPhases
  <2> QED BY <1>1, <1>2, <2>1
<1>6. TypeOK'
  BY <1>3, <1>4, <1>5 DEF KeyInvariant, TypeOK, DesktopExits
<1>7. KeepsSkeleton
  BY <1>1, <1>2 DEF KeepsSkeleton, Unused, DesktopExits
<1>8. \A w \in Viewers: viewer'[w] = viewer[w] \/ GoesOn(w)
  <2>1. ViewerReferences
    BY DEF KeyInvariant
  <2> QED BY <1>1, <1>2, <2>1 DEF GoesOn, Stoppable, Interruptible
<1>9. ViewerReferences'
  BY <1>7, <1>8, ViewersGoOn
<1> QED BY <1>6, <1>7, <1>9, Kept

\* DesktopCrashes preserves the invariant.
LEMMA DesktopCrashesKeeps ==
  ASSUME KeyInvariant, NEW d \in Desktops, DesktopCrashes(d)
  PROVE  KeyInvariant'
<1>1. desktop \in [Desktops -> DesktopRecords]
  BY DEF KeyInvariant, TypeOK
<1>2. desktop' \in [Desktops -> DesktopRecords]
  BY <1>1, DesktopFields DEF DesktopCrashes, DesktopPhases
<1>3. TypeOK'
  BY <1>2, EventType DEF KeyInvariant, TypeOK, DesktopCrashes
<1>4. KeepsSkeleton
  BY <1>1 DEF KeepsSkeleton, Unused, DesktopCrashes
<1>5. ViewerReferences'
  BY <1>4, ViewersKept DEF DesktopCrashes
<1> QED BY <1>3, <1>4, <1>5, Kept

\* ReceiveNotice preserves the invariant.
LEMMA ReceiveNoticeKeeps ==
  ASSUME KeyInvariant, NEW n \in notices, ReceiveNotice(n)
  PROVE  KeyInvariant'
<1>1. /\ viewer \in [Viewers -> ViewerRecords]
      /\ request \in [Keys -> Requests]
      /\ notices' \subseteq [viewer: Viewers, key: Keys, access: BOOLEAN]
      /\ n.viewer \in Viewers
      /\ n.key \in Keys
      /\ n.access \in BOOLEAN
      /\ viewer' = [viewer EXCEPT ![n.viewer].phase = "requesting",
                                  ![n.viewer].key = n.key,
                                  ![n.viewer].access = n.access]
  BY DEF KeyInvariant, TypeOK, ReceiveNotice
<1>2. viewer' \in [Viewers -> ViewerRecords]
  <2>1. viewer[n.viewer] \in ViewerRecords /\ n.key \in Keys
    BY <1>1
  <2>2. [viewer[n.viewer] EXCEPT !.phase = "requesting", !.key = n.key,
                                 !.access = n.access]
          \in ViewerRecords
    BY <1>1, <2>1 DEF ViewerRecords
  <2> QED BY <1>1, <2>2
<1>3. request' \in [Keys -> Requests]
  <2> DEFINE q == request[n.key]
             p == IF q.phase = "cloned" THEN "ready" ELSE q.phase
  <2>1. request' = [request EXCEPT ![n.key] =
                      [q EXCEPT !.phase = p, !.shown = q.shown \cup {n.access}]]
    <3>1. q \in Requests
      BY <1>1
    <3>2. [q EXCEPT !.phase = p].shown = q.shown
      BY <3>1 DEF Requests
    <3> QED BY <1>1, <3>2 DEF ReceiveNotice
  <2>2. [q EXCEPT !.phase = p, !.shown = q.shown \cup {n.access}] \in Requests
    <3>1. q \in Requests /\ q.shown \cup {n.access} \in SUBSET BOOLEAN
      BY <1>1, RequestFields
    <3> HIDE DEF q
    <3> QED BY <3>1 DEF Requests
  <2> HIDE DEF p, q
  <2> QED BY <1>1, <2>1, <2>2
<1>4. TypeOK'
  BY <1>1, <1>2, <1>3 DEF KeyInvariant, TypeOK, ReceiveNotice
<1>5. KeepsSkeleton
  BY SkeletonOfDesktops DEF ReceiveNotice
<1>6. ViewerReferences'
  <2>1. \A v \in Viewers: /\ viewer'[v].session = viewer[v].session
                          /\ viewer'[v].found = viewer[v].found
                          /\ \/ /\ viewer'[v].phase = "requesting"
                                /\ viewer'[v].key \in Keys
                                /\ viewer'[v].prompt = viewer[v].prompt
                                /\ viewer'[v].attends = viewer[v].attends
                                /\ Interruptible(v)
                             \/ viewer'[v] = viewer[v]
    BY <1>1 DEF ReceiveNotice
  <2>2. ViewerReferences /\ session' = session
    BY DEF KeyInvariant, ReceiveNotice
  <2>3. \A v \in Viewers: Interruptible(v) => /\ viewer[v].prompt = None
                                              /\ ~viewer[v].attends
    BY <2>2 DEF ViewerReferences, Interruptible
  <2> QED BY <2>1, <2>2, <2>3 DEF ViewerReferences, Unused
<1> QED BY <1>4, <1>5, <1>6, Kept

\* FindSession preserves the invariant.
LEMMA FindSessionKeeps ==
  ASSUME KeyInvariant, NEW v \in Viewers, FindSession(v)
  PROVE  KeyInvariant'
<1> DEFINE s == cache[viewer[v].key]
<1>1. /\ viewer \in [Viewers -> ViewerRecords]
      /\ cache \in [Keys -> Sessions \cup {None}]
      /\ viewer[v].phase = "requesting"
      /\ \/ viewer' = [viewer EXCEPT ![v].phase = "leaving"]
         \/ /\ viewer' = [viewer EXCEPT ![v].phase = "found", ![v].found = s]
            /\ s # None
  BY DEF KeyInvariant, TypeOK, FindSession
<1>2. /\ viewer[v].key \in Keys
      /\ s \in Sessions \cup {None}
      /\ s # None => ~Unused(s)
  BY <1>1 DEF KeyInvariant, ViewerReferences, ObjectReferences
<1>3. viewer' \in [Viewers -> ViewerRecords]
  <2>1. /\ [viewer[v] EXCEPT !.phase = "leaving"] \in ViewerRecords
        /\ [viewer[v] EXCEPT !.phase = "found", !.found = s] \in ViewerRecords
    BY <1>1, <1>2 DEF ViewerRecords
  <2> QED BY <1>1, <2>1
<1>4. TypeOK'
  BY <1>3 DEF KeyInvariant, TypeOK, FindSession
<1>5. KeepsSkeleton
  BY SkeletonOfDesktops DEF FindSession
<1>6. ViewerReferences'
  <2>1. \A w \in Viewers \ {v}: viewer'[w] = viewer[w]
    BY <1>1
  <2>2. /\ viewer'[v].key \in Keys
        /\ viewer'[v].session = viewer[v].session
        /\ viewer'[v].prompt = None
        /\ ~viewer'[v].attends
        /\ \/ viewer'[v].phase = "leaving" /\ viewer'[v].found = viewer[v].found
           \/ viewer'[v].phase = "found" /\ viewer'[v].found = s /\ s # None
    <3>0. viewer[v].prompt = None /\ ~viewer[v].attends
      BY <1>1 DEF KeyInvariant, ViewerReferences
    <3>1. CASE viewer' = [viewer EXCEPT ![v].phase = "leaving"]
      BY <1>1, <1>2, <3>0, <3>1
    <3>2. CASE /\ viewer' = [viewer EXCEPT ![v].phase = "found", ![v].found = s]
               /\ s # None
      BY <1>1, <1>2, <3>0, <3>2
    <3> QED BY <1>1, <3>1, <3>2
  <2>3. ViewerReferences /\ session' = session
    BY DEF KeyInvariant, FindSession
  <2> HIDE DEF s
  <2> QED
    BY <1>2, <2>1, <2>2, <2>3 DEF ViewerReferences, Unused
<1> QED BY <1>4, <1>5, <1>6, Kept

\* CheckAccess preserves the invariant.
LEMMA CheckAccessKeeps ==
  ASSUME KeyInvariant, NEW v \in Viewers, CheckAccess(v)
  PROVE  KeyInvariant'
<1>1. /\ viewer \in [Viewers -> ViewerRecords]
      /\ viewer[v].phase = "found"
      /\ \/ viewer' = [viewer EXCEPT ![v].phase = "admitted"]
         \/ viewer' = [viewer EXCEPT ![v].phase = "leaving", ![v].found = None]
      /\ session' = session
  BY DEF KeyInvariant, TypeOK, CheckAccess
<1>2. viewer' \in [Viewers -> ViewerRecords]
  <2>1. [viewer[v] EXCEPT !.phase = "admitted"] \in ViewerRecords
    BY <1>1, ViewerFields DEF ViewerPhases
  <2>2. [viewer[v] EXCEPT !.phase = "leaving", !.found = None] \in ViewerRecords
    BY <1>1 DEF ViewerRecords
  <2> QED BY <1>1, <2>1, <2>2
<1>3. TypeOK'
  BY <1>2 DEF KeyInvariant, TypeOK, CheckAccess
<1>4. KeepsSkeleton
  BY SkeletonOfDesktops DEF CheckAccess
<1>5. ViewerReferences'
  <2>1. /\ \A w \in Viewers \ {v}: viewer'[w] = viewer[w]
        /\ viewer'[v].key = viewer[v].key
        /\ viewer'[v].session = viewer[v].session
        /\ viewer'[v].prompt = viewer[v].prompt
        /\ viewer'[v].attends = viewer[v].attends
        /\ \/ viewer'[v].phase = "admitted" /\ viewer'[v].found = viewer[v].found
           \/ viewer'[v].phase = "leaving" /\ viewer'[v].found = None
    <3>1. viewer[v] \in ViewerRecords
      BY <1>1
    <3>2. CASE viewer' = [viewer EXCEPT ![v].phase = "admitted"]
      BY <1>1, <3>1, <3>2 DEF ViewerRecords
    <3>3. CASE viewer' = [viewer EXCEPT ![v].phase = "leaving", ![v].found = None]
      BY <1>1, <3>1, <3>3 DEF ViewerRecords
    <3> QED BY <1>1, <3>2, <3>3
  <2>2. ViewerReferences
    BY DEF KeyInvariant
  <2> QED BY <1>1, <2>1, <2>2 DEF ViewerReferences, Unused
<1> QED BY <1>3, <1>4, <1>5, Kept

\* What ViewerReferences says of one viewer.
ViewerRefers(v) ==
    /\ viewer[v].phase # "off" => viewer[v].key \in Keys
    /\ viewer[v].session # None => ~Unused(viewer[v].session)
    /\ viewer[v].found # None => ~Unused(viewer[v].found)
    /\ viewer[v].phase \in {"found", "admitted"} => viewer[v].found # None
    /\ viewer[v].phase \in {"attending", "prompting", "casting", "offered",
                           "watching"}
         => viewer[v].session # None
    /\ viewer[v].phase = "attending" => viewer[v].attends
    /\ viewer[v].attends => /\ viewer[v].phase \in {"attending", "leaving"}
                           /\ viewer[v].session # None
    /\ viewer[v].prompt # None =>
         /\ viewer[v].phase \in {"prompting", "leaving", "gone"}
         /\ viewer[v].session # None

\* AttachViewer preserves the invariant.
LEMMA AttachViewerKeeps ==
  ASSUME KeyInvariant, NEW v \in Viewers, AttachViewer(v)
  PROVE  KeyInvariant'
<1> DEFINE s == viewer[v].found
<1>1. /\ session \in [Sessions -> SessionRecords]
      /\ desktop \in [Desktops -> DesktopRecords]
      /\ viewer \in [Viewers -> ViewerRecords]
      /\ session' = [session EXCEPT ![s].viewers = @ \cup {v}]
      /\ viewer[v].phase = "admitted"
      /\ viewer[v].prompt = None
      /\ viewer[v].attends = FALSE
  BY ViewerFields DEF KeyInvariant, TypeOK, ViewerReferences, AttachViewer
<1>2. s \in Sessions /\ ~Unused(s) /\ viewer[v].key \in Keys
  BY <1>1, ViewerFields DEF KeyInvariant, ViewerReferences, AttachViewer
<1>3. session[s].desktop \in Desktops \cup {None}
  BY <1>1, <1>2, SessionFields
<1>4. /\ desktop' \in [Desktops -> DesktopRecords]
      /\ \A d \in Desktops:
           /\ desktop'[d].key = desktop[d].key
           /\ desktop'[d].session = desktop[d].session
           /\ \/ desktop'[d].phase = desktop[d].phase
              \/ /\ desktop[d].phase \in {"registered", "serving", "closing"}
                 /\ desktop'[d].phase = "closing"
  <2>1. desktop' \in {desktop, GetScreenCast(session[s].desktop, v)}
    BY DEF AttachViewer
  <2> QED BY <1>3, <2>1, DesktopsAfterCalls
<1>5. PICK p \in {"idle", "prompting", "casting", "attending"},
           q \in Desktops \cup {None}:
        /\ viewer' = [viewer EXCEPT ![v] =
                        [@ EXCEPT !.phase = p, !.prompt = q,
                                  !.attends = (p = "attending"),
                                  !.session = s, !.found = None]]
        /\ q # None => p = "prompting"
  <2>1. viewer[v] = [viewer[v] EXCEPT !.prompt = None, !.attends = FALSE]
    BY <1>1 DEF ViewerRecords
  <2>2. viewer[v] \in ViewerRecords
    BY <1>1
  <2> HIDE DEF s
  <2>3. \/ viewer' = [viewer EXCEPT ![v] =
              [@ EXCEPT !.phase = IF session[s].desktop = None THEN "idle"
                                                          ELSE "prompting",
                        !.prompt = session[s].desktop,
                        !.session = s, !.found = None]]
        \/ viewer' = [viewer EXCEPT ![v] =
              [@ EXCEPT !.phase = "casting", !.session = s, !.found = None]]
        \/ viewer' = [viewer EXCEPT ![v] =
              [@ EXCEPT !.phase = "attending", !.attends = TRUE,
                        !.session = s, !.found = None]]
    BY DEF AttachViewer, s
  <2> DEFINE r(p, q) == [viewer[v] EXCEPT !.phase = p, !.prompt = q,
                            !.attends = (p = "attending"), !.session = s, !.found = None]
             c == IF session[s].desktop = None THEN "idle" ELSE "prompting"
  <2>a. [viewer[v] EXCEPT !.phase = c, !.prompt = session[s].desktop,
                          !.session = s, !.found = None] = r(c, session[s].desktop)
    <3>1. c # "attending"
      OBVIOUS
    <3> HIDE DEF c
    <3> QED BY <2>1, <2>2, <3>1 DEF ViewerRecords
  <2>b. [viewer[v] EXCEPT !.phase = "casting", !.session = s, !.found = None]
          = r("casting", None)
    BY <2>1, <2>2 DEF ViewerRecords
  <2>c. [viewer[v] EXCEPT !.phase = "attending", !.attends = TRUE,
                          !.session = s, !.found = None] = r("attending", None)
    BY <2>1, <2>2 DEF ViewerRecords
  <2>4. \/ viewer' = [viewer EXCEPT ![v] = r(c, session[s].desktop)]
        \/ viewer' = [viewer EXCEPT ![v] = r("casting", None)]
        \/ viewer' = [viewer EXCEPT ![v] = r("attending", None)]
    <3> HIDE DEF r
    <3> QED BY <2>3, <2>a, <2>b, <2>c
  <2>5. \E p \in {"idle", "prompting", "casting", "attending"},
           q \in Desktops \cup {None}:
             /\ viewer' = [viewer EXCEPT ![v] = r(p, q)]
             /\ q # None => p = "prompting"
    <3> HIDE DEF r
    <3> QED BY <1>3, <2>4
  <2> QED BY <2>5 DEF s
<1>6. session' \in [Sessions -> SessionRecords]
  <2>1. session[s].viewers \cup {v} \in SUBSET Viewers
    BY <1>1, <1>2, SessionFields
  <2>2. [session[s] EXCEPT !.viewers = @ \cup {v}] \in SessionRecords
    BY <1>1, <1>2, <2>1, SessionFields
  <2> QED BY <1>1, <1>2, <2>2
<1>7. \A t \in Sessions: /\ session'[t].key = session[t].key
                         /\ session'[t].mode = session[t].mode
  BY <1>1, <1>2 DEF SessionRecords
<1>8. /\ viewer' \in [Viewers -> ViewerRecords]
      /\ viewer'[v].key = viewer[v].key
      /\ viewer'[v].session = s
      /\ viewer'[v].found = None
      /\ viewer'[v].phase = p
      /\ viewer'[v].prompt = q
      /\ viewer'[v].attends = (p = "attending")
      /\ \A w \in Viewers \ {v}: viewer'[w] = viewer[w]
  <2> DEFINE r == [viewer[v] EXCEPT !.phase = p, !.prompt = q,
                     !.attends = (p = "attending"), !.session = s, !.found = None]
  <2>1. viewer[v] \in ViewerRecords /\ s \in Sessions
    BY <1>1, <1>2
  <2> HIDE DEF s
  <2>2. /\ r \in ViewerRecords
        /\ r.key = viewer[v].key /\ r.session = s /\ r.found = None
        /\ r.phase = p /\ r.prompt = q /\ r.attends = (p = "attending")
    BY ZenonT(30), <2>1 DEF ViewerRecords
  <2>3. viewer' = [viewer EXCEPT ![v] = r]
    BY <1>5 DEF s
  <2> HIDE DEF r
  <2> QED BY <1>1, <2>2, <2>3
<1>9. TypeOK'
  BY <1>4, <1>6, <1>8 DEF KeyInvariant, TypeOK, AttachViewer
<1>10. KeepsSkeleton
  BY <1>4, <1>7 DEF KeepsSkeleton, Unused, AttachViewer
<1>11. ViewerReferences'
  <2>1. \A t \in Sessions: Unused(t)' = Unused(t)
    BY <1>7 DEF Unused
  <2>2. \A w \in Viewers: /\ viewer[w].session \in Sessions \cup {None}
                          /\ viewer[w].found \in Sessions \cup {None}
    BY <1>1, ViewerFields
  <2>3. ViewerReferences
    BY DEF KeyInvariant
  <2> HIDE DEF s
  <2> SUFFICES ASSUME NEW w \in Viewers
               PROVE  ViewerRefers(w)'
    BY DEF ViewerReferences, ViewerRefers
  <2>4. CASE w = v
    <3>1. s # None /\ session'[s].mode # "unused"
      BY <1>2, <2>1, NoneAssumption DEF Unused
    <3> QED BY <1>2, <1>5, <1>8, <2>4, <3>1 DEF ViewerRefers, Unused
  <2>5. CASE w # v
    BY <1>8, <2>1, <2>2, <2>3, <2>5 DEF ViewerReferences, ViewerRefers
  <2> QED BY <2>4, <2>5
<1> QED BY <1>9, <1>10, <1>11, Kept

\* TakeForAttended preserves the invariant.
LEMMA TakeForAttendedKeeps ==
  ASSUME KeyInvariant, NEW v \in Viewers, TakeForAttended(v)
  PROVE  KeyInvariant'
<1> DEFINE s == viewer[v].session
<1>1. /\ session \in [Sessions -> SessionRecords]
      /\ viewer \in [Viewers -> ViewerRecords]
      /\ viewer[v].attends
      /\ session' = [session EXCEPT ![s].mode = "attended"]
      /\ ViewerReferences
  BY DEF KeyInvariant, TypeOK, TakeForAttended
<1>2. s \in Sessions /\ ~Unused(s)
  BY <1>1, ViewerHolds, NoneAssumption DEF ViewerReferences, NoneAssumption
<1>3. /\ session' \in [Sessions -> SessionRecords]
      /\ session'[s].mode = "attended"
      /\ session'[s].key = session[s].key
      /\ \A t \in Sessions \ {s}: session'[t] = session[t]
  <2>1. session[s] \in SessionRecords
    BY <1>1, <1>2
  <2>2. [session[s] EXCEPT !.mode = "attended"] \in SessionRecords
    BY <2>1, SessionFields DEF Modes
  <2> QED BY <1>1, <1>2, <2>1, <2>2 DEF SessionRecords
<1>4. PICK p \in {viewer[v].phase, "casting"}:
        /\ viewer' = [viewer EXCEPT ![v] = [@ EXCEPT !.phase = p, !.attends = FALSE]]
        /\ p = "casting" => viewer[v].phase \in {"attending", "casting"}
        /\ p # "attending"
  <2>1. CASE viewer[v].phase = "attending"
    <3>1. viewer' = [viewer EXCEPT ![v] = [@ EXCEPT !.phase = "casting",
                                                    !.attends = FALSE]]
      BY <2>1 DEF TakeForAttended
    <3> WITNESS "casting" \in {viewer[v].phase, "casting"}
    <3> QED BY <2>1, <3>1
  <2>2. CASE viewer[v].phase # "attending"
    <3>1. viewer' = [viewer EXCEPT ![v] = [@ EXCEPT !.phase = viewer[v].phase,
                                                    !.attends = FALSE]]
      BY <2>2 DEF TakeForAttended
    <3> WITNESS viewer[v].phase \in {viewer[v].phase, "casting"}
    <3> QED BY <2>2, <3>1
  <2> QED BY <2>1, <2>2
<1>5. /\ viewer' \in [Viewers -> ViewerRecords]
      /\ viewer'[v].phase = p
      /\ viewer'[v].attends = FALSE
      /\ viewer'[v].key = viewer[v].key
      /\ viewer'[v].session = s
      /\ viewer'[v].found = viewer[v].found
      /\ viewer'[v].prompt = viewer[v].prompt
      /\ \A w \in Viewers \ {v}: viewer'[w] = viewer[w]
  <2>1. viewer[v] \in ViewerRecords
    BY <1>1
  <2>2. [viewer[v] EXCEPT !.phase = p, !.attends = FALSE] \in ViewerRecords
    BY <2>1 DEF ViewerRecords
  <2> QED BY <1>1, <1>4, <2>1, <2>2 DEF ViewerRecords
<1>6. TypeOK'
  BY <1>3, <1>5 DEF KeyInvariant, TypeOK, TakeForAttended
<1>7. KeepsSkeleton
  <2>1. \A t \in Sessions: /\ session'[t].key = session[t].key
                           /\ Unused(t)' = Unused(t)
                           /\ session'[t].mode = "unattended" =>
                                session[t].mode = "unattended"
    BY <1>2, <1>3 DEF Unused
  <2>2. cache' = cache /\ desktop' = desktop
    BY DEF TakeForAttended
  <2> QED BY <2>1, <2>2 DEF KeepsSkeleton
<1>8. \A w \in Viewers: viewer'[w] = viewer[w] \/ GoesOn(w)
  <2>1. viewer[v].phase \in {"attending", "leaving"} /\ viewer[v].prompt \in Desktops \cup {None}
    BY <1>1, ViewerFields DEF ViewerReferences
  <2>2. GoesOn(v)
    BY <1>1, <1>4, <1>5, <2>1 DEF GoesOn, ViewerReferences
  <2> QED BY <1>5, <2>2
<1>9. ViewerReferences'
  BY <1>7, <1>8, ViewersGoOn
<1> QED BY <1>6, <1>7, <1>9, Kept

\* ConsentGiven preserves the invariant.
LEMMA ConsentGivenKeeps ==
  ASSUME KeyInvariant, NEW v \in Viewers, ConsentGiven(v)
  PROVE  KeyInvariant'
<1> DEFINE s == viewer[v].session
<1>1. /\ session \in [Sessions -> SessionRecords]
      /\ viewer \in [Viewers -> ViewerRecords]
      /\ consent' \in [Keys -> {"free", "required", "given"}]
      /\ viewer[v].prompt # None
      /\ session' = [session EXCEPT ![s].requireConsent = FALSE]
      /\ desktop' = GetScreenCast(session[s].desktop, v)
      /\ viewer' = [viewer EXCEPT ![v] = Answered(v, "casting")]
  BY DEF KeyInvariant, TypeOK, ConsentGiven
<1>2. s \in Sessions /\ session[s].desktop \in Desktops \cup {None}
  BY <1>1, ViewerHolds, SessionFields
<1>3. session' \in [Sessions -> SessionRecords]
  BY <1>1, <1>2, SessionFields
<1>4. viewer' \in [Viewers -> ViewerRecords]
  <2>1. Answered(v, "casting") \in ViewerRecords
    BY AnsweredType DEF ViewerPhases
  <2> QED BY <1>1, <2>1
<1>5. TypeOK'
  <2>1. desktop' \in [Desktops -> DesktopRecords]
    BY <1>1, <1>2, DesktopsAfterCalls DEF KeyInvariant, TypeOK
  <2>2. UNCHANGED <<cache, cleaning, signal, request, agentOnline, commands, notices, events>>
    BY DEF ConsentGiven
  <2> QED BY <1>1, <1>3, <1>4, <2>1, <2>2 DEF KeyInvariant, TypeOK
<1>6. KeepsSkeleton
  <2>1. \A t \in Sessions: /\ session'[t].key = session[t].key
                          /\ session'[t].mode = session[t].mode
    BY <1>1, <1>2
  <2>2. \A d \in Desktops: /\ desktop'[d].key = desktop[d].key
                          /\ desktop'[d].session = desktop[d].session
                          /\ desktop'[d].phase = desktop[d].phase
    <3>1. desktop \in [Desktops -> DesktopRecords]
      BY DEF KeyInvariant, TypeOK
    <3> QED BY <1>1, <1>2, <3>1 DEF GetScreenCast, DesktopRecords
  <2> QED BY <2>1, <2>2, SkeletonOfDesktops DEF ConsentGiven
<1>7. \A w \in Viewers: viewer'[w] = viewer[w] \/ viewer'[w] = NoViewer \/ GoesOn(w)
  <2>1. viewer'[v] = Answered(v, "casting")
    BY <1>1
  <2>2. viewer'[v] = NoViewer \/ GoesOn(v)
    BY <1>1, <2>1, AnsweredGoesOn
  <2> QED BY <1>1, <2>2
<1>8. ViewerReferences'
  BY <1>6, <1>7, ViewersGoOn
<1> QED BY <1>5, <1>6, <1>8, Kept

\* ConsentRefused preserves the invariant.
LEMMA ConsentRefusedKeeps ==
  ASSUME KeyInvariant, NEW v \in Viewers, ConsentRefused(v)
  PROVE  KeyInvariant'
<1>1. /\ viewer \in [Viewers -> ViewerRecords]
      /\ viewer[v].prompt # None
      /\ viewer' = [viewer EXCEPT ![v] = Answered(v, "leaving")]
  BY DEF KeyInvariant, TypeOK, ConsentRefused
<1>2. viewer' \in [Viewers -> ViewerRecords]
  BY <1>1, AnsweredType DEF ViewerPhases
<1>3. TypeOK'
  BY <1>2 DEF KeyInvariant, TypeOK, ConsentRefused
<1>4. KeepsSkeleton
  BY DEF KeepsSkeleton, Unused, ConsentRefused
<1>5. \A w \in Viewers: viewer'[w] = viewer[w] \/ viewer'[w] = NoViewer \/ GoesOn(w)
  <2>1. viewer'[v] = Answered(v, "leaving")
    BY <1>1
  <2>2. viewer'[v] = NoViewer \/ GoesOn(v)
    BY <1>1, <2>1, AnsweredGoesOn
  <2> QED BY <1>1, <2>2
<1>6. ViewerReferences'
  BY <1>4, <1>5, ViewersGoOn
<1> QED BY <1>3, <1>4, <1>6, Kept

\* StreamOffered preserves the invariant.
LEMMA StreamOfferedKeeps ==
  ASSUME KeyInvariant, NEW v \in Viewers, StreamOffered(v)
  PROVE  KeyInvariant'
<1>1. viewer \in [Viewers -> ViewerRecords]
  BY DEF KeyInvariant, TypeOK
<1>2. viewer' \in [Viewers -> ViewerRecords]
  BY <1>1, ViewerFields DEF StreamOffered, ViewerPhases
<1>3. TypeOK'
  BY <1>2 DEF KeyInvariant, TypeOK, StreamOffered
<1>4. KeepsSkeleton
  BY DEF KeepsSkeleton, Unused, StreamOffered
<1>5. \A w \in Viewers: viewer'[w] = viewer[w] \/ viewer'[w] = NoViewer \/ GoesOn(w)
  <2>1. ViewerReferences
    BY DEF KeyInvariant
  <2> QED BY <1>1, <2>1 DEF GoesOn, StreamOffered, ViewerReferences
<1>6. ViewerReferences'
  BY <1>4, <1>5, ViewersGoOn
<1> QED BY <1>3, <1>4, <1>6, Kept

\* StreamConnected preserves the invariant.
LEMMA StreamConnectedKeeps ==
  ASSUME KeyInvariant, NEW v \in Viewers, StreamConnected(v)
  PROVE  KeyInvariant'
<1>1. /\ session \in [Sessions -> SessionRecords]
      /\ viewer \in [Viewers -> ViewerRecords]
  BY DEF KeyInvariant, TypeOK
<1>2. session' \in [Sessions -> SessionRecords]
  BY <1>1, SessionFields, ViewerHolds DEF StreamConnected, StreamerStates
<1>3. viewer' \in [Viewers -> ViewerRecords]
  BY <1>1, ViewerFields DEF StreamConnected, ViewerPhases
<1>4. TypeOK'
  BY <1>2, <1>3 DEF KeyInvariant, TypeOK, StreamConnected
<1>5. KeepsSkeleton
  BY <1>1 DEF KeepsSkeleton, Unused, StreamConnected
<1>6. \A w \in Viewers: viewer'[w] = viewer[w] \/ viewer'[w] = NoViewer \/ GoesOn(w)
  <2>1. ViewerReferences
    BY DEF KeyInvariant
  <2> QED BY <1>1, <2>1 DEF GoesOn, StreamConnected, ViewerReferences
<1>7. ViewerReferences'
  BY <1>5, <1>6, ViewersGoOn
<1> QED BY <1>4, <1>5, <1>7, Kept

\* StreamEnds preserves the invariant.
LEMMA StreamEndsKeeps ==
  ASSUME KeyInvariant, NEW v \in Viewers, StreamEnds(v)
  PROVE  KeyInvariant'
<1>1. viewer \in [Viewers -> ViewerRecords]
  BY DEF KeyInvariant, TypeOK
<1>2. viewer' \in [Viewers -> ViewerRecords]
  BY <1>1, ViewerFields DEF StreamEnds, ViewerPhases
<1>3. TypeOK'
  BY <1>2 DEF KeyInvariant, TypeOK, StreamEnds
<1>4. KeepsSkeleton
  BY DEF KeepsSkeleton, Unused, StreamEnds
<1>5. \A w \in Viewers: viewer'[w] = viewer[w] \/ viewer'[w] = NoViewer \/ GoesOn(w)
  <2>1. ViewerReferences
    BY DEF KeyInvariant
  <2> QED BY <1>1, <2>1 DEF GoesOn, StreamEnds, ViewerReferences
<1>6. ViewerReferences'
  BY <1>4, <1>5, ViewersGoOn
<1> QED BY <1>3, <1>4, <1>6, Kept

\* CloseViewer preserves the invariant.
LEMMA CloseViewerKeeps ==
  ASSUME KeyInvariant, NEW v \in Viewers, CloseViewer(v)
  PROVE  KeyInvariant'
<1>1. viewer \in [Viewers -> ViewerRecords]
  BY DEF KeyInvariant, TypeOK
<1>2. viewer' \in [Viewers -> ViewerRecords]
  BY <1>1, ViewerFields DEF CloseViewer, ViewerPhases
<1>3. TypeOK'
  BY <1>2 DEF KeyInvariant, TypeOK, CloseViewer
<1>4. KeepsSkeleton
  BY DEF KeepsSkeleton, Unused, CloseViewer
<1>5. \A w \in Viewers: viewer'[w] = viewer[w] \/ viewer'[w] = NoViewer \/ GoesOn(w)
  <2>1. ViewerReferences
    BY DEF KeyInvariant
  <2> QED BY <1>1, <2>1 DEF GoesOn, CloseViewer, Stoppable, Interruptible
<1>6. ViewerReferences'
  BY <1>4, <1>5, ViewersGoOn
<1> QED BY <1>3, <1>4, <1>6, Kept

\* ViewerOnDisconnected preserves the invariant.
LEMMA ViewerOnDisconnectedKeeps ==
  ASSUME KeyInvariant, NEW v \in Viewers, ViewerOnDisconnected(v)
  PROVE  KeyInvariant'
<1> DEFINE s == viewer[v].session
<1>1. /\ session \in [Sessions -> SessionRecords]
      /\ viewer \in [Viewers -> ViewerRecords]
      /\ s \in Sessions \cup {None}
      /\ viewer[v].phase = "leaving"
      /\ ~viewer[v].attends
      /\ \/ viewer' = [viewer EXCEPT ![v] = NoViewer]
         \/ /\ viewer[v].prompt # None
            /\ viewer' = [viewer EXCEPT ![v].phase = "gone"]
      /\ notices' \subseteq notices
  BY ViewerFields DEF KeyInvariant, TypeOK, ViewerOnDisconnected
<1>2. \/ session' = session /\ desktop' = desktop
      \/ /\ s \in Sessions
         /\ desktop' = ViewerDisconnected(session[s].desktop, v)
         /\ session' = [session EXCEPT ![s].viewers = @ \ {v}]
  BY <1>1 DEF ViewerOnDisconnected
<1>3. /\ session' \in [Sessions -> SessionRecords]
      /\ \A t \in Sessions: /\ session'[t].key = session[t].key
                            /\ session'[t].mode = session[t].mode
  <2>1. \A t \in Sessions:
          [session[t] EXCEPT !.viewers = @ \ {v}] \in SessionRecords
    BY <1>1, SessionFields
  <2>2. CASE session' = session
    BY <1>1, <2>2
  <2>3. CASE session' # session
    <3>1. s \in Sessions /\ session' = [session EXCEPT ![s].viewers = @ \ {v}]
      BY <1>2, <2>3
    <3>2. session \in [Sessions -> SessionRecords]
      BY <1>1
    <3>3. \A t \in Sessions: \/ session'[t] = session[t]
                             \/ session'[t] = [session[t] EXCEPT !.viewers = @ \ {v}]
      BY <3>1, <3>2
    <3> QED BY <2>1, <3>1, <3>2, <3>3 DEF SessionRecords
  <2> QED BY <2>2, <2>3
<1>4. /\ desktop' \in [Desktops -> DesktopRecords]
      /\ \A d \in Desktops:
           /\ desktop'[d].key = desktop[d].key
           /\ desktop'[d].session = desktop[d].session
           /\ \/ desktop'[d].phase = desktop[d].phase
              \/ /\ desktop[d].phase \in {"registered", "serving", "closing"}
                 /\ desktop'[d].phase = "closing"
  <2>1. \A t \in Sessions: session[t].desktop \in Desktops \cup {None}
    BY <1>1, SessionFields
  <2>2. CASE desktop' = desktop
    BY <2>2, DesktopsAfterCalls
  <2>3. CASE desktop' # desktop
    <3>1. PICK c \in Desktops \cup {None}: desktop' = ViewerDisconnected(c, v)
      BY <1>2, <2>1, <2>3
    <3> QED BY <3>1, DesktopsAfterCalls
  <2> QED BY <2>2, <2>3
<1>5. viewer' \in [Viewers -> ViewerRecords]
  <2>1. [viewer[v] EXCEPT !.phase = "gone"] \in ViewerRecords
    BY <1>1, ViewerFields DEF ViewerPhases
  <2> QED BY <1>1, <2>1, EmptyRecordsType
<1>6. TypeOK'
  BY <1>1, <1>3, <1>4, <1>5 DEF KeyInvariant, TypeOK, ViewerOnDisconnected
<1>7. KeepsSkeleton
  BY <1>3, <1>4, SkeletonOfDesktops DEF ViewerOnDisconnected
<1>8. \A w \in Viewers: viewer'[w] = viewer[w] \/ viewer'[w] = NoViewer \/ GoesOn(w)
  <2>1. CASE viewer' = [viewer EXCEPT ![v] = NoViewer]
    BY <1>1, <2>1
  <2>2. CASE /\ viewer[v].prompt # None
             /\ viewer' = [viewer EXCEPT ![v].phase = "gone"]
    BY <1>1, <2>2 DEF GoesOn
  <2> QED BY <1>1, <2>1, <2>2
<1>9. ViewerReferences'
  BY <1>7, <1>8, ViewersGoOn
<1> QED BY <1>6, <1>7, <1>9, Kept

\* FindExpiredSession preserves the invariant.
LEMMA FindExpiredSessionKeeps ==
  ASSUME KeyInvariant, NEW k \in Keys, FindExpiredSession(k)
  PROVE  KeyInvariant'
<1>1. TypeOK'
  BY DEF KeyInvariant, TypeOK, FindExpiredSession
<1>2. KeepsSkeleton
  BY SkeletonOfDesktops DEF FindExpiredSession
<1>3. ViewerReferences'
  BY <1>2, ViewersKept DEF FindExpiredSession
<1> QED BY <1>1, <1>2, <1>3, Kept

\* RemoveExpiredSession preserves the invariant.
LEMMA RemoveExpiredSessionKeeps ==
  ASSUME KeyInvariant, RemoveExpiredSession
  PROVE  KeyInvariant'
<1>1. /\ cache \in [Keys -> Sessions \cup {None}]
      /\ session \in [Sessions -> SessionRecords]
      /\ signal \in [Sessions -> {"reset", "set", "disposed"}]
  BY DEF KeyInvariant, TypeOK
<1>2. cache' \in [Keys -> Sessions \cup {None}]
  BY <1>1 DEF RemoveExpiredSession
<1>3. cleaning' \in Keys \cup {None}
  BY <1>1 DEF RemoveExpiredSession
<1>4. session' \in [Sessions -> SessionRecords]
  BY <1>1, SessionFields DEF RemoveExpiredSession, Disposed
<1>5. signal' \in [Sessions -> {"reset", "set", "disposed"}]
  BY <1>1 DEF RemoveExpiredSession, SignalsAfterDispose
<1>6. TypeOK'
  BY <1>2, <1>3, <1>4, <1>5 DEF KeyInvariant, TypeOK, RemoveExpiredSession
<1>7. KeepsSkeleton
  BY <1>1 DEF KeepsSkeleton, Unused, RemoveExpiredSession, Disposed
<1>8. ViewerReferences'
  BY <1>7, ViewersKept DEF RemoveExpiredSession
<1> QED BY <1>6, <1>7, <1>8, Kept

\* Reconnect preserves the invariant.
LEMMA ReconnectKeeps ==
  ASSUME KeyInvariant, NEW k \in Keys, Reconnect(k)
  PROVE  KeyInvariant'
<1> DEFINE s == cache[k]
<1>1. /\ cache \in [Keys -> Sessions \cup {None}]
      /\ session \in [Sessions -> SessionRecords]
      /\ s # None
      /\ session[s].mode = "unattended"
      /\ \/ commands' = commands
         \/ commands' = commands \cup {RelaunchOf(s)}
  BY DEF KeyInvariant, TypeOK, Reconnect, SendToAgent
<1>2. /\ s \in Sessions
      /\ session[s].key \in Keys
  BY <1>1, SessionFields DEF KeyInvariant, KeyedOnceAdopted
<1>3. RelaunchOf(s) \in Commands
  BY <1>1, <1>2, RelaunchType
<1>4. TypeOK'
  BY <1>1, <1>3 DEF KeyInvariant, TypeOK, Reconnect
<1>5. KeepsSkeleton
  BY SkeletonOfDesktops DEF Reconnect
<1>6. ViewerReferences'
  BY <1>5, ViewersKept DEF Reconnect
<1> QED BY <1>4, <1>5, <1>6, Kept

(* Nothing refers to an object that was not constructed. *)
LEMMA UnusedUnreferenced ==
  ASSUME KeyInvariant, NEW s \in Sessions, Unused(s)
  PROVE  /\ \A k \in Keys: cache[k] # s
         /\ \A d \in Desktops: desktop[d].session # s
         /\ \A v \in Viewers: viewer[v].session # s /\ viewer[v].found # s
BY NoneAssumption
   DEF KeyInvariant, ObjectReferences, ViewerReferences, Holds, NoneAssumption

\* LaunchDesktop preserves the invariant.
LEMMA LaunchDesktopKeeps ==
  ASSUME KeyInvariant, NEW c \in commands, NEW d \in Desktops, LaunchDesktop(c, d)
  PROVE  KeyInvariant'
<1> DEFINE new == [NoDesktop EXCEPT !.phase = "starting", !.key = c.key,
                     !.access = c.access, !.relaunch = c.relaunch,
                     !.viewers = c.viewers]
<1>1. /\ desktop \in [Desktops -> DesktopRecords]
      /\ desktop[d] = NoDesktop
      /\ desktop' = [desktop EXCEPT ![d] = new]
      /\ c \in Commands
      /\ commands' \subseteq Commands
  BY DEF KeyInvariant, TypeOK, LaunchDesktop
<1>2. /\ new \in DesktopRecords
      /\ new.phase = "starting"
      /\ new.key \in Keys
      /\ new.session = None
      /\ NoDesktop.phase = "off"
      /\ NoDesktop.session = None
  BY <1>1 DEF NoDesktop, DesktopRecords, Commands
<1> HIDE DEF new
<1>3. /\ desktop' \in [Desktops -> DesktopRecords]
      /\ desktop'[d] = new
      /\ \A e \in Desktops \ {d}: desktop'[e] = desktop[e]
  BY <1>1, <1>2
<1>4. TypeOK'
  BY <1>1, <1>3 DEF KeyInvariant, TypeOK, LaunchDesktop
<1>5. cache' = cache /\ session' = session /\ viewer' = viewer
  BY DEF LaunchDesktop
<1>6. ViewerReferences'
  BY <1>5 DEF KeyInvariant, ViewerReferences, Unused
<1>7. ObjectReferences'
  BY <1>2, <1>3, <1>5 DEF KeyInvariant, ObjectReferences, Unused, Holds
<1>8. OneKeyPerObject'
  BY <1>2, <1>3, <1>5 DEF KeyInvariant, OneKeyPerObject, Holds
<1>9. KeyedOnceAdopted'
  <2>1. \A e \in Desktops: desktop[e].phase = "adopting" => desktop'[e] = desktop[e]
    BY <1>1, <1>2, <1>3
  <2> QED
    BY <1>2, <1>3, <1>5, <2>1 DEF KeyInvariant, KeyedOnceAdopted, Unused, Holds
<1> QED BY <1>4, <1>6, <1>7, <1>8, <1>9 DEF KeyInvariant

\* RemoteControl preserves the invariant.
LEMMA RemoteControlKeeps ==
  ASSUME KeyInvariant, NEW k \in Keys, NEW s \in Sessions,
         NEW enforce \in EnforceAttendedAccess, RemoteControl(k, s, enforce)
  PROVE  KeyInvariant'
<1> DEFINE new == [NewSession(s) EXCEPT !.key = k, !.device = TRUE,
                     !.agent = TRUE, !.requireConsent = enforce]
<1>1. /\ session \in [Sessions -> SessionRecords]
      /\ cache \in [Keys -> Sessions \cup {None}]
      /\ session' = [session EXCEPT ![s] = new]
      /\ cache' = [cache EXCEPT ![k] = s]
      /\ Unused(s)
  BY DEF KeyInvariant, TypeOK, RemoteControl
<1>2. desktop' = desktop /\ viewer' = viewer
  BY DEF RemoteControl
<1>3. new \in SessionRecords /\ new.key = k /\ new.mode = "unknown"
  BY SettingAssumption
     DEF NewSession, SessionRecords, Modes, StreamerStates, SettingAssumption
<1> HIDE DEF new
<1>4. /\ session' \in [Sessions -> SessionRecords]
      /\ session'[s] = new
      /\ \A t \in Sessions \ {s}: session'[t] = session[t]
  BY <1>1, <1>3
<1>5. /\ cache' \in [Keys -> Sessions \cup {None}]
      /\ cache'[k] = s
      /\ \A l \in Keys \ {k}: cache'[l] = cache[l]
  BY <1>1
<1>6. TypeOK'
  <2>1. /\ request' \in [Keys -> Requests]
        /\ consent' \in [Keys -> {"free", "required", "given"}]
    BY DEF KeyInvariant, TypeOK, RemoteControl, Requests
  <2>2. commands' \subseteq Commands
    BY CommandType DEF KeyInvariant, TypeOK, RemoteControl
  <2> QED BY <1>4, <1>5, <2>1, <2>2 DEF KeyInvariant, TypeOK, RemoteControl
<1>7. /\ \A l \in Keys: cache[l] # s
      /\ \A d \in Desktops: desktop[d].session # s
      /\ \A v \in Viewers: viewer[v].session # s /\ viewer[v].found # s
  BY <1>1, UnusedUnreferenced
<1>8. /\ \A d \in Desktops: desktop[d].session \in Sessions \cup {None}
      /\ \A v \in Viewers: /\ viewer[v].session \in Sessions \cup {None}
                           /\ viewer[v].found \in Sessions \cup {None}
  BY DesktopFields, ViewerFields DEF KeyInvariant, TypeOK
<1>9. ViewerReferences'
  BY <1>2, <1>4, <1>7, <1>8 DEF KeyInvariant, ViewerReferences, Unused
<1>10. ObjectReferences'
  BY <1>1, <1>2, <1>3, <1>4, <1>5, <1>7, <1>8
     DEF KeyInvariant, ObjectReferences, Unused, Holds
<1>11. OneKeyPerObject'
  BY <1>1, <1>2, <1>3, <1>4, <1>5, <1>7, <1>8
     DEF KeyInvariant, OneKeyPerObject, Holds
<1>12. KeyedOnceAdopted'
  BY <1>1, <1>2, <1>3, <1>4, <1>7, <1>8, NoneAssumption
     DEF KeyInvariant, KeyedOnceAdopted, Unused, Holds, NoneAssumption
<1> QED BY <1>6, <1>9, <1>10, <1>11, <1>12 DEF KeyInvariant

\* CheckTakeover preserves the invariant.
LEMMA CheckTakeoverKeeps ==
  ASSUME KeyInvariant, NEW d \in Desktops, CheckTakeover(d)
  PROVE  KeyInvariant'
<1>1. PICK p \in {"cleared", "lost"}: desktop' = [desktop EXCEPT ![d].phase = p]
  BY DEF CheckTakeover
<1>2. /\ desktop \in [Desktops -> DesktopRecords]
      /\ desktop[d].phase = "starting"
  BY DEF KeyInvariant, TypeOK, CheckTakeover
<1>3. desktop' \in [Desktops -> DesktopRecords]
  BY <1>1, <1>2, DesktopFields DEF DesktopPhases
<1>4. TypeOK'
  BY <1>3 DEF KeyInvariant, TypeOK, CheckTakeover
<1>5. KeepsSkeleton
  BY <1>1, <1>2, SkeletonOfDesktops DEF CheckTakeover
<1>6. ViewerReferences'
  BY <1>5, ViewersKept DEF CheckTakeover
<1> QED BY <1>4, <1>5, <1>6, Kept

\* AdoptSession preserves the invariant.
LEMMA AdoptSessionKeeps ==
  ASSUME KeyInvariant, NEW d \in Desktops, NEW s \in Sessions, AdoptSession(d, s)
  PROVE  KeyInvariant'
<1> DEFINE k == desktop[d].key
<1>1. /\ session \in [Sessions -> SessionRecords]
      /\ cache \in [Keys -> Sessions \cup {None}]
      /\ desktop \in [Desktops -> DesktopRecords]
      /\ desktop[d].phase = "cleared"
      /\ desktop' = [desktop EXCEPT ![d].phase = "adopting", ![d].session = s]
      /\ viewer' = viewer
  BY DEF KeyInvariant, TypeOK, AdoptSession
<1>2. \/ s = cache[k] /\ cache' = cache /\ session' = session
      \/ /\ cache[k] = None
         /\ Unused(s)
         /\ session' = [session EXCEPT ![s] = NewSession(s)]
         /\ cache' = [cache EXCEPT ![k] = s]
  BY DEF AdoptSession
<1>3. /\ desktop' \in [Desktops -> DesktopRecords]
      /\ desktop'[d].phase = "adopting"
      /\ desktop'[d].session = s
      /\ desktop'[d].key = k
      /\ \A e \in Desktops \ {d}: desktop'[e] = desktop[e]
  <2>1. [desktop[d] EXCEPT !.phase = "adopting", !.session = s] \in DesktopRecords
    BY <1>1 DEF DesktopRecords
  <2> QED BY <1>1, <2>1
<1>4. k \in Keys /\ ~Holds(d)
  BY <1>1 DEF KeyInvariant, ObjectReferences
<1>5. NewSession(s) \in SessionRecords /\ NewSession(s).key = None
        /\ NewSession(s).mode = "unknown"
  BY NewSessionType DEF NewSession
<1>6. \A v \in Viewers: /\ viewer[v].session \in Sessions \cup {None}
                        /\ viewer[v].found \in Sessions \cup {None}
  BY ViewerFields DEF KeyInvariant, TypeOK
<1>7. \A e \in Desktops: desktop[e].session \in Sessions \cup {None}
  BY <1>1, DesktopFields
<1>8. TypeOK'
  <2>1. session' \in [Sessions -> SessionRecords]
    BY <1>1, <1>2, <1>5
  <2>2. cache' \in [Keys -> Sessions \cup {None}]
    BY <1>1, <1>2
  <2> QED BY <1>3, <2>1, <2>2 DEF KeyInvariant, TypeOK, AdoptSession
<1>9. CASE s = cache[k] /\ cache' = cache /\ session' = session
  <2>1. ViewerReferences'
    BY <1>1, <1>9 DEF KeyInvariant, ViewerReferences, Unused
  <2>2. ObjectReferences'
    BY <1>3, <1>4, <1>9, NoneAssumption
       DEF KeyInvariant, ObjectReferences, Unused, Holds, NoneAssumption
  <2>3. OneKeyPerObject'
    BY <1>3, <1>4, <1>9, NoneAssumption
       DEF KeyInvariant, OneKeyPerObject, Holds, NoneAssumption
  <2>4. KeyedOnceAdopted'
    BY <1>1, <1>3, <1>4, <1>9 DEF KeyInvariant, KeyedOnceAdopted, Unused, Holds
  <2> QED BY <1>8, <2>1, <2>2, <2>3, <2>4 DEF KeyInvariant
<1>10. CASE /\ cache[k] = None
            /\ Unused(s)
            /\ session' = [session EXCEPT ![s] = NewSession(s)]
            /\ cache' = [cache EXCEPT ![k] = s]
  <2>1. /\ session'[s].key = None
        /\ session'[s].mode = "unknown"
        /\ \A t \in Sessions \ {s}: session'[t] = session[t]
        /\ cache'[k] = s
        /\ \A l \in Keys \ {k}: cache'[l] = cache[l]
    BY <1>1, <1>4, <1>5, <1>10
  <2>2. /\ \A l \in Keys: cache[l] # s
        /\ \A e \in Desktops: desktop[e].session # s
        /\ \A v \in Viewers: viewer[v].session # s /\ viewer[v].found # s
    BY <1>10, UnusedUnreferenced
  <2>3. ViewerReferences'
    BY <1>1, <1>6, <2>1, <2>2 DEF KeyInvariant, ViewerReferences, Unused
  <2>4. ObjectReferences'
    BY <1>1, <1>3, <1>4, <1>7, <2>1, <2>2, NoneAssumption
       DEF KeyInvariant, ObjectReferences, Unused, Holds, NoneAssumption
  <2>5. OneKeyPerObject'
    BY <1>1, <1>3, <1>4, <1>7, <2>1, <2>2, NoneAssumption
       DEF KeyInvariant, OneKeyPerObject, Holds, NoneAssumption
  <2>6. KeyedOnceAdopted'
    BY <1>1, <1>3, <1>4, <1>7, <2>1, <2>2
       DEF KeyInvariant, KeyedOnceAdopted, Unused, Holds
  <2> QED BY <1>8, <2>3, <2>4, <2>5, <2>6 DEF KeyInvariant
<1> QED BY <1>2, <1>9, <1>10

\* AssignSession preserves the invariant.
LEMMA AssignSessionKeeps ==
  ASSUME KeyInvariant, NEW d \in Desktops, AssignSession(d)
  PROVE  KeyInvariant'
<1> DEFINE s == desktop[d].session
           k == desktop[d].key
<1>1. /\ session \in [Sessions -> SessionRecords]
      /\ desktop \in [Desktops -> DesktopRecords]
      /\ desktop[d].phase = "adopting"
      /\ session' = [session EXCEPT ![s].mode = "unattended", ![s].desktop = d,
                                    ![s].key = k, ![s].access = desktop[d].access]
      /\ desktop' = [desktop EXCEPT ![d].phase = "registered"]
      /\ cache' = cache
      /\ viewer' = viewer
  BY DEF KeyInvariant, TypeOK, AssignSession
<1>2. s \in Sessions /\ k \in Keys /\ Holds(d) /\ ~Unused(s)
  <2>1. s \in Sessions \cup {None}
    BY <1>1, DesktopFields
  <2> QED BY <1>1, <2>1 DEF KeyInvariant, ObjectReferences, Holds
<1>3. /\ session' \in [Sessions -> SessionRecords]
      /\ session'[s].mode = "unattended"
      /\ session'[s].key = k
      /\ \A t \in Sessions \ {s}: session'[t] = session[t]
  <2> DEFINE r == [session[s] EXCEPT !.mode = "unattended", !.desktop = d, !.key = k,
                                      !.access = desktop[d].access]
  <2>1. session[s] \in SessionRecords /\ desktop[d].access \in BOOLEAN
    BY <1>1, <1>2 DEF DesktopRecords
  <2>2. r \in SessionRecords /\ r.mode = "unattended" /\ r.key = k
    BY <1>2, <2>1 DEF SessionRecords, Modes
  <2>3. session' = [session EXCEPT ![s] = r]
    BY <1>1, <1>2
  <2> HIDE DEF r
  <2> QED BY <1>1, <1>2, <2>2, <2>3
<1>4. /\ desktop' \in [Desktops -> DesktopRecords]
      /\ desktop'[d].phase = "registered"
      /\ \A e \in Desktops: /\ desktop'[e].key = desktop[e].key
                            /\ desktop'[e].session = desktop[e].session
      /\ \A e \in Desktops \ {d}: desktop'[e].phase = desktop[e].phase
  <2>1. [desktop[d] EXCEPT !.phase = "registered"] \in DesktopRecords
    BY <1>1, DesktopFields DEF DesktopPhases
  <2> QED BY <1>1, <2>1
<1>5. /\ cache \in [Keys -> Sessions \cup {None}]
      /\ \A e \in Desktops: desktop[e].session \in Sessions \cup {None}
      /\ \A v \in Viewers: /\ viewer[v].session \in Sessions \cup {None}
                           /\ viewer[v].found \in Sessions \cup {None}
  BY DesktopFields, ViewerFields DEF KeyInvariant, TypeOK
<1>6. TypeOK'
  BY <1>3, <1>4 DEF KeyInvariant, TypeOK, AssignSession
<1>7. ViewerReferences'
  BY <1>1, <1>3, <1>5 DEF KeyInvariant, ViewerReferences, Unused
<1> HIDE DEF s, k
<1>8. ObjectReferences'
  <2>1. ObjectReferences /\ s = desktop[d].session /\ desktop[d].key = k
    BY DEF KeyInvariant, s, k
  <2>2. \A t \in Sessions: session[t].mode # "unused" =>
          session'[t].mode # "unused"
    BY <1>3
  <2>3. \A c \in Keys: cache'[c] # None => session'[cache'[c]].mode # "unused"
    BY <1>1, <1>5, <2>1, <2>2 DEF ObjectReferences, Unused
  <2>4. \A e \in Desktops: Holds(e)' => session'[desktop'[e].session].mode # "unused"
    BY <1>4, <1>5, <2>1, <2>2 DEF ObjectReferences, Unused, Holds
  <2>5. \A e \in Desktops:
          /\ desktop'[e].phase # "off" => desktop'[e].key \in Keys
          /\ desktop'[e].phase \in {"off", "starting", "cleared"} => ~Holds(e)'
          /\ desktop'[e].phase \in {"adopting", "registered", "serving", "closing"}
               => Holds(e)'
    BY <1>1, <1>2, <1>4, <2>1 DEF ObjectReferences, Holds
  <2> QED BY <2>3, <2>4, <2>5 DEF ObjectReferences, Unused
<1>9. OneKeyPerObject'
  <2>1. OneKeyPerObject /\ s = desktop[d].session /\ desktop[d].key = k
    BY DEF KeyInvariant, s, k
  <2>2. /\ \A j, l \in Keys: (cache'[j] # None /\ cache'[j] = cache'[l]) => j = l
        /\ \A l \in Keys, e \in Desktops:
             (Holds(e)' /\ cache'[l] = desktop'[e].session) => desktop'[e].key = l
        /\ \A e, f \in Desktops:
             (Holds(e)' /\ desktop'[e].session = desktop'[f].session)
               => desktop'[e].key = desktop'[f].key
    BY <1>1, <1>4, <2>1 DEF OneKeyPerObject, Holds
  <2>3. \A l \in Keys: cache'[l] # None => session'[cache'[l]].key \in {l, None}
    <3>1. ASSUME NEW l \in Keys, cache'[l] # None
          PROVE  session'[cache'[l]].key \in {l, None}
      <4>1. cache'[l] \in Sessions /\ session[cache'[l]].key \in {l, None}
        BY <1>1, <1>5, <2>1, <3>1 DEF OneKeyPerObject
      <4>2. CASE cache'[l] = s
        <5>1. k = l
          BY <1>1, <1>2, <2>1, <4>2 DEF OneKeyPerObject
        <5> QED BY <1>3, <4>2, <5>1
      <4>3. CASE cache'[l] # s
        BY <1>3, <4>1, <4>3
      <4> QED BY <4>2, <4>3
    <3> QED BY <3>1
  <2>4. \A e \in Desktops: Holds(e)' =>
          session'[desktop'[e].session].key \in {desktop'[e].key, None}
    BY <1>2, <1>3, <1>4, <1>5, <2>1 DEF OneKeyPerObject, Holds
  <2> QED BY <2>2, <2>3, <2>4 DEF OneKeyPerObject
<1>10. KeyedOnceAdopted'
  <2>1. KeyedOnceAdopted /\ k # None
    BY <1>2, NoneAssumption DEF KeyInvariant, NoneAssumption
  <2>2. \A e \in Desktops: (Holds(e)' /\ desktop'[e].phase # "adopting") =>
          session'[desktop'[e].session].key # None
    <3>1. \A e \in Desktops: (Holds(e)' /\ desktop'[e].phase # "adopting") =>
            /\ desktop'[e].session \in Sessions
            /\ e = d \/ session[desktop'[e].session].key # None
      BY <1>4, <1>5, <2>1 DEF KeyedOnceAdopted, Holds
    <3>2. desktop'[d].session = s
      BY <1>4 DEF s
    <3> QED BY <1>3, <2>1, <3>1, <3>2
  <2>3. \A t \in Sessions: session'[t].mode = "unattended" =>
          session'[t].key # None
    BY <1>3, <2>1 DEF KeyedOnceAdopted
  <2>4. ASSUME NEW t \in Sessions,
               session'[t].mode # "unused", session'[t].key = None
        PROVE  \E e \in Desktops: /\ desktop'[e].phase = "adopting"
                                  /\ desktop'[e].session = t
    <3>1. t # s /\ session[t].key = None /\ session[t].mode # "unused"
      BY <1>3, <2>1, <2>4
    <3>2. PICK e \in Desktops: desktop[e].phase = "adopting" /\ desktop[e].session = t
      BY <2>1, <3>1 DEF KeyedOnceAdopted, Unused
    <3>3. e # d
      BY <3>1, <3>2 DEF s
    <3> QED BY <1>4, <3>2, <3>3
  <2> QED BY <2>2, <2>3, <2>4 DEF KeyedOnceAdopted, Unused
<1> QED BY <1>6, <1>7, <1>8, <1>9, <1>10 DEF KeyInvariant

\* ChangeWindowsSession preserves the invariant.
LEMMA ChangeWindowsSessionKeeps ==
  ASSUME KeyInvariant, NEW v \in Viewers, NEW k \in Keys, NEW new \in Sessions,
         ChangeWindowsSession(v, k, new)
  PROVE  KeyInvariant'
<1> DEFINE s == viewer[v].session
<1>1. /\ session \in [Sessions -> SessionRecords]
      /\ cache \in [Keys -> Sessions \cup {None}]
      /\ viewer \in [Viewers -> ViewerRecords]
      /\ Interruptible(v)
      /\ s # None
      /\ session[s].mode = "unattended"
      /\ Unused(new)
      /\ session' = [session EXCEPT ![s].viewers = @ \ {v},
                                    ![new] = CreateNew(s, k)]
      /\ desktop' = ViewerDisconnected(session[s].desktop, v)
      /\ cache' = [cache EXCEPT ![k] = new]
      /\ viewer' = [viewer EXCEPT ![v].session = new]
  BY DEF KeyInvariant, TypeOK, ChangeWindowsSession
<1>2. /\ s \in Sessions
      /\ s # new
      /\ session[s].key \in Keys
      /\ session[s].desktop \in Desktops \cup {None}
  <2>1. s \in Sessions
    BY <1>1, ViewerFields
  <2> QED BY <1>1, <2>1, SessionFields DEF KeyInvariant, KeyedOnceAdopted, Unused
<1>3. /\ session' \in [Sessions -> SessionRecords]
      /\ session'[new].key = k
      /\ session'[new].mode = "unattended"
      /\ session'[s].key = session[s].key
      /\ session'[s].mode = session[s].mode
      /\ \A t \in Sessions \ {s, new}: session'[t] = session[t]
  <2> DEFINE r == [session[s] EXCEPT !.viewers = @ \ {v}]
             c == CreateNew(s, k)
  <2>1. session[s] \in SessionRecords
    BY <1>1, <1>2
  <2>2. r \in SessionRecords /\ r.key = session[s].key /\ r.mode = session[s].mode
    BY <2>1 DEF SessionRecords
  <2>3. c \in SessionRecords /\ c.key = k /\ c.mode = session[s].mode
    BY <2>1 DEF CreateNew, SessionRecords
  <2>4. session' = [session EXCEPT ![s] = r, ![new] = c]
    BY <1>1, <1>2
  <2>5. session \in [Sessions -> SessionRecords] /\ s \in Sessions /\ s # new
    BY <1>1, <1>2
  <2> HIDE DEF r, c, s
  <2>6. /\ session' \in [Sessions -> SessionRecords]
        /\ session'[new] = c
        /\ session'[s] = r
        /\ \A t \in Sessions \ {s, new}: session'[t] = session[t]
    BY <2>2, <2>3, <2>4, <2>5
  <2> QED BY <1>1, <2>2, <2>3, <2>6
<1>4. /\ desktop' \in [Desktops -> DesktopRecords]
      /\ \A d \in Desktops:
           /\ desktop'[d].key = desktop[d].key
           /\ desktop'[d].session = desktop[d].session
           /\ \/ desktop'[d].phase = desktop[d].phase
              \/ /\ desktop[d].phase \in {"registered", "serving", "closing"}
                 /\ desktop'[d].phase = "closing"
  BY <1>1, <1>2, DesktopsAfterCalls
<1>5. /\ cache' \in [Keys -> Sessions \cup {None}]
      /\ cache'[k] = new
      /\ \A l \in Keys \ {k}: cache'[l] = cache[l]
  BY <1>1
<1>6. /\ viewer' \in [Viewers -> ViewerRecords]
      /\ viewer'[v].phase = viewer[v].phase
      /\ viewer'[v].key = viewer[v].key
      /\ viewer'[v].session = new
      /\ viewer'[v].found = viewer[v].found
      /\ viewer'[v].prompt = viewer[v].prompt
      /\ viewer'[v].attends = viewer[v].attends
      /\ \A w \in Viewers \ {v}: viewer'[w] = viewer[w]
  <2>1. [viewer[v] EXCEPT !.session = new] \in ViewerRecords
    BY <1>1 DEF ViewerRecords
  <2> QED BY <1>1, <2>1
<1>7. TypeOK'
  <2>1. commands' \subseteq Commands
    <3>1. Relaunch(k, TRUE, {v}) \in Commands
      BY CommandType
    <3> QED BY <3>1 DEF KeyInvariant, TypeOK, ChangeWindowsSession, SendToAgent
  <2>2. /\ request' \in [Keys -> Requests]
        /\ consent' \in [Keys -> {"free", "required", "given"}]
    BY <1>2 DEF KeyInvariant, TypeOK, ChangeWindowsSession, Requests
  <2> QED
    BY <1>3, <1>4, <1>5, <1>6, <2>1, <2>2, EventType
       DEF KeyInvariant, TypeOK, ChangeWindowsSession
<1>8. /\ \A l \in Keys: cache[l] # new
      /\ \A d \in Desktops: desktop[d].session # new
      /\ \A w \in Viewers: viewer[w].session # new /\ viewer[w].found # new
  BY <1>1, UnusedUnreferenced
<1>9. /\ \A d \in Desktops: desktop[d].session \in Sessions \cup {None}
      /\ \A w \in Viewers: /\ viewer[w].session \in Sessions \cup {None}
                           /\ viewer[w].found \in Sessions \cup {None}
  BY DesktopFields, ViewerFields DEF KeyInvariant, TypeOK
<1>10. \A t \in Sessions \ {new}: /\ session'[t].key = session[t].key
                                  /\ session'[t].mode = session[t].mode
  BY <1>3
<1>11. \A d \in Desktops: Holds(d)' = Holds(d)
  BY <1>4 DEF Holds
<1> HIDE DEF s
<1>12. ViewerReferences'
  <2>1. /\ ViewerReferences
        /\ viewer[v].phase # "off" /\ viewer[v].prompt = None
    BY <1>1 DEF KeyInvariant, ViewerReferences, Interruptible
  <2> QED
    BY <1>3, <1>6, <1>8, <1>9, <1>10, <2>1, NoneAssumption
       DEF ViewerReferences, Unused, NoneAssumption
<1>13. ObjectReferences'
  <2>1. ObjectReferences /\ cache \in [Keys -> Sessions \cup {None}]
    BY <1>1 DEF KeyInvariant
  <2>2. \A l \in Keys: cache'[l] # None => session'[cache'[l]].mode # "unused"
    BY <1>3, <1>5, <1>8, <1>10, <2>1 DEF ObjectReferences, Unused
  <2>3. \A d \in Desktops: Holds(d)' => session'[desktop'[d].session].mode # "unused"
    BY <1>4, <1>8, <1>9, <1>10, <2>1 DEF ObjectReferences, Unused, Holds
  <2> QED BY <1>4, <2>1, <2>2, <2>3 DEF ObjectReferences, Unused, Holds
<1>14. OneKeyPerObject'
  <2>1. OneKeyPerObject /\ cache \in [Keys -> Sessions \cup {None}]
    BY <1>1 DEF KeyInvariant
  <2>2. /\ \A j, l \in Keys: (cache'[j] # None /\ cache'[j] = cache'[l]) => j = l
        /\ \A l \in Keys: cache'[l] # None => session'[cache'[l]].key \in {l, None}
    BY <1>3, <1>5, <1>8, <1>10, <2>1 DEF OneKeyPerObject
  <2>3. \A l \in Keys, d \in Desktops:
          (Holds(d)' /\ cache'[l] = desktop'[d].session) => desktop'[d].key = l
    BY <1>4, <1>5, <1>8, <1>11, <2>1 DEF OneKeyPerObject
  <2>4. /\ \A d, e \in Desktops:
             (Holds(d)' /\ desktop'[d].session = desktop'[e].session)
               => desktop'[d].key = desktop'[e].key
        /\ \A d \in Desktops: Holds(d)' =>
             session'[desktop'[d].session].key \in {desktop'[d].key, None}
    BY <1>4, <1>8, <1>9, <1>10, <1>11, <2>1 DEF OneKeyPerObject, Holds
  <2> QED BY <2>2, <2>3, <2>4 DEF OneKeyPerObject
<1>15. KeyedOnceAdopted'
  BY <1>3, <1>4, <1>8, <1>9, <1>10, <1>11, NoneAssumption
     DEF KeyInvariant, KeyedOnceAdopted, Unused, Holds, NoneAssumption
<1> QED BY <1>7, <1>12, <1>13, <1>14, <1>15 DEF KeyInvariant

\* DesktopOnDisconnected preserves the invariant.
LEMMA DesktopOnDisconnectedKeeps ==
  ASSUME KeyInvariant, NEW d \in Desktops, DesktopOnDisconnected(d)
  PROVE  KeyInvariant'
<1> DEFINE s == desktop[d].session
<1>1. /\ session \in [Sessions -> SessionRecords]
      /\ cache \in [Keys -> Sessions \cup {None}]
      /\ signal \in [Sessions -> {"reset", "set", "disposed"}]
      /\ commands \subseteq Commands
      /\ desktop \in [Desktops -> DesktopRecords]
      /\ viewer \in [Viewers -> ViewerRecords]
      /\ desktop[d].phase = "lost"
      /\ desktop' = [desktop EXCEPT ![d] = NoDesktop]
  BY DEF KeyInvariant, TypeOK, DesktopOnDisconnected
<1>2. /\ s \in Sessions \cup {None}
      /\ s # None => session[s].key \in Keys
  <2>1. s \in Sessions \cup {None}
    BY <1>1, DesktopFields
  <2>2. s \in Sessions => session[s].key \in Keys \cup {None}
    BY <1>1, SessionFields
  <2> QED BY <1>1, <2>1, <2>2 DEF KeyInvariant, KeyedOnceAdopted, Holds
(* What becomes of the records of the objects. *)
<1>3. ASSUME NEW ss \in [Sessions -> SessionRecords],
             \A t \in Sessions: ss[t].key = session[t].key
                                  /\ ss[t].mode = session[t].mode,
             session' = Forget(d, ss)
      PROVE  /\ session' \in [Sessions -> SessionRecords]
             /\ \A t \in Sessions: session'[t].key = session[t].key
                                     /\ session'[t].mode = session[t].mode
  <2>1. \A t \in Sessions: [ss[t] EXCEPT !.desktop = None] \in SessionRecords
    BY <1>3, SessionFields
  <2>2. \A t \in Sessions: \/ session'[t] = ss[t]
                           \/ session'[t] = [ss[t] EXCEPT !.desktop = None]
    BY <1>3 DEF Forget
  <2>3. session' \in [Sessions -> SessionRecords]
    BY <1>3, <2>1 DEF Forget
  <2>4. ASSUME NEW t \in Sessions
        PROVE  session'[t].key = session[t].key /\ session'[t].mode = session[t].mode
    <3>1. ss[t] \in SessionRecords
      BY <1>3
    <3>2. session'[t].key = ss[t].key /\ session'[t].mode = ss[t].mode
      BY <2>2, <3>1 DEF SessionRecords
    <3> QED BY <1>3, <3>2
  <2> QED BY <2>3, <2>4
<1>4. /\ session' \in [Sessions -> SessionRecords]
      /\ \A t \in Sessions: session'[t].key = session[t].key
                              /\ session'[t].mode = session[t].mode
      /\ cache' \in [Keys -> Sessions \cup {None}]
      /\ \A k \in Keys: cache'[k] \in {cache[k], None}
      /\ commands' \subseteq Commands
      /\ signal' \in [Sessions -> {"reset", "set", "disposed"}]
  <2>1. CASE session' = Forget(d, session) /\ UNCHANGED <<cache, commands>>
    <3>1. signal' \in [Sessions -> {"reset", "set", "disposed"}]
      BY <1>1, <2>1
         DEF DesktopOnDisconnected, AttendedEnds, UnattendedEnds, ResetSignal
    <3> QED BY <1>1, <1>3, <2>1, <3>1
  <2>2. CASE s \in Sessions /\ RestartScreenCaster(d, s) /\ signal' = ResetSignal(s)
    <3>2. RelaunchOf(s) \in Commands
      BY <1>1, <1>2, <2>2, NoneAssumption, RelaunchType DEF NoneAssumption
    <3> DEFINE a == session[s].agent \/ (session[s].device /\ agentOnline)
               r == [session[s] EXCEPT !.streamer = "reconnecting", !.agent = a]
               ss == [session EXCEPT ![s] = r]
    <3>3. r \in SessionRecords /\ r.key = session[s].key /\ r.mode = session[s].mode
      <4>1. session[s] \in SessionRecords /\ a \in BOOLEAN
        BY <1>1, <2>2, SessionFields DEF KeyInvariant, TypeOK
      <4> HIDE DEF a
      <4> QED BY <4>1 DEF SessionRecords, StreamerStates
    <3>4. session' = Forget(d, ss)
      BY <1>1, <2>2 DEF RestartScreenCaster
    <3> HIDE DEF r
    <3>5. /\ ss \in [Sessions -> SessionRecords]
          /\ \A t \in Sessions: ss[t].key = session[t].key
                                  /\ ss[t].mode = session[t].mode
      BY <1>1, <2>2, <3>3
    <3>6. commands' \subseteq Commands /\ cache' = cache
      BY <1>1, <2>2, <3>2 DEF RestartScreenCaster
    <3>7. signal' \in [Sessions -> {"reset", "set", "disposed"}]
      BY <1>1, <2>2 DEF ResetSignal
    <3> HIDE DEF ss
    <3> QED BY <1>1, <1>3, <3>4, <3>5, <3>6, <3>7
  <2>3. CASE /\ s \in Sessions
             /\ TryRemove(d, session[s].key)
             /\ LET cached == cache[session[s].key] IN
                signal' = IF cached = None
                          THEN ResetSignal(s)
                          ELSE IF session[cached].disposed
                          THEN ResetSignal(s)
                          ELSE [ResetSignal(s) EXCEPT
                                  ![session[cached].signal] = "disposed"]
    <3> DEFINE c == cache[session[s].key]
               ss == IF c = None THEN session ELSE Disposed(c)
    <3>1. c \in Sessions \cup {None}
      BY <1>1, <1>2, <2>3, NoneAssumption DEF NoneAssumption
    <3>2. /\ ss \in [Sessions -> SessionRecords]
          /\ \A t \in Sessions: ss[t].key = session[t].key
                                  /\ ss[t].mode = session[t].mode
      <4>1. ASSUME NEW t \in Sessions
            PROVE
              /\ [session[t] EXCEPT !.disposed = TRUE] \in SessionRecords
              /\ [session[t] EXCEPT !.disposed = TRUE].key = session[t].key
              /\ [session[t] EXCEPT !.disposed = TRUE].mode = session[t].mode
        <5>1. session[t] \in SessionRecords
          BY <1>1
        <5> QED BY <5>1 DEF SessionRecords
      <4> HIDE DEF c
      <4> QED BY <1>1, <3>1, <4>1 DEF Disposed
    <3>3. /\ session' = Forget(d, ss)
          /\ cache' = [cache EXCEPT ![session[s].key] = None]
          /\ commands' = commands
      BY <2>3 DEF TryRemove
    <3>4. signal' \in [Sessions -> {"reset", "set", "disposed"}]
      BY <1>1, <2>3 DEF ResetSignal
    <3> HIDE DEF ss
    <3> QED BY <1>1, <1>3, <3>2, <3>3, <3>4
  <2>4. CASE /\ s \in Sessions
             /\ session' = Forget(d, [session EXCEPT ![s].streamer = "disconnected"])
             /\ signal' = ResetSignal(s)
             /\ UNCHANGED <<cache, commands>>
    <3> DEFINE r == [session[s] EXCEPT !.streamer = "disconnected"]
               ss == [session EXCEPT ![s] = r]
    <3>1. r \in SessionRecords /\ r.key = session[s].key /\ r.mode = session[s].mode
      <4>1. session[s] \in SessionRecords
        BY <1>1, <2>4
      <4> QED BY <4>1 DEF SessionRecords, StreamerStates
    <3>2. session' = Forget(d, ss)
      BY <1>1, <2>4
    <3> HIDE DEF r
    <3>3. /\ ss \in [Sessions -> SessionRecords]
          /\ \A t \in Sessions: ss[t].key = session[t].key
                                  /\ ss[t].mode = session[t].mode
      BY <1>1, <2>4, <3>1
    <3>4. signal' \in [Sessions -> {"reset", "set", "disposed"}]
      BY <1>1, <2>4 DEF ResetSignal
    <3> HIDE DEF ss
    <3> QED BY <1>1, <1>3, <2>4, <3>2, <3>3, <3>4
  <2> QED
    BY <1>2, <2>1, <2>2, <2>3, <2>4
       DEF DesktopOnDisconnected, AttendedEnds, UnattendedEnds
<1>5. /\ desktop' \in [Desktops -> DesktopRecords]
      /\ desktop'[d].phase = "off"
      /\ desktop'[d].session = None
      /\ \A e \in Desktops \ {d}: desktop'[e] = desktop[e]
  <2>1. NoDesktop.phase = "off" /\ NoDesktop.session = None
    BY DEF NoDesktop
  <2> QED BY <1>1, <2>1, EmptyRecordsType
(* The viewers it was prompting for, and those of an attended session.       *)
<1>6. ASSUME NEW v \in Viewers
      PROVE  LET r == FailPrompts(d)[v] IN
             /\ r \in ViewerRecords
             /\ \/ viewer'[v] = r
                \/ viewer'[v] = [r EXCEPT !.phase = "leaving"] /\ Stoppable(v)
  <2>1. FailPrompts(d)[v] \in {viewer[v], Answered(v, "idle")}
    BY DEF FailPrompts
  <2>2. FailPrompts(d)[v] \in ViewerRecords
    BY <1>1, <2>1, AnsweredType DEF ViewerPhases
  <2>3. \/ viewer' = FailPrompts(d)
        \/ viewer' = ScreenCasterDisconnected(session[s].viewers, FailPrompts(d))
    BY DEF DesktopOnDisconnected, AttendedEnds, UnattendedEnds
  <2> QED BY <2>2, <2>3 DEF ScreenCasterDisconnected
<1>7. TypeOK'
  <2>1. \/ viewer' = FailPrompts(d)
        \/ viewer' = ScreenCasterDisconnected(session[s].viewers, FailPrompts(d))
    BY DEF DesktopOnDisconnected, AttendedEnds, UnattendedEnds
  <2>2. DOMAIN viewer' = Viewers /\ viewer' = [v \in Viewers |-> viewer'[v]]
    BY <2>1 DEF FailPrompts, ScreenCasterDisconnected
  <2>3. ASSUME NEW v \in Viewers PROVE viewer'[v] \in ViewerRecords
    <3> DEFINE r == FailPrompts(d)[v]
    <3>1. /\ r \in ViewerRecords
          /\ viewer'[v] = r \/ viewer'[v] = [r EXCEPT !.phase = "leaving"]
      BY <1>6
    <3> HIDE DEF r
    <3> QED BY <3>1, ViewerFields DEF ViewerPhases
  <2>4. viewer' \in [Viewers -> ViewerRecords]
    BY <2>2, <2>3
  <2> QED BY <1>4, <1>5, <2>4 DEF KeyInvariant, TypeOK, DesktopOnDisconnected
<1>8. KeepsSkeleton
  BY <1>1, <1>4, <1>5 DEF KeepsSkeleton, Unused
<1>9. ASSUME NEW v \in Viewers
      PROVE  viewer'[v] = viewer[v] \/ viewer'[v] = NoViewer \/ GoesOn(v)
  <2> DEFINE r == FailPrompts(d)[v]
  <2>0. ViewerReferences /\ viewer[v] \in ViewerRecords
    BY <1>1 DEF KeyInvariant
  <2>1. r = IF viewer[v].prompt = d THEN Answered(v, "idle") ELSE viewer[v]
    BY DEF FailPrompts
  <2>2. CASE viewer'[v] = r /\ viewer[v].prompt = d
    BY <2>1, <2>2, AnsweredGoesOn, NoneAssumption DEF NoneAssumption
  <2>3. CASE viewer'[v] = r /\ viewer[v].prompt # d
    BY <2>1, <2>3
  <2>4. CASE viewer'[v] = [r EXCEPT !.phase = "leaving"] /\ Stoppable(v)
    <3>1. /\ r.key = viewer[v].key
          /\ r.session = viewer[v].session
          /\ r.found = viewer[v].found
          /\ r.attends = viewer[v].attends
          /\ r.prompt \in {viewer[v].prompt, None}
      BY <2>0, <2>1, <2>4
         DEF Answered, Stoppable, Interruptible, ViewerReferences, ViewerRecords
    <3>2. r \in ViewerRecords
      BY <1>6
    <3> HIDE DEF r
    <3>3. /\ viewer'[v].phase = "leaving"
          /\ viewer'[v].key = viewer[v].key
          /\ viewer'[v].session = viewer[v].session
          /\ viewer'[v].found = viewer[v].found
          /\ viewer'[v].attends = viewer[v].attends
          /\ viewer'[v].prompt \in {viewer[v].prompt, None}
      BY <2>4, <3>1, <3>2 DEF ViewerRecords
    <3> QED BY <2>4, <3>3 DEF GoesOn, Stoppable, Interruptible
  <2> QED BY <1>6, <2>2, <2>3, <2>4
<1>10. ViewerReferences'
  BY <1>8, <1>9, ViewersGoOn
<1> QED BY <1>7, <1>8, <1>10, Kept

\* The invariant holds when the server starts.
LEMMA InitKeyInvariant == Init => KeyInvariant
<1> SUFFICES ASSUME Init PROVE KeyInvariant
  OBVIOUS
<1>1. \A s \in Sessions:
        LET r == [NewSession(s) EXCEPT !.mode = "unused"] IN
        r \in SessionRecords /\ r.mode = "unused"
  BY DEF NewSession, SessionRecords, Modes, StreamerStates
<1>2. /\ NoDesktop.phase = "off"
      /\ NoDesktop.session = None
      /\ NoViewer.phase = "off"
      /\ NoViewer.session = None
      /\ NoViewer.found = None
      /\ NoViewer.prompt = None
      /\ ~NoViewer.attends
  BY DEF NoDesktop, NoViewer
<1>3. /\ session \in [Sessions -> SessionRecords]
      /\ \A s \in Sessions: session[s].mode = "unused"
  BY <1>1 DEF Init
<1>4. TypeOK
  BY <1>3, EmptyRecordsType, MaxEventsAssumption
     DEF Init, TypeOK, Requests, MaxEventsAssumption
<1>5. ViewerReferences
  BY <1>2 DEF Init, ViewerReferences
<1>6. ObjectReferences
  BY <1>2 DEF Init, ObjectReferences, Holds
<1>7. OneKeyPerObject
  BY <1>2 DEF Init, OneKeyPerObject, Holds
<1>8. KeyedOnceAdopted
  BY <1>2, <1>3 DEF Init, KeyedOnceAdopted, Holds, Unused
<1> QED BY <1>4, <1>5, <1>6, <1>7, <1>8 DEF KeyInvariant

\* A stuttering step preserves the invariant.
LEMMA StutterKeeps ==
  ASSUME KeyInvariant, UNCHANGED vars
  PROVE  KeyInvariant'
BY DEF KeyInvariant, vars, TypeOK, ViewerReferences, ObjectReferences,
       OneKeyPerObject, KeyedOnceAdopted, Holds, Unused

\* The invariant is inductive: every step, and a stutter, preserves it.
LEMMA NextKeepsKeyInvariant ==
  ASSUME KeyInvariant, [Next]_vars
  PROVE  KeyInvariant'
<1>1. CASE Console
  BY <1>1, RemoteControlKeeps, OpenViewerKeeps, ReopenViewerKeeps,
     SessionFailedToStartKeeps DEF Console
<1>2. CASE Agent
  BY <1>2, LaunchFailsKeeps, LaunchDesktopKeeps, AgentDisconnectsKeeps,
     AgentReconnectsKeeps, AgentConnectsKeeps DEF Agent
<1>3. CASE Desktop
  BY <1>3, CheckTakeoverKeeps, AdoptSessionKeeps, AssignSessionKeeps,
     NotifyRequesterUnattendedReadyKeeps, NotifyViewersRelaunchedKeeps,
     DisconnectViewerKeeps, CastStopsKeeps, NotifySessionChangedKeeps,
     NotifySystemShutdownKeeps, IdleTimerElapsesKeeps, DesktopExitsKeeps,
     DesktopCrashesKeeps, DesktopOnDisconnectedKeeps DEF Desktop
<1>4. CASE Viewer
  BY <1>4, ReceiveNoticeKeeps, FindSessionKeeps, CheckAccessKeeps,
     AttachViewerKeeps, TakeForAttendedKeeps, ConsentGivenKeeps, ConsentRefusedKeeps, StreamOfferedKeeps,
     StreamConnectedKeeps, StreamEndsKeeps, ChangeWindowsSessionKeeps,
     CloseViewerKeeps, ViewerOnDisconnectedKeeps DEF Viewer
<1>5. CASE Service
  BY <1>5, FindExpiredSessionKeeps, ReconnectKeeps, RemoveExpiredSessionKeeps
     DEF Service
<1>6. CASE UNCHANGED vars
  BY <1>6, StutterKeeps
<1> QED BY <1>1, <1>2, <1>3, <1>4, <1>5, <1>6 DEF Next

(* The key invariant holds: the cache, the desktop processes and the        *)
(* viewers refer to constructed objects only, and an object is known under  *)
(* one key, whatever the hubs, the services and their crashes do in         *)
(* between.                                                                 *)
THEOREM KeysAreConsistent == Spec => []KeyInvariant
<1>1. Init => KeyInvariant
  BY InitKeyInvariant
<1>2. KeyInvariant /\ [Next]_vars => KeyInvariant'
  BY NextKeepsKeyInvariant
<1> QED BY <1>1, <1>2, PTL DEF Spec

(* Every variable keeps its type. *)
THEOREM TypeCorrect == Spec => []TypeOK
<1>1. KeyInvariant => TypeOK
  BY DEF KeyInvariant
<1> QED BY <1>1, KeysAreConsistent, PTL

(* RemoteControlSessionCache.TryGetValue hands out, for a key, the session   *)
(* object of that key: an object cached under it bears it, or is being given *)
(* it by the desktop process of that key.                                    *)
THEOREM CacheHandsOutOwnSession == Spec => []CachedUnderOwnKey
<1>1. KeyInvariant => CachedUnderOwnKey
  <2> SUFFICES ASSUME KeyInvariant, NEW k \in Keys, cache[k] # None
               PROVE  \/ session[cache[k]].key = k
                      \/ \E d \in Desktops: /\ desktop[d].phase = "adopting"
                                            /\ desktop[d].session = cache[k]
                                            /\ desktop[d].key = k
    BY DEF CachedUnderOwnKey
  <2>1. cache[k] \in Sessions /\ ~Unused(cache[k])
    BY DEF KeyInvariant, TypeOK, ObjectReferences
  <2>2. session[cache[k]].key \in {k, None}
    BY DEF KeyInvariant, OneKeyPerObject
  <2>3. CASE session[cache[k]].key = None
    <3>1. PICK d \in Desktops: /\ desktop[d].phase = "adopting"
                               /\ desktop[d].session = cache[k]
      BY <2>1, <2>3 DEF KeyInvariant, KeyedOnceAdopted
    <3>2. desktop[d].key = k
      BY <3>1 DEF KeyInvariant, OneKeyPerObject, ObjectReferences
    <3> QED BY <3>1, <3>2
  <2> QED BY <2>2, <2>3
<1> QED BY <1>1, KeysAreConsistent, PTL

(* A registered desktop process holds the session object of the key it was   *)
(* started with: what DesktopHub does in its name - restart, disconnect a    *)
(* viewer, remove from the cache - is done to its own session.               *)
THEOREM DesktopHoldsOwnSession == Spec => []DesktopServesOwnKey
<1>1. KeyInvariant => DesktopServesOwnKey
  <2> SUFFICES ASSUME KeyInvariant, NEW d \in Desktops, Listening(d)
               PROVE  session[desktop[d].session].key = desktop[d].key
    BY DEF DesktopServesOwnKey
  <2>1. /\ desktop[d].session \in Sessions
        /\ session[desktop[d].session].key \in Keys
    BY HeldKeys DEF Listening
  <2> QED
    BY <2>1, NoneAssumption
       DEF KeyInvariant, OneKeyPerObject, Holds, NoneAssumption
<1> QED BY <1>1, KeysAreConsistent, PTL

-----------------------------------------------------------------------------
(* The second half.  First: what most steps leave alone, in the words of   *)
(* the parts of SessionInvariant, and that each part needs no more.        *)

\* Every object keeps its key, mode and signal, and whether it has a device.
ObjectsKept ==
    \A s \in Sessions: /\ session'[s].mode = session[s].mode
                       /\ session'[s].key = session[s].key
                       /\ session'[s].signal = session[s].signal
                       /\ session'[s].device = session[s].device
\* No object is disposed.
DisposalsKept == \A s \in Sessions: session'[s].disposed = session[s].disposed
\* A desktop process goes on with its object, or lets go of it.
HoldersKept ==
    \A d \in Desktops: desktop'[d].session # None =>
        /\ desktop'[d].session = desktop[d].session
        /\ desktop'[d].key = desktop[d].key
        /\ desktop'[d].phase # "adopting" => desktop[d].phase # "adopting"
\* No entry is added to the cache, and no object takes another's place.
CacheShrinks == \A k \in Keys: cache'[k] \in {cache[k], None}
\* k is served after the step.
ServedNext(k) == request'[k].phase \in {"ready", "cloned"}
\* No key is requested, and none that was served stops being so.
RequestsKept ==
    \A k \in Keys: /\ request'[k].session = request[k].session
                   /\ request'[k].phase = "unused" <=> request[k].phase = "unused"
                   /\ Served(k) => ServedNext(k)
\* No viewer comes to take its session for an attended one.
AttendsKept ==
    \A v \in Viewers: viewer'[v].attends =>
        viewer[v].attends /\ viewer'[v].session = viewer[v].session
\* No key comes to be served.
ServedKept == \A k \in Keys: ServedNext(k) => Served(k)

\* References are objects or None.
LEMMA References ==
  ASSUME KeyInvariant
  PROVE  /\ \A k \in Keys: /\ cache[k] \in Sessions \cup {None}
                           /\ request[k] \in Requests
                           /\ request[k].session \in Sessions \cup {None}
         /\ \A s \in Sessions: /\ session[s] \in SessionRecords
                               /\ session[s].signal \in Sessions
                               /\ session[s].key \in Keys \cup {None}
                               /\ session[s].desktop \in Desktops \cup {None}
                               /\ session[s].viewers \in SUBSET Viewers
                               /\ session[s].mode \in Modes
                               /\ session[s].device \in BOOLEAN
                               /\ session[s].disposed \in BOOLEAN
         /\ \A d \in Desktops: /\ desktop[d] \in DesktopRecords
                               /\ desktop[d].session \in Sessions \cup {None}
                               /\ desktop[d].key \in Keys \cup {None}
                               /\ desktop[d].viewers \in SUBSET Viewers
                               /\ desktop[d].left \in SUBSET Viewers
                               /\ desktop[d].cast \in SUBSET Viewers
         /\ \A v \in Viewers: /\ viewer[v] \in ViewerRecords
                              /\ viewer[v].session \in Sessions \cup {None}
                              /\ viewer[v].found \in Sessions \cup {None}
                              /\ viewer[v].key \in Keys \cup {None}
                              /\ viewer[v].prompt \in Desktops \cup {None}
         /\ \A c \in commands: c \in Commands /\ c.key \in Keys /\ c.viewers \in SUBSET Viewers
         /\ \A n \in notices: n.key \in Keys /\ n.viewer \in Viewers
         /\ cleaning \in Keys \cup {None}
<1>1. TypeOK
  BY DEF KeyInvariant
<1>2. \A k \in Keys: request[k] \in Requests /\ request[k].session \in Sessions \cup {None}
  BY <1>1, RequestFields DEF TypeOK
<1>3. \A s \in Sessions: /\ session[s] \in SessionRecords
                         /\ session[s].signal \in Sessions
                         /\ session[s].key \in Keys \cup {None}
                         /\ session[s].desktop \in Desktops \cup {None}
                         /\ session[s].viewers \in SUBSET Viewers
                         /\ session[s].mode \in Modes
                         /\ session[s].device \in BOOLEAN
                         /\ session[s].disposed \in BOOLEAN
  BY <1>1 DEF TypeOK, SessionRecords
<1>4. \A d \in Desktops: /\ desktop[d] \in DesktopRecords
                         /\ desktop[d].session \in Sessions \cup {None}
                         /\ desktop[d].key \in Keys \cup {None}
                         /\ desktop[d].viewers \in SUBSET Viewers
                         /\ desktop[d].left \in SUBSET Viewers
                         /\ desktop[d].cast \in SUBSET Viewers
  BY <1>1 DEF TypeOK, DesktopRecords
<1>5. \A v \in Viewers: /\ viewer[v] \in ViewerRecords
                        /\ viewer[v].session \in Sessions \cup {None}
                        /\ viewer[v].found \in Sessions \cup {None}
                        /\ viewer[v].key \in Keys \cup {None}
                        /\ viewer[v].prompt \in Desktops \cup {None}
  BY <1>1, ViewerFields DEF TypeOK
<1>6. \A c \in commands: c \in Commands /\ c.key \in Keys /\ c.viewers \in SUBSET Viewers
  BY <1>1 DEF TypeOK, Commands
<1> QED BY <1>1, <1>2, <1>3, <1>4, <1>5, <1>6 DEF TypeOK

\* What the objects that are cached, held, looked at or requested have in common.
LEMMA UsedObjects ==
  ASSUME SessionInvariant
  PROVE  /\ \A k \in Keys: cache[k] # None => cache[k] \in Sessions /\ ~Unused(cache[k])
         /\ \A d \in Desktops: Holds(d) =>
              /\ desktop[d].session \in Sessions /\ ~Unused(desktop[d].session)
              /\ desktop[d].key \in Keys
         /\ \A v \in Viewers: viewer[v].session # None =>
              viewer[v].session \in Sessions /\ ~Unused(viewer[v].session)
         /\ \A v \in Viewers: viewer[v].found # None =>
              viewer[v].found \in Sessions /\ ~Unused(viewer[v].found)
         /\ \A s \in Sessions: ~Unused(s) => ~Unused(session[s].signal)
<1>1. KeyInvariant /\ SignalsAreOwn
  BY DEF SessionInvariant
<1>2. \A s \in Sessions: ~Unused(s) => ~Unused(session[s].signal)
  BY <1>1, References DEF SignalsAreOwn, Unused, Assigned
<1>3. ObjectReferences /\ ViewerReferences
  BY <1>1 DEF KeyInvariant
<1>4. \A d \in Desktops: Holds(d) => desktop[d].key \in Keys
  BY <1>3 DEF ObjectReferences, Holds
<1> QED BY <1>1, <1>2, <1>3, <1>4, References DEF ObjectReferences, ViewerReferences, Holds

\* A step that keeps the objects and who holds them keeps the signals' owners.
LEMMA SignalsFrame ==
  ASSUME SessionInvariant, ObjectsKept, HoldersKept,
         \A s \in Sessions: Unused(s) => /\ signal'[s] = signal[s]
                                         /\ session'[s].disposed = session[s].disposed,
         \A s \in Sessions: session'[s].desktop # None =>
            \/ /\ session'[s].desktop = session[s].desktop
               /\ desktop'[session[s].desktop].session # None
            \/ desktop'[session'[s].desktop].session = s
  PROVE  SignalsAreOwn'
<1>1. KeyInvariant /\ SignalsAreOwn
  BY DEF SessionInvariant
<1>2. ASSUME NEW s \in Sessions, Unused(s)' PROVE signal'[s] = "reset" /\ ~session'[s].disposed
  BY <1>1, <1>2 DEF SignalsAreOwn, ObjectsKept, Unused
<1>3. ASSUME NEW s \in Sessions
      PROVE  \/ session'[s].signal = s
             \/ session'[s].mode \in Assigned /\ session'[session'[s].signal].mode \in Assigned
  <2>1. session[s].signal \in Sessions
    BY <1>1, References
  <2> QED BY <1>1, <2>1 DEF SignalsAreOwn, ObjectsKept
<1>4. ASSUME NEW s \in Sessions, session'[s].desktop # None
      PROVE  /\ desktop'[session'[s].desktop].session # None
             /\ session'[desktop'[session'[s].desktop].session].signal = session'[s].signal
  <2> DEFINE d == session[s].desktop
  <2>1. CASE session'[s].desktop = d /\ desktop'[d].session # None
    <3>1. d \in Desktops
      BY <1>1, <1>4, <2>1, References
    <3>2. desktop'[d].session = desktop[d].session /\ desktop[d].session \in Sessions
      BY <1>1, <2>1, <3>1, References DEF HoldersKept
    <3>3. session[desktop[d].session].signal = session[s].signal
      BY <1>1, <1>4, <2>1 DEF SignalsAreOwn
    <3> QED BY <2>1, <3>2, <3>3 DEF ObjectsKept
  <2>2. CASE desktop'[session'[s].desktop].session = s
    BY <2>2, NoneAssumption
  <2> QED BY <1>4, <2>1, <2>2
<1> QED BY <1>2, <1>3, <1>4 DEF SignalsAreOwn, Unused, Holds, Assigned

\* A step that makes no key known that was not requested keeps the keys known
\* only once they are requested.
LEMMA KeysFrame ==
  ASSUME SessionInvariant, ObjectsKept, CacheShrinks, RequestsKept,
         \A c \in commands': c \in commands \/ request[c.key].phase # "unused",
         \A d \in Desktops: \/ desktop'[d].key \in {desktop[d].key, None}
                            \/ request[desktop'[d].key].phase # "unused"
  PROVE  KeysAreRequested'
<1>1. KeyInvariant /\ KeysAreRequested
  BY DEF SessionInvariant
<1>2. ASSUME NEW k \in Keys, request'[k].phase # "unused"
      PROVE  request'[k].session # None /\ session'[request'[k].session].mode # "unused"
  <2>1. request[k].session \in Sessions /\ ~Unused(request[k].session)
    BY <1>1, <1>2, References DEF RequestsKept, KeysAreRequested
  <2> QED BY <2>1, NoneAssumption DEF RequestsKept, ObjectsKept, Unused
<1>3. ASSUME NEW k \in Keys, request'[k].phase = "unused"
      PROVE  /\ cache'[k] = None
             /\ \A s \in Sessions: session'[s].key # k
             /\ \A c \in commands': c.key # k
             /\ \A d \in Desktops: desktop'[d].key # k
  <2>1. request[k].phase = "unused" /\ k # None
    BY <1>3, NoneAssumption DEF RequestsKept
  <2>2. /\ cache[k] = None
        /\ \A s \in Sessions: session[s].key # k
        /\ \A c \in commands: c.key # k
        /\ \A d \in Desktops: desktop[d].key # k
    BY <1>1, <2>1 DEF KeysAreRequested
  <2> QED BY <2>1, <2>2 DEF ObjectsKept, CacheShrinks
<1> QED BY <1>2, <1>3 DEF KeysAreRequested, Unused

\* A step that brings no viewer to a key before it is served keeps it so.
LEMMA ViewedFrame ==
  ASSUME SessionInvariant, ObjectsKept, HoldersKept, CacheShrinks, RequestsKept,
         \A s \in Sessions: session'[s].viewers \subseteq session[s].viewers,
         \A v \in Viewers: \/ viewer'[v].key \in {viewer[v].key, None}
                           \/ ServedNext(viewer'[v].key),
         \A n \in notices': n \in notices \/ ServedNext(n.key),
         \A c \in commands': \/ c \in commands
                             \/ c.viewers # {} => ServedNext(c.key),
         \A d \in Desktops: desktop'[d].viewers # {} =>
            \/ /\ desktop'[d].key = desktop[d].key
               /\ desktop[d].viewers # {}
            \/ desktop'[d].key \in Keys /\ ServedNext(desktop'[d].key)
  PROVE  ViewedOnceServed'
<1>1. KeyInvariant /\ ViewedOnceServed
  BY DEF SessionInvariant
<1>2. ASSUME NEW v \in Viewers, viewer'[v].key # None
      PROVE  ServedNext(viewer'[v].key)
  <2>1. CASE viewer'[v].key = viewer[v].key
    <3>1. viewer[v].key \in Keys
      BY <1>1, <1>2, <2>1, References
    <3>2. Served(viewer[v].key)
      BY <1>1, <3>1, NoneAssumption DEF ViewedOnceServed
    <3> QED BY <2>1, <3>1, <3>2 DEF RequestsKept
  <2> QED BY <1>2, <2>1
<1>3. ASSUME NEW n \in notices' PROVE ServedNext(n.key)
  <2>1. CASE n \in notices
    <3>1. n.key \in Keys /\ Served(n.key)
      BY <1>1, <2>1, References DEF ViewedOnceServed
    <3> QED BY <3>1 DEF RequestsKept
  <2> QED BY <2>1
<1>4. ASSUME NEW c \in commands', c.viewers # {} PROVE ServedNext(c.key)
  <2>1. CASE c \in commands
    <3>1. c.key \in Keys /\ Served(c.key)
      BY <1>1, <1>4, <2>1, References DEF ViewedOnceServed
    <3> QED BY <3>1 DEF RequestsKept
  <2> QED BY <1>4, <2>1
<1>5. ASSUME NEW d \in Desktops, desktop'[d].viewers # {}
      PROVE  desktop'[d].key \in Keys /\ ServedNext(desktop'[d].key)
  <2>1. CASE desktop'[d].key = desktop[d].key /\ desktop[d].viewers # {}
    <3>1. desktop[d].key \in Keys /\ Served(desktop[d].key)
      BY <1>1, <2>1 DEF ViewedOnceServed
    <3> QED BY <2>1, <3>1 DEF RequestsKept
  <2> QED BY <1>5, <2>1
<1>6. ASSUME NEW d \in Desktops, desktop'[d].session # None,
             session'[desktop'[d].session].viewers # {}
      PROVE  ServedNext(desktop'[d].key)
  <2>1. /\ desktop'[d].session = desktop[d].session
        /\ desktop'[d].key = desktop[d].key
        /\ desktop[d].session \in Sessions /\ desktop[d].key \in Keys
    BY <1>6, UsedObjects DEF HoldersKept, Holds
  <2>2. session[desktop[d].session].viewers # {}
    BY <1>6, <2>1
  <2>3. Served(desktop[d].key)
    BY <1>1, <1>6, <2>1, <2>2 DEF ViewedOnceServed, Holds
  <2> QED BY <2>1, <2>3 DEF RequestsKept
<1>7. ASSUME NEW k \in Keys, cache'[k] # None, session'[cache'[k]].viewers # {}
      PROVE  ServedNext(k)
  <2>1. cache'[k] = cache[k] /\ cache[k] \in Sessions
    BY <1>7, UsedObjects DEF CacheShrinks
  <2>2. Served(k)
    BY <1>1, <1>7, <2>1 DEF ViewedOnceServed
  <2> QED BY <2>2 DEF RequestsKept
<1>8. ASSUME NEW s \in Sessions, session'[s].key # None, session'[s].viewers # {}
      PROVE  ServedNext(session'[s].key)
  <2>1. session'[s].key = session[s].key /\ session[s].key \in Keys
    BY <1>1, <1>8, References DEF ObjectsKept
  <2>2. Served(session[s].key)
    BY <1>1, <1>8, <2>1 DEF ViewedOnceServed
  <2> QED BY <2>1, <2>2 DEF RequestsKept
<1> QED BY <1>2, <1>3, <1>4, <1>5, <1>6, <1>7, <1>8
        DEF ViewedOnceServed, Served, ServedNext, Holds

\* A step in which no viewer finds an object, and nobody comes to hold one,
\* keeps the objects found under their own key.
LEMMA FoundFrame ==
  ASSUME SessionInvariant, ObjectsKept, HoldersKept, CacheShrinks,
         \A v \in Viewers: viewer'[v].phase \in {"found", "admitted"} =>
            /\ viewer[v].phase \in {"found", "admitted"}
            /\ viewer'[v].found = viewer[v].found
            /\ viewer'[v].key = viewer[v].key
  PROVE  FoundUnderOwnKey'
<1> SUFFICES ASSUME NEW v \in Viewers, viewer'[v].phase \in {"found", "admitted"}
             PROVE  Belongs(viewer[v].found, viewer[v].key)'
  BY DEF FoundUnderOwnKey, Belongs
<1> DEFINE s == viewer[v].found
           k == viewer[v].key
<1>1. /\ viewer[v].phase \in {"found", "admitted"}
      /\ viewer'[v].found = s /\ viewer'[v].key = k
  OBVIOUS
<1>2. KeyInvariant /\ Belongs(s, k) /\ s \in Sessions
  <2>1. KeyInvariant /\ FoundUnderOwnKey
    BY DEF SessionInvariant
  <2>2. s # None
    BY <1>1, <2>1 DEF KeyInvariant, ViewerReferences
  <2> QED BY <1>1, <2>1, <2>2, References DEF FoundUnderOwnKey
<1>3. s # None
  BY <1>2, NoneAssumption
<1> QED BY <1>1, <1>2, <1>3 DEF Belongs, ObjectsKept, HoldersKept, CacheShrinks

\* A step that sets no signal and serves no key keeps new objects unassigned.
LEMMA FreshFrame ==
  ASSUME SessionInvariant, ObjectsKept, HoldersKept, CacheShrinks, RequestsKept,
         ServedKept,
         \A x \in Sessions: signal'[x] = "set" => signal[x] = "set"
  PROVE  FreshUntilAssigned'
<1>1. KeyInvariant /\ FreshUntilAssigned
  BY DEF SessionInvariant
<1>2. ASSUME NEW s \in Sessions,
             session'[s].mode = "unknown" /\ session'[s].key # None
      PROVE  /\ request'[session'[s].key].session = s
             /\ ~ServedNext(session'[s].key)
             /\ signal'[s] # "set"
  <2>1. session[s].mode = "unknown" /\ session[s].key \in Keys
    BY <1>1, <1>2, References DEF ObjectsKept
  <2>2. /\ request[session[s].key].session = s
        /\ ~Served(session[s].key)
        /\ signal[s] # "set"
    BY <1>1, <2>1, NoneAssumption DEF FreshUntilAssigned
  <2> QED BY <2>1, <2>2 DEF ObjectsKept, RequestsKept, ServedKept
<1>3. ASSUME NEW d \in Desktops, desktop'[d].session # None, desktop'[d].phase # "adopting"
      PROVE  session'[desktop'[d].session].mode \in Assigned
  <2>1. /\ desktop'[d].session = desktop[d].session
        /\ desktop[d].phase # "adopting" /\ Holds(d)
        /\ desktop[d].session \in Sessions
    BY <1>3, UsedObjects DEF HoldersKept, Holds
  <2> QED BY <1>1, <2>1 DEF FreshUntilAssigned, ObjectsKept
<1>4. ASSUME NEW d \in Desktops, NEW k \in Keys, desktop'[d].session # None,
             desktop'[d].key = k, cache'[k] = request'[k].session
      PROVE  cache'[k] \in {None, desktop'[d].session}
  <2>1. CASE cache'[k] # None
    <3>1. /\ desktop'[d].session = desktop[d].session
          /\ desktop[d].key = k /\ Holds(d)
          /\ cache[k] = request[k].session /\ cache'[k] = cache[k]
      BY <1>4, <2>1 DEF HoldersKept, Holds, CacheShrinks, RequestsKept
    <3> QED BY <1>1, <3>1 DEF FreshUntilAssigned
  <2> QED BY <2>1
<1> QED BY <1>2, <1>3, <1>4 DEF FreshUntilAssigned, Served, ServedNext, Holds, Assigned

\* A step that disposes nothing keeps disposed objects out of the cache.
LEMMA DisposedFrame ==
  ASSUME SessionInvariant, ObjectsKept, DisposalsKept, CacheShrinks,
         \A x \in Sessions: signal'[x] = "disposed" => signal[x] = "disposed",
         cleaning' # None => cache'[cleaning'] # None
  PROVE  DisposedLeave'
<1>1. KeyInvariant /\ DisposedLeave
  BY DEF SessionInvariant
<1>2. ASSUME NEW x \in Sessions, signal'[x] = "disposed"
      PROVE  \E t \in Sessions: session'[t].signal = x /\ session'[t].disposed
  BY <1>1, <1>2 DEF DisposedLeave, ObjectsKept, DisposalsKept
<1>3. ASSUME NEW k \in Keys, cache'[k] # None, session'[cache'[k]].disposed
      PROVE  \E t \in Sessions \ {cache'[k]}:
                /\ session'[t].signal = session'[cache'[k]].signal
                /\ session'[t].disposed
  <2>1. cache'[k] = cache[k] /\ cache[k] \in Sessions
    BY <1>3, UsedObjects DEF CacheShrinks
  <2>2. session[cache[k]].disposed
    BY <1>3, <2>1 DEF DisposalsKept
  <2>3. PICK t \in Sessions \ {cache[k]}: /\ session[t].signal = session[cache[k]].signal
                                          /\ session[t].disposed
    BY <1>1, <1>3, <2>1, <2>2 DEF DisposedLeave
  <2> QED BY <2>1, <2>3 DEF ObjectsKept, DisposalsKept
<1> QED BY <1>2, <1>3 DEF DisposedLeave

\* A step that asks for no new consent keeps the objects asking for it.
LEMMA AskedFrame ==
  ASSUME SessionInvariant, ObjectsKept, RequestsKept,
         \A k \in Keys: consent'[k] = "required" => consent[k] = "required",
         \A s \in Sessions: session'[s].requireConsent = session[s].requireConsent
  PROVE  ConsentIsAsked'
<1>1. KeyInvariant /\ ConsentIsAsked
  BY DEF SessionInvariant
<1> SUFFICES ASSUME NEW s \in Sessions, session'[s].device
             PROVE  /\ session'[s].key # None
                    /\ request'[session'[s].key].session = s
                    /\ consent'[session'[s].key] = "required" => session'[s].requireConsent
  BY DEF ConsentIsAsked
<1>2. /\ session'[s].key = session[s].key /\ session[s].device
      /\ session[s].key # None /\ session[s].key \in Keys
      /\ request[session[s].key].session = s
      /\ consent[session[s].key] = "required" => session[s].requireConsent
  BY <1>1, References DEF ConsentIsAsked, ObjectsKept
<1> QED BY <1>2 DEF RequestsKept

\* A step that takes no session for an attended one, nor lets a viewer begin
\* to, and gives no object in use a device keeps the console's ones apart.
LEMMA AttendedFrame ==
  ASSUME SessionInvariant, AttendsKept,
         \A s \in Sessions: session'[s].device =>
            /\ ~Unused(s) => session[s].device
            /\ session'[s].mode = "attended" =>
                 session[s].mode = "attended" /\ session[s].device
  PROVE  OnlyRecreatedAreAttended'
<1>1. KeyInvariant /\ OnlyRecreatedAreAttended
  BY DEF SessionInvariant
<1>2. ASSUME NEW s \in Sessions, session'[s].mode = "attended" PROVE ~session'[s].device
  BY <1>1, <1>2 DEF OnlyRecreatedAreAttended
<1>3. ASSUME NEW v \in Viewers, viewer'[v].attends PROVE ~session'[viewer'[v].session].device
  <2> DEFINE s == viewer[v].session
  <2>1. viewer[v].attends /\ viewer'[v].session = s
    BY <1>3 DEF AttendsKept
  <2>2. s # None /\ ~Unused(s)
    BY <1>1, <2>1 DEF KeyInvariant, ViewerReferences
  <2>3. s \in Sessions /\ ~session[s].device
    BY <1>1, <2>1, <2>2, References DEF OnlyRecreatedAreAttended
  <2> QED BY <2>1, <2>2, <2>3
<1> QED BY <1>2, <1>3 DEF OnlyRecreatedAreAttended

\* A step in which no viewer gets past the consent check keeps the check first.
LEMMA CastFrame ==
  ASSUME SessionInvariant, ObjectsKept,
         \A k \in Keys: consent'[k] = "required" => consent[k] = "required",
         \A v \in Viewers: viewer'[v].phase \in {"casting", "offered", "watching"} =>
            /\ viewer[v].phase \in {"casting", "offered", "watching"}
            /\ viewer'[v].session = viewer[v].session
  PROVE  ConsentBeforeCast'
<1>1. KeyInvariant /\ ConsentBeforeCast
  BY DEF SessionInvariant
<1> SUFFICES ASSUME NEW v \in Viewers,
                    viewer'[v].phase \in {"casting", "offered", "watching"},
                    session'[viewer'[v].session].device,
                    session'[viewer'[v].session].key # None
             PROVE  consent'[session'[viewer'[v].session].key] # "required"
  BY DEF ConsentBeforeCast
<1> DEFINE s == viewer[v].session
<1>2. /\ viewer'[v].session = s /\ s \in Sessions
      /\ viewer[v].phase \in {"casting", "offered", "watching"}
  BY <1>1, References DEF KeyInvariant, ViewerReferences
<1>3. session'[s].key = session[s].key /\ session[s].device /\ session[s].key \in Keys
  BY <1>1, <1>2, References DEF ObjectsKept
<1>4. consent[session[s].key] # "required"
  BY <1>1, <1>2, <1>3, NoneAssumption DEF ConsentBeforeCast
<1> QED BY <1>2, <1>3, <1>4

\* s has a copy after the step.
CopyNext(s) == \E t \in Sessions \ {s}: session'[t].signal = session'[s].signal
\* A step that keeps the lists and brings no viewer to a session keeps every
\* attached viewer listed.
LEMMA ListsFrame ==
  ASSUME SessionInvariant, ObjectsKept, HoldersKept,
         \A s \in Sessions: session'[s].viewers = session[s].viewers,
         \A d \in Desktops, v \in Viewers: v \in desktop'[d].left =>
            v \in desktop[d].left /\ desktop'[d].session # None,
         \A v \in Viewers: viewer[v].phase \in {"off", "gone"} =>
            \/ viewer'[v].phase \in {"off", "gone"}
            \/ \A d \in Desktops: v \notin desktop[d].left,
         \A v \in Viewers: viewer'[v].phase \in Attached =>
            viewer[v].phase \in Attached /\ viewer'[v].session = viewer[v].session
  PROVE  ListsAreKept'
<1>1. KeyInvariant /\ ListsAreKept
  BY DEF SessionInvariant
<1>2. ASSUME NEW s \in Sessions PROVE HasCopy(s) => CopyNext(s)
  BY DEF HasCopy, CopyNext, ObjectsKept
<1>3. ASSUME NEW d \in Desktops, NEW v \in Viewers, v \in desktop'[d].left
      PROVE  /\ desktop'[d].session # None
             /\ viewer'[v].phase \in {"off", "gone"} \/ CopyNext(desktop[d].session)
             /\ desktop'[d].session = desktop[d].session
  <2>1. v \in desktop[d].left /\ desktop'[d].session # None
    BY <1>3
  <2>2. Holds(d) /\ (viewer[v].phase \in {"off", "gone"} \/ HasCopy(desktop[d].session))
    BY <1>1, <2>1 DEF ListsAreKept
  <2>3. desktop[d].session \in Sessions
    BY <2>2, UsedObjects
  <2> QED BY <1>2, <2>1, <2>2, <2>3 DEF HoldersKept
<1>4. ASSUME NEW v \in Viewers, viewer'[v].phase \in Attached
      PROVE  /\ viewer'[v].session = viewer[v].session
             /\ \/ v \in session'[viewer[v].session].viewers
                \/ CopyNext(viewer[v].session)
  <2>1. viewer[v].phase \in Attached /\ viewer'[v].session = viewer[v].session
    BY <1>4
  <2>2. viewer[v].session \in Sessions
    BY <1>1, <2>1, References DEF KeyInvariant, ViewerReferences, Attached
  <2>3. v \in session[viewer[v].session].viewers \/ HasCopy(viewer[v].session)
    BY <1>1, <2>1 DEF ListsAreKept
  <2> QED BY <1>2, <2>1, <2>2, <2>3
<1> QED BY <1>3, <1>4 DEF ListsAreKept, Attached, Holds, HasCopy, CopyNext

-----------------------------------------------------------------------------
\* A command is for a requested key, and takes viewers along only if it is served.
Addressed(c) ==
    /\ c.key \in Keys
    /\ request[c.key].phase # "unused"
    /\ c.viewers # {} => Served(c.key)

\* A relaunch of a cached or held session is.
LEMMA SessionsAreAddressed ==
  ASSUME SessionInvariant
  PROVE  /\ \A s \in Sessions: session[s].key # None => Addressed(RelaunchOf(s))
         /\ \A k \in Keys: cache[k] # None =>
              Addressed(Relaunch(k, session[cache[k]].access, session[cache[k]].viewers))
         /\ \A c \in commands: Addressed(c)
<1>1. KeyInvariant /\ KeysAreRequested /\ ViewedOnceServed
  BY DEF SessionInvariant
<1>2. ASSUME NEW s \in Sessions, session[s].key # None
      PROVE  Addressed(RelaunchOf(s))
  <2>1. session[s].key \in Keys
    BY <1>1, <1>2, References
  <2>2. request[session[s].key].phase # "unused"
    BY <1>1, <2>1 DEF KeysAreRequested
  <2> QED BY <1>1, <1>2, <2>1, <2>2 DEF Addressed, RelaunchOf, Relaunch, ViewedOnceServed
<1>3. ASSUME NEW k \in Keys, cache[k] # None
      PROVE  Addressed(Relaunch(k, session[cache[k]].access, session[cache[k]].viewers))
  <2>1. request[k].phase # "unused"
    BY <1>1, <1>3 DEF KeysAreRequested
  <2> QED BY <1>1, <1>3, <2>1 DEF Addressed, Relaunch, ViewedOnceServed
<1>4. ASSUME NEW c \in commands
      PROVE  Addressed(c)
  <2>1. c.key \in Keys
    BY <1>1, References
  <2>2. request[c.key].phase # "unused"
    BY <1>1, <2>1 DEF KeysAreRequested
  <2> QED BY <1>1, <2>1, <2>2 DEF Addressed, ViewedOnceServed
<1> QED BY <1>2, <1>3, <1>4

\* A step that the parts of SessionInvariant do not notice.
Calm ==
    /\ UNCHANGED <<cache, signal, consent>>
    /\ \A s \in Sessions:
         /\ session'[s].mode = session[s].mode
         /\ session'[s].key = session[s].key
         /\ session'[s].signal = session[s].signal
         /\ session'[s].device = session[s].device
         /\ session'[s].disposed = session[s].disposed
         /\ session'[s].desktop = session[s].desktop
         /\ session'[s].viewers = session[s].viewers
         /\ session'[s].requireConsent = session[s].requireConsent
    /\ \A k \in Keys:
         /\ request'[k].session = request[k].session
         /\ request'[k].phase = "unused" <=> request[k].phase = "unused"
         /\ ServedNext(k) <=> Served(k)
    /\ cleaning' # None => cache[cleaning'] # None
    /\ notices' \subseteq notices
    /\ \A c \in commands': Addressed(c)
    /\ \A d \in Desktops:
         /\ desktop'[d].session = desktop[d].session
         /\ desktop'[d].viewers = desktop[d].viewers
         /\ desktop'[d].left \subseteq desktop[d].left
         /\ desktop'[d].key = desktop[d].key
         /\ desktop[d].phase = "adopting" => desktop'[d].phase = "adopting"
    /\ \A v \in Viewers:
         /\ viewer'[v].key \in {viewer[v].key, None}
         /\ viewer'[v].phase \in {"found", "admitted"} =>
              /\ viewer[v].phase \in {"found", "admitted"}
              /\ viewer'[v].found = viewer[v].found
              /\ viewer'[v].key = viewer[v].key
         /\ viewer'[v].attends =>
              viewer[v].attends /\ viewer'[v].session = viewer[v].session
         /\ viewer[v].phase \in {"off", "gone"} => viewer'[v].phase \in {"off", "gone"}
         /\ viewer'[v].phase \in Attached =>
              viewer[v].phase \in Attached /\ viewer'[v].session = viewer[v].session
         /\ viewer'[v].phase \in {"casting", "offered", "watching"} =>
              viewer[v].phase \in {"casting", "offered", "watching"}

\* Such a step preserves the invariant.
LEMMA CalmKeeps ==
  ASSUME SessionInvariant, Calm, KeyInvariant'
  PROVE  SessionInvariant'
<1>1. /\ ObjectsKept /\ DisposalsKept /\ CacheShrinks /\ RequestsKept /\ ServedKept
      /\ AttendsKept
  BY DEF Calm, ObjectsKept, DisposalsKept, CacheShrinks, RequestsKept, ServedKept,
         AttendsKept
<1>2. HoldersKept
  BY DEF Calm, HoldersKept
<1>3. SignalsAreOwn'
  <2>1. ASSUME NEW s \in Sessions, session'[s].desktop # None
        PROVE  /\ session'[s].desktop = session[s].desktop
               /\ desktop'[session[s].desktop].session # None
    <3>1. SignalsAreOwn /\ KeyInvariant
      BY DEF SessionInvariant
    <3>2. session[s].desktop \in Desktops
      BY <2>1, <3>1, References DEF Calm
    <3>3. Holds(session[s].desktop)
      BY <2>1, <3>1 DEF Calm, SignalsAreOwn
    <3> QED BY <2>1, <3>2, <3>3 DEF Calm, Holds
  <2>2. \A s \in Sessions: signal'[s] = signal[s] /\ session'[s].disposed = session[s].disposed
    BY DEF Calm
  <2> QED BY <1>1, <1>2, <2>1, <2>2, SignalsFrame
<1>4. KeysAreRequested'
  <2>1. \A c \in commands': c \in commands \/ request[c.key].phase # "unused"
    BY DEF Calm, Addressed
  <2>2. \A d \in Desktops: desktop'[d].key \in {desktop[d].key, None}
    BY DEF Calm
  <2> QED BY <1>1, <2>1, <2>2, KeysFrame
<1>5. ViewedOnceServed'
  <2>1. \A c \in commands': c \in commands \/ (c.viewers # {} => ServedNext(c.key))
    BY DEF Calm, Addressed
  <2>2. \A s \in Sessions: session'[s].viewers \subseteq session[s].viewers
    BY DEF Calm
  <2>3. \A v \in Viewers: viewer'[v].key \in {viewer[v].key, None}
    BY DEF Calm
  <2>4. \A d \in Desktops: desktop'[d].viewers # {} =>
           desktop'[d].key = desktop[d].key /\ desktop[d].viewers # {}
    BY DEF Calm
  <2>5. \A n \in notices': n \in notices
    BY DEF Calm
  <2> QED BY <1>1, <1>2, <2>1, <2>2, <2>3, <2>4, <2>5, ViewedFrame
<1>6. FoundUnderOwnKey'
  BY <1>1, <1>2, FoundFrame DEF Calm
<1>7. FreshUntilAssigned'
  BY <1>1, <1>2, FreshFrame DEF Calm
<1>8. DisposedLeave'
  BY <1>1, DisposedFrame DEF Calm
<1>9. ConsentIsAsked'
  BY <1>1, AskedFrame DEF Calm
<1>10. ConsentBeforeCast'
  BY <1>1, CastFrame DEF Calm, Attached
<1>11. ListsAreKept'
  <2>1. \A d \in Desktops, v \in Viewers: v \in desktop'[d].left =>
           v \in desktop[d].left /\ desktop'[d].session # None
    <3>1. ListsAreKept
      BY DEF SessionInvariant
    <3>2. ASSUME NEW d \in Desktops, NEW v \in Viewers, v \in desktop'[d].left
          PROVE  v \in desktop[d].left /\ desktop'[d].session # None
      <4>1. v \in desktop[d].left /\ desktop'[d].session = desktop[d].session
        BY <3>2 DEF Calm
      <4> QED BY <3>1, <4>1 DEF ListsAreKept, Holds
    <3> QED BY <3>2
  <2>2. /\ \A s \in Sessions: session'[s].viewers = session[s].viewers
        /\ \A v \in Viewers: viewer[v].phase \in {"off", "gone"} =>
             viewer'[v].phase \in {"off", "gone"}
        /\ \A v \in Viewers: viewer'[v].phase \in Attached =>
             viewer[v].phase \in Attached /\ viewer'[v].session = viewer[v].session
    BY DEF Calm
  <2> QED BY <1>1, <1>2, <2>1, <2>2, ListsFrame
<1>12. OnlyRecreatedAreAttended'
  BY <1>1, AttendedFrame DEF ObjectsKept
<1> QED BY <1>3, <1>4, <1>5, <1>6, <1>7, <1>8, <1>9, <1>10, <1>11, <1>12 DEF SessionInvariant

-----------------------------------------------------------------------------
\* What the calm steps need of the invariant.
LEMMA Steady ==
  ASSUME SessionInvariant
  PROVE  /\ KeyInvariant /\ TypeOK
         /\ cleaning # None => cache[cleaning] # None
         /\ \A c \in commands: Addressed(c)
         /\ \A d \in Desktops: desktop[d].key \in Keys \cup {None}
         /\ \A v \in Viewers: viewer[v].prompt # None =>
              viewer[v].phase \in {"prompting", "leaving", "gone"}
         /\ \A d \in Desktops: Listening(d) =>
              /\ desktop[d].session \in Sessions /\ Holds(d)
              /\ session[desktop[d].session].key \in Keys
<1>1. KeyInvariant /\ TypeOK /\ DisposedLeave
  BY DEF SessionInvariant, KeyInvariant
<1>2. ASSUME NEW d \in Desktops, Listening(d)
      PROVE  /\ desktop[d].session \in Sessions /\ Holds(d)
             /\ session[desktop[d].session].key \in Keys
  <2>1. Holds(d) /\ desktop[d].phase # "adopting"
    BY <1>1, <1>2 DEF KeyInvariant, ObjectReferences, Listening
  <2>2. desktop[d].session \in Sessions
    BY <2>1, UsedObjects
  <2>3. session[desktop[d].session].key # None
    BY <1>1, <2>1 DEF KeyInvariant, KeyedOnceAdopted
  <2> QED BY <1>1, <2>1, <2>2, <2>3, References
<1> QED BY <1>1, <1>2, SessionsAreAddressed, References
        DEF DisposedLeave, KeyInvariant, ViewerReferences

\* Giving up on a request, a launch or a connection is such a step...
LEMMA SessionFailedToStartIsCalm ==
  ASSUME SessionInvariant, NEW k \in Keys, SessionFailedToStart(k)
  PROVE  Calm
<1>1. /\ request \in [Keys -> Requests]
      /\ cleaning # None => cache[cleaning] # None
      /\ \A c \in commands: Addressed(c)
  BY Steady DEF TypeOK
<1> QED BY <1>1 DEF SessionFailedToStart, Calm, Served, ServedNext

\* ...a launch that fails...
LEMMA LaunchFailsIsCalm ==
  ASSUME SessionInvariant, NEW c \in commands, LaunchFails(c)
  PROVE  Calm
<1>1. /\ viewer \in [Viewers -> ViewerRecords]
      /\ cleaning # None => cache[cleaning] # None
      /\ \A x \in commands: Addressed(x)
  BY Steady DEF TypeOK
<1>2. /\ UNCHANGED <<cache, cleaning, session, signal, request, consent, desktop, notices>>
      /\ commands' \subseteq commands
      /\ \A v \in Viewers: \/ viewer'[v] = viewer[v]
                           \/ /\ Stoppable(v)
                              /\ viewer'[v] = [viewer[v] EXCEPT !.phase = "leaving"]
  BY <1>1 DEF LaunchFails
<1>3. ASSUME NEW v \in Viewers
      PROVE  \/ viewer'[v] = viewer[v]
             \/ /\ viewer[v].phase \notin {"off", "gone"}
                /\ viewer'[v].phase = "leaving" /\ viewer'[v].key = viewer[v].key
                /\ viewer'[v].attends = viewer[v].attends
                /\ viewer'[v].session = viewer[v].session
  <2>1. CASE Stoppable(v) /\ viewer'[v] = [viewer[v] EXCEPT !.phase = "leaving"]
    <3>1. viewer[v].phase \notin {"off", "gone"}
      BY <2>1 DEF Stoppable, Interruptible
    <3>2. viewer[v] \in ViewerRecords
      BY <1>1
    <3> QED BY <2>1, <3>1, <3>2 DEF ViewerRecords
  <2> QED BY <1>2, <2>1
<1> QED BY <1>1, <1>2, <1>3 DEF Calm, Served, ServedNext, Attached

\* ...the agent's connection being lost...
LEMMA AgentDisconnectsIsCalm ==
  ASSUME SessionInvariant, AgentDisconnects
  PROVE  Calm
<1>1. /\ session \in [Sessions -> SessionRecords]
      /\ cleaning # None => cache[cleaning] # None
      /\ \A c \in commands: Addressed(c)
  BY Steady DEF TypeOK
<1>2. \A s \in Sessions: session'[s] = [session[s] EXCEPT !.agent = FALSE]
  BY DEF AgentDisconnects
<1>3. \A c \in commands': c \in commands
  BY DEF AgentDisconnects
<1> QED BY <1>1, <1>2, <1>3 DEF AgentDisconnects, Calm, SessionRecords, Served, ServedNext

\* ...or back...
LEMMA AgentReconnectsIsCalm ==
  ASSUME SessionInvariant, AgentReconnects
  PROVE  Calm
BY Steady DEF AgentReconnects, Calm, Served, ServedNext

\* ...or made anew, with the relaunches that asks for...
LEMMA AgentConnectsIsCalm ==
  ASSUME SessionInvariant, AgentConnects
  PROVE  Calm
<1>1. /\ session \in [Sessions -> SessionRecords]
      /\ cleaning # None => cache[cleaning] # None
  BY Steady DEF TypeOK
<1>2. \A s \in Sessions: session'[s] \in {session[s], [session[s] EXCEPT !.agent = TRUE]}
  BY DEF AgentConnects
<1>3. \A c \in commands': Addressed(c)
  BY SessionsAreAddressed DEF AgentConnects, Pending
<1> QED BY <1>1, <1>2, <1>3 DEF AgentConnects, Calm, SessionRecords, Served, ServedNext

\* The end of casts leaves a process with its session, its viewers and its calls.
LEMMA CastsEndedAreCalm ==
  ASSUME SessionInvariant, NEW d \in Desktops, Listening(d), NEW vs
  PROVE  /\ CastsEnded(d, vs).session = desktop[d].session
         /\ CastsEnded(d, vs).viewers = desktop[d].viewers
         /\ CastsEnded(d, vs).left = desktop[d].left
         /\ CastsEnded(d, vs).key = desktop[d].key
         /\ desktop[d].phase # "adopting"
<1>1. desktop[d] \in DesktopRecords
  BY Steady DEF TypeOK
<1> QED BY <1>1 DEF CastsEnded, DesktopRecords, Listening

\* GetScreenCast gives a process one more viewer to cast to, and nothing else.
LEMMA GetScreenCastAddsCasts ==
  ASSUME TypeOK, NEW d, NEW v, desktop' \in {desktop, GetScreenCast(d, v)},
         NEW e \in Desktops
  PROVE  /\ desktop'[e].session = desktop[e].session
         /\ desktop'[e].key = desktop[e].key
         /\ desktop'[e].viewers = desktop[e].viewers
         /\ desktop'[e].left = desktop[e].left
         /\ desktop'[e].phase = desktop[e].phase
<1>1. desktop[e] \in DesktopRecords /\ desktop \in [Desktops -> DesktopRecords]
  BY DEF TypeOK
<1>2. CASE desktop' = [desktop EXCEPT ![d].cast = @ \cup {v}]
  <2>1. CASE e = d
    <3>1. desktop'[e] = [desktop[e] EXCEPT !.cast = @ \cup {v}]
      BY <1>1, <1>2, <2>1
    <3> QED BY <1>1, <3>1 DEF DesktopRecords
  <2>2. CASE e # d
    BY <1>1, <1>2, <2>2
  <2> QED BY <2>1, <2>2
<1> QED BY <1>2 DEF GetScreenCast

\* ...a cast that stops...
LEMMA CastStopsIsCalm ==
  ASSUME SessionInvariant, NEW d \in Desktops, NEW v \in Viewers, CastStops(d, v)
  PROVE  Calm
<1>1. /\ desktop \in [Desktops -> DesktopRecords]
      /\ cleaning # None => cache[cleaning] # None
      /\ \A c \in commands: Addressed(c)
  BY Steady DEF TypeOK
<1>2. \A e \in Desktops: desktop'[e] = IF e = d THEN CastsEnded(d, {v}) ELSE desktop[e]
  BY <1>1 DEF CastStops
<1>3. \A e \in Desktops:
        /\ desktop'[e].session = desktop[e].session
        /\ desktop'[e].viewers = desktop[e].viewers
        /\ desktop'[e].left = desktop[e].left
        /\ desktop'[e].key = desktop[e].key
        /\ desktop[e].phase = "adopting" => desktop'[e].phase = "adopting"
  BY <1>2, CastsEndedAreCalm DEF CastStops
<1> QED BY <1>1, <1>3 DEF CastStops, Calm, Served, ServedNext

\* ...a process that tells of a session switch...
LEMMA NotifySessionChangedIsCalm ==
  ASSUME SessionInvariant, NEW d \in Desktops, NotifySessionChanged(d)
  PROVE  Calm
<1> DEFINE s == desktop[d].session
<1>1. /\ desktop \in [Desktops -> DesktopRecords]
      /\ session \in [Sessions -> SessionRecords]
      /\ cleaning # None => cache[cleaning] # None
      /\ s \in Sessions /\ session[s].key \in Keys
  BY Steady DEF TypeOK, NotifySessionChanged
<1>2. \A e \in Desktops: desktop'[e] = IF e = d THEN CastsEnded(d, Viewers) ELSE desktop[e]
  BY <1>1 DEF NotifySessionChanged
<1>3. \A e \in Desktops:
        /\ desktop'[e].session = desktop[e].session
        /\ desktop'[e].viewers = desktop[e].viewers
        /\ desktop'[e].left = desktop[e].left
        /\ desktop'[e].key = desktop[e].key
        /\ desktop[e].phase = "adopting" => desktop'[e].phase = "adopting"
  BY <1>2, CastsEndedAreCalm DEF NotifySessionChanged
<1>4. session' = [session EXCEPT ![s].streamer = "switching"]
  BY DEF NotifySessionChanged
<1>5. \A c \in commands': Addressed(c)
  <2>1. \A c \in commands': c \in commands \/ c = RelaunchOf(s)
    BY DEF NotifySessionChanged, SendToAgent
  <2>2. Addressed(RelaunchOf(s))
    BY <1>1, NoneAssumption, SessionsAreAddressed
  <2> QED BY <2>1, <2>2, SessionsAreAddressed
<1> QED BY <1>1, <1>3, <1>4, <1>5
        DEF NotifySessionChanged, Calm, SessionRecords, Served, ServedNext

\* ...or of a shutdown...
LEMMA NotifySystemShutdownIsCalm ==
  ASSUME SessionInvariant, NEW d \in Desktops, NotifySystemShutdown(d)
  PROVE  Calm
<1>1. /\ desktop \in [Desktops -> DesktopRecords]
      /\ session \in [Sessions -> SessionRecords]
      /\ cleaning # None => cache[cleaning] # None
      /\ \A c \in commands: Addressed(c)
  BY Steady DEF TypeOK
<1>2. \A e \in Desktops: desktop'[e] = IF e = d THEN CastsEnded(d, Viewers) ELSE desktop[e]
  BY <1>1 DEF NotifySystemShutdown
<1>3. \A e \in Desktops:
        /\ desktop'[e].session = desktop[e].session
        /\ desktop'[e].viewers = desktop[e].viewers
        /\ desktop'[e].left = desktop[e].left
        /\ desktop'[e].key = desktop[e].key
        /\ desktop[e].phase = "adopting" => desktop'[e].phase = "adopting"
  BY <1>2, CastsEndedAreCalm DEF NotifySystemShutdown
<1>4. session' = [session EXCEPT ![desktop[d].session].streamer = "shuttingDown"]
  BY DEF NotifySystemShutdown
<1> QED BY <1>1, <1>3, <1>4
        DEF NotifySystemShutdown, Calm, SessionRecords, Served, ServedNext

\* ...or finds itself idle...
LEMMA IdleTimerElapsesIsCalm ==
  ASSUME SessionInvariant, NEW d \in Desktops, IdleTimerElapses(d)
  PROVE  Calm
<1>1. /\ desktop \in [Desktops -> DesktopRecords]
      /\ cleaning # None => cache[cleaning] # None
      /\ \A c \in commands: Addressed(c)
  BY Steady DEF TypeOK
<1> QED BY <1>1 DEF IdleTimerElapses, Calm, DesktopRecords, Served, ServedNext

\* ...or crashes...
LEMMA DesktopCrashesIsCalm ==
  ASSUME SessionInvariant, NEW d \in Desktops, DesktopCrashes(d)
  PROVE  Calm
<1>1. /\ desktop \in [Desktops -> DesktopRecords]
      /\ cleaning # None => cache[cleaning] # None
      /\ \A c \in commands: Addressed(c)
  BY Steady DEF TypeOK
<1> QED BY <1>1 DEF DesktopCrashes, Calm, DesktopRecords, Served, ServedNext

\* ...or is let through to the cached session, or not...
LEMMA CheckTakeoverIsCalm ==
  ASSUME SessionInvariant, NEW d \in Desktops, CheckTakeover(d)
  PROVE  Calm
<1>1. /\ desktop \in [Desktops -> DesktopRecords]
      /\ cleaning # None => cache[cleaning] # None
      /\ \A c \in commands: Addressed(c)
  BY Steady DEF TypeOK
<1>2. PICK p \in {"cleared", "lost"}: desktop' = [desktop EXCEPT ![d].phase = p]
  BY DEF CheckTakeover
<1> QED BY <1>1, <1>2 DEF CheckTakeover, Calm, DesktopRecords, Served, ServedNext

\* ...a viewer that is let through to the session it found, or not...
LEMMA CheckAccessIsCalm ==
  ASSUME SessionInvariant, NEW v \in Viewers, CheckAccess(v)
  PROVE  Calm
<1>1. /\ viewer \in [Viewers -> ViewerRecords]
      /\ cleaning # None => cache[cleaning] # None
      /\ \A c \in commands: Addressed(c)
  BY Steady DEF TypeOK
<1>2. \/ viewer' = [viewer EXCEPT ![v].phase = "admitted"]
      \/ viewer' = [viewer EXCEPT ![v].phase = "leaving", ![v].found = None]
  BY DEF CheckAccess
<1>3. /\ \A w \in Viewers \ {v}: viewer'[w] = viewer[w]
      /\ viewer'[v].key = viewer[v].key
      /\ viewer'[v].session = viewer[v].session
      /\ viewer'[v].attends = viewer[v].attends
      /\ \/ viewer'[v].phase = "admitted" /\ viewer'[v].found = viewer[v].found
         \/ viewer'[v].phase = "leaving"
      /\ viewer[v].phase = "found"
  BY <1>1, <1>2 DEF CheckAccess, ViewerRecords
<1> QED BY <1>1, <1>3 DEF CheckAccess, Calm, Attached, Served, ServedNext

\* ...a user who does not agree...
LEMMA ConsentRefusedIsCalm ==
  ASSUME SessionInvariant, NEW v \in Viewers, ConsentRefused(v)
  PROVE  Calm
<1>1. /\ viewer \in [Viewers -> ViewerRecords]
      /\ cleaning # None => cache[cleaning] # None
      /\ \A c \in commands: Addressed(c)
      /\ viewer[v].phase \in {"prompting", "leaving", "gone"}
  BY Steady DEF TypeOK, ConsentRefused
<1>2. \A w \in Viewers: viewer'[w] = IF w = v THEN Answered(v, "leaving") ELSE viewer[w]
  BY <1>1 DEF ConsentRefused
<1>3. /\ Answered(v, "leaving").key \in {viewer[v].key, None}
      /\ Answered(v, "leaving").attends =>
           viewer[v].attends /\ Answered(v, "leaving").session = viewer[v].session
      /\ Answered(v, "leaving").phase \in {"leaving", "off"}
      /\ viewer[v].phase \in {"off", "gone"} => Answered(v, "leaving").phase = "off"
  BY <1>1 DEF Answered, NoViewer, ViewerRecords
<1> QED BY <1>1, <1>2, <1>3 DEF ConsentRefused, Calm, Attached, Served, ServedNext

\* ...a stream that is offered...
LEMMA StreamOfferedIsCalm ==
  ASSUME SessionInvariant, NEW v \in Viewers, StreamOffered(v)
  PROVE  Calm
<1>1. /\ viewer \in [Viewers -> ViewerRecords]
      /\ cleaning # None => cache[cleaning] # None
      /\ \A c \in commands: Addressed(c)
  BY Steady DEF TypeOK
<1> QED BY <1>1 DEF StreamOffered, Calm, ViewerRecords, Attached, Served, ServedNext

\* ...connected...
LEMMA StreamConnectedIsCalm ==
  ASSUME SessionInvariant, NEW v \in Viewers, StreamConnected(v)
  PROVE  Calm
<1>1. /\ viewer \in [Viewers -> ViewerRecords]
      /\ session \in [Sessions -> SessionRecords]
      /\ cleaning # None => cache[cleaning] # None
      /\ \A c \in commands: Addressed(c)
  BY Steady DEF TypeOK
<1> QED BY <1>1 DEF StreamConnected, Calm, ViewerRecords, SessionRecords, Attached,
                    Served, ServedNext

\* ...or at its end...
LEMMA StreamEndsIsCalm ==
  ASSUME SessionInvariant, NEW v \in Viewers, StreamEnds(v)
  PROVE  Calm
<1>1. /\ viewer \in [Viewers -> ViewerRecords]
      /\ cleaning # None => cache[cleaning] # None
      /\ \A c \in commands: Addressed(c)
  BY Steady DEF TypeOK
<1> QED BY <1>1 DEF StreamEnds, Calm, ViewerRecords, Attached, Served, ServedNext

\* ...a page that is closed...
LEMMA CloseViewerIsCalm ==
  ASSUME SessionInvariant, NEW v \in Viewers, CloseViewer(v)
  PROVE  Calm
<1>1. /\ viewer \in [Viewers -> ViewerRecords]
      /\ cleaning # None => cache[cleaning] # None
      /\ \A c \in commands: Addressed(c)
  BY Steady DEF TypeOK
<1> QED BY <1>1 DEF CloseViewer, Calm, ViewerRecords, Attached, Served, ServedNext,
                    Stoppable, Interruptible

\* ...the cleaner's look at a session...
LEMMA FindExpiredSessionIsCalm ==
  ASSUME SessionInvariant, NEW k \in Keys, FindExpiredSession(k)
  PROVE  Calm
BY Steady DEF FindExpiredSession, Calm, Served, ServedNext

\* ...the reconnector's relaunch...
LEMMA ReconnectIsCalm ==
  ASSUME SessionInvariant, NEW k \in Keys, Reconnect(k)
  PROVE  Calm
<1> DEFINE s == cache[k]
<1>1. KeyInvariant /\ s \in Sessions
  BY Steady, UsedObjects DEF Reconnect
<1>2. session[s].key # None
  BY <1>1 DEF Reconnect, KeyInvariant, KeyedOnceAdopted
<1>3. \A c \in commands': c \in commands \/ c = RelaunchOf(s)
  BY DEF Reconnect, SendToAgent
<1>4. \A c \in commands': Addressed(c)
  BY <1>1, <1>2, <1>3, SessionsAreAddressed
<1> QED BY <1>4, Steady DEF Reconnect, Calm, Served, ServedNext

\* ...and a stutter.
LEMMA StutterIsCalm ==
  ASSUME SessionInvariant, UNCHANGED vars
  PROVE  Calm
BY Steady DEF vars, Calm, Served, ServedNext

-----------------------------------------------------------------------------
\* A started process has the key and the viewers of the command, and no object yet.
LEMMA LaunchDesktopKeepsSessions ==
  ASSUME SessionInvariant, KeyInvariant',
         NEW c \in commands, NEW d \in Desktops, LaunchDesktop(c, d)
  PROVE  SessionInvariant'
<1>1. /\ UNCHANGED <<cache, cleaning, session, signal, request, consent, viewer, notices>>
      /\ \A e \in Desktops \ {d}: desktop'[e] = desktop[e]
      /\ desktop'[d].session = None /\ desktop'[d].left = {}
      /\ desktop'[d].key = c.key /\ desktop'[d].viewers = c.viewers
      /\ desktop[d].session = None
      /\ commands' \subseteq commands
  BY Steady DEF LaunchDesktop, NoDesktop, TypeOK
<1>2. Addressed(c) /\ KeyInvariant /\ SignalsAreOwn /\ ListsAreKept /\ DisposedLeave
  BY SessionsAreAddressed DEF SessionInvariant
<1>3. ObjectsKept /\ DisposalsKept /\ CacheShrinks /\ RequestsKept /\ ServedKept
  BY <1>1 DEF ObjectsKept, DisposalsKept, CacheShrinks, RequestsKept, ServedKept,
              Served, ServedNext
<1>4. HoldersKept
  BY <1>1 DEF HoldersKept
<1>5. SignalsAreOwn'
  <2>1. ASSUME NEW s \in Sessions, session'[s].desktop # None
        PROVE  /\ session'[s].desktop = session[s].desktop
               /\ desktop'[session[s].desktop].session # None
    <3>1. session[s].desktop \in Desktops /\ Holds(session[s].desktop)
      BY <1>1, <1>2, <2>1, References DEF SignalsAreOwn
    <3> QED BY <1>1, <3>1 DEF Holds
  <2> QED BY <1>1, <1>3, <1>4, <2>1, SignalsFrame
<1>6. KeysAreRequested'
  <2>1. \A e \in Desktops: \/ desktop'[e].key \in {desktop[e].key, None}
                           \/ request[desktop'[e].key].phase # "unused"
    BY <1>1, <1>2 DEF Addressed
  <2> QED BY <1>1, <1>3, <2>1, KeysFrame
<1>7. ViewedOnceServed'
  <2>1. \A e \in Desktops: desktop'[e].viewers # {} =>
            \/ /\ desktop'[e].key = desktop[e].key
               /\ desktop[e].viewers # {}
            \/ desktop'[e].key \in Keys /\ ServedNext(desktop'[e].key)
    BY <1>1, <1>2, <1>3 DEF Addressed, RequestsKept
  <2> QED BY <1>1, <1>3, <1>4, <2>1, ViewedFrame
<1>8. FoundUnderOwnKey' /\ FreshUntilAssigned' /\ ConsentIsAsked' /\ ConsentBeforeCast'
  BY <1>1, <1>3, <1>4, FoundFrame, FreshFrame, AskedFrame, CastFrame
<1>9. DisposedLeave'
  BY <1>1, <1>2, <1>3, DisposedFrame DEF DisposedLeave
<1>10. ListsAreKept'
  <2>1. \A e \in Desktops, v \in Viewers: v \in desktop'[e].left =>
           v \in desktop[e].left /\ desktop'[e].session # None
    BY <1>1, <1>2 DEF ListsAreKept, Holds
  <2> QED BY <1>1, <1>3, <1>4, <2>1, ListsFrame
<1>11. OnlyRecreatedAreAttended'
  BY <1>1, <1>3, AttendedFrame DEF ObjectsKept, AttendsKept
<1> QED BY <1>5, <1>6, <1>7, <1>8, <1>9, <1>10, <1>11 DEF SessionInvariant

\* A new connection of a viewer page is nowhere on the server yet.
LEMMA OpenViewerKeepsSessions ==
  ASSUME SessionInvariant, KeyInvariant',
         NEW k \in Keys, NEW v \in Viewers, NEW access \in BOOLEAN,
         OpenViewer(k, v) \/ ReopenViewer(k, v, access)
  PROVE  SessionInvariant'
<1>1. /\ UNCHANGED <<cache, cleaning, session, signal, consent, commands, desktop, notices>>
      /\ \E a: viewer' = [viewer EXCEPT ![v].phase = "requesting", ![v].key = k,
                                        ![v].access = a]
      /\ \A e \in Desktops: v \notin desktop[e].left
      /\ \/ request' = request /\ request[k].phase = "ready"
         \/ /\ \E a: request' = [request EXCEPT ![k].phase = "ready", ![k].shown = {a}]
            /\ request[k].phase = "waiting"
            /\ signal[session[request[k].session].signal] = "set"
  BY DEF OpenViewer, ReopenViewer, NewConnection
<1>2. /\ TypeOK /\ KeyInvariant /\ SignalsAreOwn /\ DisposedLeave
      /\ FreshUntilAssigned /\ ListsAreKept /\ KeysAreRequested
  BY Steady DEF SessionInvariant
<1>3. ObjectsKept /\ DisposalsKept /\ CacheShrinks /\ HoldersKept
  BY <1>1 DEF ObjectsKept, DisposalsKept, CacheShrinks, HoldersKept
<1>4. /\ \A l \in Keys: request'[l].session = request[l].session
      /\ \A l \in Keys \ {k}: request'[l] = request[l]
      /\ request'[k].phase = "ready" /\ request[k].phase \in {"waiting", "ready"}
  <2>1. \A l \in Keys: request[l] \in Requests
    BY <1>2 DEF TypeOK
  <2>2. request[k].phase \in {"waiting", "ready"}
    BY <1>1
  <2>3. CASE request' = request /\ request[k].phase = "ready"
    BY <2>2, <2>3
  <2>4. CASE \E a: request' = [request EXCEPT ![k].phase = "ready", ![k].shown = {a}]
    <3>1. PICK a: request' = [request EXCEPT ![k].phase = "ready", ![k].shown = {a}]
      BY <2>4
    <3>2. /\ \A l \in Keys \ {k}: request'[l] = request[l]
          /\ request'[k] = [request[k] EXCEPT !.phase = "ready", !.shown = {a}]
      BY <1>2, <3>1 DEF TypeOK
    <3>3. request'[k].phase = "ready" /\ request'[k].session = request[k].session
      BY <2>1, <3>2 DEF Requests
    <3> QED BY <2>2, <3>2, <3>3
  <2> QED BY <1>1, <2>3, <2>4
<1>5. RequestsKept
  BY <1>4 DEF RequestsKept, Served, ServedNext
<1>6. /\ \A w \in Viewers \ {v}: viewer'[w] = viewer[w]
      /\ viewer'[v].phase = "requesting" /\ viewer'[v].key = k
      /\ viewer'[v].attends = viewer[v].attends
      /\ viewer'[v].session = viewer[v].session
  BY <1>1, <1>2 DEF TypeOK, ViewerRecords
<1>7. SignalsAreOwn'
  <2>1. ASSUME NEW s \in Sessions, session'[s].desktop # None
        PROVE  /\ session'[s].desktop = session[s].desktop
               /\ desktop'[session[s].desktop].session # None
    BY <1>1, <1>2, <2>1 DEF SignalsAreOwn, Holds
  <2> QED BY <1>1, <1>3, <2>1, SignalsFrame
<1>8. KeysAreRequested'
  BY <1>1, <1>3, <1>5, KeysFrame
<1>9. ViewedOnceServed'
  <2>1. \A w \in Viewers: \/ viewer'[w].key \in {viewer[w].key, None}
                          \/ ServedNext(viewer'[w].key)
    BY <1>4, <1>6 DEF ServedNext
  <2> QED BY <1>1, <1>3, <1>5, <2>1, ViewedFrame
<1>10. FoundUnderOwnKey'
  BY <1>3, <1>6, FoundFrame
<1>11. FreshUntilAssigned'
  <2>1. ASSUME NEW s \in Sessions,
               session[s].mode = "unknown", session[s].key # None
        PROVE  ~ServedNext(session[s].key)
    <3>1. /\ request[session[s].key].session = s
          /\ ~Served(session[s].key)
          /\ signal[s] # "set"
      BY <1>2, <2>1 DEF FreshUntilAssigned
    <3>2. session[s].signal = s
      BY <1>2, <2>1 DEF SignalsAreOwn, Assigned
    <3>3. session[s].key # k
      BY <1>1, <3>1, <3>2 DEF Served
    <3>4. session[s].key \in Keys
      BY <1>2, <2>1, References
    <3> QED BY <1>4, <3>1, <3>3, <3>4 DEF Served, ServedNext
  <2>2. \A s \in Sessions: session[s].key # None => session[s].key \in Keys
    BY <1>2, References
  <2>3. ASSUME NEW s \in Sessions,
               session'[s].mode = "unknown", session'[s].key # None
        PROVE  /\ request'[session'[s].key].session = s
               /\ ~ServedNext(session'[s].key)
               /\ signal'[s] # "set"
    <3>1. /\ request[session[s].key].session = s
          /\ signal[s] # "set"
      BY <1>1, <1>2, <2>3 DEF FreshUntilAssigned
    <3>2. request'[session[s].key].session = s /\ ~ServedNext(session[s].key)
      BY <1>1, <1>4, <2>1, <2>2, <2>3, <3>1
    <3> QED BY <1>1, <3>1, <3>2
  <2>4. ASSUME NEW e \in Desktops, desktop'[e].session # None, desktop'[e].phase # "adopting"
        PROVE  session'[desktop'[e].session].mode \in Assigned
    BY <1>1, <1>2, <2>4 DEF FreshUntilAssigned, Holds
  <2>5. ASSUME NEW e \in Desktops, NEW l \in Keys, desktop'[e].session # None,
               desktop'[e].key = l, cache'[l] = request'[l].session
        PROVE  cache'[l] \in {None, desktop'[e].session}
    <3>1. Holds(e) /\ desktop[e].key = l /\ cache[l] = request[l].session
      BY <1>1, <1>4, <2>5 DEF Holds
    <3>2. cache[l] \in {None, desktop[e].session}
      BY <1>2, <3>1 DEF FreshUntilAssigned
    <3> QED BY <1>1, <3>2
  <2> QED BY <2>3, <2>4, <2>5 DEF FreshUntilAssigned, Served, ServedNext, Holds, Assigned
<1>12. DisposedLeave'
  BY <1>1, <1>2, <1>3, DisposedFrame DEF DisposedLeave
<1>13. ConsentIsAsked' /\ ConsentBeforeCast'
  BY <1>1, <1>3, <1>5, <1>6, AskedFrame, CastFrame
<1>14. ListsAreKept'
  <2>1. \A e \in Desktops, w \in Viewers: w \in desktop'[e].left =>
           w \in desktop[e].left /\ desktop'[e].session # None
    BY <1>1, <1>2 DEF ListsAreKept, Holds
  <2>2. \A w \in Viewers: viewer'[w].phase \in Attached => viewer'[w] = viewer[w]
    BY <1>6 DEF Attached
  <2>3. \A w \in Viewers: viewer[w].phase \in {"off", "gone"} =>
           \/ viewer'[w].phase \in {"off", "gone"}
           \/ \A e \in Desktops: w \notin desktop[e].left
    BY <1>1, <1>6
  <2>4. \A s \in Sessions: session'[s].viewers = session[s].viewers
    BY <1>1
  <2> QED BY <1>3, <2>1, <2>2, <2>3, <2>4, ListsFrame
<1>15. OnlyRecreatedAreAttended'
  BY <1>1, <1>3, <1>6, AttendedFrame DEF ObjectsKept, AttendsKept
<1> QED BY <1>7, <1>8, <1>9, <1>10, <1>11, <1>12, <1>13, <1>14, <1>15 DEF SessionInvariant

\* A viewer follows a notice to a key that is served.
LEMMA ReceiveNoticeKeepsSessions ==
  ASSUME SessionInvariant, KeyInvariant', NEW n \in notices, ReceiveNotice(n)
  PROVE  SessionInvariant'
<1> DEFINE v == n.viewer
           k == n.key
<1>1. /\ UNCHANGED <<cache, cleaning, session, signal, consent, commands, desktop>>
      /\ notices' \subseteq notices
      /\ viewer' = [viewer EXCEPT ![v].phase = "requesting", ![v].key = k,
                                  ![v].access = n.access]
      /\ request' = [request EXCEPT ![k].phase = IF @ = "cloned" THEN "ready" ELSE @,
                                    ![k].shown = @ \cup {n.access}]
      /\ viewer[v].phase \notin {"off", "gone"}
  BY DEF ReceiveNotice, Interruptible
<1>2. /\ TypeOK /\ KeyInvariant /\ SignalsAreOwn /\ DisposedLeave
      /\ ListsAreKept /\ k \in Keys /\ v \in Viewers /\ Served(k)
  BY Steady, References DEF SessionInvariant, ViewedOnceServed
<1>3. ObjectsKept /\ DisposalsKept /\ CacheShrinks /\ HoldersKept
  BY <1>1 DEF ObjectsKept, DisposalsKept, CacheShrinks, HoldersKept
<1>4. /\ \A l \in Keys: request'[l].session = request[l].session
      /\ \A l \in Keys \ {k}: request'[l] = request[l]
      /\ request'[k].phase \in {"ready", "cloned"}
  <2>1. /\ \A l \in Keys \ {k}: request'[l] = request[l]
        /\ request'[k] = [request[k] EXCEPT
                            !.phase = IF @ = "cloned" THEN "ready" ELSE @,
                            !.shown = @ \cup {n.access}]
    BY <1>1, <1>2 DEF TypeOK
  <2>2. request[k] \in Requests
    BY <1>2 DEF TypeOK
  <2>3. request'[k].session = request[k].session /\ request'[k].phase \in {"ready", "cloned"}
    BY <1>2, <2>1, <2>2 DEF Served, Requests
  <2> QED BY <2>1, <2>3
<1>5. RequestsKept /\ ServedKept
  BY <1>2, <1>4 DEF RequestsKept, ServedKept, Served, ServedNext
<1>6. /\ \A w \in Viewers \ {v}: viewer'[w] = viewer[w]
      /\ viewer'[v].phase = "requesting" /\ viewer'[v].key = k
      /\ viewer'[v].attends = viewer[v].attends
      /\ viewer'[v].session = viewer[v].session
  BY <1>1, <1>2 DEF TypeOK, ViewerRecords
<1>7. SignalsAreOwn'
  <2>1. ASSUME NEW s \in Sessions, session'[s].desktop # None
        PROVE  /\ session'[s].desktop = session[s].desktop
               /\ desktop'[session[s].desktop].session # None
    BY <1>1, <1>2, <2>1 DEF SignalsAreOwn, Holds
  <2> QED BY <1>1, <1>3, <2>1, SignalsFrame
<1>8. KeysAreRequested'
  BY <1>1, <1>3, <1>5, KeysFrame
<1>9. ViewedOnceServed'
  <2>1. \A w \in Viewers: \/ viewer'[w].key \in {viewer[w].key, None}
                          \/ ServedNext(viewer'[w].key)
    BY <1>4, <1>6 DEF ServedNext
  <2> QED BY <1>1, <1>3, <1>5, <2>1, ViewedFrame
<1>10. FoundUnderOwnKey'
  BY <1>3, <1>6, FoundFrame
<1>11. FreshUntilAssigned' /\ ConsentIsAsked' /\ ConsentBeforeCast'
  BY <1>1, <1>3, <1>5, <1>6, FreshFrame, AskedFrame, CastFrame
<1>12. DisposedLeave'
  BY <1>1, <1>2, <1>3, DisposedFrame DEF DisposedLeave
<1>13. ListsAreKept'
  <2>1. \A e \in Desktops, w \in Viewers: w \in desktop'[e].left =>
           w \in desktop[e].left /\ desktop'[e].session # None
    BY <1>1, <1>2 DEF ListsAreKept, Holds
  <2>2. \A w \in Viewers: viewer[w].phase \in {"off", "gone"} =>
           viewer'[w].phase \in {"off", "gone"}
    BY <1>1, <1>6
  <2> QED BY <1>1, <1>3, <1>6, <2>1, <2>2, ListsFrame DEF Attached
<1>14. OnlyRecreatedAreAttended'
  BY <1>1, <1>3, <1>6, AttendedFrame DEF ObjectsKept, AttendsKept
<1> QED BY <1>7, <1>8, <1>9, <1>10, <1>11, <1>12, <1>13, <1>14 DEF SessionInvariant

\* A viewer finds the object cached under its key.
LEMMA FindSessionKeepsSessions ==
  ASSUME SessionInvariant, KeyInvariant', NEW v \in Viewers, FindSession(v)
  PROVE  SessionInvariant'
<1> DEFINE k == viewer[v].key
<1>1. /\ UNCHANGED <<cache, cleaning, session, signal, request, consent, commands,
                     desktop, notices>>
      /\ viewer[v].phase = "requesting"
  BY DEF FindSession
<1>2. /\ TypeOK /\ KeyInvariant /\ SignalsAreOwn /\ DisposedLeave
      /\ ListsAreKept /\ k \in Keys /\ FoundUnderOwnKey
  BY <1>1, Steady DEF SessionInvariant, KeyInvariant, ViewerReferences
<1>3. ObjectsKept /\ DisposalsKept /\ CacheShrinks /\ HoldersKept /\ RequestsKept /\ ServedKept
  BY <1>1 DEF ObjectsKept, DisposalsKept, CacheShrinks, HoldersKept, RequestsKept,
              ServedKept, Served, ServedNext
<1>4. /\ \A w \in Viewers \ {v}: viewer'[w] = viewer[w]
      /\ viewer'[v].key = k
      /\ \/ viewer'[v].phase = "leaving"
         \/ viewer'[v].phase = "found" /\ viewer'[v].found = cache[k] /\ cache[k] # None
      /\ viewer'[v].attends = viewer[v].attends
      /\ viewer'[v].session = viewer[v].session
  BY <1>2 DEF FindSession, TypeOK, ViewerRecords
<1>5. SignalsAreOwn'
  <2>1. ASSUME NEW s \in Sessions, session'[s].desktop # None
        PROVE  /\ session'[s].desktop = session[s].desktop
               /\ desktop'[session[s].desktop].session # None
    BY <1>1, <1>2, <2>1 DEF SignalsAreOwn, Holds
  <2> QED BY <1>1, <1>3, <2>1, SignalsFrame
<1>6. KeysAreRequested'
  BY <1>1, <1>3, KeysFrame
<1>7. ViewedOnceServed'
  BY <1>1, <1>3, <1>4, ViewedFrame
<1>8. FoundUnderOwnKey'
  <2>1. ASSUME viewer'[v].phase = "found" PROVE Belongs(cache[k], k)
    <3>1. cache[k] # None
      BY <1>4, <2>1
    <3>2. OneKeyPerObject
      BY <1>2 DEF KeyInvariant
    <3>3. session[cache[k]].key \in {k, None}
      BY <1>2, <3>1, <3>2 DEF OneKeyPerObject
    <3>4. \A l \in Keys: cache[l] = cache[k] => l = k
      BY <1>2, <3>1, <3>2 DEF OneKeyPerObject
    <3>5. \A d \in Desktops: desktop[d].session = cache[k] => desktop[d].key = k
      BY <1>2, <3>1, <3>2 DEF OneKeyPerObject, Holds
    <3> QED BY <3>3, <3>4, <3>5 DEF Belongs
  <2>2. \A w \in Viewers: viewer'[w].phase \in {"found", "admitted"} =>
           Belongs(viewer'[w].found, viewer'[w].key)
    BY <1>2, <1>4, <2>1 DEF FoundUnderOwnKey
  <2> QED BY <1>1, <2>2 DEF FoundUnderOwnKey, Belongs
<1>9. FreshUntilAssigned' /\ ConsentIsAsked' /\ ConsentBeforeCast'
  BY <1>1, <1>3, <1>4, FreshFrame, AskedFrame, CastFrame
<1>10. DisposedLeave'
  BY <1>1, <1>2, <1>3, DisposedFrame DEF DisposedLeave
<1>11. ListsAreKept'
  <2>1. \A e \in Desktops, w \in Viewers: w \in desktop'[e].left =>
           w \in desktop[e].left /\ desktop'[e].session # None
    BY <1>1, <1>2 DEF ListsAreKept, Holds
  <2> QED BY <1>1, <1>3, <1>4, <2>1, ListsFrame DEF Attached
<1>12. OnlyRecreatedAreAttended'
  BY <1>1, <1>3, <1>4, AttendedFrame DEF ObjectsKept, AttendsKept
<1> QED BY <1>5, <1>6, <1>7, <1>8, <1>9, <1>10, <1>11, <1>12 DEF SessionInvariant

-----------------------------------------------------------------------------
\* A process that reports ready sets the signal of an object it has assigned.
LEMMA NotifyRequesterUnattendedReadyKeepsSessions ==
  ASSUME SessionInvariant, KeyInvariant',
         NEW d \in Desktops, NotifyRequesterUnattendedReady(d)
  PROVE  SessionInvariant'
<1> DEFINE k == session[desktop[d].session].key
           s == cache[k]
           x == session[s].signal
<1>1. /\ UNCHANGED <<cache, cleaning, session, request, consent, commands, viewer, notices>>
      /\ desktop[d].phase = "registered"
      /\ desktop' = [desktop EXCEPT ![d].phase = "serving"]
      /\ signal' = IF s = None THEN signal
                   ELSE [signal EXCEPT ![x] = IF @ = "disposed" THEN @ ELSE "set"]
  BY DEF NotifyRequesterUnattendedReady
<1>2. /\ TypeOK /\ KeyInvariant /\ SignalsAreOwn /\ DisposedLeave
      /\ FreshUntilAssigned /\ ListsAreKept
  BY Steady DEF SessionInvariant
<1>3. Holds(d) /\ k \in Keys /\ desktop[d].key = k
  <2>1. Holds(d) /\ k \in Keys
    BY <1>1, Steady, NoneAssumption DEF Listening
  <2> QED BY <1>2, <2>1, NoneAssumption DEF KeyInvariant, OneKeyPerObject
<1>4. s # None => s \in Sessions /\ ~Unused(s) /\ x \in Sessions /\ ~Unused(x)
  BY <1>2, <1>3, UsedObjects, References
<1>5. /\ \A e \in Desktops \ {d}: desktop'[e] = desktop[e]
      /\ desktop'[d].session = desktop[d].session /\ desktop'[d].key = desktop[d].key
      /\ desktop'[d].viewers = desktop[d].viewers /\ desktop'[d].left = desktop[d].left
  BY <1>1, <1>2 DEF TypeOK, DesktopRecords
<1>6. /\ ObjectsKept /\ DisposalsKept /\ CacheShrinks /\ HoldersKept
      /\ RequestsKept /\ ServedKept
  <2>1. ObjectsKept /\ DisposalsKept /\ CacheShrinks /\ RequestsKept /\ ServedKept
    BY <1>1 DEF ObjectsKept, DisposalsKept, CacheShrinks, RequestsKept, ServedKept,
                Served, ServedNext
  <2>2. HoldersKept
    BY <1>1, <1>5 DEF HoldersKept
  <2> QED BY <2>1, <2>2
<1>7. /\ \A y \in Sessions: y # x \/ s = None => signal'[y] = signal[y]
      /\ \A y \in Sessions: signal'[y] = "disposed" => signal[y] = "disposed"
      /\ \A y \in Sessions: signal'[y] = "set" => signal[y] = "set" \/ (s # None /\ y = x)
  BY <1>1, <1>2, <1>4 DEF TypeOK
<1>8. SignalsAreOwn'
  <2>1. ASSUME NEW t \in Sessions, session'[t].desktop # None
        PROVE  /\ session'[t].desktop = session[t].desktop
               /\ desktop'[session[t].desktop].session # None
    <3>1. session[t].desktop \in Desktops /\ Holds(session[t].desktop)
      BY <1>1, <1>2, <2>1, References DEF SignalsAreOwn
    <3> QED BY <1>1, <1>5, <3>1 DEF Holds
  <2>2. \A t \in Sessions: Unused(t) => signal'[t] = signal[t]
    BY <1>4, <1>7
  <2> QED BY <1>1, <1>6, <2>1, <2>2, SignalsFrame
<1>9. KeysAreRequested'
  <2>1. \A e \in Desktops: desktop'[e].key = desktop[e].key
    BY <1>5
  <2> QED BY <1>1, <1>6, <2>1, KeysFrame
<1>10. ViewedOnceServed'
  <2>1. \A e \in Desktops: /\ desktop'[e].key = desktop[e].key
                           /\ desktop'[e].viewers = desktop[e].viewers
    BY <1>5
  <2> QED BY <1>1, <1>6, <2>1, ViewedFrame
<1>11. FoundUnderOwnKey' /\ ConsentIsAsked' /\ ConsentBeforeCast'
  BY <1>1, <1>6, FoundFrame, AskedFrame, CastFrame
<1>12. FreshUntilAssigned'
  \* The object that is found is assigned, or shares its signal with one that is.
  <2>1. ASSUME NEW t \in Sessions,
               session[t].mode = "unknown", session[t].key # None
        PROVE  signal'[t] # "set"
    <3>1. /\ request[session[t].key].session = t
          /\ signal[t] # "set"
      BY <1>2, <2>1 DEF FreshUntilAssigned
    <3>2. SUFFICES ASSUME s # None, t = x PROVE FALSE
      BY <1>7, <3>1
    <3>3. t = s
      <4>1. s \in Sessions
        BY <1>4, <3>2
      <4>2. x = session[s].signal
        OBVIOUS
      <4> HIDE DEF s, x
      <4>3. session[x].mode = "unknown"
        BY <2>1, <3>2
      <4>4. session[s].signal = s
        BY <1>2, <4>1, <4>2, <4>3 DEF SignalsAreOwn, Assigned
      <4> QED BY <3>2, <4>2, <4>4
    <3>4. session[t].key = k
      <4>1. k \in Keys /\ cache[k] # None /\ t = cache[k]
        BY <1>3, <3>2, <3>3
      <4> HIDE DEF k
      <4>2. session[cache[k]].key \in {k, None}
        BY <1>2, <4>1 DEF KeyInvariant, OneKeyPerObject
      <4> QED BY <2>1, <4>1, <4>2
    <3>5. s = desktop[d].session
      <4>1. cache[k] = request[k].session /\ cache[k] # None
        BY <3>1, <3>2, <3>3, <3>4
      <4> HIDE DEF k
      <4>2. cache[k] \in {None, desktop[d].session}
        BY <1>2, <1>3, <4>1 DEF FreshUntilAssigned
      <4> QED BY <4>1, <4>2
    <3>6. session[desktop[d].session].mode \in Assigned
      <4>1. desktop[d].phase # "adopting"
        BY <1>1
      <4> QED BY <1>2, <1>3, <4>1 DEF FreshUntilAssigned
    <3> QED BY <2>1, <3>3, <3>5, <3>6 DEF Assigned
  <2>2. ASSUME NEW e \in Desktops
        PROVE  /\ desktop'[e].session = desktop[e].session
               /\ desktop'[e].key = desktop[e].key
               /\ desktop'[e].phase # "adopting" => desktop[e].phase # "adopting"
    BY <1>1, <1>5
  <2>3. ASSUME NEW t \in Sessions,
               session'[t].mode = "unknown", session'[t].key # None
        PROVE  /\ request'[session'[t].key].session = t
               /\ ~ServedNext(session'[t].key)
               /\ signal'[t] # "set"
    <3>1. session' = session /\ request' = request
      BY <1>1
    <3>2. /\ request[session[t].key].session = t
          /\ ~Served(session[t].key)
      BY <1>2, <2>3, <3>1 DEF FreshUntilAssigned
    <3> QED BY <2>1, <2>3, <3>1, <3>2 DEF Served, ServedNext
  <2>4. ASSUME NEW e \in Desktops, desktop'[e].session # None, desktop'[e].phase # "adopting"
        PROVE  session'[desktop'[e].session].mode \in Assigned
    <3>1. Holds(e) /\ desktop[e].phase # "adopting" /\ desktop'[e].session = desktop[e].session
      BY <2>2, <2>4 DEF Holds
    <3>2. session[desktop[e].session].mode \in Assigned
      BY <1>2, <3>1 DEF FreshUntilAssigned
    <3> QED BY <1>1, <3>1, <3>2
  <2>5. ASSUME NEW e \in Desktops, NEW l \in Keys,
               desktop'[e].session # None, desktop'[e].key = l,
               cache'[l] = request'[l].session
        PROVE  cache'[l] \in {None, desktop'[e].session}
    <3>1. cache' = cache /\ request' = request
      BY <1>1
    <3>2. Holds(e) /\ desktop[e].key = l /\ cache[l] = request[l].session
      BY <2>2, <2>5, <3>1 DEF Holds
    <3>3. cache[l] \in {None, desktop[e].session}
      BY <1>2, <3>2 DEF FreshUntilAssigned
    <3> QED BY <2>2, <3>1, <3>3
  <2> QED BY <2>3, <2>4, <2>5 DEF FreshUntilAssigned, Served, ServedNext, Holds, Assigned
<1>13. DisposedLeave'
  BY <1>1, <1>2, <1>6, <1>7, DisposedFrame DEF DisposedLeave
<1>14. ListsAreKept'
  <2>1. \A e \in Desktops, w \in Viewers: w \in desktop'[e].left =>
           w \in desktop[e].left /\ desktop'[e].session # None
    BY <1>2, <1>5 DEF ListsAreKept, Holds
  <2> QED BY <1>1, <1>6, <2>1, ListsFrame
<1>15. OnlyRecreatedAreAttended'
  BY <1>1, <1>6, AttendedFrame DEF ObjectsKept, AttendsKept
<1> QED BY <1>8, <1>9, <1>10, <1>11, <1>12, <1>13, <1>14, <1>15 DEF SessionInvariant

\* A relaunched process reports ready to the viewers it was handed.
LEMMA NotifyViewersRelaunchedKeepsSessions ==
  ASSUME SessionInvariant, KeyInvariant',
         NEW d \in Desktops, NotifyViewersRelaunched(d)
  PROVE  SessionInvariant'
<1> DEFINE s == desktop[d].session
<1>1. /\ UNCHANGED <<cache, cleaning, signal, request, consent, commands, viewer>>
      /\ desktop[d].phase = "registered"
      /\ session' = [session EXCEPT ![s].desktop = d]
      /\ desktop' = [desktop EXCEPT ![d].phase = "serving", ![d].viewers = {},
                                    ![d].relaunch = FALSE]
      /\ \A n \in notices': \/ n \in notices
                            \/ n.key = session[s].key /\ desktop[d].viewers # {}
  BY DEF NotifyViewersRelaunched
<1>2. /\ TypeOK /\ KeyInvariant /\ SignalsAreOwn /\ DisposedLeave
      /\ ViewedOnceServed /\ ListsAreKept
  BY Steady DEF SessionInvariant
<1>3. Holds(d) /\ s \in Sessions /\ desktop[d].key = session[s].key
  <2>1. Holds(d) /\ s \in Sessions /\ session[s].key \in Keys
    BY <1>1, Steady, NoneAssumption DEF Listening
  <2> QED BY <1>2, <2>1, NoneAssumption DEF KeyInvariant, OneKeyPerObject
<1>4. /\ \A e \in Desktops \ {d}: desktop'[e] = desktop[e]
      /\ desktop'[d].session = s /\ desktop'[d].key = desktop[d].key
      /\ desktop'[d].viewers = {} /\ desktop'[d].left = desktop[d].left
  BY <1>1, <1>2 DEF TypeOK, DesktopRecords
<1>5. /\ \A t \in Sessions \ {s}: session'[t] = session[t]
      /\ session'[s] = [session[s] EXCEPT !.desktop = d]
      /\ session'[s].desktop = d
      /\ \A t \in Sessions: /\ session'[t].viewers = session[t].viewers
                            /\ session'[t].requireConsent = session[t].requireConsent
  BY <1>1, <1>2, <1>3 DEF TypeOK, SessionRecords
<1>6. /\ ObjectsKept /\ DisposalsKept /\ CacheShrinks /\ HoldersKept
      /\ RequestsKept /\ ServedKept
  <2>1. ObjectsKept /\ DisposalsKept
    BY <1>1, <1>2, <1>3 DEF ObjectsKept, DisposalsKept, TypeOK, SessionRecords
  <2>2. CacheShrinks /\ RequestsKept /\ ServedKept
    BY <1>1 DEF CacheShrinks, RequestsKept, ServedKept, Served, ServedNext
  <2>3. HoldersKept
    BY <1>1, <1>4 DEF HoldersKept
  <2> QED BY <2>1, <2>2, <2>3
<1>7. SignalsAreOwn'
  <2>1. ASSUME NEW t \in Sessions, session'[t].desktop # None
        PROVE  \/ /\ session'[t].desktop = session[t].desktop
                  /\ desktop'[session[t].desktop].session # None
               \/ desktop'[session'[t].desktop].session = t
    <3>1. CASE t = s
      BY <1>4, <1>5, <3>1
    <3>2. CASE t # s
      <4>1. session[t].desktop \in Desktops /\ Holds(session[t].desktop)
        BY <1>2, <1>5, <2>1, <3>2, References DEF SignalsAreOwn
      <4> QED BY <1>4, <1>5, <3>2, <4>1 DEF Holds
    <3> QED BY <3>1, <3>2
  <2>2. \A t \in Sessions: /\ signal'[t] = signal[t]
                           /\ session'[t].disposed = session[t].disposed
    BY <1>1, <1>6 DEF DisposalsKept
  <2> QED BY <1>6, <2>1, <2>2, SignalsFrame
<1>8. KeysAreRequested'
  <2>1. \A e \in Desktops: desktop'[e].key = desktop[e].key
    BY <1>4
  <2> QED BY <1>1, <1>6, <2>1, KeysFrame
<1>9. ViewedOnceServed'
  <2>1. \A e \in Desktops: desktop'[e].viewers # {} =>
           desktop'[e].key = desktop[e].key /\ desktop[e].viewers # {}
    BY <1>4
  <2>2. ASSUME NEW n \in notices', n \notin notices PROVE ServedNext(n.key)
    <3>1. n.key = desktop[d].key /\ desktop[d].viewers # {}
      BY <1>1, <1>3, <2>2
    <3>2. Served(desktop[d].key)
      BY <1>2, <3>1 DEF ViewedOnceServed
    <3> QED BY <1>1, <3>1, <3>2 DEF Served, ServedNext
  <2>3. \A t \in Sessions: session'[t].viewers \subseteq session[t].viewers
    BY <1>5
  <2> QED BY <1>1, <1>6, <2>1, <2>2, <2>3, ViewedFrame
<1>10. FoundUnderOwnKey' /\ FreshUntilAssigned'
  BY <1>1, <1>6, FoundFrame, FreshFrame
<1>11. ConsentIsAsked' /\ ConsentBeforeCast'
  BY <1>1, <1>5, <1>6, AskedFrame, CastFrame
<1>12. DisposedLeave'
  BY <1>1, <1>2, <1>6, DisposedFrame DEF DisposedLeave
<1>13. ListsAreKept'
  <2>1. \A e \in Desktops, w \in Viewers: w \in desktop'[e].left =>
           w \in desktop[e].left /\ desktop'[e].session # None
    BY <1>2, <1>4 DEF ListsAreKept, Holds
  <2> QED BY <1>1, <1>5, <1>6, <2>1, ListsFrame
<1>14. OnlyRecreatedAreAttended'
  BY <1>1, <1>6, AttendedFrame DEF ObjectsKept, AttendsKept
<1> QED BY <1>7, <1>8, <1>9, <1>10, <1>11, <1>12, <1>13, <1>14 DEF SessionInvariant

\* A list loses a viewer that is gone, or that a clone has taken over.
LEMMA DisconnectViewerKeepsSessions ==
  ASSUME SessionInvariant, KeyInvariant',
         NEW d \in Desktops, NEW v \in Viewers, DisconnectViewer(d, v)
  PROVE  SessionInvariant'
<1> DEFINE s == desktop[d].session
<1>1. /\ UNCHANGED <<cache, cleaning, signal, request, consent, commands, viewer, notices>>
      /\ Listening(d) /\ v \in desktop[d].left
      /\ session' = [session EXCEPT ![s].viewers = @ \ {v}]
      /\ desktop' = [desktop EXCEPT ![d].left = @ \ {v}]
  BY DEF DisconnectViewer
<1>2. /\ TypeOK /\ KeyInvariant /\ SignalsAreOwn /\ DisposedLeave /\ ListsAreKept
      /\ Holds(d) /\ s \in Sessions
  BY <1>1, Steady DEF SessionInvariant
<1>3. /\ \A e \in Desktops: /\ desktop'[e].session = desktop[e].session
                            /\ desktop'[e].key = desktop[e].key
                            /\ desktop'[e].phase = desktop[e].phase
                            /\ desktop'[e].viewers = desktop[e].viewers
                            /\ desktop'[e].left \subseteq desktop[e].left
  BY <1>1, <1>2 DEF TypeOK, DesktopRecords
<1>4. \A t \in Sessions:
        /\ session'[t].viewers \subseteq session[t].viewers
        /\ session[t].viewers \ session'[t].viewers \subseteq (IF t = s THEN {v} ELSE {})
        /\ session'[t].requireConsent = session[t].requireConsent
        /\ session'[t].desktop = session[t].desktop
  BY <1>1, <1>2 DEF TypeOK, SessionRecords
<1>5. /\ ObjectsKept /\ DisposalsKept /\ CacheShrinks /\ HoldersKept
      /\ RequestsKept /\ ServedKept
  <2>1. ObjectsKept /\ DisposalsKept
    BY <1>1, <1>2 DEF ObjectsKept, DisposalsKept, TypeOK, SessionRecords
  <2>2. CacheShrinks /\ RequestsKept /\ ServedKept
    BY <1>1 DEF CacheShrinks, RequestsKept, ServedKept, Served, ServedNext
  <2>3. HoldersKept
    BY <1>3 DEF HoldersKept
  <2> QED BY <2>1, <2>2, <2>3
<1>6. SignalsAreOwn'
  <2>1. ASSUME NEW t \in Sessions, session'[t].desktop # None
        PROVE  /\ session'[t].desktop = session[t].desktop
               /\ desktop'[session[t].desktop].session # None
    <3>1. session[t].desktop \in Desktops /\ Holds(session[t].desktop)
      BY <1>2, <1>4, <2>1, References DEF SignalsAreOwn
    <3> QED BY <1>3, <1>4, <3>1 DEF Holds
  <2>2. \A t \in Sessions: /\ signal'[t] = signal[t]
                           /\ session'[t].disposed = session[t].disposed
    BY <1>1, <1>5 DEF DisposalsKept
  <2> QED BY <1>5, <2>1, <2>2, SignalsFrame
<1>7. KeysAreRequested' /\ ViewedOnceServed'
  BY <1>1, <1>3, <1>4, <1>5, KeysFrame, ViewedFrame
<1>8. FoundUnderOwnKey' /\ FreshUntilAssigned'
  BY <1>1, <1>5, FoundFrame, FreshFrame
<1>9. ConsentIsAsked' /\ ConsentBeforeCast'
  BY <1>1, <1>4, <1>5, AskedFrame, CastFrame
<1>10. DisposedLeave'
  BY <1>1, <1>2, <1>5, DisposedFrame DEF DisposedLeave
<1>11. ListsAreKept'
  <2>1. \A t \in Sessions: HasCopy(t) => CopyNext(t)
    BY <1>5 DEF HasCopy, CopyNext, ObjectsKept
  <2>2. ASSUME NEW e \in Desktops, NEW w \in Viewers, w \in desktop'[e].left
        PROVE  /\ desktop'[e].session # None
               /\ viewer[w].phase \in {"off", "gone"} \/ CopyNext(desktop'[e].session)
    <3>1. /\ Holds(e) /\ desktop'[e].session = desktop[e].session
          /\ viewer[w].phase \in {"off", "gone"} \/ HasCopy(desktop[e].session)
      BY <1>2, <1>3, <2>2 DEF ListsAreKept
    <3>2. desktop[e].session \in Sessions
      BY <3>1, UsedObjects
    <3> QED BY <2>1, <3>1, <3>2 DEF Holds
  <2>3. ASSUME NEW w \in Viewers, viewer[w].phase \in Attached
        PROVE  \/ w \in session'[viewer[w].session].viewers
               \/ CopyNext(viewer[w].session)
    <3>1. viewer[w].session \in Sessions
      BY <1>2, <2>3, References DEF KeyInvariant, ViewerReferences, Attached
    <3>2. w \in session[viewer[w].session].viewers \/ HasCopy(viewer[w].session)
      BY <1>2, <2>3 DEF ListsAreKept
    <3>3. CASE w = v /\ viewer[w].session = s
      <4>1. HasCopy(s)
        BY <1>1, <1>2, <2>3, <3>3 DEF ListsAreKept, Attached
      <4> QED BY <2>1, <3>1, <3>3, <4>1
    <3>4. CASE ~(w = v /\ viewer[w].session = s)
      BY <1>4, <2>1, <3>1, <3>2, <3>4
    <3> QED BY <3>3, <3>4
  <2> QED BY <1>1, <2>2, <2>3 DEF ListsAreKept, Holds, Attached, HasCopy, CopyNext
<1>12. OnlyRecreatedAreAttended'
  BY <1>1, <1>5, AttendedFrame DEF ObjectsKept, AttendsKept
<1> QED BY <1>6, <1>7, <1>8, <1>9, <1>10, <1>11, <1>12 DEF SessionInvariant

-----------------------------------------------------------------------------
\* A process that exits tells the viewers it casts to.
LEMMA DesktopExitsKeepsSessions ==
  ASSUME SessionInvariant, KeyInvariant', NEW d \in Desktops, DesktopExits(d)
  PROVE  SessionInvariant'
<1> DEFINE s == desktop[d].session
<1>1. PICK told \in SUBSET Viewers:
        /\ session' = [session EXCEPT ![s].viewers = @ \ told]
        /\ viewer' = [v \in Viewers |->
                        IF v \in told /\ Stoppable(v)
                        THEN [viewer[v] EXCEPT !.phase = "leaving"]
                        ELSE viewer[v]]
  <2>1. desktop[d].cast \in SUBSET Viewers
    BY Steady DEF TypeOK, DesktopRecords
  <2>2. {{}, desktop[d].cast} \subseteq SUBSET Viewers
    BY <2>1
  <2> QED BY <2>2 DEF DesktopExits
<1>2. /\ UNCHANGED <<cache, cleaning, signal, request, consent, commands, notices>>
      /\ desktop[d].phase = "closing"
      /\ desktop' = [desktop EXCEPT ![d].phase = "lost", ![d].cast = {},
                                    ![d].left = {}]
  BY DEF DesktopExits
<1>3. /\ TypeOK /\ KeyInvariant /\ SignalsAreOwn /\ DisposedLeave /\ ListsAreKept
      /\ Holds(d) /\ s \in Sessions
  BY <1>2, Steady, NoneAssumption DEF SessionInvariant, Listening
<1>4. /\ \A e \in Desktops: /\ desktop'[e].session = desktop[e].session
                            /\ desktop'[e].key = desktop[e].key
                            /\ desktop'[e].viewers = desktop[e].viewers
                            /\ desktop'[e].left \subseteq desktop[e].left
                            /\ desktop[e].phase = "adopting" => desktop'[e].phase = "adopting"
  BY <1>2, <1>3 DEF TypeOK, DesktopRecords
<1>5. \A t \in Sessions:
        /\ session'[t].viewers \subseteq session[t].viewers
        /\ session[t].viewers \ session'[t].viewers \subseteq told
        /\ session'[t].requireConsent = session[t].requireConsent
        /\ session'[t].desktop = session[t].desktop
  BY <1>1, <1>3 DEF TypeOK, SessionRecords
<1>6. \A v \in Viewers:
        \/ viewer'[v] = viewer[v] /\ (v \in told => ~Stoppable(v))
        \/ /\ viewer'[v].phase = "leaving" /\ viewer'[v].key = viewer[v].key
           /\ viewer'[v].session = viewer[v].session
           /\ viewer'[v].attends = viewer[v].attends
           /\ viewer[v].phase \notin {"off", "gone"}
  BY <1>1, <1>3 DEF TypeOK, ViewerRecords, Stoppable, Interruptible
<1>7. /\ ObjectsKept /\ DisposalsKept /\ CacheShrinks /\ HoldersKept
      /\ RequestsKept /\ ServedKept
  <2>1. ObjectsKept /\ DisposalsKept
    BY <1>1, <1>3 DEF ObjectsKept, DisposalsKept, TypeOK, SessionRecords
  <2>2. CacheShrinks /\ RequestsKept /\ ServedKept
    BY <1>2 DEF CacheShrinks, RequestsKept, ServedKept, Served, ServedNext
  <2>3. HoldersKept
    BY <1>4 DEF HoldersKept
  <2> QED BY <2>1, <2>2, <2>3
<1>8. SignalsAreOwn'
  <2>1. ASSUME NEW t \in Sessions, session'[t].desktop # None
        PROVE  /\ session'[t].desktop = session[t].desktop
               /\ desktop'[session[t].desktop].session # None
    <3>1. session[t].desktop \in Desktops /\ Holds(session[t].desktop)
      BY <1>3, <1>5, <2>1, References DEF SignalsAreOwn
    <3> QED BY <1>4, <1>5, <3>1 DEF Holds
  <2>2. \A t \in Sessions: /\ signal'[t] = signal[t]
                           /\ session'[t].disposed = session[t].disposed
    BY <1>2, <1>7 DEF DisposalsKept
  <2> QED BY <1>7, <2>1, <2>2, SignalsFrame
<1>9. KeysAreRequested'
  BY <1>2, <1>4, <1>7, KeysFrame
<1>10. ViewedOnceServed'
  <2>1. \A v \in Viewers: viewer'[v].key = viewer[v].key
    BY <1>6
  <2> QED BY <1>2, <1>4, <1>5, <1>7, <2>1, ViewedFrame
<1>11. FoundUnderOwnKey'
  BY <1>6, <1>7, FoundFrame
<1>12. FreshUntilAssigned' /\ ConsentIsAsked'
  BY <1>2, <1>5, <1>7, FreshFrame, AskedFrame
<1>13. ConsentBeforeCast'
  BY <1>2, <1>6, <1>7, CastFrame
<1>14. DisposedLeave'
  BY <1>2, <1>3, <1>7, DisposedFrame DEF DisposedLeave
<1>15. ListsAreKept'
  <2>1. \A t \in Sessions: HasCopy(t) => CopyNext(t)
    BY <1>7 DEF HasCopy, CopyNext, ObjectsKept
  <2>2. ASSUME NEW e \in Desktops, NEW w \in Viewers, w \in desktop'[e].left
        PROVE  /\ desktop'[e].session # None
               /\ viewer'[w].phase \in {"off", "gone"} \/ CopyNext(desktop'[e].session)
    <3>1. /\ Holds(e) /\ desktop'[e].session = desktop[e].session
          /\ viewer[w].phase \in {"off", "gone"} \/ HasCopy(desktop[e].session)
      BY <1>3, <1>4, <2>2 DEF ListsAreKept
    <3>2. desktop[e].session \in Sessions
      BY <3>1, UsedObjects
    <3> QED BY <1>6, <2>1, <3>1, <3>2 DEF Holds
  <2>3. ASSUME NEW w \in Viewers, viewer'[w].phase \in Attached
        PROVE  \/ w \in session'[viewer'[w].session].viewers
               \/ CopyNext(viewer'[w].session)
    <3>1. viewer'[w] = viewer[w] /\ w \notin told
      BY <1>6, <2>3 DEF Attached, Stoppable, Interruptible
    <3>2. viewer[w].session \in Sessions
      BY <1>3, <2>3, <3>1, References DEF KeyInvariant, ViewerReferences, Attached
    <3>3. w \in session[viewer[w].session].viewers \/ HasCopy(viewer[w].session)
      BY <1>3, <2>3, <3>1 DEF ListsAreKept
    <3> QED BY <1>5, <2>1, <3>1, <3>2, <3>3
  <2> QED BY <2>2, <2>3 DEF ListsAreKept, Holds, Attached, HasCopy, CopyNext
<1>16. OnlyRecreatedAreAttended'
  BY <1>6, <1>7, AttendedFrame DEF ObjectsKept, AttendsKept
<1> QED BY <1>8, <1>9, <1>10, <1>11, <1>12, <1>13, <1>14, <1>15, <1>16 DEF SessionInvariant

\* The viewer that ends is the one that is taken off the list, here and by the
\* process that is told.
LEMMA ViewerOnDisconnectedKeepsSessions ==
  ASSUME SessionInvariant, KeyInvariant', NEW v \in Viewers, ViewerOnDisconnected(v)
  PROVE  SessionInvariant'
<1> DEFINE s == viewer[v].session
           d == session[s].desktop
<1>1. /\ UNCHANGED <<cache, cleaning, signal, request, consent, commands>>
      /\ notices' \subseteq notices
      /\ viewer[v].phase = "leaving"
      /\ viewer' = [viewer EXCEPT ![v] =
                      IF @.prompt = None THEN NoViewer ELSE [@ EXCEPT !.phase = "gone"]]
  BY DEF ViewerOnDisconnected
<1>2. /\ TypeOK /\ KeyInvariant /\ SignalsAreOwn /\ DisposedLeave /\ ListsAreKept
      /\ s \in Sessions \cup {None}
  BY Steady, References DEF SessionInvariant
<1>3. /\ \A w \in Viewers \ {v}: viewer'[w] = viewer[w]
      /\ viewer'[v].phase \in {"off", "gone"} /\ viewer'[v].key \in {viewer[v].key, None}
      /\ viewer'[v].attends = FALSE
  BY <1>1, <1>2 DEF ViewerOnDisconnected, TypeOK, ViewerRecords, NoViewer
<1>4. \A t \in Sessions:
        /\ session'[t].viewers \subseteq session[t].viewers
        /\ session[t].viewers \ session'[t].viewers \subseteq {v}
        /\ session'[t].requireConsent = session[t].requireConsent
        /\ session'[t].desktop = session[t].desktop
        /\ session'[t].mode = session[t].mode
        /\ session'[t].key = session[t].key
        /\ session'[t].signal = session[t].signal
        /\ session'[t].device = session[t].device
        /\ session'[t].disposed = session[t].disposed
  <2>1. CASE s = None
    BY <2>1 DEF ViewerOnDisconnected
  <2>2. CASE s # None
    <3>1. session' = [session EXCEPT ![s].viewers = @ \ {v}]
      BY <2>2 DEF ViewerOnDisconnected
    <3> QED BY <1>2, <3>1 DEF TypeOK, SessionRecords
  <2> QED BY <2>1, <2>2
<1>5. \A e \in Desktops:
        /\ desktop'[e].session = desktop[e].session
        /\ desktop'[e].key = desktop[e].key
        /\ desktop'[e].viewers = desktop[e].viewers
        /\ \/ desktop'[e].left = desktop[e].left
           \/ desktop'[e].left = desktop[e].left \cup {v} /\ Holds(e)
        /\ desktop[e].phase = "adopting" => desktop'[e].phase = "adopting"
  <2>1. CASE s # None /\ Listening(d)
    <3>1. d \in Desktops /\ Holds(d)
      <4>1. d \in Desktops
        BY <1>2, <2>1, References DEF Listening
      <4> QED BY <2>1, <4>1, Steady
    <3>2. desktop' = [desktop EXCEPT ![d] = [CastsEnded(d, {v}) EXCEPT !.left = @ \cup {v}]]
      BY <2>1 DEF ViewerOnDisconnected, ViewerDisconnected
    <3>3. CastsEnded(d, {v}) \in DesktopRecords
      BY <1>2, <3>1, CastsEndedType DEF TypeOK
    <3>4. /\ CastsEnded(d, {v}).session = desktop[d].session
          /\ CastsEnded(d, {v}).viewers = desktop[d].viewers
          /\ CastsEnded(d, {v}).left = desktop[d].left
          /\ CastsEnded(d, {v}).key = desktop[d].key
          /\ desktop[d].phase # "adopting"
      BY <2>1, <3>1, CastsEndedAreCalm
    <3> QED BY <1>2, <3>1, <3>2, <3>3, <3>4 DEF TypeOK, DesktopRecords
  <2>2. CASE ~(s # None /\ Listening(d))
    BY <2>2 DEF ViewerOnDisconnected, ViewerDisconnected
  <2> QED BY <2>1, <2>2
<1>6. /\ ObjectsKept /\ DisposalsKept /\ CacheShrinks /\ HoldersKept
      /\ RequestsKept /\ ServedKept
  <2>1. ObjectsKept /\ DisposalsKept
    BY <1>4 DEF ObjectsKept, DisposalsKept
  <2>2. CacheShrinks /\ RequestsKept /\ ServedKept
    BY <1>1 DEF CacheShrinks, RequestsKept, ServedKept, Served, ServedNext
  <2>3. HoldersKept
    BY <1>5 DEF HoldersKept
  <2> QED BY <2>1, <2>2, <2>3
<1>7. SignalsAreOwn'
  <2>1. ASSUME NEW t \in Sessions, session'[t].desktop # None
        PROVE  /\ session'[t].desktop = session[t].desktop
               /\ desktop'[session[t].desktop].session # None
    <3>1. session[t].desktop \in Desktops /\ Holds(session[t].desktop)
      BY <1>2, <1>4, <2>1, References DEF SignalsAreOwn
    <3> QED BY <1>4, <1>5, <3>1 DEF Holds
  <2>2. \A t \in Sessions: /\ signal'[t] = signal[t]
                           /\ session'[t].disposed = session[t].disposed
    BY <1>1, <1>6 DEF DisposalsKept
  <2> QED BY <1>6, <2>1, <2>2, SignalsFrame
<1>8. KeysAreRequested'
  <2>1. \A e \in Desktops: desktop'[e].key = desktop[e].key
    BY <1>5
  <2> QED BY <1>1, <1>6, <2>1, KeysFrame
<1>9. ViewedOnceServed'
  <2>1. \A e \in Desktops: desktop'[e].key = desktop[e].key /\ desktop'[e].viewers = desktop[e].viewers
    BY <1>5
  <2>2. \A w \in Viewers: viewer'[w].key \in {viewer[w].key, None}
    BY <1>3
  <2>3. \A t \in Sessions: session'[t].viewers \subseteq session[t].viewers
    BY <1>4
  <2> QED BY <1>1, <1>6, <2>1, <2>2, <2>3, ViewedFrame
<1>10. FoundUnderOwnKey'
  BY <1>3, <1>6, FoundFrame
<1>11. FreshUntilAssigned' /\ ConsentIsAsked'
  BY <1>1, <1>4, <1>6, FreshFrame, AskedFrame
<1>12. ConsentBeforeCast'
  BY <1>1, <1>3, <1>6, CastFrame
<1>13. DisposedLeave'
  BY <1>1, <1>2, <1>6, DisposedFrame DEF DisposedLeave
<1>14. ListsAreKept'
  <2>1. \A t \in Sessions: HasCopy(t) => CopyNext(t)
    BY <1>6 DEF HasCopy, CopyNext, ObjectsKept
  <2>2. ASSUME NEW e \in Desktops, NEW w \in Viewers, w \in desktop'[e].left
        PROVE  /\ desktop'[e].session # None
               /\ viewer'[w].phase \in {"off", "gone"} \/ CopyNext(desktop'[e].session)
    <3>1. CASE w \in desktop[e].left
      <4>1. /\ Holds(e) /\ desktop'[e].session = desktop[e].session
            /\ viewer[w].phase \in {"off", "gone"} \/ HasCopy(desktop[e].session)
        BY <1>2, <1>5, <3>1 DEF ListsAreKept
      <4>2. desktop[e].session \in Sessions
        BY <4>1, UsedObjects
      <4> QED BY <1>3, <2>1, <4>1, <4>2 DEF Holds
    <3>2. CASE w \notin desktop[e].left
      BY <1>3, <1>5, <2>2, <3>2 DEF Holds
    <3> QED BY <3>1, <3>2
  <2>3. ASSUME NEW w \in Viewers, viewer'[w].phase \in Attached
        PROVE  \/ w \in session'[viewer'[w].session].viewers
               \/ CopyNext(viewer'[w].session)
    <3>1. viewer'[w] = viewer[w] /\ w # v
      BY <1>3, <2>3 DEF Attached
    <3>2. viewer[w].session \in Sessions
      BY <1>2, <2>3, <3>1, References DEF KeyInvariant, ViewerReferences, Attached
    <3>3. w \in session[viewer[w].session].viewers \/ HasCopy(viewer[w].session)
      BY <1>2, <2>3, <3>1 DEF ListsAreKept
    <3> QED BY <1>4, <2>1, <3>1, <3>2, <3>3
  <2> QED BY <2>2, <2>3 DEF ListsAreKept, Holds, Attached, HasCopy, CopyNext
<1>15. OnlyRecreatedAreAttended'
  BY <1>3, <1>6, AttendedFrame DEF ObjectsKept, AttendsKept
<1> QED BY <1>7, <1>8, <1>9, <1>10, <1>11, <1>12, <1>13, <1>14, <1>15 DEF SessionInvariant

\* A user who agrees clears the flag of the object that asked.
LEMMA ConsentGivenKeepsSessions ==
  ASSUME SessionInvariant, KeyInvariant', NEW v \in Viewers, ConsentGiven(v)
  PROVE  SessionInvariant'
<1> DEFINE s == viewer[v].session
           k == session[s].key
<1>1. /\ UNCHANGED <<cache, cleaning, signal, request, commands, notices>>
      /\ viewer[v].prompt # None
      /\ session' = [session EXCEPT ![s].requireConsent = FALSE]
      /\ desktop' = GetScreenCast(session[s].desktop, v)
      /\ consent' = [consent EXCEPT ![k] = "given"]
      /\ viewer' = [viewer EXCEPT ![v] = Answered(v, "casting")]
  BY DEF ConsentGiven
<1>2. /\ TypeOK /\ KeyInvariant /\ SignalsAreOwn /\ DisposedLeave /\ ListsAreKept
      /\ ConsentIsAsked /\ ConsentBeforeCast
      /\ viewer[v].phase \in {"prompting", "leaving", "gone"}
      /\ s \in Sessions
  <2>1. /\ TypeOK /\ KeyInvariant /\ SignalsAreOwn /\ DisposedLeave /\ ListsAreKept
        /\ ConsentIsAsked /\ ConsentBeforeCast
        /\ viewer[v].phase \in {"prompting", "leaving", "gone"}
    BY <1>1, Steady DEF SessionInvariant
  <2>2. s \in Sessions
    BY <1>1, <2>1, References DEF KeyInvariant, ViewerReferences
  <2> QED BY <2>1, <2>2
<1>3. /\ \A w \in Viewers \ {v}: viewer'[w] = viewer[w]
      /\ viewer'[v].key \in {viewer[v].key, None}
      /\ \/ viewer'[v].phase = "casting" /\ viewer[v].phase = "prompting" /\ viewer'[v].session = s
         \/ viewer'[v].phase = "leaving" /\ viewer[v].phase = "leaving"
         \/ viewer'[v].phase = "off" /\ viewer[v].phase = "gone"
      /\ viewer'[v].attends => viewer[v].attends /\ viewer'[v].session = viewer[v].session
  BY <1>1, <1>2 DEF TypeOK, ViewerRecords, NoViewer, Answered
<1>4. \A t \in Sessions:
        /\ session'[t].viewers = session[t].viewers
        /\ t # s => session'[t].requireConsent = session[t].requireConsent
        /\ session'[t].desktop = session[t].desktop
        /\ session'[t].mode = session[t].mode
        /\ session'[t].key = session[t].key
        /\ session'[t].signal = session[t].signal
        /\ session'[t].device = session[t].device
        /\ session'[t].disposed = session[t].disposed
  <2>1. /\ session[s] \in SessionRecords
        /\ session'[s] = [session[s] EXCEPT !.requireConsent = FALSE]
        /\ \A t \in Sessions \ {s}: session'[t] = session[t]
    BY <1>1, <1>2 DEF TypeOK
  <2>2. /\ session'[s].viewers = session[s].viewers
        /\ session'[s].desktop = session[s].desktop
        /\ session'[s].mode = session[s].mode
        /\ session'[s].key = session[s].key
        /\ session'[s].signal = session[s].signal
        /\ session'[s].device = session[s].device
        /\ session'[s].disposed = session[s].disposed
    BY <2>1 DEF SessionRecords
  <2> QED BY <2>1, <2>2
<1>5. \A e \in Desktops:
        /\ desktop'[e].session = desktop[e].session
        /\ desktop'[e].key = desktop[e].key
        /\ desktop'[e].viewers = desktop[e].viewers
        /\ desktop'[e].left = desktop[e].left
        /\ desktop'[e].phase = desktop[e].phase
  <2>1. TypeOK /\ desktop' \in {desktop, GetScreenCast(session[s].desktop, v)}
    BY <1>1, <1>2
  <2> HIDE DEF s
  <2> QED BY ONLY <2>1, GetScreenCastAddsCasts
<1>6. \A l \in Keys: /\ consent'[l] = "required" => consent[l] = "required"
                     /\ consent'[l] = "required" => l # k
  BY <1>1, <1>2 DEF TypeOK
<1>7. /\ ObjectsKept /\ DisposalsKept /\ CacheShrinks /\ HoldersKept
      /\ RequestsKept /\ ServedKept
  <2>1. ObjectsKept /\ DisposalsKept
    BY <1>4 DEF ObjectsKept, DisposalsKept
  <2>2. CacheShrinks /\ RequestsKept /\ ServedKept
    BY <1>1 DEF CacheShrinks, RequestsKept, ServedKept, Served, ServedNext
  <2>3. HoldersKept
    BY <1>5 DEF HoldersKept
  <2> QED BY <2>1, <2>2, <2>3
<1>8. SignalsAreOwn'
  <2>1. ASSUME NEW t \in Sessions, session'[t].desktop # None
        PROVE  /\ session'[t].desktop = session[t].desktop
               /\ desktop'[session[t].desktop].session # None
    <3>1. session[t].desktop \in Desktops /\ Holds(session[t].desktop)
      BY <1>2, <1>4, <2>1, References DEF SignalsAreOwn
    <3> QED BY <1>4, <1>5, <3>1 DEF Holds
  <2>2. \A t \in Sessions: /\ signal'[t] = signal[t]
                           /\ session'[t].disposed = session[t].disposed
    BY <1>1, <1>7 DEF DisposalsKept
  <2> QED BY <1>7, <2>1, <2>2, SignalsFrame
<1>9. KeysAreRequested'
  <2>1. \A e \in Desktops: desktop'[e].key = desktop[e].key
    BY <1>5
  <2> QED BY <1>1, <1>7, <2>1, KeysFrame
<1>10. ViewedOnceServed'
  <2>1. \A e \in Desktops: desktop'[e].key = desktop[e].key /\ desktop'[e].viewers = desktop[e].viewers
    BY <1>5
  <2>2. \A w \in Viewers: viewer'[w].key \in {viewer[w].key, None}
    BY <1>3
  <2>3. \A t \in Sessions: session'[t].viewers \subseteq session[t].viewers
    BY <1>4
  <2> QED BY <1>1, <1>7, <2>1, <2>2, <2>3, ViewedFrame
<1>11. FoundUnderOwnKey' /\ FreshUntilAssigned'
  BY <1>1, <1>3, <1>7, FoundFrame, FreshFrame
<1>12. ConsentIsAsked'
  <2> SUFFICES ASSUME NEW t \in Sessions, session'[t].device
               PROVE  /\ session'[t].key # None
                      /\ request'[session'[t].key].session = t
                      /\ consent'[session'[t].key] = "required" => session'[t].requireConsent
    BY DEF ConsentIsAsked
  <2>1. /\ session[t].device /\ session[t].key # None /\ session'[t].key = session[t].key
        /\ request[session[t].key].session = t
        /\ consent[session[t].key] = "required" => session[t].requireConsent
    BY <1>2, <1>4 DEF ConsentIsAsked
  <2>2. session[t].key \in Keys
    BY <1>2, <2>1, References
  <2> QED BY <1>1, <1>4, <1>6, <2>1, <2>2
<1>13. ConsentBeforeCast'
  <2> SUFFICES ASSUME NEW w \in Viewers,
                      viewer'[w].phase \in {"casting", "offered", "watching"},
                      session'[viewer'[w].session].device,
                      session'[viewer'[w].session].key # None
               PROVE  consent'[session'[viewer'[w].session].key] # "required"
    BY DEF ConsentBeforeCast
  <2>1. CASE w = v
    <3>1. viewer'[w].session = s /\ session'[s].key = k /\ k \in Keys
      BY <1>2, <1>3, <1>4, <2>1, References
    <3> QED BY <1>6, <3>1
  <2>2. CASE w # v
    <3> DEFINE t == viewer[w].session
    <3>1. /\ viewer'[w] = viewer[w] /\ t \in Sessions
          /\ viewer[w].phase \in {"casting", "offered", "watching"}
      BY <1>2, <1>3, <2>2, References DEF KeyInvariant, ViewerReferences
    <3>2. session'[t].key = session[t].key /\ session[t].device /\ session[t].key \in Keys
      BY <1>2, <1>4, <3>1, References
    <3>3. consent[session[t].key] # "required"
      BY <1>2, <3>1, <3>2, NoneAssumption DEF ConsentBeforeCast
    <3> QED BY <1>6, <3>1, <3>2, <3>3
  <2> QED BY <2>1, <2>2
<1>14. DisposedLeave'
  BY <1>1, <1>2, <1>7, DisposedFrame DEF DisposedLeave
<1>15. ListsAreKept'
  <2>1. \A e \in Desktops, w \in Viewers: w \in desktop'[e].left =>
           w \in desktop[e].left /\ desktop'[e].session # None
    BY <1>2, <1>5 DEF ListsAreKept, Holds
  <2>2. /\ \A w \in Viewers: viewer[w].phase \in {"off", "gone"} =>
             viewer'[w].phase \in {"off", "gone"}
        /\ \A w \in Viewers: viewer'[w].phase \in Attached =>
             viewer[w].phase \in Attached /\ viewer'[w].session = viewer[w].session
    BY <1>3 DEF Attached
  <2> QED BY <1>4, <1>7, <2>1, <2>2, ListsFrame
<1>16. OnlyRecreatedAreAttended'
  BY <1>3, <1>7, AttendedFrame DEF ObjectsKept, AttendsKept
<1> QED BY <1>8, <1>9, <1>10, <1>11, <1>12, <1>13, <1>14, <1>15, <1>16 DEF SessionInvariant

\* The cleaner disposes the object it takes out of the cache, and its signal with it.
LEMMA RemoveExpiredSessionKeepsSessions ==
  ASSUME SessionInvariant, KeyInvariant', RemoveExpiredSession
  PROVE  SessionInvariant'
<1> DEFINE s == cache[cleaning]
           x == session[s].signal
<1>1. /\ UNCHANGED <<request, consent, commands, desktop, viewer, notices>>
      /\ cleaning # None
      /\ cache' = [cache EXCEPT ![cleaning] = None]
      /\ session' = [session EXCEPT ![s].disposed = TRUE]
      /\ signal' = IF session[s].disposed THEN signal ELSE [signal EXCEPT ![x] = "disposed"]
      /\ cleaning' = None
  BY DEF RemoveExpiredSession, Disposed, SignalsAfterDispose
<1>2. /\ TypeOK /\ KeyInvariant /\ SignalsAreOwn /\ DisposedLeave /\ ListsAreKept
      /\ cleaning \in Keys
  BY <1>1, Steady, References DEF SessionInvariant
<1>3. s \in Sessions /\ ~Unused(s) /\ x \in Sessions /\ ~Unused(x)
  BY <1>1, <1>2, UsedObjects, References DEF DisposedLeave
<1>4. \A t \in Sessions:
        /\ session'[t].viewers = session[t].viewers
        /\ session'[t].requireConsent = session[t].requireConsent
        /\ session'[t].desktop = session[t].desktop
        /\ session'[t].mode = session[t].mode
        /\ session'[t].key = session[t].key
        /\ session'[t].signal = session[t].signal
        /\ session'[t].device = session[t].device
        /\ t # s => session'[t].disposed = session[t].disposed
        /\ session[t].disposed => session'[t].disposed
        /\ session'[s].disposed
  <2>1. /\ session[s] \in SessionRecords
        /\ session'[s] = [session[s] EXCEPT !.disposed = TRUE]
        /\ \A t \in Sessions \ {s}: session'[t] = session[t]
    BY <1>1, <1>2, <1>3 DEF TypeOK
  <2>2. /\ session'[s].viewers = session[s].viewers
        /\ session'[s].desktop = session[s].desktop
        /\ session'[s].requireConsent = session[s].requireConsent
        /\ session'[s].mode = session[s].mode
        /\ session'[s].key = session[s].key
        /\ session'[s].signal = session[s].signal
        /\ session'[s].device = session[s].device
        /\ session'[s].disposed
    BY <2>1 DEF SessionRecords
  <2> QED BY <2>1, <2>2
<1>5. /\ \A y \in Sessions \ {x}: signal'[y] = signal[y]
      /\ \A y \in Sessions: signal'[y] = "set" => signal[y] = "set"
      /\ \A y \in Sessions: signal'[y] = "disposed" => signal[y] = "disposed" \/ y = x
  BY <1>1, <1>2, <1>3 DEF TypeOK
<1>6. /\ ObjectsKept /\ CacheShrinks /\ HoldersKept /\ RequestsKept /\ ServedKept
  <2>1. ObjectsKept
    BY <1>4 DEF ObjectsKept
  <2>2. CacheShrinks
    BY <1>1, <1>2 DEF CacheShrinks, TypeOK
  <2>3. HoldersKept /\ RequestsKept /\ ServedKept
    BY <1>1 DEF HoldersKept, RequestsKept, ServedKept, Served, ServedNext
  <2> QED BY <2>1, <2>2, <2>3
<1>7. SignalsAreOwn'
  <2>1. ASSUME NEW t \in Sessions, session'[t].desktop # None
        PROVE  /\ session'[t].desktop = session[t].desktop
               /\ desktop'[session[t].desktop].session # None
    BY <1>1, <1>2, <1>4, <2>1 DEF SignalsAreOwn, Holds
  <2>2. ASSUME NEW t \in Sessions, Unused(t)
        PROVE  signal'[t] = signal[t] /\ session'[t].disposed = session[t].disposed
    <3>1. t # s /\ t # x
      BY <1>3, <2>2
    <3> QED BY <1>1, <1>2, <1>3, <1>5, <3>1 DEF TypeOK
  <2> QED BY <1>6, <2>1, <2>2, SignalsFrame
<1>8. KeysAreRequested' /\ ViewedOnceServed'
  BY <1>1, <1>4, <1>6, KeysFrame, ViewedFrame
<1>9. FoundUnderOwnKey' /\ FreshUntilAssigned'
  BY <1>1, <1>5, <1>6, FoundFrame, FreshFrame
<1>10. ConsentIsAsked' /\ ConsentBeforeCast'
  BY <1>1, <1>4, <1>6, AskedFrame, CastFrame
<1>11. DisposedLeave'
  <2>1. ASSUME NEW y \in Sessions, signal'[y] = "disposed"
        PROVE  \E t \in Sessions: session'[t].signal = y /\ session'[t].disposed
    <3>1. CASE y = x
      BY <1>3, <1>4, <3>1
    <3>2. CASE y # x
      BY <1>2, <1>4, <1>5, <2>1, <3>2 DEF DisposedLeave
    <3> QED BY <3>1, <3>2
  <2>2. ASSUME NEW k \in Keys, cache'[k] # None, session'[cache'[k]].disposed
        PROVE  \E t \in Sessions \ {cache'[k]}:
                 /\ session'[t].signal = session'[cache'[k]].signal
                 /\ session'[t].disposed
    <3>1. cache'[k] = cache[k] /\ k # cleaning /\ cache[k] \in Sessions
      BY <1>1, <1>2, <2>2, UsedObjects DEF TypeOK
    <3>2. cache[k] # s
      BY <1>2, <2>2, <3>1 DEF KeyInvariant, OneKeyPerObject
    <3>3. session[cache[k]].disposed
      BY <1>4, <2>2, <3>1, <3>2
    <3>4. PICK t \in Sessions \ {cache[k]}: /\ session[t].signal = session[cache[k]].signal
                                            /\ session[t].disposed
      BY <1>2, <2>2, <3>1, <3>3 DEF DisposedLeave
    <3> QED BY <1>4, <3>1, <3>4
  <2> QED BY <1>1, <2>1, <2>2 DEF DisposedLeave
<1>12. ListsAreKept'
  <2>1. \A e \in Desktops, w \in Viewers: w \in desktop'[e].left =>
           w \in desktop[e].left /\ desktop'[e].session # None
    BY <1>1, <1>2 DEF ListsAreKept, Holds
  <2> QED BY <1>1, <1>4, <1>6, <2>1, ListsFrame
<1>13. OnlyRecreatedAreAttended'
  BY <1>1, <1>6, AttendedFrame DEF ObjectsKept, AttendsKept
<1> QED BY <1>7, <1>8, <1>9, <1>10, <1>11, <1>12, <1>13 DEF SessionInvariant

-----------------------------------------------------------------------------
\* Two states of an object are alike but for the desktop it names, its disposal,
\* its streamer and its agent.
Alike(r, q) ==
    /\ r.mode = q.mode /\ r.key = q.key
    /\ r.signal = q.signal /\ r.device = q.device
    /\ r.viewers = q.viewers /\ r.requireConsent = q.requireConsent

\* A process that is gone no longer holds its object.
LEMMA Forgotten ==
  ASSUME NEW d \in Desktops, NEW ss \in [Sessions -> SessionRecords]
  PROVE  \A t \in Sessions: /\ Alike(Forget(d, ss)[t], ss[t])
                            /\ Forget(d, ss)[t].disposed = ss[t].disposed
                            /\ Forget(d, ss)[t].desktop \in {ss[t].desktop, None}
                            /\ Forget(d, ss)[t].desktop # d
<1> SUFFICES ASSUME NEW t \in Sessions
             PROVE  /\ Alike(Forget(d, ss)[t], ss[t])
                    /\ Forget(d, ss)[t].disposed = ss[t].disposed
                    /\ Forget(d, ss)[t].desktop \in {ss[t].desktop, None}
                    /\ Forget(d, ss)[t].desktop # d
  OBVIOUS
<1>1. ss[t] \in SessionRecords /\ d # None
  BY NoneAssumption
<1>2. Forget(d, ss)[t] = IF ss[t].desktop = d THEN [ss[t] EXCEPT !.desktop = None] ELSE ss[t]
  BY DEF Forget
<1> QED BY <1>1, <1>2 DEF Alike, SessionRecords

\* What the end of a process leaves: only the object that its handler finds
\* under its key is disposed, and that one leaves the cache.
LEMMA DesktopOnDisconnectedOutcome ==
  ASSUME SessionInvariant, NEW d \in Desktops, DesktopOnDisconnected(d)
  PROVE  /\ \A t \in Sessions:
              /\ Alike(session'[t], session[t])
              /\ session'[t].desktop \in {session[t].desktop, None}
              /\ session'[t].desktop # d
         /\ \A c \in commands': c \in commands \/ Addressed(c)
         /\ \E c \in Sessions \cup {None}:
              /\ \A k \in Keys: cache'[k] \in {cache[k], None}
              /\ cleaning # None => cache' = cache
              /\ c # None => ~Unused(c) /\ \A k \in Keys: cache'[k] # c
              /\ \A t \in Sessions:
                   /\ t # c => session'[t].disposed = session[t].disposed
                   /\ session[t].disposed => session'[t].disposed
              /\ \A y \in Sessions:
                   \/ signal'[y] = signal[y]
                   \/ ~Unused(y) /\ signal'[y] = "reset"
                   \/ /\ c # None /\ y = session[c].signal
                      /\ ~Unused(y) /\ session'[c].disposed /\ signal'[y] = "disposed"
<1> DEFINE s == desktop[d].session
           k == session[s].key
<1>1. /\ TypeOK /\ KeyInvariant
      /\ desktop[d].phase = "lost"
  BY Steady DEF DesktopOnDisconnected
<1>2. s \in Sessions \cup {None}
  BY <1>1, References
<1>3. ASSUME s # None
      PROVE  /\ s \in Sessions /\ k \in Keys
             /\ session[s] \in SessionRecords
             /\ session[s].signal \in Sessions /\ ~Unused(session[s].signal)
             /\ Addressed(RelaunchOf(s))
  <2>1. s \in Sessions /\ k \in Keys /\ ~Unused(s)
    BY <1>1, <1>3, UsedObjects, References, NoneAssumption
       DEF KeyInvariant, KeyedOnceAdopted, Holds
  <2>2. Addressed(RelaunchOf(s))
    BY <2>1, NoneAssumption, SessionsAreAddressed
  <2> QED BY <1>1, <2>1, <2>2, UsedObjects, References
<1>4. CASE session' = Forget(d, session) /\ UNCHANGED <<cache, commands>>
           /\ (signal' = signal \/ (s # None /\ signal' = ResetSignal(s)))
  <2>1. \A t \in Sessions: /\ Alike(session'[t], session[t])
                           /\ session'[t].disposed = session[t].disposed
                           /\ session'[t].desktop \in {session[t].desktop, None}
                           /\ session'[t].desktop # d
    BY <1>1, <1>4, Forgotten DEF TypeOK
  <2>2. \A y \in Sessions: \/ signal'[y] = signal[y]
                           \/ ~Unused(y) /\ signal'[y] = "reset"
    BY <1>1, <1>3, <1>4 DEF ResetSignal, TypeOK
  <2> QED BY <1>4, <2>1, <2>2
<1>5. CASE s # None /\ RestartScreenCaster(d, s) /\ signal' = ResetSignal(s)
  <2> DEFINE a == session[s].agent \/ (session[s].device /\ agentOnline)
             r == [session[s] EXCEPT !.streamer = "reconnecting", !.agent = a]
             ss == [session EXCEPT ![s] = r]
  <2>1. /\ session' = Forget(d, ss) /\ cache' = cache
        /\ \A c \in commands': c \in commands \/ c = RelaunchOf(s)
    BY <1>5 DEF RestartScreenCaster
  <2>2. r \in SessionRecords /\ Alike(r, session[s])
        /\ r.disposed = session[s].disposed /\ r.desktop = session[s].desktop
    <3>1. session[s] \in SessionRecords /\ a \in BOOLEAN
      BY <1>1, <1>3, <1>5 DEF TypeOK, SessionRecords
    <3> HIDE DEF a
    <3> QED BY <3>1 DEF SessionRecords, StreamerStates, Alike
  <2> HIDE DEF r
  <2>3. ss \in [Sessions -> SessionRecords]
    BY <1>1, <1>3, <1>5, <2>2 DEF TypeOK
  <2>4. \A t \in Sessions: /\ Alike(ss[t], session[t])
                           /\ ss[t].disposed = session[t].disposed
                           /\ ss[t].desktop = session[t].desktop
    BY <1>1, <1>3, <1>5, <2>2 DEF TypeOK, Alike
  <2> HIDE DEF ss
  <2>5. \A t \in Sessions: /\ Alike(session'[t], session[t])
                           /\ session'[t].disposed = session[t].disposed
                           /\ session'[t].desktop \in {session[t].desktop, None}
                           /\ session'[t].desktop # d
    BY <2>1, <2>3, <2>4, Forgotten DEF Alike
  <2>6. \A y \in Sessions: \/ signal'[y] = signal[y]
                           \/ ~Unused(y) /\ signal'[y] = "reset"
    BY <1>1, <1>3, <1>5 DEF ResetSignal, TypeOK
  <2>7. \A c \in commands': c \in commands \/ Addressed(c)
    BY <1>3, <1>5, <2>1
  <2> QED BY <2>1, <2>5, <2>6, <2>7
<1>6. CASE /\ s # None /\ Unlocked
           /\ TryRemove(d, k)
           /\ LET cached == cache[k] IN
                signal' = IF cached = None
                          THEN ResetSignal(s)
                          ELSE IF session[cached].disposed
                          THEN ResetSignal(s)
                          ELSE [ResetSignal(s) EXCEPT
                                  ![session[cached].signal] = "disposed"]
  <2> DEFINE c == cache[k]
             ss == IF c = None THEN session ELSE [session EXCEPT ![c].disposed = TRUE]
  <2>1. c \in Sessions \cup {None} /\ (c # None => ~Unused(c) /\ c \in Sessions)
    BY <1>1, <1>3, <1>6, UsedObjects, References
  <2>2. c # None => session[c].signal \in Sessions /\ ~Unused(session[c].signal)
    BY <1>1, <2>1, UsedObjects, References
  <2>3. session' = Forget(d, ss) /\ commands' = commands
        /\ cache' = [cache EXCEPT ![k] = None]
    BY <1>6 DEF TryRemove, Disposed
  <2>4. /\ ss \in [Sessions -> SessionRecords]
        /\ \A t \in Sessions: /\ Alike(ss[t], session[t])
                              /\ ss[t].desktop = session[t].desktop
                              /\ t # c => ss[t].disposed = session[t].disposed
                              /\ t = c => ss[t].disposed
    <3>1. CASE c = None
      BY <1>1, <3>1, NoneAssumption DEF TypeOK, Alike
    <3>2. CASE c # None
      <4> DEFINE r == [session[c] EXCEPT !.disposed = TRUE]
      <4>1. c \in Sessions /\ session[c] \in SessionRecords
        BY <1>1, <2>1, <3>2 DEF TypeOK
      <4>2. /\ r \in SessionRecords /\ Alike(r, session[c])
            /\ r.desktop = session[c].desktop /\ r.disposed
        BY <4>1 DEF SessionRecords, Alike
      <4>3. ss = [session EXCEPT ![c] = r]
        BY <3>2
      <4> HIDE DEF r, c
      <4> QED BY <1>1, <4>1, <4>2, <4>3 DEF TypeOK, Alike
    <3> QED BY <3>1, <3>2
  <2> HIDE DEF ss
  <2>5. \A t \in Sessions: /\ Alike(session'[t], session[t])
                           /\ session'[t].disposed = ss[t].disposed
                           /\ session'[t].desktop \in {session[t].desktop, None}
                           /\ session'[t].desktop # d
    BY <2>3, <2>4, Forgotten DEF Alike
  <2>6. \A t \in Sessions:
           /\ t # c => session'[t].disposed = session[t].disposed
           /\ session[t].disposed => session'[t].disposed
           /\ t = c => session'[t].disposed
    BY <2>4, <2>5
  <2>7. /\ \A l \in Keys: cache'[l] \in {cache[l], None}
        /\ c # None => \A l \in Keys: cache'[l] # c
    <3>1. \A l \in Keys: cache'[l] = IF l = k THEN None ELSE cache[l]
      BY <1>1, <2>3 DEF TypeOK
    <3>2. c # None => \A l \in Keys: cache[l] = c => l = k
      BY <1>1, <1>3, <1>6 DEF KeyInvariant, OneKeyPerObject
    <3> QED BY <3>1, <3>2
  <2>8. \A y \in Sessions:
           \/ signal'[y] = signal[y]
           \/ ~Unused(y) /\ signal'[y] = "reset"
           \/ c # None /\ y = session[c].signal /\ ~Unused(y) /\ session'[c].disposed /\ signal'[y] = "disposed"
    <3>1. \A y \in Sessions: \/ ResetSignal(s)[y] = signal[y]
                             \/ ~Unused(y) /\ ResetSignal(s)[y] = "reset"
      BY <1>1, <1>3, <1>6 DEF ResetSignal, TypeOK
    <3>2. ResetSignal(s) \in [Sessions -> {"reset", "set", "disposed"}]
      BY <1>1 DEF ResetSignal, TypeOK
    <3>3. \/ signal' = ResetSignal(s)
          \/ c # None /\ signal' = [ResetSignal(s) EXCEPT ![session[c].signal] = "disposed"]
      BY <1>6
    <3>4. c # None => session'[c].disposed
      BY <2>1, <2>6
    <3> QED BY <2>2, <3>1, <3>2, <3>3, <3>4
  <2>9. cleaning = None
    BY <1>6 DEF Unlocked
  <2> HIDE DEF c
  <2> QED BY <2>1, <2>3, <2>5, <2>6, <2>7, <2>8, <2>9
<1>7. CASE /\ s # None /\ session' = Forget(d, [session EXCEPT ![s].streamer = "disconnected"])
           /\ UNCHANGED <<cache, commands>> /\ signal' = ResetSignal(s)
  <2> DEFINE r == [session[s] EXCEPT !.streamer = "disconnected"]
             ss == [session EXCEPT ![s] = r]
  <2>1. session' = Forget(d, ss)
    BY <1>7
  <2>2. r \in SessionRecords /\ Alike(r, session[s])
        /\ r.disposed = session[s].disposed /\ r.desktop = session[s].desktop
    BY <1>3, <1>7 DEF SessionRecords, StreamerStates, Alike
  <2> HIDE DEF r
  <2>3. ss \in [Sessions -> SessionRecords]
    BY <1>1, <1>3, <1>7, <2>2 DEF TypeOK
  <2>4. \A t \in Sessions: /\ Alike(ss[t], session[t])
                           /\ ss[t].disposed = session[t].disposed
                           /\ ss[t].desktop = session[t].desktop
    BY <1>1, <1>3, <1>7, <2>2 DEF TypeOK, Alike
  <2> HIDE DEF ss
  <2>5. \A t \in Sessions: /\ Alike(session'[t], session[t])
                           /\ session'[t].disposed = session[t].disposed
                           /\ session'[t].desktop \in {session[t].desktop, None}
                           /\ session'[t].desktop # d
    BY <2>1, <2>3, <2>4, Forgotten DEF Alike
  <2>6. \A y \in Sessions: \/ signal'[y] = signal[y]
                           \/ ~Unused(y) /\ signal'[y] = "reset"
    BY <1>1, <1>3, <1>7 DEF ResetSignal, TypeOK
  <2>7. cache' = cache /\ commands' = commands
    BY <1>7
  <2> QED BY <2>5, <2>6, <2>7
<1>8. \/ /\ session' = Forget(d, session) /\ UNCHANGED <<cache, commands>>
         /\ (signal' = signal \/ (s # None /\ signal' = ResetSignal(s)))
      \/ s # None /\ RestartScreenCaster(d, s) /\ signal' = ResetSignal(s)
      \/ /\ s # None /\ session' = Forget(d, [session EXCEPT ![s].streamer = "disconnected"])
         /\ UNCHANGED <<cache, commands>> /\ signal' = ResetSignal(s)
      \/ /\ s # None /\ Unlocked
         /\ TryRemove(d, k)
         /\ LET cached == cache[k] IN
              signal' = IF cached = None
                        THEN ResetSignal(s)
                        ELSE IF session[cached].disposed
                        THEN ResetSignal(s)
                        ELSE [ResetSignal(s) EXCEPT
                                ![session[cached].signal] = "disposed"]
  BY DEF DesktopOnDisconnected, AttendedEnds, UnattendedEnds
<1> HIDE DEF s, k
<1> QED BY <1>4, <1>5, <1>6, <1>7, <1>8

\* A process that is gone leaves its object without a desktop, or out of the cache.
LEMMA DesktopOnDisconnectedKeepsSessions ==
  ASSUME SessionInvariant, KeyInvariant', NEW d \in Desktops, DesktopOnDisconnected(d)
  PROVE  SessionInvariant'
<1>1. /\ UNCHANGED <<cleaning, request, consent, notices>>
      /\ desktop' = [desktop EXCEPT ![d] = NoDesktop]
      /\ \/ viewer' = FailPrompts(d)
         \/ \E vs: viewer' = ScreenCasterDisconnected(vs, FailPrompts(d))
      /\ desktop[d].phase = "lost"
  BY DEF DesktopOnDisconnected, AttendedEnds, UnattendedEnds
<1>2. /\ \A t \in Sessions:
           /\ Alike(session'[t], session[t])
           /\ session'[t].desktop \in {session[t].desktop, None}
           /\ session'[t].desktop # d
      /\ \A c \in commands': c \in commands \/ Addressed(c)
  BY DesktopOnDisconnectedOutcome
<1>3. PICK c \in Sessions \cup {None}:
        /\ \A k \in Keys: cache'[k] \in {cache[k], None}
        /\ cleaning # None => cache' = cache
        /\ c # None => ~Unused(c) /\ \A k \in Keys: cache'[k] # c
        /\ \A t \in Sessions:
             /\ t # c => session'[t].disposed = session[t].disposed
             /\ session[t].disposed => session'[t].disposed
        /\ \A y \in Sessions:
             \/ signal'[y] = signal[y]
             \/ ~Unused(y) /\ signal'[y] = "reset"
             \/ /\ c # None /\ y = session[c].signal
                /\ ~Unused(y) /\ session'[c].disposed /\ signal'[y] = "disposed"
  BY DesktopOnDisconnectedOutcome
<1>4. /\ TypeOK /\ KeyInvariant /\ SignalsAreOwn /\ DisposedLeave /\ ListsAreKept
  BY Steady DEF SessionInvariant
<1>5. /\ \A e \in Desktops \ {d}: desktop'[e] = desktop[e]
      /\ desktop'[d].session = None /\ desktop'[d].key = None
      /\ desktop'[d].viewers = {} /\ desktop'[d].left = {}
  BY <1>1, <1>4 DEF TypeOK, NoDesktop
<1>6. \A w \in Viewers:
        \/ viewer'[w] = viewer[w]
        \/ /\ viewer'[w].key \in {viewer[w].key, None}
           /\ viewer'[w].phase \in {"idle", "leaving", "off"}
           /\ viewer[w].phase = "gone" => viewer'[w].phase = "off"
           /\ viewer[w].phase # "off"
           /\ viewer'[w].attends =>
                viewer[w].attends /\ viewer'[w].session = viewer[w].session
  <2>1. \A w \in Viewers:
          /\ FailPrompts(d)[w] \in ViewerRecords
          /\ \/ FailPrompts(d)[w] = viewer[w]
             \/ /\ FailPrompts(d)[w].key \in {viewer[w].key, None}
                /\ FailPrompts(d)[w].phase \in {"idle", "leaving", "off"}
                /\ viewer[w].phase = "gone" => FailPrompts(d)[w].phase = "off"
                /\ viewer[w].phase \in {"prompting", "leaving", "gone"}
                /\ FailPrompts(d)[w].attends =>
                     viewer[w].attends /\ FailPrompts(d)[w].session = viewer[w].session
    <3> SUFFICES ASSUME NEW w \in Viewers, viewer[w].prompt = d
                 PROVE  /\ Answered(w, "idle") \in ViewerRecords
                        /\ Answered(w, "idle").key \in {viewer[w].key, None}
                        /\ Answered(w, "idle").phase \in {"idle", "leaving", "off"}
                        /\ viewer[w].phase = "gone" => Answered(w, "idle").phase = "off"
                        /\ viewer[w].phase \in {"prompting", "leaving", "gone"}
                        /\ Answered(w, "idle").attends =>
                             /\ viewer[w].attends
                             /\ Answered(w, "idle").session = viewer[w].session
      BY <1>4 DEF FailPrompts, TypeOK
    <3>1. viewer[w] \in ViewerRecords /\ viewer[w].phase \in {"prompting", "leaving", "gone"}
      BY <1>4, Steady, NoneAssumption DEF TypeOK
    <3> QED BY <3>1 DEF Answered, NoViewer, ViewerRecords
  <2>2. CASE viewer' = FailPrompts(d)
    BY <2>1, <2>2
  <2>3. CASE \E vs: viewer' = ScreenCasterDisconnected(vs, FailPrompts(d))
    <3>1. PICK vs: viewer' = ScreenCasterDisconnected(vs, FailPrompts(d))
      BY <2>3
    <3>2. \A w \in Viewers:
            \/ viewer'[w] = FailPrompts(d)[w]
            \/ /\ viewer'[w] = [FailPrompts(d)[w] EXCEPT !.phase = "leaving"]
               /\ viewer[w].phase \notin {"off", "gone"}
      BY <3>1 DEF ScreenCasterDisconnected, Stoppable, Interruptible
    <3>3. ASSUME NEW w \in Viewers
          PROVE  \/ viewer'[w] = FailPrompts(d)[w]
                 \/ /\ viewer'[w].phase = "leaving"
                    /\ viewer'[w].key = FailPrompts(d)[w].key
                    /\ viewer'[w].session = FailPrompts(d)[w].session
                    /\ viewer'[w].attends = FailPrompts(d)[w].attends
                    /\ viewer[w].phase \notin {"off", "gone"}
      <4> DEFINE r == FailPrompts(d)[w]
      <4>1. r \in ViewerRecords
        BY <2>1
      <4>2. CASE /\ viewer'[w] = [r EXCEPT !.phase = "leaving"]
                 /\ viewer[w].phase \notin {"off", "gone"}
        <5> HIDE DEF r
        <5>1. /\ viewer'[w].phase = "leaving" /\ viewer'[w].key = r.key
              /\ viewer'[w].session = r.session /\ viewer'[w].attends = r.attends
          BY <4>1, <4>2 DEF ViewerRecords
        <5> QED BY <4>2, <5>1 DEF r
      <4> QED BY <3>2, <4>2
    <3> QED BY <2>1, <3>3
  <2> QED BY <1>1, <2>2, <2>3
<1>7. /\ ObjectsKept /\ CacheShrinks /\ HoldersKept /\ RequestsKept /\ ServedKept
  <2>1. ObjectsKept
    BY <1>2 DEF ObjectsKept, Alike
  <2>2. CacheShrinks
    BY <1>3 DEF CacheShrinks
  <2>3. HoldersKept
    BY <1>5 DEF HoldersKept
  <2>4. RequestsKept /\ ServedKept
    BY <1>1 DEF RequestsKept, ServedKept, Served, ServedNext
  <2> QED BY <2>1, <2>2, <2>3, <2>4
<1>8. SignalsAreOwn'
  <2>1. ASSUME NEW t \in Sessions, session'[t].desktop # None
        PROVE  /\ session'[t].desktop = session[t].desktop
               /\ desktop'[session[t].desktop].session # None
    <3>1. session'[t].desktop = session[t].desktop /\ session[t].desktop # d
      BY <1>2, <2>1
    <3>2. session[t].desktop \in Desktops /\ Holds(session[t].desktop)
      BY <1>4, <2>1, <3>1, References DEF SignalsAreOwn
    <3> QED BY <1>5, <3>1, <3>2 DEF Holds
  <2>2. \A t \in Sessions: Unused(t) => signal'[t] = signal[t]
    BY <1>3
  <2>3. \A t \in Sessions: Unused(t) => session'[t].disposed = session[t].disposed
    BY <1>3, NoneAssumption
  <2> QED BY <1>7, <2>1, <2>2, <2>3, SignalsFrame
<1>9. KeysAreRequested'
  <2>1. \A e \in Desktops: desktop'[e].key \in {desktop[e].key, None}
    BY <1>5
  <2>2. \A x \in commands': x \in commands \/ request[x.key].phase # "unused"
    BY <1>2 DEF Addressed
  <2> QED BY <1>7, <2>1, <2>2, KeysFrame
<1>10. ViewedOnceServed'
  <2>1. \A e \in Desktops: desktop'[e].viewers # {} =>
           desktop'[e].key = desktop[e].key /\ desktop[e].viewers # {}
    BY <1>5
  <2>2. \A w \in Viewers: viewer'[w].key \in {viewer[w].key, None}
    BY <1>6
  <2>3. \A t \in Sessions: session'[t].viewers \subseteq session[t].viewers
    BY <1>2 DEF Alike
  <2>4. \A x \in commands': x \in commands \/ (x.viewers # {} => ServedNext(x.key))
    BY <1>1, <1>2 DEF Addressed, Served, ServedNext
  <2>5. notices' = notices
    BY <1>1
  <2> QED BY <1>7, <2>1, <2>2, <2>3, <2>4, <2>5, ViewedFrame
<1>11. FoundUnderOwnKey'
  <2>1. \A w \in Viewers: viewer'[w].phase \in {"found", "admitted"} =>
           viewer'[w] = viewer[w]
    BY <1>6
  <2> QED BY <1>7, <2>1, FoundFrame
<1>12. FreshUntilAssigned'
  <2>1. ASSUME NEW y \in Sessions, signal'[y] = "set" PROVE signal[y] = "set"
    <3>1. CASE signal'[y] = signal[y]
      BY <2>1, <3>1
    <3>2. CASE signal'[y] # signal[y]
      BY <1>3, <2>1, <3>2
    <3> QED BY <3>1, <3>2
  <2> QED BY <1>7, <2>1, FreshFrame
<1>13. ConsentIsAsked'
  BY <1>1, <1>2, <1>7, AskedFrame DEF Alike
<1>14. ConsentBeforeCast'
  <2>1. \A w \in Viewers: viewer'[w].phase \in {"casting", "offered", "watching"} =>
            /\ viewer[w].phase \in {"casting", "offered", "watching"}
            /\ viewer'[w].session = viewer[w].session
    BY <1>6
  <2> QED BY <1>1, <1>7, <2>1, CastFrame
<1>15. DisposedLeave'
  <2>1. ASSUME NEW y \in Sessions, signal'[y] = "disposed"
        PROVE  \E t \in Sessions: session'[t].signal = y /\ session'[t].disposed
    <3>1. CASE signal'[y] = signal[y]
      <4>1. PICK t \in Sessions: session[t].signal = y /\ session[t].disposed
        BY <1>4, <2>1, <3>1 DEF DisposedLeave
      <4> QED BY <1>3, <1>7, <4>1 DEF ObjectsKept
    <3>2. CASE signal'[y] # signal[y]
      <4>1. c # None /\ y = session[c].signal /\ session'[c].disposed
        BY <1>3, <2>1, <3>2
      <4> QED BY <1>7, <4>1 DEF ObjectsKept
    <3> QED BY <3>1, <3>2
  <2>2. ASSUME NEW k \in Keys, cache'[k] # None, session'[cache'[k]].disposed
        PROVE  \E t \in Sessions \ {cache'[k]}:
                 /\ session'[t].signal = session'[cache'[k]].signal
                 /\ session'[t].disposed
    <3>1. cache'[k] = cache[k] /\ cache[k] \in Sessions /\ cache[k] # c
      <4>1. cache'[k] = cache[k]
        BY <1>3, <2>2
      <4>2. cache[k] \in Sessions
        BY <2>2, <4>1, UsedObjects
      <4> QED BY <1>3, <2>2, <4>1, <4>2
    <3>2. session[cache[k]].disposed
      BY <1>3, <2>2, <3>1
    <3>3. PICK t \in Sessions \ {cache[k]}: /\ session[t].signal = session[cache[k]].signal
                                            /\ session[t].disposed
      BY <1>4, <2>2, <3>1, <3>2 DEF DisposedLeave
    <3>4. session'[t].disposed
      BY <1>3, <3>3
    <3> QED BY <1>7, <3>1, <3>3, <3>4 DEF ObjectsKept
  <2>3. cleaning' # None => cache'[cleaning'] # None
    BY <1>1, <1>3, <1>4 DEF DisposedLeave
  <2> QED BY <2>1, <2>2, <2>3 DEF DisposedLeave
<1>16. ListsAreKept'
  <2>1. \A e \in Desktops, w \in Viewers: w \in desktop'[e].left =>
           w \in desktop[e].left /\ desktop'[e].session # None
    BY <1>4, <1>5 DEF ListsAreKept, Holds
  <2>2. /\ \A w \in Viewers: viewer[w].phase \in {"off", "gone"} =>
             viewer'[w].phase \in {"off", "gone"}
        /\ \A w \in Viewers: viewer'[w].phase \in Attached =>
             viewer[w].phase \in Attached /\ viewer'[w].session = viewer[w].session
    BY <1>6 DEF Attached
  <2>3. \A t \in Sessions: session'[t].viewers = session[t].viewers
    BY <1>2 DEF Alike
  <2> QED BY <1>7, <2>1, <2>2, <2>3, ListsFrame
<1>17. OnlyRecreatedAreAttended'
  BY <1>6, <1>7, AttendedFrame DEF ObjectsKept, AttendsKept
<1> QED BY <1>8, <1>9, <1>10, <1>11, <1>12, <1>13, <1>14, <1>15, <1>16, <1>17
        DEF SessionInvariant

-----------------------------------------------------------------------------
\* Nothing refers to an object that was not constructed, and it shares nothing.
LEMMA UnusedObject ==
  ASSUME SessionInvariant, NEW s \in Sessions, Unused(s)
  PROVE  /\ \A k \in Keys: cache[k] # s
         /\ \A k \in Keys: request[k].phase # "unused" => request[k].session # s
         /\ \A d \in Desktops: desktop[d].session # s
         /\ \A v \in Viewers: viewer[v].session # s /\ viewer[v].found # s
         /\ session[s].signal = s /\ signal[s] = "reset" /\ ~session[s].disposed
         /\ \A t \in Sessions: t # s => session[t].signal # s
<1>1. KeyInvariant /\ SignalsAreOwn /\ KeysAreRequested /\ s # None
  BY NoneAssumption DEF SessionInvariant
<1>2. /\ \A k \in Keys: cache[k] # s
      /\ \A d \in Desktops: desktop[d].session # s
      /\ \A v \in Viewers: viewer[v].session # s /\ viewer[v].found # s
  BY <1>1, UsedObjects DEF Holds
<1>3. \A k \in Keys: request[k].phase # "unused" => request[k].session # s
  BY <1>1 DEF KeysAreRequested
<1>4. session[s].signal = s /\ signal[s] = "reset" /\ ~session[s].disposed
  BY <1>1 DEF SignalsAreOwn, Unused, Assigned
<1>5. ASSUME NEW t \in Sessions, t # s PROVE session[t].signal # s
  BY <1>1, <1>5 DEF SignalsAreOwn, Unused, Assigned
<1> QED BY <1>2, <1>3, <1>4, <1>5

\* Nothing knows a key that was not requested.
LEMMA UnknownKey ==
  ASSUME SessionInvariant, NEW k \in Keys, request[k].phase = "unused"
  PROVE  /\ cache[k] = None
         /\ \A s \in Sessions: session[s].key # k
         /\ \A c \in commands: c.key # k
         /\ \A d \in Desktops: desktop[d].key # k
         /\ \A v \in Viewers: viewer[v].key # k
         /\ \A n \in notices: n.key # k
         /\ ~Served(k)
<1>1. KeysAreRequested /\ ViewedOnceServed /\ k # None
  BY NoneAssumption DEF SessionInvariant
<1>2. ~Served(k)
  BY DEF Served
<1> QED BY <1>1, <1>2 DEF KeysAreRequested, ViewedOnceServed

\* The console brings a new object under a key that nothing knows.
LEMMA RemoteControlKeepsSessions ==
  ASSUME SessionInvariant, KeyInvariant',
         NEW k \in Keys, NEW s \in Sessions, NEW enforce \in EnforceAttendedAccess,
         RemoteControl(k, s, enforce)
  PROVE  SessionInvariant'
<1>1. /\ UNCHANGED <<cleaning, signal, agentOnline, desktop, viewer, notices>>
      /\ cleaning = None /\ request[k].phase = "unused" /\ Unused(s)
      /\ session' = [session EXCEPT ![s] =
                       [NewSession(s) EXCEPT !.key = k, !.device = TRUE,
                          !.agent = TRUE, !.requireConsent = enforce]]
      /\ cache' = [cache EXCEPT ![k] = s]
      /\ request' = [request EXCEPT ![k] = [phase |-> "waiting", session |-> s,
                                                shown |-> {}]]
      /\ consent' = [consent EXCEPT ![k] = IF enforce THEN "required" ELSE "free"]
      /\ commands' = commands \cup {Launch(k)}
  BY DEF RemoteControl, Unlocked
<1>2. /\ TypeOK /\ KeyInvariant /\ SignalsAreOwn /\ KeysAreRequested /\ ViewedOnceServed
      /\ FoundUnderOwnKey /\ FreshUntilAssigned /\ DisposedLeave /\ ConsentIsAsked
      /\ ConsentBeforeCast /\ ListsAreKept
  BY Steady DEF SessionInvariant
<1>3. /\ \A t \in Sessions \ {s}: session'[t] = session[t]
      /\ session'[s].mode = "unknown" /\ session'[s].key = k /\ session'[s].signal = s
      /\ ~session'[s].disposed /\ session'[s].viewers = {} /\ session'[s].desktop = None
      /\ session'[s].device /\ session'[s].requireConsent = enforce
  BY <1>1, <1>2 DEF TypeOK, NewSession
<1>4. /\ \A l \in Keys \ {k}: /\ cache'[l] = cache[l] /\ request'[l] = request[l]
                              /\ consent'[l] = consent[l]
      /\ cache'[k] = s /\ request'[k].phase = "waiting" /\ request'[k].session = s
      /\ consent'[k] = "required" => enforce
  BY <1>1, <1>2 DEF TypeOK
<1>5. \A c \in commands': c \in commands \/ c = Launch(k)
  BY <1>1
<1>6. Launch(k).key = k /\ Launch(k).viewers = {}
  BY DEF Launch
<1>7. /\ \A l \in Keys: cache[l] # s
      /\ \A l \in Keys: request[l].phase # "unused" => request[l].session # s
      /\ \A d \in Desktops: desktop[d].session # s
      /\ \A v \in Viewers: viewer[v].session # s /\ viewer[v].found # s
      /\ session[s].signal = s /\ signal[s] = "reset" /\ ~session[s].disposed
      /\ \A t \in Sessions: t # s => session[t].signal # s
  BY <1>1, UnusedObject
<1>8. /\ cache[k] = None
      /\ \A t \in Sessions: session[t].key # k
      /\ \A c \in commands: c.key # k
      /\ \A d \in Desktops: desktop[d].key # k
      /\ \A v \in Viewers: viewer[v].key # k
      /\ \A n \in notices: n.key # k
      /\ ~Served(k)
  BY <1>1, UnknownKey
<1>9. /\ \A t \in Sessions: session'[t].signal = session[t].signal
      /\ \A t \in Sessions: HasCopy(t) => CopyNext(t)
      /\ s # None /\ k # None
  BY <1>3, <1>7, NoneAssumption DEF HasCopy, CopyNext
<1>10. SignalsAreOwn'
  <2>1. ASSUME NEW t \in Sessions, session'[t].mode = "unused"
        PROVE  signal'[t] = "reset" /\ ~session'[t].disposed
    <3>1. t # s
      BY <1>3, <2>1
    <3> QED BY <1>1, <1>2, <1>3, <2>1, <3>1 DEF SignalsAreOwn, Unused
  <2>2. ASSUME NEW t \in Sessions, session'[t].signal # t
        PROVE  session'[t].mode \in Assigned /\ session'[session'[t].signal].mode \in Assigned
    <3>1. t # s /\ session[t].signal \in Sessions \ {s}
      BY <1>2, <1>3, <1>7, <2>2, References
    <3> QED BY <1>2, <1>3, <2>2, <3>1 DEF SignalsAreOwn
  <2>3. ASSUME NEW t \in Sessions, session'[t].desktop # None
        PROVE  /\ desktop[session'[t].desktop].session # None
               /\ session'[desktop[session'[t].desktop].session].signal = session'[t].signal
    <3>1. t # s /\ session'[t] = session[t]
      BY <1>3, <2>3
    <3> DEFINE d == session[t].desktop
    <3>2. d \in Desktops /\ Holds(d) /\ session[desktop[d].session].signal = session[t].signal
      BY <1>2, <2>3, <3>1, References DEF SignalsAreOwn
    <3>3. desktop[d].session \in Sessions
      BY <1>2, <3>2, UsedObjects
    <3> QED BY <1>9, <3>1, <3>2, <3>3 DEF Holds
  <2> QED BY <1>1, <2>1, <2>2, <2>3 DEF SignalsAreOwn, Unused, Holds, Assigned
<1>11. KeysAreRequested'
  <2>1. ASSUME NEW l \in Keys, request'[l].phase # "unused"
        PROVE  request'[l].session # None /\ session'[request'[l].session].mode # "unused"
    <3>1. CASE l = k
      BY <1>3, <1>4, <1>9, <3>1
    <3>2. CASE l # k
      <4>1. /\ request'[l] = request[l] /\ request[l].session \in Sessions \ {s}
            /\ ~Unused(request[l].session)
        BY <1>2, <1>4, <1>7, <2>1, <3>2, References DEF KeysAreRequested
      <4> QED BY <1>3, <1>9, <4>1, NoneAssumption DEF Unused
    <3> QED BY <3>1, <3>2
  <2>2. ASSUME NEW l \in Keys, request'[l].phase = "unused"
        PROVE  /\ cache'[l] = None
               /\ \A t \in Sessions: session'[t].key # l
               /\ \A c \in commands': c.key # l
               /\ \A d \in Desktops: desktop[d].key # l
    <3>1. l # k /\ request[l].phase = "unused" /\ l # None
      BY <1>4, <2>2, NoneAssumption
    <3>2. /\ cache[l] = None
          /\ \A t \in Sessions: session[t].key # l
          /\ \A c \in commands: c.key # l
          /\ \A d \in Desktops: desktop[d].key # l
      BY <1>2, <3>1 DEF KeysAreRequested
    <3> QED BY <1>3, <1>4, <1>5, <1>6, <3>1, <3>2
  <2> QED BY <1>1, <2>1, <2>2 DEF KeysAreRequested, Unused
<1>12. ViewedOnceServed'
  <2>1. \A l \in Keys \ {k}: Served(l) => ServedNext(l)
    BY <1>4 DEF Served, ServedNext
  <2>2. \A v \in Viewers: viewer[v].key # None => ServedNext(viewer[v].key)
    BY <1>2, <1>8, <2>1, References DEF ViewedOnceServed
  <2>3. \A n \in notices: ServedNext(n.key)
    BY <1>2, <1>8, <2>1, References DEF ViewedOnceServed
  <2>4. \A c \in commands': c.viewers # {} => ServedNext(c.key)
    BY <1>2, <1>5, <1>6, <1>8, <2>1, References DEF ViewedOnceServed
  <2>5. \A d \in Desktops: desktop[d].viewers # {} =>
           desktop[d].key \in Keys /\ ServedNext(desktop[d].key)
    BY <1>2, <1>8, <2>1 DEF ViewedOnceServed
  <2>6. ASSUME NEW d \in Desktops, desktop[d].session # None,
               session'[desktop[d].session].viewers # {}
        PROVE  ServedNext(desktop[d].key)
    <3>1. desktop[d].session \in Sessions \ {s} /\ desktop[d].key \in Keys \ {k}
      BY <1>7, <1>8, <2>6, UsedObjects DEF Holds
    <3> QED BY <1>2, <1>3, <2>1, <2>6, <3>1 DEF ViewedOnceServed, Holds
  <2>7. ASSUME NEW l \in Keys, cache'[l] # None, session'[cache'[l]].viewers # {}
        PROVE  ServedNext(l)
    <3>1. l # k /\ cache'[l] = cache[l] /\ cache[l] \in Sessions \ {s}
      BY <1>3, <1>4, <1>7, <2>7, UsedObjects
    <3> QED BY <1>2, <1>3, <2>1, <2>7, <3>1 DEF ViewedOnceServed
  <2>8. ASSUME NEW t \in Sessions, session'[t].key # None, session'[t].viewers # {}
        PROVE  ServedNext(session'[t].key)
    <3>1. t # s /\ session'[t] = session[t] /\ session[t].key \in Keys \ {k}
      BY <1>2, <1>3, <1>8, <2>8, References
    <3> QED BY <1>2, <2>1, <2>8, <3>1 DEF ViewedOnceServed
  <2> QED BY <1>1, <2>2, <2>3, <2>4, <2>5, <2>6, <2>7, <2>8
          DEF ViewedOnceServed, Served, ServedNext, Holds
<1>13. FoundUnderOwnKey'
  <2> SUFFICES ASSUME NEW v \in Viewers, viewer[v].phase \in {"found", "admitted"}
               PROVE  /\ session'[viewer[v].found].key \in {viewer[v].key, None}
                      /\ \A l \in Keys: cache'[l] = viewer[v].found => l = viewer[v].key
                      /\ \A d \in Desktops: desktop[d].session = viewer[v].found =>
                            desktop[d].key = viewer[v].key
    BY <1>1 DEF FoundUnderOwnKey, Belongs
  <2>1. viewer[v].found \in Sessions \ {s}
    BY <1>2, <1>7, References DEF KeyInvariant, ViewerReferences
  <2>2. Belongs(viewer[v].found, viewer[v].key)
    BY <1>2 DEF FoundUnderOwnKey
  <2> QED BY <1>3, <1>4, <2>1, <2>2 DEF Belongs
<1>14. FreshUntilAssigned'
  <2>1. ASSUME NEW t \in Sessions,
               session'[t].mode = "unknown", session'[t].key # None
        PROVE  /\ request'[session'[t].key].session = t
               /\ ~ServedNext(session'[t].key)
               /\ signal[t] # "set"
    <3>1. CASE t = s
      BY <1>3, <1>4, <1>7, <3>1 DEF ServedNext
    <3>2. CASE t # s
      <4>1. session'[t] = session[t] /\ session[t].key \in Keys \ {k}
        BY <1>2, <1>3, <1>8, <2>1, <3>2, References
      <4>2. /\ request[session[t].key].session = t
            /\ ~Served(session[t].key)
            /\ signal[t] # "set"
        BY <1>2, <2>1, <4>1 DEF FreshUntilAssigned
      <4> QED BY <1>4, <4>1, <4>2 DEF Served, ServedNext
    <3> QED BY <3>1, <3>2
  <2>2. ASSUME NEW d \in Desktops, Holds(d), desktop[d].phase # "adopting"
        PROVE  session'[desktop[d].session].mode \in Assigned
    <3>1. desktop[d].session \in Sessions \ {s}
      BY <1>7, <2>2, UsedObjects
    <3> QED BY <1>2, <1>3, <2>2, <3>1 DEF FreshUntilAssigned
  <2>3. ASSUME NEW d \in Desktops, NEW l \in Keys, Holds(d), desktop[d].key = l,
               cache'[l] = request'[l].session
        PROVE  cache'[l] \in {None, desktop[d].session}
    <3>1. l # k
      BY <1>8, <2>3
    <3> QED BY <1>2, <1>4, <2>3, <3>1 DEF FreshUntilAssigned
  <2> QED BY <1>1, <2>1, <2>2, <2>3 DEF FreshUntilAssigned, Served, ServedNext, Holds, Assigned
<1>15. DisposedLeave'
  <2>1. ASSUME NEW x \in Sessions, signal[x] = "disposed"
        PROVE  \E t \in Sessions: session'[t].signal = x /\ session'[t].disposed
    <3>1. PICK t \in Sessions: session[t].signal = x /\ session[t].disposed
      BY <1>2, <2>1 DEF DisposedLeave
    <3>2. t # s
      BY <1>7, <3>1
    <3> QED BY <1>3, <3>1, <3>2
  <2>2. ASSUME NEW l \in Keys, cache'[l] # None, session'[cache'[l]].disposed
        PROVE  \E t \in Sessions \ {cache'[l]}:
                  /\ session'[t].signal = session'[cache'[l]].signal
                  /\ session'[t].disposed
    <3>1. l # k /\ cache'[l] = cache[l] /\ cache[l] \in Sessions \ {s}
      BY <1>3, <1>4, <1>7, <2>2, UsedObjects
    <3>2. PICK t \in Sessions \ {cache[l]}: /\ session[t].signal = session[cache[l]].signal
                                            /\ session[t].disposed
      BY <1>2, <1>3, <2>2, <3>1 DEF DisposedLeave
    <3>3. t # s
      BY <1>7, <3>2
    <3> QED BY <1>3, <3>1, <3>2, <3>3
  <2> QED BY <1>1, <2>1, <2>2 DEF DisposedLeave
<1>16. ConsentIsAsked'
  <2> SUFFICES ASSUME NEW t \in Sessions, session'[t].device
               PROVE  /\ session'[t].key # None
                      /\ request'[session'[t].key].session = t
                      /\ consent'[session'[t].key] = "required" => session'[t].requireConsent
    BY DEF ConsentIsAsked
  <2>1. CASE t = s
    BY <1>3, <1>4, <1>9, <2>1
  <2>2. CASE t # s
    <3>1. /\ session'[t] = session[t] /\ session[t].key # None
          /\ request[session[t].key].session = t
          /\ consent[session[t].key] = "required" => session[t].requireConsent
      BY <1>2, <1>3, <2>2 DEF ConsentIsAsked
    <3>2. session[t].key \in Keys \ {k}
      BY <1>2, <1>8, <3>1, References
    <3> QED BY <1>4, <3>1, <3>2
  <2> QED BY <2>1, <2>2
<1>17. ConsentBeforeCast'
  <2> SUFFICES ASSUME NEW w \in Viewers,
                      viewer[w].phase \in {"casting", "offered", "watching"},
                      session'[viewer[w].session].device,
                      session'[viewer[w].session].key # None
               PROVE  consent'[session'[viewer[w].session].key] # "required"
    BY <1>1 DEF ConsentBeforeCast
  <2> DEFINE t == viewer[w].session
  <2>1. t \in Sessions \ {s} /\ session'[t] = session[t]
    BY <1>2, <1>3, <1>7, References DEF KeyInvariant, ViewerReferences
  <2>2. session[t].key \in Keys \ {k}
    BY <1>2, <1>8, <2>1, References
  <2> QED BY <1>2, <1>4, <2>1, <2>2 DEF ConsentBeforeCast
<1>18. ListsAreKept'
  <2>1. ASSUME NEW d \in Desktops, NEW w \in Viewers, w \in desktop[d].left
        PROVE  Holds(d) /\ (viewer[w].phase \in {"off", "gone"} \/ CopyNext(desktop[d].session))
    <3>1. /\ Holds(d) /\ (viewer[w].phase \in {"off", "gone"} \/ HasCopy(desktop[d].session))
          /\ desktop[d].session \in Sessions
      BY <1>2, <2>1, UsedObjects DEF ListsAreKept
    <3> QED BY <1>9, <3>1
  <2>2. ASSUME NEW w \in Viewers, viewer[w].phase \in Attached
        PROVE  \/ w \in session'[viewer[w].session].viewers
               \/ CopyNext(viewer[w].session)
    <3>1. viewer[w].session \in Sessions \ {s}
      BY <1>2, <1>7, <2>2, References DEF KeyInvariant, ViewerReferences, Attached
    <3> QED BY <1>2, <1>3, <1>9, <2>2, <3>1 DEF ListsAreKept
  <2> QED BY <1>1, <2>1, <2>2 DEF ListsAreKept, Holds, Attached, HasCopy, CopyNext
<1>19. OnlyRecreatedAreAttended'
  BY <1>1, <1>3, AttendedFrame DEF AttendsKept
<1> QED BY <1>10, <1>11, <1>12, <1>13, <1>14, <1>15, <1>16, <1>17, <1>18, <1>19
        DEF SessionInvariant

-----------------------------------------------------------------------------
\* A process that finds an object under its key holds it from then on.
LEMMA AdoptCachedKeepsSessions ==
  ASSUME SessionInvariant, KeyInvariant',
         NEW d \in Desktops, NEW s \in Sessions, AdoptSession(d, s),
         cache[desktop[d].key] # None
  PROVE  SessionInvariant'
<1> DEFINE k == desktop[d].key
<1>0. UNCHANGED <<cache, session, cleaning, signal, request, consent, commands,
                     viewer, notices>>
  BY DEF AdoptSession
<1>1. /\ desktop[d].phase = "cleared" /\ s = cache[k]
      /\ desktop' = [desktop EXCEPT ![d].phase = "adopting", ![d].session = s]
  BY DEF AdoptSession
<1>2. /\ TypeOK /\ KeyInvariant /\ SignalsAreOwn /\ KeysAreRequested /\ ViewedOnceServed
      /\ FoundUnderOwnKey /\ FreshUntilAssigned /\ DisposedLeave /\ ListsAreKept
  BY Steady DEF SessionInvariant
<1>3. /\ k \in Keys /\ ~Holds(d)
  BY <1>1, <1>2 DEF KeyInvariant, ObjectReferences
<1>4. /\ \A e \in Desktops \ {d}: desktop'[e] = desktop[e]
      /\ desktop'[d].session = s /\ desktop'[d].phase = "adopting"
      /\ \A e \in Desktops: /\ desktop'[e].key = desktop[e].key
                            /\ desktop'[e].viewers = desktop[e].viewers
                            /\ desktop'[e].left = desktop[e].left
  BY <1>1, <1>2 DEF TypeOK, DesktopRecords
<1>5. ObjectsKept /\ CacheShrinks /\ RequestsKept /\ DisposalsKept
  BY <1>0 DEF ObjectsKept, CacheShrinks, RequestsKept, DisposalsKept, Served, ServedNext
<1>6. SignalsAreOwn'
  <2>1. ASSUME NEW t \in Sessions, session[t].desktop # None
        PROVE  /\ desktop'[session[t].desktop].session # None
               /\ session[desktop'[session[t].desktop].session].signal = session[t].signal
    <3>1. /\ session[t].desktop \in Desktops /\ Holds(session[t].desktop)
          /\ session[desktop[session[t].desktop].session].signal = session[t].signal
      BY <1>2, <2>1, References DEF SignalsAreOwn
    <3> QED BY <1>3, <1>4, <3>1 DEF Holds
  <2> QED BY <1>0, <1>2, <2>1 DEF SignalsAreOwn, Unused, Holds, Assigned
<1>7. KeysAreRequested'
  BY <1>0, <1>4, <1>5, KeysFrame
<1>8. ViewedOnceServed'
  <2>1. ASSUME NEW e \in Desktops, desktop'[e].session # None,
               session[desktop'[e].session].viewers # {}
        PROVE  Served(desktop[e].key)
    <3>1. CASE e = d
      <4>1. desktop'[d].session = cache[k] /\ cache[k] # None
        BY <1>1, <1>4
      <4>2. session[cache[k]].viewers # {}
        BY <2>1, <3>1, <4>1
      <4>3. Served(k)
        BY <1>2, <1>3, <4>1, <4>2 DEF ViewedOnceServed
      <4> QED BY <3>1, <4>3
    <3>2. CASE e # d
      <4>1. desktop[e].session # None /\ session[desktop[e].session].viewers # {}
        BY <1>4, <2>1, <3>2
      <4> QED BY <1>2, <4>1 DEF ViewedOnceServed, Holds
    <3> QED BY <3>1, <3>2
  <2>2. \A e \in Desktops: desktop'[e].viewers # {} =>
           desktop'[e].key \in Keys /\ Served(desktop'[e].key)
    BY <1>2, <1>4 DEF ViewedOnceServed
  <2>3. \A e \in Desktops: desktop'[e].key = desktop[e].key
    BY <1>4
  <2> QED BY <1>0, <1>2, <2>1, <2>2, <2>3 DEF ViewedOnceServed, Served, Holds
<1>9. FoundUnderOwnKey'
  <2> SUFFICES ASSUME NEW v \in Viewers, viewer[v].phase \in {"found", "admitted"}
               PROVE  /\ session[viewer[v].found].key \in {viewer[v].key, None}
                      /\ \A l \in Keys: cache[l] = viewer[v].found => l = viewer[v].key
                      /\ \A e \in Desktops: desktop'[e].session = viewer[v].found =>
                            desktop'[e].key = viewer[v].key
    BY <1>0 DEF FoundUnderOwnKey, Belongs
  <2>1. Belongs(viewer[v].found, viewer[v].key)
    BY <1>2 DEF FoundUnderOwnKey
  <2>2. ASSUME NEW e \in Desktops, desktop'[e].session = viewer[v].found
        PROVE  desktop'[e].key = viewer[v].key
    <3>1. CASE e = d
      \* The object was found under the key that the process has, too.
      <4>1. cache[k] = viewer[v].found
        BY <1>1, <1>4, <2>2, <3>1
      <4>2. k = viewer[v].key
        BY <1>3, <2>1, <4>1 DEF Belongs
      <4> QED BY <1>4, <3>1, <4>2
    <3>2. CASE e # d
      BY <1>4, <2>1, <2>2, <3>2 DEF Belongs
    <3> QED BY <3>1, <3>2
  <2> QED BY <2>1, <2>2 DEF Belongs
<1>10. FreshUntilAssigned'
  <2>1. \A e \in Desktops: (desktop'[e].session # None /\ desktop'[e].phase # "adopting") =>
           session[desktop'[e].session].mode \in Assigned
    BY <1>2, <1>4 DEF FreshUntilAssigned, Holds
  <2>2. ASSUME NEW e \in Desktops, NEW l \in Keys, desktop'[e].session # None,
               desktop'[e].key = l, cache[l] = request[l].session
        PROVE  cache[l] \in {None, desktop'[e].session}
    <3>1. CASE e = d
      BY <1>1, <1>4, <2>2, <3>1
    <3>2. CASE e # d
      BY <1>2, <1>4, <2>2, <3>2 DEF FreshUntilAssigned, Holds
    <3> QED BY <3>1, <3>2
  <2> QED BY <1>0, <1>2, <2>1, <2>2 DEF FreshUntilAssigned, Served, Holds, Assigned
<1>11. DisposedLeave'
  BY <1>0, <1>2, <1>5, DisposedFrame DEF DisposedLeave
<1>12. ConsentIsAsked' /\ ConsentBeforeCast'
  BY <1>0, <1>5, AskedFrame, CastFrame
<1>13. ListsAreKept'
  <2>1. ASSUME NEW e \in Desktops, NEW w \in Viewers, w \in desktop'[e].left
        PROVE  /\ desktop'[e].session # None
               /\ viewer[w].phase \in {"off", "gone"} \/ HasCopy(desktop'[e].session)
    <3>1. w \in desktop[e].left /\ e # d
      BY <1>2, <1>3, <1>4, <2>1 DEF ListsAreKept
    <3> QED BY <1>2, <1>4, <3>1 DEF ListsAreKept, Holds
  <2> QED BY <1>0, <1>2, <2>1 DEF ListsAreKept, Holds, HasCopy
<1>14. OnlyRecreatedAreAttended'
  BY <1>0, AttendedFrame DEF AttendsKept
<1> QED BY <1>2, <1>6, <1>7, <1>8, <1>9, <1>10, <1>11, <1>12, <1>13, <1>14 DEF SessionInvariant

\* A process whose key is not cached brings its own object.
LEMMA AdoptNewKeepsSessions ==
  ASSUME SessionInvariant, KeyInvariant',
         NEW d \in Desktops, NEW s \in Sessions, AdoptSession(d, s),
         cache[desktop[d].key] = None
  PROVE  SessionInvariant'
<1> DEFINE k == desktop[d].key
<1>0. UNCHANGED <<cleaning, signal, request, consent, commands, viewer, notices>>
  BY DEF AdoptSession
<1>1. /\ cleaning = None /\ Unused(s)
      /\ desktop[d].phase = "cleared"
      /\ session' = [session EXCEPT ![s] = NewSession(s)]
      /\ cache' = [cache EXCEPT ![k] = s]
      /\ desktop' = [desktop EXCEPT ![d].phase = "adopting", ![d].session = s]
  BY DEF AdoptSession, Unlocked
<1>2. /\ TypeOK /\ KeyInvariant /\ SignalsAreOwn /\ KeysAreRequested /\ ViewedOnceServed
      /\ FoundUnderOwnKey /\ FreshUntilAssigned /\ DisposedLeave /\ ConsentIsAsked
      /\ ConsentBeforeCast /\ ListsAreKept
  BY Steady DEF SessionInvariant
<1>3. /\ \A t \in Sessions \ {s}: session'[t] = session[t]
      /\ session'[s].mode = "unknown" /\ session'[s].key = None /\ session'[s].signal = s
      /\ ~session'[s].disposed /\ session'[s].viewers = {} /\ session'[s].desktop = None
      /\ ~session'[s].device
  BY <1>1, <1>2 DEF TypeOK, NewSession
<1>4. k \in Keys /\ ~Holds(d) /\ s # None
  BY <1>1, <1>2, NoneAssumption DEF KeyInvariant, ObjectReferences
<1>5. /\ \A l \in Keys \ {k}: cache'[l] = cache[l]
      /\ cache'[k] = s
  BY <1>1, <1>2, <1>4 DEF TypeOK
<1>6. /\ \A e \in Desktops \ {d}: desktop'[e] = desktop[e]
      /\ desktop'[d].session = s /\ desktop'[d].phase = "adopting"
      /\ \A e \in Desktops: /\ desktop'[e].key = desktop[e].key
                            /\ desktop'[e].viewers = desktop[e].viewers
                            /\ desktop'[e].left = desktop[e].left
  BY <1>1, <1>2 DEF TypeOK, DesktopRecords
<1>7. /\ \A l \in Keys: cache[l] # s
      /\ \A l \in Keys: request[l].phase # "unused" => request[l].session # s
      /\ \A e \in Desktops: desktop[e].session # s
      /\ \A v \in Viewers: viewer[v].session # s /\ viewer[v].found # s
      /\ session[s].signal = s /\ signal[s] = "reset" /\ ~session[s].disposed
      /\ \A t \in Sessions: t # s => session[t].signal # s
  BY <1>1, UnusedObject
<1>8. request[k].phase # "unused"
  BY <1>2, <1>4 DEF KeysAreRequested
<1>9. /\ \A t \in Sessions: session'[t].signal = session[t].signal
      /\ \A t \in Sessions: HasCopy(t) => CopyNext(t)
  BY <1>3, <1>7 DEF HasCopy, CopyNext
<1>10. SignalsAreOwn'
  <2>1. ASSUME NEW t \in Sessions, session'[t].mode = "unused"
        PROVE  signal'[t] = "reset" /\ ~session'[t].disposed
    <3>1. t # s
      BY <1>3, <2>1
    <3> QED BY <1>0, <1>2, <1>3, <2>1, <3>1 DEF SignalsAreOwn, Unused
  <2>2. ASSUME NEW t \in Sessions, session'[t].signal # t
        PROVE  session'[t].mode \in Assigned /\ session'[session'[t].signal].mode \in Assigned
    <3>1. t # s /\ session[t].signal \in Sessions \ {s}
      BY <1>2, <1>3, <1>7, <2>2, References
    <3> QED BY <1>2, <1>3, <2>2, <3>1 DEF SignalsAreOwn
  <2>3. ASSUME NEW t \in Sessions, session'[t].desktop # None
        PROVE  /\ desktop'[session'[t].desktop].session # None
               /\ session'[desktop'[session'[t].desktop].session].signal = session'[t].signal
    <3>1. t # s /\ session'[t] = session[t]
      BY <1>3, <2>3
    <3> DEFINE e == session[t].desktop
    <3>2. e \in Desktops /\ Holds(e) /\ session[desktop[e].session].signal = session[t].signal
      BY <1>2, <2>3, <3>1, References DEF SignalsAreOwn
    <3>3. e # d /\ desktop'[e] = desktop[e]
      BY <1>4, <1>6, <3>2
    <3>4. desktop[e].session \in Sessions
      BY <1>2, <3>2, UsedObjects
    <3> QED BY <1>9, <3>1, <3>2, <3>3, <3>4 DEF Holds
  <2> QED BY <1>0, <2>1, <2>2, <2>3 DEF SignalsAreOwn, Unused, Holds, Assigned
<1>11. KeysAreRequested'
  <2>1. ASSUME NEW l \in Keys, request[l].phase # "unused"
        PROVE  request[l].session # None /\ session'[request[l].session].mode # "unused"
    <3>1. request[l].session \in Sessions \ {s} /\ ~Unused(request[l].session)
      BY <1>2, <1>7, <2>1, References DEF KeysAreRequested
    <3> QED BY <1>3, <3>1, NoneAssumption DEF Unused
  <2>2. ASSUME NEW l \in Keys, request[l].phase = "unused"
        PROVE  /\ cache'[l] = None
               /\ \A t \in Sessions: session'[t].key # l
               /\ \A c \in commands: c.key # l
               /\ \A e \in Desktops: desktop'[e].key # l
    <3>1. l # k /\ l # None
      BY <1>8, <2>2, NoneAssumption
    <3>2. /\ cache[l] = None
          /\ \A t \in Sessions: session[t].key # l
          /\ \A c \in commands: c.key # l
          /\ \A e \in Desktops: desktop[e].key # l
      BY <1>2, <2>2 DEF KeysAreRequested
    <3> QED BY <1>3, <1>5, <1>6, <3>1, <3>2
  <2> QED BY <1>0, <2>1, <2>2 DEF KeysAreRequested, Unused
<1>12. ViewedOnceServed'
  <2>1. /\ \A v \in Viewers: viewer[v].key # None => Served(viewer[v].key)
        /\ \A n \in notices: Served(n.key)
        /\ \A c \in commands: c.viewers # {} => Served(c.key)
        /\ \A e \in Desktops: desktop'[e].viewers # {} =>
             desktop'[e].key \in Keys /\ Served(desktop'[e].key)
    BY <1>2, <1>6 DEF ViewedOnceServed
  <2>2. ASSUME NEW e \in Desktops, desktop'[e].session # None,
               session'[desktop'[e].session].viewers # {}
        PROVE  Served(desktop'[e].key)
    <3>1. e # d /\ desktop'[e] = desktop[e] /\ Holds(e)
      BY <1>3, <1>6, <2>2 DEF Holds
    <3>2. desktop[e].session \in Sessions \ {s}
      BY <1>7, <3>1, UsedObjects
    <3> QED BY <1>2, <1>3, <2>2, <3>1, <3>2 DEF ViewedOnceServed
  <2>3. ASSUME NEW l \in Keys, cache'[l] # None, session'[cache'[l]].viewers # {}
        PROVE  Served(l)
    <3>1. l # k /\ cache'[l] = cache[l] /\ cache[l] \in Sessions \ {s}
      BY <1>3, <1>5, <1>7, <2>3, UsedObjects
    <3> QED BY <1>2, <1>3, <2>3, <3>1 DEF ViewedOnceServed
  <2>4. ASSUME NEW t \in Sessions, session'[t].key # None, session'[t].viewers # {}
        PROVE  Served(session'[t].key)
    <3>1. t # s /\ session'[t] = session[t]
      BY <1>3, <2>4
    <3> QED BY <1>2, <2>4, <3>1 DEF ViewedOnceServed
  <2> QED BY <1>0, <2>1, <2>2, <2>3, <2>4 DEF ViewedOnceServed, Served, Holds
<1>13. FoundUnderOwnKey'
  <2> SUFFICES ASSUME NEW v \in Viewers, viewer[v].phase \in {"found", "admitted"}
               PROVE  /\ session'[viewer[v].found].key \in {viewer[v].key, None}
                      /\ \A l \in Keys: cache'[l] = viewer[v].found => l = viewer[v].key
                      /\ \A e \in Desktops: desktop'[e].session = viewer[v].found =>
                            desktop'[e].key = viewer[v].key
    BY <1>0 DEF FoundUnderOwnKey, Belongs
  <2>1. viewer[v].found \in Sessions \ {s}
    BY <1>2, <1>7, References DEF KeyInvariant, ViewerReferences
  <2>2. Belongs(viewer[v].found, viewer[v].key)
    BY <1>2 DEF FoundUnderOwnKey
  <2> QED BY <1>3, <1>5, <1>6, <2>1, <2>2 DEF Belongs
<1>14. FreshUntilAssigned'
  <2>1. ASSUME NEW t \in Sessions,
               session'[t].mode = "unknown", session'[t].key # None
        PROVE  /\ request[session'[t].key].session = t
               /\ ~Served(session'[t].key)
               /\ signal[t] # "set"
    <3>1. session'[t] = session[t]
      BY <1>3, <2>1
    <3> QED BY <1>2, <2>1, <3>1 DEF FreshUntilAssigned
  <2>2. ASSUME NEW e \in Desktops, desktop'[e].session # None, desktop'[e].phase # "adopting"
        PROVE  session'[desktop'[e].session].mode \in Assigned
    <3>1. e # d /\ desktop'[e] = desktop[e] /\ Holds(e)
      BY <1>6, <2>2 DEF Holds
    <3>2. desktop[e].session \in Sessions \ {s}
      BY <1>7, <3>1, UsedObjects
    <3> QED BY <1>2, <1>3, <2>2, <3>1, <3>2 DEF FreshUntilAssigned
  <2>3. ASSUME NEW e \in Desktops, NEW l \in Keys, desktop'[e].session # None,
               desktop'[e].key = l, cache'[l] = request[l].session
        PROVE  cache'[l] \in {None, desktop'[e].session}
    <3>1. l # k
      BY <1>5, <1>7, <1>8, <2>3
    <3>2. e # d /\ desktop'[e] = desktop[e]
      BY <1>6, <2>3, <3>1
    <3> QED BY <1>2, <1>5, <2>3, <3>1, <3>2 DEF FreshUntilAssigned, Holds
  <2> QED BY <1>0, <2>1, <2>2, <2>3 DEF FreshUntilAssigned, Served, Holds, Assigned
<1>15. DisposedLeave'
  <2>1. ASSUME NEW x \in Sessions, signal[x] = "disposed"
        PROVE  \E t \in Sessions: session'[t].signal = x /\ session'[t].disposed
    <3>1. PICK t \in Sessions: session[t].signal = x /\ session[t].disposed
      BY <1>2, <2>1 DEF DisposedLeave
    <3>2. t # s
      BY <1>7, <3>1
    <3> QED BY <1>3, <3>1, <3>2
  <2>2. ASSUME NEW l \in Keys, cache'[l] # None, session'[cache'[l]].disposed
        PROVE  \E t \in Sessions \ {cache'[l]}:
                  /\ session'[t].signal = session'[cache'[l]].signal
                  /\ session'[t].disposed
    <3>1. l # k /\ cache'[l] = cache[l] /\ cache[l] \in Sessions \ {s}
      BY <1>3, <1>5, <1>7, <2>2, UsedObjects
    <3>2. PICK t \in Sessions \ {cache[l]}: /\ session[t].signal = session[cache[l]].signal
                                            /\ session[t].disposed
      BY <1>2, <1>3, <2>2, <3>1 DEF DisposedLeave
    <3>3. t # s
      BY <1>7, <3>2
    <3> QED BY <1>3, <3>1, <3>2, <3>3
  <2>3. cleaning' = None
    BY <1>0, <1>1
  <2> QED BY <1>0, <2>1, <2>2, <2>3 DEF DisposedLeave
<1>16. ConsentIsAsked'
  <2>1. \A t \in Sessions: session'[t].device => session'[t] = session[t]
    BY <1>3
  <2> QED BY <1>0, <1>2, <2>1 DEF ConsentIsAsked
<1>17. ConsentBeforeCast'
  <2> SUFFICES ASSUME NEW w \in Viewers,
                      viewer[w].phase \in {"casting", "offered", "watching"},
                      session'[viewer[w].session].device,
                      session'[viewer[w].session].key # None
               PROVE  consent[session'[viewer[w].session].key] # "required"
    BY <1>0 DEF ConsentBeforeCast
  <2>1. viewer[w].session \in Sessions \ {s}
    BY <1>2, <1>7, References DEF KeyInvariant, ViewerReferences
  <2> QED BY <1>2, <1>3, <2>1 DEF ConsentBeforeCast
<1>18. ListsAreKept'
  <2>1. ASSUME NEW e \in Desktops, NEW w \in Viewers, w \in desktop'[e].left
        PROVE  /\ desktop'[e].session # None
               /\ viewer[w].phase \in {"off", "gone"} \/ CopyNext(desktop'[e].session)
    <3>1. w \in desktop[e].left /\ Holds(e)
          /\ (viewer[w].phase \in {"off", "gone"} \/ HasCopy(desktop[e].session))
      BY <1>2, <1>6, <2>1 DEF ListsAreKept
    <3>2. desktop'[e] = desktop[e] /\ desktop[e].session \in Sessions
      BY <1>4, <1>6, <3>1, UsedObjects
    <3> QED BY <1>9, <3>1, <3>2 DEF Holds
  <2>2. ASSUME NEW w \in Viewers, viewer[w].phase \in Attached
        PROVE  \/ w \in session'[viewer[w].session].viewers
               \/ CopyNext(viewer[w].session)
    <3>1. viewer[w].session \in Sessions \ {s}
      BY <1>2, <1>7, <2>2, References DEF KeyInvariant, ViewerReferences, Attached
    <3> QED BY <1>2, <1>3, <1>9, <2>2, <3>1 DEF ListsAreKept
  <2> QED BY <1>0, <2>1, <2>2 DEF ListsAreKept, Holds, Attached, HasCopy, CopyNext
<1>19. OnlyRecreatedAreAttended'
  BY <1>0, <1>1, <1>3, AttendedFrame DEF AttendsKept
<1> QED BY <1>10, <1>11, <1>12, <1>13, <1>14, <1>15, <1>16, <1>17, <1>18, <1>19
        DEF SessionInvariant

\* A process assigns the object it holds: its key, its mode, its connection.
LEMMA AssignSessionKeepsSessions ==
  ASSUME SessionInvariant, KeyInvariant', NEW d \in Desktops, AssignSession(d)
  PROVE  SessionInvariant'
<1> DEFINE s == desktop[d].session
           k == desktop[d].key
<1>0. UNCHANGED <<cache, cleaning, signal, request, consent, commands, viewer, notices>>
  BY DEF AssignSession
<1>1. /\ desktop[d].phase = "adopting"
      /\ session' = [session EXCEPT ![s].mode = "unattended", ![s].desktop = d, ![s].key = k,
                                    ![s].access = desktop[d].access]
      /\ desktop' = [desktop EXCEPT ![d].phase = "registered"]
  BY DEF AssignSession
<1>2. /\ TypeOK /\ KeyInvariant /\ SignalsAreOwn /\ KeysAreRequested /\ ViewedOnceServed
      /\ FoundUnderOwnKey /\ FreshUntilAssigned /\ DisposedLeave /\ ConsentIsAsked
      /\ ConsentBeforeCast /\ ListsAreKept
  BY Steady DEF SessionInvariant
<1>3. /\ Holds(d) /\ s \in Sessions /\ ~Unused(s) /\ k \in Keys
      /\ session[s].key \in {k, None} /\ k # None
  <2>1. Holds(d)
    BY <1>1, <1>2 DEF KeyInvariant, ObjectReferences
  <2>2. s \in Sessions /\ ~Unused(s) /\ k \in Keys
    BY <2>1, UsedObjects
  <2>3. session[s].key \in {k, None}
    BY <1>2, <2>1 DEF KeyInvariant, OneKeyPerObject
  <2> QED BY <2>1, <2>2, <2>3, NoneAssumption
<1>4. /\ \A t \in Sessions \ {s}: session'[t] = session[t]
      /\ session'[s].mode = "unattended" /\ session'[s].key = k /\ session'[s].desktop = d
      /\ session'[s].viewers = session[s].viewers
      /\ session'[s].signal = session[s].signal
      /\ session'[s].device = session[s].device
      /\ session'[s].disposed = session[s].disposed
      /\ session'[s].requireConsent = session[s].requireConsent
  <2>1. /\ session[s] \in SessionRecords
        /\ \A t \in Sessions \ {s}: session'[t] = session[t]
        /\ session'[s] = [session[s] EXCEPT !.mode = "unattended", !.desktop = d, !.key = k,
                                        !.access = desktop[d].access]
    BY <1>1, <1>2, <1>3 DEF TypeOK
  <2> HIDE DEF s, k
  <2> QED BY <2>1 DEF SessionRecords
<1>5. \A e \in Desktops: /\ desktop'[e].session = desktop[e].session
                         /\ desktop'[e].key = desktop[e].key
                         /\ desktop'[e].viewers = desktop[e].viewers
                         /\ desktop'[e].left = desktop[e].left
                         /\ e # d => desktop'[e].phase = desktop[e].phase
  BY <1>1, <1>2 DEF TypeOK, DesktopRecords
<1> HIDE DEF s, k
<1>6. \A t \in Sessions: /\ session'[t].signal = session[t].signal
                         /\ session'[t].viewers = session[t].viewers
                         /\ session'[t].disposed = session[t].disposed
                         /\ HasCopy(t) => CopyNext(t)
  BY <1>4 DEF HasCopy, CopyNext
<1>7. SignalsAreOwn'
  <2>1. ASSUME NEW t \in Sessions, session'[t].mode = "unused"
        PROVE  signal'[t] = "reset" /\ ~session'[t].disposed
    <3>1. t # s
      BY <1>4, <2>1
    <3> QED BY <1>0, <1>2, <1>4, <2>1, <3>1 DEF SignalsAreOwn, Unused
  <2>2. ASSUME NEW t \in Sessions, session'[t].signal # t
        PROVE  session'[t].mode \in Assigned /\ session'[session'[t].signal].mode \in Assigned
    <3>1. session'[t].signal = session[t].signal /\ session[t].signal \in Sessions
      BY <1>2, <1>6, References
    <3>2. session[t].mode \in Assigned /\ session[session[t].signal].mode \in Assigned
      BY <1>2, <2>2, <3>1 DEF SignalsAreOwn
    <3> QED BY <1>4, <3>1, <3>2 DEF Assigned
  <2>3. ASSUME NEW t \in Sessions, session'[t].desktop # None
        PROVE  /\ desktop'[session'[t].desktop].session # None
               /\ session'[desktop'[session'[t].desktop].session].signal = session'[t].signal
    <3>1. CASE t = s
      BY <1>3, <1>4, <1>5, <3>1 DEF Holds, s
    <3>2. CASE t # s
      <4>1. /\ session'[t] = session[t]
            /\ session[t].desktop \in Desktops /\ Holds(session[t].desktop)
            /\ session[desktop[session[t].desktop].session].signal = session[t].signal
        BY <1>2, <1>4, <2>3, <3>2, References DEF SignalsAreOwn
      <4>2. desktop[session[t].desktop].session \in Sessions
        BY <4>1, UsedObjects
      <4> QED BY <1>5, <1>6, <4>1, <4>2 DEF Holds
    <3> QED BY <3>1, <3>2
  <2> QED BY <2>1, <2>2, <2>3 DEF SignalsAreOwn, Unused, Holds, Assigned
<1>8. KeysAreRequested'
  <2>1. request[k].phase # "unused"
    BY <1>2, <1>3 DEF KeysAreRequested, k
  <2>2. ASSUME NEW l \in Keys, request[l].phase # "unused"
        PROVE  request[l].session # None /\ session'[request[l].session].mode # "unused"
    <3>1. request[l].session \in Sessions /\ ~Unused(request[l].session)
      BY <1>2, <2>2, References DEF KeysAreRequested
    <3> QED BY <1>4, <3>1, NoneAssumption DEF Unused
  <2>3. ASSUME NEW l \in Keys, request[l].phase = "unused"
        PROVE  /\ cache[l] = None
               /\ \A t \in Sessions: session'[t].key # l
               /\ \A c \in commands: c.key # l
               /\ \A e \in Desktops: desktop'[e].key # l
    BY <1>2, <1>4, <1>5, <2>1, <2>3 DEF KeysAreRequested
  <2> QED BY <1>0, <2>2, <2>3 DEF KeysAreRequested, Unused
<1>9. ViewedOnceServed'
  <2>1. /\ \A v \in Viewers: viewer[v].key # None => Served(viewer[v].key)
        /\ \A n \in notices: Served(n.key)
        /\ \A c \in commands: c.viewers # {} => Served(c.key)
        /\ \A e \in Desktops: desktop'[e].viewers # {} =>
             desktop'[e].key \in Keys /\ Served(desktop'[e].key)
    BY <1>2, <1>5 DEF ViewedOnceServed
  <2>2. ASSUME NEW e \in Desktops, desktop'[e].session # None,
               session'[desktop'[e].session].viewers # {}
        PROVE  Served(desktop'[e].key)
    <3>1. desktop[e].session \in Sessions
      BY <1>5, <2>2, UsedObjects DEF Holds
    <3> QED BY <1>2, <1>5, <1>6, <2>2, <3>1 DEF ViewedOnceServed, Holds
  <2>3. ASSUME NEW l \in Keys, cache[l] # None, session'[cache[l]].viewers # {}
        PROVE  Served(l)
    <3>1. cache[l] \in Sessions
      BY <2>3, UsedObjects
    <3> QED BY <1>2, <1>6, <2>3, <3>1 DEF ViewedOnceServed
  <2>4. ASSUME NEW t \in Sessions, session'[t].key # None, session'[t].viewers # {}
        PROVE  Served(session'[t].key)
    <3>1. CASE t = s
      BY <1>2, <1>3, <1>4, <2>4, <3>1 DEF ViewedOnceServed, s, k
    <3>2. CASE t # s
      BY <1>2, <1>4, <2>4, <3>2 DEF ViewedOnceServed
    <3> QED BY <3>1, <3>2
  <2> QED BY <1>0, <2>1, <2>2, <2>3, <2>4 DEF ViewedOnceServed, Served, Holds
<1>10. FoundUnderOwnKey'
  <2> SUFFICES ASSUME NEW v \in Viewers, viewer[v].phase \in {"found", "admitted"}
               PROVE  /\ session'[viewer[v].found].key \in {viewer[v].key, None}
                      /\ \A l \in Keys: cache[l] = viewer[v].found => l = viewer[v].key
                      /\ \A e \in Desktops: desktop'[e].session = viewer[v].found =>
                            desktop'[e].key = viewer[v].key
    BY <1>0 DEF FoundUnderOwnKey, Belongs
  <2>1. viewer[v].found \in Sessions
    BY <1>2, References DEF KeyInvariant, ViewerReferences
  <2>2. Belongs(viewer[v].found, viewer[v].key)
    BY <1>2 DEF FoundUnderOwnKey
  <2>3. viewer[v].found = s => k = viewer[v].key
    BY <2>2 DEF Belongs, s, k
  <2> QED BY <1>4, <1>5, <2>1, <2>2, <2>3 DEF Belongs
<1>11. FreshUntilAssigned'
  <2>1. ASSUME NEW t \in Sessions,
               session'[t].mode = "unknown", session'[t].key # None
        PROVE  /\ request[session'[t].key].session = t
               /\ ~Served(session'[t].key)
               /\ signal[t] # "set"
    <3>1. session'[t] = session[t]
      BY <1>4, <2>1
    <3> QED BY <1>2, <2>1, <3>1 DEF FreshUntilAssigned
  <2>2. ASSUME NEW e \in Desktops, desktop'[e].session # None, desktop'[e].phase # "adopting"
        PROVE  session'[desktop'[e].session].mode \in Assigned
    <3>1. CASE desktop[e].session = s
      BY <1>4, <1>5, <3>1 DEF Assigned
    <3>2. CASE desktop[e].session # s
      <4>1. e # d /\ Holds(e) /\ desktop[e].session \in Sessions \ {s}
        BY <1>5, <2>2, <3>2, UsedObjects DEF Holds, s
      <4> QED BY <1>2, <1>4, <1>5, <2>2, <4>1 DEF FreshUntilAssigned
    <3> QED BY <3>1, <3>2
  <2>3. \A e \in Desktops, l \in Keys:
          (desktop'[e].session # None /\ desktop'[e].key = l /\ cache[l] = request[l].session)
             => cache[l] \in {None, desktop'[e].session}
    BY <1>2, <1>5 DEF FreshUntilAssigned, Holds
  <2> QED BY <1>0, <2>1, <2>2, <2>3 DEF FreshUntilAssigned, Served, Holds, Assigned
<1>12. DisposedLeave'
  <2>1. ASSUME NEW x \in Sessions, signal[x] = "disposed"
        PROVE  \E t \in Sessions: session'[t].signal = x /\ session'[t].disposed
    BY <1>2, <1>6, <2>1 DEF DisposedLeave
  <2>2. ASSUME NEW l \in Keys, cache[l] # None, session'[cache[l]].disposed
        PROVE  \E t \in Sessions \ {cache[l]}:
                  /\ session'[t].signal = session'[cache[l]].signal
                  /\ session'[t].disposed
    <3>1. cache[l] \in Sessions
      BY <2>2, UsedObjects
    <3>2. PICK t \in Sessions \ {cache[l]}: /\ session[t].signal = session[cache[l]].signal
                                            /\ session[t].disposed
      BY <1>2, <1>6, <2>2, <3>1 DEF DisposedLeave
    <3> QED BY <1>6, <3>1, <3>2
  <2> QED BY <1>0, <1>2, <2>1, <2>2 DEF DisposedLeave
\* An object that knows its device has its key already.
<1>13. \A t \in Sessions: session'[t].device =>
          /\ session[t].device /\ session'[t].key = session[t].key
          /\ session'[t].requireConsent = session[t].requireConsent
  <2>1. session[s].device => session[s].key = k
    BY <1>2, <1>3 DEF ConsentIsAsked
  <2> QED BY <1>4, <2>1
<1>14. ConsentIsAsked'
  BY <1>0, <1>2, <1>13 DEF ConsentIsAsked
<1>15. ConsentBeforeCast'
  <2> SUFFICES ASSUME NEW w \in Viewers,
                      viewer[w].phase \in {"casting", "offered", "watching"},
                      session'[viewer[w].session].device,
                      session'[viewer[w].session].key # None
               PROVE  consent[session'[viewer[w].session].key] # "required"
    BY <1>0 DEF ConsentBeforeCast
  <2>1. viewer[w].session \in Sessions
    BY <1>2, References DEF KeyInvariant, ViewerReferences
  <2> QED BY <1>2, <1>13, <2>1 DEF ConsentBeforeCast
<1>16. ListsAreKept'
  <2>1. ASSUME NEW e \in Desktops, NEW w \in Viewers, w \in desktop'[e].left
        PROVE  /\ desktop'[e].session # None
               /\ viewer[w].phase \in {"off", "gone"} \/ CopyNext(desktop'[e].session)
    <3>1. /\ Holds(e) /\ desktop'[e].session = desktop[e].session
          /\ (viewer[w].phase \in {"off", "gone"} \/ HasCopy(desktop[e].session))
      BY <1>2, <1>5, <2>1 DEF ListsAreKept
    <3>2. desktop[e].session \in Sessions
      BY <3>1, UsedObjects
    <3> QED BY <1>6, <3>1, <3>2 DEF Holds
  <2>2. ASSUME NEW w \in Viewers, viewer[w].phase \in Attached
        PROVE  \/ w \in session'[viewer[w].session].viewers
               \/ CopyNext(viewer[w].session)
    <3>1. viewer[w].session \in Sessions
      BY <1>2, <2>2, References DEF KeyInvariant, ViewerReferences, Attached
    <3> QED BY <1>2, <1>6, <2>2, <3>1 DEF ListsAreKept
  <2> QED BY <1>0, <2>1, <2>2 DEF ListsAreKept, Holds, Attached, HasCopy, CopyNext
<1>17. OnlyRecreatedAreAttended'
  BY <1>0, <1>4, AttendedFrame DEF AttendsKept
<1> QED BY <1>7, <1>8, <1>9, <1>10, <1>11, <1>12, <1>14, <1>15, <1>16, <1>17
        DEF SessionInvariant

-----------------------------------------------------------------------------
\* What a viewer does with the object it found: it comes on its list, and will
\* take it for an attended one only if the console did not make it.
LEMMA AttachViewerOutcome ==
  ASSUME SessionInvariant, NEW v \in Viewers, AttachViewer(v)
  PROVE  LET f == viewer[v].found IN
         /\ f \in Sessions
         /\ \A t \in Sessions \ {f}: session'[t] = session[t]
         /\ session'[f].viewers = session[f].viewers \cup {v}
         /\ session'[f].key = session[f].key
         /\ session'[f].desktop = session[f].desktop
         /\ session'[f].signal = session[f].signal
         /\ session'[f].device = session[f].device
         /\ session'[f].disposed = session[f].disposed
         /\ session'[f].requireConsent = session[f].requireConsent
         /\ session'[f].mode = session[f].mode
         /\ \A w \in Viewers \ {v}: viewer'[w] = viewer[w]
         /\ viewer'[v].key = viewer[v].key /\ viewer'[v].session = f
         /\ viewer'[v].phase \in {"idle", "prompting", "casting", "attending"}
         /\ viewer'[v].phase = "casting" => ~session[f].requireConsent
         /\ viewer'[v].attends => ~session[f].device
<1> DEFINE f == viewer[v].found
<1>1. /\ TypeOK /\ KeyInvariant /\ ViewedOnceServed /\ FoundUnderOwnKey
      /\ FreshUntilAssigned /\ ConsentIsAsked /\ OnlyRecreatedAreAttended
      /\ viewer[v].phase = "admitted"
  BY Steady DEF SessionInvariant, AttachViewer
<1>2. /\ f \in Sessions /\ ~Unused(f) /\ session[f] \in SessionRecords
      /\ viewer[v] \in ViewerRecords /\ ~viewer[v].attends
      /\ viewer[v].key \in Keys /\ viewer[v].key # None
  <2>1. /\ f \in Sessions /\ ~Unused(f) /\ viewer[v].key \in Keys
        /\ ~viewer[v].attends
    BY <1>1, References DEF KeyInvariant, ViewerReferences
  <2> QED BY <1>1, <2>1, NoneAssumption DEF TypeOK
\* A viewer's key is served, so an object that bears it is assigned.
<1>3. session[f].mode # "unattended" => ~session[f].device
  <2>1. session[f].mode \in Modes
    BY <1>2 DEF SessionRecords
  <2>2. Served(viewer[v].key)
    BY <1>1, <1>2 DEF ViewedOnceServed
  <2>3. session[f].key \in {viewer[v].key, None}
    BY <1>1 DEF FoundUnderOwnKey, Belongs
  <2>4. session[f].mode = "unknown" => session[f].key = None
    BY <1>1, <1>2, <2>2, <2>3 DEF FreshUntilAssigned
  <2>5. session[f].mode = "unknown" => ~session[f].device
    BY <1>1, <1>2, <2>4 DEF ConsentIsAsked
  <2>6. session[f].mode = "attended" => ~session[f].device
    BY <1>1, <1>2 DEF OnlyRecreatedAreAttended
  <2> QED BY <1>2, <2>1, <2>5, <2>6 DEF Modes, Unused
<1>4. /\ session' = [session EXCEPT ![f].viewers = @ \cup {v}]
      /\ \/ viewer' = [viewer EXCEPT ![v] =
                 [@ EXCEPT !.phase = IF session[f].desktop = None THEN "idle"
                                                             ELSE "prompting",
                           !.prompt = session[f].desktop,
                           !.session = f, !.found = None]]
         \/ /\ ~session[f].requireConsent
            /\ viewer' = [viewer EXCEPT ![v] =
                 [@ EXCEPT !.phase = "casting", !.session = f, !.found = None]]
         \/ /\ session[f].mode # "unattended"
            /\ viewer' = [viewer EXCEPT ![v] =
                 [@ EXCEPT !.phase = "attending", !.attends = TRUE,
                           !.session = f, !.found = None]]
  BY DEF AttachViewer
<1>5. /\ \A t \in Sessions \ {f}: session'[t] = session[t]
      /\ session'[f] = [session[f] EXCEPT !.viewers = @ \cup {v}]
  BY <1>1, <1>2, <1>4 DEF TypeOK
<1>6. /\ \A w \in Viewers \ {v}: viewer'[w] = viewer[w]
      /\ \/ viewer'[v] = [viewer[v] EXCEPT
                            !.phase = IF session[f].desktop = None THEN "idle"
                                                               ELSE "prompting",
                            !.prompt = session[f].desktop,
                            !.session = f, !.found = None]
         \/ /\ ~session[f].requireConsent
            /\ viewer'[v] = [viewer[v] EXCEPT !.phase = "casting", !.session = f,
                                              !.found = None]
         \/ /\ session[f].mode # "unattended"
            /\ viewer'[v] = [viewer[v] EXCEPT !.phase = "attending", !.attends = TRUE,
                                              !.session = f, !.found = None]
  BY <1>1, <1>2, <1>4 DEF TypeOK
<1>7. /\ session'[f].viewers = session[f].viewers \cup {v}
      /\ session'[f].key = session[f].key
      /\ session'[f].desktop = session[f].desktop
      /\ session'[f].signal = session[f].signal
      /\ session'[f].device = session[f].device
      /\ session'[f].disposed = session[f].disposed
      /\ session'[f].requireConsent = session[f].requireConsent
      /\ session'[f].mode = session[f].mode
  BY <1>2, <1>5 DEF SessionRecords
<1>8. /\ viewer'[v].key = viewer[v].key /\ viewer'[v].session = f
      /\ viewer'[v].phase \in {"idle", "prompting", "casting", "attending"}
      /\ viewer'[v].phase = "casting" => ~session[f].requireConsent
      /\ viewer'[v].attends => session[f].mode # "unattended"
  <2>1. CASE viewer'[v] = [viewer[v] EXCEPT
                             !.phase = IF session[f].desktop = None THEN "idle"
                                                                ELSE "prompting",
                             !.prompt = session[f].desktop,
                             !.session = f, !.found = None]
    BY <1>2, <2>1 DEF ViewerRecords
  <2>2. CASE /\ ~session[f].requireConsent
             /\ viewer'[v] = [viewer[v] EXCEPT !.phase = "casting", !.session = f,
                                               !.found = None]
    BY <1>2, <2>2 DEF ViewerRecords
  <2>3. CASE /\ session[f].mode # "unattended"
             /\ viewer'[v] = [viewer[v] EXCEPT !.phase = "attending", !.attends = TRUE,
                                               !.session = f, !.found = None]
    BY <1>2, <2>3 DEF ViewerRecords
  <2> QED BY <1>6, <2>1, <2>2, <2>3
<1> QED BY <1>2, <1>3, <1>5, <1>6, <1>7, <1>8

LEMMA AttachViewerKeepsSessions ==
  ASSUME SessionInvariant, KeyInvariant', NEW v \in Viewers, AttachViewer(v)
  PROVE  SessionInvariant'
<1> DEFINE f == viewer[v].found
           k == viewer[v].key
<1>1. /\ UNCHANGED <<cache, cleaning, signal, request, consent, commands, notices>>
      /\ viewer[v].phase = "admitted"
  BY DEF AttachViewer
<1>2. /\ TypeOK /\ KeyInvariant /\ SignalsAreOwn /\ KeysAreRequested /\ ViewedOnceServed
      /\ FoundUnderOwnKey /\ FreshUntilAssigned /\ DisposedLeave /\ ConsentIsAsked
      /\ ConsentBeforeCast /\ ListsAreKept
  BY Steady DEF SessionInvariant
<1>3. /\ f \in Sessions
      /\ \A t \in Sessions \ {f}: session'[t] = session[t]
      /\ session'[f].viewers = session[f].viewers \cup {v}
      /\ session'[f].key = session[f].key
      /\ session'[f].desktop = session[f].desktop
      /\ session'[f].signal = session[f].signal
      /\ session'[f].device = session[f].device
      /\ session'[f].disposed = session[f].disposed
      /\ session'[f].requireConsent = session[f].requireConsent
      /\ session'[f].mode = session[f].mode
      /\ \A w \in Viewers \ {v}: viewer'[w] = viewer[w]
      /\ viewer'[v].key = viewer[v].key /\ viewer'[v].session = f
      /\ viewer'[v].phase \in {"idle", "prompting", "casting", "attending"}
      /\ viewer'[v].phase = "casting" => ~session[f].requireConsent
      /\ viewer'[v].attends => ~session[f].device
  BY AttachViewerOutcome
<1>4. \A e \in Desktops: /\ desktop'[e].session = desktop[e].session
                         /\ desktop'[e].key = desktop[e].key
                         /\ desktop'[e].viewers = desktop[e].viewers
                         /\ desktop'[e].left = desktop[e].left
                         /\ desktop'[e].phase = desktop[e].phase
  <2>1. desktop' = desktop \/ desktop' = GetScreenCast(session[f].desktop, v)
    BY DEF AttachViewer
  <2>2. TypeOK /\ desktop' \in {desktop, GetScreenCast(session[f].desktop, v)}
    BY <1>2, <2>1
  <2> QED BY ONLY <2>2, GetScreenCastAddsCasts
<1>5. /\ k \in Keys /\ k # None /\ Served(k) /\ Belongs(f, k)
  <2>1. k \in Keys /\ k # None
    BY <1>1, <1>2, NoneAssumption DEF KeyInvariant, ViewerReferences
  <2> QED BY <1>1, <1>2, <2>1 DEF ViewedOnceServed, FoundUnderOwnKey
<1> HIDE DEF f, k
<1>6. \A t \in Sessions: /\ session'[t].key = session[t].key
                         /\ session'[t].signal = session[t].signal
                         /\ session'[t].device = session[t].device
                         /\ session'[t].disposed = session[t].disposed
                         /\ session'[t].desktop = session[t].desktop
                         /\ session'[t].requireConsent = session[t].requireConsent
                         /\ session[t].viewers \subseteq session'[t].viewers
                         /\ session'[t].mode = session[t].mode
                         /\ HasCopy(t) => CopyNext(t)
  BY <1>3 DEF HasCopy, CopyNext
<1>7. SignalsAreOwn'
  <2>1. ASSUME NEW t \in Sessions, session'[t].signal # t
        PROVE  session'[t].mode \in Assigned /\ session'[session'[t].signal].mode \in Assigned
    <3>1. session[t].signal \in Sessions
      BY <1>2, References
    <3> QED BY <1>2, <1>6, <2>1, <3>1 DEF SignalsAreOwn
  <2>2. ASSUME NEW t \in Sessions, session'[t].desktop # None
        PROVE  /\ desktop'[session'[t].desktop].session # None
               /\ session'[desktop'[session'[t].desktop].session].signal = session'[t].signal
    <3>1. /\ session[t].desktop \in Desktops /\ Holds(session[t].desktop)
          /\ session[desktop[session[t].desktop].session].signal = session[t].signal
      BY <1>2, <1>6, <2>2, References DEF SignalsAreOwn
    <3>2. desktop[session[t].desktop].session \in Sessions
      BY <3>1, UsedObjects
    <3> QED BY <1>4, <1>6, <3>1, <3>2 DEF Holds
  <2>3. \A t \in Sessions: session'[t].mode = "unused" =>
           signal'[t] = "reset" /\ ~session'[t].disposed
    BY <1>1, <1>2, <1>6 DEF SignalsAreOwn, Unused
  <2> QED BY <2>1, <2>2, <2>3 DEF SignalsAreOwn, Unused, Holds, Assigned
<1>8. KeysAreRequested'
  <2>1. ASSUME NEW l \in Keys, request[l].phase # "unused"
        PROVE  request[l].session # None /\ session'[request[l].session].mode # "unused"
    <3>1. request[l].session \in Sessions /\ ~Unused(request[l].session)
      BY <1>2, <2>1, References DEF KeysAreRequested
    <3> QED BY <1>6, <3>1, NoneAssumption DEF Unused
  <2>2. ASSUME NEW l \in Keys, request[l].phase = "unused"
        PROVE  /\ cache[l] = None
               /\ \A t \in Sessions: session'[t].key # l
               /\ \A c \in commands: c.key # l
               /\ \A e \in Desktops: desktop'[e].key # l
    BY <1>2, <1>4, <1>6, <2>2 DEF KeysAreRequested
  <2> QED BY <1>1, <2>1, <2>2 DEF KeysAreRequested, Unused
<1>9. ViewedOnceServed'
  <2>1. /\ \A w \in Viewers: viewer'[w].key # None => Served(viewer'[w].key)
        /\ \A n \in notices: Served(n.key)
        /\ \A c \in commands: c.viewers # {} => Served(c.key)
        /\ \A e \in Desktops: desktop'[e].viewers # {} =>
             desktop'[e].key \in Keys /\ Served(desktop'[e].key)
    BY <1>2, <1>3, <1>4 DEF ViewedOnceServed
  <2>2. ASSUME NEW e \in Desktops, desktop'[e].session # None,
               session'[desktop'[e].session].viewers # {}
        PROVE  Served(desktop'[e].key)
    <3>1. CASE desktop[e].session = f
      BY <1>4, <1>5, <3>1 DEF Belongs
    <3>2. CASE desktop[e].session # f
      <4>1. desktop[e].session \in Sessions \ {f}
        BY <1>4, <2>2, <3>2, UsedObjects DEF Holds
      <4>2. Holds(e) /\ session[desktop[e].session].viewers # {}
        BY <1>3, <1>4, <2>2, <4>1 DEF Holds
      <4>3. Served(desktop[e].key)
        BY <1>2, <4>2 DEF ViewedOnceServed
      <4> QED BY <1>4, <4>3
    <3> QED BY <3>1, <3>2
  <2>3. ASSUME NEW l \in Keys, cache[l] # None, session'[cache[l]].viewers # {}
        PROVE  Served(l)
    <3>1. CASE cache[l] = f
      BY <1>5, <3>1 DEF Belongs
    <3>2. CASE cache[l] # f
      <4>1. cache[l] \in Sessions \ {f}
        BY <2>3, <3>2, UsedObjects
      <4> QED BY <1>2, <1>3, <2>3, <4>1 DEF ViewedOnceServed
    <3> QED BY <3>1, <3>2
  <2>4. ASSUME NEW t \in Sessions, session'[t].key # None, session'[t].viewers # {}
        PROVE  Served(session'[t].key)
    <3>1. CASE t = f
      BY <1>5, <1>6, <2>4, <3>1 DEF Belongs
    <3>2. CASE t # f
      BY <1>2, <1>3, <2>4, <3>2 DEF ViewedOnceServed
    <3> QED BY <3>1, <3>2
  <2> QED BY <1>1, <2>1, <2>2, <2>3, <2>4 DEF ViewedOnceServed, Served, Holds
<1>10. FoundUnderOwnKey'
  <2> SUFFICES ASSUME NEW w \in Viewers, viewer'[w].phase \in {"found", "admitted"}
               PROVE  /\ session'[viewer[w].found].key \in {viewer[w].key, None}
                      /\ \A l \in Keys: cache[l] = viewer[w].found => l = viewer[w].key
                      /\ \A e \in Desktops: desktop'[e].session = viewer[w].found =>
                            desktop'[e].key = viewer[w].key
                      /\ viewer'[w] = viewer[w]
    BY <1>1 DEF FoundUnderOwnKey, Belongs
  <2>1. viewer'[w] = viewer[w] /\ viewer[w].phase \in {"found", "admitted"}
    BY <1>3
  <2>2. viewer[w].found \in Sessions
    BY <1>2, <2>1, References DEF KeyInvariant, ViewerReferences
  <2>3. Belongs(viewer[w].found, viewer[w].key)
    BY <1>2, <2>1 DEF FoundUnderOwnKey
  <2> QED BY <1>4, <1>6, <2>1, <2>2, <2>3 DEF Belongs
<1>11. FreshUntilAssigned'
  <2>1. ASSUME NEW t \in Sessions,
               session'[t].mode = "unknown", session'[t].key # None
        PROVE  /\ request[session'[t].key].session = t
               /\ ~Served(session'[t].key)
               /\ signal[t] # "set"
    <3>1. session'[t].key = session[t].key /\ session'[t].mode = session[t].mode
      BY <1>3, <1>6, <2>1
    <3> QED BY <1>2, <2>1, <3>1 DEF FreshUntilAssigned
  <2>2. ASSUME NEW e \in Desktops, desktop'[e].session # None, desktop'[e].phase # "adopting"
        PROVE  session'[desktop'[e].session].mode \in Assigned
    <3>1. Holds(e) /\ desktop[e].session \in Sessions
      BY <1>4, <2>2, UsedObjects DEF Holds
    <3> QED BY <1>2, <1>4, <1>6, <2>2, <3>1 DEF FreshUntilAssigned
  <2>3. \A e \in Desktops, l \in Keys:
          (desktop'[e].session # None /\ desktop'[e].key = l /\ cache[l] = request[l].session)
             => cache[l] \in {None, desktop'[e].session}
    BY <1>2, <1>4 DEF FreshUntilAssigned, Holds
  <2> QED BY <1>1, <2>1, <2>2, <2>3 DEF FreshUntilAssigned, Served, Holds, Assigned
<1>12. DisposedLeave'
  <2>1. ASSUME NEW x \in Sessions, signal[x] = "disposed"
        PROVE  \E t \in Sessions: session'[t].signal = x /\ session'[t].disposed
    BY <1>2, <1>6, <2>1 DEF DisposedLeave
  <2>2. ASSUME NEW l \in Keys, cache[l] # None, session'[cache[l]].disposed
        PROVE  \E t \in Sessions \ {cache[l]}:
                  /\ session'[t].signal = session'[cache[l]].signal
                  /\ session'[t].disposed
    <3>1. cache[l] \in Sessions
      BY <2>2, UsedObjects
    <3>2. PICK t \in Sessions \ {cache[l]}: /\ session[t].signal = session[cache[l]].signal
                                            /\ session[t].disposed
      BY <1>2, <1>6, <2>2, <3>1 DEF DisposedLeave
    <3> QED BY <1>6, <3>1, <3>2
  <2> QED BY <1>1, <1>2, <2>1, <2>2 DEF DisposedLeave
<1>13. ConsentIsAsked'
  BY <1>1, <1>2, <1>6 DEF ConsentIsAsked
<1>14. ConsentBeforeCast'
  <2> SUFFICES ASSUME NEW w \in Viewers,
                      viewer'[w].phase \in {"casting", "offered", "watching"},
                      session'[viewer'[w].session].device,
                      session'[viewer'[w].session].key # None
               PROVE  consent[session'[viewer'[w].session].key] # "required"
    BY <1>1 DEF ConsentBeforeCast
  <2>1. CASE w = v
    <3>1. viewer'[w].session = f /\ session[f].device /\ session[f].key # None
      BY <1>3, <2>1
    <3>2. ~session[f].requireConsent
      BY <1>3, <2>1, <3>1
    <3> QED BY <1>2, <1>3, <3>1, <3>2 DEF ConsentIsAsked
  <2>2. CASE w # v
    <3>1. /\ viewer'[w] = viewer[w] /\ viewer[w].session \in Sessions
      BY <1>2, <1>3, <2>2, References DEF KeyInvariant, ViewerReferences
    <3> QED BY <1>2, <1>6, <3>1 DEF ConsentBeforeCast
  <2> QED BY <2>1, <2>2
<1>15. ListsAreKept'
  <2>1. ASSUME NEW e \in Desktops, NEW w \in Viewers, w \in desktop'[e].left
        PROVE  /\ desktop'[e].session # None
               /\ viewer'[w].phase \in {"off", "gone"} \/ CopyNext(desktop'[e].session)
    <3>1. /\ Holds(e) /\ desktop'[e].session = desktop[e].session
          /\ (viewer[w].phase \in {"off", "gone"} \/ HasCopy(desktop[e].session))
      BY <1>2, <1>4, <2>1 DEF ListsAreKept
    <3>2. desktop[e].session \in Sessions
      BY <3>1, UsedObjects
    <3>3. viewer[w].phase \in {"off", "gone"} => viewer'[w] = viewer[w]
      BY <1>1, <1>3
    <3> QED BY <1>6, <3>1, <3>2, <3>3 DEF Holds
  <2>2. ASSUME NEW w \in Viewers, viewer'[w].phase \in Attached
        PROVE  \/ w \in session'[viewer'[w].session].viewers
               \/ CopyNext(viewer'[w].session)
    <3>1. CASE w = v
      BY <1>3, <3>1
    <3>2. CASE w # v
      <4>1. viewer'[w] = viewer[w] /\ viewer[w].session \in Sessions
        BY <1>2, <1>3, <2>2, <3>2, References DEF KeyInvariant, ViewerReferences, Attached
      <4> QED BY <1>2, <1>6, <2>2, <4>1 DEF ListsAreKept
    <3> QED BY <3>1, <3>2
  <2> QED BY <2>1, <2>2 DEF ListsAreKept, Holds, Attached, HasCopy, CopyNext
<1>16. OnlyRecreatedAreAttended'
  <2>1. OnlyRecreatedAreAttended
    BY DEF SessionInvariant
  <2>2. ASSUME NEW w \in Viewers, viewer'[w].attends
        PROVE  ~session'[viewer'[w].session].device
    <3>1. CASE w = v
      BY <1>3, <2>2, <3>1
    <3>2. CASE w # v
      <4>1. /\ viewer'[w] = viewer[w] /\ viewer[w].session \in Sessions
            /\ viewer[w].attends
        BY <1>2, <1>3, <2>2, <3>2, References DEF KeyInvariant, ViewerReferences
      <4> QED BY <1>6, <2>1, <4>1 DEF OnlyRecreatedAreAttended
    <3> QED BY <3>1, <3>2
  <2> QED BY <1>6, <2>1, <2>2 DEF OnlyRecreatedAreAttended
<1> QED BY <1>7, <1>8, <1>9, <1>10, <1>11, <1>12, <1>13, <1>14, <1>15, <1>16
        DEF SessionInvariant

\* A viewer takes the object it joined for an attended one.
LEMMA TakeForAttendedKeepsSessions ==
  ASSUME SessionInvariant, KeyInvariant', NEW v \in Viewers, TakeForAttended(v)
  PROVE  SessionInvariant'
<1> DEFINE s == viewer[v].session
<1>1. /\ UNCHANGED <<cache, cleaning, signal, request, consent, commands, desktop, notices>>
      /\ viewer[v].attends
      /\ session' = [session EXCEPT ![s].mode = "attended"]
      /\ viewer' = [viewer EXCEPT
                       ![v].phase = IF @ = "attending" THEN "casting" ELSE @,
                       ![v].attends = FALSE]
  BY DEF TakeForAttended
<1>2. /\ TypeOK /\ KeyInvariant /\ SignalsAreOwn /\ KeysAreRequested /\ ViewedOnceServed
      /\ FoundUnderOwnKey /\ FreshUntilAssigned /\ DisposedLeave /\ ConsentIsAsked
      /\ ConsentBeforeCast /\ ListsAreKept /\ OnlyRecreatedAreAttended
  BY Steady DEF SessionInvariant
<1>3. /\ s \in Sessions /\ ~Unused(s) /\ ~session[s].device
      /\ viewer[v].phase \in {"attending", "leaving"}
  <2>1. s # None /\ ~Unused(s) /\ viewer[v].phase \in {"attending", "leaving"}
    BY <1>1, <1>2 DEF KeyInvariant, ViewerReferences
  <2>2. s \in Sessions
    BY <1>2, <2>1, References
  <2> QED BY <1>1, <1>2, <2>1, <2>2 DEF OnlyRecreatedAreAttended
<1>4. /\ \A t \in Sessions \ {s}: session'[t] = session[t]
      /\ session'[s] = [session[s] EXCEPT !.mode = "attended"]
      /\ session[s] \in SessionRecords
      /\ \A w \in Viewers \ {v}: viewer'[w] = viewer[w]
      /\ viewer[v] \in ViewerRecords
      /\ \/ viewer'[v] = [viewer[v] EXCEPT !.phase = "casting", !.attends = FALSE]
         \/ /\ viewer[v].phase = "leaving"
            /\ viewer'[v] = [viewer[v] EXCEPT !.attends = FALSE]
  <2>1. /\ session[s] \in SessionRecords /\ viewer[v] \in ViewerRecords
        /\ \A w \in Viewers \ {v}: viewer'[w] = viewer[w]
        /\ viewer'[v] = [viewer[v] EXCEPT
                            !.phase = IF viewer[v].phase = "attending" THEN "casting"
                                      ELSE viewer[v].phase,
                            !.attends = FALSE]
    BY <1>1, <1>2, <1>3 DEF TypeOK
  <2>2. CASE viewer[v].phase = "attending"
    BY <1>1, <1>2, <1>3, <2>1, <2>2 DEF TypeOK
  <2>3. CASE viewer[v].phase = "leaving"
    <3>1. viewer'[v] = [viewer[v] EXCEPT !.attends = FALSE]
      BY <2>1, <2>3 DEF ViewerRecords
    <3> QED BY <1>1, <1>2, <1>3, <2>1, <2>3, <3>1 DEF TypeOK
  <2> QED BY <1>3, <2>2, <2>3
<1>5. /\ \A t \in Sessions: /\ session'[t].key = session[t].key
                            /\ session'[t].signal = session[t].signal
                            /\ session'[t].device = session[t].device
                            /\ session'[t].disposed = session[t].disposed
                            /\ session'[t].desktop = session[t].desktop
                            /\ session'[t].requireConsent = session[t].requireConsent
                            /\ session'[t].viewers = session[t].viewers
                            /\ t # s => session'[t].mode = session[t].mode
      /\ session'[s].mode = "attended"
  BY <1>3, <1>4 DEF SessionRecords
<1>6. /\ viewer'[v].key = viewer[v].key /\ viewer'[v].session = s
      /\ viewer'[v].found = viewer[v].found
      /\ viewer'[v].phase \in {"casting", "leaving"} /\ ~viewer'[v].attends
      /\ viewer'[v].phase = "casting" => viewer[v].phase = "attending"
  <2>1. viewer[v].phase = "leaving" \/ viewer[v].phase = "attending"
    BY <1>3
  <2>2. CASE viewer'[v] = [viewer[v] EXCEPT !.attends = FALSE] /\ viewer[v].phase = "leaving"
    BY <1>4, <2>2 DEF ViewerRecords
  <2>3. CASE viewer'[v] = [viewer[v] EXCEPT !.phase = "casting", !.attends = FALSE]
             /\ viewer[v].phase = "attending"
    BY <1>4, <2>3 DEF ViewerRecords
  <2>4. viewer[v].phase = "leaving" => viewer'[v] = [viewer[v] EXCEPT !.attends = FALSE]
    <3> SUFFICES ASSUME viewer[v].phase = "leaving"
                 PROVE  viewer'[v] = [viewer[v] EXCEPT !.attends = FALSE]
      OBVIOUS
    <3>1. viewer'[v] = [viewer[v] EXCEPT
                            !.phase = IF viewer[v].phase = "attending" THEN "casting"
                                      ELSE viewer[v].phase,
                            !.attends = FALSE]
      BY <1>1, <1>2 DEF TypeOK
    <3> QED BY <1>4, <3>1 DEF ViewerRecords
  <2> QED BY <1>4, <2>1, <2>2, <2>3, <2>4
<1> HIDE DEF s
<1>7. \A w \in Viewers: /\ viewer'[w].key = viewer[w].key
                        /\ viewer'[w].session = viewer[w].session
                        /\ viewer'[w].found = viewer[w].found
                        /\ w # v => viewer'[w] = viewer[w]
  BY <1>4, <1>6 DEF s
<1>8. \A t \in Sessions: HasCopy(t) => CopyNext(t)
  BY <1>5 DEF HasCopy, CopyNext
<1>9. SignalsAreOwn'
  <2>1. ASSUME NEW t \in Sessions, session'[t].signal # t
        PROVE  session'[t].mode \in Assigned /\ session'[session'[t].signal].mode \in Assigned
    <3>1. session[t].signal \in Sessions
      BY <1>2, References
    <3>2. session[t].mode \in Assigned /\ session[session[t].signal].mode \in Assigned
      BY <1>2, <1>5, <2>1 DEF SignalsAreOwn
    <3> QED BY <1>5, <3>1, <3>2 DEF Assigned
  <2>2. ASSUME NEW t \in Sessions, session'[t].desktop # None
        PROVE  /\ desktop[session'[t].desktop].session # None
               /\ session'[desktop[session'[t].desktop].session].signal = session'[t].signal
    <3>1. /\ session[t].desktop \in Desktops /\ Holds(session[t].desktop)
          /\ session[desktop[session[t].desktop].session].signal = session[t].signal
      BY <1>2, <1>5, <2>2, References DEF SignalsAreOwn
    <3>2. desktop[session[t].desktop].session \in Sessions
      BY <3>1, UsedObjects
    <3> QED BY <1>5, <3>1, <3>2 DEF Holds
  <2>3. ASSUME NEW t \in Sessions, session'[t].mode = "unused"
        PROVE  signal[t] = "reset" /\ ~session'[t].disposed
    <3>1. t # s
      BY <1>5, <2>3
    <3> QED BY <1>2, <1>5, <2>3, <3>1 DEF SignalsAreOwn, Unused
  <2> QED BY <1>1, <2>1, <2>2, <2>3 DEF SignalsAreOwn, Unused, Holds, Assigned
<1>10. KeysAreRequested'
  <2>1. ASSUME NEW l \in Keys, request[l].phase # "unused"
        PROVE  request[l].session # None /\ session'[request[l].session].mode # "unused"
    <3>1. request[l].session \in Sessions /\ ~Unused(request[l].session)
      BY <1>2, <2>1, References DEF KeysAreRequested
    <3> QED BY <1>5, <3>1, NoneAssumption DEF Unused
  <2> QED BY <1>1, <1>2, <1>5, <2>1 DEF KeysAreRequested, Unused
<1>11. ViewedOnceServed'
  <2>1. \A e \in Desktops: Holds(e) => desktop[e].session \in Sessions
    BY UsedObjects
  <2>2. \A l \in Keys: cache[l] # None => cache[l] \in Sessions
    BY UsedObjects
  <2>3. /\ \A w \in Viewers: viewer'[w].key # None => Served(viewer'[w].key)
        /\ \A n \in notices: Served(n.key)
        /\ \A c \in commands: c.viewers # {} => Served(c.key)
        /\ \A e \in Desktops: desktop[e].viewers # {} =>
             desktop[e].key \in Keys /\ Served(desktop[e].key)
    BY <1>2, <1>7 DEF ViewedOnceServed
  <2>4. \A e \in Desktops: desktop[e].session # None =>
          (session'[desktop[e].session].viewers # {} => Served(desktop[e].key))
    BY <1>2, <1>5, <2>1 DEF ViewedOnceServed, Holds
  <2>5. /\ \A l \in Keys: cache[l] # None => (session'[cache[l]].viewers # {} => Served(l))
        /\ \A t \in Sessions: session'[t].key # None =>
              (session'[t].viewers # {} => Served(session'[t].key))
    BY <1>2, <1>5, <2>2 DEF ViewedOnceServed
  <2>6. desktop' = desktop /\ cache' = cache /\ request' = request
        /\ notices' = notices /\ commands' = commands
    BY <1>1
  <2> QED BY <2>3, <2>4, <2>5, <2>6 DEF ViewedOnceServed, Served, Holds
<1>12. FoundUnderOwnKey'
  <2> SUFFICES ASSUME NEW w \in Viewers, viewer'[w].phase \in {"found", "admitted"}
               PROVE  /\ session'[viewer[w].found].key \in {viewer[w].key, None}
                      /\ \A l \in Keys: cache[l] = viewer[w].found => l = viewer[w].key
                      /\ \A e \in Desktops: desktop[e].session = viewer[w].found =>
                            desktop[e].key = viewer[w].key
    <3>1. desktop' = desktop /\ cache' = cache
      BY <1>1
    <3> QED BY <1>7, <3>1 DEF FoundUnderOwnKey, Belongs
  <2>1. viewer[w].phase \in {"found", "admitted"}
    BY <1>6, <1>7
  <2>2. viewer[w].found \in Sessions
    BY <1>2, <2>1, References DEF KeyInvariant, ViewerReferences
  <2>3. Belongs(viewer[w].found, viewer[w].key)
    BY <1>2, <2>1 DEF FoundUnderOwnKey
  <2> QED BY <1>5, <2>2, <2>3 DEF Belongs
<1>13. FreshUntilAssigned'
  <2>1. ASSUME NEW t \in Sessions,
               session'[t].mode = "unknown", session'[t].key # None
        PROVE  /\ request[session'[t].key].session = t
               /\ ~Served(session'[t].key)
               /\ signal[t] # "set"
    <3>1. session'[t].key = session[t].key /\ session[t].mode = "unknown"
      BY <1>5, <2>1
    <3> QED BY <1>2, <2>1, <3>1 DEF FreshUntilAssigned
  <2>2. ASSUME NEW e \in Desktops, desktop[e].session # None, desktop[e].phase # "adopting"
        PROVE  session'[desktop[e].session].mode \in Assigned
    <3>1. Holds(e) /\ desktop[e].session \in Sessions
      BY <2>2, UsedObjects DEF Holds
    <3>2. session[desktop[e].session].mode \in Assigned
      BY <1>2, <2>2, <3>1 DEF FreshUntilAssigned
    <3> QED BY <1>5, <3>1, <3>2 DEF Assigned
  <2>3. \A e \in Desktops, l \in Keys:
          (desktop[e].session # None /\ desktop[e].key = l /\ cache[l] = request[l].session)
             => cache[l] \in {None, desktop[e].session}
    BY <1>2 DEF FreshUntilAssigned, Holds
  <2> QED BY <1>1, <2>1, <2>2, <2>3 DEF FreshUntilAssigned, Served, Holds, Assigned
<1>14. DisposedLeave'
  <2>1. \A l \in Keys: cache[l] # None => cache[l] \in Sessions
    BY UsedObjects
  <2>2. ASSUME NEW l \in Keys, cache[l] # None, session'[cache[l]].disposed
        PROVE  \E t \in Sessions \ {cache[l]}:
                  /\ session'[t].signal = session'[cache[l]].signal
                  /\ session'[t].disposed
    <3>1. PICK t \in Sessions \ {cache[l]}: /\ session[t].signal = session[cache[l]].signal
                                            /\ session[t].disposed
      BY <1>2, <1>5, <2>1, <2>2 DEF DisposedLeave
    <3> QED BY <1>5, <2>1, <2>2, <3>1
  <2>3. ASSUME NEW x \in Sessions, signal[x] = "disposed"
        PROVE  \E t \in Sessions: session'[t].signal = x /\ session'[t].disposed
    BY <1>2, <1>5, <2>3 DEF DisposedLeave
  <2> QED BY <1>1, <1>2, <2>2, <2>3 DEF DisposedLeave
<1>15. ConsentIsAsked'
  BY <1>1, <1>2, <1>5 DEF ConsentIsAsked
<1>16. ConsentBeforeCast'
  <2> SUFFICES ASSUME NEW w \in Viewers,
                      viewer'[w].phase \in {"casting", "offered", "watching"},
                      session'[viewer'[w].session].device,
                      session'[viewer'[w].session].key # None
               PROVE  consent[session'[viewer'[w].session].key] # "required"
    BY <1>1 DEF ConsentBeforeCast
  <2>1. w # v
    BY <1>3, <1>5, <1>6, <1>7
  <2>2. viewer'[w] = viewer[w] /\ viewer[w].session \in Sessions
    BY <1>2, <1>7, <2>1, References DEF KeyInvariant, ViewerReferences
  <2> QED BY <1>2, <1>5, <2>2 DEF ConsentBeforeCast
<1>17. ListsAreKept'
  <2>1. ASSUME NEW e \in Desktops, NEW w \in Viewers, w \in desktop[e].left
        PROVE  /\ desktop[e].session # None
               /\ viewer'[w].phase \in {"off", "gone"} \/ CopyNext(desktop[e].session)
    <3>1. Holds(e) /\ (viewer[w].phase \in {"off", "gone"} \/ HasCopy(desktop[e].session))
      BY <1>2, <2>1 DEF ListsAreKept
    <3>2. desktop[e].session \in Sessions
      BY <3>1, UsedObjects
    <3>3. viewer[w].phase \in {"off", "gone"} => viewer'[w] = viewer[w]
      BY <1>3, <1>7
    <3> QED BY <1>8, <3>1, <3>2, <3>3 DEF Holds
  <2>2. ASSUME NEW w \in Viewers, viewer'[w].phase \in Attached
        PROVE  \/ w \in session'[viewer'[w].session].viewers
               \/ CopyNext(viewer'[w].session)
    <3>1. viewer[w].phase \in Attached
      BY <1>6, <1>7, <2>2 DEF Attached
    <3>2. viewer[w].session \in Sessions /\ viewer'[w].session = viewer[w].session
      BY <1>2, <1>7, <3>1, References DEF KeyInvariant, ViewerReferences, Attached
    <3> QED BY <1>2, <1>5, <1>8, <3>1, <3>2 DEF ListsAreKept
  <2>3. desktop' = desktop
    BY <1>1
  <2> QED BY <2>1, <2>2, <2>3 DEF ListsAreKept, Holds, HasCopy, CopyNext, Attached
<1>18. OnlyRecreatedAreAttended'
  <2>1. ASSUME NEW w \in Viewers, viewer'[w].attends
        PROVE  ~session'[viewer'[w].session].device
    <3>1. w # v /\ viewer'[w] = viewer[w]
      BY <1>6, <1>7, <2>1
    <3>2. viewer[w].session \in Sessions
      BY <1>2, <2>1, <3>1, References DEF KeyInvariant, ViewerReferences
    <3> QED BY <1>2, <1>5, <2>1, <3>1, <3>2 DEF OnlyRecreatedAreAttended
  <2> QED BY <1>2, <1>3, <1>5, <2>1 DEF OnlyRecreatedAreAttended
<1> QED BY <1>9, <1>10, <1>11, <1>12, <1>13, <1>14, <1>15, <1>16, <1>17, <1>18
        DEF SessionInvariant


-----------------------------------------------------------------------------
\* What choosing another Windows session does: the viewer leaves the object s
\* for a copy of it under a new key.
LEMMA ChangeWindowsSessionOutcome ==
  ASSUME SessionInvariant, NEW v \in Viewers, NEW k \in Keys, NEW new \in Sessions,
         ChangeWindowsSession(v, k, new)
  PROVE  LET s == viewer[v].session IN
         /\ s \in Sessions \ {new} /\ Unused(new) /\ request[k].phase = "unused"
         /\ session[s].mode = "unattended" /\ session[s].key \in Keys
         /\ \A t \in Sessions \ {new}:
              /\ session'[t].mode = session[t].mode
              /\ session'[t].key = session[t].key
              /\ session'[t].desktop = session[t].desktop
              /\ session'[t].signal = session[t].signal
              /\ session'[t].device = session[t].device
              /\ session'[t].disposed = session[t].disposed
              /\ session'[t].requireConsent = session[t].requireConsent
              /\ session'[t].viewers \subseteq session[t].viewers
              /\ session[t].viewers \ session'[t].viewers \subseteq {v}
         /\ session'[new].mode = "unattended" /\ session'[new].key = k
         /\ session'[new].viewers = {}
         /\ session'[new].desktop = session[s].desktop
         /\ session'[new].signal = session[s].signal
         /\ session'[new].device = session[s].device
         /\ session'[new].disposed = session[s].disposed
         /\ session'[new].requireConsent = session[s].requireConsent
<1> DEFINE s == viewer[v].session
<1>1. /\ s # None /\ session[s].mode = "unattended"
      /\ request[k].phase = "unused" /\ Unused(new)
  BY DEF ChangeWindowsSession
<1>2. session' = [session EXCEPT ![s].viewers = @ \ {v}, ![new] = CreateNew(s, k)]
  BY DEF ChangeWindowsSession
<1>3. TypeOK /\ KeyInvariant
  BY DEF SessionInvariant, KeyInvariant
<1>4. s \in Sessions
  BY <1>1, <1>3, References
<1>5. s # new /\ session[s] \in SessionRecords
  BY <1>1, <1>3, <1>4 DEF Unused, TypeOK
<1>6. session[s].key \in Keys
  BY <1>1, <1>3, <1>4, References DEF KeyInvariant, KeyedOnceAdopted
<1>7. /\ \A t \in Sessions \ {s, new}: session'[t] = session[t]
      /\ session'[s] = [session[s] EXCEPT !.viewers = @ \ {v}]
      /\ session'[new] = [session[s] EXCEPT !.key = k, !.access = TRUE, !.viewers = {}]
  BY <1>2, <1>3, <1>4, <1>5 DEF TypeOK, CreateNew
<1> HIDE DEF s
<1>8. /\ session'[s].mode = session[s].mode
      /\ session'[s].key = session[s].key
      /\ session'[s].desktop = session[s].desktop
      /\ session'[s].signal = session[s].signal
      /\ session'[s].device = session[s].device
      /\ session'[s].disposed = session[s].disposed
      /\ session'[s].requireConsent = session[s].requireConsent
      /\ session'[s].viewers = session[s].viewers \ {v}
  BY <1>5, <1>7 DEF SessionRecords
<1>9. /\ session'[new].mode = session[s].mode /\ session'[new].key = k
      /\ session'[new].viewers = {}
      /\ session'[new].desktop = session[s].desktop
      /\ session'[new].signal = session[s].signal
      /\ session'[new].device = session[s].device
      /\ session'[new].disposed = session[s].disposed
      /\ session'[new].requireConsent = session[s].requireConsent
  BY <1>5, <1>7 DEF SessionRecords
<1>10. ASSUME NEW t \in Sessions \ {new}
       PROVE  /\ session'[t].mode = session[t].mode
              /\ session'[t].key = session[t].key
              /\ session'[t].desktop = session[t].desktop
              /\ session'[t].signal = session[t].signal
              /\ session'[t].device = session[t].device
              /\ session'[t].disposed = session[t].disposed
              /\ session'[t].requireConsent = session[t].requireConsent
              /\ session'[t].viewers \subseteq session[t].viewers
              /\ session[t].viewers \ session'[t].viewers \subseteq {v}
  <2>1. CASE t = s
    BY <1>8, <2>1
  <2>2. CASE t # s
    <3>1. session'[t] = session[t]
      BY <1>7, <2>2
    <3> QED BY <3>1
  <2> QED BY <2>1, <2>2
<1> QED BY <1>1, <1>4, <1>5, <1>6, <1>9, <1>10 DEF s

\* The process of the session is told that the viewer left.
LEMMA ChangeWindowsSessionDesktops ==
  ASSUME SessionInvariant, NEW v \in Viewers, NEW k \in Keys, NEW new \in Sessions,
         ChangeWindowsSession(v, k, new)
  PROVE  \A e \in Desktops:
           /\ desktop'[e].session = desktop[e].session
           /\ desktop'[e].key = desktop[e].key
           /\ desktop'[e].viewers = desktop[e].viewers
           /\ \/ desktop'[e].left = desktop[e].left
              \/ /\ desktop'[e].left = desktop[e].left \cup {v}
                 /\ e = session[viewer[v].session].desktop /\ Holds(e)
           /\ desktop[e].phase = "adopting" <=> desktop'[e].phase = "adopting"
<1> DEFINE d == session[viewer[v].session].desktop
<1>1. TypeOK /\ KeyInvariant /\ viewer[v].session \in Sessions
  BY ChangeWindowsSessionOutcome DEF SessionInvariant, KeyInvariant
<1>2. desktop' = ViewerDisconnected(d, v)
  BY DEF ChangeWindowsSession
<1>3. CASE Listening(d)
  <2>1. d \in Desktops
    BY <1>1, <1>3, References DEF Listening
  <2>2. Holds(d) /\ desktop[d].phase # "adopting"
    BY <1>3, <2>1, Steady DEF Listening
  <2>3. desktop' = [desktop EXCEPT ![d] = [CastsEnded(d, {v}) EXCEPT !.left = @ \cup {v}]]
    BY <1>2, <1>3 DEF ViewerDisconnected
  <2>4. CastsEnded(d, {v}) \in DesktopRecords
    BY <1>1, <2>1, CastsEndedType DEF TypeOK
  <2>5. /\ CastsEnded(d, {v}).session = desktop[d].session
        /\ CastsEnded(d, {v}).viewers = desktop[d].viewers
        /\ CastsEnded(d, {v}).left = desktop[d].left
        /\ CastsEnded(d, {v}).key = desktop[d].key
        /\ CastsEnded(d, {v}).phase # "adopting"
    <3>1. /\ CastsEnded(d, {v}).session = desktop[d].session
          /\ CastsEnded(d, {v}).viewers = desktop[d].viewers
          /\ CastsEnded(d, {v}).left = desktop[d].left
          /\ CastsEnded(d, {v}).key = desktop[d].key
      BY <1>3, <2>1, CastsEndedAreCalm
    <3>2. desktop[d] \in DesktopRecords
      BY <1>1, <2>1 DEF TypeOK
    <3> HIDE DEF d
    <3>3. CastsEnded(d, {v}).phase \in {"closing", desktop[d].phase}
      BY <3>2 DEF CastsEnded, DesktopRecords
    <3> QED BY <2>2, <3>1, <3>3
  <2> HIDE DEF d
  <2>6. /\ \A e \in Desktops \ {d}: desktop'[e] = desktop[e]
        /\ desktop'[d] = [CastsEnded(d, {v}) EXCEPT !.left = @ \cup {v}]
    BY <1>1, <2>1, <2>3 DEF TypeOK
  <2>7. /\ desktop'[d].session = desktop[d].session
        /\ desktop'[d].key = desktop[d].key
        /\ desktop'[d].viewers = desktop[d].viewers
        /\ desktop'[d].left = desktop[d].left \cup {v}
        /\ desktop'[d].phase # "adopting"
    BY <2>4, <2>5, <2>6 DEF DesktopRecords
  <2> QED BY <2>2, <2>6, <2>7 DEF d
<1>4. CASE ~Listening(d)
  BY <1>2, <1>4 DEF ViewerDisconnected
<1> QED BY <1>3, <1>4

\* A viewer that chooses another Windows session preserves the invariant.
LEMMA ChangeWindowsSessionKeepsSessions ==
  ASSUME SessionInvariant, KeyInvariant', NEW v \in Viewers, NEW k \in Keys,
         NEW new \in Sessions, ChangeWindowsSession(v, k, new)
  PROVE  SessionInvariant'
<1> DEFINE s == viewer[v].session
<1>1. /\ s \in Sessions \ {new} /\ Unused(new) /\ request[k].phase = "unused"
      /\ session[s].mode = "unattended" /\ session[s].key \in Keys
  BY ChangeWindowsSessionOutcome
<1>2. \A t \in Sessions \ {new}:
        /\ session'[t].mode = session[t].mode
        /\ session'[t].key = session[t].key
        /\ session'[t].desktop = session[t].desktop
        /\ session'[t].signal = session[t].signal
        /\ session'[t].device = session[t].device
        /\ session'[t].disposed = session[t].disposed
        /\ session'[t].requireConsent = session[t].requireConsent
        /\ session'[t].viewers \subseteq session[t].viewers
        /\ session[t].viewers \ session'[t].viewers \subseteq {v}
  BY ChangeWindowsSessionOutcome
<1>3. /\ session'[new].mode = "unattended" /\ session'[new].key = k
      /\ session'[new].viewers = {}
      /\ session'[new].desktop = session[s].desktop
      /\ session'[new].signal = session[s].signal
      /\ session'[new].device = session[s].device
      /\ session'[new].disposed = session[s].disposed
      /\ session'[new].requireConsent = session[s].requireConsent
  BY ChangeWindowsSessionOutcome
<1>4. UNCHANGED <<cleaning, signal, notices>>
  BY DEF ChangeWindowsSession
<1>5. /\ TypeOK /\ KeyInvariant /\ SignalsAreOwn /\ KeysAreRequested /\ ViewedOnceServed
      /\ FoundUnderOwnKey /\ FreshUntilAssigned /\ DisposedLeave /\ ConsentIsAsked
      /\ ConsentBeforeCast /\ ListsAreKept
  BY Steady DEF SessionInvariant
<1>6. /\ \A e \in Desktops:
           /\ desktop'[e].session = desktop[e].session
           /\ desktop'[e].key = desktop[e].key
           /\ desktop'[e].viewers = desktop[e].viewers
           /\ \/ desktop'[e].left = desktop[e].left
              \/ /\ desktop'[e].left = desktop[e].left \cup {v}
                 /\ e = session[s].desktop /\ Holds(e)
           /\ desktop[e].phase = "adopting" <=> desktop'[e].phase = "adopting"
  BY ChangeWindowsSessionDesktops
<1>7. /\ cache' = [cache EXCEPT ![k] = new]
      /\ request' = [request EXCEPT ![k] = [phase |-> "cloned", session |-> new,
                                                shown |-> {}]]
      /\ consent' = [consent EXCEPT ![k] = consent[session[s].key]]
      /\ viewer' = [viewer EXCEPT ![v].session = new]
      /\ commands' \subseteq commands \cup {Relaunch(k, TRUE, {v})}
      /\ cleaning = None
  BY DEF ChangeWindowsSession, SendToAgent, Unlocked
<1> HIDE DEF s
<1>8. /\ \A l \in Keys \ {k}: /\ cache'[l] = cache[l] /\ request'[l] = request[l]
                              /\ consent'[l] = consent[l]
      /\ cache'[k] = new /\ request'[k].phase = "cloned" /\ request'[k].session = new
      /\ consent'[k] = consent[session[s].key]
  BY <1>5, <1>7 DEF TypeOK
<1>9. /\ \A w \in Viewers \ {v}: viewer'[w] = viewer[w]
      /\ viewer'[v].phase = viewer[v].phase /\ viewer'[v].session = new
      /\ viewer'[v].key = viewer[v].key /\ ~viewer'[v].attends
      /\ viewer[v].phase \in {"requesting", "casting", "offered", "watching", "idle"}
  <2>1. viewer[v].phase \in {"requesting", "casting", "offered", "watching", "idle"}
    BY DEF ChangeWindowsSession, Interruptible
  <2>2. ~viewer[v].attends
    BY <1>5, <2>1 DEF KeyInvariant, ViewerReferences
  <2> QED BY <1>5, <1>7, <2>1, <2>2 DEF TypeOK, ViewerRecords
<1>10. Relaunch(k, TRUE, {v}).key = k
  BY DEF Relaunch
<1>11. /\ \A l \in Keys: cache[l] # new
       /\ \A l \in Keys: request[l].phase # "unused" => request[l].session # new
       /\ \A d \in Desktops: desktop[d].session # new
       /\ \A w \in Viewers: viewer[w].session # new /\ viewer[w].found # new
       /\ session[new].signal = new /\ signal[new] = "reset" /\ ~session[new].disposed
       /\ \A t \in Sessions: t # new => session[t].signal # new
  BY <1>1, UnusedObject
<1>12. /\ cache[k] = None
       /\ \A t \in Sessions: session[t].key # k
       /\ \A c \in commands: c.key # k
       /\ \A d \in Desktops: desktop[d].key # k
       /\ \A w \in Viewers: viewer[w].key # k
       /\ \A n \in notices: n.key # k
       /\ ~Served(k)
  BY <1>1, UnknownKey
<1>13. new # None /\ k # None /\ session[s].key # k
  BY <1>1, <1>12, NoneAssumption
<1>14. /\ ServedNext(k)
       /\ \A l \in Keys: Served(l) => ServedNext(l)
  BY <1>8, <1>12 DEF Served, ServedNext
\* An object that had a copy has one, and so has one that shares the signal of s.
<1>15. ASSUME NEW t \in Sessions \ {new},
              HasCopy(t) \/ session[t].signal = session[s].signal
       PROVE  CopyNext(t)
  <2>1. CASE HasCopy(t)
    <3>1. PICK u \in Sessions \ {t}: session[u].signal = session[t].signal
      BY <2>1 DEF HasCopy
    <3>2. u # new
      BY <1>11, <3>1
    <3> QED BY <1>2, <3>1, <3>2 DEF CopyNext
  <2>2. CASE session[t].signal = session[s].signal
    BY <1>2, <1>3, <2>2 DEF CopyNext
  <2> QED BY <1>15, <2>1, <2>2
<1>16. SignalsAreOwn'
  <2>1. ASSUME NEW t \in Sessions, session'[t].mode = "unused"
        PROVE  signal'[t] = "reset" /\ ~session'[t].disposed
    <3>1. t \in Sessions \ {new}
      BY <1>3, <2>1
    <3> QED BY <1>2, <1>4, <1>5, <2>1, <3>1 DEF SignalsAreOwn, Unused
  <2>2. ASSUME NEW t \in Sessions, session'[t].signal # t
        PROVE  session'[t].mode \in Assigned /\ session'[session'[t].signal].mode \in Assigned
    <3>1. ASSUME NEW u \in Sessions \ {new}, session[u].mode \in Assigned
          PROVE  /\ session[u].signal \in Sessions \ {new}
                 /\ session[session[u].signal].mode \in Assigned
      BY <1>5, <1>11, <3>1, References DEF SignalsAreOwn
    <3>2. CASE t = new
      BY <1>1, <1>2, <1>3, <3>1, <3>2 DEF Assigned
    <3>3. CASE t # new
      <4>1. session[t].mode \in Assigned
        BY <1>2, <1>5, <2>2, <3>3 DEF SignalsAreOwn
      <4> QED BY <1>2, <3>1, <3>3, <4>1
    <3> QED BY <3>2, <3>3
  <2>3. ASSUME NEW t \in Sessions, session'[t].desktop # None
        PROVE  /\ desktop'[session'[t].desktop].session # None
               /\ session'[desktop'[session'[t].desktop].session].signal = session'[t].signal
    <3>1. ASSUME NEW u \in Sessions \ {new}, session[u].desktop # None
          PROVE  /\ desktop'[session[u].desktop].session # None
                 /\ session'[desktop'[session[u].desktop].session].signal = session[u].signal
      <4> DEFINE e == session[u].desktop
      <4>1. e \in Desktops /\ Holds(e) /\ session[desktop[e].session].signal = session[u].signal
        BY <1>5, <3>1, References DEF SignalsAreOwn
      <4>2. desktop[e].session \in Sessions \ {new} /\ desktop'[e].session = desktop[e].session
        BY <1>6, <1>11, <4>1, UsedObjects
      <4> QED BY <1>2, <4>1, <4>2 DEF Holds
    <3>2. CASE t = new
      BY <1>1, <1>3, <2>3, <3>1, <3>2
    <3>3. CASE t # new
      BY <1>2, <2>3, <3>1, <3>3
    <3> QED BY <3>2, <3>3
  <2> QED BY <2>1, <2>2, <2>3 DEF SignalsAreOwn, Unused, Holds, Assigned
<1>17. KeysAreRequested'
  <2>1. ASSUME NEW l \in Keys, request'[l].phase # "unused"
        PROVE  request'[l].session # None /\ session'[request'[l].session].mode # "unused"
    <3>1. CASE l = k
      BY <1>3, <1>8, <1>13, <3>1
    <3>2. CASE l # k
      <4>1. /\ request'[l] = request[l] /\ request[l].session \in Sessions \ {new}
            /\ ~Unused(request[l].session)
        BY <1>5, <1>8, <1>11, <2>1, <3>2, References DEF KeysAreRequested
      <4> QED BY <1>2, <4>1, NoneAssumption DEF Unused
    <3> QED BY <3>1, <3>2
  <2>2. ASSUME NEW l \in Keys, request'[l].phase = "unused"
        PROVE  /\ cache'[l] = None
               /\ \A t \in Sessions: session'[t].key # l
               /\ \A c \in commands': c.key # l
               /\ \A e \in Desktops: desktop'[e].key # l
    <3>1. l # k /\ request[l].phase = "unused"
      BY <1>8, <2>2
    <3>2. /\ cache[l] = None
          /\ \A t \in Sessions: session[t].key # l
          /\ \A c \in commands: c.key # l
          /\ \A e \in Desktops: desktop[e].key # l
      BY <1>5, <3>1 DEF KeysAreRequested
    <3>3. \A t \in Sessions: session'[t].key # l
      BY <1>2, <1>3, <3>1, <3>2
    <3>4. \A c \in commands': c.key # l
      BY <1>7, <1>10, <3>1, <3>2
    <3> QED BY <1>6, <1>8, <3>1, <3>2, <3>3, <3>4
  <2> QED BY <2>1, <2>2 DEF KeysAreRequested, Unused
<1>18. ViewedOnceServed'
  <2>1. \A w \in Viewers: viewer'[w].key # None => ServedNext(viewer'[w].key)
    <3>1. \A w \in Viewers: viewer'[w].key = viewer[w].key
      BY <1>9
    <3> QED BY <1>5, <1>14, <3>1, References DEF ViewedOnceServed
  <2>2. \A n \in notices: ServedNext(n.key)
    BY <1>5, <1>14, References DEF ViewedOnceServed
  <2>3. \A c \in commands': c.viewers # {} => ServedNext(c.key)
    <3>1. \A c \in commands: c.viewers # {} => ServedNext(c.key)
      BY <1>5, <1>14, References DEF ViewedOnceServed
    <3> QED BY <1>7, <1>10, <1>14, <3>1
  <2>4. \A e \in Desktops: desktop'[e].viewers # {} =>
           desktop'[e].key \in Keys /\ ServedNext(desktop'[e].key)
    BY <1>5, <1>6, <1>14 DEF ViewedOnceServed
  <2>5. ASSUME NEW e \in Desktops, desktop'[e].session # None,
               session'[desktop'[e].session].viewers # {}
        PROVE  ServedNext(desktop'[e].key)
    <3>1. /\ Holds(e) /\ desktop'[e].session = desktop[e].session
          /\ desktop'[e].key = desktop[e].key
      BY <1>6, <2>5 DEF Holds
    <3>2. desktop[e].session \in Sessions \ {new} /\ desktop[e].key \in Keys
      BY <1>11, <3>1, UsedObjects
    <3>3. session[desktop[e].session].viewers # {}
      BY <1>2, <2>5, <3>1, <3>2
    <3> QED BY <1>5, <1>14, <3>1, <3>2, <3>3 DEF ViewedOnceServed
  <2>6. ASSUME NEW l \in Keys, cache'[l] # None, session'[cache'[l]].viewers # {}
        PROVE  ServedNext(l)
    <3>1. l # k /\ cache'[l] = cache[l] /\ cache[l] \in Sessions \ {new}
      BY <1>3, <1>8, <1>11, <2>6, UsedObjects
    <3>2. session[cache[l]].viewers # {}
      BY <1>2, <2>6, <3>1
    <3> QED BY <1>5, <1>14, <2>6, <3>1, <3>2 DEF ViewedOnceServed
  <2>7. ASSUME NEW t \in Sessions, session'[t].key # None, session'[t].viewers # {}
        PROVE  ServedNext(session'[t].key)
    <3>1. t \in Sessions \ {new} /\ session'[t].key = session[t].key
      BY <1>2, <1>3, <2>7
    <3>2. session[t].viewers # {} /\ session[t].key \in Keys
      BY <1>2, <1>5, <2>7, <3>1, References
    <3> QED BY <1>5, <1>14, <2>7, <3>1, <3>2 DEF ViewedOnceServed
  <2> QED BY <1>4, <2>1, <2>2, <2>3, <2>4, <2>5, <2>6, <2>7
          DEF ViewedOnceServed, Served, ServedNext, Holds
<1>19. FoundUnderOwnKey'
  <2> SUFFICES ASSUME NEW w \in Viewers, viewer'[w].phase \in {"found", "admitted"}
               PROVE  /\ session'[viewer'[w].found].key \in {viewer'[w].key, None}
                      /\ \A l \in Keys: cache'[l] = viewer'[w].found => l = viewer'[w].key
                      /\ \A e \in Desktops: desktop'[e].session = viewer'[w].found =>
                            desktop'[e].key = viewer'[w].key
    BY DEF FoundUnderOwnKey, Belongs
  <2>1. w # v /\ viewer'[w] = viewer[w]
    BY <1>9
  <2>2. viewer[w].found \in Sessions \ {new}
    BY <1>5, <1>11, <2>1, References DEF KeyInvariant, ViewerReferences
  <2>3. Belongs(viewer[w].found, viewer[w].key)
    BY <1>5, <2>1 DEF FoundUnderOwnKey
  <2> QED BY <1>2, <1>6, <1>8, <2>1, <2>2, <2>3 DEF Belongs
<1>20. FreshUntilAssigned'
  <2>1. ASSUME NEW t \in Sessions,
               session'[t].mode = "unknown", session'[t].key # None
        PROVE  /\ request'[session'[t].key].session = t
               /\ ~ServedNext(session'[t].key)
               /\ signal[t] # "set"
    <3>1. /\ t \in Sessions \ {new} /\ session'[t].mode = session[t].mode
          /\ session'[t].key = session[t].key
      BY <1>2, <1>3, <2>1
    <3>2. session[t].key \in Keys \ {k}
      BY <1>5, <1>12, <2>1, <3>1, References
    <3>3. /\ session[t].mode = "unknown"
          /\ request[session[t].key].session = t
          /\ ~Served(session[t].key)
          /\ signal[t] # "set"
      BY <1>5, <2>1, <3>1 DEF FreshUntilAssigned
    <3> QED BY <1>8, <3>1, <3>2, <3>3 DEF Served, ServedNext
  <2>2. ASSUME NEW e \in Desktops, desktop'[e].session # None, desktop'[e].phase # "adopting"
        PROVE  session'[desktop'[e].session].mode \in Assigned
    <3>1. Holds(e) /\ desktop[e].phase # "adopting" /\ desktop'[e].session = desktop[e].session
      BY <1>6, <2>2 DEF Holds
    <3>2. desktop[e].session \in Sessions \ {new}
      BY <1>11, <3>1, UsedObjects
    <3> QED BY <1>2, <1>5, <3>1, <3>2 DEF FreshUntilAssigned
  <2>3. ASSUME NEW e \in Desktops, NEW l \in Keys, desktop'[e].session # None,
               desktop'[e].key = l, cache'[l] = request'[l].session
        PROVE  cache'[l] \in {None, desktop'[e].session}
    <3>1. l # k
      BY <1>6, <1>12, <2>3
    <3> QED BY <1>5, <1>6, <1>8, <2>3, <3>1 DEF FreshUntilAssigned, Holds
  <2> QED BY <1>4, <2>1, <2>2, <2>3 DEF FreshUntilAssigned, Served, ServedNext, Holds, Assigned
<1>21. DisposedLeave'
  <2>1. ASSUME NEW x \in Sessions, signal[x] = "disposed"
        PROVE  \E t \in Sessions: session'[t].signal = x /\ session'[t].disposed
    <3>1. PICK t \in Sessions: session[t].signal = x /\ session[t].disposed
      BY <1>5, <2>1 DEF DisposedLeave
    <3>2. t # new
      BY <1>11, <3>1
    <3> QED BY <1>2, <3>1, <3>2
  <2>2. ASSUME NEW l \in Keys, cache'[l] # None, session'[cache'[l]].disposed
        PROVE  \E t \in Sessions \ {cache'[l]}:
                  /\ session'[t].signal = session'[cache'[l]].signal
                  /\ session'[t].disposed
    \* The copy of a disposed object is cached; the object itself shows why.
    <3>1. CASE l = k
      BY <1>1, <1>2, <1>3, <1>8, <2>2, <3>1
    <3>2. CASE l # k
      <4>1. cache'[l] = cache[l] /\ cache[l] \in Sessions \ {new}
        BY <1>8, <1>11, <2>2, <3>2, UsedObjects
      <4>2. PICK t \in Sessions \ {cache[l]}: /\ session[t].signal = session[cache[l]].signal
                                              /\ session[t].disposed
        BY <1>2, <1>5, <2>2, <4>1 DEF DisposedLeave
      <4>3. t # new
        BY <1>11, <4>1, <4>2
      <4> QED BY <1>2, <4>1, <4>2, <4>3
    <3> QED BY <3>1, <3>2
  <2>3. cleaning' = None
    BY <1>4, <1>7
  <2> QED BY <1>4, <2>1, <2>2, <2>3 DEF DisposedLeave
<1>22. ConsentIsAsked'
  <2> SUFFICES ASSUME NEW t \in Sessions, session'[t].device
               PROVE  /\ session'[t].key # None
                      /\ request'[session'[t].key].session = t
                      /\ consent'[session'[t].key] = "required" => session'[t].requireConsent
    BY DEF ConsentIsAsked
  <2>1. CASE t = new
    <3>1. consent[session[s].key] = "required" => session[s].requireConsent
      BY <1>1, <1>3, <1>5, <2>1 DEF ConsentIsAsked
    <3> QED BY <1>3, <1>8, <1>13, <2>1, <3>1
  <2>2. CASE t # new
    <3>1. /\ session'[t].key = session[t].key /\ session[t].key # None
          /\ request[session[t].key].session = t
          /\ consent[session[t].key] = "required" => session'[t].requireConsent
      BY <1>2, <1>5, <2>2 DEF ConsentIsAsked
    <3>2. session[t].key \in Keys \ {k}
      BY <1>5, <1>12, <3>1, References
    <3> QED BY <1>8, <3>1, <3>2
  <2> QED BY <2>1, <2>2
<1>23. ConsentBeforeCast'
  <2> SUFFICES ASSUME NEW w \in Viewers,
                      viewer'[w].phase \in {"casting", "offered", "watching"},
                      session'[viewer'[w].session].device,
                      session'[viewer'[w].session].key # None
               PROVE  consent'[session'[viewer'[w].session].key] # "required"
    BY DEF ConsentBeforeCast
  \* A viewer that is past the check takes the answer along.
  <2>1. CASE w = v
    <3>1. /\ viewer[v].phase \in {"casting", "offered", "watching"}
          /\ viewer'[w].session = new /\ session[s].device
      BY <1>3, <1>9, <2>1
    <3>2. consent[session[s].key] # "required"
      BY <1>1, <1>5, <3>1, NoneAssumption DEF ConsentBeforeCast, s
    <3> QED BY <1>3, <1>8, <3>1, <3>2
  <2>2. CASE w # v
    <3> DEFINE t == viewer[w].session
    <3>1. viewer'[w] = viewer[w]
      BY <1>9, <2>2
    <3>2. t \in Sessions \ {new}
      BY <1>5, <1>11, <3>1, References DEF KeyInvariant, ViewerReferences
    <3>3. /\ session'[t].key = session[t].key /\ session[t].device
          /\ session[t].key \in Keys \ {k}
      BY <1>2, <1>5, <1>12, <3>1, <3>2, References
    <3>4. consent[session[t].key] # "required"
      BY <1>5, <3>1, <3>3, NoneAssumption DEF ConsentBeforeCast
    <3> QED BY <1>8, <3>1, <3>3, <3>4
  <2> QED BY <2>1, <2>2
<1>24. ListsAreKept'
  <2>1. ASSUME NEW e \in Desktops, NEW w \in Viewers, w \in desktop'[e].left
        PROVE  /\ desktop'[e].session # None
               /\ viewer'[w].phase \in {"off", "gone"} \/ CopyNext(desktop'[e].session)
    \* A process is told that v left; v is still there, and its object has a copy.
    <3>1. CASE w \notin desktop[e].left
      <4>1. w = v /\ e = session[s].desktop /\ Holds(e)
        BY <1>6, <2>1, <3>1
      <4>2. session[desktop[e].session].signal = session[s].signal
        BY <1>1, <1>5, <4>1, NoneAssumption DEF SignalsAreOwn
      <4>3. desktop[e].session \in Sessions \ {new}
        BY <1>11, <4>1, UsedObjects
      <4>4. CopyNext(desktop[e].session)
        BY <1>15, <4>2, <4>3
      <4> QED BY <1>6, <4>1, <4>4 DEF Holds
    <3>2. CASE w \in desktop[e].left
      <4>1. viewer[w].phase \in {"off", "gone"} \/ HasCopy(desktop[e].session)
        BY <1>5, <3>2 DEF ListsAreKept
      <4>2. Holds(e) /\ desktop[e].session \in Sessions \ {new}
        BY <1>5, <1>11, <3>2, UsedObjects DEF ListsAreKept
      <4>3. viewer[w].phase \in {"off", "gone"} => w # v
        BY <1>9
      <4>4. \/ viewer'[w].phase \in {"off", "gone"}
            \/ CopyNext(desktop[e].session)
        BY <1>9, <1>15, <4>1, <4>2, <4>3
      <4> QED BY <1>6, <4>2, <4>4 DEF Holds
    <3> QED BY <3>1, <3>2
  <2>2. ASSUME NEW w \in Viewers, viewer'[w].phase \in Attached
        PROVE  \/ w \in session'[viewer'[w].session].viewers
               \/ CopyNext(viewer'[w].session)
    <3>1. CASE w = v
      BY <1>1, <1>2, <1>3, <1>9, <3>1 DEF CopyNext
    <3>2. CASE w # v
      <4>1. viewer'[w] = viewer[w]
        BY <1>9, <3>2
      <4>2. viewer[w].session \in Sessions \ {new}
        BY <1>5, <1>11, <2>2, <4>1, References DEF KeyInvariant, ViewerReferences, Attached
      <4>3. w \in session[viewer[w].session].viewers \/ HasCopy(viewer[w].session)
        BY <1>5, <2>2, <4>1 DEF ListsAreKept
      <4>4. w \in session[viewer[w].session].viewers =>
               w \in session'[viewer[w].session].viewers
        BY <1>2, <3>2, <4>2
      <4> QED BY <1>15, <4>1, <4>2, <4>3, <4>4
    <3> QED BY <3>1, <3>2
  <2> QED BY <2>1, <2>2 DEF ListsAreKept, Attached, Holds, HasCopy, CopyNext
<1>25. OnlyRecreatedAreAttended'
  <2>1. AttendsKept
    BY <1>9 DEF AttendsKept
  <2>2. ASSUME NEW t \in Sessions, session'[t].device
        PROVE  /\ ~Unused(t) => session[t].device
               /\ session'[t].mode = "attended" =>
                    session[t].mode = "attended" /\ session[t].device
    BY <1>1, <1>2, <1>3, <2>2
  <2> QED BY <2>1, <2>2, AttendedFrame
<1> QED BY <1>16, <1>17, <1>18, <1>19, <1>20, <1>21, <1>22, <1>23, <1>24, <1>25
        DEF SessionInvariant

-----------------------------------------------------------------------------
(* The invariant is inductive.                                             *)

\* The invariant holds when the server starts: nothing was constructed.
LEMMA InitSessionInvariant == Init => SessionInvariant
<1> SUFFICES ASSUME Init PROVE SessionInvariant
  OBVIOUS
<1>1. KeyInvariant
  BY InitKeyInvariant
<1>2. \A s \in Sessions:
        LET r == [NewSession(s) EXCEPT !.mode = "unused"] IN
        /\ r.mode = "unused" /\ r.key = None /\ r.signal = s /\ ~r.disposed
        /\ r.viewers = {} /\ r.desktop = None /\ ~r.device
  BY DEF NewSession
<1>3. \A s \in Sessions:
        /\ session[s].mode = "unused" /\ session[s].key = None
        /\ session[s].signal = s /\ ~session[s].disposed
        /\ session[s].viewers = {} /\ session[s].desktop = None /\ ~session[s].device
        /\ signal[s] = "reset"
  BY <1>2 DEF Init
<1>4. /\ \A d \in Desktops: /\ desktop[d].phase = "off" /\ desktop[d].session = None
                            /\ desktop[d].key = None /\ desktop[d].viewers = {}
                            /\ desktop[d].left = {}
      /\ \A v \in Viewers: viewer[v].phase = "off" /\ viewer[v].key = None
                           /\ ~viewer[v].attends
      /\ \A k \in Keys: cache[k] = None /\ request[k].phase = "unused"
      /\ commands = {} /\ notices = {} /\ cleaning = None
  BY DEF Init, NoDesktop, NoViewer
<1>5. \A k \in Keys: k # None
  BY NoneAssumption
<1>6. SignalsAreOwn
  BY <1>3 DEF SignalsAreOwn
<1>7. KeysAreRequested
  BY <1>3, <1>4, <1>5 DEF KeysAreRequested
<1>8. ViewedOnceServed
  BY <1>3, <1>4 DEF ViewedOnceServed, Holds
<1>9. FoundUnderOwnKey
  BY <1>4 DEF FoundUnderOwnKey
<1>10. FreshUntilAssigned
  BY <1>3, <1>4 DEF FreshUntilAssigned, Holds
<1>11. DisposedLeave
  BY <1>3, <1>4 DEF DisposedLeave
<1>12. ConsentIsAsked /\ ConsentBeforeCast
  BY <1>3, <1>4 DEF ConsentIsAsked, ConsentBeforeCast
<1>13. ListsAreKept
  BY <1>4 DEF ListsAreKept, Attached
<1>14. OnlyRecreatedAreAttended
  BY <1>3, <1>4 DEF OnlyRecreatedAreAttended
<1> QED BY <1>1, <1>6, <1>7, <1>8, <1>9, <1>10, <1>11, <1>12, <1>13, <1>14
        DEF SessionInvariant

\* Every step, and a stutter, preserves the invariant.
LEMMA NextKeepsSessionInvariant ==
  ASSUME SessionInvariant, [Next]_vars
  PROVE  SessionInvariant'
<1>1. KeyInvariant'
  BY Steady, NextKeepsKeyInvariant
<1>2. CASE Calm
  BY <1>1, <1>2, CalmKeeps
<1>3. CASE Console
  <2>1. ASSUME NEW k \in Keys, NEW s \in Sessions, NEW enforce \in EnforceAttendedAccess,
               RemoteControl(k, s, enforce)
        PROVE  SessionInvariant'
    BY <1>1, <2>1, RemoteControlKeepsSessions
  <2>2. ASSUME NEW k \in Keys, NEW v \in Viewers, NEW access \in BOOLEAN,
               OpenViewer(k, v) \/ ReopenViewer(k, v, access)
        PROVE  SessionInvariant'
    BY <1>1, <2>2, OpenViewerKeepsSessions
  <2>3. ASSUME NEW k \in Keys, SessionFailedToStart(k)
        PROVE  SessionInvariant'
    BY <1>2, <2>3, SessionFailedToStartIsCalm
  <2> QED BY <1>3, <2>1, <2>2, <2>3 DEF Console
<1>4. CASE Agent
  <2>1. ASSUME NEW c \in commands, LaunchFails(c) PROVE SessionInvariant'
    BY <1>2, <2>1, LaunchFailsIsCalm
  <2>2. ASSUME NEW c \in commands, NEW d \in Desktops, LaunchDesktop(c, d)
        PROVE  SessionInvariant'
    BY <1>1, <2>2, LaunchDesktopKeepsSessions
  <2>3. CASE AgentDisconnects \/ AgentReconnects \/ AgentConnects
    BY <1>2, <2>3, AgentDisconnectsIsCalm, AgentReconnectsIsCalm, AgentConnectsIsCalm
  <2> QED BY <1>4, <2>1, <2>2, <2>3 DEF Agent
<1>5. CASE Desktop
  <2>1. ASSUME NEW d \in Desktops, NEW s \in Sessions, AdoptSession(d, s)
        PROVE  SessionInvariant'
    BY <1>1, <2>1, AdoptCachedKeepsSessions, AdoptNewKeepsSessions
  <2>2. ASSUME NEW d \in Desktops,
               \/ AssignSession(d) \/ NotifyRequesterUnattendedReady(d)
               \/ NotifyViewersRelaunched(d) \/ DesktopExits(d)
               \/ DesktopOnDisconnected(d)
        PROVE  SessionInvariant'
    BY <1>1, <2>2, AssignSessionKeepsSessions, NotifyRequesterUnattendedReadyKeepsSessions,
       NotifyViewersRelaunchedKeepsSessions, DesktopExitsKeepsSessions,
       DesktopOnDisconnectedKeepsSessions
  <2>3. ASSUME NEW d \in Desktops, NEW v \in Viewers, DisconnectViewer(d, v)
        PROVE  SessionInvariant'
    BY <1>1, <2>3, DisconnectViewerKeepsSessions
  <2>4. ASSUME NEW d \in Desktops, NEW v \in Viewers, CastStops(d, v)
        PROVE  SessionInvariant'
    BY <1>2, <2>4, CastStopsIsCalm
  <2>5. ASSUME NEW d \in Desktops,
               \/ CheckTakeover(d)
               \/ NotifySessionChanged(d) \/ NotifySystemShutdown(d)
               \/ IdleTimerElapses(d) \/ DesktopCrashes(d)
        PROVE  SessionInvariant'
    BY <1>2, <2>5, CheckTakeoverIsCalm, NotifySessionChangedIsCalm,
       NotifySystemShutdownIsCalm, IdleTimerElapsesIsCalm, DesktopCrashesIsCalm
  <2> QED BY <1>5, <2>1, <2>2, <2>3, <2>4, <2>5 DEF Desktop
<1>6. CASE Viewer
  <2>1. ASSUME NEW n \in notices, ReceiveNotice(n) PROVE SessionInvariant'
    BY <1>1, <2>1, ReceiveNoticeKeepsSessions
  <2>2. ASSUME NEW v \in Viewers,
               \/ FindSession(v) \/ AttachViewer(v) \/ TakeForAttended(v)
               \/ ConsentGiven(v) \/ ViewerOnDisconnected(v)
        PROVE  SessionInvariant'
    BY <1>1, <2>2, FindSessionKeepsSessions, AttachViewerKeepsSessions,
       TakeForAttendedKeepsSessions, ConsentGivenKeepsSessions,
       ViewerOnDisconnectedKeepsSessions
  <2>3. ASSUME NEW v \in Viewers,
               \/ CheckAccess(v)
               \/ ConsentRefused(v) \/ StreamOffered(v) \/ StreamConnected(v)
               \/ StreamEnds(v) \/ CloseViewer(v)
        PROVE  SessionInvariant'
    BY <1>2, <2>3, CheckAccessIsCalm, ConsentRefusedIsCalm, StreamOfferedIsCalm, StreamConnectedIsCalm,
       StreamEndsIsCalm, CloseViewerIsCalm
  <2>4. ASSUME NEW v \in Viewers, NEW k \in Keys, NEW s \in Sessions,
               ChangeWindowsSession(v, k, s)
        PROVE  SessionInvariant'
    BY <1>1, <2>4, ChangeWindowsSessionKeepsSessions
  <2> QED BY <1>6, <2>1, <2>2, <2>3, <2>4 DEF Viewer
<1>7. CASE Service
  <2>1. ASSUME NEW k \in Keys, FindExpiredSession(k) \/ Reconnect(k)
        PROVE  SessionInvariant'
    BY <1>2, <2>1, FindExpiredSessionIsCalm, ReconnectIsCalm
  <2>2. CASE RemoveExpiredSession
    BY <1>1, <2>2, RemoveExpiredSessionKeepsSessions
  <2> QED BY <1>7, <2>1, <2>2 DEF Service
<1>8. CASE UNCHANGED vars
  BY <1>2, <1>8, StutterIsCalm
<1> QED BY <1>3, <1>4, <1>5, <1>6, <1>7, <1>8 DEF Next

(* The session invariant holds: the signals, the keys, the lists of viewers, *)
(* the consent and the disposal of the session objects agree, whatever the   *)
(* hubs, the services and their crashes do in between.                       *)
THEOREM SessionsAreConsistent == Spec => []SessionInvariant
<1>1. Init => SessionInvariant
  BY InitSessionInvariant
<1>2. SessionInvariant /\ [Next]_vars => SessionInvariant'
  BY NextKeepsSessionInvariant
<1> QED BY <1>1, <1>2, PTL DEF Spec

(* ViewerHub.SendScreenCastRequestToDevice reads a session's mode and later  *)
(* sets it to Attended.  It never takes a session the console made, or a     *)
(* copy of one, for an attended one, however long it waits in between: only  *)
(* one that a desktop process brought into the cache itself.                 *)
THEOREM OnlyRecreatedBecomeAttended == Spec => []OnlyRecreatedAreAttended
<1>1. SessionInvariant => OnlyRecreatedAreAttended
  BY DEF SessionInvariant
<1> QED BY <1>1, SessionsAreConsistent, PTL

(* The ready signal of a cached session is disposed only with a clone of it  *)
(* or with the object it was cloned from: RemoteControlSession.Dispose never *)
(* takes the signal from a session that nobody cloned and that is in use.    *)
THEOREM SignalsAreLostThroughClones == Spec => []SignalLostOnlyThroughClone
<1>1. SessionInvariant => SignalLostOnlyThroughClone
  <2> SUFFICES ASSUME SessionInvariant, NEW k \in Keys, cache[k] # None,
                      signal[session[cache[k]].signal] = "disposed"
               PROVE  \E t \in Sessions \ {cache[k]}:
                         /\ session[t].signal = session[cache[k]].signal
                         /\ session[t].disposed
    BY DEF SignalLostOnlyThroughClone
  <2>1. cache[k] \in Sessions /\ session[cache[k]].signal \in Sessions
    BY UsedObjects, References, Steady
  <2>2. PICK t \in Sessions: session[t].signal = session[cache[k]].signal /\ session[t].disposed
    BY <2>1 DEF SessionInvariant, DisposedLeave
  <2>3. CASE t = cache[k]
    BY <2>2, <2>3 DEF SessionInvariant, DisposedLeave
  <2> QED BY <2>2, <2>3
<1> QED BY <1>1, SessionsAreConsistent, PTL

(* No viewer of a session that the console made, or of a clone of it, gets   *)
(* past the consent check of ViewerHub before a user agreed.                 *)
THEOREM ConsentComesFirst == Spec => []ConsentBeforeCast
<1>1. SessionInvariant => ConsentBeforeCast
  BY DEF SessionInvariant
<1> QED BY <1>1, SessionsAreConsistent, PTL

(* A viewer that is watching is on the ViewerList of its session, unless the *)
(* session was cloned: the reconnector and the cleaner, which look at that   *)
(* list, do not take a session for abandoned that is being watched.          *)
THEOREM WatchersAreOnTheList == Spec => []WatchersAreListed
<1>1. SessionInvariant => WatchersAreListed
  BY DEF SessionInvariant, ListsAreKept, WatchersAreListed, Attached
<1> QED BY <1>1, SessionsAreConsistent, PTL

-----------------------------------------------------------------------------
(* What no step does to a session.                                          *)

InPlace == /\ \A k \in Keys: EntryStands(k)
           /\ \A s \in Sessions: KeyIsKept(s) /\ EndsForGood(s)
           /\ \A v \in Viewers: JoinsOwnSession(v)

\* A step that keeps the keys of the objects and brings no viewer to one.
StaysPut ==
    /\ CacheShrinks
    /\ \A s \in Sessions: /\ session'[s].key = session[s].key
                          /\ session[s].disposed => session'[s].disposed
    /\ \A v \in Viewers: viewer'[v].phase \in Attached => viewer[v].phase \in Attached

\* Such a step leaves the sessions in place.
LEMMA PutIsInPlace ==
  ASSUME StaysPut
  PROVE  InPlace
<1>1. \A s \in Sessions: s # None
  BY NoneAssumption
<1>2. ASSUME NEW s \in Sessions PROVE EndsForGood(s)
  BY <1>1 DEF StaysPut, CacheShrinks, EndsForGood
<1>3. ASSUME NEW s \in Sessions PROVE KeyIsKept(s)
  BY DEF StaysPut, KeyIsKept
<1>4. ASSUME NEW v \in Viewers PROVE JoinsOwnSession(v)
  BY DEF StaysPut, JoinsOwnSession
<1>5. ASSUME NEW k \in Keys PROVE EntryStands(k)
  BY DEF StaysPut, CacheShrinks, EntryStands
<1> QED BY <1>2, <1>3, <1>4, <1>5 DEF InPlace

\* So does a calm one.
LEMMA CalmIsInPlace ==
  ASSUME Calm
  PROVE  InPlace
<1>1. StaysPut
  BY DEF Calm, StaysPut, CacheShrinks
<1> QED BY <1>1, PutIsInPlace

\* A step that takes a new object into use leaves the others in place.
LEMMA NewIsInPlace ==
  ASSUME SessionInvariant, NEW new \in Sessions, Unused(new),
         \A k \in Keys: \/ cache'[k] = cache[k]
                        \/ cache[k] = None /\ cache'[k] = new,
         \A s \in Sessions \ {new}: /\ session'[s].key = session[s].key
                                    /\ session'[s].disposed = session[s].disposed,
         \A v \in Viewers: viewer'[v].phase \in Attached => viewer[v].phase \in Attached
  PROVE  InPlace
<1>1. ~session[new].disposed
  BY UnusedObject
<1>2. ASSUME NEW s \in Sessions PROVE EndsForGood(s)
  BY <1>1 DEF EndsForGood
<1>3. ASSUME NEW s \in Sessions PROVE KeyIsKept(s)
  BY DEF KeyIsKept
<1>4. ASSUME NEW v \in Viewers PROVE JoinsOwnSession(v)
  BY DEF JoinsOwnSession
<1>5. ASSUME NEW k \in Keys PROVE EntryStands(k)
  BY DEF EntryStands
<1> QED BY <1>2, <1>3, <1>4, <1>5 DEF InPlace

\* The console brings a new object.
LEMMA RemoteControlInPlace ==
  ASSUME SessionInvariant, NEW k \in Keys, NEW s \in Sessions, NEW enforce,
         RemoteControl(k, s, enforce)
  PROVE  InPlace
<1>1. TypeOK
  BY Steady
<1>2. /\ Unused(s) /\ viewer' = viewer /\ request[k].phase = "unused"
      /\ cache' = [cache EXCEPT ![k] = s]
      /\ session' = [session EXCEPT ![s] =
                       [NewSession(s) EXCEPT !.key = k, !.device = TRUE,
                          !.agent = TRUE, !.requireConsent = enforce]]
  BY DEF RemoteControl
<1>3. \A t \in Sessions \ {s}: session'[t] = session[t]
  BY <1>1, <1>2 DEF TypeOK
<1>4. \A l \in Keys: \/ cache'[l] = cache[l]
                     \/ cache[l] = None /\ cache'[l] = s
  BY <1>1, <1>2, UnknownKey DEF TypeOK
<1> QED BY <1>2, <1>3, <1>4, NewIsInPlace

\* So does a process that finds no object under its key.
LEMMA AdoptSessionInPlace ==
  ASSUME SessionInvariant, NEW d \in Desktops, NEW s \in Sessions, AdoptSession(d, s)
  PROVE  InPlace
<1>1. TypeOK /\ viewer' = viewer
  BY Steady DEF AdoptSession
<1>2. CASE cache[desktop[d].key] # None
  <2>1. cache' = cache /\ session' = session
    BY <1>2 DEF AdoptSession
  <2>2. StaysPut
    BY <1>1, <2>1 DEF StaysPut, CacheShrinks
  <2> QED BY <2>2, PutIsInPlace
<1>3. CASE cache[desktop[d].key] = None
  <2>1. /\ Unused(s)
        /\ session' = [session EXCEPT ![s] = NewSession(s)]
        /\ cache' = [cache EXCEPT ![desktop[d].key] = s]
    BY <1>3 DEF AdoptSession
  <2>2. \A t \in Sessions \ {s}: session'[t] = session[t]
    BY <1>1, <2>1 DEF TypeOK
  <2>3. \A l \in Keys: \/ cache'[l] = cache[l]
                       \/ cache[l] = None /\ cache'[l] = s
    BY <1>1, <1>3, <2>1 DEF TypeOK
  <2> QED BY <1>1, <2>1, <2>2, <2>3, NewIsInPlace
<1> QED BY <1>2, <1>3

\* A process that assigns itself to an object gives it the key it is cached
\* under: its own, if the object has one.
LEMMA AssignSessionInPlace ==
  ASSUME SessionInvariant, NEW d \in Desktops, AssignSession(d)
  PROVE  InPlace
<1> DEFINE s == desktop[d].session
<1>1. /\ desktop[d].phase = "adopting" /\ cache' = cache /\ viewer' = viewer
      /\ session' = [session EXCEPT ![s].mode = "unattended",
                                    ![s].desktop = d,
                                    ![s].key = desktop[d].key,
                                    ![s].access = desktop[d].access]
  BY DEF AssignSession
<1>2. TypeOK /\ KeyInvariant
  BY Steady
<1>3. s \in Sessions /\ session[s].key \in {desktop[d].key, None}
  BY <1>1, <1>2, References DEF KeyInvariant, ObjectReferences, OneKeyPerObject, Holds
<1>4. /\ \A t \in Sessions \ {s}: session'[t] = session[t]
      /\ session'[s].key = desktop[d].key
      /\ session'[s].disposed = session[s].disposed
  BY <1>1, <1>2, <1>3 DEF TypeOK, SessionRecords
<1>5. ASSUME NEW t \in Sessions PROVE KeyIsKept(t) /\ EndsForGood(t)
  BY <1>1, <1>3, <1>4 DEF KeyIsKept, EndsForGood
<1>6. ASSUME NEW v \in Viewers PROVE JoinsOwnSession(v)
  BY <1>1 DEF JoinsOwnSession
<1> QED BY <1>1, <1>5, <1>6 DEF InPlace, EntryStands

\* A process that registers, calls back for a viewer or exits.
LEMMA DesktopStepsInPlace ==
  ASSUME SessionInvariant, NEW d \in Desktops,
         \/ NotifyRequesterUnattendedReady(d) \/ NotifyViewersRelaunched(d)
         \/ \E v \in Viewers: DisconnectViewer(d, v)
         \/ DesktopExits(d)
  PROVE  InPlace
<1> SUFFICES StaysPut
  BY PutIsInPlace
<1>1. TypeOK
  BY Steady
<1>2. CASE NotifyRequesterUnattendedReady(d)
  BY <1>2 DEF NotifyRequesterUnattendedReady, StaysPut, CacheShrinks
<1>3. CASE NotifyViewersRelaunched(d)
  BY <1>1, <1>3
     DEF NotifyViewersRelaunched, StaysPut, CacheShrinks, TypeOK, SessionRecords
<1>4. CASE \E v \in Viewers: DisconnectViewer(d, v)
  BY <1>1, <1>4
     DEF DisconnectViewer, StaysPut, CacheShrinks, TypeOK, SessionRecords
<1>5. CASE DesktopExits(d)
  <2>1. PICK told:
          /\ session' = [session EXCEPT ![desktop[d].session].viewers = @ \ told]
          /\ viewer' = [v \in Viewers |->
                          IF v \in told /\ Stoppable(v)
                          THEN [viewer[v] EXCEPT !.phase = "leaving"]
                          ELSE viewer[v]]
          /\ cache' = cache
    BY <1>5 DEF DesktopExits
  <2>2. \A v \in Viewers: viewer'[v] = viewer[v] \/ viewer'[v].phase = "leaving"
    BY <1>1, <2>1 DEF TypeOK, ViewerRecords
  <2>3. \A s \in Sessions: /\ session'[s].key = session[s].key
                           /\ session'[s].disposed = session[s].disposed
    BY <1>1, <2>1 DEF TypeOK, SessionRecords
  <2> QED BY <2>1, <2>2, <2>3 DEF StaysPut, CacheShrinks, Attached
<1> QED BY <1>2, <1>3, <1>4, <1>5

\* The end of a process: OnDisconnectedAsync removes and disposes.
LEMMA DesktopOnDisconnectedInPlace ==
  ASSUME SessionInvariant, NEW d \in Desktops, DesktopOnDisconnected(d)
  PROVE  InPlace
<1>1. TypeOK /\ KeyInvariant
  BY Steady
<1>2. CacheShrinks
  BY DesktopOnDisconnectedOutcome DEF CacheShrinks
<1>3. \A s \in Sessions: /\ session'[s].key = session[s].key
                         /\ session[s].disposed => session'[s].disposed
  <2>1. \A s \in Sessions: Alike(session'[s], session[s])
    BY DesktopOnDisconnectedOutcome
  <2>2. \A s \in Sessions: session[s].disposed => session'[s].disposed
    BY DesktopOnDisconnectedOutcome
  <2> QED BY <2>1, <2>2 DEF Alike
<1>4. ASSUME NEW v \in Viewers, viewer'[v].phase \in Attached
      PROVE  viewer[v].phase \in Attached
  <2> DEFINE r == FailPrompts(d)[v]
  <2>1. r = IF viewer[v].prompt = d THEN Answered(v, "idle") ELSE viewer[v]
    BY DEF FailPrompts
  <2>2. viewer[v] \in ViewerRecords
    BY <1>1 DEF TypeOK
  <2>3. Answered(v, "idle").phase \in {"idle", "off", viewer[v].phase}
    BY <2>2 DEF Answered, NoViewer, ViewerRecords
  <2>4. r \in ViewerRecords
    <3>1. Answered(v, "idle") \in ViewerRecords
      BY <1>1, AnsweredType DEF ViewerPhases
    <3> QED BY <2>1, <2>2, <3>1
  <2>5. LET vs == session[desktop[d].session].viewers IN
        viewer' = FailPrompts(d) \/ viewer' = ScreenCasterDisconnected(vs, FailPrompts(d))
    BY DEF DesktopOnDisconnected, AttendedEnds, UnattendedEnds
  <2>6. viewer'[v] = r \/ viewer'[v] = [r EXCEPT !.phase = "leaving"]
    BY <2>5 DEF ScreenCasterDisconnected
  <2> HIDE DEF r
  <2>7. viewer'[v].phase \in {"leaving", r.phase}
    BY <2>4, <2>6 DEF ViewerRecords
  <2> QED BY <1>4, <2>1, <2>3, <2>7 DEF Attached
<1>5. StaysPut
  BY <1>2, <1>3, <1>4 DEF StaysPut
<1> QED BY <1>5, PutIsInPlace

\* A viewer comes to the object it found: one of its key.
LEMMA AttachViewerInPlace ==
  ASSUME SessionInvariant, NEW v \in Viewers, AttachViewer(v)
  PROVE  InPlace
<1> DEFINE f == viewer[v].found
<1>1. /\ f \in Sessions
      /\ \A t \in Sessions \ {f}: session'[t] = session[t]
      /\ session'[f].key = session[f].key
      /\ session'[f].disposed = session[f].disposed
      /\ \A w \in Viewers \ {v}: viewer'[w] = viewer[w]
      /\ viewer'[v].session = f
  BY AttachViewerOutcome
<1>2. cache' = cache /\ viewer[v].phase = "admitted"
  BY DEF AttachViewer
<1>3. session[f].key \in {viewer[v].key, None}
  BY <1>2 DEF SessionInvariant, FoundUnderOwnKey, Belongs
<1>4. ASSUME NEW s \in Sessions PROVE KeyIsKept(s) /\ EndsForGood(s)
  BY <1>1, <1>2 DEF KeyIsKept, EndsForGood
<1>5. ASSUME NEW w \in Viewers PROVE JoinsOwnSession(w)
  BY <1>1, <1>3 DEF JoinsOwnSession
<1> QED BY <1>2, <1>4, <1>5 DEF InPlace, EntryStands

\* A viewer that joins nothing.
LEMMA ViewerStepsInPlace ==
  ASSUME SessionInvariant, NEW v \in Viewers,
         \/ \E k \in Keys, access \in BOOLEAN: OpenViewer(k, v) \/ ReopenViewer(k, v, access)
         \/ FindSession(v)
         \/ TakeForAttended(v)
         \/ ConsentGiven(v)
         \/ ViewerOnDisconnected(v)
         \/ \E n \in notices: n.viewer = v /\ ReceiveNotice(n)
  PROVE  InPlace
<1> SUFFICES StaysPut
  BY PutIsInPlace
<1>1. TypeOK
  BY Steady
<1>2. CASE \E k \in Keys, access \in BOOLEAN: OpenViewer(k, v) \/ ReopenViewer(k, v, access)
  <2>1. \E k, a: /\ cache' = cache /\ session' = session
                 /\ viewer' = [viewer EXCEPT ![v].phase = "requesting", ![v].key = k,
                                             ![v].access = a]
    BY <1>2 DEF OpenViewer, ReopenViewer
  <2>2. \A w \in Viewers: viewer'[w] = viewer[w] \/ viewer'[w].phase = "requesting"
    BY <1>1, <2>1 DEF TypeOK, ViewerRecords
  <2> QED BY <2>1, <2>2 DEF StaysPut, CacheShrinks, Attached
<1>3. CASE FindSession(v)
  <2>1. \A w \in Viewers: viewer'[w] = viewer[w] \/ viewer'[w].phase \in {"leaving", "found"}
    BY <1>1, <1>3 DEF FindSession, TypeOK, ViewerRecords
  <2> QED BY <1>3, <2>1 DEF FindSession, StaysPut, CacheShrinks, Attached
<1>4. CASE ConsentGiven(v)
  <2>1. /\ cache' = cache
        /\ session' = [session EXCEPT ![viewer[v].session].requireConsent = FALSE]
        /\ viewer' = [viewer EXCEPT ![v] = Answered(v, "casting")]
    BY <1>4 DEF ConsentGiven
  <2>2. Answered(v, "casting").phase \in Attached => viewer[v].phase \in Attached
    BY <1>1 DEF Answered, NoViewer, TypeOK, ViewerRecords, Attached
  <2>3. \A w \in Viewers: viewer'[w].phase \in Attached => viewer[w].phase \in Attached
    BY <1>1, <2>1, <2>2 DEF TypeOK
  <2>4. \A s \in Sessions: /\ session'[s].key = session[s].key
                           /\ session'[s].disposed = session[s].disposed
    BY <1>1, <2>1 DEF TypeOK, SessionRecords
  <2> QED BY <2>1, <2>3, <2>4 DEF StaysPut, CacheShrinks
<1>5. CASE ViewerOnDisconnected(v)
  <2>1. /\ cache' = cache /\ viewer[v].phase = "leaving"
        /\ \/ session' = session
           \/ session' = [session EXCEPT ![viewer[v].session].viewers = @ \ {v}]
        /\ viewer' = [viewer EXCEPT ![v] =
                        IF @.prompt = None THEN NoViewer ELSE [@ EXCEPT !.phase = "gone"]]
    BY <1>5 DEF ViewerOnDisconnected
  <2>2. \A w \in Viewers: viewer'[w] = viewer[w] \/ viewer'[w].phase \in {"off", "gone"}
    BY <1>1, <2>1 DEF TypeOK, ViewerRecords, NoViewer
  <2>3. \A s \in Sessions: /\ session'[s].key = session[s].key
                           /\ session'[s].disposed = session[s].disposed
    BY <1>1, <2>1 DEF TypeOK, SessionRecords
  <2> QED BY <2>1, <2>2, <2>3 DEF StaysPut, CacheShrinks, Attached
<1>6. CASE \E n \in notices: n.viewer = v /\ ReceiveNotice(n)
  <2>1. PICK n \in notices:
          viewer' = [viewer EXCEPT ![v].phase = "requesting", ![v].key = n.key,
                                   ![v].access = n.access]
    BY <1>6 DEF ReceiveNotice
  <2>2. ASSUME NEW w \in Viewers
        PROVE  viewer'[w] = viewer[w] \/ viewer'[w].phase = "requesting"
    <3>1. viewer[v] \in ViewerRecords /\ viewer \in [Viewers -> ViewerRecords]
      BY <1>1 DEF TypeOK
    <3>2. viewer'[v] = [viewer[v] EXCEPT !.phase = "requesting", !.key = n.key,
                                         !.access = n.access]
      BY <2>1, <3>1
    <3>3. CASE w = v
      BY <3>1, <3>2, <3>3 DEF ViewerRecords
    <3>4. CASE w # v
      BY <2>1, <3>1, <3>4
    <3> QED BY <3>3, <3>4
  <2> QED BY <1>6, <2>2 DEF ReceiveNotice, StaysPut, CacheShrinks, Attached
<1>7. CASE TakeForAttended(v)
  <2>1. /\ cache' = cache /\ viewer[v].attends
        /\ session' = [session EXCEPT ![viewer[v].session].mode = "attended"]
        /\ viewer' = [viewer EXCEPT
                         ![v].phase = IF @ = "attending" THEN "casting" ELSE @,
                         ![v].attends = FALSE]
    BY <1>7 DEF TakeForAttended
  <2>2. /\ \A w \in Viewers \ {v}: viewer'[w] = viewer[w]
        /\ viewer'[v].phase = IF viewer[v].phase = "attending" THEN "casting"
                              ELSE viewer[v].phase
    BY <1>1, <2>1 DEF TypeOK, ViewerRecords
  <2>3. \A w \in Viewers: viewer'[w].phase \in Attached => viewer[w].phase \in Attached
    BY <2>2 DEF Attached
  <2>4. \A s \in Sessions: /\ session'[s].key = session[s].key
                           /\ session'[s].disposed = session[s].disposed
    BY <1>1, <2>1 DEF TypeOK, SessionRecords
  <2> QED BY <2>1, <2>3, <2>4 DEF StaysPut, CacheShrinks
<1> QED BY <1>2, <1>3, <1>4, <1>5, <1>6, <1>7

\* A viewer leaves its object for a copy, which is new.
LEMMA ChangeWindowsSessionInPlace ==
  ASSUME SessionInvariant, NEW v \in Viewers, NEW k \in Keys, NEW new \in Sessions,
         ChangeWindowsSession(v, k, new)
  PROVE  InPlace
<1>1. TypeOK
  BY Steady
<1>2. /\ Unused(new) /\ request[k].phase = "unused"
      /\ \A t \in Sessions \ {new}: /\ session'[t].key = session[t].key
                                    /\ session'[t].disposed = session[t].disposed
  BY ChangeWindowsSessionOutcome
<1>3. /\ cache' = [cache EXCEPT ![k] = new]
      /\ viewer' = [viewer EXCEPT ![v].session = new]
  BY DEF ChangeWindowsSession
<1>4. \A l \in Keys: \/ cache'[l] = cache[l]
                     \/ cache[l] = None /\ cache'[l] = new
  BY <1>1, <1>2, <1>3, UnknownKey DEF TypeOK
<1>5. \A w \in Viewers: viewer'[w].phase = viewer[w].phase
  BY <1>1, <1>3 DEF TypeOK, ViewerRecords
<1> QED BY <1>2, <1>4, <1>5, NewIsInPlace

\* The cleaner.
LEMMA RemoveExpiredSessionInPlace ==
  ASSUME SessionInvariant, RemoveExpiredSession
  PROVE  InPlace
<1>1. TypeOK
  BY Steady
<1>2. /\ cleaning \in Keys /\ viewer' = viewer
      /\ cache' = [cache EXCEPT ![cleaning] = None]
      /\ session' = [session EXCEPT ![cache[cleaning]].disposed = TRUE]
  BY <1>1 DEF RemoveExpiredSession, Disposed, TypeOK
<1>3. CacheShrinks
  BY <1>1, <1>2 DEF CacheShrinks, TypeOK
<1>4. \A s \in Sessions: /\ session'[s].key = session[s].key
                         /\ session[s].disposed => session'[s].disposed
  BY <1>1, <1>2 DEF TypeOK, SessionRecords
<1>5. StaysPut
  BY <1>2, <1>3, <1>4 DEF StaysPut
<1> QED BY <1>5, PutIsInPlace

\* Every step.
LEMMA NextIsInPlace ==
  ASSUME SessionInvariant, [Next]_vars
  PROVE  InPlace
<1>1. CASE Console
  <2>1. ASSUME NEW k \in Keys, NEW s \in Sessions, NEW enforce \in EnforceAttendedAccess,
               RemoteControl(k, s, enforce)
        PROVE  InPlace
    BY <2>1, RemoteControlInPlace
  <2>2. ASSUME NEW k \in Keys, NEW v \in Viewers, NEW access \in BOOLEAN,
               OpenViewer(k, v) \/ ReopenViewer(k, v, access)
        PROVE  InPlace
    BY <2>2, ViewerStepsInPlace
  <2>3. ASSUME NEW k \in Keys, SessionFailedToStart(k)
        PROVE  InPlace
    BY <2>3, SessionFailedToStartIsCalm, CalmIsInPlace
  <2> QED BY <1>1, <2>1, <2>2, <2>3 DEF Console
<1>2. CASE Agent
  <2>1. ASSUME NEW c \in commands, LaunchFails(c) PROVE InPlace
    BY <2>1, LaunchFailsIsCalm, CalmIsInPlace
  <2>2. ASSUME NEW c \in commands, NEW d \in Desktops, LaunchDesktop(c, d)
        PROVE  InPlace
    <3>1. StaysPut
      BY <2>2 DEF LaunchDesktop, StaysPut, CacheShrinks
    <3> QED BY <3>1, PutIsInPlace
  <2>3. CASE AgentDisconnects \/ AgentReconnects \/ AgentConnects
    BY <2>3, AgentDisconnectsIsCalm, AgentReconnectsIsCalm, AgentConnectsIsCalm,
       CalmIsInPlace
  <2> QED BY <1>2, <2>1, <2>2, <2>3 DEF Agent
<1>3. CASE Desktop
  <2>1. ASSUME NEW d \in Desktops, NEW s \in Sessions, AdoptSession(d, s)
        PROVE  InPlace
    BY <2>1, AdoptSessionInPlace
  <2>2. ASSUME NEW d \in Desktops, AssignSession(d) PROVE InPlace
    BY <2>2, AssignSessionInPlace
  <2>3. ASSUME NEW d \in Desktops,
               \/ NotifyRequesterUnattendedReady(d) \/ NotifyViewersRelaunched(d)
               \/ \E v \in Viewers: DisconnectViewer(d, v)
               \/ DesktopExits(d)
        PROVE  InPlace
    BY <2>3, DesktopStepsInPlace
  <2>4. ASSUME NEW d \in Desktops, NEW v \in Viewers, CastStops(d, v)
        PROVE  InPlace
    BY <2>4, CastStopsIsCalm, CalmIsInPlace
  <2>5. ASSUME NEW d \in Desktops,
               \/ CheckTakeover(d)
               \/ NotifySessionChanged(d) \/ NotifySystemShutdown(d)
               \/ IdleTimerElapses(d) \/ DesktopCrashes(d)
        PROVE  InPlace
    BY <2>5, CheckTakeoverIsCalm, NotifySessionChangedIsCalm, NotifySystemShutdownIsCalm,
       IdleTimerElapsesIsCalm, DesktopCrashesIsCalm, CalmIsInPlace
  <2>6. ASSUME NEW d \in Desktops, DesktopOnDisconnected(d) PROVE InPlace
    BY <2>6, DesktopOnDisconnectedInPlace
  <2> QED BY <1>3, <2>1, <2>2, <2>3, <2>4, <2>5, <2>6 DEF Desktop
<1>4. CASE Viewer
  <2>1. ASSUME NEW n \in notices, ReceiveNotice(n) PROVE InPlace
    <3>1. n.viewer \in Viewers
      BY Steady DEF TypeOK
    <3> QED BY <2>1, <3>1, ViewerStepsInPlace
  <2>2. ASSUME NEW v \in Viewers,
               \/ FindSession(v) \/ TakeForAttended(v) \/ ConsentGiven(v)
               \/ ViewerOnDisconnected(v)
        PROVE  InPlace
    BY <2>2, ViewerStepsInPlace
  <2>3. ASSUME NEW v \in Viewers, AttachViewer(v) PROVE InPlace
    BY <2>3, AttachViewerInPlace
  <2>4. ASSUME NEW v \in Viewers,
               \/ CheckAccess(v)
               \/ ConsentRefused(v) \/ StreamOffered(v) \/ StreamConnected(v)
               \/ StreamEnds(v) \/ CloseViewer(v)
        PROVE  InPlace
    BY <2>4, CheckAccessIsCalm, ConsentRefusedIsCalm, StreamOfferedIsCalm, StreamConnectedIsCalm,
       StreamEndsIsCalm, CloseViewerIsCalm, CalmIsInPlace
  <2>5. ASSUME NEW v \in Viewers, NEW k \in Keys, NEW s \in Sessions,
               ChangeWindowsSession(v, k, s)
        PROVE  InPlace
    BY <2>5, ChangeWindowsSessionInPlace
  <2> QED BY <1>4, <2>1, <2>2, <2>3, <2>4, <2>5 DEF Viewer
<1>5. CASE Service
  <2>1. ASSUME NEW k \in Keys, FindExpiredSession(k) \/ Reconnect(k)
        PROVE  InPlace
    BY <2>1, FindExpiredSessionIsCalm, ReconnectIsCalm, CalmIsInPlace
  <2>2. CASE RemoveExpiredSession
    BY <2>2, RemoveExpiredSessionInPlace
  <2> QED BY <1>5, <2>1, <2>2 DEF Service
<1>6. CASE UNCHANGED vars
  BY <1>6, StutterIsCalm, CalmIsInPlace
<1> QED BY <1>1, <1>2, <1>3, <1>4, <1>5, <1>6 DEF Next

(* No step of the hubs and services replaces a session object that is        *)
(* cached, gives one in use another key, revives one that was disposed or    *)
(* removed from the cache, or lets a viewer join the session of another key. *)
THEOREM SessionsStayInPlace == Spec => SessionsKeepTheirPlace
<1>1. SessionInvariant /\ [Next]_vars =>
        [/\ \A k \in Keys: EntryStands(k)
         /\ \A s \in Sessions: KeyIsKept(s) /\ EndsForGood(s)
         /\ \A v \in Viewers: JoinsOwnSession(v)]_vars
  BY NextIsInPlace DEF InPlace
<1> QED BY <1>1, SessionsAreConsistent, PTL DEF Spec, SessionsKeepTheirPlace
=============================================================================
