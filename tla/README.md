# A TLA+ model of the remote desktop server

The repository is a remote support system.  *Agents* run as services on the
managed devices and keep a SignalR connection to the *server*; technicians work
in a Blazor *console* served by it; a *desktop* process, launched by the agent
on demand, captures the screen; a *viewer* page in a browser shows it.  All of
them meet in the server's hubs, which share in-memory objects almost without
locks.  This directory models the parts of that protocol whose order of events
matters, checks them with TLC and proves what holds for every instance with
TLAPS.

## The system

| part | state it keeps | operations | talks to |
|---|---|---|---|
| session cache (`RemoteControlSessionCache`, `RemoteControlSession`) | a dictionary under a lock, session objects outside it, a ready signal per object | `GetOrAdd`, `AddOrUpdate`, `TryGetValue`, `TryRemove`, `RemoveExpiredSessions`, `CreateNew`, `Dispose` | both hubs, console, services |
| cleaner, reconnector | none | once a minute / ten seconds | session cache, agent hub |
| console (`CircuitConnection`, `DeviceCard`, `RemoteControlController`) | the pending request | `RemoteControl`, wait for the ready signal, open the viewer page | agent cache, session cache, agent hub |
| agent hub and `AgentHubSessionCache` | two dictionaries: by connection, by device; a `Device` per connection | `DeviceCameOnline`, `DeviceHeartbeat`, `OnDisconnectedAsync`, checks for pending sessions and scripts | database, console, agents |
| agent (`AgentHubConnection`, `AppLauncher*`) | its connection, a heartbeat timer | connect, reconnect, heartbeat, launch and relaunch a desktop | agent hub |
| desktop process (`DesktopHubConnection`, `ScreenCaster`, `AppState`, `IdleTimer`) | its session id, the viewers it casts to | register, cast, report session changes and lost viewers, shut down | desktop hub |
| `DesktopHub`, `ViewerHub` | per connection the session object it holds | see the map of `RemoteControlSessions` | session cache, each other's clients |
| stream rendezvous (`DesktopStreamCache`, `StreamSignaler`) | a signaler with two semaphores per stream id | `GetOrAdd`, `WaitForStreamSession`, `TryRemove` | both hubs |
| viewer page (`ViewerHubConnection`, `CaptureProcessor`, `UI`) | its connection, the casts it asked for, a status, which of two screens it shows | connect, ask for a cast, obey notices, join chunks to frames and draw them | viewer hub |
| viewer input (`InputEventHandlers`, `MessageSender`) | what fingers, mouse and keyboard are doing | a handler per browser event, most of which await the hub's answer | viewer hub, desktop |
| hub connection of the page (SignalR's TypeScript client) | a state at each of three layers, timers, callbacks, a handshake | `start`, `stop`, `invoke`, negotiation and fall-back, keep-alive | viewer hub |
| scripts (`ScriptScheduler`, `ScriptScheduleDispatcher`, agent's `ScriptExecutor`) | schedules and runs in the database | advance a schedule, dispatch runs, resend pending ones | agent hub, database |
| shells, chat, file transfer, updates, accounts, REST API, UI, native capture | see `PROJECT.json` | | |

What is hard about it: hub methods of different connections run concurrently on
the same objects; every `await` of a client's answer leaves time for the object
to be replaced; connections end without warning and their `OnDisconnectedAsync`
arrives late; several desktop processes can serve one session id; five timers
(console 20 s, stream 30 s, heartbeat 5 min, cleaner 1 min, reconnector 10 s)
race with late answers; messages sent to a connection id that has died vanish.
`PROJECT.json` lists the hazards line by line with the properties that watch
them.

What makes the parts correct:

* sessions: nobody is handed another key's session; consent is asked before a
  cast; a session with viewers is served again after its desktop was lost; an
  abandoned session goes away; the viewer list tells who is connected;
* presence: a device with a working connection can be reached through it, a
  device without one is not shown online;
* streams: a reader gets a stream that was offered under the id it asked for, and
  once every stream there has ended nothing stays behind in the cache;
* frames: they are drawn whole, in order, each once, and the desktop neither
  floods a slow viewer nor waits for ever for one that draws;
* page: what it shows agrees with what is under way, and when nothing is it says
  why;
* hub connection: a start settles and a stop ends whatever is called meanwhile,
  except in two cases of long polling; over a WebSocket a silent server is
  noticed and whatever was invoked ends;
* input: what was pressed is released, and the remote cursor arrives where the
  mouse is;
* scripts: a schedule gets one run per due time unless its dispatch failed, a run
  that its device can run is repeated until there is a result of it and not after.

## Modules

| module | models |
|---|---|
| `RemoteControlSessions` | unattended sessions: cache, session objects, console, agent, desktop processes, viewers, services |
| `AgentPresence` | agents that come, send heartbeats and go; the two dictionaries of the agent cache; `IsOnline` in the database |
| `DesktopStreams` | stream ids, the signalers where a desktop's stream and a viewer's reader meet, the desktop's list of viewers |
| `FrameFlow` | one stream from the capture loop to the canvas: chunks, the page's buffer, receipts, time-outs |
| `FrameDelivery` | what a stream promises; `FrameFlow` implements it |
| `ViewerPage` | the page: its connections, requests, streams and notices, and what it shows |
| `HubClient` | what a SignalR connection promises the page; `HubConnection` implements it, and each connection of `ViewerPage` is one |
| `HubConnection` | the SignalR client: `HubConnection`, `HttpConnection`, the two transports |
| `ViewerInput` | the page's mouse, touch and keyboard handlers and the desktop they drive |
| `ScriptRuns` | schedules, their dispatcher, script runs, the agents that execute them, results |
| `...Proofs` | theorems about the module they are named after |
| `MC...` | symmetry and sets for TLC; the values of the constants are in the `.cfg` files |

How they fit together: `RemoteControlSessions` decides which desktop and viewer
meet, `DesktopStreams` how their stream finds its reader, `FrameFlow` what
travels on it.  `ViewerPage` is the page around that stream and `HubConnection`
the connection below the page; `HubClient` is the contract between the two, used
from above (`LinksAreClients`) and implemented from below (`IsAHubClient`).
`AgentPresence` keeps the routes over which sessions and `ScriptRuns` reach
devices.

### RemoteControlSessions

A step is a synchronous stretch of one handler.  It ends where the handler
leaves the lock of the cache or awaits something that can take time: a client's
answer, a ready signal, a stream.  It also ends between two tests of a session's
`Mode` and between a test of it and the assignment that follows, because another
thread may assign it there.  A one-way hub message (`SendAsync`) does not end it,
and neither does the quick database lookup inside `RemoteControl`.  Handlers with
such an end are several actions with a phase between them:

| code | actions |
|---|---|
| `CircuitConnection.RemoteControl`, `DeviceCard.StartRemoteControl` | `RemoteControl`, then `OpenViewer` or `SessionFailedToStart` |
| `DesktopHub.ReceiveUnattendedSessionInfo` | `CheckTakeover` (the access key, and the refusal), `AdoptSession` (`GetOrAdd`), `AssignSession` (after it) |
| `DesktopHub.OnDisconnectedAsync` | `DesktopOnDisconnected`: `AttendedEnds`, or `RestartScreenCaster` or `TryRemove` in `UnattendedEnds`; `FailPrompts` for the calls of `PromptForAccess` that fail with the connection |
| `ViewerHub.SendScreenCastRequestToDevice` | `FindSession` (to `TryGetValue`), `CheckAccess`, `AttachViewer`, then `ConsentGiven`, `ConsentRefused` or `TakeForAttended` |
| `DesktopHub.SendDesktopStream`, `ViewerHub.GetDesktopStream` | `StreamOffered`, `StreamConnected`, `StreamEnds` |
| `RemoteControlSessionCache.RemoveExpiredSessions` | `FindExpiredSession`, `RemoveExpiredSession`, both in the lock |
| `AgentHubConnection.Connect`, `AgentHub.CheckForPendingRemoteControlSessions` | `AgentConnects`; an automatic reconnect is `AgentReconnects`, which checks nothing |

State and code: `cache[k]` is the dictionary, `session[s]` the fields of an
object, `signal[s]` the `ManualResetEventSlim` object `s` was constructed with
(`session[t].signal = s` for a clone `t`, whose memberwise copy shares it),
`desktop[d].session` and `viewer[v].session` the hubs' `SessionInfo` of a
connection, `commands` the messages on their way to the agent, `notices` the
`RelaunchedScreenCasterReady` messages, `desktop[d].left` the `DisconnectViewer`
calls on their way back.  `consent` and `request` remember what the technician
and the user did.

Abstractions, each of them safe for the properties stated:

* a connection id whose connection is over is written `None`; sending to it has
  no effect either way.  `session[s].agent` says whether `AgentConnectionId`
  names the live connection;
* ids and access keys are GUIDs, an access key is made with its id and passed on
  beside it, so that of an access key only `access` is kept: whether its holder
  knows it or has the empty string.  An object has none between
  `RemoteControl` and its process's registration, and a page or process that was
  started meanwhile (a relaunch by `CheckForPendingRemoteControlSessions`) was
  given none; `CheckTakeover` and `CheckAccess` refuse it later;
* the agent is in `AgentHubSessionCache` when it is connected;
* one minute after its creation an unused session expires.  The model lets it
  expire at any time after the technician's 20 seconds of waiting;
* concurrent changes of one `HashSet` are atomic;
* a desktop process whose hub connection drops is treated as ended.  In the code
  it reconnects under a new id without a session, so it changes no cached
  session any more, but it keeps running;
* an unattended session can be taken for an attended one: `AttachViewer` reads a
  mode that a process has not assigned yet, and `TakeForAttended` writes
  `Attended` when it has.  No process has shown an invite code for it, and an
  unattended process ignores the `RequestScreenCast` it gets.  The mode then
  stays: cleaner and reconnector pass over the session.  Attended sessions
  proper, their invite codes and DTO traffic are left out.

SignalR runs the invocations of one connection one at a time, but the end of the
connection does not wait for an invocation that awaits an answer.  That is why a
viewer can be `gone` (its connection over) while its `prompt` is open, and why
the answer then acts on a session nobody watches.  Open streams do not hold up
later invocations.  `ChangeWindowsSession` asks only for an unattended session: it
is enabled whatever the page is doing between two invocations.

### AgentPresence

A step is one access to shared state: a query or an update of the database, one
operation on one of the two dictionaries.  `DeviceCameOnline` and
`DeviceHeartbeat` do the same things (`FindDevice`, `SaveDevice`, `SetDevice`,
`AddByConnectionId`, `AddByDeviceId`); `OnDisconnectedAsync` is
`OnDisconnected`, `FindDisconnected`, `SaveDisconnected` or `DisconnectFails`,
`RemoveByConnectionId`, `RemoveByDeviceId`.  Handlers of different connections
interleave between any two of these, and so do an invocation and the
`OnDisconnectedAsync` of its own connection: SignalR does not wait for an
invocation that awaits the database before it runs that handler.

* Entity Framework writes the columns whose value changed since they were read
  (`Written`).  So an update that sets `IsOnline` to what it was when the handler
  read it writes nothing, whatever another handler has written since.
* An exception after the cache was updated ends the invocation as the loss of the
  connection would; a refused registration (banned device, unknown organization)
  is `CallFails`, after which the agent gives the connection up.
* A heartbeat that is not answered is a heartbeat that was not sent.
* `overlapped` and `unrecorded` are history: the connections whose end was
  handled beside one of their invocations, and those whose
  `DeviceDisconnected` failed.  The properties except them by name.  The first
  exception is the code's: the invocation that outlives its connection adds an
  entry which nobody removes, and with which the server counts a device online.

### DesktopStreams

One session and its desktop process.  Each run of
`SendScreenCastRequestToDevice` is a request, and its `StreamId` has the
request's name; `ask[r]`, `cast[r]` and `read[r]` are the page's, the desktop's
and the reader's part of it.  `cache` is the static dictionary of
`DesktopStreamCache`; a signaler has its id, its stream, the counts of its two
semaphores (at most one each) and whether it was disposed.  A step is again a
synchronous stretch of a handler.

| code | actions |
|---|---|
| `ViewerHub.SendScreenCastRequestToDevice` | `SendScreenCastRequest` (to the prompt), `GetScreenCast` (the id is read again here) |
| `ViewerHub.GetDesktopStream`, `WaitForStreamSession` | `GetDesktopStream`, then `ReadStream` or `WaitTimesOut`, `StopReading` |
| `DesktopHub.SendDesktopStream` | `SendDesktopStream` (`WakeReader`, `OfferStream` or `ReleaseThrows`), `RemoveSignaler` |
| `ScreenCaster.BeginScreenCastingImpl` | `BeginScreenCasting`, `StreamCompletes`, `EndScreenCasting` |
| `ViewerHub.OnDisconnectedAsync`, `DesktopHubConnection.ViewerDisconnected` | `ViewerLeaves` |

`SemaphoreSlim.Release` wakes one of the waiting tasks, which one is not
specified, or adds to the count, or throws `SemaphoreFullException`, which
`SendDesktopStream` meets in its `finally`: it removes and disposes the signaler,
although a handler may still wait on it.  The signaler's objects are never
reused, so that a late user of a disposed one is seen.

What the session protocol of `RemoteControlSessions` says about streams is the
outside of this: there a stream is offered, connected and ended; here several of
them can share an id.  With two viewers they do: both readers may then wait on
one signaler.  The semaphore decides who is woken, and a woken reader takes the
stream the signaler has by then, which is the last one sent: a stream sent before
it and not read yet is lost, and both readers read the last.  That is how the
code behaves; `ReadersGetTheirStream` says that it is the only way in which two
readers come to share a stream.

The desktop's list of viewers has one entry per viewer: the end of the first of
two casts to a viewer takes the second's entry off, after which the process may
close under it (`shutdown`).  The comment "Close if no one is viewing."
(`ScreenCaster.cs:159`) hopes for more than that.

### FrameFlow and FrameDelivery

Nothing reorders the items of a SignalR stream, so a chunk is its number in the
stream and the page's buffer an interval of them.

| code | actions |
|---|---|
| `ScreenCaster.GetDesktopStream`, `Viewer.WaitForViewer` | `NextFrame`, `ViewerKeepsUp` or `WaitTimesOut`, `NothingToSend` or `CastFrame`, `SendChunk`, `EndCast`; `StopRequested` (looked at before the wait only: one more frame may go out after it) |
| `CaptureProcessor.ProcessStream` | `ProcessStream`, `ReadHeader`, `DrawFrame` or `DecodeFails`: one action per stretch between two awaits |
| `StreamingState`, the stream's `next` and `complete` | `ChunkArrives`, `StreamCompletes` |
| `FrameReceived` from the page to the caster | `FrameReceived` |

An image that cannot be decoded makes the page throw its buffer away, which may
hold the beginning of a later frame; what it reads as headers afterwards is any
length.  `FrameDelivery` says so with `spoilt`: before, frames are drawn without
a gap; after, still in order and each at most once.  Whether WaitForViewer's two
time limits have passed is a choice of the model.

### ViewerPage, HubClient and HubConnection

`ViewerPage` has a record per connection the page builds (`link`) and per run of
`SendScreenCastRequestToDevice` (`casts`).  A step is one task of the browser and
its microtasks: with a WebSocket, `stop()` on a connected connection rejects what
was invoked, ends the streams and calls `onclose` before the next task.  The
awaits in `SendScreenCastRequestToDevice` read `this.Connection` again, and
options that their connection's end rejected are caught: the request that follows
is then invoked on a connection that is closed or, when the user has connected
again, still connecting, and is refused there at once (`Cancelled`).
`LinksAreClients` therefore does not say that the page invokes only what it can
send, but that all it waits for on a connection was invoked while that was
connected and ends with it.  With long polling a stop takes longer, and `onclose`
would come when the next connection may be up; the page is modelled over
WebSockets only.

`HubConnection` follows the client's three layers with their own state each:
`hub`, `http` and `line`.  `awaits` is where `start()` stands: negotiation, a
transport, the handshake's request (long polling answers it), the handshake, or
a stop that polling has not finished.  The timers are `timeout` and `ping`.  A
server that falls silent is `~alive`.  `FirstPollEnds` is a first poll answered
with neither 200 nor an error: the transport is `dropped`, the start goes on
without one, and neither it nor a stop ever ends; `StartSettles` and
`StopSettles` say so by excepting that state, and `StartSettles` also a
handshake awaited from a silent server by polling.  The page configures no
automatic reconnect, so that is left out, with server-sent events (the client is
built without `EventSource` in the offers) and message contents.

### ViewerInput

Each handler is split at its awaits, and the rest of it is put into the message
it awaits (`then`), because the hub answers the invocations of a connection in
order.  `Answer` applies the oldest message to the desktop and runs that rest on
the page's state as it is by then.  The listeners one browser event runs are one
step.  Places stand for coordinates; wheel amounts, the text a viewer types and
its transfer are left out.

### ScriptRuns

One schedule's row, runs in the order of their `RunAt`, and calls: a call is one
`RunScript` message from its sending until its result is saved or it came to
nothing.  A step reads or writes the database once or sends what a handler sends.

| code | actions |
|---|---|
| `ScriptScheduler.DispatchScriptRuns` | `SchedulerTimerElapsed` (the lock), `Release` inside the last step |
| `ScriptScheduleDispatcher.DispatchPendingScriptRuns` | `GetScriptSchedulesDue`, `CreateScheduledRun` (`AdvanceSchedule` and `AddScriptRun`), `RunScript`, `SaveSchedule`; `DispatchFails` at any point |
| `RunScript.razor.cs`, `Terminal.razor.cs` | `RunScriptPage`, `RunScript` |
| `AgentHub.DeviceHeartbeat`, `CheckForPendingScriptRuns` | `DeviceHeartbeat` (the query), `CheckForPendingScriptRuns` (the sending) |
| `ScriptExecutor`, `ScriptResultsController` | `ScriptRunDone`, `ScriptRunLost` |
| `DataService.DeleteSavedScript` | `DeleteSavedScript`: the schedules of the script go, its runs stay without it |

`Grid` is the schedule's `StartAt` and the times a number of intervals later,
hours, days, weeks or months alike; `AdvanceSchedule` takes the first that has
not passed.  The devices a run is called on are looked up again when it is
called, because `FilterDevicesByOnlineStatus` is a lazy sequence: a device that
came online in between is called although the run was made without it.  A
restart of the server loses the tokens agents need to fetch scripts and to post
results, so what was under way comes to nothing.  The agent runs its calls one
after the other; the model lets them end in any order.

Not every run can be answered.  `ScriptExecutor` gives up without a result when a
script is empty or is for a Windows shell on another system (`CanRun` has the
devices and scripts for which neither is so; that an edit of a script changes
this is left out), and the heartbeat passes over a run whose script was deleted
(`NoScript`).  The former are sent with every heartbeat for ever;
`PendingRunsAreAnswered` is about the others.  It counts a heartbeat's sending as
good as the connection's.  A user's edit of the
schedule while a dispatch is under way is left out, and with it that
`SaveSchedule` writes the whole row it read earlier.

### Deadlock

All runs say `CHECK_DEADLOCK FALSE`.  Session objects, signalers, connections and
requests are never reused (that is what makes a late reference to an old one
visible), so every instance runs out of them; and agents and viewers may go and
not come back.

### What the runs show

| run | instance | shows |
|---|---|---|
| `two_viewers` | 1 key, 2 objects, 1 process at a time, 2 viewers, both settings | every order of launch, relaunch, prompt, expiry and exit: `OnlyRecreatedAreAttended`, `ConsentBeforeCast`, `WatchersAreListed` |
| `window_change` | 2 keys, 2 objects, 2 processes, 1 viewer | `ChangeWindowsSession` clones a session, a process is replaced while it is still there: `SessionInvariant`, `CachedUnderOwnKey`, `DesktopServesOwnKey`, `SignalLostOnlyThroughClone`, and `SessionsKeepTheirPlace` of every step |
| `liveness` | 1 key, 2 objects, 1 process at a time, 1 viewer | `WaitingViewersAreServed` (an unattended session whose agent connection is good), `AbandonedSessionsAreRemoved` (but for one taken for attended) under `Fairness` |
| `presence` | 1 device, 2 connections, 1 restart | `PresenceInvariant`, `NoStaleEntries`, `OfflineWhenGone`, and `SteadyDeviceIsReachable` under fairness |
| `streams` | 2 viewers, 2 requests, 3 signalers | `OfferInvariant` (with `CachedSignalersWork`), `SignalersHaveUsers`, `ReadersGetTheirStream`, and `ReadStreamsAreForgotten` under fairness |
| `frames` | 4 frames of 1 or 2 chunks, a limit of 2, 1 failed image | `FrameInvariant`, `FlowIsBounded`, the refinement `DeliverySpec`, and `FramesAreAcknowledged` under fairness |
| `viewer_page` | 3 connections, 1 relaunch each, 2 notices | `PageInvariant`, `IdlePageSaysSo`, `ReasonIsShown`, the contract `LinksAreClients`, and `ConnectingEnds` under fairness |
| `hub_connection` | every offer of transports, 2 callbacks | `HubInvariant`, `ClosedOncePerStart`, the refinement `IsAHubClient`, and `StartSettles`, `StopSettles`, `SilenceIsNoticed` under fairness |
| `input` | 2 places, 1 key, 2 messages under way when the user acts, 3 touches | `InputInvariant`, `LastMoveIsSent`, `KeysAreReleasedOnBlur`, `RightClicksAreFinished` |
| `scripts` | 1 device, 2 scripts of which it can run one, 2 timers, 2 runs, 1 call of each, 3 hours with 3 due times, 1 lost connection, restart or deleted script | `ScriptInvariant` (with `OneRunPerDueTime`), `SettledRunsStaySettled`, and `PendingRunsAreAnswered` under fairness |

Two runs check a sentence of the repository that the code does not keep; each
expects TLC's counterexample:

| run | the sentence | what happens |
|---|---|---|
| `restart_without_consent` | "Don't restart if consent wasn't granted on the first request." (`DesktopHub.cs:168`) | `OnDisconnectedAsync` tests `RequireConsent` the other way round: it restarts exactly the sessions that still wait for consent and drops the others |
| `stuck_drag` | "If we're dragging, we need to send a mouse up event." (`InputEventHandlers.ts:348`) | a finger that is lifted while `touchmove` awaits its first message sends the release first; the press follows and stays |

Other places where code and words part, which the models have and no run is
about: a process that registers after its session expired re-creates it from a
default object that asks no consent; a viewer that comes while it does so can
make it an attended session, which nothing removes when everybody has left; the
late end of a replaced process removes
its successor's session from the cache; after a Windows session change a
viewer's end can be booked on the wrong object; the two casts of one viewer
described under `DesktopStreams`; and the script page's "If offline, run
immediately when next connected" (`RunScript.razor:8`), for which the agent calls
`CheckForPendingSriptRuns`, a name the hub does not have, so that the run waits
for the first heartbeat, five minutes later.

`WatchersAreListed` makes an exception for a session that was cloned: after a
Windows session change a `DisconnectViewer` call made for the viewer's old cast
can take it off the list of the session it came back to.  The instance of
`two_viewers` has one key, so there the exception never applies; that nothing but
a clone breaks the list, with any number of keys, is a theorem.

Bounds.  `Sessions`, `Keys`, `Desktops`, `Viewers`, `Connections`, `Requests`
and `Signalers` are the sizes above.  `MaxEvents = 1` in every run of
`RemoteControlSessions`: one session switch, crash, failed launch or lost
connection besides the exits, timeouts, refusals and expiries, which are not
bounded; more events make the instances too large for a run of minutes.  A
process's slot is reused when the process is gone, so `Desktops` bounds how many
live at a time; two are needed for a replaced process that is still there.  Two
keys are the smallest instance with a clone.  Two connections of a device are
the smallest in which an old one ends beside a new one, and `MaxRestarts = 1`
restarts the server once at any point.  Two requests can share an id or a
signaler; a third signaler is one made after the first was removed and
disposed.  Four frames exceed `MaxAhead` twice, and a frame of two chunks can be
torn.  Three connections of the page are one that fails late, one that replaces
it and one that replaces that.  In `hub_connection` nothing is bounded but the
callbacks: a connection is started once, as the page does it.  Three touches
make a gesture that begins while an earlier one's rest is awaited, and a second
finger.  Two runs can be of the same due time, two calls of a run overlap, and
three hours let two due times pass unnoticed.

Fairness (`Fairness` in the module): timers fire, messages that were not lost
arrive, handlers finish, a lost agent comes back.  People and failures are not
fair.  Where the code retries (the cleaner, the reconnector, a relaunched
process that makes a viewer ask again), the step that the retries keep disabling
for a moment is strongly fair: the retries are seconds apart and the step takes
milliseconds.  A cast to a viewer that is gone ends, because the viewer stops
acknowledging frames.  Steps of one party that exclude each other (what a process
does next, what a request does next) share one condition: some of them happen.

In `AgentPresence` the heartbeat timer, the handlers and the end of a connection
are fair and agents, failures and restarts are not.  A query or an update of the
database that may fail any number of times succeeds in the end if it is tried
again and again (`SF` of `FindDevice` and `SaveDevice`).  The property assumes
that the agent keeps its connection; it does not assume that the server has
noticed the end of the older ones.

In `FrameFlow` chunks and receipts that were sent arrive, the browser goes on
with animation frames, and a frame once begun is sent; the loop itself need not
go on.  In `ViewerPage` a start settles, which `HubConnection` promises of a
WebSocket, options are answered, and a request that was answered streams or
ends; users and notices are not fair.  In `HubConnection` the steps of `start()`
are answered or fail, polling that was aborted stops, and the timer fires once
the server is silent; the server need not be silent, and a Close message or a
message of any kind need not come.  In `ScriptRuns` heartbeats and their
handlers go on, and a run the device can run and is called for again and again
is done in the end (`SF` of `ScriptRunDone`), although any single call may be
lost; the dispatcher is not fair.  `ViewerInput` needs no fairness: its
properties are about the moments at which everything was answered.

In `DesktopStreams` only three things are fair: a reader that was woken goes on,
a reader whose stream or viewer has ended ends, and so does a handler whose
EndSignal was released.  Neither the 30 seconds nor the eight hours are relied
on.

### What is proved

`RemoteControlSessionsProofs` proves, for all values of the constants,

* `KeysAreConsistent`: `Spec => []KeyInvariant`;
* `TypeCorrect`: `Spec => []TypeOK`;
* `CacheHandsOutOwnSession`: `Spec => []CachedUnderOwnKey`;
* `DesktopHoldsOwnSession`: `Spec => []DesktopServesOwnKey`;
* `SessionsAreConsistent`: `Spec => []SessionInvariant`;
* `OnlyRecreatedBecomeAttended`: `Spec => []OnlyRecreatedAreAttended`;
* `ConsentComesFirst`: `Spec => []ConsentBeforeCast`;
* `WatchersAreOnTheList`: `Spec => []WatchersAreListed`;
* `SignalsAreLostThroughClones`: `Spec => []SignalLostOnlyThroughClone`;
* `SessionsStayInPlace`: `Spec => SessionsKeepTheirPlace`.

`TypeOK` alone is not inductive: looking a session up by a viewer's key, or
sending a notice with the key of a session, types only if the key is one, and
that depends on which objects a connection can hold.  `KeyInvariant` adds that
references lead to constructed objects (`ViewerReferences`,
`ObjectReferences`), that an object is known under one key (`OneKeyPerObject`)
and bears it once its process is done assigning it (`KeyedOnceAdopted`);
`CacheHandsOutOwnSession` and `DesktopHoldsOwnSession` are consequences of it.
The argument is one lemma per action and conjunct; most actions leave the cache,
the keys and the desktops' sessions alone, and `KeepsSkeleton` treats them
together: it says which parts of the state the three object invariants depend on
and how they may change.

The other four invariants relate the objects to who uses them, and need all of
`SessionInvariant` (which the run `window_change` checks, where sessions are
cloned):

| part | says | is needed for |
|---|---|---|
| `SignalsAreOwn` | an object has its own ready signal unless it is a clone, and then both are registered; the process an object names holds it or what it was cloned from | a process that ends disposes and restarts the right object |
| `KeysAreRequested` | a key nobody requested is known nowhere | a new request or a clone starts clean |
| `ViewedOnceServed` | a key has viewers only after the console saw its session ready | nobody attaches to an object that is half assigned |
| `FoundUnderOwnKey` | from `TryGetValue` on, over the access check to the assignments after it, the object found stays that of the viewer's key | `SendScreenCastRequestToDevice` may go on with the object it found |
| `FreshUntilAssigned` | an object the console made is not set ready, nor replaced in the cache, before its process registered | `Mode` is `Unknown` only while nobody can view, so that no viewer takes the session for an attended one |
| `DisposedLeave` | an object disposed leaves the cache, or shares its signal with a disposed one | `SignalLostOnlyThroughClone` |
| `ConsentIsAsked` | a session that knows its device asks for consent while the user has not agreed | `ConsentBeforeCast` |
| `ListsAreKept` | an attached viewer is listed, and no `DisconnectViewer` call is under way for it, unless there is a copy | `WatchersAreListed` |

A viewer is about to take a session for attended only if it saw no mode
assigned, and an object the console made has no viewers until it has one
(`FreshUntilAssigned`, `ViewedOnceServed`); that is `OnlyRecreatedAreAttended`,
which says it of the request that is between test and assignment
(`viewer[v].attends`) as well, because the assignment comes whatever the mode is
by then.  The proof is again one lemma per action; a step that leaves most of
the state alone is treated through frame lemmas (`SignalsFrame`, `ViewedFrame`,
`FreshFrame`, `ListsFrame` and others), one for each part, which say how the
state it depends on may change.  The long ones are `AttachViewer`, which uses an
object looked up earlier, `TakeForAttended`, which writes what was decided
earlier, and `ChangeWindowsSession`, which makes a copy and moves a viewer to
it.

`SessionsKeepTheirPlace` is about steps: no step puts an object in the place of
a cached one, gives an object in use another key, revives one that was disposed
or has left the cache, or lets a viewer join an object of another key than its
own.  That each action does so follows from the invariant before it:
`AssignSession` writes the key the object has already (`OneKeyPerObject`), the
console and `ChangeWindowsSession` find nothing under a key that was not
requested (`KeysAreRequested`) and take objects that nothing refers to, and
`AttachViewer` joins an object looked up in an earlier step
(`FoundUnderOwnKey`).  The other steps only shrink the cache (`StaysPut`).

`AgentPresenceProofs` proves

* `PresenceIsConsistent`: `Spec => []PresenceInvariant`;
* `CacheForgetsEndedConnections`: `Spec => []NoStaleEntries`;
* `GoneDevicesAreOffline`: `Spec => []OfflineWhenGone`.

`NoStaleEntries` needs to know that a route to a connection implies an entry of
that connection (`RoutesHaveEntries`), because the route is removed only by a
handler that found the entry, and that an invocation which runs beside that
handler is recorded (`InvocationsAreSeen`).  `OfflineWhenGone` needs that
whenever a device is online some connection of it will still take that back
(`OnlineIsTakenBack`): since updates write changes only, it does not follow from
the device's last handler.

`DesktopStreamsProofs` proves

* `StreamsAreConsistent`: `Spec => []StreamInvariant`;
* `CachedSignalersCanBeUsed`: `Spec => []CachedSignalersWork`;
* `SignalersAreRemoved`: `Spec => []SignalersHaveUsers`;
* `OffersAreConsistent`: `Spec => []OfferInvariant`;
* `ReadersAlwaysGetTheirStream`: `Spec => []ReadersGetTheirStream`.

A handler that ends disposes its signaler and removes whatever is cached under
its id; that these are the same object, whenever the disposed one is cached, is
`CachedSignalersWork` with `HandlersMatch` and `ReadersMatch`.  A reader that
ends leaves its signaler to a handler that will remove it; that there is one is
`OffersHaveHandlers`.

`ReadersGetTheirStream` says that two readers share a stream only where a second
one was sent through their signaler.  Two readers are woken by two releases: the
readers woken through a signaler are as many as the streams offered through it,
less the offer it keeps (`OffersBalance`), and one of two offers is another
stream (`StreamsAreSent` says whose stream is kept and read).  The balance alone
does not say who reads what; where two casts share an id, the stream sent second
takes the place of the first, and if nobody had read that yet, both readers get
the second.  The balance counts two sets of requests, so the sets have to be
finite.  No constant is assumed to be: only finitely many requests are made at
any time (`RequestsAreFinite`), and both sets are among them.  Each step adds at
most one member to each set; a signaler that has not been made yet is in neither
(`NewSignalersAreUnused`), so that making it under an id starts the count at
zero.

`ViewerInputProofs` proves

* `InputInvariantHolds`: `Spec => []InputInvariant`;
* `LastMoveIsAlwaysSent`, `KeysAreAlwaysReleased`, `RightClicksAreAlwaysFinished`:
  the three properties of the run `input`.

`InputInvariant` says of each of the three where the thing that is still to
happen is: in the timer, in a message on its way with nothing behind it that
undoes it, or done.  The properties are its instances for an empty queue.

`FrameFlowProofs` proves

* `FrameInvariantHolds`: `Spec => []FrameInvariant`;
* `FlowIsAlwaysBounded`: `Spec => []FlowIsBounded`;
* `StreamDelivers`: `Spec => DeliverySpec`, the refinement.

A frame is drawn at the front of the buffer; that it is the next one follows
from `NoFrameIsMissing` (the buffer begins where the last drawn frame ended,
while no image has failed), and that it is a later one always, from
`BufferInStream`.

`ViewerPageProofs` proves

* `PageInvariantHolds`, `IdlePageAlwaysSaysSo`, `ReasonIsAlwaysShown`: the three
  invariants of the run `viewer_page`;
* `LinksAreAlwaysClients`: `Spec => LinksAreClients`.

`LiveCastsAreConnected` carries the argument: whoever awaits something on a
connection that is over is awake by the end of the same task, so that what reads
`this.Connection` anew never finds a connection it does not belong to.

`HubConnectionProofs` proves

* `HubInvariantHolds`: `Spec => []HubInvariant`;
* `OncloseIsCalledOnce`: `Spec => []ClosedOncePerStart`;
* `ConnectionIsAHubClient`: `Spec => IsAHubClient`, the refinement.

The refinement looks at the hub's state, its start and its callbacks; one lemma
(`NextIsSeen`) sums up what each action does to these, and the refinement and the
count of `onclose` follow from it.  `LineAgrees` is long because the three layers
end in every order.

`ScriptRunsProofs` proves

* `ScriptInvariantHolds`: `Spec => []ScriptInvariant`, with `OneRunPerDueTime`;
* `SettledIsForGood`: `Spec => SettledRunsStaySettled`.

A second run for a due time needs a dispatch that finds the row as the first one
did; `DueTimesAreBehind` says that then either a dispatch is between the run and
the row, which the lock excludes (`DispatchesAgree`), or one failed there.

The assumptions are the `ASSUME`s of the modules: `None` and `Nobody` differ from
the other values, `EnforceAttendedAccess` is a set of Booleans, the bounds are
natural numbers, places are not fingers, servers offer at least one transport,
due times are positive and there is always one ahead of the clock.

Model-checked only: the liveness properties, since fairness is beyond the
prover: `WaitingViewersAreServed`, `AbandonedSessionsAreRemoved`,
`SteadyDeviceIsReachable`, `ReadStreamsAreForgotten`, `FramesAreAcknowledged`,
`ConnectingEnds`, `StartSettles`, `StopSettles`, `SilenceIsNoticed` and
`PendingRunsAreAnswered`.  Every invariant and every action property the passing
runs check is proved.

## Hazards beside those of PROJECT.json

`PROJECT.json` has the hazards the properties were chosen for.  The code has
more.  Those with a property in parentheses are covered by it; the others are
not, for the reason given.  (`…` is `src/Server/wwwroot`.)

- `src/Server/Services/RemoteControlSessionCache.cs:96`: A session lives in the cache until its viewers are off the list; a viewer whose removal is skipped keeps the session, and its relaunches, forever. (`AbandonedSessionsAreRemoved`)
- `src/Server/Services/RemoteControlSessionReconnector.cs:64`: The reconnector, NotifySessionChangedImpl and ChangeWindowsSession use the AgentConnectionId the session remembers; after an automatic reconnect of the agent it names a closed connection and only OnDisconnectedAsync or CheckForPendingRemoteControlSessions renew it. WaitingViewersAreServed promises service only while the remembered connection is good; that sessions stay unserved after an automatic reconnect is the code's behaviour, and no line of the repository promises otherwise.
- `src/Server/Hubs/ViewerHub.cs:137`: GetDesktopStream sets StreamerState to Connected after its wait: a session that began to switch meanwhile loses DisconnectExpected and is treated as connected by the reconnector. (`WaitingViewersAreServed`)
- `src/Server/Hubs/CircuitConnection.cs:272`: RemoteControl caches the session before it looks up the organisation name; when that fails no agent is told and the session waits for the cleaner. The failure of the lookup is not an action of the model: the session it leaves behind is one whose launch fails, which the model has.
- `src/Desktop.Shared/Services/DesktopHubConnection.cs:409`: The desktop's hub connection reconnects by itself under a new connection id; the hub then holds a default session for it, so what the process does afterwards acts on no cached session. The model ends a process whose connection is lost; the reconnected process without a session is left for a later extension.
- `src/Server/Models/RemoteControlSession.cs:72`: ViewerList is a HashSet that hub methods of different connections and the background services use without a lock. A torn HashSet has no defined behaviour to model; the model's steps take each list operation as atomic.
- `src/Server/Services/AgentHubSessionCache.cs:28`: The two dictionaries are updated one after the other without a lock: between the two, and when two connections of a device interleave, a route exists without an entry or the reverse. (`NoStaleEntries`, `SteadyDeviceIsReachable`)
- `src/Agent/Services/AgentHubConnection.cs:577`: After an automatic reconnect the agent reports itself but asks neither for pending sessions nor for script runs; its sessions keep the connection id that is over. (`WaitingViewersAreServed`)
- `src/Server/Hubs/ViewerHub.cs:118`: SessionInfo.StreamId is read when the page calls GetDesktopStream and not when its request was made: with two viewers it is the other's, both wait on one signaler, and the stream sent second can replace the first before it is read. Which viewer gets the other's stream, and which stream nobody reads, is what the code decides; ReadersGetTheirStream says that what is read was sent under the reader's id and reaches no second reader unless it replaced another.
- `src/Server/Services/DesktopStreamCache.cs:53`: A reader that got the signaler just before the handler disposes it calls WaitAsync on a disposed semaphore and fails. A stretch of a handler without an await is one step of the model; two threads do not interleave inside it.
- `src/Desktop.Shared/Services/ScreenCaster.cs:156`: A viewer that asks again has two casts and one list entry; whichever ends first removes it and, with nobody left on the list, closes the process under the other. The model has the two casts and the shutdown; that the process closes under a viewer is what the code does.
- `src/Server/Services/ScriptScheduleDispatcher.cs:138`: The next run of a schedule that was missed many times is found by a loop over intervals, months among them, which differ in length. The grid of due times stands for it; what months do to the grid is not in the model.
- `src/Shared/Helpers/RateLImiter.cs:65`: The limiter holds one lock for all its keys while it runs the caller's function; a slow call holds up the others. The reconnector, its user in this protocol, is modelled; the limiter is not.
- `…/src/InputEventHandlers.ts:679`: longPressStarted is set after an await: when the finger was lifted meanwhile it stays set for the next gesture, whose tap is a right click and whose pan is a drag. The model has it; a drag it leaves behind is not released either, but the trace the run of DragsAreReleased finds is the shorter one of line 397.
- `…/src/InputEventHandlers.ts:443`: isScrolling is set after an await, and fingers lifted meanwhile leave it set: the next two-finger gesture scrolls where the cursor was left instead of at its touch point, and a pinch is taken for a scroll. The places of fingers are one value of the model; the flag's staleness is reached, no property is about where the wheel turns.
- `…/src/InputEventHandlers.ts:449`: Two-finger scrolling sends moves and wheel messages in view-only mode, and so do Enter and Backspace in the touch keyboard's input (line 695): neither looks at ViewOnlyMode. The model has both as the code does; nothing in the repository states what view-only mode promises, so no property does.
- `…/src/InputEventHandlers.ts:756`: keyup is not sent while an input has the focus: a key that went down before the input was focused stays down on the desktop until the window loses the focus. (`KeysAreReleasedOnBlur`)
- `…/src/CaptureProcessor.ts:17`: Chunks are spliced into the buffer before an await while more arrive: a frame may be cut off only when all of it is there, and what lies behind it must stay. (`FrameInvariant`, `DeliverySpec`)
- `src/Desktop.Shared/Services/ScreenCaster.cs:202`: A frame is the difference to the last one that was captured: after one was dropped by the page its part of the screen stays stale until it changes again. What a frame shows is not in the model; no code tells the desktop that a frame was not drawn.
- `src/Desktop.Shared/Services/ScreenCaster.cs:180`: After a time-out of WaitForViewer the frame is sent all the same: a viewer that stays behind is sent more, slowly, until its connection's buffers fill. (`FlowIsBounded`)
- `…/src/ViewerHubConnection.ts:45`: A connection that is stopped while it negotiates fails its start later, perhaps when the next one already shows a screen: the catch then shows the connect UI and an error over the live session. (`IdlePageSaysSo`, `ReasonIsShown`)
- `…/src/ViewerHubConnection.ts:74`: When the viewer options cannot be read the settings' are used and the request is made all the same, also when they could not be read because the connection had closed. (`PageInvariant`)
- `…/src/DtoMessageHandler.ts:100`: The screen's data shows the screen whichever cast it belongs to: when the hub has given the stream up after thirty seconds it shows an empty screen and clears the status that said so. (`IdlePageSaysSo`)
- `…/src/SessionRecorder.ts:21`: Start awaits SendRecordingChunks before it makes the recorder: with long polling a cast can end in that time, Stop completes the subject and stops the old recorder, and the new one then records into a subject that is over. The recorder is not modelled; no other part of the page reads it.
- `…/src/DtoMessageHandler.ts:47`: The case for File has no break: a file's chunk is completed a second time as session metrics, which throws for a file of one chunk and would double the chunks of a longer one. The desktop sends files in pieces that fit one chunk, so what is doubled is the decoding only; chunked messages are not modelled.
- `…/src/ClipboardWatcher.ts:62`: NewClipboardText is cleared after an await: a text that arrives meanwhile is recorded as the last one and lost, and the interval's next tick may begin before this one is over. The clipboard is not modelled.
- `…/lib/microsoft-signalr/src/HubConnection.ts:259`: The continuation behind the handshake may run after the connection was closed or stopped: the start must fail then, although its handshake succeeded. (`IsAHubClient`, `HubInvariant`)
- `…/lib/microsoft-signalr/src/HubConnection.ts:675`: A Close message stops the connection in the middle of the data, after which the timers are started again: they must be gone when the connection is. (`HubInvariant`)
- `…/lib/microsoft-signalr/src/LongPollingTransport.ts:129`: With long polling a poll that times out is made again for ever and no timer runs: a server that falls silent after it took the handshake's request, or later, is never noticed. StartSettles and SilenceIsNoticed except it.
- `…/src/ViewerHubConnection.ts:49`: With long polling a stop waits for a DELETE: the onclose of an old connection can hide the screen of the next one, and viewer options it rejects are asked for on the next one. The page is modelled over a WebSocket, where a stop is over at once.
- `…/lib/microsoft-signalr/src/LongPollingTransport.ts:83`: A first poll that is answered with a status other than 200 but no error runs the close logic while the connection is still connecting, which throws there: the start goes on without a transport, and it and the stop it awaits never end. FirstPollEnds models it; StartSettles and StopSettles except its outcome.
- `src/Server/Services/ScriptScheduler.cs:55`: A dispatch that outlasts the timer's interval overlaps the next one; without the lock both find the schedule due and each makes a run. (`ScriptInvariant`)

## What is not modelled

`PROJECT.json` lists every part with its reason.

* Of the protocol: attended sessions (`GetSessionID`, `SendAttendedSessionInfo`,
  the code the user reads out), which share the cache and the hubs but whose
  consent is a person's; chunked DTOs; the clipboard, the recorder and file
  transfer; shells, chat and rate limiting.
* Of the page: long polling under it (see above).  Of the SignalR client:
  automatic and stateful reconnect, which only agents and desktops configure, in
  the .NET client, which is not part of the repository.
* Outside it: database queries beyond the columns named, accounts and tokens,
  installation and updates, native capture and input, pages and dialogs, logs.

By lines, most JavaScript and TypeScript of the repository is third-party code
(Font Awesome, msgpack, Bootstrap, the bundles of SignalR) or the compiled form
of the TypeScript files beside it.  There is nothing to state about icon tables
and codecs at this level; of it only SignalR's `HubConnection`, `HttpConnection`
and transports, which carry the page's protocol, are modelled.  Most of the
modelled code is C#.

## What could come next

1. `AttendedSessions`: on the cache of `RemoteControlSessions`.
2. `SessionPromise`: an abstract session (requested, served, interrupted, gone)
   and a refinement mapping from `RemoteControlSessions`.
3. `ViewerPage` over long polling, where a stop takes time.
4. Edits of a schedule while it is dispatched.
