------------------------------ MODULE ScriptRuns ------------------------------
(***************************************************************************)
(* Script runs: the dispatcher that makes a run whenever a schedule is     *)
(* due, the runs users ask for, the agents that are told to run a script,  *)
(* and the heartbeats with which a device is told again of what it has no  *)
(* result for (ScriptScheduler, ScriptScheduleDispatcher, RunScript,       *)
(* AgentHub, ScriptExecutor, ScriptResultsController).                     *)
(*                                                                         *)
(* A step reads or writes the database once, or sends what a handler has   *)
(* to send.  A call is one RunScript message, from its sending until its   *)
(* result is saved or it came to nothing.                                  *)
(***************************************************************************)
EXTENDS Naturals, Sequences

CONSTANTS
    Devices,
    Scripts,
    CanRun,     \* the devices and the scripts they can run: not one without
                \* content, or for a Windows shell on another system
    Ticks,      \* the elapsed timers whose dispatch may be under way
    Grid,       \* StartAt and the times a number of intervals later
    MaxTime,    \* bound: the clock
    MaxRuns,    \* bound: script runs
    MaxCalls,   \* bound: calls of one run under way on one device
    MaxEvents   \* bound: lost connections, restarts and deleted scripts

Nobody == "nobody"
NoScript == "none"  \* SavedScriptId is null: the run's script was deleted

ASSUME ScriptAssumption ==
    /\ MaxTime \in Nat /\ MaxRuns \in Nat /\ MaxCalls \in Nat /\ MaxEvents \in Nat
    /\ Grid \subseteq Nat \ {0}
    /\ Nobody \notin Ticks
    /\ NoScript \notin Scripts
    /\ CanRun \subseteq Devices \X Scripts
    /\ \A t \in 0 .. MaxTime : \E g \in Grid : g >= t

VARIABLES
    now,        \* Time.Now
    schedule,   \* the schedule's row: its devices, its script, its flag
    nextRun,    \* and its NextRun
    lock,       \* who holds ScriptScheduler._dispatchLock
    tick,       \* what each dispatch is about
    deleted,    \* the scripts, and with them the schedules, that were deleted
    runs,       \* the rows of ScriptRuns, in the order of RunAt
    direct,     \* the devices the creator of a run is about to call
    connected,  \* the agent cache has the device
    handler,    \* the runs a heartbeat's handler is about to send
    calls,      \* the calls of each run under way on each device
    results,    \* the runs each device has a row in ScriptResults for
    unsaved,    \* history: the due times whose dispatch failed behind the run
    events

scheduling == <<nextRun, lock, tick, unsaved>>
vars == <<now, schedule, scheduling, deleted, runs, direct, connected, handler, calls, results, events>>

RunIds == 1 .. MaxRuns
OneTime == 0    \* the due time of a run a user asked for
RunRecords ==
    {r \in [script: Scripts \cup {NoScript}, devices: SUBSET Devices, selected: SUBSET Devices,
            due: Grid \cup {OneTime}] : r.devices \subseteq r.selected}
Schedules == [devices: SUBSET Devices, script: Scripts, runOnNextConnect: BOOLEAN]

(* A dispatch is idle, reads the schedules, found this one due, or made a  *)
(* run for it, after which NextRun will be next.                           *)
IdleTick == [phase |-> "idle", due |-> 0, next |-> 0]
TickRecords == [phase: {"idle", "reading", "due", "created"}, due: Grid \cup {0}, next: Grid \cup {0}]

Online == {d \in Devices : connected[d]}

-----------------------------------------------------------------------------
Init ==
    /\ now = 0
    /\ schedule \in Schedules
    /\ nextRun \in Grid /\ \A g \in Grid : nextRun <= g
    /\ lock = Nobody
    /\ tick = [t \in Ticks |-> IdleTick]
    /\ deleted = {}
    /\ runs = << >>
    /\ direct = [r \in RunIds |-> {}]
    /\ connected = [d \in Devices |-> FALSE]
    /\ handler = [d \in Devices |-> {}]
    /\ calls = [d \in Devices |-> [r \in RunIds |-> 0]]
    /\ results = [d \in Devices |-> {}]
    /\ unsaved = {}
    /\ events = 0

TimePasses ==
    /\ now < MaxTime
    /\ now' = now + 1
    /\ UNCHANGED <<schedule, scheduling, deleted, runs, direct, connected, handler, calls, results, events>>

-----------------------------------------------------------------------------
(* The dispatcher.                                                         *)

DeliveryUnchanged == UNCHANGED <<now, schedule, deleted, connected, handler, calls, results, events>>

(* A wrong variant, for a mutant: dispatches overlap. *)
SchedulerTimerElapsed_NoLock(t) ==
    /\ tick[t].phase = "idle"
    /\ lock' = t
    /\ tick' = [tick EXCEPT ![t].phase = "reading"]
    /\ UNCHANGED <<nextRun, unsaved, runs, direct>> /\ DeliveryUnchanged

(* An elapsed timer gives up when another dispatch holds the lock. *)
SchedulerTimerElapsed(t) ==
    /\ tick[t].phase = "idle" /\ lock = Nobody
    /\ lock' = t
    /\ tick' = [tick EXCEPT ![t].phase = "reading"]
    /\ UNCHANGED <<nextRun, unsaved, runs, direct>> /\ DeliveryUnchanged

(* The dispatch is over. *)
Release(t) == lock' = Nobody /\ tick' = [tick EXCEPT ![t] = IdleTick]

(* The schedule's row goes with its script. *)
ScheduleExists == schedule.script \notin deleted

(* GetScriptSchedulesDue: the dispatch goes on with the row as it was. *)
GetScriptSchedulesDue(t) ==
    /\ tick[t].phase = "reading"
    /\ \/ /\ ScheduleExists /\ nextRun < now
          /\ tick' = [tick EXCEPT ![t] = [phase |-> "due", due |-> nextRun, next |-> 0]]
          /\ UNCHANGED lock
       \/ ~(ScheduleExists /\ nextRun < now) /\ Release(t)
    /\ UNCHANGED <<nextRun, unsaved, runs, direct>> /\ DeliveryUnchanged

(* A run of script s, which the row refers to, for the devices selected,   *)
(* or for those of them that are online.  Who is online is asked again     *)
(* when they are called, since FilterDevicesByOnlineStatus is lazy.        *)
AddScriptRun(s, selected, runOnNextConnect, due) ==
    /\ Len(runs) < MaxRuns /\ s \notin deleted
    /\ runs' = Append(runs, [script |-> s, due |-> due, selected |-> selected,
                             devices |-> IF runOnNextConnect THEN selected
                                         ELSE selected \cap Online])
    /\ direct' = [direct EXCEPT ![Len(runs) + 1] = selected]

(* AdvanceSchedule, and the run: NextRun becomes the first time of the     *)
(* schedule that has not passed, so that one run makes up for all missed.  *)
CreateScheduledRun(t) ==
    /\ tick[t].phase = "due"
    /\ \E next \in Grid :
          /\ next >= now /\ \A g \in Grid : g >= now => next <= g
          /\ tick' = [tick EXCEPT ![t] = [phase |-> "created", due |-> @.due, next |-> next]]
    /\ AddScriptRun(schedule.script, schedule.devices, schedule.runOnNextConnect, tick[t].due)
    /\ UNCHANGED <<nextRun, lock, unsaved>> /\ DeliveryUnchanged

(* The row is written, after the devices were called, if it is still there. *)
SaveSchedule(t) ==
    /\ tick[t].phase = "created" /\ ScheduleExists
    /\ \A r \in DOMAIN runs : runs[r].due = tick[t].due => direct[r] = {}
    /\ nextRun' = tick[t].next
    /\ Release(t)
    /\ UNCHANGED <<unsaved, runs, direct>> /\ DeliveryUnchanged

(* Any of it fails, as the parts above do when the script was deleted since *)
(* the row was read: the next dispatch finds the row as it was, although    *)
(* there may be a run for it.                                              *)
DispatchFails(t) ==
    /\ tick[t].phase # "idle"
    /\ unsaved' = IF tick[t].phase = "created" THEN unsaved \cup {tick[t].due} ELSE unsaved
    /\ direct' = [r \in RunIds |-> IF r \in DOMAIN runs /\ tick[t].phase = "created"
                                      /\ runs[r].due = tick[t].due THEN {} ELSE direct[r]]
    /\ Release(t)
    /\ UNCHANGED <<nextRun, runs>> /\ DeliveryUnchanged

-----------------------------------------------------------------------------
(* Runs on their way to devices and back.                                  *)

(* A user asks for a run, with or without the devices that are offline; a  *)
(* quick script's is with them.                                            *)
RunScriptPage(s, selected, runOnNextConnect) ==
    /\ AddScriptRun(s, selected, runOnNextConnect, OneTime)
    /\ UNCHANGED scheduling /\ DeliveryUnchanged

(* One more call is under way; beyond the bound it is lost. *)
OneMore(n) == IF n < MaxCalls THEN n + 1 ELSE n

(* CircuitConnection.RunScript: the devices that are connected by now. *)
RunScript(r) ==
    /\ direct[r] # {}
    /\ calls' = [d \in Devices |-> IF d \in direct[r] \cap Online
                                   THEN [calls[d] EXCEPT ![r] = OneMore(@)] ELSE calls[d]]
    /\ direct' = [direct EXCEPT ![r] = {}]
    /\ UNCHANGED <<now, schedule, scheduling, deleted, runs, connected, handler, results, events>>

(* A wrong variant, for a mutant: results do not matter. *)
GetPendingScriptRuns_AgainAndAgain(d) ==
    {r \in DOMAIN runs :
        /\ d \in runs[r].devices
        /\ \A q \in DOMAIN runs : q > r /\ d \in runs[q].devices => runs[q].script # runs[r].script}

(* The latest run of each script for the device, unless it has a result. *)
GetPendingScriptRuns(d) ==
    {r \in DOMAIN runs :
        /\ d \in runs[r].devices /\ r \notin results[d]
        /\ \A q \in DOMAIN runs : q > r /\ d \in runs[q].devices => runs[q].script # runs[r].script}

(* A wrong variant, for a mutant: nothing is looked up. *)
DeviceHeartbeat_NoCheck(d) ==
    /\ connected[d] /\ handler[d] = {}
    /\ UNCHANGED vars

(* A heartbeat, from its query on.  Of what that returned a run whose script *)
(* was deleted is passed over.                                               *)
DeviceHeartbeat(d) ==
    /\ connected[d] /\ handler[d] = {}
    /\ handler' = [handler EXCEPT ![d] =
                     {r \in GetPendingScriptRuns(d) : runs[r].script # NoScript}]
    /\ UNCHANGED <<now, schedule, scheduling, deleted, runs, direct, connected, calls, results, events>>

(* CheckForPendingScriptRuns sends what it found. *)
CheckForPendingScriptRuns(d) ==
    /\ handler[d] # {}
    /\ calls' = [calls EXCEPT ![d] = [r \in RunIds |-> IF r \in handler[d] THEN OneMore(@[r]) ELSE @[r]]]
    /\ handler' = [handler EXCEPT ![d] = {}]
    /\ UNCHANGED <<now, schedule, scheduling, deleted, runs, direct, connected, results, events>>

(* The agent has fetched the script and run it, and its result, which       *)
(* refers to the script, is saved.                                          *)
ScriptRunDone(d, r) ==
    /\ calls[d][r] > 0
    /\ <<d, runs[r].script>> \in CanRun
    /\ calls' = [calls EXCEPT ![d][r] = @ - 1]
    /\ results' = [results EXCEPT ![d] = @ \cup {r}]
    /\ UNCHANGED <<now, schedule, scheduling, deleted, runs, direct, connected, handler, events>>

(* No result: the message, the script or the result is lost, with the      *)
(* connection, the agent, the server or the token that expired, or there   *)
(* is no script, nothing in it, or no shell for it.                        *)
ScriptRunLost(d, r) ==
    /\ calls[d][r] > 0
    /\ calls' = [calls EXCEPT ![d][r] = @ - 1]
    /\ UNCHANGED <<now, schedule, scheduling, deleted, runs, direct, connected, handler, results, events>>

(* A user deletes a script: the runs keep their rows without it. *)
DeleteSavedScript(s) ==
    /\ s \notin deleted /\ events < MaxEvents
    /\ events' = events + 1
    /\ deleted' = deleted \cup {s}
    /\ runs' = [r \in DOMAIN runs |->
                  IF runs[r].script = s THEN [runs[r] EXCEPT !.script = NoScript] ELSE runs[r]]
    /\ UNCHANGED <<now, schedule, scheduling, direct, connected, handler, calls, results>>

-----------------------------------------------------------------------------
(* A device comes online.  It asks for its runs too, but by the name       *)
(* "CheckForPendingSriptRuns", which the hub does not have.                *)
DeviceCameOnline(d) ==
    /\ ~connected[d]
    /\ connected' = [connected EXCEPT ![d] = TRUE]
    /\ UNCHANGED <<now, schedule, scheduling, deleted, runs, direct, handler, calls, results, events>>

OnDisconnected(d) ==
    /\ connected[d] /\ events < MaxEvents
    /\ connected' = [connected EXCEPT ![d] = FALSE]
    /\ handler' = [handler EXCEPT ![d] = {}]
    /\ events' = events + 1
    /\ UNCHANGED <<now, schedule, scheduling, deleted, runs, direct, calls, results>>

(* Only the database is left; the tokens that results come with are not. *)
ServerRestarts ==
    /\ events < MaxEvents
    /\ connected' = [d \in Devices |-> FALSE]
    /\ handler' = [d \in Devices |-> {}]
    /\ direct' = [r \in RunIds |-> {}]
    /\ lock' = Nobody
    /\ tick' = [t \in Ticks |-> IdleTick]
    /\ unsaved' = unsaved \cup {tick[t].due : t \in {u \in Ticks : tick[u].phase = "created"}}
    /\ calls' = [d \in Devices |-> [r \in RunIds |-> 0]]
    /\ events' = events + 1
    /\ UNCHANGED <<now, schedule, nextRun, deleted, runs, results>>

Dispatch(t) == \/ SchedulerTimerElapsed(t) \/ GetScriptSchedulesDue(t)
               \/ CreateScheduledRun(t) \/ SaveSchedule(t) \/ DispatchFails(t)
User == \E s \in Scripts :
            \/ \E selected \in SUBSET Devices, runOnNextConnect \in BOOLEAN :
                   RunScriptPage(s, selected, runOnNextConnect)
            \/ DeleteSavedScript(s)
Agent(d) == \/ DeviceCameOnline(d) \/ DeviceHeartbeat(d)
            \/ CheckForPendingScriptRuns(d) \/ OnDisconnected(d)
            \/ \E r \in RunIds : ScriptRunDone(d, r) \/ ScriptRunLost(d, r)

Next == \/ TimePasses
        \/ \E t \in Ticks : Dispatch(t)
        \/ User
        \/ \E r \in RunIds : RunScript(r)
        \/ \E d \in Devices : Agent(d)
        \/ ServerRestarts

Spec == Init /\ [][Next]_vars

(* The heartbeat's timer goes on, and so do its handlers; a run a device   *)
(* can run and is told of again and again is done in the end.              *)
FairSpec ==
    /\ Spec
    /\ \A d \in Devices :
         /\ WF_vars(DeviceHeartbeat(d))
         /\ WF_vars(CheckForPendingScriptRuns(d))
         /\ \A r \in RunIds : SF_vars(ScriptRunDone(d, r))

-----------------------------------------------------------------------------
TypeOK ==
    /\ now \in 0 .. MaxTime
    /\ schedule \in Schedules
    /\ nextRun \in Grid
    /\ lock \in Ticks \cup {Nobody}
    /\ tick \in [Ticks -> TickRecords]
    /\ deleted \subseteq Scripts
    /\ runs \in Seq(RunRecords) /\ Len(runs) <= MaxRuns
    /\ direct \in [RunIds -> SUBSET Devices]
    /\ connected \in [Devices -> BOOLEAN]
    /\ handler \in [Devices -> SUBSET RunIds]
    /\ calls \in [Devices -> [RunIds -> Nat]]
    /\ results \in [Devices -> SUBSET RunIds]
    /\ unsaved \subseteq Grid
    /\ events \in 0 .. MaxEvents

(* A dispatch that is under way holds the lock, and the row is still as it *)
(* found it; it will set NextRun ahead.                                    *)
DispatchesAgree ==
    \A t \in Ticks :
        /\ tick[t].phase # "idle" => lock = t
        /\ tick[t].phase \in {"due", "created"} => tick[t].due = nextRun
        /\ tick[t].phase = "due" => nextRun < now
        /\ tick[t].phase = "created" => tick[t].next > nextRun

(* What has a run already is behind NextRun, or under way, or failed. *)
DueTimesAreBehind ==
    \A r \in DOMAIN runs :
        runs[r].due # OneTime =>
            \/ runs[r].due < nextRun
            \/ /\ runs[r].due = nextRun
               /\ \/ nextRun \in unsaved
                  \/ \E t \in Ticks : tick[t].phase = "created"

(* A schedule gets one run for each time it is due, unless the dispatch    *)
(* failed between the run and the row: then it gets one more.              *)
OneRunPerDueTime ==
    \A q, r \in DOMAIN runs :
        q # r /\ runs[q].due = runs[r].due /\ runs[r].due # OneTime => runs[r].due \in unsaved

(* A device is told of no run it was not selected for, and has no result   *)
(* of one.  It may be one the run was not made for: without the offline    *)
(* devices, one that comes online before the others are called is called.  *)
RunsReachSelectedDevices ==
    \A d \in Devices, r \in RunIds :
        \/ d \in direct[r] \/ r \in handler[d] \/ calls[d][r] > 0 \/ r \in results[d]
        => r \in DOMAIN runs /\ d \in runs[r].selected

(* The inductive invariant of script runs. *)
ScriptInvariant ==
    /\ TypeOK
    /\ DispatchesAgree
    /\ DueTimesAreBehind
    /\ OneRunPerDueTime
    /\ RunsReachSelectedDevices

(* A run that has its result, and is not under way to the device any more, *)
(* is never run there again, whatever the heartbeats and dispatches do.    *)
Settled(d, r) ==
    /\ r \in results[d] /\ calls[d][r] = 0
    /\ d \notin direct[r] /\ r \notin handler[d]
SettledRunsStaySettled ==
    [][\A d \in Devices, r \in RunIds : Settled(d, r) => Settled(d, r)']_vars

(* The latest run of a script for a connected device that can run it is    *)
(* answered, whatever was lost, unless the device goes, a later run takes  *)
(* its place or the script is deleted.  (A run the device cannot run is    *)
(* sent with every heartbeat for ever.)                                    *)
Answerable(d) == {r \in GetPendingScriptRuns(d) : <<d, runs[r].script>> \in CanRun}
PendingRunsAreAnswered ==
    \A d \in Devices, r \in RunIds :
        r \in Answerable(d) /\ connected[d]
            ~> \/ r \in results[d] \/ ~connected[d]
               \/ r \in DOMAIN runs /\ runs[r].script = NoScript
               \/ \E q \in DOMAIN runs :
                     q > r /\ d \in runs[q].devices /\ runs[q].script = runs[r].script
=============================================================================
