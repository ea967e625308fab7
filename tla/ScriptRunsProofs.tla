--------------------------- MODULE ScriptRunsProofs ---------------------------
(***************************************************************************)
(* Proofs about ScriptRuns, for every number of devices, scripts, timers   *)
(* and runs and every schedule: its invariant, with one run for each time  *)
(* a schedule is due, and that a run that is settled stays settled.        *)
(***************************************************************************)
EXTENDS ScriptRuns, TLAPS

-----------------------------------------------------------------------------
LEMMA ScriptInit == Init => ScriptInvariant
<1> SUFFICES ASSUME Init PROVE ScriptInvariant
  OBVIOUS
<1>1. TypeOK
  <2>1. runs \in Seq(RunRecords) /\ Len(runs) = 0
    BY DEF Init
  <2> QED BY <2>1, ScriptAssumption DEF Init, TypeOK, IdleTick, TickRecords, RunIds
<1>2. DOMAIN runs = {}
  BY DEF Init
<1>3. DispatchesAgree
  BY DEF Init, DispatchesAgree, IdleTick
<1>4. DueTimesAreBehind /\ OneRunPerDueTime
  BY <1>2 DEF DueTimesAreBehind, OneRunPerDueTime
<1>5. RunsReachSelectedDevices
  BY DEF Init, RunsReachSelectedDevices
<1> QED BY <1>1, <1>3, <1>4, <1>5 DEF ScriptInvariant

(* What appending a run does to the table. *)
LEMMA OneMoreRun ==
    ASSUME TypeOK, NEW s \in Scripts, NEW ds \in SUBSET Devices, NEW f \in BOOLEAN,
           NEW due \in Grid \cup {OneTime}, AddScriptRun(s, ds, f, due)
    PROVE  /\ runs' \in Seq(RunRecords) /\ Len(runs') = Len(runs) + 1
           /\ Len(runs') <= MaxRuns /\ Len(runs) \in Nat
           /\ DOMAIN runs' = DOMAIN runs \cup {Len(runs) + 1}
           /\ Len(runs) + 1 \notin DOMAIN runs /\ Len(runs) + 1 \in RunIds
           /\ \A r \in DOMAIN runs : runs'[r] = runs[r]
           /\ runs'[Len(runs) + 1].due = due
           /\ direct'[Len(runs) + 1] \subseteq runs'[Len(runs) + 1].selected
           /\ direct' \in [RunIds -> SUBSET Devices]
           /\ \A r \in RunIds \ {Len(runs) + 1} : direct'[r] = direct[r]
<1> DEFINE run == [script |-> s, due |-> due, selected |-> ds,
                   devices |-> IF f THEN ds ELSE ds \cap Online]
<1>1. run \in RunRecords
  BY DEF RunRecords, Online
<1>2. runs \in Seq(RunRecords) /\ Len(runs) \in Nat /\ MaxRuns \in Nat
  BY ScriptAssumption DEF TypeOK
<1>3. Len(runs) < MaxRuns /\ runs' = Append(runs, run)
      /\ direct' = [direct EXCEPT ![Len(runs) + 1] = ds]
  BY DEF AddScriptRun
<1> HIDE DEF run
<1>4. /\ runs' \in Seq(RunRecords) /\ Len(runs') = Len(runs) + 1
      /\ DOMAIN runs' = 1 .. (Len(runs) + 1) /\ DOMAIN runs = 1 .. Len(runs)
      /\ \A r \in 1 .. Len(runs) : runs'[r] = runs[r]
      /\ runs'[Len(runs) + 1] = run
  BY <1>1, <1>2, <1>3
<1>5. Len(runs) + 1 \in RunIds
  BY <1>2, <1>3 DEF RunIds
<1>6. /\ direct' \in [RunIds -> SUBSET Devices]
      /\ direct'[Len(runs) + 1] = ds
      /\ \A r \in RunIds \ {Len(runs) + 1} : direct'[r] = direct[r]
  BY <1>3, <1>5 DEF TypeOK
<1>7. run.due = due /\ run.selected = ds
  BY DEF run
<1> QED BY <1>2, <1>3, <1>4, <1>5, <1>6, <1>7

(* Adding a run leaves every device with runs it was selected for. *)
LEMMA RunsStillReach ==
    ASSUME RunsReachSelectedDevices, UNCHANGED <<handler, calls, results>>, NEW n \in RunIds,
           DOMAIN runs' = DOMAIN runs \cup {n}, n \notin DOMAIN runs,
           \A r \in DOMAIN runs : runs'[r] = runs[r],
           direct'[n] \subseteq runs'[n].selected,
           \A r \in RunIds \ {n} : direct'[r] = direct[r]
    PROVE  RunsReachSelectedDevices'
BY DEF RunsReachSelectedDevices

-----------------------------------------------------------------------------
(* The dispatcher keeps the invariant. *)

LEMMA TimerKeeps ==
    ASSUME ScriptInvariant, NEW t \in Ticks, SchedulerTimerElapsed(t)
    PROVE  ScriptInvariant'
<1> USE DEF SchedulerTimerElapsed, DeliveryUnchanged
<1>1. TypeOK'
  BY DEF ScriptInvariant, TypeOK, TickRecords
<1>2. DispatchesAgree'
  <2> SUFFICES ASSUME NEW u \in Ticks
               PROVE  /\ tick'[u].phase # "idle" => lock' = u
                      /\ tick'[u].phase \in {"due", "created"} => tick'[u].due = nextRun'
                      /\ tick'[u].phase = "due" => nextRun' < now'
                      /\ tick'[u].phase = "created" => tick'[u].next > nextRun'
    BY DEF DispatchesAgree
  <2>1. lock # u
    BY ScriptAssumption
  <2>2. tick[u].phase = "idle"
    BY <2>1 DEF ScriptInvariant, DispatchesAgree
  <2>3. tick' = [tick EXCEPT ![t].phase = "reading"] /\ tick \in [Ticks -> TickRecords]
    BY DEF ScriptInvariant, TypeOK
  <2> QED BY <2>2, <2>3 DEF TickRecords
<1>3. \A u \in Ticks : tick[u].phase = "created" => tick'[u].phase = "created"
  BY DEF ScriptInvariant, TypeOK, TickRecords
<1>4. DueTimesAreBehind'
  BY <1>3 DEF ScriptInvariant, DueTimesAreBehind
<1>5. OneRunPerDueTime'
  BY DEF ScriptInvariant, OneRunPerDueTime
<1>6. RunsReachSelectedDevices'
  BY DEF ScriptInvariant, RunsReachSelectedDevices
<1> QED BY <1>1, <1>2, <1>4, <1>5, <1>6 DEF ScriptInvariant

LEMMA ReadingKeeps ==
    ASSUME ScriptInvariant, NEW t \in Ticks, GetScriptSchedulesDue(t)
    PROVE  ScriptInvariant'
<1> USE DEF GetScriptSchedulesDue, DeliveryUnchanged, Release, IdleTick
<1>1. tick[t] \in TickRecords /\ tick[t].phase = "reading" /\ nextRun \in Grid /\ lock = t
  BY DEF ScriptInvariant, TypeOK, DispatchesAgree
<1>2. TypeOK'
  <2>1. /\ [phase |-> "due", due |-> nextRun, next |-> 0] \in TickRecords
        /\ [phase |-> "idle", due |-> 0, next |-> 0] \in TickRecords
    BY <1>1 DEF TickRecords
  <2>2. tick' \in [Ticks -> TickRecords] /\ lock' \in Ticks \cup {Nobody}
    BY <2>1 DEF ScriptInvariant, TypeOK
  <2> QED BY <2>2 DEF ScriptInvariant, TypeOK
<1>3. DispatchesAgree'
  <2> SUFFICES ASSUME NEW u \in Ticks
               PROVE  /\ tick'[u].phase # "idle" => lock' = u
                      /\ tick'[u].phase \in {"due", "created"} => tick'[u].due = nextRun'
                      /\ tick'[u].phase = "due" => nextRun' < now'
                      /\ tick'[u].phase = "created" => tick'[u].next > nextRun'
    BY DEF DispatchesAgree
  <2>1. u # t => tick[u].phase = "idle" /\ tick'[u] = tick[u]
    BY <1>1 DEF ScriptInvariant, DispatchesAgree, TypeOK
  <2>2. /\ tick'[t].phase \in {"due", "idle"}
        /\ tick'[t].phase = "due" => lock' = t /\ tick'[t].due = nextRun /\ nextRun < now
    BY <1>1 DEF ScriptInvariant, TypeOK
  <2> QED BY <2>1, <2>2
<1>4. \A u \in Ticks : tick[u].phase = "created" => tick'[u].phase = "created"
  BY <1>1 DEF ScriptInvariant, TypeOK
<1>5. DueTimesAreBehind'
  BY <1>4 DEF ScriptInvariant, DueTimesAreBehind
<1>6. OneRunPerDueTime' /\ RunsReachSelectedDevices'
  BY DEF ScriptInvariant, OneRunPerDueTime, RunsReachSelectedDevices
<1> QED BY <1>2, <1>3, <1>5, <1>6 DEF ScriptInvariant

(* The first time that has not passed is later than the one that has. *)
LEMMA ScheduledRunKeeps ==
    ASSUME ScriptInvariant, NEW t \in Ticks, CreateScheduledRun(t)
    PROVE  ScriptInvariant'
<1>1. /\ tick[t].phase = "due" /\ tick[t].due = nextRun /\ nextRun < now /\ lock = t
      /\ nextRun \in Grid /\ now \in Nat /\ Grid \subseteq Nat /\ OneTime \notin Grid
  BY ScriptAssumption
     DEF CreateScheduledRun, ScriptInvariant, DispatchesAgree, TypeOK, OneTime
<1>2. \A u \in Ticks \ {t} : tick[u].phase = "idle"
  BY <1>1 DEF ScriptInvariant, DispatchesAgree
<1>3. PICK next \in Grid :
         /\ next >= now
         /\ tick' = [tick EXCEPT ![t] = [phase |-> "created", due |-> @.due, next |-> next]]
  BY DEF CreateScheduledRun
<1>4. /\ tick'[t] = [phase |-> "created", due |-> nextRun, next |-> next]
      /\ \A u \in Ticks \ {t} : tick'[u] = tick[u]
  BY <1>1, <1>3 DEF ScriptInvariant, TypeOK
<1>5. UNCHANGED <<now, schedule, deleted, nextRun, lock, unsaved, connected, handler, calls,
                  results, events>>
  BY DEF CreateScheduledRun, DeliveryUnchanged
<1>6. /\ AddScriptRun(schedule.script, schedule.devices, schedule.runOnNextConnect, nextRun)
      /\ schedule.script \in Scripts /\ schedule.devices \in SUBSET Devices
      /\ schedule.runOnNextConnect \in BOOLEAN /\ TypeOK
      /\ nextRun \in Grid \cup {OneTime}
  BY <1>1 DEF CreateScheduledRun, ScriptInvariant, TypeOK, Schedules
<1> DEFINE n == Len(runs) + 1
<1>7. /\ runs' \in Seq(RunRecords) /\ Len(runs') <= MaxRuns
      /\ DOMAIN runs' = DOMAIN runs \cup {n} /\ n \notin DOMAIN runs /\ n \in RunIds
      /\ \A r \in DOMAIN runs : runs'[r] = runs[r]
      /\ runs'[n].due = nextRun /\ direct'[n] \subseteq runs'[n].selected
      /\ direct' \in [RunIds -> SUBSET Devices]
      /\ \A r \in RunIds \ {n} : direct'[r] = direct[r]
  BY <1>6, OneMoreRun, ZenonT(40)
<1> HIDE DEF n
<1>8. TypeOK'
  BY <1>1, <1>3, <1>4, <1>5, <1>7 DEF ScriptInvariant, TypeOK, TickRecords
<1>9. DispatchesAgree'
  BY <1>1, <1>2, <1>3, <1>4, <1>5 DEF DispatchesAgree
<1>10. DueTimesAreBehind'
  BY <1>1, <1>2, <1>4, <1>5, <1>7 DEF ScriptInvariant, DueTimesAreBehind
<1>11. OneRunPerDueTime'
  <2>1. \A r \in DOMAIN runs : runs[r].due = nextRun => nextRun \in unsaved
    <3>1. nextRun # OneTime /\ ~(nextRun < nextRun)
      BY <1>1
    <3>2. ~\E u \in Ticks : tick[u].phase = "created"
      BY <1>1, <1>2
    <3> QED BY <3>1, <3>2 DEF ScriptInvariant, DueTimesAreBehind
  <2> QED BY <2>1, <1>5, <1>7 DEF ScriptInvariant, OneRunPerDueTime
<1>12. RunsReachSelectedDevices'
  BY <1>5, <1>7, RunsStillReach DEF ScriptInvariant
<1> QED BY <1>8, <1>9, <1>10, <1>11, <1>12 DEF ScriptInvariant

LEMMA SavingKeeps ==
    ASSUME ScriptInvariant, NEW t \in Ticks, SaveSchedule(t)
    PROVE  ScriptInvariant'
<1>1. /\ tick[t].phase = "created" /\ tick[t].next > nextRun /\ lock = t
      /\ tick[t].next \in Grid \cup {0} /\ nextRun \in Grid /\ Grid \subseteq Nat \ {0}
  BY ScriptAssumption DEF SaveSchedule, ScriptInvariant, DispatchesAgree, TypeOK, TickRecords
<1>2. /\ nextRun' = tick[t].next /\ lock' = Nobody
      /\ tick' = [tick EXCEPT ![t] = [phase |-> "idle", due |-> 0, next |-> 0]]
      /\ UNCHANGED <<now, schedule, deleted, unsaved, runs, direct, connected, handler, calls,
                     results, events>>
  BY DEF SaveSchedule, Release, IdleTick, DeliveryUnchanged
<1>3. nextRun' \in Grid /\ nextRun' > nextRun
  BY <1>1, <1>2
<1>4. TypeOK'
  BY <1>2, <1>3 DEF ScriptInvariant, TypeOK, TickRecords
<1>5. \A u \in Ticks : tick'[u].phase = "idle"
  BY <1>1, <1>2 DEF ScriptInvariant, TypeOK, DispatchesAgree
<1>6. DispatchesAgree'
  BY <1>5 DEF DispatchesAgree
<1>7. DueTimesAreBehind'
  <2> SUFFICES ASSUME NEW r \in DOMAIN runs, runs[r].due # OneTime
               PROVE  runs[r].due < nextRun'
    BY <1>2 DEF DueTimesAreBehind
  <2>1. runs[r] \in RunRecords
    BY DEF ScriptInvariant, TypeOK
  <2>2. runs[r].due \in Nat
    BY <1>1, <2>1 DEF RunRecords, OneTime
  <2>3. runs[r].due < nextRun \/ runs[r].due = nextRun
    BY DEF ScriptInvariant, DueTimesAreBehind
  <2>4. nextRun \in Nat /\ nextRun' \in Nat /\ nextRun < nextRun'
    BY <1>1, <1>3
  <2> QED BY ONLY <2>2, <2>3, <2>4
<1>8. OneRunPerDueTime' /\ RunsReachSelectedDevices'
  BY <1>2 DEF ScriptInvariant, OneRunPerDueTime, RunsReachSelectedDevices
<1> QED BY <1>4, <1>6, <1>7, <1>8 DEF ScriptInvariant

LEMMA FailureKeeps ==
    ASSUME ScriptInvariant, NEW t \in Ticks, DispatchFails(t)
    PROVE  ScriptInvariant'
<1>1. /\ tick[t].phase # "idle" /\ lock = t /\ lock' = Nobody
      /\ tick[t].phase = "created" => tick[t].due = nextRun
      /\ nextRun \in Grid
      /\ tick' = [tick EXCEPT ![t] = [phase |-> "idle", due |-> 0, next |-> 0]]
      /\ UNCHANGED <<now, schedule, deleted, nextRun, runs, connected, handler, calls, results, events>>
  BY DEF DispatchFails, ScriptInvariant, DispatchesAgree, TypeOK, Release, IdleTick,
         DeliveryUnchanged
<1>2. unsaved' = IF tick[t].phase = "created" THEN unsaved \cup {nextRun} ELSE unsaved
  BY <1>1 DEF DispatchFails
<1>3. \A r \in RunIds : direct'[r] \subseteq direct[r]
  BY DEF DispatchFails
<1>4. direct' \in [RunIds -> SUBSET Devices]
  BY DEF DispatchFails, ScriptInvariant, TypeOK
<1>5. TypeOK'
  BY <1>1, <1>2, <1>4 DEF ScriptInvariant, TypeOK, TickRecords
<1>6. \A u \in Ticks : tick'[u].phase = "idle"
  BY <1>1 DEF ScriptInvariant, TypeOK, DispatchesAgree
<1>7. DispatchesAgree'
  BY <1>6 DEF DispatchesAgree
<1>8. (\E u \in Ticks : tick[u].phase = "created") => nextRun \in unsaved'
  BY <1>1, <1>2 DEF ScriptInvariant, DispatchesAgree
<1>9. DueTimesAreBehind'
  BY <1>1, <1>2, <1>8 DEF ScriptInvariant, DueTimesAreBehind
<1>10. OneRunPerDueTime'
  BY <1>1, <1>2 DEF ScriptInvariant, OneRunPerDueTime
<1>11. RunsReachSelectedDevices'
  BY <1>1, <1>3 DEF ScriptInvariant, RunsReachSelectedDevices
<1> QED BY <1>5, <1>7, <1>9, <1>10, <1>11 DEF ScriptInvariant

-----------------------------------------------------------------------------
(* So do the users and the devices. *)

(* A run somebody asked for is about no due time. *)
LEMMA OneTimeRunKeeps ==
    ASSUME ScriptInvariant, NEW n \in RunIds,
           UNCHANGED <<now, schedule, scheduling, deleted, connected, handler, calls, results, events>>,
           runs' \in Seq(RunRecords), Len(runs') <= MaxRuns,
           DOMAIN runs' = DOMAIN runs \cup {n}, n \notin DOMAIN runs,
           \A r \in DOMAIN runs : runs'[r] = runs[r],
           runs'[n].due = OneTime,
           direct'[n] \subseteq runs'[n].selected,
           direct' \in [RunIds -> SUBSET Devices],
           \A r \in RunIds \ {n} : direct'[r] = direct[r]
    PROVE  ScriptInvariant'
<1>1. TypeOK' /\ DispatchesAgree'
  BY DEF ScriptInvariant, TypeOK, DispatchesAgree, scheduling
<1>2. DueTimesAreBehind' /\ OneRunPerDueTime'
  BY DEF ScriptInvariant, DueTimesAreBehind, OneRunPerDueTime, scheduling
<1>3. RunsReachSelectedDevices'
  BY RunsStillReach DEF ScriptInvariant
<1> QED BY <1>1, <1>2, <1>3 DEF ScriptInvariant

(* A deleted script leaves its runs, with their due times and devices. *)
LEMMA DeletionKeeps ==
    ASSUME ScriptInvariant, NEW s \in Scripts, DeleteSavedScript(s)
    PROVE  ScriptInvariant'
<1> DEFINE without(r) == IF runs[r].script = s THEN [runs[r] EXCEPT !.script = NoScript] ELSE runs[r]
<1>1. /\ runs' = [r \in DOMAIN runs |-> without(r)] /\ deleted' = deleted \cup {s}
      /\ UNCHANGED <<now, schedule, scheduling, direct, connected, handler, calls, results>>
      /\ events < MaxEvents /\ events' = events + 1
  BY DEF DeleteSavedScript
<1>2. runs \in Seq(RunRecords) /\ Len(runs) \in Nat /\ DOMAIN runs = 1 .. Len(runs)
      /\ Len(runs) <= MaxRuns
  BY DEF ScriptInvariant, TypeOK
<1>3. \A r \in DOMAIN runs : /\ without(r) \in RunRecords
                             /\ without(r).due = runs[r].due
                             /\ without(r).selected = runs[r].selected
  <2> SUFFICES ASSUME NEW r \in DOMAIN runs
               PROVE  /\ without(r) \in RunRecords /\ without(r).due = runs[r].due
                      /\ without(r).selected = runs[r].selected
    OBVIOUS
  <2>1. runs[r] \in RunRecords
    BY <1>2
  <2> QED BY <2>1 DEF RunRecords
<1> HIDE DEF without
<1>4. runs' \in Seq(RunRecords) /\ Len(runs') = Len(runs) /\ DOMAIN runs' = DOMAIN runs
  <2>1. runs' \in [1 .. Len(runs) -> RunRecords]
    BY <1>1, <1>2, <1>3
  <2> QED BY <1>2, <2>1
<1>5. \A r \in DOMAIN runs : runs'[r].due = runs[r].due /\ runs'[r].selected = runs[r].selected
  BY <1>1, <1>3
<1>6. TypeOK'
  <2>1. events' \in 0 .. MaxEvents
    BY <1>1, ScriptAssumption DEF ScriptInvariant, TypeOK
  <2> QED BY <1>1, <1>2, <1>4, <2>1 DEF ScriptInvariant, TypeOK, scheduling
<1>7. DispatchesAgree'
  BY <1>1 DEF ScriptInvariant, DispatchesAgree, scheduling
<1>8. DueTimesAreBehind' /\ OneRunPerDueTime'
  BY <1>1, <1>4, <1>5 DEF ScriptInvariant, DueTimesAreBehind, OneRunPerDueTime, scheduling
<1>9. RunsReachSelectedDevices'
  BY <1>1, <1>4, <1>5 DEF ScriptInvariant, RunsReachSelectedDevices
<1> QED BY <1>6, <1>7, <1>8, <1>9 DEF ScriptInvariant

LEMMA UserKeeps ==
    ASSUME ScriptInvariant, User
    PROVE  ScriptInvariant'
<1>1. TypeOK
  BY DEF ScriptInvariant
<1>2. ASSUME NEW s \in Scripts, NEW ds \in SUBSET Devices, NEW f \in BOOLEAN,
             RunScriptPage(s, ds, f)
      PROVE  ScriptInvariant'
  <2>1. /\ AddScriptRun(s, ds, f, OneTime) /\ OneTime \in Grid \cup {OneTime}
        /\ UNCHANGED <<now, schedule, scheduling, deleted, connected, handler, calls, results, events>>
    BY <1>2 DEF RunScriptPage, DeliveryUnchanged
  <2> DEFINE n == Len(runs) + 1
  <2>2. /\ runs' \in Seq(RunRecords) /\ Len(runs') <= MaxRuns
        /\ DOMAIN runs' = DOMAIN runs \cup {n} /\ n \notin DOMAIN runs /\ n \in RunIds
        /\ \A r \in DOMAIN runs : runs'[r] = runs[r]
        /\ runs'[n].due = OneTime /\ direct'[n] \subseteq runs'[n].selected
        /\ direct' \in [RunIds -> SUBSET Devices]
        /\ \A r \in RunIds \ {n} : direct'[r] = direct[r]
    BY <1>1, <2>1, OneMoreRun, Zenon
  <2> HIDE DEF n
  <2> QED BY <2>1, <2>2, OneTimeRunKeeps, Zenon
<1>3. ASSUME NEW s \in Scripts, DeleteSavedScript(s)
      PROVE  ScriptInvariant'
  BY <1>3, DeletionKeeps
<1> QED BY <1>2, <1>3 DEF User

(* A step that only moves runs about, towards devices selected for them. *)
LEMMA DeliveryKeeps ==
    ASSUME ScriptInvariant, UNCHANGED <<now, schedule, scheduling, deleted, runs>>,
           TypeOK', RunsReachSelectedDevices'
    PROVE  ScriptInvariant'
BY DEF ScriptInvariant, scheduling, DispatchesAgree, DueTimesAreBehind, OneRunPerDueTime

(* The bound on calls leaves a number of them. *)
LEMMA OneMoreIsNat == ASSUME NEW n \in Nat PROVE OneMore(n) \in Nat
BY DEF OneMore

LEMMA RunScriptKeeps ==
    ASSUME ScriptInvariant, NEW r \in RunIds, RunScript(r)
    PROVE  ScriptInvariant'
<1> DEFINE called(d) == IF d \in direct[r] \cap Online
                        THEN [calls[d] EXCEPT ![r] = OneMore(@)] ELSE calls[d]
<1>1. \A d \in Devices : called(d) \in [RunIds -> Nat]
  BY OneMoreIsNat DEF ScriptInvariant, TypeOK
<1>2. calls' = [d \in Devices |-> called(d)]
  BY DEF RunScript
<1>3. TypeOK'
  <2>1. calls' \in [Devices -> [RunIds -> Nat]]
    BY <1>1, <1>2
  <2> QED BY <2>1 DEF RunScript, ScriptInvariant, TypeOK, scheduling
<1>4. \A d \in Devices, q \in RunIds :
         calls'[d][q] > 0 => calls[d][q] > 0 \/ (q = r /\ d \in direct[r])
  BY <1>2 DEF ScriptInvariant, TypeOK
<1>5. \A q \in RunIds : direct'[q] \subseteq direct[q]
  BY DEF RunScript, ScriptInvariant, TypeOK
<1>6. RunsReachSelectedDevices'
  BY <1>4, <1>5 DEF RunScript, ScriptInvariant, RunsReachSelectedDevices
<1> QED BY <1>3, <1>6, DeliveryKeeps DEF RunScript

LEMMA HeartbeatKeeps ==
    ASSUME ScriptInvariant, NEW d \in Devices, DeviceHeartbeat(d)
    PROVE  ScriptInvariant'
<1>1. GetPendingScriptRuns(d) \subseteq {r \in DOMAIN runs : d \in runs[r].selected}
  <2>1. \A r \in DOMAIN runs : runs[r] \in RunRecords
    BY DEF ScriptInvariant, TypeOK
  <2> QED BY <2>1 DEF GetPendingScriptRuns, RunRecords
<1>2. DOMAIN runs \subseteq RunIds
  BY ScriptAssumption DEF ScriptInvariant, TypeOK, RunIds
<1>3. TypeOK'
  BY <1>1, <1>2 DEF DeviceHeartbeat, ScriptInvariant, TypeOK, scheduling
<1>4. RunsReachSelectedDevices'
  BY <1>1 DEF DeviceHeartbeat, ScriptInvariant, TypeOK, RunsReachSelectedDevices
<1> QED BY <1>3, <1>4, DeliveryKeeps DEF DeviceHeartbeat

LEMMA CheckKeeps ==
    ASSUME ScriptInvariant, NEW d \in Devices, CheckForPendingScriptRuns(d)
    PROVE  ScriptInvariant'
<1> DEFINE sent == [r \in RunIds |-> IF r \in handler[d] THEN OneMore(calls[d][r]) ELSE calls[d][r]]
<1>1. calls' = [calls EXCEPT ![d] = sent] /\ sent \in [RunIds -> Nat]
  BY OneMoreIsNat DEF CheckForPendingScriptRuns, ScriptInvariant, TypeOK
<1>2. TypeOK'
  BY <1>1 DEF CheckForPendingScriptRuns, ScriptInvariant, TypeOK, scheduling
<1>3. \A c \in Devices, q \in RunIds :
         calls'[c][q] > 0 => calls[c][q] > 0 \/ (c = d /\ q \in handler[d])
  BY <1>1 DEF ScriptInvariant, TypeOK
<1>4. \A c \in Devices : handler'[c] \subseteq handler[c]
  BY DEF CheckForPendingScriptRuns, ScriptInvariant, TypeOK
<1>5. RunsReachSelectedDevices'
  BY <1>3, <1>4 DEF CheckForPendingScriptRuns, ScriptInvariant, RunsReachSelectedDevices
<1> QED BY <1>2, <1>5, DeliveryKeeps DEF CheckForPendingScriptRuns

LEMMA CallEnds ==
    ASSUME ScriptInvariant, NEW d \in Devices, NEW r \in RunIds,
           ScriptRunDone(d, r) \/ ScriptRunLost(d, r)
    PROVE  ScriptInvariant'
<1>1. /\ calls[d][r] > 0 /\ calls' = [calls EXCEPT ![d][r] = @ - 1]
      /\ UNCHANGED <<now, schedule, scheduling, deleted, runs, direct, connected, handler, events>>
      /\ results' \in {results, [results EXCEPT ![d] = @ \cup {r}]}
  BY DEF ScriptRunDone, ScriptRunLost
<1>2. calls' \in [Devices -> [RunIds -> Nat]] /\ results' \in [Devices -> SUBSET RunIds]
  <2>1. calls[d] \in [RunIds -> Nat] /\ calls[d][r] - 1 \in Nat
    BY <1>1 DEF ScriptInvariant, TypeOK
  <2>2. [calls[d] EXCEPT ![r] = @ - 1] \in [RunIds -> Nat]
    BY <2>1
  <2>3. calls' = [calls EXCEPT ![d] = [calls[d] EXCEPT ![r] = @ - 1]]
    BY <1>1
  <2>4. calls' \in [Devices -> [RunIds -> Nat]]
    BY <2>2, <2>3 DEF ScriptInvariant, TypeOK
  <2>5. results' \in [Devices -> SUBSET RunIds]
    <3>1. results[d] \cup {r} \in SUBSET RunIds /\ results \in [Devices -> SUBSET RunIds]
      BY DEF ScriptInvariant, TypeOK
    <3>2. [results EXCEPT ![d] = @ \cup {r}] \in [Devices -> SUBSET RunIds]
      BY <3>1
    <3> QED BY <1>1, <3>1, <3>2
  <2> QED BY <2>4, <2>5
<1>3. TypeOK'
  BY <1>1, <1>2 DEF ScriptInvariant, TypeOK, scheduling
<1>4. /\ \A c \in Devices, q \in RunIds : calls'[c][q] > 0 => calls[c][q] > 0
      /\ \A c \in Devices, q \in RunIds :
            q \in results'[c] => q \in results[c] \/ calls[c][q] > 0
  <2>1. ASSUME NEW c \in Devices, NEW q \in RunIds
        PROVE  calls'[c][q] = (IF c = d /\ q = r THEN calls[c][q] - 1 ELSE calls[c][q])
    <3>1. calls \in [Devices -> [RunIds -> Nat]]
      BY DEF ScriptInvariant, TypeOK
    <3> QED BY ONLY <1>1, <3>1
  <2>2. calls \in [Devices -> [RunIds -> Nat]] /\ results \in [Devices -> SUBSET RunIds]
    BY DEF ScriptInvariant, TypeOK
  <2>3. ASSUME NEW c \in Devices, NEW q \in RunIds, calls'[c][q] > 0
        PROVE  calls[c][q] > 0
    <3>1. calls[c][q] \in Nat
      BY ONLY <2>2
    <3> QED BY ONLY <2>1, <2>3, <3>1
  <2>4. ASSUME NEW c \in Devices, NEW q \in RunIds, q \in results'[c]
        PROVE  q \in results[c] \/ calls[c][q] > 0
    <3>1. CASE results' = results
      BY ONLY <2>4, <3>1
    <3>2. CASE results' = [results EXCEPT ![d] = @ \cup {r}]
      <4>1. results'[c] = (IF c = d THEN results[c] \cup {r} ELSE results[c])
        BY ONLY <2>2, <3>2
      <4> QED BY ONLY <1>1, <2>4, <4>1
    <3> QED BY <1>1, <3>1, <3>2
  <2> QED BY ONLY <2>3, <2>4
<1>5. RunsReachSelectedDevices'
  BY <1>1, <1>4 DEF ScriptInvariant, RunsReachSelectedDevices
<1> QED BY <1>1, <1>3, <1>5, DeliveryKeeps

LEMMA ConnectionKeeps ==
    ASSUME ScriptInvariant, NEW d \in Devices, DeviceCameOnline(d) \/ OnDisconnected(d)
    PROVE  ScriptInvariant'
<1>1. /\ UNCHANGED <<now, schedule, scheduling, deleted, runs, direct, calls, results>>
      /\ connected' \in [Devices -> BOOLEAN]
      /\ handler' \in {handler, [handler EXCEPT ![d] = {}]}
      /\ events' \in 0 .. MaxEvents
  <2>1. CASE DeviceCameOnline(d)
    BY <2>1 DEF DeviceCameOnline, ScriptInvariant, TypeOK
  <2>2. CASE OnDisconnected(d)
    BY <2>2, ScriptAssumption DEF OnDisconnected, ScriptInvariant, TypeOK
  <2> QED BY <2>1, <2>2
<1>2. TypeOK'
  BY <1>1 DEF ScriptInvariant, TypeOK, scheduling
<1>3. RunsReachSelectedDevices'
  BY <1>1 DEF ScriptInvariant, TypeOK, RunsReachSelectedDevices
<1> QED BY <1>1, <1>2, <1>3, DeliveryKeeps

LEMMA RestartKeeps ==
    ASSUME ScriptInvariant, ServerRestarts
    PROVE  ScriptInvariant'
<1> USE DEF ServerRestarts, IdleTick
<1> DEFINE failed == {tick[t].due : t \in {u \in Ticks : tick[u].phase = "created"}}
<1>1. unsaved' = unsaved \cup failed
  OBVIOUS
<1>2. /\ failed \subseteq {nextRun} /\ nextRun \in Grid
      /\ (\E t \in Ticks : tick[t].phase = "created") => nextRun \in failed
  BY DEF ScriptInvariant, TypeOK, DispatchesAgree
<1> HIDE DEF failed
<1>3. TypeOK'
  <2>1. [phase |-> "idle", due |-> 0, next |-> 0] \in TickRecords
    BY DEF TickRecords
  <2>2. tick' \in [Ticks -> TickRecords] /\ calls' \in [Devices -> [RunIds -> Nat]]
    BY <2>1
  <2>3. events' \in 0 .. MaxEvents
    BY ScriptAssumption DEF ScriptInvariant, TypeOK
  <2> QED BY <1>1, <1>2, <2>2, <2>3 DEF ScriptInvariant, TypeOK
<1>4. DispatchesAgree'
  BY DEF DispatchesAgree
<1>5. DueTimesAreBehind' /\ OneRunPerDueTime'
  BY <1>1, <1>2 DEF ScriptInvariant, DueTimesAreBehind, OneRunPerDueTime
<1>6. RunsReachSelectedDevices'
  BY DEF ScriptInvariant, RunsReachSelectedDevices
<1> QED BY <1>3, <1>4, <1>5, <1>6 DEF ScriptInvariant

LEMMA ScriptNext == ScriptInvariant /\ [Next]_vars => ScriptInvariant'
<1> SUFFICES ASSUME ScriptInvariant, [Next]_vars PROVE ScriptInvariant'
  OBVIOUS
<1>1. CASE TimePasses
  <2>1. /\ now' = now + 1 /\ now' \in 0 .. MaxTime /\ now \in Nat /\ nextRun \in Nat
        /\ UNCHANGED <<schedule, scheduling, deleted, runs, direct, connected, handler, calls,
                       results, events>>
    BY <1>1, ScriptAssumption DEF TimePasses, ScriptInvariant, TypeOK
  <2>2. TypeOK' /\ DispatchesAgree'
    BY <2>1 DEF ScriptInvariant, TypeOK, DispatchesAgree, scheduling
  <2>3. DueTimesAreBehind' /\ OneRunPerDueTime' /\ RunsReachSelectedDevices'
    BY <2>1 DEF ScriptInvariant, DueTimesAreBehind, OneRunPerDueTime, RunsReachSelectedDevices,
                scheduling
  <2> QED BY <2>2, <2>3 DEF ScriptInvariant
<1>2. CASE \E t \in Ticks : Dispatch(t)
  BY <1>2, TimerKeeps, ReadingKeeps, ScheduledRunKeeps, SavingKeeps, FailureKeeps DEF Dispatch
<1>3. CASE User
  BY <1>3, UserKeeps
<1>4. CASE \E r \in RunIds : RunScript(r)
  BY <1>4, RunScriptKeeps
<1>5. CASE \E d \in Devices : Agent(d)
  BY <1>5, HeartbeatKeeps, CheckKeeps, CallEnds, ConnectionKeeps DEF Agent
<1>6. CASE ServerRestarts
  BY <1>6, RestartKeeps
<1>7. CASE UNCHANGED vars
  BY <1>7 DEF vars, scheduling, ScriptInvariant, TypeOK, DispatchesAgree, DueTimesAreBehind,
              OneRunPerDueTime, RunsReachSelectedDevices
<1> QED BY <1>1, <1>2, <1>3, <1>4, <1>5, <1>6, <1>7 DEF Next

(* In every state each due time has one run at most, but for those whose   *)
(* dispatch failed between the run and the row, and runs are on their way  *)
(* only to devices that were selected for them                             *)
(* (ScriptScheduleDispatcher.DispatchPendingScriptRuns, RunScript).        *)
THEOREM ScriptInvariantHolds == Spec => []ScriptInvariant
BY ScriptInit, ScriptNext, PTL DEF Spec

-----------------------------------------------------------------------------
(* A run that has its result, and is not under way to the device any more, *)
(* is never sent there again (GetPendingScriptRuns, AgentHub's heartbeat). *)
THEOREM SettledIsForGood == Spec => SettledRunsStaySettled
<1>1. ASSUME ScriptInvariant, [Next]_vars, NEW d \in Devices, NEW r \in RunIds, Settled(d, r)
      PROVE  Settled(d, r)'
  <2>1. /\ r \in results[d] /\ calls[d][r] = 0 /\ d \notin direct[r] /\ r \notin handler[d]
        /\ r \in DOMAIN runs /\ TypeOK
    BY <1>1 DEF Settled, ScriptInvariant, RunsReachSelectedDevices
  <2> SUFFICES r \in results'[d] /\ calls'[d][r] = 0 /\ d \notin direct'[r] /\ r \notin handler'[d]
    BY DEF Settled
  <2>3. CASE TimePasses \/ UNCHANGED vars
    BY <2>1, <2>3 DEF TimePasses, vars
  <2>4. ASSUME NEW t \in Ticks, Dispatch(t)
        PROVE  r \in results'[d] /\ calls'[d][r] = 0 /\ d \notin direct'[r] /\ r \notin handler'[d]
    <3>1. UNCHANGED <<calls, results, handler>>
      BY <2>4 DEF Dispatch, SchedulerTimerElapsed, GetScriptSchedulesDue, CreateScheduledRun,
                  SaveSchedule, DispatchFails, DeliveryUnchanged
    <3>2. CASE ~CreateScheduledRun(t)
      <4>1. direct'[r] \subseteq direct[r]
        BY <2>4, <3>2 DEF Dispatch, SchedulerTimerElapsed, GetScriptSchedulesDue,
                          SaveSchedule, DispatchFails
      <4> QED BY <2>1, <3>1, <4>1
    <3>3. CASE CreateScheduledRun(t)
      <4>1. /\ AddScriptRun(schedule.script, schedule.devices, schedule.runOnNextConnect,
                            tick[t].due)
            /\ schedule.script \in Scripts /\ schedule.devices \in SUBSET Devices
            /\ schedule.runOnNextConnect \in BOOLEAN
            /\ tick[t].due \in Grid \cup {OneTime} /\ TypeOK
        BY <2>1, <3>3 DEF CreateScheduledRun, TypeOK, Schedules, TickRecords, OneTime
      <4>2. /\ Len(runs) + 1 \notin DOMAIN runs
            /\ \A q \in RunIds \ {Len(runs) + 1} : direct'[q] = direct[q]
        BY <4>1, OneMoreRun, Zenon
      <4> QED BY <2>1, <3>1, <4>2
    <3> QED BY <3>2, <3>3
  <2>5. CASE User
    <3>1. UNCHANGED <<calls, results, handler>>
      BY <2>5 DEF User, RunScriptPage, DeleteSavedScript, DeliveryUnchanged
    <3>2. CASE \E s \in Scripts : DeleteSavedScript(s)
      BY <2>1, <3>1, <3>2 DEF DeleteSavedScript
    <3>3. CASE ~\E s \in Scripts : DeleteSavedScript(s)
      <4>1. /\ Len(runs) + 1 \notin DOMAIN runs
            /\ \A q \in RunIds \ {Len(runs) + 1} : direct'[q] = direct[q]
        <5>1. OneTime \in Grid \cup {OneTime}
          OBVIOUS
        <5>2. ASSUME NEW s \in Scripts, NEW ds \in SUBSET Devices, NEW f \in BOOLEAN,
                     AddScriptRun(s, ds, f, OneTime)
              PROVE  /\ Len(runs) + 1 \notin DOMAIN runs
                     /\ \A q \in RunIds \ {Len(runs) + 1} : direct'[q] = direct[q]
          BY <2>1, <5>1, <5>2, OneMoreRun, Zenon
        <5> QED BY <2>5, <3>3, <5>2 DEF User, RunScriptPage
      <4> QED BY <2>1, <3>1, <4>1
    <3> QED BY <3>2, <3>3
  <2>6. ASSUME NEW q \in RunIds, RunScript(q)
        PROVE  r \in results'[d] /\ calls'[d][r] = 0 /\ d \notin direct'[r] /\ r \notin handler'[d]
    BY <2>1, <2>6 DEF RunScript, TypeOK
  <2>7. ASSUME NEW c \in Devices, Agent(c)
        PROVE  r \in results'[d] /\ calls'[d][r] = 0 /\ d \notin direct'[r] /\ r \notin handler'[d]
    <3>1. CASE DeviceCameOnline(c) \/ OnDisconnected(c)
      BY <2>1, <3>1 DEF DeviceCameOnline, OnDisconnected, TypeOK
    <3>2. CASE DeviceHeartbeat(c)
      <4>1. r \notin GetPendingScriptRuns(d)
        BY <2>1 DEF GetPendingScriptRuns
      <4> QED BY <2>1, <3>2, <4>1 DEF DeviceHeartbeat, TypeOK
    <3>3. CASE CheckForPendingScriptRuns(c)
      <4>1. calls'[d][r] = calls[d][r] /\ handler'[d] \subseteq handler[d]
        BY <2>1, <3>3 DEF CheckForPendingScriptRuns, TypeOK
      <4> QED BY <2>1, <3>3, <4>1 DEF CheckForPendingScriptRuns
    <3>4. ASSUME NEW q \in RunIds, ScriptRunDone(c, q) \/ ScriptRunLost(c, q)
          PROVE  r \in results'[d] /\ calls'[d][r] = 0 /\ d \notin direct'[r] /\ r \notin handler'[d]
      <4>1. /\ calls[c][q] > 0 /\ calls' = [calls EXCEPT ![c][q] = @ - 1]
            /\ UNCHANGED <<direct, handler>>
            /\ results' \in {results, [results EXCEPT ![c] = @ \cup {q}]}
        BY <3>4 DEF ScriptRunDone, ScriptRunLost
      <4>2. c # d \/ q # r
        BY <2>1, <4>1
      <4>3. calls'[d][r] = calls[d][r] /\ results[d] \subseteq results'[d]
        BY <2>1, <4>1, <4>2 DEF TypeOK
      <4> QED BY <2>1, <4>1, <4>3
    <3> QED BY <2>7, <3>1, <3>2, <3>3, <3>4 DEF Agent
  <2>8. CASE ServerRestarts
    BY <2>1, <2>8 DEF ServerRestarts
  <2> QED BY <1>1, <2>3, <2>4, <2>5, <2>6, <2>7, <2>8 DEF Next
<1>2. ScriptInvariant /\ [Next]_vars =>
         [\A d \in Devices, r \in RunIds : Settled(d, r) => Settled(d, r)']_vars
  BY <1>1
<1> QED BY <1>2, ScriptInvariantHolds, PTL DEF Spec, SettledRunsStaySettled
=============================================================================
