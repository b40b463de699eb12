----------------------------- MODULE Scheduler -----------------------------
(***************************************************************************)
(* The calibration scheduler (pkg/daemon/scheduler.go) and the requests    *)
(* that drive it (schedule, postpone, skipNextSchedule in calibration.go). *)
(*                                                                         *)
(* One goroutine, the runner, owns a timer and selects between that timer, *)
(* a bounded control channel and the stop channel.  It works on a copy of  *)
(* the schedule and of the next run taken at the top of its loop, while    *)
(* requests change the originals under the scheduler's mutex and leave     *)
(* messages, or fail to, in the channel.  The stop channel is closed once  *)
(* and for all, and a Start before the old runner is gone may create a     *)
(* second one, so there are several runners.                               *)
(*                                                                         *)
(* Time is counted in ticks of preCheckInterval.  The clock `now' is wall  *)
(* time; timers count down only while the machine is awake.                *)
(***************************************************************************)
EXTENDS Integers, Sequences, FiniteSets

CONSTANTS
    Periods,        \* the cron expressions, as the period of their runs
    Delays,         \* the durations users postpone by
    SleepLengths,   \* how long the machine may sleep
    Lead,           \* leadDuration
    OverdueDelay,   \* overdueTaskDelay
    RetryDelay,     \* preCheckInterval
    MaxAttempts,    \* preCheckMaxTimes
    Capacity,       \* of the control channel
    WakeHook,       \* whether the sleep hooks are there (legacy control only)
    Prompt,         \* whether the clock waits for goroutines that can run
    Requests,       \* the requests users make
    SaveOutcomes,   \* whether conf.Save may fail: a subset of BOOLEAN
    PreCheckOutcomes, \* what PreCheck may say: a subset of BOOLEAN
    Clients,        \* concurrent requests
    Runners,        \* bound: goroutines of runScheduled alive at once
    MaxTime         \* bound: the clock

ASSUME ConstantsAssumption ==
    /\ Periods \subseteq Nat \ {0} /\ Delays \subseteq Nat \ {0}
    /\ SleepLengths \subseteq Nat \ {0}
    /\ {Lead, MaxAttempts, MaxTime} \subseteq Nat
    /\ {OverdueDelay, RetryDelay, Capacity} \subseteq Nat \ {0}
    /\ WakeHook \in BOOLEAN /\ Prompt \in BOOLEAN
    /\ SaveOutcomes \subseteq BOOLEAN /\ PreCheckOutcomes \subseteq BOOLEAN
    /\ Requests \subseteq {"schedule", "disable", "skip", "postpone", "restart"}
    /\ Runners # {}

VARIABLES
    now,        \* wall time
    cron,       \* conf.Cron() in memory and in the file, 0 when empty
    cronFile,
    schedule,   \* Scheduler.schedule, 0 for nil
    nextRun,    \* Scheduler.nextRun, 0 for the zero time
    running,    \* Scheduler.running
    stopped,    \* stopCh is closed
    controlCh,  \* the messages in the control channel
    runner,     \* the goroutines of runScheduled
    client,     \* what is left to do of each request
    wakeOwed,   \* systemHasPoweredOnCallback has not called HandleWakeUp yet
    started,    \* history: the runs whose Task was started,
    skipped,    \* the runs users have skipped, and those of them whose skip
    heeded      \* reached the channel before they were due

vars == <<now, cron, cronFile, schedule, nextRun, running, stopped,
          controlCh, runner, client, wakeOwed, started, skipped, heeded>>

sharedVars == <<schedule, nextRun>>
historyVars == <<started, skipped, heeded>>
confVars == <<cron, cronFile>>

-----------------------------------------------------------------------------
(* Schedules and timers *)

\* cron.Schedule.Next: the first run after a time.
NextAfter(s, t) == (t \div s + 1) * s

\* A timer is the ticks left, 0 when it has fired, Off when it never will.
Off == -1

\* A timer for a duration: durations that are not positive fire at once.
TimerFor(d) == IF d < 0 THEN 0 ELSE d

\* Where a runner is: "snapshot" at the top of its loop, "select", "precheck"
\* about to call PreCheck, "started" or "given up" about to advance the next
\* run, "exit" about to run its deferred function, "none" when there is no
\* such goroutine.  `announced' and `held' are history: the time the notice gave for
\* the run, and when the runner took it up, or the time to which users have postponed
\* it since.
NoRunner ==
    [at |-> "none", schedule |-> 0, nextRun |-> 0, leading |-> TRUE,
     attempts |-> 0, timer |-> Off, announced |-> 0, held |-> 0]

\* At the top of the loop, whose variables are declared anew.
AtTop == [NoRunner EXCEPT !.at = "snapshot"]

Idle == [at |-> "idle", kind |-> "none", data |-> 0]

\* A client that has a message to send and then goes on to `next'.
Sending(next, kind, data) == [at |-> next, kind |-> kind, data |-> data]

Message(kind, data) == [kind |-> kind, data |-> data]

\* trySendControl: a message to a full channel is dropped.
TrySend(kind, data) ==
    controlCh' = IF Len(controlCh) < Capacity
                 THEN Append(controlCh, Message(kind, data))
                 ELSE controlCh

\* A runner exists that has not left its loop.
Alive(r) == runner[r].at \notin {"none", "exit"}

\* Nothing but the clock can move: every request is finished, no runner has a
\* step to take.  With Prompt the clock waits for this: a tick is ten seconds.
Quiet ==
    /\ \A c \in Clients : client[c].at = "idle"
    /\ ~wakeOwed
    /\ \A r \in Runners :
          \/ runner[r].at = "none"
          \/ /\ runner[r].at = "select"
             /\ runner[r].timer # 0
             /\ controlCh = <<>>
             /\ ~stopped

-----------------------------------------------------------------------------
(* Start-up: the schedule saved in the configuration is taken up again *)

\* A new Scheduler for the saved cron expression c, at time t.
FreshNextRun(c, t) == IF c = 0 THEN 0 ELSE NextAfter(c, t)

FreshRunners(c) ==
    [r \in Runners |->
        IF c # 0 /\ r = CHOOSE x \in Runners : TRUE
        THEN AtTop ELSE NoRunner]

Init ==
    /\ now = 0
    /\ cron \in Periods \cup {0} /\ cronFile = cron
    /\ schedule = cron /\ nextRun = FreshNextRun(cron, 0)
    /\ running = (cron # 0) /\ stopped = FALSE
    /\ controlCh = <<>> /\ runner = FreshRunners(cron)
    /\ client = [c \in Clients |-> Idle] /\ wakeOwed = FALSE
    /\ started = {} /\ skipped = {} /\ heeded = {}

\* The daemon stops and starts again, at any moment.
Restart ==
    /\ "restart" \in Requests
    /\ cron' = cronFile
    /\ schedule' = cronFile /\ nextRun' = FreshNextRun(cronFile, now)
    /\ running' = (cronFile # 0) /\ stopped' = FALSE
    /\ controlCh' = <<>> /\ runner' = FreshRunners(cronFile)
    /\ client' = [c \in Clients |-> Idle] /\ wakeOwed' = FALSE
    /\ UNCHANGED <<now, cronFile, historyVars>>

-----------------------------------------------------------------------------
(* Requests *)

\* conf.SetCron and conf.Save.
SaveCron(s, saved) ==
    /\ cron' = s
    /\ cronFile' = IF saved THEN s ELSE cronFile

\* schedule(cronExpr): a failed save ends the request.
ScheduleRequest(c) ==
    /\ "schedule" \in Requests /\ client[c].at = "idle"
    /\ \E s \in Periods, saved \in SaveOutcomes :
          /\ SaveCron(s, saved)
          /\ client' = IF saved
                       THEN [client EXCEPT ![c] = Sending("schedule", "none", s)]
                       ELSE client
    /\ UNCHANGED <<now, sharedVars, running, stopped, controlCh, runner, wakeOwed,
                   historyVars>>

\* Scheduler.Schedule: without a runner the schedule is set at once, with one
\* it is sent to it.
ScheduleCall(c) ==
    /\ client[c].at = "schedule"
    /\ LET s == client[c].data IN
       IF running
       THEN /\ client' = [client EXCEPT ![c] = Sending("send, start", "recalculate", s)]
            /\ UNCHANGED <<sharedVars, heeded>>
       ELSE /\ schedule' = s /\ nextRun' = NextAfter(s, now) /\ heeded' = {}
            /\ client' = [client EXCEPT ![c] = Sending("start", "none", 0)]
    /\ UNCHANGED <<now, confVars, running, stopped, controlCh, runner, wakeOwed,
                   started, skipped>>

\* A request leaves its message in the channel.  A skip that gets there before
\* its run is due, and before the schedule is set again, is noted in the history.
Send(c) ==
    /\ client[c].at \in {"send", "send, start"}
    /\ LET msg == client[c] IN
       /\ TrySend(msg.kind, msg.data)
       /\ client' = [client EXCEPT ![c] =
                        IF msg.at = "send" THEN Idle ELSE Sending("start", "none", 0)]
       /\ heeded' = IF /\ msg.kind = "skip" /\ controlCh' # controlCh
                       /\ now < msg.data /\ msg.data < nextRun
                    THEN heeded \cup {msg.data} ELSE heeded
    /\ UNCHANGED <<now, confVars, sharedVars, running, stopped, runner, wakeOwed,
                   started, skipped>>

\* Scheduler.Start, the end of schedule(cronExpr).  Mutant: one runner for
\* every Start.
NeverRunning == FALSE
AlreadyRunning == running

Start(c) ==
    /\ client[c].at = "start"
    /\ IF AlreadyRunning
       THEN UNCHANGED <<running, runner>>
       ELSE \E r \in Runners :
               /\ runner[r].at = "none"
               /\ runner' = [runner EXCEPT ![r] = AtTop]
               /\ running' = TRUE
    /\ client' = [client EXCEPT ![c] = Idle]
    /\ UNCHANGED <<now, confVars, sharedVars, stopped, controlCh, wakeOwed, historyVars>>

\* schedule(""): an empty expression is "already disabled", a failed save ends
\* the request.  Mutant: the scheduler is not stopped.
DisableRequestOnly(c) ==
    /\ "disable" \in Requests /\ client[c].at = "idle"
    /\ \E saved \in SaveOutcomes : SaveCron(0, saved)
    /\ client' = [client EXCEPT ![c] = Sending("disabled", "none", 0)]
    /\ UNCHANGED <<now, sharedVars, running, stopped, controlCh, runner, wakeOwed,
                   historyVars>>

DisableRequest(c) ==
    /\ "disable" \in Requests /\ client[c].at = "idle"
    /\ \/ /\ cron = 0
          /\ client' = [client EXCEPT ![c] = Sending("disabled", "none", 0)]
          /\ UNCHANGED confVars
       \/ /\ cron # 0
          /\ \E saved \in SaveOutcomes :
                /\ SaveCron(0, saved)
                /\ client' = IF saved
                             THEN [client EXCEPT ![c] = Sending("stop", "none", 0)]
                             ELSE client
    /\ UNCHANGED <<now, sharedVars, running, stopped, controlCh, runner, wakeOwed,
                   historyVars>>

\* Scheduler.Stop.
Stop(c) ==
    /\ client[c].at = "stop"
    /\ stopped' = TRUE
    /\ client' = [client EXCEPT ![c] = Sending("disabled", "none", 0)]
    /\ UNCHANGED <<now, confVars, sharedVars, running, controlCh, runner, wakeOwed,
                   historyVars>>

\* The user is told that the schedule is disabled.
ReplyDisabled(c) ==
    /\ client[c].at = "disabled"
    /\ client' = [client EXCEPT ![c] = Idle]
    /\ UNCHANGED <<now, confVars, sharedVars, running, stopped, controlCh, runner,
                   wakeOwed, historyVars>>

\* Scheduler.Postpone: refused without a runner, and when the run after the
\* next one would come first.
Postpone(c) ==
    /\ "postpone" \in Requests /\ client[c].at = "idle"
    /\ schedule # 0 /\ nextRun # 0 /\ running
    /\ \E d \in Delays :
          /\ nextRun + d < NextAfter(schedule, nextRun)
          /\ client' = [client EXCEPT ![c] = Sending("send", "postpone", nextRun + d)]
    /\ UNCHANGED <<now, confVars, sharedVars, running, stopped, controlCh, runner,
                   wakeOwed, historyVars>>

\* Scheduler.Skip advances the next run under the mutex and then tells the
\* runner, if there is one.  Bound: no skips past the end of the clock.
Skip(c) ==
    /\ "skip" \in Requests /\ client[c].at = "idle"
    /\ schedule # 0 /\ nextRun # 0 /\ nextRun <= MaxTime
    /\ nextRun' = NextAfter(schedule, nextRun)
    /\ client' = IF running
                 THEN [client EXCEPT ![c] = Sending("send", "skip", nextRun)]
                 ELSE client
    /\ skipped' = skipped \cup {nextRun}
    /\ UNCHANGED <<now, confVars, schedule, running, stopped, controlCh, runner,
                   wakeOwed, started, heeded>>

\* systemHasPoweredOnCallback calls HandleWakeUp.
HandleWakeUp ==
    /\ wakeOwed
    /\ TrySend("wake", 0)
    /\ wakeOwed' = FALSE
    /\ UNCHANGED <<now, confVars, sharedVars, running, stopped, runner, client,
                   historyVars>>

-----------------------------------------------------------------------------
(* The runner *)

\* A runner's record after a step.
RunnerBecomes(r, record) == runner' = [runner EXCEPT ![r] = record]

\* The top of the loop: a copy of the schedule, and a timer for the notice.
Snapshot ==
    [at |-> "select", schedule |-> schedule, nextRun |-> nextRun, leading |-> TRUE,
     attempts |-> 0, announced |-> 0, held |-> now,
     timer |-> IF schedule = 0 \/ nextRun = 0 THEN Off
               ELSE TimerFor(nextRun - now - Lead)]

TakeSnapshot(r) ==
    /\ runner[r].at = "snapshot"
    /\ RunnerBecomes(r, Snapshot)
    /\ UNCHANGED <<now, confVars, sharedVars, running, stopped, controlCh, client,
                   wakeOwed, historyVars>>

\* The timer fires for the first time: the notice, and a timer for the run.
TimerNotifies(r) ==
    LET me == runner[r]
        runWait == IF me.nextRun <= now THEN OverdueDelay ELSE me.nextRun - now
    IN
    /\ me.at = "select" /\ me.timer = 0 /\ me.leading
    /\ RunnerBecomes(r, [me EXCEPT !.leading = FALSE, !.timer = runWait,
                                   !.announced = now + runWait])
    /\ UNCHANGED <<now, confVars, sharedVars, running, stopped, controlCh, client,
                   wakeOwed, historyVars>>

\* The timer fires for the run: PreCheck is called outside the mutex.
TimerRuns(r) ==
    LET me == runner[r] IN
    /\ me.at = "select" /\ me.timer = 0 /\ ~me.leading
    /\ RunnerBecomes(r, [me EXCEPT !.at = "precheck", !.timer = Off])
    /\ UNCHANGED <<now, confVars, sharedVars, running, stopped, controlCh, client,
                   wakeOwed, historyVars>>

\* PreCheck finds nothing against the run: Task starts in its own goroutine.
PreCheckPasses(r) ==
    /\ runner[r].at = "precheck" /\ TRUE \in PreCheckOutcomes
    /\ RunnerBecomes(r, [runner[r] EXCEPT !.at = "started"])
    /\ started' = started \cup {runner[r].nextRun}
    /\ UNCHANGED <<now, confVars, sharedVars, running, stopped, controlCh, client,
                   wakeOwed, skipped, heeded>>

\* The runner after a failed PreCheck: again in RetryDelay, or the run is given
\* up.  Mutant: the attempts are not counted.
FailedAgain(me) == [me EXCEPT !.at = "select", !.timer = RetryDelay]
Failed(me) ==
    IF me.attempts < MaxAttempts
    THEN [me EXCEPT !.at = "select", !.timer = RetryDelay, !.attempts = @ + 1]
    ELSE [me EXCEPT !.at = "given up"]

PreCheckFails(r) ==
    /\ runner[r].at = "precheck" /\ FALSE \in PreCheckOutcomes
    /\ RunnerBecomes(r, Failed(runner[r]))
    /\ UNCHANGED <<now, confVars, sharedVars, running, stopped, controlCh, client,
                   wakeOwed, historyVars>>

\* advanceNextRun moves the shared next run on, whatever it is by now.
\* Mutant: only a run that is given up is passed over.
AdvancedGivenUp(r) ==
    IF runner[r].at = "started" THEN nextRun ELSE NextAfter(schedule, nextRun)
Advanced(r) == IF schedule = 0 THEN nextRun ELSE NextAfter(schedule, nextRun)

AdvanceNextRun(r) ==
    /\ runner[r].at \in {"started", "given up"}
    /\ nextRun' = Advanced(r)
    /\ RunnerBecomes(r, AtTop)
    /\ UNCHANGED <<now, confVars, schedule, running, stopped, controlCh, client,
                   wakeOwed, historyVars>>

\* The timer after a wake-up: for the notice or the run, which may be overdue.
\* Mutant: an overdue one is due at once.
WakeTimerAtOnce(me) ==
    LET target == IF me.leading THEN me.nextRun - Lead ELSE me.nextRun
    IN IF me.schedule = 0 \/ me.nextRun = 0 THEN Off ELSE TimerFor(target - now)
WakeTimer(me) ==
    LET target == IF me.leading THEN me.nextRun - Lead ELSE me.nextRun
    IN IF me.schedule = 0 \/ me.nextRun = 0 THEN Off
       ELSE IF target <= now THEN OverdueDelay ELSE target - now

\* A runner in its select takes the next message of a kind from the channel.
Receives(r, kind) ==
    /\ runner[r].at = "select" /\ controlCh # <<>>
    /\ Head(controlCh).kind = kind
    /\ controlCh' = Tail(controlCh)
    /\ UNCHANGED <<now, confVars, running, stopped, client, wakeOwed, started, skipped>>

ControlRecalculate(r) ==
    /\ Receives(r, "recalculate")
    /\ schedule' = Head(controlCh).data
    /\ nextRun' = NextAfter(schedule', now)
    /\ heeded' = {}
    /\ RunnerBecomes(r, AtTop)

\* Only the timer knows of a postponement.  Mutant: a timer for the notice.
PostponedForNotice(me, until) ==
    [me EXCEPT !.timer = TimerFor(until - now - Lead),
               !.held = now + TimerFor(until - now)]
Postponed(me, until) ==
    [me EXCEPT !.timer = TimerFor(until - now), !.held = now + TimerFor(until - now)]

ControlPostpone(r) ==
    /\ Receives(r, "postpone")
    /\ RunnerBecomes(r, Postponed(runner[r], Head(controlCh).data))
    /\ UNCHANGED <<sharedVars, heeded>>

\* Mutant: the runner waits on for the run it knows.
ControlSkipWaits(r) ==
    /\ Receives(r, "skip")
    /\ UNCHANGED <<sharedVars, heeded, runner>>

ControlSkip(r) ==
    /\ Receives(r, "skip")
    /\ RunnerBecomes(r, AtTop)
    /\ UNCHANGED <<sharedVars, heeded>>

ControlWake(r) ==
    /\ Receives(r, "wake")
    /\ RunnerBecomes(r, [runner[r] EXCEPT !.timer = WakeTimer(runner[r])])
    /\ UNCHANGED <<sharedVars, heeded>>

\* The stop channel is closed: the runner clears `running' and returns, which
\* clears it again.  Mutant: it leaves its select only.
SelectStopBreaks(r) ==
    /\ runner[r].at = "select" /\ stopped
    /\ RunnerBecomes(r, [runner[r] EXCEPT !.at = "snapshot"])
    /\ UNCHANGED <<now, confVars, sharedVars, running, stopped, controlCh, client,
                   wakeOwed, historyVars>>

SelectStop(r) ==
    /\ runner[r].at = "select" /\ stopped
    /\ RunnerBecomes(r, [NoRunner EXCEPT !.at = "exit"])
    /\ running' = FALSE
    /\ UNCHANGED <<now, confVars, sharedVars, stopped, controlCh, client, wakeOwed,
                   historyVars>>

Exit(r) ==
    /\ runner[r].at = "exit"
    /\ RunnerBecomes(r, NoRunner)
    /\ running' = FALSE
    /\ UNCHANGED <<now, confVars, sharedVars, stopped, controlCh, client, wakeOwed,
                   historyVars>>

RunnerStep(r) ==
    \/ TakeSnapshot(r) \/ TimerNotifies(r) \/ TimerRuns(r)
    \/ PreCheckPasses(r) \/ PreCheckFails(r) \/ AdvanceNextRun(r)
    \/ ControlRecalculate(r) \/ ControlPostpone(r) \/ ControlSkip(r) \/ ControlWake(r)
    \/ SelectStop(r) \/ Exit(r)

-----------------------------------------------------------------------------
(* Time *)

\* One tick with the machine awake.
Tick ==
    /\ now < MaxTime
    /\ Prompt => Quiet
    /\ now' = now + 1
    /\ runner' = [r \in Runners |->
                    [runner[r] EXCEPT !.timer = IF @ > 0 THEN @ - 1 ELSE @]]
    /\ UNCHANGED <<confVars, sharedVars, running, stopped, controlCh, client, wakeOwed,
                   historyVars>>

\* The machine sleeps: wall time goes on, timers do not.
SystemSleeps ==
    /\ Prompt => Quiet
    /\ \E d \in SleepLengths : now + d <= MaxTime /\ now' = now + d
    /\ wakeOwed' = WakeHook
    /\ UNCHANGED <<confVars, sharedVars, running, stopped, controlCh, runner, client,
                   historyVars>>

-----------------------------------------------------------------------------
(* Specification *)

ClientStep(c) == ScheduleCall(c) \/ Send(c) \/ Start(c) \/ Stop(c) \/ ReplyDisabled(c)

UserRequest(c) == ScheduleRequest(c) \/ DisableRequest(c) \/ Postpone(c) \/ Skip(c)

Next ==
    \/ \E c \in Clients : UserRequest(c) \/ ClientStep(c)
    \/ \E r \in Runners : RunnerStep(r)
    \/ HandleWakeUp \/ Tick \/ SystemSleeps \/ Restart

\* Goroutines that can run do.  A select chooses among its ready cases at
\* random, so it does not pass the stop channel over for ever.
Fairness ==
    /\ \A c \in Clients : WF_vars(ClientStep(c))
    /\ \A r \in Runners : WF_vars(RunnerStep(r)) /\ SF_vars(SelectStop(r))
    /\ WF_vars(HandleWakeUp)

Spec == Init /\ [][Next]_vars

FairSpec == Spec /\ Fairness

-----------------------------------------------------------------------------
(* Safety *)

Places == {"none", "snapshot", "select", "precheck", "started", "given up", "exit"}
ClientPlaces == {"idle", "schedule", "send", "send, start", "start", "stop", "disabled"}
Kinds == {"recalculate", "postpone", "skip", "wake"}

\* Type invariant.
TypeOK ==
    /\ now \in Nat /\ nextRun \in Nat
    /\ {cron, cronFile, schedule} \subseteq Periods \cup {0}
    /\ running \in BOOLEAN /\ stopped \in BOOLEAN /\ wakeOwed \in BOOLEAN
    /\ controlCh \in Seq([kind : Kinds, data : Nat]) /\ Len(controlCh) <= Capacity
    /\ client \in [Clients -> [at : ClientPlaces, kind : Kinds \cup {"none"}, data : Nat]]
    /\ runner \in [Runners -> [at : Places, schedule : Periods \cup {0}, nextRun : Nat,
                               leading : BOOLEAN, attempts : 0..MaxAttempts,
                               timer : Nat \cup {Off}, announced : Nat, held : Nat]]
    /\ started \subseteq Nat /\ skipped \subseteq Nat /\ heeded \subseteq Nat

\* Until the scheduler is stopped there is at most one runner, and `running'
\* says whether there is one: Schedule, Postpone and Skip rely on it to decide
\* who sets the next run (scheduler.go:98-104, 131-136, 155-159).
RunningIsTrue ==
    ~stopped =>
        /\ \A r, s \in Runners : Alive(r) /\ Alive(s) => r = s
        /\ running <=> \E r \in Runners : Alive(r)

\* When nothing is under way, the expression is in the file and the scheduler is
\* not stopped, there is a runner exactly when there is an expression: only a save
\* that failed can leave one running without the other, and only a stop a new
\* expression without a runner (calibration.go:564, 587; scheduler.go:98-104).
ExpressionIsServed ==
    Quiet /\ cron = cronFile /\ ~stopped
        => (cron # 0 <=> \E r \in Runners : Alive(r))

\* Runner r starts its run in this step.
Starting(r) == runner[r].at = "precheck" /\ runner'[r].at = "started"

\* A run is started at most once, however timers, prechecks, wake-ups and
\* changes of the schedule fall together (advanceNextRun, ctrlRecalculate).
NoRunStartsTwice ==
    [][\A r \in Runners : Starting(r) => runner[r].nextRun \notin started]_vars

\* No run starts before its time, with timers that are reset by messages and
\* delayed by sleep (scheduler.go:196, 213, 275, 296).
RunsAreDue ==
    [][\A r \in Runners : Starting(r) => runner[r].nextRun <= now]_vars

\* No run starts before the time its notice gave, after whatever messages,
\* wake-ups and prechecks (scheduler.go:211-219).
NoticeKept ==
    [][\A r \in Runners : Starting(r) => runner[r].announced <= now]_vars

\* Both at once: neither early against the schedule nor against the notice
\* (scheduler.go:196-219, 275, 296).
RunsKeepTime == RunsAreDue /\ NoticeKept

\* A run whose skip reached the runner's channel before the run was due is not
\* started when it is due, unless the schedule is set again (Skip advances the
\* next run, ctrlSkip makes the runner read it).  A postponement meant for
\* another run may start it early all the same, as RunsAreDue says it may not.
HeededSkipsHold ==
    [][\A r \in Runners :
          Starting(r) /\ runner[r].nextRun <= now => runner[r].nextRun \notin heeded]_vars

\* The grace period (README.md:277): while the machine does not sleep, a run
\* that is held up by its prechecks is given up in time, counted from when it
\* was due, taken up or postponed to, so that later runs are not blocked.
GraceEnds ==
    \A r \in Runners :
        LET me == runner[r]
            due == IF me.held > me.nextRun THEN me.held ELSE me.nextRun
        IN me.at = "select" => now <= due + OverdueDelay + MaxAttempts * RetryDelay

(* What documentation and comments promise and the code does not keep *)

\* A schedule that is set is served (README.md:275): when nothing is under way
\* a runner waits for its next run.
ScheduleIsServed == cron # 0 /\ Quiet => \E r \in Runners : Alive(r)

\* "Skip skips the next scheduled run" (scheduler.go:147).
SkippedRunsDoNotStart ==
    [][\A r \in Runners : Starting(r) => runner[r].nextRun \notin skipped]_vars

\* `batt schedule postpone' pushes the next run back (README.md:271): a run
\* that has been postponed does not start before then.
PostponedRunsWait ==
    [][\A r \in Runners : Starting(r) => now >= runner[r].held]_vars

\* `batt schedule disable' removes the schedule and stops future runs
\* (README.md:270): who is told so finds the scheduler stopped, or about to be
\* by another request.
DisabledIsStopped ==
    [][\A c \in Clients :
          client[c].at # "disabled" /\ client'[c].at = "disabled"
             => \/ stopped' \/ ~running'
                \/ \E d \in Clients : client[d].at = "stop"]_vars

-----------------------------------------------------------------------------
(* Liveness *)

\* Once the scheduler is stopped no runner stays: each one that is alive, or is
\* created by a late Start, comes to its select and leaves.
StopEnds == \A r \in Runners : stopped ~> runner[r].at = "none" \/ ~stopped
=============================================================================
