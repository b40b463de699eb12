# batt: specifications, model-checking runs and proofs

batt limits the battery charge of a Mac.  A root daemon (`pkg/daemon`) talks to
the System Management Controller (SMC), serves HTTP requests on a Unix socket to
a command line (`cmd/batt`) and a menu-bar app (`pkg/gui`), and runs a loop that
keeps the charge within limits.  This directory holds TLA+ models of the daemon,
the TLC runs that check them, and TLAPS proofs.  Paths below are relative to the
root of the repository; line numbers are those of the commit beside which this
project is kept.

## The system

| part | state | operations | what makes it correct |
|---|---|---|---|
| main loop, `pkg/daemon/loop.go` | the time read at the top of an iteration, `maintainLoopInnerLock` | `infiniteLoop`: restore an expired "disable for" limit, keep or end an adapter timer, run a maintain pass | expired timers are honoured; a pass never acts against the calibration; two passes converge |
| calibration, `calibration.go` | `calibrationState` (phase, pause flag, snapshot), `batt.state.json`, the sleep assertion | start, pause, resume, cancel, one phase step per pass, recovery at start-up | the snapshot survives until it is restored; power is there while it charges; the Mac stays awake exactly as long as needed |
| requests, `handlers.go` | `chargeControlTransitionMu` | set limit, disable for, adapter, adapter disable for, lower-limit delta, calibration requests | what is checked is still true when acted on; a crash half-way loses nothing |
| configuration, `pkg/config/file.go` | fields in memory under an RWMutex, the file | setters with assertions, `Load`, `Save` | limits stay valid; memory and file agree where it matters |
| life cycle, `daemon.go` | process | start-up, SIGHUP, SIGTERM | recovery from both files, in any order of crashes |
| scheduler, `scheduler.go` | next run, control channel, timer | schedule, skip, postpone, wake-up, stop | a run starts once, when asked, and never after it was skipped |
| sleep hooks, `sleepcallback.go`, `hook.c`, `sleepassertion.go` | a WaitGroup, `maintainedChargingInProgress` | will-sleep, can-sleep, has-powered-on callbacks | the Mac does not charge past the limit in its sleep |
| loop recorder, `utils.go` | the last 60 loop times | add, count, test for missed loops | missed loops are noticed, regular ones are not |
| SMC access, `pkg/smc` | registers | charging switch, adapter, firmware limit (four writes) | a half-done sequence leaves no wrong limit active |
| event hub, `pkg/events` | subscribers' bounded channels | subscribe, unsubscribe, publish | a slow reader never blocks the daemon |
| event client, `pkg/client` | current event, returned channel | `SubscribeEvents` | whole events, in order; it ends when told to |
| capabilities, `compatibility.go`, `pkg/compatibility` | what this Mac's SMC can do, fixed at start-up | detect, require, clear unsupported settings | nothing is offered or kept on that the Mac lacks |
| menu-bar app, `pkg/gui` | what the controller has read, the native menu | open, tick, click, confirm | the menu offers what the daemon accepts, and catches up with it |
| command line, `cmd/batt` | none | one request per command | as a second client of the daemon |
| installers, packaging | none | | not modelled |

The parts meet in four places.  `chargeControlTransitionMu` serialises the
admission of calibrations, timers and adapter changes.  `maintainLoopInnerLock`
serialises maintain passes.  `calibrationMu` guards the session, which passes
drive, requests change and checks look at.  The configuration is read and written
by everybody under its own RWMutex, one field at a time.  Locks are taken in this
order: transition, inner, calibration, configuration.

| module | models | proofs |
|---|---|---|
| `ChargeService` | what the daemon promises its clients: requests and calibration steps that happen at once | `MenuAppProofs` (first part) |
| `ChargeControl` | main loop, calibration, charge requests, life of the process; implements `ChargeService` | `ChargeControlProofs`, `ChargeControlRefinement` |
| `MenuApp` | the menu-bar app and the command line beside `ChargeService` | `MenuAppProofs` |
| `ConfigStore` | the configuration under its RWMutex, its file | `ConfigStoreProofs` |
| `Scheduler` | the calibration scheduler | `SchedulerProofs` |
| `SleepHooks` | charging around sleep, loop recorder | `SleepHooksProofs` |
| `EventStream` | events from the daemon to the app | `EventStreamProofs` |
| `FirmwareLimit` | the firmware's limit one SMC access at a time | `FirmwareLimitProofs` |

The modules `MC...` give the constants of the runs; a configuration `x.cfg` that
`PROJECT.json` lists is the run `x`.  The others are described below: they refute a
statement, or repeat a run where it adds nothing new.

The hard behaviours are the gaps between a check and the act it guards, values
read before a lock and used after it, crashes between two writes that belong
together (two files and a register), SIGHUP replacing the configuration under a
handler, setters that panic on the main loop's goroutine, and timers that expire
while something else owns what they would change.  `PROJECT.json` lists each at
its line under "hazards".

## ChargeControl: the core

`ChargeControl.tla` models the main loop, the calibration, the requests that
change charge control and the life of the process, in one module because they
share all their state.

| variable | code |
|---|---|
| `conf`, `file` | the fields of `RawFileConfig` the core uses, in memory and in the file; 0 is "not set" for a time or a saved limit; `wanted` is a history field, the limit the user last set |
| `cal`, `calFile` | `calibrationState` and `batt.state.json` |
| `awake` | the calibration sleep assertion |
| `hw` | the SMC: charging switch (legacy), active firmware limit or 0, power adapter |
| `daemon` | `up`, `stopping` (after SIGTERM), `reset` (charging default restored, adapter not yet), `down`, `panicked` |
| `loop`, `loopNow` | where `infiniteLoop` is, and its `now` |
| `txn` | the holder of `chargeControlTransitionMu`: what it does next and the number it has read |
| `pass` | the holder of `maintainLoopInnerLock`: who called, what it has read |
| `owed` | `setLowerLimitDelta` has saved and will run its pass |
| `adapterWanted` | history: the adapter setting the user last asked to keep |

Every handler that takes the transition lock is two or three actions: the checks,
then (with `txn` naming what is left) the change and the save, then, where the
code runs `maintainLoopForced`, a pass of caller "request" after which the lock is
free.  SIGHUP, `setLowerLimitDelta`, pause, resume and cancel do not take that lock
and come between any two of them.  `applyCalibrationWithinLoop` is one disjunct per
phase, a whole step under `calibrationMu` with its writes, save and state file; its
caller is `PassCalibrates`.  A legacy pass is three steps: `PassReads` (limits,
switch, charge), `PassCalibrates` or `PassGoesOn` (under `calibrationMu`), then
`PassHysteresis` or `PassNoMaintain` on what was read.  A firmware pass looks at the
calibration first and reads the limits in `PassReconciles`.

Failures are constants.  `HardwareOutcomes` lets an SMC call or a power assertion
fail (a failed write may have reached the register or not), `SaveOutcomes` lets
`Save` fail with the file intact or truncated (read afterwards as the defaults),
and `PersistOutcomes` lets the state file not be written, or the process die just
before it.  A crash may come between any two actions.

Abstractions:

- A configuration setter sequence and its `Save` within one handler are one step,
  except in `setAdapterDisableFor`, where the order of save and power cut matters.
- `setLowerLimitDelta`'s check and set are one step; a delta of 0, which always makes
  the setter panic inside the HTTP server without effect, is left out.
- The end of the hold time is a free choice of `KeepHolding`.
- The firmware sequence of four writes is one step with the results it may have.
- A truncated file is read as empty, which `Load` turns into the defaults.  A
  partly written file, which stops start-up with a fatal error, and edits of the
  file by others are left out.
- The machine has the adapter and calibration capabilities.
- The threshold of a calibration is a constant; the code copies it from the
  configuration at the start.
- Memory is equal to the files from the moment a process dies, which it is again
  when the next one starts.

### Properties

State: `TypeOK`; `CheckedConflictsStay` (no session appears under a check that is
being acted on); `AssertionMatchesSession`; `AdapterRecoverable` (an adapter that is
off without the user's lasting wish has a saved deadline or a snapshot to bring it
back).

Steps: `ConflictsComeFromFile`, `PoweredWhileCharging`, `CutIsBacked`,
`PausedSessionEndsRestored` (with both limits of its snapshot, whatever the delta has
become), `OnlyTwoStepsForget` (the limit the user last set is lost
only where `handleNoMaintain` cancels a calibration and where a start from `Error` takes a
new snapshot, or by a SIGHUP).  `OnlyTwoStepsForget` leaves out the states of `FileDisturbs`,
which a handler's steps lead on from without being at fault: a SIGHUP between the check
of "disable for" and its commit changes the limit the handler has read, and a SIGHUP or a
restart after a failed save can find a file with a timer under a session, or beside a
limit it has not raised.

Liveness: `TimersEnd`, `LockComesFree`, `LimitConverges`.

Refinement: `ImplementsService`.

### ChargeService and its implementation

`ChargeService.tla` says in twenty actions what the daemon promises: the limit, the two
timers, the adapter and one calibration session, each request atomic, without locks,
passes, files or the clock; a death of the daemon costs the step it was taking, and
a session comes back paused (`Interrupted`).

`ImplementsService` states that `ChargeControl` implements it.  A request has taken
effect when its outcome is in the file, so limit, wanted limit and timers map to `file`;
the adapter maps to the SMC; the session maps to `cal` while the process lives and to
`Recovered(calFile)`, what a restart will find, when it does not.  With this mapping a
check, a `maintainLoopForced`, a pass that only reconciles and the clearing of an expired
adapter timer in memory are stutters.  What it shows is that the gap between check and
commit, between the save of a raised limit and the state file, and between the main
loop's own check and its restoration is closed: nobody can tell that requests take
several steps.  It is the place where the hazards of `handlers.go` and `calibration.go`
meet, and it implies that the user's limit is never lost: `LimitPromise`, which is
proved of `ChargeService` (`LimitIsPromised`) and so of `ChargeControl`
(`LimitPromiseKept`).

It holds in firmware mode, with hardware and a disk that obey and without SIGHUP, is
checked there (`firmware_core`) and proved (`ServiceImplemented`).  It is false in legacy mode (`legacy_pause_loses_limit.cfg` below) and
with failed saves, where memory and file part.

### Runs

| run | what is varied | what it shows |
|---|---|---|
| `firmware_core` | firmware mode, all requests but SIGHUP, crashes anywhere, deltas the setters refuse later, obedient hardware | the code implements the service; nothing is lost, the adapter, the limit, the restoration at the end of a paused session, through panics too |
| `failures` | legacy mode, every call may fail, torn files, SIGHUP | the properties that hold whatever fails, `OnlyTwoStepsForget` among them |
| `liveness` | firmware mode, fairness | timers end, the lock comes free, the firmware limit ends up as configured |
| `no_panic` | | a panic of the main loop, see "Findings" |

`legacy_core.cfg` checks `AdapterRecoverable` and `OnlyTwoStepsForget` in legacy mode with all
requests but SIGHUP and without failures (2.3 million states, they hold).

The properties of `failures` are proved for both modes and all requests (see
"Proofs"), so no other run repeats them.

Bounds.  One ordinary limit and 100 are enough because the code compares a limit
with 100, with the charge and with the delta only; charges lie below the
threshold, just below the limit, and at 100, so that every phase change can happen.  Deadlines are
one tick away and the clock has two values: expired, pending and
replaced timers all occur.  Deltas are 2, and 90 where a refusal is wanted.
`AdapterRecoverable` is not checked with failing hardware: a write the SMC reports as
failed leaves the register in doubt, and the code does not retry.  The properties that a
failed or torn save would break, because the code reports the error and goes on, are
checked with saves that succeed.

Fairness.  Go schedules every goroutine that can run, so the holders of a lock
(`TxnStep`, `PassActs`), the clock, the loop's timer and the restart by launchd are
weakly fair.  Waiting for a mutex is strongly fair for the main loop and for each
caller of a pass, because Go's mutex hands itself to a waiter that starves.  Users
are never fair.  `TimersEnd` assumes in addition that the daemon stops
crashing (`StaysUp`).

### Findings

`no_panic`: a delta accepted while a timer or a calibration holds the limit at 100
makes the restore panic on the main loop's goroutine, again after every restart.

Three more can be seen by running TLC with configurations kept beside the others.

| configuration | property | what happens |
|---|---|---|
| `legacy_pause_loses_limit.cfg` | `PausedSessionEndsRestored` | in legacy mode a session paused in or after the charge phase, by the user or by a restart, is cancelled by the next pass (`loop.go:289`) without its limit being restored, against `docs/auto-calibration.md:77` and `:103` |
| `error_restart_loses_snapshot.cfg` | `FailedCalibrationKeepsSnapshot` | starting again from `Error` takes a new snapshot, of the limit the failed session left, against the comment at `calibration.go:38-39` |
| `reload_loses_deadline.cfg` | `CutIsBacked` | SIGHUP between the timer's setting and its save, against the comment at `handlers.go:348-349` |

### Proofs

`ChargeControlProofs` proves `TypeCorrect`.  Its only invariant is `TypeOK` itself, which
is inductive: the setters' assertions and the assumption on the constants keep the
limit and the delta in range.  Lemmas give the type of each shared operator, then of
each group of actions.

Safety.  `ChecksStayTrue` and `AssertionFollowsSession` are inductive as they stand.
`PowerStaysWhileCharging` and `ConflictsOnlyFromFile` need `CheckedConflictsStay`: whoever
cuts the adapter or starts a timer outside the session holds the transition lock.
`CutsAreBacked` needs `DeadlineSaved` (past the saving step the deadline is in the file, and
whoever is about to cut has it in memory) and `RequestHoldsLock` (a request's pass
still holds its lock).

`LimitForgottenTwice` (`OnlyTwoStepsForget`) rests on `LimitsSound`: in memory and in the
file the user's limit is one that was asked for, without a timer there is no limit to go
back to, and whoever is past a check holds a limit that can be committed.  With it each
step that changes the limits is one of four kinds: it sets the limit (`LimitSet`), disables
it (`LimitDisabled`), puts it back (`LimitBack`) or is the session's (`LimitOfSession`).

`PausedSessionsEndRestored` rests on `SessionSaved` (a restart would find the running
session, paused) and `FirmwarePass` (in firmware mode no pass plans `handleNoMaintain`).

`AdapterComesBack` (`AdapterRecoverable`) rests on `AdapterInv`: the session and the
deadline in memory are those of the files, but for a deadline about to be saved;
whoever is about to move the adapter has seen a deadline, and whoever is about to clear
one has the adapter on (`AdapterHolder`); a snapshot taken with the adapter off was taken
by the user's wish (`SnapshotTold`).

`ChargeControlRefinement` proves `ServiceImplemented`.  Requests take effect in the file, so
its invariant `DiskInv` is about the files: what a timer, a session and a limit may say
together (`FilesAgree`), that a running process knows it (`MemoryAgrees`), and that what
the holder of the transition lock has read is still so (`HolderInformed`).  Each step of
the code is then one named step of the service, or none; the lemmas go action by action,
with the process dying inside a step as a case of its own.

Hypotheses.  All theorems hold for every set of limits, deltas, charges, durations and
requests.  `TypeCorrect`, `ChecksStayTrue`, `AssertionFollowsSession`,
`PowerStaysWhileCharging`, `ConflictsOnlyFromFile` and `LimitForgottenTwice` hold in both
modes and for all failures.  The others say what they assume, and each assumption excludes
a counterexample:

| theorem | assumes | because |
|---|---|---|
| `CutsAreBacked` | no SIGHUP, no torn save | a SIGHUP between the deadline's setting and its save loses it (`reload_loses_deadline.cfg`), a torn file too |
| `PausedSessionsEndRestored` | firmware mode, the state file is written or the process dies before | in legacy mode `handleNoMaintain` ends the session (`legacy_pause_loses_limit.cfg`); a session the state file does not know ends with the process |
| `AdapterComesBack` | `Dependable`: saves and the SMC succeed, no SIGHUP; the process may die anywhere | a failed read is taken for an adapter that is on, a failed write leaves the register in doubt and is not retried |
| `ServiceImplemented`, `LimitPromiseKept` | firmware mode, `Dependable` | a failed save is reported and then ignored: memory and file part |

Liveness is model-checked only; under fairness it is out of the proof system's reach.

`LimitIsPromised` is about `ChargeService` alone, in the first part of `MenuAppProofs`.  The
invariant is the promise and the types;
that it is inductive rests on a step of the calibration leaving the session either in its
new state or in the old one, interrupted (`BecomesOneOfTwo`), and on both ends of a session
setting the limit to the one the user wanted even if the process dies before it records
the end.

## Scheduler

`Scheduler.tla` models the calibration scheduler and the requests that drive it.  The
runner goroutine (`runScheduled`) selects between its timer, the control channel and
the stop channel, and works on a copy of the schedule and of the next run; requests
change the originals under `s.mu` and send messages, after the unlock, which a full
channel drops.

| variable | code |
|---|---|
| `cron`, `cronFile` | `conf.Cron()` in memory and in the file |
| `schedule`, `nextRun`, `running` | the fields of `Scheduler` |
| `stopped` | `stopCh` is closed, which nothing undoes |
| `controlCh` | the messages in the control channel, at most `Capacity` (4 in the code) |
| `runner` | the goroutines of `runScheduled`: place, copy of schedule and next run, `isLeading`, attempts, timer; `announced` and `held` are history, the time the notice gave, and when the run was taken up or the time to which users have postponed it since |
| `client` | the steps a request has still to take: save, `Schedule`, send, `Start`, `Stop`, reply |
| `wakeOwed` | `systemHasPoweredOnCallback` is about to call `HandleWakeUp` |
| `started`, `skipped`, `heeded` | history: the runs that were started, skipped, and skipped with the message in the channel in time |

One action is one critical section, one message sent, or one case of the select.
`TimerNotifies` and `TimerRuns` are the two uses of the timer, `PreCheckPasses` and
`PreCheckFails` the call of `PreCheck` outside the lock, `AdvanceNextRun` the
`advanceNextRun` that follows; `Control...` are the messages.

Abstractions: a cron expression is the period of a grid of times; a tick is
`preCheckInterval`; `Task` is only noted, the calibration it starts is in
`ChargeControl`.  The clock goes on during sleep and the timers do not.  With `Prompt`
the clock waits for goroutines that can run, since a tick is ten seconds: a tick between
a message's sending and its handling is not covered.
A request that the HTTP server refuses for its syntax is left out.

Properties: `RunningIsTrue` (one runner exactly when `running`, until the stop);
`ExpressionIsServed` (with nothing under way, the expression saved and no stop so far,
there is a runner exactly when there is an expression); `GraceEnds` (a run
held up by prechecks is given up in time, counted from when it was due, taken up or postponed
to, whatever messages arrive); steps
`NoRunStartsTwice`, `RunsKeepTime` (`RunsAreDue` and `NoticeKept`: no run starts early, or before
the time its notice gave), `HeededSkipsHold`, `PostponedRunsWait`; liveness `StopEnds`.

| run | what is varied | what it shows |
|---|---|---|
| `schedule_requests` | two requests that set, skip or postpone, failing prechecks, a channel that overflows; awake | a postponed run waits, a heeded skip holds, a run that is held up is given up in time |
| `schedule_life` | setting and disabling with saves that fail, restarts, sleep across a run; fairness | `running` is right until the stop; expression and runner agree; no early, unannounced or double run; every runner ends |

Each property is checked where the code keeps it.  `RunsKeepTime` and `NoRunStartsTwice` are
not checked with postponements, which break them (`stale_postponement.cfg`,
`postpone_overdue.cfg`), `PostponedRunsWait` not with sleep
(`wake_loses_postponement.cfg`), `HeededSkipsHold` not with restarts (`skip_forgotten.cfg`).
A skip is heeded if its message reaches the channel before the run is due; until a new
schedule, `HeededSkipsHold` forbids that the run starts.

Bounds.  Two or three successive runs fit under `MaxTime`, each with notice, run and
failed prechecks, and a sleep can end before the notice, between notice and run, and
after the next run.  Two clients are enough for a message to be sent between another
request's two steps.  The channel holds one message where the code's holds four: it overflows with fewer requests.  `Runners` bounds the goroutines alive at once:
more than one only after a stop.

Fairness.  Requests and runners are goroutines, weakly fair; the stop case of the
select is strongly fair because `select` chooses among its ready cases at random.

What the code does not promise, each with the configuration that shows it and the
property TLC refutes:

| configuration | property | what happens |
|---|---|---|
| `schedule_after_disable.cfg` | `ScheduleIsServed` | a schedule set after `batt schedule disable` has no runner until the daemon restarts, because the stop channel stays closed |
| `skip_comes_late.cfg` | `SkippedRunsDoNotStart` | a skip accepted after the timer has fired does not stop the run, and the run after it is lost |
| `skip_forgotten.cfg` | `HeededSkipsHold` | a skip does not survive a restart |
| `wake_loses_postponement.cfg` | `PostponedRunsWait` | a wake-up puts a postponed run back to its original time |
| `postpone_overdue.cfg` | `NoticeKept` | postponing an overdue run may start it before the announced time |
| `stale_postponement.cfg` | `RunsAreDue` | postponements handled after their run started are applied to the next one |
| `disable_twice.cfg` | `DisabledIsStopped` | after a failed save, disabling again reports success and does nothing |

The request that disables is also what `batt schedule show` sends (`cmd/batt/schedule.go:163-166`
calls `Schedule("")`), so showing the schedule disables it, although its help says "Show the
current schedule".

Proofs.  `SchedulerProofs` proves eight theorems, for every set of periods, requests,
outcomes and durations.  The invariant `Inv` under all of them has three parts: `Typed` (the
type invariant, and that a message to recalculate carries a schedule), `RunningIsTrue`, and
`ExitsAfterStop` (a runner leaves its loop only after the stop), without which a runner's
deferred function could clear `running` under another runner.  Each action's effect on the
types is a lemma; the channel's case rests on the library's lemmas about `Append` and
`Tail`.

| theorem | assumes | added to `Inv` |
|---|---|---|
| `TypeCorrect`, `OneRunnerUntilStopped` | nothing | |
| `ExpressionServed` | nothing | `Served`: an expression in the file has a runner or a request that will start one; without one nobody serves, or a stop is to come |
| `RunsKeepTheirTime` | nobody postpones | `OnTime`: the timer of a runner that waits expires neither before the run nor before the announced time |
| `PostponedRunsWaitAwake` | no sleep hooks (`WakeHook = FALSE`), as in firmware mode | `Waits`: the timer does not expire before the time the run is held to |
| `GivenUpInTime` | the machine does not sleep (`SleepLengths = {}`), `Prompt` | `InGrace`: the timer is on and leaves time for the prechecks still to come; `Provided`: a runner has a schedule and a next run |
| `RunsStartOnce` | nobody postpones, `Prompt` | `Past` (what has started lies before the next run, or is the run about to be passed over), and that a runner with a run has `running` to itself (`SoleOK`) |
| `HeededSkips` | no restart, `Prompt` | `Told`: a runner that waits for a run whose skip was heeded has the message still to come, and the run is not due |

Each assumption excludes what breaks the property: a postponement handled after its run
started moves the next one (`stale_postponement.cfg`), one of an overdue run starts it before
the announced time (`postpone_overdue.cfg`); a wake-up sets the timer to the run's own time
(`wake_loses_postponement.cfg`); a restart forgets skips (`skip_forgotten.cfg`).  `Prompt`
is the clock's waiting for goroutines, the abstraction named above.  In sleep timers stand
still, so no run is given up in time then.  `GraceEnds` counts from when a run is taken up
because a run can be overdue by then: a postponement handled late, or prechecks that fail for
longer than the schedule's period, hold up the run after it.  `StopEnds` is liveness.

## SleepHooks

`SleepHooks.tla` models charging around sleep in legacy mode: the callbacks macOS makes,
the main loop they delay, the passes, and the recorder by which a pass notices that
loops were missed in sleep.  The calibration is idle here (`ChargeControl` has it), and
the LED is left out.

| variable | code |
|---|---|
| `machine`, `grace`, `woken` | external: what macOS is doing, how long it still waits for an answer, a powered-on notification still to come |
| `level`, `plugged` | the charge against the limits, the charger |
| `charging`, `assertion` | the SMC's charging switch, the assertion of `PreventSleepOnAC` |
| `conf` | whether there is a limit below 100, and the three options about sleep |
| `loop`, `asked`, `callback` | where the main loop, a request and the callback thread are |
| `pass` | the maintain pass that holds `maintainLoopInnerLock`, with what it has read |
| `inProgress` | `maintainedChargingInProgress` |
| `delay` | how long `wg.Wait` will still block: the longest of the sleeping goroutines |
| `records`, `lastWake` | the loop recorder and `lastWakeTime`, as ages |
| `hooked`, `late`, `awakeFor`, `waited` | history: the callback has disabled charging, a pass has undone it, how long the machine is awake, a pass began after the callback |

A tick is `loopInterval`.  There is no clock: a record has an age, which stops where no
comparison can tell more, so the state space is finite without a bound on time.  Ages
grow in sleep, because the recorder rounds its times to the wall clock; delays do not,
because `time.Sleep` stands still.  The clock waits for whoever can run (`Quiet`), a
tick being ten seconds; sleep does not wait, it may find a pass half-way.

A pass is up to five steps: the reads, the look for missed loops, the switch,
`maintainedChargingInProgress`, the assertion.  Sleep may fall between any two.  The will-sleep callback writes the switch without the pass's lock, so it
comes between any two of them.

Properties.  `SleepsUncharged`: in sleep, charging that the callback disabled is off.
The code cannot promise more than the property says: the callback holds up the loop,
but a request's pass, or a pass already past `wg.Wait`, may enable charging after it.
`EnablesOnlyWhenStable`: a pass of the loop that heeds missed loops enables charging only
when the machine has been awake for `minMaintainLoopCount` loops, wherever sleep fell but in one place:
`handleChargingLogic` looks for missed loops (`loop.go:293`, `PassChecks`) and does not look again
before it writes (`loop.go:341`, `PassStarts`), so a machine that sleeps between the two is charged
right after it wakes.  The pass of the can-sleep callback is not covered, because a sleep shorter than a loop interval leaves no gap it could see.
`IdleSleepDenied`: idle sleep is denied in a charging session, although the callback
reads the flag without the lock.  `ChargeResumes`: once the machine stays awake with a
low battery, charging comes back.  `AssertionReleased`: once a
battery stays charged to its limit, the power assertion is given back, if the option
stays on or the limit is 100%.

| run | what is varied | what it shows |
|---|---|---|
| `sleep_uncharged` | sleep announced or not at any moment, failing calls, limits and an option changed | `SleepsUncharged`, `EnablesOnlyWhenStable` |
| `charging_resumes` | the same without failures; fairness | `IdleSleepDenied`, `ChargeResumes`, `AssertionReleased` |

Bounds.  The threshold is three loops (eight in the code), so two records in a row make
the loops stable; the recorder holds two, and overflows.  macOS waits one tick,
the delay before sleep is two, after it one (thirty, sixty and thirty seconds in the code).
A sleep of one tick is enough to part two records.  With failing hardware the flag
`inProgress` may be stale after a failed read, so `IdleSleepDenied` is checked without.

Fairness.  Goroutines and the callback thread that can run do, time passes, and each
goroutine or thread waiting for the lock gets it (Go's mutex hands itself to a starving
waiter; the can-sleep and the powered-on callback run on one thread).  Sleep,
requests and macOS's calls are not fair.

Two configurations show what the code does not keep:

| configuration | property | what happens |
|---|---|---|
| `assertion_stuck.cfg` | `NoAssertionWithoutCharging` | with prevent-system-sleep switched off during a session, the assertion stays held after it, since passes release it only under the option, against `README.md:318` |
| `enables_after_wake.cfg` | `NeverEnablesAfterWaking` | the machine sleeps, unannounced, between a pass's look for missed loops and its write, and the pass enables charging right after waking, against the comment at `loop.go:320-325` |

Proofs.  `SleepHooksProofs` proves all safety properties for every threshold, delay and
sleep, from three invariants, each kept by every action:

| theorem | assumes | invariant |
|---|---|---|
| `TypeCorrect`, `SleepStaysUncharged` | the delay is longer than macOS waits (`DelayOutlastsGrace`) | `IInv`: the wait starts with the callback and the delay before the switch is written (`GraceStarts`, `DelayStarts`); from then on the delay is longer than what is left of the wait (`DelayOutlasts`: both get shorter together), so no pass of the loop comes between (`NobodyWaited`); charging enabled after the callback is late (`ChargingIsLate`) |
| `EnabledWhenStable` | nothing | `StableInv`: an interval lies between two records and more where sleep fell (`RecordsApart`, `SleepLeavesGap`); when the loop runs its last record is an interval old, or two if the machine has slept since (`LastRecordOld`); the loop waits for its pass; what the check found still holds at the write unless the machine has slept (`AnswerHolds`) |
| `IdleSleepWaits` | SMC calls succeed (`HardwareOutcomes = {TRUE}`), as in the run | `DecideInv`: at each step of a pass, what it has read and noted agrees with the switch, which only the will-sleep callback turns off meanwhile (`PassKnows`); its limit is the limit there is unless a request is about to follow (`LimitRead`); between passes the flag is right when the callback decides (`DecisionKnown`) |

`EnabledWhenStable` also needs what `GetRecordsIn` returns.  `CountExists` shows that the
number it chooses exists (from the least number of records that do not follow one
another closely), `CountedRecords` what is counted, and `CountedAwake` that `k` counted
records mean `k` intervals awake: taking the youngest that would not fit, the one after it
was made since the machine woke, and a gap of sleep between them would have ended the count.
That a failed read leaves the flag stale is why `IdleSleepWaits` needs its assumption.

## EventStream

`EventStream.tla` models an event's way from `EventHub.Publish` to the menu-bar app: the
hub, the handler of each connection (`getEventStream`), the lines on the connection, and
the client that reads one connection after the other (`SubscribeEvents`).

| variable | code |
|---|---|
| `up` | the daemon runs |
| `published`, `pub` | the events so far with their publishers; the calls of `Publish` under way: the event, and the channels its loop has still to visit |
| `subs`, `hub` | `EventHub.subs`, and the channels in it |
| `server` | the handlers: where each is, and the lines it has still to write |
| `alive`, `wire` | external: connections neither side has left, and the lines on their way |
| `client`, `cancelled` | `SubscribeEvents`: where it is, its connection, `curName` and `curData`; its `ctx` is done |
| `out`, `received`, `lost` | the channel it returns; history: what the app took from it, what was dropped because it was full |

One action is one critical section of the hub, one visit of `Publish` to a channel, one
case of a select, or one line written or read.  `Publish` holds the read lock from
`PublishStart` to `PublishEnd`; `Subscribe` and `Unsubscribe` need it free.  Leaving out
the payloads, an event is its number in the order of publication.  Comments and the
retry interval carry nothing, so the greeting and a heartbeat are the blank line that
ends them.  A line written before the daemon dies can still be read after.

Properties.  `NoSendOnClosed`: `Unsubscribe` closes a channel, and a send on it would
panic the daemon.  `EventsArriveWhole`: what the app gets is a name with its own data,
once and in order, although handlers drop events, streams break inside a frame and
connections are replaced.  `PublishReturns`: a maintain pass that publishes under its
lock is never held up by a slow or dead reader.  `StreamsEnd`: a
connection that is gone leaves nothing in the hub, and a cancelled client closes its
channel wherever it is.  `QueuedEventsArrive`: an event a subscriber's channel has taken is
lost only with the connection or at the client's full channel.

The run `event_stream` checks them all.  Bounds: three events, two connections, channels of
one event (16 in the hub, 32 in the client) and a connection of two lines, shorter than a frame;
so every channel is full at some time, frames are cut by a death of the daemon, and the
second connection may be open while the first's handler has not yet ended.  There is one
publisher: with two, the liveness properties are out of TLC's reach.

Fairness.  A goroutine that can run does.  The hub's lock reaches every waiter (strong
fairness of `Subscribe` and `Unsubscribe`: Go's `RWMutex` lets no new reader pass a waiting
writer), and a select with several ready cases chooses among them at random (strong
fairness of `HandlerTakes` and `HandlerDone`).  New events, heartbeats, connecting, the
app and the daemon's death are not fair.

Proofs.  `EventStreamProofs` proves three theorems for any number of publishers, events and
connections and every capacity.  `NeverSendsOnClosed` needs two strengthenings: the types of
`pub` and `subs`, and `VisitsUnderLock`, that channels are left to visit only while an
event is being published, which is what holds the lock.

`EventsComeWhole` (`EventsArriveWhole`) and `StreamTypeCorrect` rest on `ArriveInv`.  An event
goes through five places: the call of `Publish`, the subscriber's channel, the lines the
handler has to write and those on the connection, what the client holds of a frame, and
the client's channel with what the app has taken.  `Flows` says that what is in one place
precedes, publisher by publisher, what is in the one before, and that the lines are
frames from the one the client is in to the last written; `OneStream`, that no other
connection's lines are read; `CallsInv`, that a call of `Publish` still holds the last event
of its publisher.  The arguments about sequences are lemmas of their own, with the
sequences as parameters; an action of the model is then one of a few moves of the stream.

## FirmwareLimit

`ChargeControl` takes the firmware's limit for one register.  `FirmwareLimit.tla` looks at
the same code one SMC access at a time: `EnsureFirmwareChargeLimit` reads three keys and
makes four writes (inactive, upper, lower, active), and nothing holds the SMC from the first
to the last.  A pass has `maintainLoopInnerLock`, `cancelCalibration` has `calibrationMu`, the
shutdown has no lock; they may write into one another.

| variable | code |
|---|---|
| `regs` | the three keys: activation, upper and lower limit |
| `conf`, `file` | limit and delta, in memory and in the file |
| `session`, `calMu` | the calibration's phase, pause and snapshot; who holds `calibrationMu` while it accesses the SMC |
| `task` | for the pass, the cancellation and the exit: where each is, the pair it is to set, whether the reads have matched it, and (history) whether it has been `alone`, nobody else having written since it began |
| `up`, `events` | the daemon runs; the requests, failures, deaths so far, a bound |

A pass reads `conf.UpperLimit` and `conf.LowerLimit` in two steps, a calibration's end
writes them in two.  Every access may fail, the daemon may die and start again anywhere, and the
firmware may forget its keys, as in hibernation.  The calibration is reduced to what it does
to the limit: the phases from charge to post-hold are one.  Timers, the adapter's state and
failing saves are in `ChargeControl`.

Properties.  `SequenceSetsOnePair`: an alone sequence changes the limits only while
inactive, and activates the pair it checked.  `ChargePhaseStaysUncapped`: no limit
becomes active in a charge phase that has set it to 100, but by a start of the daemon that
finds one; the phase would not end, since nothing takes the limit off again.  `LimitIsRestored`: whatever failures, deaths and mixed sequences leave, the
passes bring the configured limit back once the disturbances stop.

The run `firmware_limit` checks them with five events, enough for a delta changed while a
calibration is started, paused and cancelled into a pass, and for a death in between; two limits below 100, so that
a pair can be mixed from both; deltas of which one is refused with the lower limit.  Passes,
and what has begun, are weakly fair; events and restarts are not.

Four configurations kept beside it show what the code does not promise.

| configuration | property | what happens |
|---|---|---|
| `cancel_cut_short.cfg` | `ChargePhaseUncapped` | a cancellation has set the snapshot's limit in memory and not yet saved it, a pass of the paused session activates it, the daemon dies; restarted with the limit at 100 and resumed before its first pass, the session charges under the limit the firmware still has |
| `firmware_write_order.cfg` | `WriteOrderKept` | a cancellation and a pass that began before the session write the limit at once, and one writes while the other has activated it, against the comment at `charging.go:153-154`; the next pass repairs it |
| `exit_leaves_limit.cfg` | `ExitDisables` | the main loop goes on while `ResetChargeControl` runs at shutdown, and a pass under way activates the limit again after it, against the comment at `charging.go:204` |
| `interrupted_cancel.cfg` | `ChargePhaseAlwaysUncapped` | the daemon dies in `cancelCalibration` after the configuration is saved and before the state file is; restarted and resumed, the session is in its charge phase with the limit active, and cannot get full (`docs/auto-calibration.md:77` lets the user resume) |

Proofs.  `FirmwareLimitProofs` proves both safety properties for all limits, deltas and
numbers of events.  For `SequencesSetOnePair` the strengthening says that the pair is
checked before the first read (`PairChecked`) and that what an alone sequence has written
is still in the registers (`WritesStand`): whoever writes takes `alone` from the others.
For `ChargePhasesStayUncapped` it says who can be where, with `calibrationMu` and without
(`LocksHeld`); that a discharge phase about to end has taken the limit off
(`DischargeUncaps`); and that while the configured limit is 100 in a charge phase, no pass
and no cancellation is on its way to another (`ChargeLimits`).  From the assumption on the
constants only that limits and deltas are numbers is used.  `LimitIsRestored` is liveness
and stays with TLC.

## MenuApp

`MenuApp.tla` puts the menu-bar app and a second client, the command line, beside the
daemon.  The daemon is `ChargeService` (by `INSTANCE`), so what the app sees are exactly
the states the code's promises allow, deaths and restarts included.

| variable | code |
|---|---|
| `alive` ... `session` | the variables of `ChargeService` |
| `machine`, `sameVersion` | what the Mac's SMC can do; the daemon has the app's version |
| `app` | `menuController`: which call it is at, whether the menu is open, the dialog, and what it has read |
| `menu` | the native items: which are enabled, which hidden |
| `changes`, `glitches` | bounds: steps of the daemon, calls that fail although it runs |
| `undisturbed` | history: no call of this refresh failed and the daemon stood still |

The app runs on one thread.  Opening the menu is a row of calls (`OpenConfig`, compatibility,
version, `OpenState`, `OpenAdapter`, `updateTelemetry`), a tick is three (`TickConfig`,
`TickAdapter`, `updateTelemetry`); each is one action that answers or fails, and the daemon and
the command line move between any two.  The `update...` functions are operators on the
menu, with the source's names; one item stands for those that behave alike (five quick
limits, the durations).  Clicks, confirmation dialogs and the requests they send are
actions; a dialog is modal for the app, not for the daemon.

Properties.  `OfferedIsAccepted`: after a refresh during which nothing failed and nothing
moved, every offered item is one the daemon accepts, whatever earlier refreshes left
behind.  `ControlsAgree`: whatever fails and moves, the parts of the menu do not contradict
each other.  `MenuCatchesUp`: an open menu follows a daemon that comes to rest.

The run `menu_app` checks them on four Macs (legacy; firmware with and without adapter
control; unsupported), with five steps of the daemon and one failing call: enough for a
session that begins, fails and is started again, or for a timer and a session, between the
calls of two refreshes.  Fairness: the app's thread runs on, and AppKit's timer fires
while the menu is open; users, the command line and the daemon owe nothing.

`adapter_read_lost.cfg` refutes `FailedReadDisables`: when the read of the adapter fails, the
force-discharge menu that `controller.go:164-166` has just disabled is enabled again by
`updateTelemetry`, from the adapter state of an earlier refresh.

Proofs.  `MenuAppProofs` proves `OffersAccepted` and `ControlsAlwaysAgree` for every set of
Macs and limits and any number of steps, failures and other clients, from no assumption but
that of the module.  First, the daemon's part: with the app and the command line, the
daemon takes steps of `ChargeService` only (`DaemonUnderApp`), so that what is proved of the
service (`LimitIsPromised`) holds here, and on a Mac that cannot calibrate there is no
session (`ServiceInv`).  Then what each `update...` function makes of any menu, a lemma each:
which items it decides, and which it leaves alone.  The invariant has two parts.
`MenuInv` holds whatever fails: the countdowns show the timers last read, and what these
forbid is off; once the menu has been open, force discharge is offered or can be stopped,
not both (`OneDischarge`, which is not so before the first refresh, and rests on that
opening updates these items before the compatibility can show them again); what the Mac
lacks is hidden when its capabilities are known.  `FreshInv` says what an undisturbed
refresh has read by each of its calls.  `MenuCatchesUp` is liveness and stays with TLC.

Seen while modelling and not stated as properties: when `GetVersion` fails as the menu
opens, all controls stay hidden until it is opened again; "disable for" is offered at a
limit of 100%, and refused; the app shows a hold threshold of 15% always, since
`GET /config` leaves it out.

## ConfigStore

`ChargeControl` takes a handler's setters and its `Save` for one step.  `ConfigStore.tla` looks
at `pkg/config/file.go` one critical section at a time: several clients' requests, the
goroutine that reloads on SIGHUP and clears what the Mac does not support, readers,
failed saves, deaths, and a user who edits the file.

| variable | code |
|---|---|
| `alive` | down, starting (`NewFile`, the clearing), up |
| `mem`, `file` | `File.c`; the file's text (whole, empty, garbled) and what it says; an unset field is `None` and reads as its default |
| `lock` | `File.mu`: the writer that has announced itself, the readers inside |
| `transition` | who holds `chargeControlTransitionMu` |
| `proc` | each goroutine: its request, the section it is at, what it has read |
| `latest`, `promised`, `undone`, `apart` | history: who wrote a field last; the value a request was told is stored; the fields a reload has replaced before their save began; an edit or a failed save has parted memory and file |

The lock is Go's `RWMutex`: a writer that waits keeps new readers out (`Unlocked`), and goes in
when those inside have left (`HasLock`).  A section that only reads is one step.  `LowerLimit`
is not: it calls `UpperLimit` with the read lock held (`ReadLower`, `ReadNested`).  `Save` holds
the lock as a reader, truncates, then encodes (`SaveBegins`, `SaveEnds`), and may fail at
both.  `setLowerLimitDelta` and `SetLowerLimit` read the limit four times.

Properties.  `PromisesKept`: a value whose request was answered stays in memory and in the
file until the field is written again, the file is edited, or a save fails or is cut
off.  A reload is no danger to it but in one place: between a request's setter and its
`Save` it replaces the value, and the request is answered all the same (`daemon.go:118`,
`reload_loses_setting.cfg`).  The history variable `undone` holds the fields to which that has happened, and
nothing is said of them until they are written again.  `FileAgrees`: memory and file differ only while somebody has a save to do.
`RequestsEnd`: requests are answered, and the transition lock is given back on every path,
the panicking setters' included, except when everything stands still on the nested lock.

The run `config_store` checks them with two clients and two settings, one of them
unsupported and on by default, two limits and two deltas of which some pairs are
refused, two requests, a reload and one trouble.  Fairness: goroutines run on.  Three
configurations show what the code does not promise:

| configuration | property | what happens |
|---|---|---|
| `nested_read_stalls.cfg` | `EveryRequestEnds` | a writer announces itself between the two read locks of `LowerLimit` (`file.go:183-194`): reader and writer wait for each other, and everybody for them |
| `lower_below_upper.cfg` | `LowerBelowUpper` | a limit request between the reads of `setLowerLimitDelta`, which does not take the transition lock, leaves a delta that puts the lower limit above the upper one or below 0, past the assertion at `file.go:355` |
| `reload_loses_setting.cfg` | `SaveWritesIt` | a SIGHUP between a setter and its `Save` takes the accepted value back, and the save stores the old one |

Proofs.  `ConfigStoreProofs` proves `AnswersAreKept` and `MemoryReachesFile` for any clients,
settings and bounds.  The invariant `StoreInv` says where each process can be (`Placed`) and that it
has the lock it thinks it has (`Discipline`: a process is at a nested read or an encoding
exactly if it is among the readers, at a write exactly if it is the announced writer);
that the last writer of a field finds there what it wrote unless a reload has undone it
(`WrittenIsThere`), so that its save stores it; and that while a save is half-way, values that are promised and not on
disk are in memory (`HalfSaved`), which no reload can replace as it needs the lock.
`AnswersAreKept` has the exception of `PromisesKept`, and no other.  Each
action is a lemma; most rest on one about a single process that moves.

## Plan

Done: all modules above, the refinement of `ChargeService` by `ChargeControl` with its proof,
and the proofs named there.  To come: that the
sequence of a single writer in `FirmwareLimit` implements the one register of
`ChargeControl`.

## Not modelled

- Liveness, and what depends on ENABLED, is model-checked only.
- `disableUnsupportedCalibrationState`: a session found at start-up on a Mac that cannot
  calibrate is dropped.  All models with a session are of a Mac that can.
- The MagSafe LED, SMC key encodings, hardware probing, notifications, printing, the
  native menu's drawing, installers and packaging: input and output without a decision
  about charging.
- The read of `calibrationState.Phase` without its mutex at `loop.go:480`, which makes
  `maintainedChargingInProgress` false in a session: `SleepHooks` has no session.
- `srv.Shutdown` waits its full two seconds when an event stream is open; time spent
  stopping is not modelled.
