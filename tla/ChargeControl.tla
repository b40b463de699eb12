--------------------------- MODULE ChargeControl ---------------------------
(***************************************************************************)
(* The charge-control core of the batt daemon: the main loop               *)
(* (pkg/daemon/loop.go), the calibration workflow (calibration.go), the    *)
(* HTTP handlers that change the charge limit, the power adapter and the   *)
(* two "disable for a while" timers (handlers.go), start-up, SIGHUP and    *)
(* shut-down (daemon.go), and the two files that survive a crash.          *)
(*                                                                         *)
(* Locks.  txn is the holder of chargeControlTransitionMu; pass is the     *)
(* holder of maintainLoopInnerLock (one maintain pass at a time).          *)
(* calibrationMu and the config RWMutex are held within a single action.   *)
(*                                                                         *)
(* A time of 0 is Go's zero time: the timer is not set.                    *)
(***************************************************************************)
EXTENDS Integers

CONSTANTS
    Mode,             \* "Legacy" or "Firmware": capabilities.ChargeControlMode
    Limits,           \* the charge limits users ask for (bound)
    Deltas,           \* the lower-limit deltas users ask for (bound)
    InitialDelta,     \* the delta the configuration file starts with
    Charges,          \* the battery percentages a pass may read (bound)
    Threshold,        \* discharge threshold of a calibration, in percent
    Durations,        \* durations of "disable for" requests, in ticks (bound)
    MaxTime,          \* the clock stops here (bound)
    Requests,         \* what users and the system do in this run (bound)
    SaveOutcomes,     \* how config.Save may end: "ok", "fail", "torn"
    PersistOutcomes,  \* how persistCalibrationState may end: "ok", "fail", "die"
    HardwareOutcomes  \* how an SMC or power-assertion call may end: TRUE, FALSE

ASSUME ChargeControlAssumption ==
    /\ Mode \in {"Legacy", "Firmware"}
    /\ Limits \subseteq 10..100
    /\ Deltas \subseteq 1..90
    /\ InitialDelta \in 1..90
    /\ \A l \in Limits : l - InitialDelta > 0
    /\ Charges \subseteq 0..100
    /\ Threshold \in 5..95
    /\ Durations \subseteq Nat \ {0}
    /\ MaxTime \in Nat
    /\ "ok" \in SaveOutcomes /\ SaveOutcomes \subseteq {"ok", "fail", "torn"}
    /\ "ok" \in PersistOutcomes /\ PersistOutcomes \subseteq {"ok", "fail", "die"}
    /\ TRUE \in HardwareOutcomes /\ HardwareOutcomes \subseteq BOOLEAN

VARIABLES
    conf,          \* the daemon's configuration in memory
    file,          \* what the configuration file holds
    cal,           \* calibrationState
    calFile,       \* what batt.state.json holds
    hw,            \* the SMC: charging switch, firmware limit, power adapter
    awake,         \* the calibration sleep assertion is held
    daemon,        \* the life of the process
    loop,          \* where infiniteLoop is
    loopNow,       \* the time infiniteLoop read at the top of its iteration
    txn,           \* the holder of chargeControlTransitionMu and its progress
    pass,          \* the holder of maintainLoopInnerLock and what it has read
    owed,          \* setLowerLimitDelta still has to run its maintain pass
    now,           \* the clock
    adapterWanted  \* history: the adapter setting the user last asked to keep

limits == <<conf, file>>
session == <<cal, calFile, awake>>
machine == <<hw, daemon>>
mainLoop == <<loop, loopNow>>
locks == <<txn, pass, owed>>
world == <<now, adapterWanted>>
vars == <<limits, session, machine, mainLoop, locks, world>>

-----------------------------------------------------------------------------
(* Values.                                                                 *)

Phase == {"Idle", "Discharge", "Charge", "Hold", "PostHold", "Restore", "Error"}

\* RawFileConfig; "wanted" is a history field: the limit the user last set.
Conf == [limit : 0..100, delta : 1..100, disableUntil : Nat,
         preDisableLimit : 0..100, adapterDisableUntil : Nat, wanted : 0..100]

\* calibration.State: the phase, the pause flag and the snapshot.
Calibration == [phase : Phase, paused : BOOLEAN, upper : 0..100, lower : Int,
                chargingOn : BOOLEAN, adapterOn : BOOLEAN]

\* limit is the active firmware limit, 0 when it is not active.
Hardware == [charging : BOOLEAN, adapter : BOOLEAN, limit : 0..100]

Life == {"up", "stopping", "reset", "down", "panicked"}
LoopPlace == {"sleep", "restore", "forced", "adapter", "maintain"}

\* What the holder of the transition lock does next, and a number it has read:
\* a limit, or whether the adapter was on.
Transaction ==
    [op : {"none", "limit", "disableFor", "adapter", "adapterSave", "adapterCut",
           "restore", "adapterKeep", "adapterBack", "adapterClear", "pass"},
     arg : 0..100]

\* Who runs the maintain pass and where it is: it has read ("drive"), or is past
\* the calibration ("act"); what the limits and the charge it has read call for,
\* and the charging switch it has read.
Callers == {"loop", "forced", "request", "delta"}
MaintainPass ==
    [by : Callers \union {"none"},
     at : {"none", "drive", "act"},
     charge : 0..100,
     plan : {"none", "reconcile", "noMaintain", "above", "below", "keep"},
     charging : BOOLEAN]

NoCalibration == [phase |-> "Idle", paused |-> FALSE, upper |-> 0, lower |-> 0,
                  chargingOn |-> FALSE, adapterOn |-> FALSE]

NoTxn == [op |-> "none", arg |-> 0]
NoPass == [by |-> "none", at |-> "none", charge |-> 0, plan |-> "none",
           charging |-> FALSE]

\* What a file that was truncated and not rewritten is read as: the defaults.
Blank(c) == [c EXCEPT !.limit = 80, !.delta = 2, !.disableUntil = 0,
                      !.preDisableLimit = 0, !.adapterDisableUntil = 0]

-----------------------------------------------------------------------------
(* Small operators shared by the actions.                                  *)

Running == daemon \in {"up", "stopping", "reset"}

Asked(r) == daemon = "up" /\ r \in Requests

SessionActive(st) == st.phase \notin {"Idle", "Error"}

\* Mutant: a paused session is taken to own nothing.
OwnsUnlessPaused == SessionActive(cal) /\ ~cal.paused
calibrationOwnsChargeLimit == cal.phase # "Idle"

LowerLimit == conf.limit - conf.delta

\* SetUpperLimit panics when this is false.
CanSetUpperLimit(c, l) == l <= 100 /\ l - c.delta >= 0

\* SetLowerLimit(i) on a configuration whose limit is c.limit.
CanSetLowerLimit(c, i) == i >= 0 /\ i < c.limit
\* Mutant: the subtraction the wrong way round.
SetLowerLimitSwapped(c, i) == [c EXCEPT !.delta = i - c.limit]
SetLowerLimit(c, i) == [c EXCEPT !.delta = c.limit - i]

\* Mutant: one timer too many.
ClearBothTimers(c) ==
    [c EXCEPT !.disableUntil = 0, !.preDisableLimit = 0, !.adapterDisableUntil = 0]
ClearDisableTimer(c) == [c EXCEPT !.disableUntil = 0, !.preDisableLimit = 0]
ClearAdapterDisableTimer(c) == [c EXCEPT !.adapterDisableUntil = 0]

Saved(c, outcome) ==
    file' = IF outcome = "ok" THEN c
            ELSE IF outcome = "fail" THEN file ELSE Blank(c)

\* persistCalibrationState: written, not written, or killed before the write.
Persist(st) ==
    \E outcome \in PersistOutcomes :
        /\ calFile' = IF outcome = "ok" THEN st ELSE calFile
        /\ daemon' = IF outcome = "die" THEN "down" ELSE daemon

\* The limits and the hardware a finished or cancelled calibration goes back to.
\* Mutant: the upper limit is left where the calibration put it.
RestoredLowerLimit(c, st) == SetLowerLimit(c, st.lower)
\* Mutant: the lower limit is set first.
RestoredLowerFirst(c, st) == [SetLowerLimit(c, st.lower) EXCEPT !.limit = st.upper]
RestoredLimits(c, st) ==
    LET raised == [c EXCEPT !.limit = st.upper] IN SetLowerLimit(raised, st.lower)

RestorePanics(c, st) ==
    \/ ~CanSetUpperLimit(c, st.upper)
    \/ ~CanSetLowerLimit([c EXCEPT !.limit = st.upper], st.lower)

\* What a switch may show after a write of new over old.
Written(old, new) == {new} \union (IF FALSE \in HardwareOutcomes THEN {old} ELSE {})

\* EnsureFirmwareChargeLimit / EnsureFirmwareChargeLimitDisabled: what the
\* limit register may hold afterwards.  A sequence that fails after its first
\* write leaves the limit inactive.
FirmwareResults(limit) ==
    {limit} \union (IF FALSE \in HardwareOutcomes THEN {hw.limit, 0} ELSE {})

-----------------------------------------------------------------------------
(* Initially the daemon is not running; the file holds some limit the user *)
(* set earlier, no timer is pending and no calibration was interrupted.    *)

FreshFile(l) == [limit |-> l, delta |-> InitialDelta, disableUntil |-> 0,
                 preDisableLimit |-> 0, adapterDisableUntil |-> 0, wanted |-> l]

Init ==
    /\ \E l \in Limits : file = FreshFile(l)
    /\ conf = file
    /\ cal = NoCalibration /\ calFile = NoCalibration
    /\ \E on \in BOOLEAN : hw = [charging |-> on, adapter |-> TRUE, limit |-> 0]
    /\ awake = FALSE
    /\ daemon = "down"
    /\ loop = "sleep" /\ loopNow = 0
    /\ txn = NoTxn /\ pass = NoPass /\ owed = FALSE
    /\ now = 0
    /\ adapterWanted = TRUE

-----------------------------------------------------------------------------
(* The life of the process.                                                *)

\* initCalibrationState: a session interrupted mid-flow comes back paused.
Recovered(st) ==
    [st EXCEPT !.paused = @ \/ st.phase \notin {"Idle", "Restore", "Error"}]

Start ==
    /\ daemon \in {"down", "panicked"}
    /\ daemon' = "up"
    /\ conf' = file
    /\ cal' = Recovered(calFile)
    /\ \E ok \in HardwareOutcomes : awake' = (ok /\ SessionActive(cal'))
    /\ loop' = "sleep" /\ loopNow' = 0
    /\ txn' = NoTxn /\ pass' = NoPass /\ owed' = FALSE
    /\ UNCHANGED <<file, calFile, hw, world>>

\* What the memory of a dead process is worth: the files alone count.
Forget ==
    /\ conf' = file /\ cal' = Recovered(calFile) /\ awake' = FALSE
    /\ loop' = "sleep" /\ loopNow' = 0
    /\ txn' = NoTxn /\ pass' = NoPass /\ owed' = FALSE

Crash ==
    /\ Running /\ "crash" \in Requests
    /\ daemon' = "down"
    /\ Forget
    /\ UNCHANGED <<file, calFile, hw, world>>

\* SIGTERM: no new request is served; the main loop and the requests in flight
\* go on running until the process exits.
Shutdown ==
    /\ Asked("stop")
    /\ daemon' = "stopping"
    /\ awake' = FALSE
    /\ UNCHANGED <<limits, cal, calFile, hw, mainLoop, locks, world>>

ResetChargeControl ==
    /\ daemon = "stopping"
    /\ daemon' = "reset"
    /\ \/ /\ Mode = "Legacy"
          /\ \E ok \in HardwareOutcomes : hw' = [hw EXCEPT !.charging = @ \/ ok]
       \/ /\ Mode = "Firmware"
          /\ \E limit \in FirmwareResults(0) : hw' = [hw EXCEPT !.limit = limit]
    /\ UNCHANGED <<limits, session, mainLoop, locks, world>>

Exit ==
    /\ daemon = "reset"
    /\ daemon' = "down"
    /\ \E ok \in HardwareOutcomes : hw' = [hw EXCEPT !.adapter = @ \/ ok]
    /\ Forget
    /\ UNCHANGED <<file, calFile, world>>

\* SIGHUP: conf.Load takes only the configuration lock, so it may come between
\* any two steps of a handler.
Reload ==
    /\ Running /\ "reload" \in Requests
    /\ conf' = file
    /\ UNCHANGED <<file, session, machine, mainLoop, locks, world>>

Tick ==
    /\ now < MaxTime
    /\ now' = now + 1
    /\ UNCHANGED <<limits, session, machine, mainLoop, locks, adapterWanted>>

-----------------------------------------------------------------------------
(* setLimit: checked under the transition lock, committed, then one forced *)
(* maintain pass before the lock is released.                              *)

SetLimitCheck(l) ==
    /\ Asked("limit")
    /\ txn = NoTxn
    /\ ~calibrationOwnsChargeLimit
    /\ l - conf.delta > 10
    /\ txn' = [op |-> "limit", arg |-> l]
    /\ UNCHANGED <<limits, session, machine, mainLoop, pass, owed, world>>

\* A SetUpperLimit that panics here is caught by the HTTP server.
SetLimitCommit ==
    /\ Running /\ txn.op = "limit"
    /\ \/ /\ CanSetUpperLimit(conf, txn.arg)
          /\ conf' = ClearDisableTimer([conf EXCEPT !.limit = txn.arg,
                                                    !.wanted = txn.arg])
          /\ \E outcome \in SaveOutcomes :
                /\ Saved(conf', outcome)
                /\ txn' = IF outcome = "ok" THEN [op |-> "pass", arg |-> 0]
                                            ELSE NoTxn
       \/ /\ ~CanSetUpperLimit(conf, txn.arg)
          /\ txn' = NoTxn
          /\ UNCHANGED limits
    /\ UNCHANGED <<session, machine, mainLoop, pass, owed, world>>

-----------------------------------------------------------------------------
(* setDisableFor: batt disable --for.                                      *)

\* resolveDisableLimit; 0 when there is no limit to restore.
\* Mutant: the limit in force, even when a timer put it there.
CurrentLimit == conf.limit
resolveDisableLimit ==
    IF conf.limit < 100 THEN conf.limit
    ELSE IF conf.disableUntil # 0 /\ conf.preDisableLimit >= 10
         THEN conf.preDisableLimit ELSE 0

SetDisableForCheck ==
    /\ Asked("disableFor")
    /\ txn = NoTxn
    /\ ~calibrationOwnsChargeLimit
    /\ resolveDisableLimit # 0
    /\ txn' = [op |-> "disableFor", arg |-> resolveDisableLimit]
    /\ UNCHANGED <<limits, session, machine, mainLoop, pass, owed, world>>

SetDisableForCommit(d) ==
    /\ Running /\ txn.op = "disableFor"
    /\ conf' = [conf EXCEPT !.limit = 100, !.disableUntil = now + d,
                            !.preDisableLimit = txn.arg]
    /\ \E outcome \in SaveOutcomes :
          /\ Saved(conf', outcome)
          /\ txn' = IF outcome = "ok" THEN [op |-> "pass", arg |-> 0] ELSE NoTxn
    /\ UNCHANGED <<session, machine, mainLoop, pass, owed, world>>

-----------------------------------------------------------------------------
(* setAdapter and setAdapterDisableFor.                                    *)

SetAdapterCheck(d) ==
    /\ Asked("adapter")
    /\ txn = NoTxn
    /\ ~calibrationOwnsChargeLimit
    /\ txn' = [op |-> "adapter", arg |-> IF d THEN 1 ELSE 0]
    /\ UNCHANGED <<limits, session, machine, mainLoop, pass, owed, world>>

SetAdapterCommit ==
    /\ Running /\ txn.op = "adapter"
    /\ txn' = NoTxn
    /\ \/ /\ hw' = [hw EXCEPT !.adapter = (txn.arg = 1)]
          /\ adapterWanted' = (txn.arg = 1)
          /\ conf' = ClearAdapterDisableTimer(conf)
          /\ \E outcome \in SaveOutcomes : Saved(conf', outcome)
       \/ /\ FALSE \in HardwareOutcomes
          /\ UNCHANGED <<limits, hw, adapterWanted>>
    /\ UNCHANGED <<session, daemon, mainLoop, pass, owed, now>>

\* Mutant: on to the cut without saving.
SetAdapterDisableForUnsaved(d) ==
    /\ Asked("adapterFor")
    /\ txn = NoTxn
    /\ ~calibrationOwnsChargeLimit
    /\ conf' = [conf EXCEPT !.adapterDisableUntil = now + d]
    /\ txn' = [op |-> "adapterCut", arg |-> 0]
    /\ UNCHANGED <<file, session, machine, mainLoop, pass, owed, world>>

SetAdapterDisableForCheck(d) ==
    /\ Asked("adapterFor")
    /\ txn = NoTxn
    /\ ~calibrationOwnsChargeLimit
    /\ conf' = [conf EXCEPT !.adapterDisableUntil = now + d]
    /\ txn' = [op |-> "adapterSave", arg |-> 0]
    /\ UNCHANGED <<file, session, machine, mainLoop, pass, owed, world>>

\* The deadline is saved before the power is cut.
SetAdapterDisableForSave ==
    /\ Running /\ txn.op = "adapterSave"
    /\ \E outcome \in SaveOutcomes :
          /\ Saved(conf, outcome)
          /\ \/ /\ outcome = "ok"
                /\ txn' = [op |-> "adapterCut", arg |-> 0]
                /\ UNCHANGED conf
             \/ /\ outcome # "ok"
                /\ txn' = NoTxn
                /\ conf' = ClearAdapterDisableTimer(conf)
    /\ UNCHANGED <<session, machine, mainLoop, pass, owed, world>>

SetAdapterDisableForCut ==
    /\ Running /\ txn.op = "adapterCut"
    /\ txn' = NoTxn
    /\ \/ /\ hw' = [hw EXCEPT !.adapter = FALSE]
          /\ adapterWanted' = TRUE
          /\ UNCHANGED limits
       \/ /\ FALSE \in HardwareOutcomes
          /\ conf' = ClearAdapterDisableTimer(conf)
          /\ \E outcome \in SaveOutcomes : Saved(conf', outcome)
          /\ UNCHANGED <<hw, adapterWanted>>
    /\ UNCHANGED <<session, daemon, mainLoop, pass, owed, now>>

-----------------------------------------------------------------------------
(* setLowerLimitDelta takes no transition lock and does not look at the    *)
(* calibration or the timers; its forced maintain pass follows.            *)

SetLowerLimitDelta(d) ==
    /\ Asked("delta")
    /\ ~owed
    /\ conf.limit - d >= 10
    /\ conf' = SetLowerLimit(conf, conf.limit - d)
    /\ \E outcome \in SaveOutcomes :
          /\ Saved(conf', outcome)
          /\ owed' = (outcome = "ok")
    /\ UNCHANGED <<session, machine, mainLoop, txn, pass, world>>

-----------------------------------------------------------------------------
(* Calibration requests.                                                   *)

\* Mutants of the admission checks: not under the transition lock; without the
\* adapter's timer.
StartAdmittedUnlocked ==
    ~SessionActive(cal) /\ conf.disableUntil = 0 /\ conf.adapterDisableUntil = 0
StartAdmittedOneTimer ==
    txn = NoTxn /\ ~SessionActive(cal) /\ conf.disableUntil = 0

StartAdmitted ==
    /\ txn = NoTxn
    /\ ~SessionActive(cal)
    /\ conf.disableUntil = 0
    /\ conf.adapterDisableUntil = 0

\* startCalibration, from a request or from the scheduler; it holds both the
\* transition lock and calibrationMu.  A reading that fails counts as "off".
StartCalibration ==
    /\ Running /\ "start" \in Requests
    /\ StartAdmitted
    /\ awake' = TRUE
    /\ \E charging \in IF Mode = "Firmware" THEN {TRUE}
                       ELSE {hw.charging} \union (HardwareOutcomes \ {TRUE}),
          adapter \in {hw.adapter} \union (HardwareOutcomes \ {TRUE}) :
          cal' = [phase |-> "Discharge", paused |-> FALSE, upper |-> conf.limit,
                  lower |-> LowerLimit, chargingOn |-> charging,
                  adapterOn |-> adapter]
    /\ Persist(cal')
    /\ UNCHANGED <<limits, hw, mainLoop, locks, world>>

PauseCalibration ==
    /\ Asked("pause")
    /\ cal.phase # "Idle" /\ ~cal.paused
    /\ cal' = [cal EXCEPT !.paused = TRUE]
    /\ Persist(cal')
    /\ UNCHANGED <<limits, awake, hw, mainLoop, locks, world>>

ResumeCalibration ==
    /\ Asked("resume")
    /\ cal.phase # "Idle" /\ cal.paused
    /\ cal' = [cal EXCEPT !.paused = FALSE]
    /\ Persist(cal')
    /\ UNCHANGED <<limits, awake, hw, mainLoop, locks, world>>

\* What the SMC may show once the snapshot st has been written back.
RestoredCharging(st) ==
    IF Mode = "Firmware" THEN {hw.charging} ELSE Written(hw.charging, st.chargingOn)
RestoredFirmware(st) ==
    IF Mode = "Firmware" THEN FirmwareResults(IF st.upper < 100 THEN st.upper ELSE 0)
    ELSE {hw.limit}
RestoreHardware(st) ==
    \E charging \in RestoredCharging(st), limit \in RestoredFirmware(st),
       adapter \in Written(hw.adapter, st.adapterOn) :
          hw' = [charging |-> charging, adapter |-> adapter, limit |-> limit]

\* The transition to Idle that every way of ending a calibration shares.
EndCalibration ==
    /\ cal' = NoCalibration
    /\ Persist(NoCalibration)
    /\ awake' = FALSE

\* A panic of SetUpperLimit is caught by the HTTP server and changes nothing.
CancelCalibration ==
    /\ Asked("cancel")
    /\ cal.phase # "Idle"
    /\ ~RestorePanics(conf, cal)
    /\ conf' = RestoredLimits(conf, cal)
    /\ \E outcome \in SaveOutcomes : Saved(conf', outcome)
    /\ RestoreHardware(cal)
    /\ EndCalibration
    /\ UNCHANGED <<mainLoop, locks, world>>

-----------------------------------------------------------------------------
(* applyCalibrationWithinLoop: one step of the session, for a charge read  *)
(* by the pass.  Each case leaves loop, txn, pass and owed to the pass.    *)

\* Mutant: a session that ends keeps the Mac awake.
AdvanceAwake(st) == cal' = st /\ Persist(st) /\ UNCHANGED awake

\* The tail common to all cases.
Advance(st) ==
    /\ cal' = st
    /\ Persist(st)
    /\ awake' = (awake /\ SessionActive(st))

Entering(phase) == [cal EXCEPT !.phase = phase]

KeepDischarging(charge) ==
    /\ cal.phase = "Discharge" /\ charge >= Threshold
    /\ \/ /\ hw' = [hw EXCEPT !.adapter = FALSE]
          /\ Advance(cal)
       \/ /\ FALSE \in HardwareOutcomes
          /\ Advance(Entering("Error"))
          /\ UNCHANGED hw
    /\ UNCHANGED limits

\* Adapter on, then charging on, then the limit: the first failure ends it.
BeginCharging(charge) ==
    /\ cal.phase = "Discharge" /\ charge < Threshold
    /\ \/ /\ hw' = IF Mode = "Firmware"
                   THEN [hw EXCEPT !.adapter = TRUE, !.limit = 0]
                   ELSE [hw EXCEPT !.adapter = TRUE, !.charging = TRUE]
          /\ conf' = [conf EXCEPT !.limit = 100]
          /\ \E outcome \in SaveOutcomes :
                /\ Saved(conf', outcome)
                /\ Advance(Entering(IF outcome = "ok" THEN "Charge" ELSE "Error"))
       \/ /\ FALSE \in HardwareOutcomes
          /\ hw' \in {hw, [hw EXCEPT !.adapter = TRUE]}
          /\ Advance(Entering("Error"))
          /\ UNCHANGED limits

FinishCharging(charge) ==
    /\ cal.phase = "Charge"
    /\ Advance(IF charge >= 100 THEN Entering("Hold") ELSE cal)
    /\ UNCHANGED <<limits, hw>>

\* Whether the hold time is over is left open here (see HoldTimer).  A failure
\* to cut the adapter is ignored.
KeepHolding ==
    /\ cal.phase = "Hold"
    /\ \/ Advance(cal) /\ UNCHANGED hw
       \/ /\ \E adapter \in Written(hw.adapter, FALSE) :
                hw' = [hw EXCEPT !.adapter = adapter]
          /\ Advance(Entering("PostHold"))
    /\ UNCHANGED limits

PostHoldTarget == IF cal.upper <= 20 \/ cal.upper > 100 THEN conf.limit ELSE cal.upper

DrainToLimit(charge) ==
    /\ cal.phase = "PostHold"
    /\ Advance(IF charge <= PostHoldTarget THEN Entering("Restore") ELSE cal)
    /\ UNCHANGED <<limits, hw>>

RestoreAndFinish ==
    /\ cal.phase = "Restore"
    /\ ~RestorePanics(conf, cal)
    /\ conf' = RestoredLimits(conf, cal)
    /\ \E outcome \in SaveOutcomes :
          /\ Saved(conf', outcome)
          /\ \/ /\ outcome = "ok"
                /\ RestoreHardware(cal)
                /\ Advance(Entering("Idle"))
             \/ /\ outcome # "ok"
                /\ Advance(Entering("Error"))
                /\ UNCHANGED hw

applyCalibrationWithinLoop(charge) ==
    \/ KeepDischarging(charge) \/ BeginCharging(charge) \/ FinishCharging(charge)
    \/ KeepHolding \/ DrainToLimit(charge) \/ RestoreAndFinish

-----------------------------------------------------------------------------
(* A maintain pass (maintainLoopInner).  It is run by the main loop, by the*)
(* main loop right after a restored limit ("forced"), by a handler that    *)
(* holds the transition lock ("request"), or by setLowerLimitDelta         *)
(* ("delta").  The legacy pass reads the limits and the SMC, then drives   *)
(* the calibration under calibrationMu, then acts on what it read: other   *)
(* goroutines may come between.  The firmware pass drives first and reads  *)
(* the limits afterwards.                                                  *)

PassDue(by) ==
    /\ Running /\ pass = NoPass
    /\ \/ by = "loop" /\ loop = "maintain"
       \/ by = "forced" /\ loop = "forced"
       \/ by = "request" /\ txn.op = "pass"
       \/ by = "delta" /\ owed

\* Mutant: a handler forgets the transition lock.
ReturnHolding(by) ==
    /\ pass' = NoPass
    /\ loop' = IF by = "loop" THEN "sleep" ELSE IF by = "forced" THEN "adapter"
               ELSE loop
    /\ owed' = (owed /\ by # "delta")
    /\ UNCHANGED <<txn, loopNow, world>>

\* The pass returns to its caller.
Return(by) ==
    /\ pass' = NoPass
    /\ loop' = IF by = "loop" THEN "sleep" ELSE IF by = "forced" THEN "adapter"
               ELSE loop
    /\ txn' = IF by = "request" THEN NoTxn ELSE txn
    /\ owed' = (owed /\ by # "delta")
    /\ UNCHANGED <<loopNow, world>>

\* A reading of the SMC failed.
PassFails(by) ==
    /\ PassDue(by)
    /\ FALSE \in HardwareOutcomes
    /\ Return(by)
    /\ UNCHANGED <<limits, session, machine>>

\* What the limits and a charge call for.
Plan(charge) ==
    IF conf.limit >= 100 THEN "noMaintain"
    ELSE IF charge >= conf.limit THEN "above"
    ELSE IF charge < LowerLimit THEN "below" ELSE "keep"

\* The legacy pass first reads the limits, the charging switch and the charge.
PassReads(by, charge) ==
    /\ Mode = "Legacy"
    /\ PassDue(by)
    /\ pass' = [by |-> by, at |-> "drive", charge |-> charge, plan |-> Plan(charge),
                charging |-> hw.charging]
    /\ UNCHANGED <<limits, session, machine, mainLoop, txn, owed, world>>

\* The pass is about to look at the calibration, with this charge.
Driving(by, charge) ==
    /\ Running
    /\ \/ Mode = "Firmware" /\ PassDue(by)
       \/ Mode = "Legacy" /\ pass.at = "drive" /\ pass.by = by /\ pass.charge = charge

CalibrationRuns == SessionActive(cal) /\ ~cal.paused

PassCalibrates(by, charge) ==
    /\ Driving(by, charge)
    /\ CalibrationRuns
    /\ applyCalibrationWithinLoop(charge)
    /\ Return(by)

\* SetUpperLimit panics on the main loop's goroutine: the daemon dies.  On a
\* handler's goroutine the panic is caught and the pass just ends.
PassPanics(by, charge) ==
    /\ Driving(by, charge)
    /\ CalibrationRuns /\ cal.phase = "Restore" /\ RestorePanics(conf, cal)
    /\ Return(by)
    /\ daemon' = IF by \in {"loop", "forced"} THEN "panicked" ELSE daemon
    /\ UNCHANGED <<limits, session, hw>>

\* No calibration to drive: the pass goes on to the limits.
PassGoesOn(by, charge) ==
    /\ Driving(by, charge)
    /\ ~CalibrationRuns
    /\ pass' = [by |-> by, at |-> "act", charge |-> 0,
                plan |-> IF Mode = "Firmware" THEN "reconcile" ELSE pass.plan,
                charging |-> pass.charging]
    /\ UNCHANGED <<limits, session, machine, mainLoop, txn, owed, world>>

\* Mutant: a limit of 100 is "nothing to do".
TargetLimitKept(c) == IF c.limit >= 100 THEN hw.limit ELSE c.limit

\* The firmware limit a configuration calls for; 0 is "inactive".
TargetLimit(c) == IF c.limit >= 100 THEN 0 ELSE c.limit

\* maintainFirmwareChargeLimit reads the limits afresh after the calibration.
PassReconciles ==
    /\ Running /\ pass.at = "act" /\ pass.plan = "reconcile"
    /\ \E limit \in FirmwareResults(TargetLimit(conf)) : hw' = [hw EXCEPT !.limit = limit]
    /\ Return(pass.by)
    /\ UNCHANGED <<limits, session, daemon>>

\* handleChargingLogic; missed loops are only honoured by the main loop's pass.
ChargingWrites(missed) ==
    IF pass.charging /\ (missed \/ pass.plan = "above") THEN Written(hw.charging, FALSE)
    ELSE IF pass.plan = "below" /\ ~pass.charging /\ ~missed
         THEN Written(hw.charging, TRUE)
    ELSE {hw.charging}

PassHysteresis ==
    /\ Running /\ pass.at = "act" /\ pass.plan \in {"below", "keep", "above"}
    /\ \E missed \in IF pass.by = "loop" THEN BOOLEAN ELSE {FALSE} :
          \E charging \in ChargingWrites(missed) :
             hw' = [hw EXCEPT !.charging = charging]
    /\ Return(pass.by)
    /\ UNCHANGED <<limits, session, daemon>>

\* cancelCalibrationForPermanentDisable, after the charging switch was set: the
\* session ends without its limits being restored, unless a temporary disable
\* is pending.
CancelForPermanentDisable(charging) ==
    \/ /\ conf.disableUntil = 0 /\ cal.phase # "Idle"
       /\ \E adapter \in Written(hw.adapter, cal.adapterOn) :
             hw' = [hw EXCEPT !.charging = charging, !.adapter = adapter]
       /\ EndCalibration
    \/ /\ conf.disableUntil # 0 \/ cal.phase = "Idle"
       /\ hw' = [hw EXCEPT !.charging = charging]
       /\ UNCHANGED <<session, daemon>>

\* handleNoMaintain; an EnableCharging that fails ends the pass.
PassNoMaintain ==
    /\ Running /\ pass.at = "act" /\ pass.plan = "noMaintain"
    /\ \/ CancelForPermanentDisable(hw.charging \/ ~pass.charging)
       \/ /\ ~pass.charging /\ FALSE \in HardwareOutcomes
          /\ UNCHANGED <<session, machine>>
    /\ Return(pass.by)
    /\ UNCHANGED limits

-----------------------------------------------------------------------------
(* infiniteLoop.                                                           *)

LoopTop ==
    /\ Running /\ loop = "sleep"
    /\ loop' = "restore" /\ loopNow' = now
    /\ UNCHANGED <<limits, session, machine, locks, world>>

\* restoreDisabledLimit: the checks, then (txn.op = "restore") the change.
LoopRestoreCheck ==
    /\ Running /\ loop = "restore" /\ txn = NoTxn
    /\ \/ /\ conf.disableUntil # 0 /\ conf.disableUntil <= loopNow
          /\ ~calibrationOwnsChargeLimit
          /\ txn' = [op |-> "restore", arg |-> 0]
          /\ UNCHANGED loop
       \/ /\ \/ conf.disableUntil = 0 \/ loopNow < conf.disableUntil
             \/ calibrationOwnsChargeLimit
          /\ loop' = "adapter"
          /\ UNCHANGED txn
    /\ UNCHANGED <<limits, session, machine, loopNow, pass, owed, world>>

LoopRestore ==
    /\ Running /\ txn.op = "restore"
    /\ conf.preDisableLimit >= 10
    /\ CanSetUpperLimit(conf, conf.preDisableLimit)
    /\ conf' = ClearDisableTimer([conf EXCEPT !.limit = conf.preDisableLimit])
    /\ \E outcome \in SaveOutcomes : Saved(conf', outcome)
    /\ txn' = NoTxn /\ loop' = "forced"
    /\ UNCHANGED <<session, machine, loopNow, pass, owed, world>>

LoopRestoreInvalid ==
    /\ Running /\ txn.op = "restore"
    /\ conf.preDisableLimit < 10
    /\ conf' = ClearDisableTimer(conf)
    /\ \E outcome \in SaveOutcomes : Saved(conf', outcome)
    /\ txn' = NoTxn /\ loop' = "adapter"
    /\ UNCHANGED <<session, machine, loopNow, pass, owed, world>>

LoopRestorePanics ==
    /\ Running /\ txn.op = "restore"
    /\ conf.preDisableLimit >= 10
    /\ ~CanSetUpperLimit(conf, conf.preDisableLimit)
    /\ daemon' = "panicked"
    /\ Forget
    /\ UNCHANGED <<file, calFile, hw, world>>

\* maintainAdapterDisable: the checks, then what they decided.
LoopAdapterCheck ==
    /\ Running /\ loop = "adapter" /\ txn = NoTxn
    /\ \/ /\ conf.adapterDisableUntil # 0 /\ ~calibrationOwnsChargeLimit
          /\ txn' = [op |-> IF loopNow < conf.adapterDisableUntil
                            THEN "adapterKeep" ELSE "adapterBack",
                     arg |-> IF hw.adapter THEN 1 ELSE 0]
          /\ UNCHANGED loop
       \/ /\ \/ conf.adapterDisableUntil = 0 \/ calibrationOwnsChargeLimit
             \/ FALSE \in HardwareOutcomes
          /\ loop' = "maintain"
          /\ UNCHANGED txn
    /\ UNCHANGED <<limits, session, machine, loopNow, pass, owed, world>>

LoopAdapterKeep ==
    /\ Running /\ txn.op = "adapterKeep"
    /\ \E adapter \in IF txn.arg = 1 THEN Written(hw.adapter, FALSE) ELSE {hw.adapter} :
          hw' = [hw EXCEPT !.adapter = adapter]
    /\ txn' = NoTxn /\ loop' = "maintain"
    /\ UNCHANGED <<limits, session, daemon, loopNow, pass, owed, world>>

\* Mutant: an adapter that is already on is "nothing to do".
LoopAdapterEnableOnly ==
    /\ Running /\ txn.op = "adapterBack"
    /\ \/ /\ txn.arg = 0
          /\ txn' = [op |-> "adapterClear", arg |-> 0]
          /\ hw' = [hw EXCEPT !.adapter = TRUE]
          /\ UNCHANGED loop
       \/ /\ txn.arg = 1
          /\ txn' = NoTxn /\ loop' = "maintain"
          /\ UNCHANGED hw
    /\ UNCHANGED <<limits, session, daemon, loopNow, pass, owed, world>>

LoopAdapterEnable ==
    /\ Running /\ txn.op = "adapterBack"
    /\ \/ /\ txn' = [op |-> "adapterClear", arg |-> 0]
          /\ hw' = [hw EXCEPT !.adapter = @ \/ txn.arg = 0]
          /\ UNCHANGED loop
       \/ /\ txn.arg = 0 /\ FALSE \in HardwareOutcomes
          /\ txn' = NoTxn /\ loop' = "maintain"
          /\ UNCHANGED hw
    /\ UNCHANGED <<limits, session, daemon, loopNow, pass, owed, world>>

LoopAdapterClear ==
    /\ Running /\ txn.op = "adapterClear"
    /\ conf' = ClearAdapterDisableTimer(conf)
    /\ \E outcome \in SaveOutcomes : Saved(conf', outcome)
    /\ txn' = NoTxn /\ loop' = "maintain"
    /\ UNCHANGED <<session, machine, loopNow, pass, owed, world>>

-----------------------------------------------------------------------------
Lifecycle == Start \/ Crash \/ Shutdown \/ ResetChargeControl \/ Exit \/ Reload

LimitRequest ==
    \/ \E l \in Limits : SetLimitCheck(l)
    \/ SetLimitCommit
    \/ SetDisableForCheck
    \/ \E d \in Durations : SetDisableForCommit(d)
    \/ \E d \in Deltas : SetLowerLimitDelta(d)

AdapterRequest ==
    \/ \E d \in BOOLEAN : SetAdapterCheck(d)
    \/ SetAdapterCommit
    \/ \E d \in Durations : SetAdapterDisableForCheck(d)
    \/ SetAdapterDisableForSave
    \/ SetAdapterDisableForCut

CalibrationRequest ==
    StartCalibration \/ PauseCalibration \/ ResumeCalibration \/ CancelCalibration

Pass ==
    \/ \E by \in Callers, charge \in Charges :
          \/ PassReads(by, charge) \/ PassCalibrates(by, charge)
          \/ PassPanics(by, charge) \/ PassGoesOn(by, charge)
    \/ \E by \in Callers : PassFails(by)
    \/ PassReconciles \/ PassHysteresis \/ PassNoMaintain

MainLoop ==
    \/ LoopTop
    \/ LoopRestoreCheck \/ LoopRestore \/ LoopRestoreInvalid \/ LoopRestorePanics
    \/ LoopAdapterCheck \/ LoopAdapterKeep \/ LoopAdapterEnable \/ LoopAdapterClear

Next ==
    \/ Tick
    \/ Lifecycle
    \/ LimitRequest
    \/ AdapterRequest
    \/ CalibrationRequest
    \/ Pass
    \/ MainLoop

Spec == Init /\ [][Next]_vars

\* Fairness: the goroutines that hold a lock run on, the main loop comes round,
\* and Go's mutexes do not starve a waiter.  Users owe nothing.
TxnStep ==
    \/ SetLimitCommit \/ \E d \in Durations : SetDisableForCommit(d)
    \/ SetAdapterCommit \/ SetAdapterDisableForSave \/ SetAdapterDisableForCut
    \/ LoopRestore \/ LoopRestoreInvalid
    \/ LoopAdapterKeep \/ LoopAdapterEnable \/ LoopAdapterClear

Drives ==
    \E by \in Callers, charge \in Charges :
        PassCalibrates(by, charge) \/ PassGoesOn(by, charge)

PassStarts(by) ==
    \/ \E charge \in Charges : PassReads(by, charge)
    \/ /\ pass = NoPass
       /\ \E charge \in Charges : PassCalibrates(by, charge) \/ PassGoesOn(by, charge)

PassActs ==
    \/ pass # NoPass /\ Drives
    \/ PassReconciles \/ PassHysteresis \/ PassNoMaintain

Fairness ==
    /\ WF_vars(Tick) /\ WF_vars(Start)
    /\ WF_vars(TxnStep) /\ WF_vars(PassActs) /\ WF_vars(LoopTop)
    /\ SF_vars(LoopRestoreCheck) /\ SF_vars(LoopAdapterCheck)
    /\ \A by \in Callers : SF_vars(PassStarts(by))

FairSpec == Spec /\ Fairness

-----------------------------------------------------------------------------
(* Properties.                                                             *)

TypeOK ==
    /\ conf \in Conf /\ file \in Conf
    /\ cal \in Calibration /\ calFile \in Calibration
    /\ hw \in Hardware
    /\ awake \in BOOLEAN
    /\ daemon \in Life
    /\ loop \in LoopPlace
    /\ loopNow \in Nat
    /\ txn \in Transaction
    /\ pass \in MaintainPass
    /\ owed \in BOOLEAN
    /\ now \in Nat
    /\ adapterWanted \in BOOLEAN

\* While a handler or the main loop is past its conflict check and still holds
\* chargeControlTransitionMu, no calibration can come into existence: what was
\* checked is still true when it is acted on (calibration.go:100-102).
CheckedConflictsStay == Running /\ txn # NoTxn => cal.phase = "Idle"

\* The Mac is kept awake exactly while a session is active, paused or not: the
\* assertion never outlives the session, and when IOKit obliges it is held for
\* all of it (docs/auto-calibration.md, Safety).
AssertionMatchesSession ==
    daemon = "up" =>
        /\ awake => SessionActive(cal)
        /\ HardwareOutcomes = {TRUE} /\ SessionActive(cal) => awake

\* No step of a running daemon brings a calibration and a pending "disable for"
\* timer together, except a SIGHUP that loads a timer from the file.
Conflict(c, st) ==
    st.phase # "Idle" /\ (c.disableUntil # 0 \/ c.adapterDisableUntil # 0)

ConflictsComeFromFile ==
    [][Running /\ Running' /\ ~Conflict(conf, cal) /\ Conflict(conf', cal')
       => conf' = file /\ UNCHANGED cal]_vars

\* Nobody but the calibration itself cuts the power adapter under a calibration
\* that is charging or holding: it goes off only when the session moves on to
\* drain the battery, or ends and restores a snapshot taken with it off.
PoweredWhileCharging ==
    [][Running /\ cal.phase \in {"Charge", "Hold"} /\ hw.adapter /\ ~hw'.adapter
       => cal'.phase = "PostHold" \/ (cal'.phase = "Idle" /\ ~cal.adapterOn)]_vars

\* Outside a calibration the adapter is cut only because the user said so for
\* good, or with the deadline that will bring it back already in the file
\* (handlers.go:348-349).
CutIsBacked ==
    [][Running /\ cal.phase = "Idle" /\ hw.adapter /\ ~hw'.adapter
       => txn.op = "adapter" \/ file.adapterDisableUntil # 0]_vars

\* Whatever crashes and restarts happen, an adapter that is off although the
\* user never asked for good has something that will bring it back: a deadline
\* in the file, or a calibration that holds the snapshot.
AdapterRecoverable ==
    ~hw.adapter /\ adapterWanted =>
        \/ file.adapterDisableUntil # 0
        \/ calFile.phase # "Idle" /\ calFile.adapterOn
        \/ Running /\ cal.phase # "Idle" /\ cal.adapterOn

\* The limit the user last set is what the session in progress will restore, else
\* what the pending timer will restore, else the limit in force.
LimitKept(c, st) ==
    c.wanted = IF st.phase # "Idle" THEN st.upper
               ELSE IF c.disableUntil # 0 THEN c.preDisableLimit ELSE c.limit

\* A paused session ends only by a cancellation that puts both limits of the
\* snapshot back, whatever delta is stored by then: the lower limit is kept as a
\* distance from the upper one, so the order of the setters tells (docs/
\* auto-calibration.md, Persistence & Recovery and Public API; calibration.go:446).
PausedSessionEndsRestored ==
    [][Running /\ SessionActive(cal) /\ cal.paused /\ cal'.phase = "Idle"
       => conf'.limit = cal.upper /\ LowerLimit' = cal.lower]_vars

\* What a SIGHUP, or a file that a failed save left behind, can bring about: a
\* timer under a session or beside a limit it has not raised, and a handler that
\* is about to save a limit which is no longer the one to come back to.
FileDisturbs ==
    \/ conf.disableUntil # 0 /\ (cal.phase # "Idle" \/ conf.limit < 100)
    \/ txn.op = "disableFor" /\ txn.arg # resolveDisableLimit

\* Whatever fails, two steps of the program forget the user's limit: the
\* cancellation a pass performs when it finds the limit at 100 and the
\* calibration not running, and a start from Error, which replaces the snapshot
\* (calibration.go:153).  Apart from them only a SIGHUP, which reads the file.
OnlyTwoStepsForget ==
    [][Running /\ Running' /\ ~FileDisturbs
           /\ LimitKept(conf, cal) /\ ~LimitKept(conf', cal')
       => \/ pass.at = "act" /\ pass.plan = "noMaintain" /\ cal'.phase = "Idle"
          \/ cal.phase = "Error" /\ cal'.phase = "Discharge"
          \/ conf' = file /\ UNCHANGED cal]_vars

\* "a failed calibration keeps its snapshot until it is cancelled, and
\* cancelling restores it" (calibration.go:38-39).
FailedCalibrationKeepsSnapshot ==
    [][Running /\ cal.phase = "Error" /\ cal'.phase # "Idle"
       => /\ cal'.upper = cal.upper /\ cal'.lower = cal.lower
          /\ cal'.adapterOn = cal.adapterOn /\ cal'.chargingOn = cal.chargingOn]_vars

\* The limits the setters assert are never refused on the daemon's own
\* goroutine (file.go:341-343): the main loop does not panic.
NoPanic == daemon # "panicked"

\* A limit disabled for a while comes back once its time has passed, provided
\* the daemon stops crashing: every deadline the clock reaches is cleared or
\* replaced by a later request, unless a calibration takes over.
StaysUp == <>[](daemon = "up")

DisableTimerEnds ==
    StaysUp => \A deadline \in 1..MaxTime :
        conf.disableUntil = deadline ~> conf.disableUntil # deadline \/ cal.phase # "Idle"

\* The same for the power adapter, which is then on or off because the user
\* said so.
AdapterTimerEnds ==
    StaysUp => \A deadline \in 1..MaxTime :
        conf.adapterDisableUntil = deadline
            ~> conf.adapterDisableUntil # deadline \/ cal.phase # "Idle"

\* Both timers, on the one loop that restores first a limit and then the adapter
\* (loop.go:26-40).
TimersEnd == DisableTimerEnds /\ AdapterTimerEnds

\* Left alone, the firmware ends up enforcing the configured limit, whoever wrote
\* the registers last; with the limit at 100 it enforces none.
LimitConverges ==
    \A l \in Limits \union {100} :
        <>[](daemon = "up" /\ cal.phase = "Idle" /\ conf.limit = l)
            => <>[](hw.limit = IF l = 100 THEN 0 ELSE l)

\* Whoever holds the transition lock gives it back, although it may have to
\* wait for the inner lock to run its pass.
LockComesFree == txn # NoTxn ~> txn = NoTxn

-----------------------------------------------------------------------------
(* Implementation of the service (ChargeService).  A request has taken     *)
(* effect when its outcome is in the file; the session is what a restart   *)
(* would find once the process is gone.                                    *)

SessionSeen ==
    LET st == IF Running THEN cal ELSE Recovered(calFile)
    IN  [phase |-> st.phase, paused |-> st.paused,
         home |-> st.phase # "Idle" /\ st.adapterOn]

Service == INSTANCE ChargeService WITH
    alive <- Running,
    limit <- file.limit,
    wanted <- file.wanted,
    timer <- file.disableUntil # 0,
    cut <- file.adapterDisableUntil # 0,
    adapter <- hw.adapter,
    session <- SessionSeen

\* In firmware mode, with hardware and a disk that obey and without SIGHUP, the
\* handlers that check and commit under the transition lock, the main loop and
\* the calibration are atomic to their clients, through every crash: they
\* implement the service.
ImplementsService == Service!Spec

=============================================================================
