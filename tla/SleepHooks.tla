----------------------------- MODULE SleepHooks -----------------------------
(***************************************************************************)
(* Charging and sleep under legacy control: the callbacks macOS makes      *)
(* around sleep (pkg/daemon/sleepcallback.go, hook.c), the main loop that  *)
(* they delay, the maintain passes (pkg/daemon/loop.go) and the recorder   *)
(* that notices loops missed in sleep (pkg/daemon/utils.go).               *)
(*                                                                         *)
(* The loop, HTTP requests and the callback thread run maintain passes,    *)
(* one at a time, each on what it reads at its start.  The will-sleep      *)
(* callback writes the charging switch without that lock, and keeps the    *)
(* loop, but nobody else, waiting.                                         *)
(*                                                                         *)
(* A tick is loopInterval, ten seconds.  There is no clock: delays are     *)
(* what is left, records are ages, and every age stops where nothing asks  *)
(* for more.  Delays stand still in sleep, ages go on.  No calibration is  *)
(* active: ChargeControl has those.                                        *)
(***************************************************************************)
EXTENDS Integers, Sequences, FiniteSets

CONSTANTS
    Threshold,          \* continuousLoopThreshold, in loop intervals
    MaxRecordCount,     \* of the recorder
    PreSleepDelay,      \* preSleepLoopDelaySeconds
    PostSleepDelay,     \* postSleepLoopDelaySeconds
    SleepGrace,         \* how long macOS waits for an answer before it sleeps
    SleepLengths,       \* how long the machine may sleep
    Notices,            \* whether macOS sends its notification: a subset of BOOLEAN
    HardwareOutcomes,   \* whether SMC and IOKit calls succeed: a subset of BOOLEAN
    PluggedIn,          \* whether the charger is connected: a subset of BOOLEAN
    InitialConf,        \* the options the daemon starts with, and the limit
    Requests            \* what users change: "limit" and the three options

Options == {"preventIdleSleep", "disableChargingPreSleep", "preventSystemSleep"}

ASSUME ConstantsAssumption ==
    /\ Threshold \in Nat \ {0} /\ MaxRecordCount \in Nat \ {0}
    /\ PreSleepDelay \in Nat \ {0} /\ SleepGrace \in Nat \ {0}
    /\ PostSleepDelay \in Nat
    /\ SleepLengths \subseteq Nat \ {0}
    /\ Notices \subseteq BOOLEAN /\ HardwareOutcomes \subseteq BOOLEAN
    /\ PluggedIn \subseteq BOOLEAN
    /\ InitialConf \subseteq [{"limited"} \cup Options -> BOOLEAN]
    /\ Requests \subseteq Options \cup {"limit"}

\* preSleepLoopDelaySeconds is more than the thirty seconds macOS waits
\* (sleepcallback.go:110-112).
ASSUME DelayOutlastsGrace == PreSleepDelay > SleepGrace

VARIABLES
    machine,    \* "awake", "will sleep", "allowed" (to sleep), "asleep"
    grace,      \* ticks until macOS sleeps without an answer
    woken,      \* macOS has not delivered its powered-on notification yet
    level,      \* the charge against the limits: "low", "between", "high"
    plugged,    \* smcConn.IsPluggedIn, which does not change
    charging,   \* the SMC's charging switch
    assertion,  \* PreventSleepOnAC's power assertion is held
    conf,       \* whether the upper limit is below 100, and the options
    loop,       \* where the main loop is
    asked,      \* a request is about to run its pass, or is running it
    callback,   \* where the callback thread is
    pass,       \* the maintain pass that holds maintainLoopInnerLock
    inProgress, \* maintainedChargingInProgress
    delay,      \* until the last goroutine that delays the loop calls wg.Done
    records,    \* loopRecorder: the ages of its records, the oldest first
    lastWake,   \* time.Since(lastWakeTime)
    awakeFor,   \* history: how long the machine has been awake
    hooked,     \* history: the will-sleep callback has disabled charging, and
    late        \* since then a pass that did not wait for it has enabled it

vars == <<machine, grace, woken, level, plugged, charging, assertion, conf, loop,
          asked, callback, pass, inProgress, delay, records, lastWake, awakeFor,
          hooked, late>>

macVars == <<machine, grace, woken, level, plugged>>
ageVars == <<lastWake, awakeFor>>
passVars == <<pass, inProgress, assertion, asked>>
historyVars == <<hooked, late>>

\* Nothing in the machine moves while it sleeps.
Awake == machine # "asleep"

-----------------------------------------------------------------------------
(* The recorder *)

\* An age after d more ticks, as far as anybody looks.
AgeAfter(age, d, limit) == IF age + d > limit THEN limit ELSE age + d

\* TimeSeriesRecorder.AddRecordNow.  Mutant: the recorder stops when it is full.
AddRecordUntilFull == IF Len(records) >= MaxRecordCount THEN records ELSE Append(records, 0)
AddRecordNow ==
    LET kept == IF Len(records) >= MaxRecordCount THEN Tail(records) ELSE records
    IN Append(kept, 0)

\* The last n records are recent and one loop interval or less apart.
Continuous(n, last) ==
    \A i \in (Len(records) - n + 1)..Len(records) :
        /\ records[i] <= last
        /\ i < Len(records) => records[i] - records[i + 1] <= 1

\* TimeSeriesRecorder.GetRecordsIn: the last record must not be older than one
\* loop interval, and as many before it count as follow one another closely.  Mutant:
\* the last record may be older.
GetOldRecordsIn(last) ==
    CHOOSE n \in 0..Len(records) :
        /\ Continuous(n, last)
        /\ n < Len(records) => ~Continuous(n + 1, last)
GetRecordsIn(last) ==
    IF records # <<>> /\ records[Len(records)] > 1
    THEN 0
    ELSE CHOOSE n \in 0..Len(records) :
            /\ Continuous(n, last)
            /\ n < Len(records) => ~Continuous(n + 1, last)

minMaintainLoopCount == Threshold - 1

\* checkMissedMaintainLoops.
MissedLoops == GetRecordsIn(Threshold) < minMaintainLoopCount

-----------------------------------------------------------------------------
(* Initial state: the daemon has just started *)

NoPass == [who |-> "none", at |-> "none", ignore |-> FALSE, waited |-> FALSE,
           limited |-> FALSE, charging |-> FALSE, level |-> "low",
           missed |-> FALSE, slept |-> FALSE]

LoopAt(at, ignore, waited) == [at |-> at, ignore |-> ignore, waited |-> waited]
LoopSleeps == LoopAt("sleep", FALSE, FALSE)

Init ==
    /\ machine = "awake" /\ grace = 0 /\ woken = FALSE
    /\ level \in {"low", "between", "high"}
    /\ plugged \in PluggedIn /\ charging \in BOOLEAN
    /\ assertion = FALSE
    /\ conf \in InitialConf
    /\ loop = LoopAt("top", FALSE, FALSE) /\ asked = FALSE
    /\ callback = "none" /\ pass = NoPass /\ inProgress = FALSE
    /\ delay = 0 /\ records = <<>> /\ lastWake = 0 /\ awakeFor = 0
    /\ hooked = FALSE /\ late = FALSE

-----------------------------------------------------------------------------
(* The main loop *)

\* maintainLoop: with prevent-system-sleep it neither waits nor looks for missed
\* loops.
LoopBegins ==
    /\ Awake /\ loop.at = "top"
    /\ loop' = IF conf["preventSystemSleep"]
               THEN LoopAt("pass", TRUE, FALSE) ELSE LoopAt("wait", FALSE, FALSE)
    /\ UNCHANGED <<macVars, charging, conf, callback, passVars, delay, records, ageVars,
                   historyVars>>

\* wg.Wait returns.  `waited' is history: the pass comes after the callback.
LoopWaited ==
    /\ Awake /\ loop.at = "wait" /\ delay = 0
    /\ loop' = LoopAt("pass", ~conf["disableChargingPreSleep"], hooked)
    /\ UNCHANGED <<macVars, charging, conf, callback, passVars, delay, records, ageVars,
                   historyVars>>

-----------------------------------------------------------------------------
(* Maintain passes *)

Callers == {"loop", "request", "can sleep", "powered on"}

\* A caller is about to run, or is running, maintainLoopInner.
Wants(who) ==
    CASE who = "loop" -> loop.at = "pass"
      [] who = "request" -> asked
      [] who = "can sleep" -> callback = "can pass"
      [] who = "powered on" -> callback = "on pass"

\* ... with this value of ignoreMissedLoops.
Ignores(who) ==
    CASE who = "loop" -> loop.ignore
      [] who = "can sleep" -> FALSE
      [] OTHER -> TRUE

\* The pass ends: the lock is free, its caller goes on, a loop is recorded.
Return(who) ==
    /\ pass' = NoPass
    /\ loop' = IF who = "loop" THEN LoopSleeps ELSE loop
    /\ records' = IF who = "loop" THEN AddRecordNow ELSE records
    /\ asked' = (asked /\ who # "request")
    /\ callback' = CASE who = "can sleep" -> "decide"
                     [] who = "powered on" -> "none"
                     [] OTHER -> callback

GoOn(at, isCharging) ==
    /\ pass' = [pass EXCEPT !.at = at, !.charging = isCharging,
                            !.missed = FALSE, !.slept = FALSE]
    /\ UNCHANGED <<loop, records, asked, callback>>

\* maintainLegacyCharging takes the lock and reads everything; when a read fails
\* it returns.
PassReads(who) ==
    /\ Awake /\ Wants(who) /\ pass.who = "none"
    /\ \E ok \in HardwareOutcomes :
          IF ok
          THEN /\ pass' = [who |-> who, at |-> "acts", ignore |-> Ignores(who),
                           waited |-> who = "loop" /\ loop.waited,
                           limited |-> conf["limited"], charging |-> charging,
                           level |-> level, missed |-> FALSE, slept |-> FALSE]
               /\ inProgress' = (charging /\ plugged)
               /\ UNCHANGED <<loop, records, asked, callback>>
          ELSE Return(who) /\ UNCHANGED inProgress
    /\ UNCHANGED <<macVars, charging, assertion, conf, delay, ageVars, historyVars>>

\* An SMC write, which may fail and then reach the switch or not.  `late' notes
\* when a pass that did not wait for the will-sleep callback undoes it.
SetCharging(on, ok) ==
    /\ charging' \in IF ok THEN {on} ELSE {charging, on}
    /\ late' = (late \/ (hooked /\ charging' /\ ~pass.waited))

\* handleNoMaintain: charge anyway, and let the machine sleep.
PassNoMaintain ==
    /\ Awake /\ pass.at = "acts" /\ ~pass.limited
    /\ \E ok \in HardwareOutcomes :
          /\ IF pass.charging THEN UNCHANGED <<charging, late>> ELSE SetCharging(TRUE, ok)
          /\ IF pass.charging \/ ok
             THEN assertion' = FALSE /\ inProgress' = FALSE
             ELSE UNCHANGED <<assertion, inProgress>>
    /\ Return(pass.who)
    /\ UNCHANGED <<macVars, conf, delay, ageVars, hooked>>

\* handleChargingLogic looks for missed loops once, and acts on the answer.  `slept' is
\* history: the machine has slept since.
PassChecks ==
    /\ Awake /\ pass.at = "acts" /\ pass.limited
    /\ pass' = [pass EXCEPT !.at = "switch", !.missed = ~pass.ignore /\ MissedLoops]
    /\ UNCHANGED <<macVars, charging, conf, loop, callback, inProgress, assertion, asked,
                   delay, records, ageVars, historyVars>>

\* handleChargingLogic disables charging: loops were missed, or it is enough.
PassStops ==
    /\ Awake /\ pass.at = "switch" /\ pass.charging
    /\ pass.missed \/ pass.level = "high"
    /\ \E ok \in HardwareOutcomes :
          /\ SetCharging(FALSE, ok)
          /\ IF ok THEN GoOn("notes", FALSE) ELSE Return(pass.who)
    /\ UNCHANGED <<macVars, inProgress, assertion, conf, delay, ageVars, hooked>>

\* handleChargingLogic enables charging, unless loops were missed.
PassStarts ==
    /\ Awake /\ pass.at = "switch" /\ ~pass.charging
    /\ pass.level = "low" /\ ~pass.missed
    /\ \E ok \in HardwareOutcomes :
          /\ SetCharging(TRUE, ok)
          /\ IF ok THEN GoOn("notes", TRUE) ELSE Return(pass.who)
    /\ UNCHANGED <<macVars, inProgress, assertion, conf, delay, ageVars, hooked>>

\* Waiting for the loops to be stable, the pass returns at once.
PassWaits ==
    /\ Awake /\ pass.at = "switch" /\ ~pass.charging
    /\ pass.level = "low" /\ pass.missed
    /\ Return(pass.who)
    /\ UNCHANGED <<macVars, charging, inProgress, assertion, conf, delay, ageVars,
                   historyVars>>

\* Nothing to switch.
PassKeeps ==
    /\ Awake /\ pass.at = "switch"
    /\ IF pass.charging THEN ~pass.missed /\ pass.level # "high" ELSE pass.level # "low"
    /\ GoOn("assertion", pass.charging)
    /\ UNCHANGED <<macVars, charging, inProgress, assertion, conf, delay, ageVars,
                   historyVars>>

\* maintainedChargingInProgress is written after the switch.  A pass that has
\* stopped a low battery for missed loops returns here.
PassNotes ==
    /\ Awake /\ pass.at = "notes"
    /\ inProgress' = pass.charging
    /\ IF pass.level = "low" /\ ~pass.charging
       THEN Return(pass.who) ELSE GoOn("assertion", pass.charging)
    /\ UNCHANGED <<macVars, charging, assertion, conf, delay, ageVars, historyVars>>

\* PreventSleepOnAC or AllowSleepOnAC, with prevent-system-sleep.  Mutant: a pass
\* that does not charge leaves the assertion alone.
PassAssertionKept ==
    /\ Awake /\ pass.at = "assertion"
    /\ \E ok \in HardwareOutcomes :
          assertion' = (assertion \/ (conf["preventSystemSleep"] /\ pass.charging /\ ok))
    /\ Return(pass.who)
    /\ UNCHANGED <<macVars, charging, inProgress, conf, delay, ageVars, historyVars>>

PassAssertion ==
    /\ Awake /\ pass.at = "assertion"
    /\ \E ok \in HardwareOutcomes :
          assertion' = IF ~conf["preventSystemSleep"] THEN assertion
                       ELSE pass.charging /\ (ok \/ assertion)
    /\ Return(pass.who)
    /\ UNCHANGED <<macVars, charging, inProgress, conf, delay, ageVars, historyVars>>

PassStep ==
    \/ PassNoMaintain \/ PassChecks \/ PassStops \/ PassStarts \/ PassWaits
    \/ PassKeeps \/ PassNotes \/ PassAssertion

-----------------------------------------------------------------------------
(* Requests *)

\* setLimit, and what else sets a limit: the charge may stand anywhere against
\* it, and a pass follows.
SetLimit ==
    /\ Awake /\ "limit" \in Requests /\ ~asked
    /\ \E limited \in BOOLEAN : conf' = [conf EXCEPT !["limited"] = limited]
    /\ level' \in {"low", "between", "high"}
    /\ asked' = TRUE
    /\ UNCHANGED <<machine, grace, woken, plugged, charging, loop, callback, pass,
                   inProgress, assertion, delay, records, ageVars, historyVars>>

\* setPreventIdleSleep, setDisableChargingPreSleep, setPreventSystemSleep: they
\* save and do nothing else.
SetOption ==
    /\ Awake
    /\ \E option \in Options \cap Requests :
          conf' = [conf EXCEPT ![option] = ~@]
    /\ UNCHANGED <<macVars, charging, loop, callback, passVars, delay, records, ageVars,
                   historyVars>>

-----------------------------------------------------------------------------
(* Callbacks *)

CallbackGoes(to) ==
    /\ callback' = to
    /\ UNCHANGED <<grace, woken, level, plugged, conf, loop, passVars, records, awakeFor>>

\* macOS is about to sleep because nobody uses it (kIOMessageCanSystemSleep).
CanSystemSleep ==
    /\ machine = "awake" /\ callback = "none" /\ ~woken
    /\ ~(assertion /\ plugged)
    /\ CallbackGoes("can sleep")
    /\ UNCHANGED <<machine, charging, delay, lastWake, historyVars>>

\* canSystemSleepCallback up to its maintain pass.  Mutant: it does without one.
CanSleepChecksOnly ==
    /\ Awake /\ callback = "can sleep"
    /\ CallbackGoes(
          IF ~conf["preventIdleSleep"] \/ conf["preventSystemSleep"] THEN "allow"
          ELSE IF lastWake < PreSleepDelay THEN "deny" ELSE "decide")
    /\ UNCHANGED <<machine, charging, delay, lastWake, historyVars>>

CanSleepChecks ==
    /\ Awake /\ callback = "can sleep"
    /\ CallbackGoes(
          IF ~conf["preventIdleSleep"] \/ conf["preventSystemSleep"] THEN "allow"
          ELSE IF lastWake < PreSleepDelay THEN "deny" ELSE "can pass")
    /\ UNCHANGED <<machine, charging, delay, lastWake, historyVars>>

\* ... and after it, without the lock.
CanSleepDecides ==
    /\ Awake /\ callback = "decide"
    /\ CallbackGoes(IF inProgress THEN "deny" ELSE "allow")
    /\ UNCHANGED <<machine, charging, delay, lastWake, historyVars>>

\* AllowPowerChange or CancelPowerChange: idle sleep is put off or comes, as
\* forced sleep does, with the next notification.
CanSleepAnswers ==
    /\ Awake /\ callback \in {"allow", "deny"}
    /\ CallbackGoes("none")
    /\ UNCHANGED <<machine, charging, delay, lastWake, historyVars>>

\* macOS will sleep (kIOMessageSystemWillSleep).
SystemWillSleep ==
    /\ TRUE \in Notices
    /\ machine = "awake" /\ callback = "none" /\ ~woken
    /\ ~(assertion /\ plugged)
    /\ machine' = "will sleep" /\ grace' = SleepGrace
    /\ callback' = "will sleep"
    /\ UNCHANGED <<woken, level, plugged, charging, conf, loop, passVars, delay, records,
                   ageVars, historyVars>>

\* systemWillSleepCallback: the loop is delayed from here on.  Mutant: the loop is not
\* delayed.
NoDelay(d) == delay
LongerDelay(d) == IF d > delay THEN d ELSE delay

WillSleepChecks ==
    /\ Awake /\ callback = "will sleep"
    /\ IF /\ conf["disableChargingPreSleep"] /\ ~conf["preventSystemSleep"]
          /\ conf["limited"]
       THEN /\ delay' = LongerDelay(PreSleepDelay) /\ CallbackGoes("disable")
       ELSE /\ UNCHANGED delay /\ CallbackGoes("ack")
    /\ UNCHANGED <<machine, charging, lastWake, historyVars>>

\* DisableCharging, without maintainLoopInnerLock.  When it fails the callback
\* returns without an answer.
WillSleepDisables ==
    /\ Awake /\ callback = "disable"
    /\ \E ok \in HardwareOutcomes :
          /\ charging' \in IF ok THEN {FALSE} ELSE {charging, FALSE}
          /\ hooked' = ok /\ late' = FALSE
          /\ CallbackGoes(IF ok THEN "ack" ELSE "none")
    /\ UNCHANGED <<machine, delay, lastWake>>

\* AllowPowerChange.
WillSleepAcknowledges ==
    /\ Awake /\ callback = "ack"
    /\ machine' = IF machine = "will sleep" THEN "allowed" ELSE machine
    /\ CallbackGoes("none")
    /\ UNCHANGED <<charging, delay, lastWake, historyVars>>

\* systemHasPoweredOnCallback.
HasPoweredOn ==
    /\ Awake /\ woken /\ callback = "none"
    /\ woken' = FALSE /\ lastWake' = 0
    /\ callback' = IF conf["limited"] /\ conf["preventSystemSleep"] THEN "on pass" ELSE "none"
    /\ delay' = IF conf["limited"] /\ ~conf["preventSystemSleep"]
                THEN LongerDelay(PostSleepDelay) ELSE delay
    /\ UNCHANGED <<machine, grace, level, plugged, charging, conf, loop, passVars,
                   records, awakeFor, historyVars>>

CallbackStep ==
    \/ CanSleepChecks \/ CanSleepDecides \/ CanSleepAnswers
    \/ WillSleepChecks \/ WillSleepDisables \/ WillSleepAcknowledges \/ HasPoweredOn

-----------------------------------------------------------------------------
(* Time and sleep *)

\* What the charge may be a while later.
LevelsLater ==
    IF charging /\ plugged
    THEN CASE level = "low" -> {"low", "between"}
           [] OTHER -> {level, "high"}
    ELSE CASE level = "high" -> {"high", "between"}
           [] OTHER -> {level, "low"}

TimePasses(d) ==
    /\ records' = [i \in DOMAIN records |-> AgeAfter(records[i], d, Threshold + 1)]
    /\ lastWake' = AgeAfter(lastWake, d, PreSleepDelay)
    /\ level' \in LevelsLater

\* Nothing else can move.  The clock waits for this: a tick is ten seconds.
Quiet ==
    /\ pass.who = "none" /\ callback = "none" /\ ~asked /\ ~woken
    /\ loop.at = "sleep" \/ (loop.at = "wait" /\ delay > 0)

\* One tick awake: the loop's sleep of one interval ends, delays get shorter.
Tick ==
    /\ Awake /\ Quiet
    /\ IF machine = "awake" THEN UNCHANGED grace ELSE grace > 0 /\ grace' = grace - 1
    /\ TimePasses(1)
    /\ delay' = IF delay > 0 THEN delay - 1 ELSE 0
    /\ awakeFor' = AgeAfter(awakeFor, 1, Threshold)
    /\ loop' = IF loop.at = "sleep" THEN LoopAt("top", FALSE, FALSE) ELSE loop
    /\ UNCHANGED <<machine, woken, plugged, charging, conf, callback, passVars, historyVars>>

\* macOS sleeps: when it is allowed to, when it has waited long enough, or at any
\* moment without a notification.  The daemon may be anywhere.
SystemSleeps ==
    /\ \/ machine = "allowed"
       \/ machine = "will sleep" /\ grace = 0
       \/ machine = "awake" /\ FALSE \in Notices /\ ~(assertion /\ plugged)
    /\ machine' = "asleep" /\ grace' = 0
    /\ UNCHANGED <<woken, level, plugged, charging, conf, loop, callback, passVars, delay,
                   records, ageVars, historyVars>>

SystemWakes ==
    /\ machine = "asleep"
    /\ \E d \in SleepLengths : TimePasses(d)
    /\ machine' = "awake" /\ woken' \in Notices /\ awakeFor' = 0
    /\ hooked' = FALSE /\ late' = FALSE
    /\ pass' = IF pass.at = "switch" THEN [pass EXCEPT !.slept = TRUE] ELSE pass
    /\ UNCHANGED <<grace, plugged, charging, conf, loop, callback, inProgress, assertion,
                   asked, delay>>

-----------------------------------------------------------------------------
(* Specification *)

Next ==
    \/ LoopBegins \/ LoopWaited
    \/ \E who \in Callers : PassReads(who)
    \/ PassStep
    \/ SetLimit \/ SetOption
    \/ CanSystemSleep \/ SystemWillSleep \/ CallbackStep
    \/ Tick \/ SystemSleeps \/ SystemWakes

\* Goroutines that can run do, time passes, and a mutex is not refused to one
\* waiter for ever: the loop, a request, and the thread of both callbacks.
Fairness ==
    /\ WF_vars(LoopBegins \/ LoopWaited)
    /\ WF_vars(PassStep)
    /\ WF_vars(CallbackStep)
    /\ SF_vars(PassReads("loop")) /\ SF_vars(PassReads("request"))
    /\ SF_vars(PassReads("can sleep") \/ PassReads("powered on"))
    /\ SF_vars(Tick)

Spec == Init /\ [][Next]_vars

FairSpec == Spec /\ Fairness

-----------------------------------------------------------------------------
(* Safety *)

Levels == {"low", "between", "high"}
Ages == 0..(Threshold + 1)
LoopStates == [at : {"top", "wait", "pass", "sleep"}, ignore : BOOLEAN, waited : BOOLEAN]
PassStates ==
    [who : Callers \cup {"none"}, at : {"none", "acts", "switch", "notes", "assertion"},
     ignore : BOOLEAN, waited : BOOLEAN, limited : BOOLEAN, charging : BOOLEAN,
     level : Levels, missed : BOOLEAN, slept : BOOLEAN]
CallbackPlaces ==
    {"none", "can sleep", "can pass", "decide", "allow", "deny",
     "will sleep", "disable", "ack", "on pass"}

\* Type invariant, with the bound of the recorder (utils.go:107-117).
TypeOK ==
    /\ machine \in {"awake", "will sleep", "allowed", "asleep"}
    /\ grace \in 0..SleepGrace
    /\ level \in Levels
    /\ woken \in BOOLEAN /\ plugged \in BOOLEAN
    /\ charging \in BOOLEAN /\ assertion \in BOOLEAN
    /\ asked \in BOOLEAN /\ inProgress \in BOOLEAN
    /\ hooked \in BOOLEAN /\ late \in BOOLEAN
    /\ conf \in [{"limited"} \cup Options -> BOOLEAN]
    /\ loop \in LoopStates
    /\ callback \in CallbackPlaces
    /\ pass \in PassStates
    /\ delay \in Nat /\ lastWake \in Nat /\ awakeFor \in Nat
    /\ records \in Seq(Ages) /\ Len(records) <= MaxRecordCount

\* Charging is off in sleep when the will-sleep callback has disabled it, unless
\* a pass that it does not hold up, a request's or one already past wg.Wait, has
\* enabled it since: the loop is delayed for longer than macOS waits
\* (sleepcallback.go:109-119).
SleepsUncharged == (machine = "asleep" /\ hooked /\ charging) => late

\* A loop's pass that heeds missed loops enables charging only on a machine that
\* has been awake for as long as the loops take to be stable, with or without
\* notifications (loop.go:132-168, utils.go:159-191), wherever sleep fell but in one
\* place: between the pass's look for missed loops and its write (loop.go:293, 341),
\* for the answer is not looked at again.
EnablesOnlyWhenStable ==
    [][/\ pass.at = "switch" /\ ~pass.ignore /\ pass.who = "loop"
       /\ ~pass.charging /\ pass'.charging
       => awakeFor >= minMaintainLoopCount \/ pass.slept]_vars

\* Idle sleep is not allowed while batt charges towards a limit, although the
\* callback reads what its pass has found without the lock (sleepcallback.go:62-72);
\* a pass that runs or is about to at that moment may just have changed it.
IdleSleepDenied ==
    [][callback = "decide" /\ callback' = "allow"
       => ~(charging /\ plugged /\ conf["limited"]) \/ pass.who # "none" \/ asked]_vars

(* What the documentation promises and the code does not keep *)

\* The machine can sleep as soon as a charging session is completed
\* (README.md:318): without one, when nothing is under way, no assertion is held.
NoAssertionWithoutCharging ==
    /\ Quiet /\ loop.at = "sleep" /\ records # <<>>
    /\ ~charging /\ conf["limited"] /\ ~conf["preventSystemSleep"]
    => ~assertion

\* Right after the machine has woken, charging is not enabled until the loops are
\* stable (loop.go:320-325): without the exception of EnablesOnlyWhenStable.
NeverEnablesAfterWaking ==
    [][/\ pass.at = "switch" /\ ~pass.ignore /\ pass.who = "loop"
       /\ ~pass.charging /\ pass'.charging
       => awakeFor >= minMaintainLoopCount]_vars

-----------------------------------------------------------------------------
(* Liveness *)

\* Once the machine stays awake with a limit and a low battery, charging is
\* enabled and stays so: the delays end and the loops are found stable again.
ChargeResumes ==
    <>[](machine = "awake" /\ level = "low" /\ conf["limited"]) => <>[]charging

\* Once a battery stays charged to its limit, the power assertion is given back for
\* good, if prevent-system-sleep stays on or the limit is 100%: only the option
\* switched off under a limit can leave it behind (loop.go:273-277, 373-385).
AssertionReleased ==
    <>[](/\ machine = "awake" /\ level = "high"
         /\ conf["preventSystemSleep"] \/ ~conf["limited"])
    => <>[]~assertion
=============================================================================
