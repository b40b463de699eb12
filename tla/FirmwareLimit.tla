--------------------------- MODULE FirmwareLimit ---------------------------
(***************************************************************************)
(* The charge limit of firmware mode, one SMC access at a time             *)
(* (pkg/smc/charging.go, pkg/daemon/loop.go).  A pass, a cancelled          *)
(* calibration and the shutdown each make a sequence of reads and writes;  *)
(* the pass holds maintainLoopInnerLock, the cancellation calibrationMu,   *)
(* the shutdown nothing.                                                   *)
(*                                                                         *)
(* The calibration is reduced to what it does to the limit, its holds to a *)
(* single phase.  Saves succeed and timers are left out (ChargeControl has *)
(* them).                                                                  *)
(***************************************************************************)
EXTENDS Integers, FiniteSets

CONSTANTS
    Limits,   \* upper limits that are asked for
    Deltas,   \* lower-limit deltas that are asked for
    MaxEvents \* bound: requests, failures and deaths

Full == 100
Floor == 10

ASSUME ConstantsAssumption ==
    /\ Limits \subseteq Floor..Full /\ Deltas \subseteq 1..Full
    \* the assertion of SetUpperLimit holds whenever a calibration restores a limit
    /\ \A l \in Limits, d \in Deltas : d <= l
    /\ MaxEvents \in Nat

VARIABLES
    up,      \* the daemon runs
    conf,    \* the configuration in memory: limit and delta
    file,    \* ... and in the file
    regs,    \* the SMC: activation, upper and lower limit
    session, \* the calibration: phase, pause and snapshot
    calMu,   \* who holds calibrationMu over several steps
    task,    \* the sequences under way
    events   \* how many requests, failures and deaths there have been

vars == <<up, conf, file, regs, session, calMu, task, events>>

Tasks == {"pass", "cancel", "exit"}

\* Where a sequence is, the limit it is to set, whether what it has read is that limit,
\* and whether nobody else has written meanwhile.
At(at, upper, lower) ==
    [at |-> at, upper |-> upper, lower |-> lower, same |-> TRUE, alone |-> TRUE]
Idle == At("idle", 0, 0)

NoSession == [phase |-> "idle", paused |-> FALSE, upper |-> 0, lower |-> 0]
Running == session.phase \in {"discharge", "charge", "restore"} /\ ~session.paused

ReadSteps == {"readActive", "readUpper", "readLower"}
WriteSteps == {"deactivate", "writeUpper", "writeLower", "activate"}
OffSteps == {"test", "turnOff"}
SmcSteps == ReadSteps \cup WriteSteps \cup OffSteps

Init ==
    /\ up = TRUE
    /\ \E l \in Limits, d \in Deltas : l - d > Floor /\ conf = [limit |-> l, delta |-> d]
    /\ file = conf
    /\ regs = [active |-> FALSE, upper |-> 0, lower |-> 0]
    /\ session = NoSession
    /\ calMu = "free"
    /\ task = [w \in Tasks |-> Idle]
    /\ events = 0

Event == events < MaxEvents /\ events' = events + 1

-----------------------------------------------------------------------------
(* Sequences *)

Goes(w, at) == task' = [task EXCEPT ![w].at = at]

\* w writes, and the other sequences are no longer alone.
Writes(w, at, value) ==
    /\ task' = [v \in Tasks |->
                  IF v = w THEN [task[w] EXCEPT !.at = at]
                  ELSE IF task[v].at \in SmcSteps THEN [task[v] EXCEPT !.alone = FALSE]
                  ELSE task[v]]
    /\ regs' = value

\* EnsureFirmwareChargeLimit refuses a pair that is none, before it reads anything.
Refused(lower, upper) == lower < 0 \/ upper > Full \/ lower >= upper

EnsureBegins(w, lower, upper) ==
    task' = [task EXCEPT ![w] =
        At(IF Refused(lower, upper) THEN "failed" ELSE "readActive", upper, lower)]

\* EnsureFirmwareChargeLimitDisabled.  Mutant: it is not called.
DisableForgotten(w) == task' = [task EXCEPT ![w] = At("done", Full, 0)]
DisableBegins(w) == task' = [task EXCEPT ![w] = At("test", Full, 0)]

\* GetFirmwareChargeLimit, three reads, and the comparison.  Mutant: without the lower
\* limit.
MatchesTwo(w) ==
    CASE task[w].at = "readActive" -> regs.active
      [] task[w].at = "readUpper"  -> regs.upper = task[w].upper
      [] task[w].at = "readLower"  -> TRUE
Matches(w) ==
    CASE task[w].at = "readActive" -> regs.active
      [] task[w].at = "readUpper"  -> regs.upper = task[w].upper
      [] task[w].at = "readLower"  -> regs.lower = task[w].lower

Read(w) ==
    /\ task[w].at \in ReadSteps
    /\ LET same == task[w].same /\ Matches(w)
           next == CASE task[w].at = "readActive" -> "readUpper"
                     [] task[w].at = "readUpper"  -> "readLower"
                     [] task[w].at = "readLower"  -> IF same THEN "done" ELSE "deactivate"
       IN  task' = [task EXCEPT ![w].at = next, ![w].same = same]
    /\ UNCHANGED regs

\* The four writes, in this order.  Mutant: the activation comes with the upper limit.
ActivateEarly(w) ==
    \/ task[w].at = "deactivate" /\ Writes(w, "writeUpper", [regs EXCEPT !.active = FALSE])
    \/ /\ task[w].at = "writeUpper"
       /\ Writes(w, "writeLower", [regs EXCEPT !.upper = task[w].upper, !.active = TRUE])
    \/ /\ task[w].at = "writeLower"
       /\ Writes(w, "done", [regs EXCEPT !.lower = task[w].lower])

Write(w) ==
    \/ task[w].at = "deactivate" /\ Writes(w, "writeUpper", [regs EXCEPT !.active = FALSE])
    \/ /\ task[w].at = "writeUpper"
       /\ Writes(w, "writeLower", [regs EXCEPT !.upper = task[w].upper])
    \/ /\ task[w].at = "writeLower"
       /\ Writes(w, "activate", [regs EXCEPT !.lower = task[w].lower])
    \/ task[w].at = "activate" /\ Writes(w, "done", [regs EXCEPT !.active = TRUE])

TurnOff(w) ==
    \/ /\ task[w].at = "test"
       /\ Goes(w, IF regs.active THEN "turnOff" ELSE "done") /\ UNCHANGED regs
    \/ task[w].at = "turnOff" /\ Writes(w, "done", [regs EXCEPT !.active = FALSE])

\* A read or a write fails, and what follows it is not done.
Fails(w) ==
    /\ task[w].at \in SmcSteps /\ Event
    /\ Goes(w, "failed")
    /\ UNCHANGED <<up, conf, file, regs, session, calMu>>

Access(w) ==
    /\ Read(w) \/ Write(w) \/ TurnOff(w)
    /\ UNCHANGED <<up, conf, file, session, calMu, events>>

-----------------------------------------------------------------------------
(* The pass, maintainFirmwareChargeLimit *)

PassGoes(at) ==
    /\ task' = [task EXCEPT !["pass"] = At(at, 0, 0)]
    /\ UNCHANGED <<up, conf, file, regs>>

\* A tick of the main loop, or a request: one pass at a time.
PassBegins ==
    /\ up /\ task["pass"].at = "idle"
    /\ PassGoes("checks") /\ UNCHANGED <<session, calMu, events>>

\* calibrationNeedsMaintainLoop, and the charge, which may not be read.
PassChecks ==
    /\ task["pass"].at = "checks" /\ calMu = "free"
    /\ \/ PassGoes(IF Running THEN "calibrates" ELSE "limit") /\ UNCHANGED events
       \/ Running /\ Event /\ PassGoes("idle")
    /\ UNCHANGED <<session, calMu>>

\* applyCalibrationWithinLoop: nothing, a phase, or a sequence with calibrationMu held.
CalibrationOver ==
    ~Running /\ PassGoes("limit") /\ UNCHANGED <<session, calMu>>

CalibrationWaits ==
    /\ Running /\ session.phase \in {"discharge", "charge"}
    /\ PassGoes("idle")
    /\ session' = [session EXCEPT !.phase = IF @ = "charge" THEN "restore" ELSE @]
    /\ UNCHANGED calMu

CalibrationWrites ==
    /\ Running
    /\ \/ /\ session.phase = "discharge" /\ DisableBegins("pass")
       \/ /\ session.phase = "restore"
          /\ task' = [task EXCEPT !["pass"] = At("setUpper", 0, 0)]
    /\ calMu' = "pass"
    /\ UNCHANGED <<up, conf, file, regs, session>>

\* An adapter call fails in the discharge.
CalibrationFails ==
    /\ Running /\ session.phase = "discharge"
    /\ PassGoes("idle")
    /\ session' = [session EXCEPT !.phase = "error"]
    /\ UNCHANGED calMu

PassCalibrates ==
    /\ task["pass"].at = "calibrates" /\ calMu = "free"
    /\ \/ (CalibrationOver \/ CalibrationWaits \/ CalibrationWrites) /\ UNCHANGED events
       \/ CalibrationFails /\ Event

\* conf.UpperLimit, and then, under another read lock, conf.LowerLimit.
PassReadsUpper ==
    /\ task["pass"].at = "limit"
    /\ IF conf.limit >= Full THEN DisableBegins("pass")
       ELSE task' = [task EXCEPT !["pass"] = At("lower", conf.limit, 0)]
    /\ UNCHANGED <<up, conf, file, regs, session, calMu, events>>

PassReadsLower ==
    /\ task["pass"].at = "lower"
    /\ EnsureBegins("pass", conf.limit - conf.delta, task["pass"].upper)
    /\ UNCHANGED <<up, conf, file, regs, session, calMu, events>>

\* The end of a pass, and of what it did in the calibration.
ChargePhaseBegins ==
    /\ session.phase = "discharge" /\ task["pass"].at = "done"
    /\ session' = [session EXCEPT !.phase = "charge"]
    /\ conf' = [conf EXCEPT !.limit = Full] /\ file' = conf'

ChargePhaseFails ==
    /\ session.phase = "discharge" /\ task["pass"].at = "failed"
    /\ session' = [session EXCEPT !.phase = "error"]
    /\ UNCHANGED <<conf, file>>

CalibrationEnds ==
    /\ session.phase = "restore" /\ session' = NoSession
    /\ UNCHANGED <<conf, file>>

PassEnds ==
    /\ task["pass"].at \in {"done", "failed"}
    /\ task' = [task EXCEPT !["pass"] = Idle]
    /\ \/ /\ calMu = "pass" /\ calMu' = "free"
          /\ ChargePhaseBegins \/ ChargePhaseFails \/ CalibrationEnds
       \/ calMu # "pass" /\ UNCHANGED <<calMu, session, conf, file>>
    /\ UNCHANGED <<up, regs, events>>

\* conf goes back to the snapshot, in two steps and a save; the limit follows
\* (restoreChargeControlAfterCalibration).
RestoresUpper(w) ==
    /\ task[w].at = "setUpper"
    /\ conf' = [conf EXCEPT !.limit = session.upper]
    /\ Goes(w, "setLower")
    /\ UNCHANGED <<up, file, regs, session, calMu, events>>

RestoresLower(w) ==
    /\ task[w].at = "setLower"
    /\ conf' = [conf EXCEPT !.delta = conf.limit - session.lower] /\ file' = conf'
    /\ IF session.upper < Full THEN EnsureBegins(w, session.lower, session.upper)
       ELSE DisableBegins(w)
    /\ UNCHANGED <<up, regs, session, calMu, events>>

-----------------------------------------------------------------------------
(* Requests, for as long as the server takes them *)

Request == up /\ task["exit"].at = "idle" /\ Event

\* setLimit, and the other ways to change the upper limit, which a calibration refuses.
SetLimit ==
    /\ Request /\ calMu = "free" /\ session.phase = "idle"
    /\ \E l \in Limits :
          /\ l - conf.delta > Floor
          /\ conf' = [conf EXCEPT !.limit = l] /\ file' = conf'
    /\ UNCHANGED <<up, regs, session, calMu, task>>

\* setLowerLimitDelta, which it does not refuse.
SetLowerLimitDelta ==
    /\ Request
    /\ \E d \in Deltas :
          /\ conf.limit - d >= Floor
          /\ conf' = [conf EXCEPT !.delta = d] /\ file' = conf'
    /\ UNCHANGED <<up, regs, session, calMu, task>>

SessionBecomes(s) ==
    /\ Request /\ calMu = "free" /\ session' = s
    /\ UNCHANGED <<up, conf, file, regs, calMu, task>>

StartCalibration ==
    /\ session.phase \in {"idle", "error"}
    /\ SessionBecomes([phase |-> "discharge", paused |-> FALSE,
                       upper |-> conf.limit, lower |-> conf.limit - conf.delta])

PauseCalibration ==
    /\ session.phase # "idle" /\ ~session.paused
    /\ SessionBecomes([session EXCEPT !.paused = TRUE])

ResumeCalibration ==
    session.paused /\ SessionBecomes([session EXCEPT !.paused = FALSE])

\* cancelCalibration, with calibrationMu to the end.
CancelCalibration ==
    /\ Request /\ calMu = "free" /\ session.phase # "idle"
    /\ calMu' = "cancel"
    /\ task' = [task EXCEPT !["cancel"] = At("setUpper", 0, 0)]
    /\ UNCHANGED <<up, conf, file, regs, session>>

CancelEnds ==
    /\ task["cancel"].at \in {"done", "failed"}
    /\ task' = [task EXCEPT !["cancel"] = Idle]
    /\ session' = NoSession /\ calMu' = "free"
    /\ UNCHANGED <<up, conf, file, regs, events>>

-----------------------------------------------------------------------------
(* The daemon's life *)

Ends ==
    /\ up' = FALSE
    /\ task' = [w \in Tasks |-> Idle] /\ calMu' = "free"
    /\ UNCHANGED <<conf, file, session>>

\* SIGTERM: ResetChargeControl, while the main loop and a cancellation go on, then the exit.
Stops ==
    /\ Request
    /\ DisableBegins("exit")
    /\ UNCHANGED <<up, conf, file, regs, session, calMu>>

Exits ==
    /\ task["exit"].at \in {"done", "failed"}
    /\ Ends /\ UNCHANGED <<regs, events>>

Crashes == up /\ Event /\ Ends /\ UNCHANGED regs

\* It starts again: the file's configuration, and a session under way is paused.
Starts ==
    /\ ~up /\ up' = TRUE
    /\ conf' = file
    /\ session' = [session EXCEPT
          !.paused = @ \/ session.phase \in {"discharge", "charge"}]
    /\ UNCHANGED <<file, regs, calMu, task, events>>

\* The firmware forgets the limit, as it does in hibernation.
Forgets ==
    /\ Event
    /\ regs' = [active |-> FALSE, upper |-> 0, lower |-> 0]
    /\ task' = [w \in Tasks |-> [task[w] EXCEPT !.alone = FALSE]]
    /\ UNCHANGED <<up, conf, file, session, calMu>>

-----------------------------------------------------------------------------
(* Specification *)

PassStep ==
    PassBegins \/ PassChecks \/ PassCalibrates \/ PassReadsUpper \/ PassReadsLower \/ PassEnds

TaskStep(w) == Access(w) \/ RestoresUpper(w) \/ RestoresLower(w)

Next ==
    \/ PassStep \/ CancelEnds
    \/ \E w \in Tasks : TaskStep(w) \/ Fails(w)
    \/ SetLimit \/ SetLowerLimitDelta
    \/ StartCalibration \/ PauseCalibration \/ ResumeCalibration \/ CancelCalibration
    \/ Stops \/ Exits \/ Crashes \/ Starts \/ Forgets

\* The main loop never stops while the daemon runs, and what has begun goes on.
Fairness ==
    /\ WF_vars(PassStep) /\ WF_vars(CancelEnds) /\ WF_vars(Exits)
    /\ \A w \in Tasks : WF_vars(TaskStep(w))

Spec == Init /\ [][Next]_vars

FairSpec == Spec /\ Fairness

-----------------------------------------------------------------------------
(* Properties *)

Phases == {"idle", "discharge", "charge", "restore", "error"}
Places == SmcSteps \cup {"idle", "checks", "calibrates", "limit", "lower", "setUpper",
                         "setLower", "done", "failed"}
Configs == [limit : Limits \cup {Full}, delta : 1..Full]

\* Type invariant: the limits in the SMC are percentages too.
TypeOK ==
    /\ up \in BOOLEAN /\ events \in 0..MaxEvents
    /\ conf \in Configs /\ file \in Configs
    /\ regs \in [active : BOOLEAN, upper : 0..Full, lower : 0..Full]
    /\ session \in [phase : Phases, paused : BOOLEAN, upper : 0..Full, lower : 0..Full]
    /\ calMu \in {"free", "pass", "cancel"}
    /\ task \in [Tasks -> [at : Places, upper : 0..Full, lower : Int,
                           same : BOOLEAN, alone : BOOLEAN]]

\* A sequence nobody else writes into changes the limits only while they are inactive,
\* and activates the pair it was to set, the lower limit below the upper
\* (charging.go:153-183).
SequenceSetsOnePair ==
    \A w \in Tasks : task[w].alone =>
        /\ task[w].at \in WriteSteps => task[w].lower < task[w].upper
        /\ task[w].at \in {"writeUpper", "writeLower", "activate"} => ~regs.active
        /\ task[w].at \in {"writeLower", "activate"} => regs.upper = task[w].upper
        /\ task[w].at = "activate" => regs.lower = task[w].lower

\* The same of every sequence, as the comment says: the write order is required by the
\* firmware (charging.go:153-154).
WriteOrderKept ==
    \A w \in Tasks : task[w].at \in {"writeUpper", "writeLower"} => ~regs.active

\* In the charge phase, a limit is active that keeps the battery from getting full:
\* nothing takes it off later.
Capped == up /\ session.phase = "charge" /\ conf.limit = Full /\ regs.active

\* The charge phase begins with no limit active, and however passes, pauses, cancellations,
\* failures and deaths follow, none becomes active in it; only a start of the daemon may
\* find one (calibration.go:267-277, loop.go:413-422).
ChargePhaseStaysUncapped == [][Capped' => Capped \/ ~up]_vars

\* The same of the starts as well, once the session is resumed.
ChargePhaseUncapped == ~(Running /\ Capped)

\* The same whatever the configured limit, between two requests.
ChargePhaseAlwaysUncapped ==
    up /\ Running /\ session.phase = "charge" /\ calMu = "free" => ~regs.active

\* Once the process has exited of itself, with no access failing, no limit is left
\* active (charging.go:204, daemon.go:247-251).
ExitDisables == [][up /\ ~up' /\ task["exit"].at = "done" => ~regs.active]_vars

\* Whatever requests, failures, crashes, restarts and sequences into one another have
\* left in the SMC, the passes bring it back to the configured limit
\* (loop.go:424-452), but while a calibration runs.
Reconciled ==
    IF conf.limit >= Full THEN ~regs.active
    ELSE regs = [active |-> TRUE, upper |-> conf.limit, lower |-> conf.limit - conf.delta]
LimitIsRestored == <>[](Reconciled \/ Running \/ ~up)
=============================================================================
