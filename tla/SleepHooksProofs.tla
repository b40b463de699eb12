-------------------------- MODULE SleepHooksProofs --------------------------
(***************************************************************************)
(* The safety properties of SleepHooks for every value of the constants.   *)
(*                                                                         *)
(* SleepsUncharged: the loop's delay starts before the callback disables   *)
(* charging and is longer than macOS waits; both get shorter together, so  *)
(* the loop cannot pass its wait before the machine sleeps, and every pass *)
(* that enables charging in between is one the callback does not hold up.  *)
(*                                                                         *)
(* EnablesOnlyWhenStable: records lie an interval apart and sleep leaves a *)
(* longer gap, so the records that GetRecordsIn counts were all made since *)
(* the machine woke.  A pass that has found no loop missed keeps to that   *)
(* answer, which stays true until the machine sleeps again.                *)
(*                                                                         *)
(* IdleSleepDenied: what a pass knows and has noted agrees with the switch *)
(* at each of its steps, and with the limit when it ends.                  *)
(***************************************************************************)
EXTENDS SleepHooks, WellFoundedInduction, TLAPS

\* What the callback thread is doing about a sleep that is coming.
AnswerPending == callback \in {"will sleep", "disable", "ack"}

\* macOS starts to wait when the callback starts, and a callback takes no time.
GraceStarts == AnswerPending => machine = "will sleep" /\ grace = SleepGrace

\* The delay runs when the callback is about to disable charging.
DelayStarts == callback = "disable" => delay >= PreSleepDelay

\* The delay is longer than what is left of the wait, until the machine wakes.
DelayOutlasts == hooked => machine # "awake" /\ delay > grace

\* No pass of the loop comes after the callback and before sleep.
NobodyWaited == ~loop.waited /\ ~pass.waited

\* Who enables charging after the callback has not waited for it.
ChargingIsLate == hooked /\ charging => late

IInv ==
    /\ TypeOK
    /\ GraceStarts /\ DelayStarts /\ DelayOutlasts /\ NobodyWaited /\ ChargingIsLate

-----------------------------------------------------------------------------
(* Types *)

LEMMA GraceType ==
    ASSUME IInv
    PROVE  grace \in Nat /\ delay \in Nat
<1>1. SleepGrace \in Nat BY ConstantsAssumption
<1>2. grace \in 0..SleepGrace /\ delay \in Nat BY DEF IInv, TypeOK
<1> QED BY <1>1, <1>2

\* A new record of the recorder keeps its type and its bound.
LEMMA AddRecordType ==
    ASSUME TypeOK
    PROVE  AddRecordNow \in Seq(Ages) /\ Len(AddRecordNow) <= MaxRecordCount
<1> DEFINE kept == IF Len(records) >= MaxRecordCount THEN Tail(records) ELSE records
<1>1. 0 \in Ages /\ MaxRecordCount \in Nat \ {0} BY ConstantsAssumption DEF Ages
<1>2. records \in Seq(Ages) /\ Len(records) <= MaxRecordCount BY DEF TypeOK
<1>3. kept \in Seq(Ages) /\ Len(kept) + 1 <= MaxRecordCount BY <1>1, <1>2
<1> HIDE DEF kept
<1>4. Append(kept, 0) \in Seq(Ages) /\ Len(Append(kept, 0)) = Len(kept) + 1 BY <1>1, <1>3
<1> QED BY <1>3, <1>4 DEF AddRecordNow, kept

\* Ages grow up to their bound.
LEMMA AgeType ==
    ASSUME NEW limit \in Nat, NEW age \in 0..limit, NEW d \in Nat
    PROVE  AgeAfter(age, d, limit) \in 0..limit
BY DEF AgeAfter

\* The loop and pass records the actions build.
LEMMA LoopAtType ==
    ASSUME NEW at \in {"top", "wait", "pass", "sleep"}, NEW i \in BOOLEAN, NEW w \in BOOLEAN
    PROVE  LoopAt(at, i, w) \in LoopStates /\ LoopAt(at, i, w).waited = w
BY DEF LoopAt, LoopStates

LEMMA NoPassType == NoPass \in PassStates /\ ~NoPass.waited
BY DEF NoPass, PassStates, Levels

\* What a pass's record holds.
LEMMA PassFields ==
    ASSUME pass \in PassStates
    PROVE  /\ pass.who \in Callers \cup {"none"} /\ pass.ignore \in BOOLEAN
           /\ pass.waited \in BOOLEAN /\ pass.limited \in BOOLEAN
           /\ pass.charging \in BOOLEAN /\ pass.level \in Levels
           /\ pass.missed \in BOOLEAN /\ pass.slept \in BOOLEAN
BY DEF PassStates

\* The record at a new place, with what has been found there.
Moved(at, b, m, z) ==
    [who |-> pass.who, at |-> at, ignore |-> pass.ignore, waited |-> pass.waited,
     limited |-> pass.limited, charging |-> b, level |-> pass.level, missed |-> m,
     slept |-> z]

LEMMA MovedType ==
    ASSUME pass \in PassStates, NEW at \in {"acts", "switch", "notes", "assertion"},
           NEW b \in BOOLEAN, NEW m \in BOOLEAN, NEW z \in BOOLEAN
    PROVE  /\ Moved(at, b, m, z) \in PassStates
           /\ Moved(at, b, m, z).at = at /\ Moved(at, b, m, z).charging = b
           /\ Moved(at, b, m, z).missed = m /\ Moved(at, b, m, z).slept = z
           /\ Moved(at, b, m, z).who = pass.who
           /\ Moved(at, b, m, z).ignore = pass.ignore
           /\ Moved(at, b, m, z).waited = pass.waited
           /\ Moved(at, b, m, z).limited = pass.limited
BY PassFields DEF Moved, PassStates

-----------------------------------------------------------------------------
(* Passes *)

\* Only the answer about missed loops is new.
LEMMA ChecksMove ==
    ASSUME pass \in PassStates, PassChecks
    PROVE  /\ pass' \in PassStates
           /\ pass'.at = "switch" /\ pass'.charging = pass.charging
           /\ pass'.missed = (~pass.ignore /\ MissedLoops) /\ pass'.slept = pass.slept
           /\ pass'.who = pass.who /\ pass'.ignore = pass.ignore
           /\ pass'.waited = pass.waited /\ pass'.limited = pass.limited
<1> DEFINE m == ~pass.ignore /\ MissedLoops
<1>1. pass' = [pass EXCEPT !.at = "switch", !.missed = m] BY DEF PassChecks
<1>2. m \in BOOLEAN BY Zenon
<1> HIDE DEF m
<1>3. pass.charging \in BOOLEAN /\ pass.slept \in BOOLEAN BY PassFields
<1>4. pass' = Moved("switch", pass.charging, m, pass.slept)
  BY <1>1, <1>2, <1>3 DEF Moved, PassStates
<1>5. /\ pass' \in PassStates
      /\ pass'.at = "switch" /\ pass'.charging = pass.charging /\ pass'.missed = m
      /\ pass'.slept = pass.slept /\ pass'.who = pass.who /\ pass'.ignore = pass.ignore
      /\ pass'.waited = pass.waited /\ pass'.limited = pass.limited
  BY <1>2, <1>3, <1>4, MovedType
<1> QED BY <1>5 DEF m

\* Waking notes itself in a pass that has its answer.
LEMMA WakesMove ==
    ASSUME pass \in PassStates, SystemWakes
    PROVE  /\ pass' \in PassStates
           /\ pass'.at = pass.at /\ pass'.charging = pass.charging
           /\ pass'.who = pass.who /\ pass'.waited = pass.waited
           /\ pass'.limited = pass.limited
           /\ pass.at = "switch" => pass'.slept
<1>1. CASE pass.at = "switch"
  <2> DEFINE yes == TRUE
  <2>1. pass' = [pass EXCEPT !.slept = yes] BY <1>1 DEF SystemWakes
  <2>2. pass.charging \in BOOLEAN /\ pass.missed \in BOOLEAN /\ yes \in BOOLEAN
    BY PassFields
  <2>3. yes OBVIOUS
  <2> HIDE DEF yes
  <2>4. pass' = Moved("switch", pass.charging, pass.missed, yes)
    BY <1>1, <2>1, <2>2 DEF Moved, PassStates
  <2>5. /\ pass' \in PassStates
        /\ pass'.at = "switch" /\ pass'.charging = pass.charging /\ pass'.slept = yes
        /\ pass'.who = pass.who /\ pass'.waited = pass.waited
        /\ pass'.limited = pass.limited
    BY <2>2, <2>4, MovedType
  <2> QED BY <1>1, <2>3, <2>5
<1>2. CASE pass.at # "switch" BY <1>2 DEF SystemWakes
<1> QED BY <1>1, <1>2

\* What a pass may do to its caller's state and to its own.
PassGoes ==
    /\ pass' \in PassStates /\ ~pass'.waited
    /\ loop' \in LoopStates /\ ~loop'.waited
    /\ records' \in Seq(Ages) /\ Len(records') <= MaxRecordCount
    /\ asked' \in BOOLEAN
    /\ callback' \in CallbackPlaces
    /\ callback' \in {"will sleep", "disable", "ack"} => callback' = callback

LEMMA ReturnGoes ==
    ASSUME TypeOK, NobodyWaited, NEW who, Return(who)
    PROVE  PassGoes
<1>1. LoopSleeps \in LoopStates /\ ~LoopSleeps.waited BY LoopAtType DEF LoopSleeps
<1>2. pass' \in PassStates /\ ~pass'.waited BY NoPassType DEF Return
<1>3. loop' \in LoopStates /\ ~loop'.waited BY <1>1 DEF Return, TypeOK, NobodyWaited
<1>4. records' \in Seq(Ages) /\ Len(records') <= MaxRecordCount
  BY AddRecordType DEF Return, TypeOK
<1>5. asked' \in BOOLEAN BY Zenon DEF Return
<1>6. callback' \in {"decide", "none", callback} BY DEF Return
<1> QED BY <1>2, <1>3, <1>4, <1>5, <1>6 DEF PassGoes, TypeOK, CallbackPlaces

LEMMA GoOnMoves ==
    ASSUME pass \in PassStates, NEW at \in {"notes", "assertion"}, NEW b \in BOOLEAN,
           GoOn(at, b)
    PROVE  /\ pass' \in PassStates
           /\ pass'.at = at /\ pass'.charging = b /\ pass'.who = pass.who
           /\ pass'.waited = pass.waited /\ pass'.limited = pass.limited
<1> DEFINE no == FALSE
<1>1. pass' = [pass EXCEPT !.at = at, !.charging = b, !.missed = no, !.slept = no]
  BY DEF GoOn
<1>2. no \in BOOLEAN OBVIOUS
<1> HIDE DEF no
<1>3. pass' = Moved(at, b, no, no) BY <1>1, <1>2 DEF Moved, PassStates
<1> QED BY <1>2, <1>3, MovedType

LEMMA GoOnGoes ==
    ASSUME TypeOK, NobodyWaited, NEW at \in {"notes", "assertion"},
           NEW b \in BOOLEAN, GoOn(at, b)
    PROVE  PassGoes
<1>1. pass' \in PassStates /\ ~pass'.waited BY GoOnMoves DEF TypeOK, NobodyWaited
<1> QED BY <1>1 DEF GoOn, PassGoes, TypeOK, NobodyWaited

\* A write of a pass is late when charging is on after the callback has disabled it.
LEMMA SetChargingLate ==
    ASSUME IInv, NEW on \in BOOLEAN, NEW ok \in BOOLEAN, SetCharging(on, ok)
    PROVE  charging' \in BOOLEAN /\ late' \in BOOLEAN /\ (hooked /\ charging' => late')
<1>1. charging' \in BOOLEAN BY DEF SetCharging, IInv, TypeOK
<1>2. late' = (late \/ (hooked /\ charging' /\ ~pass.waited)) BY DEF SetCharging
<1>3. ~pass.waited BY DEF IInv, NobodyWaited
<1>4. late' \in BOOLEAN BY <1>2, Zenon
<1> QED BY <1>1, <1>2, <1>3, <1>4

\* A step of a pass keeps the invariant when the switch is what it was, or late.
LEMMA PassKeepsInv ==
    ASSUME IInv, PassGoes,
           charging' \in BOOLEAN, late' \in BOOLEAN, hooked /\ charging' => late',
           assertion' \in BOOLEAN, inProgress' \in BOOLEAN,
           UNCHANGED <<macVars, conf, delay, ageVars, hooked>>
    PROVE  IInv'
<1> USE DEF macVars, ageVars
<1>1. TypeOK' BY DEF IInv, TypeOK, PassGoes
<1>2. GraceStarts' /\ DelayStarts' BY DEF IInv, PassGoes, GraceStarts, DelayStarts, AnswerPending
<1>3. DelayOutlasts' BY DEF IInv, DelayOutlasts
<1>4. NobodyWaited' /\ ChargingIsLate' BY DEF PassGoes, NobodyWaited, ChargingIsLate
<1> QED BY <1>1, <1>2, <1>3, <1>4 DEF IInv

LEMMA PassStepKeepsInv == IInv /\ PassStep => IInv'
<1> SUFFICES ASSUME IInv, PassStep PROVE IInv'
  OBVIOUS
<1> USE DEF historyVars
<1>0. /\ TypeOK /\ NobodyWaited /\ (hooked /\ charging => late)
      /\ charging \in BOOLEAN /\ late \in BOOLEAN /\ assertion \in BOOLEAN
      /\ inProgress \in BOOLEAN /\ pass.charging \in BOOLEAN
  BY DEF IInv, TypeOK, ChargingIsLate, PassStates
<1>1. CASE PassNoMaintain
  <2>1. PassGoes BY <1>0, <1>1, ReturnGoes, Zenon DEF PassNoMaintain
  <2>2. PICK ok \in HardwareOutcomes :
          /\ IF pass.charging THEN UNCHANGED <<charging, late>> ELSE SetCharging(TRUE, ok)
          /\ IF pass.charging \/ ok
             THEN assertion' = FALSE /\ inProgress' = FALSE
             ELSE UNCHANGED <<assertion, inProgress>>
    BY <1>1, Zenon DEF PassNoMaintain
  <2>3. charging' \in BOOLEAN /\ late' \in BOOLEAN /\ (hooked /\ charging' => late')
    BY <1>0, <2>2, SetChargingLate, ConstantsAssumption
  <2>4. assertion' \in BOOLEAN /\ inProgress' \in BOOLEAN BY <1>0, <2>2
  <2>5. UNCHANGED <<macVars, conf, delay, ageVars, hooked>> BY <1>1, Zenon DEF PassNoMaintain
  <2> QED BY <2>1, <2>3, <2>4, <2>5, PassKeepsInv
<1>2. CASE PassStops
  <2>1. PICK ok \in HardwareOutcomes :
          SetCharging(FALSE, ok) /\ IF ok THEN GoOn("notes", FALSE) ELSE Return(pass.who)
    BY <1>2, Zenon DEF PassStops
  <2>2. PassGoes BY <1>0, <2>1, ReturnGoes, GoOnGoes
  <2>3. charging' \in BOOLEAN /\ late' \in BOOLEAN /\ (hooked /\ charging' => late')
    BY <2>1, SetChargingLate, ConstantsAssumption
  <2>4. UNCHANGED <<macVars, conf, delay, ageVars, hooked>> /\ UNCHANGED <<inProgress, assertion>>
    BY <1>2, Zenon DEF PassStops
  <2> QED BY <1>0, <2>2, <2>3, <2>4, PassKeepsInv
<1>3. CASE PassStarts
  <2>1. PICK ok \in HardwareOutcomes :
          SetCharging(TRUE, ok) /\ IF ok THEN GoOn("notes", TRUE) ELSE Return(pass.who)
    BY <1>3, Zenon DEF PassStarts
  <2>2. PassGoes BY <1>0, <2>1, ReturnGoes, GoOnGoes
  <2>3. charging' \in BOOLEAN /\ late' \in BOOLEAN /\ (hooked /\ charging' => late')
    BY <2>1, SetChargingLate, ConstantsAssumption
  <2>4. UNCHANGED <<macVars, conf, delay, ageVars, hooked>> /\ UNCHANGED <<inProgress, assertion>>
    BY <1>3, Zenon DEF PassStarts
  <2> QED BY <1>0, <2>2, <2>3, <2>4, PassKeepsInv
<1>4. CASE PassWaits
  <2>1. PassGoes BY <1>0, <1>4, ReturnGoes, Zenon DEF PassWaits
  <2>2. /\ UNCHANGED <<macVars, conf, delay, ageVars, hooked>>
        /\ UNCHANGED <<inProgress, assertion, charging, late>>
    BY <1>4, Zenon DEF PassWaits
  <2> QED BY <1>0, <2>1, <2>2, PassKeepsInv
<1>5. CASE PassKeeps
  <2>1. PassGoes BY <1>0, <1>5, GoOnGoes DEF PassKeeps
  <2>2. /\ UNCHANGED <<macVars, conf, delay, ageVars, hooked>>
        /\ UNCHANGED <<inProgress, assertion, charging, late>>
    BY <1>5, Zenon DEF PassKeeps
  <2> QED BY <1>0, <2>1, <2>2, PassKeepsInv
<1>6. CASE PassNotes
  <2>1. PassGoes BY <1>0, <1>6, ReturnGoes, GoOnGoes DEF PassNotes
  <2>2. /\ UNCHANGED <<macVars, conf, delay, ageVars, hooked>>
        /\ UNCHANGED <<assertion, charging, late>> /\ inProgress' = pass.charging
    BY <1>6, Zenon DEF PassNotes
  <2> QED BY <1>0, <2>1, <2>2, PassKeepsInv
<1>7. CASE PassAssertion
  <2>1. PassGoes BY <1>0, <1>7, ReturnGoes, Zenon DEF PassAssertion
  <2>2. PICK ok \in HardwareOutcomes :
          assertion' = IF ~conf["preventSystemSleep"] THEN assertion
                       ELSE pass.charging /\ (ok \/ assertion)
    BY <1>7, Zenon DEF PassAssertion
  <2>3. assertion' \in BOOLEAN BY <1>0, <2>2, Zenon
  <2>4. /\ UNCHANGED <<macVars, conf, delay, ageVars, hooked>>
        /\ UNCHANGED <<inProgress, charging, late>>
    BY <1>7, Zenon DEF PassAssertion
  <2> QED BY <1>0, <2>1, <2>3, <2>4, PassKeepsInv
<1>8. CASE PassChecks
  <2>1. /\ UNCHANGED <<macVars, conf, delay, ageVars, hooked>>
        /\ UNCHANGED <<inProgress, assertion, charging, late>>
        /\ UNCHANGED <<loop, callback, asked, records>>
    BY <1>8, Zenon DEF PassChecks
  <2>2. pass' \in PassStates /\ pass'.waited = pass.waited
    BY <1>0, <1>8, ChecksMove DEF TypeOK
  <2>3. PassGoes BY <1>0, <2>1, <2>2 DEF PassGoes, TypeOK, NobodyWaited
  <2> QED BY <1>0, <2>1, <2>3, PassKeepsInv
<1> QED BY <1>1, <1>2, <1>3, <1>4, <1>5, <1>6, <1>7, <1>8 DEF PassStep

-----------------------------------------------------------------------------
(* The other steps *)

LEMMA InitHolds == Init => IInv
<1> SUFFICES ASSUME Init PROVE IInv
  OBVIOUS
<1>1. loop \in LoopStates /\ ~loop.waited BY LoopAtType DEF Init
<1>2. pass \in PassStates /\ ~pass.waited BY NoPassType DEF Init
<1>3. records \in Seq(Ages) /\ Len(records) <= MaxRecordCount BY ConstantsAssumption DEF Init
<1>4. conf \in [{"limited"} \cup Options -> BOOLEAN] /\ plugged \in BOOLEAN
  BY ConstantsAssumption DEF Init
<1>5. grace \in 0..SleepGrace BY ConstantsAssumption DEF Init
<1>6. TypeOK
  BY <1>1, <1>2, <1>3, <1>4, <1>5 DEF Init, TypeOK, Levels, CallbackPlaces
<1> QED
  BY <1>1, <1>2, <1>6 DEF Init, IInv, GraceStarts, DelayStarts, DelayOutlasts, NobodyWaited,
     ChargingIsLate, AnswerPending

\* The loop passes its wait when the delay is over, so before or long after the callback.
LEMMA LoopKeepsInv == IInv /\ (LoopBegins \/ LoopWaited) => IInv'
<1> SUFFICES ASSUME IInv, LoopBegins \/ LoopWaited PROVE IInv'
  OBVIOUS
<1> USE DEF macVars, ageVars, passVars, historyVars
<1>1. loop' \in LoopStates /\ ~loop'.waited
  <2>1. conf["disableChargingPreSleep"] \in BOOLEAN /\ hooked \in BOOLEAN /\ delay \in Nat
    BY DEF IInv, TypeOK, Options
  <2>2. CASE LoopBegins BY <2>2, LoopAtType DEF LoopBegins
  <2>3. CASE LoopWaited
    <3>1. ~hooked BY <2>3, GraceType DEF LoopWaited, IInv, DelayOutlasts
    <3>2. (~conf["disableChargingPreSleep"]) \in BOOLEAN BY <2>1
    <3>3. loop' = LoopAt("pass", ~conf["disableChargingPreSleep"], hooked)
      BY <2>3 DEF LoopWaited
    <3> HIDE DEF LoopAt
    <3> QED BY <2>1, <3>1, <3>2, <3>3, LoopAtType
  <2> QED BY <2>2, <2>3
<1>2. /\ UNCHANGED <<machine, grace, woken, level, plugged, charging, conf, callback>>
      /\ UNCHANGED <<pass, inProgress, assertion, asked, delay, records, lastWake, awakeFor>>
      /\ UNCHANGED <<hooked, late>>
  BY DEF LoopBegins, LoopWaited
<1>3. TypeOK' BY <1>1, <1>2 DEF IInv, TypeOK
<1> QED
  BY <1>1, <1>2, <1>3 DEF IInv, GraceStarts, DelayStarts, DelayOutlasts, NobodyWaited,
     ChargingIsLate, AnswerPending

LEMMA PassReadsKeepsInv ==
    ASSUME IInv, NEW who \in Callers, PassReads(who)
    PROVE  IInv'
<1>0. /\ TypeOK /\ NobodyWaited /\ (hooked /\ charging => late)
      /\ charging \in BOOLEAN /\ late \in BOOLEAN /\ assertion \in BOOLEAN
      /\ inProgress \in BOOLEAN /\ plugged \in BOOLEAN
  BY DEF IInv, TypeOK, ChargingIsLate
<1>1. /\ UNCHANGED <<macVars, conf, delay, ageVars, hooked>>
      /\ UNCHANGED <<charging, assertion, late>>
  BY Zenon DEF PassReads, historyVars
<1>2. PICK ok \in HardwareOutcomes :
          IF ok
          THEN /\ pass' = [who |-> who, at |-> "acts", ignore |-> Ignores(who),
                           waited |-> who = "loop" /\ loop.waited,
                           limited |-> conf["limited"], charging |-> charging,
                           level |-> level, missed |-> FALSE, slept |-> FALSE]
               /\ inProgress' = (charging /\ plugged)
               /\ UNCHANGED <<loop, records, asked, callback>>
          ELSE Return(who) /\ UNCHANGED inProgress
  BY Zenon DEF PassReads
<1>3. CASE ok
  <2>1. Ignores(who) \in BOOLEAN BY <1>0 DEF Ignores, TypeOK, LoopStates, Callers
  <2>2. ~(who = "loop" /\ loop.waited) BY <1>0 DEF NobodyWaited
  <2>3. conf["limited"] \in BOOLEAN /\ level \in Levels BY <1>0 DEF TypeOK
  <2>4. pass' = [who |-> who, at |-> "acts", ignore |-> Ignores(who),
                 waited |-> FALSE, limited |-> conf["limited"], charging |-> charging,
                 level |-> level, missed |-> FALSE, slept |-> FALSE]
    <3>1. (who = "loop" /\ loop.waited) = FALSE BY <2>2, Zenon
    <3> QED BY <1>2, <1>3, <3>1, Zenon
  <2>5. pass' \in PassStates /\ ~pass'.waited
    <3> HIDE DEF Ignores
    <3> QED BY <1>0, <2>1, <2>3, <2>4 DEF PassStates
  <2>6. UNCHANGED <<loop, records, asked, callback>> /\ inProgress' = (charging /\ plugged)
    BY <1>2, <1>3, Zenon
  <2>7. inProgress' \in BOOLEAN BY <2>6, Zenon
  <2>8. PassGoes BY <1>0, <2>5, <2>6 DEF PassGoes, TypeOK, NobodyWaited
  <2> QED BY <1>0, <1>1, <2>7, <2>8, PassKeepsInv
<1>4. CASE ~ok
  <2>1. Return(who) /\ UNCHANGED inProgress BY <1>2, <1>4, Zenon
  <2>2. PassGoes BY <1>0, <2>1, ReturnGoes
  <2> QED BY <1>0, <1>1, <2>1, <2>2, PassKeepsInv
<1> QED BY <1>3, <1>4

LEMMA RequestKeepsInv == IInv /\ (SetLimit \/ SetOption) => IInv'
<1> SUFFICES ASSUME IInv, SetLimit \/ SetOption PROVE IInv'
  OBVIOUS
<1> USE DEF macVars, ageVars, passVars, historyVars
<1>1. conf' \in [{"limited"} \cup Options -> BOOLEAN]
  <2>1. CASE SetLimit BY <2>1 DEF SetLimit, IInv, TypeOK
  <2>2. CASE SetOption BY <2>2 DEF SetOption, IInv, TypeOK
  <2> QED BY <2>1, <2>2
<1>2. level' \in Levels /\ asked' \in BOOLEAN
  BY DEF SetLimit, SetOption, IInv, TypeOK, Levels
<1>3. /\ UNCHANGED <<machine, grace, woken, plugged, charging, loop, callback, pass>>
      /\ UNCHANGED <<inProgress, assertion, delay, records, lastWake, awakeFor, hooked, late>>
  BY DEF SetLimit, SetOption
<1>4. TypeOK' BY <1>1, <1>2, <1>3 DEF IInv, TypeOK
<1> QED
  BY <1>3, <1>4 DEF IInv, GraceStarts, DelayStarts, DelayOutlasts, NobodyWaited,
     ChargingIsLate, AnswerPending

-----------------------------------------------------------------------------
(* Callbacks *)

\* macOS calls: it starts to wait for the answer.
LEMMA CallKeepsInv == IInv /\ (CanSystemSleep \/ SystemWillSleep) => IInv'
<1> SUFFICES ASSUME IInv, CanSystemSleep \/ SystemWillSleep PROVE IInv'
  OBVIOUS
<1> USE DEF macVars, ageVars, passVars, historyVars
<1>1. SleepGrace \in 0..SleepGrace BY ConstantsAssumption
<1>2. /\ UNCHANGED <<woken, level, plugged, charging, conf, loop, pass, inProgress>>
      /\ UNCHANGED <<assertion, asked, delay, records, lastWake, awakeFor, hooked, late>>
  BY DEF CanSystemSleep, SystemWillSleep, CallbackGoes
<1>3. \/ callback' = "can sleep" /\ UNCHANGED <<machine, grace>>
      \/ callback' = "will sleep" /\ machine' = "will sleep" /\ grace' = SleepGrace
  BY DEF CanSystemSleep, SystemWillSleep, CallbackGoes
<1>4. machine = "awake" BY DEF CanSystemSleep, SystemWillSleep
<1>5. TypeOK' BY <1>1, <1>2, <1>3 DEF IInv, TypeOK, CallbackPlaces
<1>6. ~hooked BY <1>4 DEF IInv, DelayOutlasts
<1> QED
  BY <1>2, <1>3, <1>5, <1>6 DEF IInv, GraceStarts, DelayStarts, DelayOutlasts, NobodyWaited,
     ChargingIsLate, AnswerPending

LEMMA CallbackStepKeepsInv == IInv /\ CallbackStep => IInv'
<1> SUFFICES ASSUME IInv, CallbackStep PROVE IInv'
  OBVIOUS
<1> USE DEF macVars, ageVars, passVars, historyVars
<1>0. grace \in Nat /\ delay \in Nat BY GraceType
<1>1. CASE CanSleepChecks \/ CanSleepDecides \/ CanSleepAnswers
  <2>1. callback' \in {"none", "allow", "deny", "can pass", "decide"}
    BY <1>1, Zenon DEF CanSleepChecks, CanSleepDecides, CanSleepAnswers, CallbackGoes
  <2>2. /\ UNCHANGED <<machine, grace, woken, level, plugged, charging, conf, loop, pass>>
        /\ UNCHANGED <<inProgress, assertion, asked, delay, records, lastWake, awakeFor>>
        /\ UNCHANGED <<hooked, late>>
    BY <1>1 DEF CanSleepChecks, CanSleepDecides, CanSleepAnswers, CallbackGoes
  <2>3. TypeOK' BY <2>1, <2>2 DEF IInv, TypeOK, CallbackPlaces
  <2> QED
    BY <2>1, <2>2, <2>3 DEF IInv, GraceStarts, DelayStarts, DelayOutlasts, NobodyWaited,
       ChargingIsLate, AnswerPending
<1>2. CASE WillSleepChecks
  <2>1. PreSleepDelay \in Nat BY ConstantsAssumption
  <2>2. \/ callback' = "disable" /\ delay' = LongerDelay(PreSleepDelay)
        \/ callback' = "ack" /\ delay' = delay
    BY <1>2 DEF WillSleepChecks, CallbackGoes
  <2>3. delay' \in Nat /\ delay' >= delay /\ (callback' = "disable" => delay' >= PreSleepDelay)
    BY <1>0, <2>1, <2>2 DEF LongerDelay
  <2>4. /\ UNCHANGED <<machine, grace, woken, level, plugged, charging, conf, loop, pass>>
        /\ UNCHANGED <<inProgress, assertion, asked, records, lastWake, awakeFor>>
        /\ UNCHANGED <<hooked, late>>
    BY <1>2 DEF WillSleepChecks, CallbackGoes
  <2>5. callback = "will sleep" BY <1>2 DEF WillSleepChecks
  <2>6. TypeOK' BY <2>2, <2>3, <2>4 DEF IInv, TypeOK, CallbackPlaces
  <2>7. DelayOutlasts' BY <1>0, <2>3, <2>4 DEF IInv, DelayOutlasts
  <2> QED
    BY <2>2, <2>3, <2>4, <2>5, <2>6, <2>7 DEF IInv, GraceStarts, DelayStarts, NobodyWaited,
       ChargingIsLate, AnswerPending
<1>3. CASE WillSleepDisables
  <2>1. PICK ok \in HardwareOutcomes :
          /\ charging' \in IF ok THEN {FALSE} ELSE {charging, FALSE}
          /\ hooked' = ok /\ late' = FALSE
          /\ CallbackGoes(IF ok THEN "ack" ELSE "none")
    BY <1>3, Zenon DEF WillSleepDisables
  <2>2. /\ callback = "disable"
        /\ UNCHANGED <<machine, grace, woken, level, plugged, conf, loop, pass>>
        /\ UNCHANGED <<inProgress, assertion, asked, delay, records, lastWake, awakeFor>>
    BY <1>3, <2>1 DEF WillSleepDisables, CallbackGoes
  <2>3. ok \in BOOLEAN BY ConstantsAssumption
  <2>4. callback' \in {"ack", "none"} BY <2>1 DEF CallbackGoes
  <2>5. charging' \in BOOLEAN /\ (hooked' => ~charging')
    BY <2>1, <2>3 DEF IInv, TypeOK
  <2>6. TypeOK' BY <2>1, <2>2, <2>3, <2>4, <2>5 DEF IInv, TypeOK, CallbackPlaces
  <2>7. machine = "will sleep" /\ grace = SleepGrace /\ delay >= PreSleepDelay
    BY <2>2 DEF IInv, GraceStarts, DelayStarts, AnswerPending
  <2>8. DelayOutlasts'
    <3>1. PreSleepDelay \in Nat /\ SleepGrace \in Nat BY ConstantsAssumption
    <3>2. grace = SleepGrace /\ delay >= PreSleepDelay BY <2>7
    <3>3. delay > grace BY <1>0, <3>1, <3>2, DelayOutlastsGrace
    <3> QED BY <2>2, <2>7, <3>3 DEF DelayOutlasts
  <2> QED
    BY <2>2, <2>4, <2>5, <2>6, <2>7, <2>8 DEF IInv, GraceStarts, DelayStarts, NobodyWaited,
       ChargingIsLate, AnswerPending
<1>4. CASE WillSleepAcknowledges
  <2>1. callback' = "none" /\ machine' \in {machine, "allowed"}
    BY <1>4 DEF WillSleepAcknowledges, CallbackGoes
  <2>2. /\ UNCHANGED <<grace, woken, level, plugged, charging, conf, loop, pass>>
        /\ UNCHANGED <<inProgress, assertion, asked, delay, records, lastWake, awakeFor>>
        /\ UNCHANGED <<hooked, late>>
    BY <1>4 DEF WillSleepAcknowledges, CallbackGoes
  <2>3. TypeOK' BY <2>1, <2>2 DEF IInv, TypeOK, CallbackPlaces
  <2> QED
    BY <2>1, <2>2, <2>3 DEF IInv, GraceStarts, DelayStarts, DelayOutlasts, NobodyWaited,
       ChargingIsLate, AnswerPending
<1>5. CASE HasPoweredOn
  <2>1. callback' \in {"on pass", "none"} BY <1>5, Zenon DEF HasPoweredOn
  <2>2. woken' \in BOOLEAN /\ lastWake' \in Nat BY <1>5 DEF HasPoweredOn
  <2>3. PostSleepDelay \in Nat BY ConstantsAssumption
  <2>4. delay' \in {delay, LongerDelay(PostSleepDelay)} BY <1>5 DEF HasPoweredOn
  <2>5. delay' \in Nat /\ delay' >= delay BY <1>0, <2>3, <2>4 DEF LongerDelay
  <2>6. /\ UNCHANGED <<machine, grace, level, plugged, charging, conf, loop, pass>>
        /\ UNCHANGED <<inProgress, assertion, asked, records, awakeFor, hooked, late>>
    BY <1>5 DEF HasPoweredOn
  <2>7. TypeOK' BY <2>1, <2>2, <2>5, <2>6 DEF IInv, TypeOK, CallbackPlaces
  <2>8. DelayOutlasts' BY <1>0, <2>5, <2>6 DEF IInv, DelayOutlasts
  <2> QED
    BY <2>1, <2>6, <2>7, <2>8 DEF IInv, GraceStarts, DelayStarts, NobodyWaited,
       ChargingIsLate, AnswerPending
<1> QED BY <1>1, <1>2, <1>3, <1>4, <1>5 DEF CallbackStep

-----------------------------------------------------------------------------
(* Time *)

LEMMA TimeType ==
    ASSUME TypeOK, NEW d \in Nat, TimePasses(d)
    PROVE  /\ records' \in Seq(Ages) /\ Len(records') <= MaxRecordCount
           /\ lastWake' \in Nat /\ level' \in Levels
<1>1. Threshold + 1 \in Nat /\ PreSleepDelay \in Nat BY ConstantsAssumption
<1>2. records \in Seq(Ages) /\ Len(records) <= MaxRecordCount /\ lastWake \in Nat
  BY DEF TypeOK
<1>3. records' = [i \in DOMAIN records |-> AgeAfter(records[i], d, Threshold + 1)]
  BY DEF TimePasses
<1>4. \A i \in DOMAIN records : AgeAfter(records[i], d, Threshold + 1) \in Ages
  <2> TAKE i \in DOMAIN records
  <2>1. records[i] \in Ages BY <1>2
  <2> QED BY <1>1, <2>1, AgeType DEF Ages
<1>5. records' \in Seq(Ages) /\ Len(records') = Len(records)
  <2> HIDE DEF Ages, AgeAfter
  <2>1. DOMAIN records = 1..Len(records) /\ Len(records) \in Nat BY <1>2
  <2>2. records' \in [1..Len(records) -> Ages] BY <1>3, <1>4, <2>1
  <2> QED BY <2>1, <2>2
<1>6. lastWake' \in Nat BY <1>1, <1>2 DEF TimePasses, AgeAfter
<1>7. level' \in Levels BY DEF TimePasses, LevelsLater, TypeOK, Levels
<1> QED BY <1>2, <1>5, <1>6, <1>7

\* The wait and the delay get shorter together.
LEMMA TickKeepsInv == IInv /\ Tick => IInv'
<1> SUFFICES ASSUME IInv, Tick PROVE IInv'
  OBVIOUS
<1> USE DEF passVars, historyVars
<1>0. TypeOK /\ grace \in Nat /\ delay \in Nat BY GraceType DEF IInv
<1>1. /\ records' \in Seq(Ages) /\ Len(records') <= MaxRecordCount
      /\ lastWake' \in Nat /\ level' \in Levels
  BY <1>0, TimeType DEF Tick
<1>2. awakeFor' \in Nat
  <2>1. Threshold \in Nat BY ConstantsAssumption
  <2>2. awakeFor \in Nat /\ awakeFor' = AgeAfter(awakeFor, 1, Threshold)
    BY <1>0 DEF Tick, TypeOK
  <2> QED BY <2>1, <2>2 DEF AgeAfter
<1>3. loop' \in LoopStates /\ ~loop'.waited
  BY LoopAtType, Zenon DEF Tick, IInv, TypeOK, NobodyWaited
<1>4. \/ machine = "awake" /\ grace' = grace
      \/ machine # "awake" /\ grace > 0 /\ grace' = grace - 1
  BY DEF Tick
<1>5. delay' = IF delay > 0 THEN delay - 1 ELSE 0 BY DEF Tick
<1>6. /\ UNCHANGED <<machine, woken, plugged, charging, conf, callback, pass>>
      /\ UNCHANGED <<inProgress, assertion, asked, hooked, late>>
  BY DEF Tick
<1>7. callback = "none" BY DEF Tick, Quiet
<1>8. grace' \in 0..SleepGrace /\ delay' \in Nat
  <2>1. SleepGrace \in Nat BY ConstantsAssumption
  <2>2. grace \in 0..SleepGrace BY <1>0 DEF TypeOK
  <2> QED BY <1>0, <1>4, <1>5, <2>1, <2>2
<1>9. TypeOK' BY <1>0, <1>1, <1>2, <1>3, <1>6, <1>8 DEF TypeOK
<1>10. DelayOutlasts' BY <1>0, <1>4, <1>5, <1>6 DEF IInv, DelayOutlasts
<1> QED
  BY <1>3, <1>6, <1>7, <1>9, <1>10 DEF IInv, GraceStarts, DelayStarts, NobodyWaited,
     ChargingIsLate, AnswerPending

\* macOS has not waited long enough while an answer is due.
LEMMA SystemSleepsKeepsInv == IInv /\ SystemSleeps => IInv'
<1> SUFFICES ASSUME IInv, SystemSleeps PROVE IInv'
  OBVIOUS
<1> USE DEF macVars, ageVars, passVars, historyVars
<1>0. grace \in Nat /\ delay \in Nat BY GraceType
<1>1. machine' = "asleep" /\ grace' = 0 BY DEF SystemSleeps
<1>2. /\ UNCHANGED <<woken, level, plugged, charging, conf, loop, callback, pass>>
      /\ UNCHANGED <<inProgress, assertion, asked, delay, records, lastWake, awakeFor>>
      /\ UNCHANGED <<hooked, late>>
  BY DEF SystemSleeps
<1>3. TypeOK'
  <2>1. 0 \in 0..SleepGrace BY ConstantsAssumption
  <2> QED BY <1>1, <1>2, <2>1 DEF IInv, TypeOK
<1>4. ~AnswerPending
  <2>1. SleepGrace # 0 BY ConstantsAssumption
  <2>2. machine # "will sleep" \/ grace = 0 BY DEF SystemSleeps
  <2> QED BY <2>1, <2>2 DEF IInv, GraceStarts
<1>5. DelayOutlasts' BY <1>0, <1>1, <1>2 DEF IInv, DelayOutlasts
<1> QED
  BY <1>2, <1>3, <1>4, <1>5 DEF IInv, GraceStarts, DelayStarts, NobodyWaited,
     ChargingIsLate, AnswerPending

LEMMA SystemWakesKeepsInv == IInv /\ SystemWakes => IInv'
<1> SUFFICES ASSUME IInv, SystemWakes PROVE IInv'
  OBVIOUS
<1> USE DEF passVars
<1>1. PICK d \in SleepLengths : TimePasses(d) BY DEF SystemWakes
<1>2. /\ records' \in Seq(Ages) /\ Len(records') <= MaxRecordCount
      /\ lastWake' \in Nat /\ level' \in Levels
  BY <1>1, TimeType, ConstantsAssumption DEF IInv
<1>3. /\ machine' = "awake" /\ woken' \in BOOLEAN /\ awakeFor' = 0
      /\ hooked' = FALSE /\ late' = FALSE
  BY ConstantsAssumption DEF SystemWakes
<1>4. /\ UNCHANGED <<grace, plugged, charging, conf, loop, callback>>
      /\ UNCHANGED <<inProgress, assertion, asked, delay>>
      /\ machine = "asleep"
  BY DEF SystemWakes
<1>5. pass' \in PassStates /\ pass'.waited = pass.waited BY WakesMove DEF IInv, TypeOK
<1>6. TypeOK' BY <1>2, <1>3, <1>4, <1>5 DEF IInv, TypeOK
<1>7. ~AnswerPending BY <1>4 DEF IInv, GraceStarts
<1> QED
  BY <1>3, <1>4, <1>5, <1>6, <1>7 DEF IInv, GraceStarts, DelayStarts, DelayOutlasts, NobodyWaited,
     ChargingIsLate, AnswerPending

-----------------------------------------------------------------------------
(* Theorems *)

LEMMA StepKeepsInv == IInv /\ [Next]_vars => IInv'
<1> SUFFICES ASSUME IInv, [Next]_vars PROVE IInv'
  OBVIOUS
<1>1. CASE LoopBegins \/ LoopWaited BY <1>1, LoopKeepsInv
<1>2. ASSUME NEW who \in Callers, PassReads(who) PROVE IInv' BY <1>2, PassReadsKeepsInv
<1>3. CASE PassStep BY <1>3, PassStepKeepsInv
<1>4. CASE SetLimit \/ SetOption BY <1>4, RequestKeepsInv
<1>5. CASE CanSystemSleep \/ SystemWillSleep BY <1>5, CallKeepsInv
<1>6. CASE CallbackStep BY <1>6, CallbackStepKeepsInv
<1>7. CASE Tick BY <1>7, TickKeepsInv
<1>8. CASE SystemSleeps BY <1>8, SystemSleepsKeepsInv
<1>9. CASE SystemWakes BY <1>9, SystemWakesKeepsInv
<1>10. CASE UNCHANGED vars
  <2> USE DEF vars
  <2>1. TypeOK' BY <1>10 DEF IInv, TypeOK
  <2> QED
    BY <1>10, <2>1 DEF IInv, GraceStarts, DelayStarts, DelayOutlasts, NobodyWaited,
       ChargingIsLate, AnswerPending
<1> QED
  BY <1>1, <1>2, <1>3, <1>4, <1>5, <1>6, <1>7, <1>8, <1>9, <1>10, Zenon DEF Next

LEMMA InvHolds == Spec => []IInv
BY InitHolds, StepKeepsInv, PTL DEF Spec

\* Every variable keeps its type and the recorder its bound, whatever the order of
\* callbacks, passes, requests and sleep.
THEOREM TypeCorrect == Spec => []TypeOK
<1>1. IInv => TypeOK BY DEF IInv
<1> QED BY <1>1, InvHolds, PTL

\* Charging that the will-sleep callback has disabled stays disabled in sleep, unless
\* a pass that does not wait for it has enabled it (sleepcallback.go:109-119).
THEOREM SleepStaysUncharged == Spec => []SleepsUncharged
<1>1. IInv => SleepsUncharged BY DEF IInv, ChargingIsLate, SleepsUncharged
<1> QED BY <1>1, InvHolds, PTL

-----------------------------------------------------------------------------
(* What the recorder tells of sleep *)

\* A loop interval lies between two records, until they are too old to count.
RecordsApart ==
    \A i \in 1..(Len(records) - 1) :
        records[i] > records[i + 1] \/ records[i] > Threshold

\* Sleep leaves a gap between the records before it and those after it.
SleepLeavesGap ==
    \A i \in 1..(Len(records) - 1) :
        records[i] > awakeFor /\ records[i + 1] <= awakeFor
        => records[i] - records[i + 1] > 1 \/ records[i] > Threshold

\* When the loop runs, an interval has passed since its last record, and more when
\* the machine has slept since.
LastRecordOld ==
    records # <<>> /\ loop.at # "sleep"
    => LET last == records[Len(records)]
       IN last > 0 /\ (last > awakeFor => last > 1)

\* The loop stays where it is while its pass runs.
LoopInPass == pass.who = "loop" => loop.at = "pass"

StableInv == RecordsApart /\ SleepLeavesGap /\ LastRecordOld /\ LoopInPass

\* Every record of a recorder is an age.
LEMMA RecordAge ==
    ASSUME TypeOK, NEW i \in 1..Len(records)
    PROVE  records[i] \in 0..(Threshold + 1)
<1>1. records \in Seq(Ages) BY DEF TypeOK
<1>2. records[i] \in Ages BY <1>1
<1> QED BY <1>2 DEF Ages

LEMMA CountType ==
    ASSUME TypeOK
    PROVE  /\ Len(records) \in Nat /\ awakeFor \in Nat /\ Threshold \in Nat /\ Threshold > 0
           /\ (records # <<>>) <=> (Len(records) > 0)
<1>1. records \in Seq(Ages) /\ awakeFor \in Nat BY DEF TypeOK
<1>2. Len(records) \in Nat /\ ((records # <<>>) <=> (Len(records) > 0)) BY <1>1
<1>3. Threshold \in Nat /\ Threshold > 0 BY ConstantsAssumption
<1> QED BY <1>1, <1>2, <1>3

\* Time makes every record older, up to the age from which it does not count.
LEMMA TimeAges ==
    ASSUME TypeOK, NEW d \in Nat, TimePasses(d)
    PROVE  /\ Len(records') = Len(records)
           /\ \A i \in 1..Len(records) :
                 records'[i] = IF records[i] + d > Threshold + 1
                               THEN Threshold + 1 ELSE records[i] + d
<1>1. records \in Seq(Ages) BY DEF TypeOK
<1>2. records' = [i \in DOMAIN records |-> AgeAfter(records[i], d, Threshold + 1)]
  BY DEF TimePasses
<1>3. DOMAIN records = 1..Len(records) /\ Len(records) \in Nat BY <1>1
<1>4. DOMAIN records' = 1..Len(records) BY <1>2, <1>3, Zenon
<1>5. records' \in Seq(Ages) BY TimeType
<1>6. Len(records') = Len(records) BY <1>3, <1>4, <1>5
<1>7. \A i \in 1..Len(records) : records'[i] = AgeAfter(records[i], d, Threshold + 1)
  BY <1>2, <1>3, Zenon
<1> QED BY <1>6, <1>7 DEF AgeAfter

\* A new record comes last, and the oldest goes when there are too many.
LEMMA AddRecordShifts ==
    ASSUME TypeOK
    PROVE  \E s \in {0, 1} :
              /\ Len(AddRecordNow) = Len(records) - s + 1
              /\ Len(records) >= s
              /\ AddRecordNow[Len(AddRecordNow)] = 0
              /\ \A i \in 1..(Len(AddRecordNow) - 1) : AddRecordNow[i] = records[i + s]
<1> DEFINE kept == IF Len(records) >= MaxRecordCount THEN Tail(records) ELSE records
           s == IF Len(records) >= MaxRecordCount THEN 1 ELSE 0
<1>1. 0 \in Ages /\ MaxRecordCount \in Nat \ {0} BY ConstantsAssumption DEF Ages
<1>2. records \in Seq(Ages) BY DEF TypeOK
<1>3. /\ kept \in Seq(Ages) /\ Len(kept) = Len(records) - s /\ Len(records) >= s
      /\ \A i \in 1..Len(kept) : kept[i] = records[i + s]
      /\ s \in {0, 1}
  <2> HIDE DEF Ages
  <2>1. CASE Len(records) >= MaxRecordCount
    <3>1. records # <<>> /\ Len(records) >= 1 BY <1>1, <1>2, <2>1
    <3>2. /\ Tail(records) \in Seq(Ages) /\ Len(Tail(records)) = Len(records) - 1
          /\ \A i \in 1..Len(Tail(records)) : Tail(records)[i] = records[i + 1]
      BY <1>2, <3>1
    <3> QED BY <2>1, <3>1, <3>2
  <2>2. CASE ~(Len(records) >= MaxRecordCount) BY <1>2, <2>2
  <2> QED BY <2>1, <2>2
<1>4. AddRecordNow = Append(kept, 0) BY DEF AddRecordNow
<1> HIDE DEF kept, s, Ages
<1>5. /\ Len(Append(kept, 0)) = Len(kept) + 1
      /\ Append(kept, 0)[Len(kept) + 1] = 0
      /\ \A i \in 1..Len(kept) : Append(kept, 0)[i] = kept[i]
  BY <1>1, <1>3
<1>6. Len(kept) \in Nat /\ (Len(kept) + 1) - 1 = Len(kept) BY <1>3
<1>7. /\ Len(AddRecordNow) = Len(records) - s + 1
      /\ AddRecordNow[Len(AddRecordNow)] = 0
      /\ \A i \in 1..(Len(AddRecordNow) - 1) : AddRecordNow[i] = records[i + s]
  BY <1>3, <1>4, <1>5, <1>6
<1> QED BY <1>3, <1>7

-----------------------------------------------------------------------------
(* Steps and the recorder *)

\* Steps that write no record, while the loop does not wake.
LEMMA NoRecord ==
    ASSUME StableInv, UNCHANGED <<records, awakeFor>>,
           loop'.at # "sleep" => loop.at # "sleep",
           pass'.who = "loop" => loop'.at = "pass"
    PROVE  StableInv'
BY DEF StableInv, RecordsApart, SleepLeavesGap, LastRecordOld, LoopInPass

\* The loop's record: its pass ends.
LEMMA RecordAdded ==
    ASSUME TypeOK, StableInv, loop.at # "sleep", records' = AddRecordNow,
           awakeFor' = awakeFor, loop'.at = "sleep", pass'.who # "loop"
    PROVE  StableInv'
<1>0. Len(records) \in Nat /\ awakeFor \in Nat /\ Threshold \in Nat BY CountType
<1> DEFINE n == Len(records)
<1>1. PICK s \in {0, 1} :
          /\ Len(records') = n - s + 1 /\ n >= s
          /\ records'[Len(records')] = 0
          /\ \A i \in 1..(Len(records') - 1) : records'[i] = records[i + s]
  BY AddRecordShifts
<1>2. \A i \in 1..n : records[i] \in 0..(Threshold + 1) BY RecordAge
<1>3. n > 0 => records[n] > 0 /\ (records[n] > awakeFor => records[n] > 1)
  BY CountType DEF StableInv, LastRecordOld
<1>4. ASSUME NEW i \in 1..(Len(records') - 1)
      PROVE  /\ records'[i] > records'[i + 1] \/ records'[i] > Threshold
             /\ records'[i] > awakeFor /\ records'[i + 1] <= awakeFor
                => records'[i] - records'[i + 1] > 1 \/ records'[i] > Threshold
  <2>1. i + s \in 1..n /\ records'[i] = records[i + s] BY <1>0, <1>1
  <2>2. CASE i + s = n
    <3>1. i + 1 = Len(records') BY <1>0, <1>1, <2>2
    <3>2. records'[i + 1] = 0 BY <1>1, <3>1
    <3>3. records'[i] = records[n] /\ records[n] \in 0..(Threshold + 1) /\ n > 0
      BY <1>0, <1>2, <2>1, <2>2
    <3> HIDE DEF n
    <3> QED BY <1>0, <1>3, <3>2, <3>3
  <2>3. CASE i + s # n
    <3>1. i + s \in 1..(n - 1) /\ (i + 1) + s = (i + s) + 1 BY <1>0, <1>1, <2>1, <2>3
    <3>2. i + 1 \in 1..(Len(records') - 1) BY <1>0, <1>1, <3>1
    <3>3. records'[i + 1] = records[(i + s) + 1] BY <1>1, <3>1, <3>2
    <3> QED BY <2>1, <3>1, <3>3 DEF StableInv, RecordsApart, SleepLeavesGap
  <2> QED BY <2>2, <2>3
<1>5. RecordsApart' /\ SleepLeavesGap' BY <1>4 DEF RecordsApart, SleepLeavesGap
<1> QED BY <1>5 DEF StableInv, LastRecordOld, LoopInPass

\* Time passes, asleep or awake.
LEMMA RecordsAge ==
    ASSUME TypeOK, StableInv, NEW d \in Nat \ {0}, TimePasses(d),
           \/ awakeFor' = 0 /\ loop' = loop
           \/ d = 1 /\ awakeFor' = AgeAfter(awakeFor, 1, Threshold),
           pass'.who = "loop" => loop'.at = "pass"
    PROVE  StableInv'
<1> DEFINE n == Len(records)
<1>0. n \in Nat /\ awakeFor \in Nat /\ Threshold \in Nat BY CountType
<1>1. /\ Len(records') = n
      /\ \A i \in 1..n : records'[i] = IF records[i] + d > Threshold + 1
                                       THEN Threshold + 1 ELSE records[i] + d
  BY TimeAges
<1>2. \A i \in 1..n : records[i] \in 0..(Threshold + 1) BY RecordAge
<1>3. ASSUME NEW i \in 1..(n - 1)
      PROVE  /\ records'[i] > records'[i + 1] \/ records'[i] > Threshold
             /\ records'[i] > awakeFor' /\ records'[i + 1] <= awakeFor'
                => records'[i] - records'[i + 1] > 1 \/ records'[i] > Threshold
  <2>1. i \in 1..n /\ i + 1 \in 1..n BY <1>0
  <2> DEFINE a == records[i]
             b == records[i + 1]
  <2>2. /\ records'[i] = IF a + d > Threshold + 1 THEN Threshold + 1 ELSE a + d
        /\ records'[i + 1] = IF b + d > Threshold + 1 THEN Threshold + 1 ELSE b + d
        /\ a \in 0..(Threshold + 1) /\ b \in 0..(Threshold + 1)
    BY <1>1, <1>2, <2>1
  <2>3. /\ a > b \/ a > Threshold
        /\ a > awakeFor /\ b <= awakeFor => a - b > 1 \/ a > Threshold
    BY DEF StableInv, RecordsApart, SleepLeavesGap
  <2> HIDE DEF a, b, n
  <2>4. records'[i] > records'[i + 1] \/ records'[i] > Threshold BY <1>0, <2>2, <2>3
  <2>5. CASE awakeFor' = 0
    <3>1. d \in Nat /\ d > 0 OBVIOUS
    <3>2. records'[i + 1] > 0 /\ records'[i + 1] \in Nat BY <1>0, <2>2, <3>1
    <3> QED BY <2>4, <2>5, <3>2
  <2>6. CASE d = 1 /\ awakeFor' = AgeAfter(awakeFor, 1, Threshold)
    BY <1>0, <2>2, <2>3, <2>6 DEF AgeAfter
  <2> QED BY <2>4, <2>5, <2>6
<1>4. RecordsApart' /\ SleepLeavesGap' BY <1>1, <1>3 DEF RecordsApart, SleepLeavesGap
<1>5. LastRecordOld'
  <2> SUFFICES ASSUME records' # <<>>, loop'.at # "sleep"
               PROVE  /\ records'[n] > 0
                      /\ records'[n] > awakeFor' => records'[n] > 1
    BY <1>1 DEF LastRecordOld
  <2>1. records' \in Seq(Ages) BY TimeType
  <2>2. n \in 1..n /\ n > 0 BY <1>0, <1>1, <2>1
  <2>3. /\ records'[n] = IF records[n] + d > Threshold + 1
                         THEN Threshold + 1 ELSE records[n] + d
        /\ records[n] \in 0..(Threshold + 1) /\ Threshold > 0
    BY <1>1, <1>2, <2>2, CountType
  <2>4. CASE awakeFor' = 0 /\ loop' = loop
    <3>1. records[n] > 0 BY <2>2, <2>4, CountType DEF StableInv, LastRecordOld
    <3> HIDE DEF n
    <3> QED BY <1>0, <2>3, <3>1
  <2>5. CASE d = 1 /\ awakeFor' = AgeAfter(awakeFor, 1, Threshold)
    <3> HIDE DEF n
    <3> QED BY <1>0, <2>3, <2>5 DEF AgeAfter
  <2> QED BY <2>4, <2>5
<1> QED BY <1>4, <1>5 DEF StableInv, LoopInPass

LEMMA InitStable == Init => StableInv
<1> SUFFICES ASSUME Init PROVE StableInv
  OBVIOUS
<1>1. records = <<>> /\ pass.who = "none" BY DEF Init, NoPass
<1>2. 1..(Len(records) - 1) = {} BY <1>1
<1> QED BY <1>1, <1>2 DEF StableInv, RecordsApart, SleepLeavesGap, LastRecordOld, LoopInPass

\* A pass that returns writes a record when it is the loop's.
LEMMA ReturnKeepsStable ==
    ASSUME TypeOK, StableInv, NEW who, Return(who), awakeFor' = awakeFor,
           who = "loop" => loop.at = "pass"
    PROVE  StableInv'
<1>1. pass'.who # "loop" BY DEF Return, NoPass
<1>2. CASE who = "loop"
  <2>1. loop'.at = "sleep" BY <1>2 DEF Return, LoopSleeps, LoopAt
  <2>2. records' = AddRecordNow BY <1>2, Zenon DEF Return
  <2> QED BY <1>1, <1>2, <2>1, <2>2, RecordAdded
<1>3. CASE who # "loop"
  <2>1. loop' = loop /\ records' = records BY <1>3, Zenon DEF Return
  <2> QED BY <1>1, <2>1, NoRecord
<1> QED BY <1>2, <1>3

LEMMA GoOnKeepsStable ==
    ASSUME TypeOK, StableInv, NEW at \in {"notes", "assertion"}, NEW b \in BOOLEAN,
           GoOn(at, b), awakeFor' = awakeFor
    PROVE  StableInv'
<1>1. pass'.who = pass.who BY GoOnMoves DEF TypeOK
<1>2. loop' = loop /\ records' = records BY DEF GoOn
<1> QED BY <1>1, <1>2, NoRecord DEF StableInv, LoopInPass

\* Every step of a pass but its look for missed loops goes on or returns.
LEMMA PassGoesOnOrReturns ==
    ASSUME TypeOK, PassStep
    PROVE  /\ awakeFor' = awakeFor
           /\ \/ Return(pass.who)
              \/ \E at \in {"notes", "assertion"}, b \in BOOLEAN : GoOn(at, b)
              \/ PassChecks
<1> USE DEF ageVars
<1>0. pass.charging \in BOOLEAN BY DEF TypeOK, PassStates
<1>1. CASE PassNoMaintain BY <1>1 DEF PassNoMaintain
<1>2. CASE PassStops BY <1>0, <1>2 DEF PassStops
<1>3. CASE PassStarts BY <1>0, <1>3 DEF PassStarts
<1>4. CASE PassWaits BY <1>0, <1>4 DEF PassWaits
<1>5. CASE PassKeeps BY <1>0, <1>5 DEF PassKeeps
<1>6. CASE PassNotes BY <1>0, <1>6 DEF PassNotes
<1>7. CASE PassAssertion BY <1>7 DEF PassAssertion
<1>8. CASE PassChecks BY <1>8 DEF PassChecks
<1> QED BY <1>1, <1>2, <1>3, <1>4, <1>5, <1>6, <1>7, <1>8 DEF PassStep

LEMMA StepKeepsStable == TypeOK /\ StableInv /\ [Next]_vars => StableInv'
<1> SUFFICES ASSUME TypeOK, StableInv, [Next]_vars PROVE StableInv'
  OBVIOUS
<1> USE DEF ageVars, passVars
<1>0. pass.who = "loop" => loop.at = "pass" BY DEF StableInv, LoopInPass
<1>1. CASE LoopBegins \/ LoopWaited
  <2>1. UNCHANGED <<records, awakeFor, pass>> BY <1>1 DEF LoopBegins, LoopWaited
  <2>2. loop.at \in {"top", "wait"} BY <1>1 DEF LoopBegins, LoopWaited
  <2> QED BY <1>0, <2>1, <2>2, NoRecord
<1>2. ASSUME NEW who \in Callers, PassReads(who) PROVE StableInv'
  <2>1. /\ awakeFor' = awakeFor
        /\ \/ Return(who)
           \/ pass'.who = who /\ UNCHANGED <<loop, records>>
    BY <1>2 DEF PassReads
  <2>2. who = "loop" => loop.at = "pass" BY <1>2 DEF PassReads, Wants
  <2>3. CASE Return(who) BY <2>1, <2>2, <2>3, ReturnKeepsStable
  <2>4. CASE pass'.who = who /\ UNCHANGED <<loop, records>> BY <2>1, <2>2, <2>4, NoRecord
  <2> QED BY <2>1, <2>3, <2>4
<1>3. CASE PassStep
  <2>1. /\ awakeFor' = awakeFor
        /\ \/ Return(pass.who)
           \/ \E at \in {"notes", "assertion"}, b \in BOOLEAN : GoOn(at, b)
           \/ PassChecks
    BY <1>3, PassGoesOnOrReturns
  <2>2. CASE Return(pass.who) BY <1>0, <2>1, <2>2, ReturnKeepsStable
  <2>3. CASE \E at \in {"notes", "assertion"}, b \in BOOLEAN : GoOn(at, b)
    BY <2>1, <2>3, GoOnKeepsStable
  <2>4. CASE PassChecks
    <3>1. pass'.who = pass.who BY <2>4, ChecksMove DEF TypeOK
    <3>2. UNCHANGED <<records, awakeFor, loop>> BY <2>4 DEF PassChecks
    <3> QED BY <1>0, <3>1, <3>2, NoRecord
  <2> QED BY <2>1, <2>2, <2>3, <2>4
<1>4. CASE SetLimit \/ SetOption \/ CanSystemSleep \/ SystemWillSleep \/ CallbackStep
           \/ SystemSleeps
  <2>1. UNCHANGED <<records, awakeFor, pass, loop>>
    BY <1>4 DEF SetLimit, SetOption, CanSystemSleep, SystemWillSleep, SystemSleeps,
       CallbackStep, CanSleepChecks, CanSleepDecides, CanSleepAnswers, WillSleepChecks,
       WillSleepDisables, WillSleepAcknowledges, HasPoweredOn, CallbackGoes
  <2> QED BY <1>0, <2>1, NoRecord
<1>5. CASE Tick
  <2>1. /\ TimePasses(1) /\ awakeFor' = AgeAfter(awakeFor, 1, Threshold)
        /\ pass' = pass /\ pass.who = "none"
    BY <1>5 DEF Tick, Quiet
  <2> QED BY <2>1, RecordsAge
<1>6. CASE SystemWakes
  <2>1. PICK d \in SleepLengths : TimePasses(d) BY <1>6 DEF SystemWakes
  <2>2. d \in Nat \ {0} BY ConstantsAssumption
  <2>3. awakeFor' = 0 /\ loop' = loop /\ pass'.who = pass.who
    BY <1>6, WakesMove DEF SystemWakes, TypeOK
  <2> QED BY <1>0, <2>1, <2>2, <2>3, RecordsAge
<1>7. CASE UNCHANGED vars BY <1>0, <1>7, NoRecord DEF vars
<1> QED BY <1>1, <1>2, <1>3, <1>4, <1>5, <1>6, <1>7, Zenon DEF Next

LEMMA StableHolds == Spec => []StableInv
<1>1. IInv => TypeOK BY DEF IInv
<1> QED BY <1>1, InvHolds, InitStable, StepKeepsStable, PTL DEF Spec

-----------------------------------------------------------------------------
(* What GetRecordsIn counts *)

LEMMA LeastNumber ==
    ASSUME NEW T, T \subseteq Nat, T # {}
    PROVE  \E m \in T : \A k \in T : m <= k
<1>1. \E m \in T : \A k \in T : ~(<<k, m>> \in OpToRel(<, Nat))
  BY NatLessThanWellFounded, WFMin, Zenon
<1>2. PICK m \in T : \A k \in T : ~(<<k, m>> \in OpToRel(<, Nat)) BY <1>1
<1>3. ASSUME NEW k \in T PROVE m <= k
  <2>1. k \in Nat /\ m \in Nat OBVIOUS
  <2>2. ~(<<k, m>> \in OpToRel(<, Nat)) BY <1>2
  <2>3. ~(k < m) BY <2>1, <2>2 DEF OpToRel
  <2> QED BY <2>1, <2>3
<1> QED BY <1>3

\* Some number of records follow one another closely and one more do not.
LEMMA CountExists ==
    ASSUME TypeOK, NEW last
    PROVE  \E n \in 0..Len(records) :
              /\ Continuous(n, last)
              /\ n < Len(records) => ~Continuous(n + 1, last)
<1>0. Len(records) \in Nat BY CountType
<1> DEFINE T == {n \in 1..Len(records) : ~Continuous(n, last)}
<1>1. CASE T = {}
  <2>1. Continuous(Len(records), last)
    <3>1. CASE Len(records) = 0 BY <1>0, <3>1 DEF Continuous
    <3>2. CASE Len(records) # 0 BY <1>0, <1>1, <3>2
    <3> QED BY <3>1, <3>2
  <2> QED BY <1>0, <2>1
<1>2. CASE T # {}
  <2>1. T \subseteq Nat OBVIOUS
  <2> HIDE DEF T
  <2>2. PICK m \in T : \A k \in T : m <= k BY <1>2, <2>1, LeastNumber
  <2>3. m \in 1..Len(records) /\ ~Continuous(m, last) BY <2>2 DEF T
  <2>4. m - 1 \in 0..Len(records) /\ (m - 1) + 1 = m /\ m - 1 < m BY <1>0, <2>3
  <2>5. Continuous(m - 1, last)
    <3>1. CASE m - 1 = 0
      <4>1. (Len(records) - (m - 1) + 1)..Len(records) = {} BY <1>0, <3>1
      <4> QED BY <4>1 DEF Continuous
    <3>2. CASE m - 1 # 0
      <4>1. m - 1 \in 1..Len(records) BY <1>0, <2>4, <3>2
      <4>2. m - 1 \notin T BY <2>2, <2>3, <2>4
      <4> QED BY <4>1, <4>2 DEF T
    <3> QED BY <3>1, <3>2
  <2> QED BY <2>3, <2>4, <2>5
<1> QED BY <1>1, <1>2

\* What is counted: the last record is recent, and so are those it follows closely.
LEMMA CountedRecords ==
    ASSUME TypeOK, NEW last, GetRecordsIn(last) # 0
    PROVE  /\ GetRecordsIn(last) \in 1..Len(records)
           /\ Continuous(GetRecordsIn(last), last)
           /\ records[Len(records)] <= 1
<1>0. Len(records) \in Nat BY CountType
<1> DEFINE Counts(n) == /\ Continuous(n, last)
                        /\ n < Len(records) => ~Continuous(n + 1, last)
<1>1. ~(records # <<>> /\ records[Len(records)] > 1)
  BY DEF GetRecordsIn
<1>2. GetRecordsIn(last) = CHOOSE n \in 0..Len(records) : Counts(n)
  BY <1>1 DEF GetRecordsIn
<1>3. \E n \in 0..Len(records) : Counts(n) BY CountExists
<1> HIDE DEF Counts
<1>4. GetRecordsIn(last) \in 0..Len(records) /\ Counts(GetRecordsIn(last))
  BY <1>2, <1>3, Zenon
<1>5. GetRecordsIn(last) \in 1..Len(records) BY <1>0, <1>4
<1>6. records # <<>> /\ Len(records) \in 1..Len(records) BY <1>0, <1>5, CountType
<1>7. records[Len(records)] \in 0..(Threshold + 1) BY <1>6, RecordAge
<1>8. records[Len(records)] <= 1 BY <1>1, <1>6, <1>7, CountType
<1> QED BY <1>4, <1>5, <1>8 DEF Counts

\* Records that follow one another closely up to a recent one were all made since
\* the machine woke, an interval apart: it has been awake for as many intervals.
LEMMA CountedAwake ==
    ASSUME TypeOK, StableInv, loop.at # "sleep",
           NEW k \in 1..Len(records), Continuous(k, Threshold),
           records[Len(records)] <= 1
    PROVE  awakeFor >= k
<1> DEFINE n == Len(records)
<1>0. n \in Nat /\ n > 0 /\ k \in Nat /\ k > 0 /\ k <= n /\ awakeFor \in Nat /\ Threshold \in Nat
  BY CountType
<1>1. \A j \in 0..(k - 1) : records[n - j] \in 0..(Threshold + 1)
  <2> TAKE j \in 0..(k - 1)
  <2>1. n - j \in 1..n BY <1>0
  <2> QED BY <2>1, RecordAge
<1>2. records[n] > 0 /\ ~(records[n] > awakeFor)
  <2>1. records # <<>> BY <1>0, CountType
  <2>2. records[n] > 0 /\ (records[n] > awakeFor => records[n] > 1)
    BY <2>1 DEF StableInv, LastRecordOld
  <2>3. n - 0 = n /\ 0 \in 0..(k - 1) BY <1>0
  <2>4. records[n] \in 0..(Threshold + 1) BY <1>1, <2>3
  <2> QED BY <2>2, <2>4
<1>3. ASSUME NEW j \in 1..(k - 1)
      PROVE  /\ j - 1 \in 0..(k - 1)
             /\ records[n - j] > records[n - (j - 1)]
             /\ records[n - (j - 1)] <= awakeFor => records[n - j] <= awakeFor
  <2>1. /\ n - j \in 1..(n - 1) /\ n - j \in (n - k + 1)..n /\ (n - j) + 1 = n - (j - 1)
        /\ n - j < n /\ j - 1 \in 0..(k - 1) /\ j \in 0..(k - 1)
    BY <1>0
  <2> DEFINE a == records[n - j]
             b == records[n - (j - 1)]
  <2>2. a <= Threshold /\ a - b <= 1 BY <2>1 DEF Continuous
  <2>3. /\ a > b \/ a > Threshold
        /\ a > awakeFor /\ b <= awakeFor => a - b > 1 \/ a > Threshold
    BY <2>1 DEF StableInv, RecordsApart, SleepLeavesGap
  <2>4. a \in 0..(Threshold + 1) /\ b \in 0..(Threshold + 1) BY <1>1, <2>1
  <2> HIDE DEF a, b, n
  <2>5. a > b /\ (b <= awakeFor => a <= awakeFor) BY <1>0, <2>2, <2>3, <2>4
  <2> QED BY <2>1, <2>5 DEF a, b
<1> DEFINE Since(j) == records[n - j] <= awakeFor /\ records[n - j] > j
           T == {j \in 0..(k - 1) : ~Since(j)}
<1>4. T = {}
  <2> SUFFICES ASSUME T # {} PROVE FALSE
    OBVIOUS
  <2>1. T \subseteq Nat BY <1>0
  <2>2. PICK j \in T : \A i \in T : j <= i
    <3> HIDE DEF T
    <3> QED BY <2>1, LeastNumber
  <2>3. j \in 0..(k - 1) /\ ~Since(j) BY <2>2
  <2>4. Since(0)
    <3>1. n - 0 = n /\ 0 \in 0..(k - 1) BY <1>0
    <3>2. records[n] \in 0..(Threshold + 1) BY <1>1, <3>1
    <3> QED BY <1>0, <1>2, <3>1, <3>2
  <2>5. j \in 1..(k - 1) BY <1>0, <2>3, <2>4
  <2>6. j - 1 \in 0..(k - 1) /\ j - 1 < j BY <1>0, <2>5
  <2>7. j - 1 \notin T BY <1>0, <2>2, <2>3, <2>6
  <2>8. Since(j - 1) BY <2>6, <2>7
  <2>9. /\ records[n - j] > records[n - (j - 1)]
        /\ records[n - (j - 1)] <= awakeFor => records[n - j] <= awakeFor
    BY <1>3, <2>5
  <2>10. records[n - j] \in 0..(Threshold + 1) /\ records[n - (j - 1)] \in 0..(Threshold + 1)
    BY <1>1, <2>3, <2>6
  <2> DEFINE a == records[n - j]
             b == records[n - (j - 1)]
  <2>11. a > b /\ b > j - 1 /\ b <= awakeFor /\ a <= awakeFor BY <2>8, <2>9
  <2>12. ~(a <= awakeFor /\ a > j) BY <2>3
  <2>13. a \in Nat /\ b \in Nat BY <1>0, <2>10
  <2> HIDE DEF a, b, n, Since, T
  <2> QED BY <1>0, <2>5, <2>11, <2>12, <2>13
<1>5. Since(k - 1)
  <2>1. k - 1 \in 0..(k - 1) BY <1>0
  <2> QED BY <1>4, <2>1
<1>6. records[n - (k - 1)] \in Nat
  <2>1. k - 1 \in 0..(k - 1) BY <1>0
  <2> QED BY <1>0, <1>1, <2>1
<1> QED BY <1>0, <1>5, <1>6

\* A pass finds no loop missed only when the machine has been awake long enough.
LEMMA ChecksStable ==
    ASSUME TypeOK, StableInv, pass.who = "loop", ~MissedLoops
    PROVE  awakeFor >= minMaintainLoopCount
<1> DEFINE k == GetRecordsIn(Threshold)
<1>0. Len(records) \in Nat /\ awakeFor \in Nat /\ Threshold \in Nat /\ Threshold > 0
  BY CountType
<1>1. ~(k < minMaintainLoopCount) BY DEF MissedLoops
<1>2. loop.at # "sleep" BY DEF StableInv, LoopInPass
<1> HIDE DEF k
<1>3. CASE k = 0 BY <1>0, <1>1, <1>3 DEF minMaintainLoopCount
<1>4. CASE k # 0
  <2>1. k \in 1..Len(records) /\ Continuous(k, Threshold) /\ records[Len(records)] <= 1
    BY <1>4, CountedRecords, Zenon DEF k
  <2>2. awakeFor >= k BY <1>2, <2>1, CountedAwake
  <2> QED BY <1>0, <1>1, <2>1, <2>2 DEF minMaintainLoopCount
<1> QED BY <1>3, <1>4

\* The answer stays true until the machine sleeps, and sleep leaves its mark.
AnswerHolds ==
    /\ pass.at = "switch" /\ pass.who = "loop" /\ ~pass.ignore
    /\ ~pass.missed /\ ~pass.slept
    => awakeFor >= minMaintainLoopCount

LEMMA StepKeepsAnswer ==
    ASSUME TypeOK, StableInv, AnswerHolds, [Next]_vars
    PROVE  AnswerHolds'
<1> USE DEF ageVars, passVars
<1>0. minMaintainLoopCount' = minMaintainLoopCount BY DEF minMaintainLoopCount
<1>1. ASSUME NEW who, Return(who) PROVE AnswerHolds' BY <1>1 DEF Return, NoPass, AnswerHolds
<1>2. ASSUME NEW who \in Callers, PassReads(who) PROVE AnswerHolds'
  <2>1. Return(who) \/ pass'.at = "acts" BY <1>2 DEF PassReads
  <2> QED BY <1>1, <2>1 DEF AnswerHolds
<1>3. CASE PassStep
  <2>1. CASE PassChecks
    <3>1. /\ pass'.missed = (~pass.ignore /\ MissedLoops) /\ pass'.who = pass.who
          /\ pass'.ignore = pass.ignore
      BY <2>1, ChecksMove DEF TypeOK
    <3>2. awakeFor' = awakeFor BY <2>1 DEF PassChecks
    <3> SUFFICES ASSUME pass'.who = "loop", ~pass'.ignore, ~pass'.missed
                 PROVE  awakeFor' >= minMaintainLoopCount'
      BY Zenon DEF AnswerHolds
    <3>3. pass.who = "loop" /\ ~MissedLoops BY <3>1
    <3> QED BY <1>0, <3>2, <3>3, ChecksStable
  <2>2. CASE \E at \in {"notes", "assertion"}, b \in BOOLEAN : GoOn(at, b)
    <3>1. pass'.at \in {"notes", "assertion"} BY <2>2, GoOnMoves DEF TypeOK
    <3> QED BY <3>1 DEF AnswerHolds
  <2> QED BY <1>1, <1>3, <2>1, <2>2, PassGoesOnOrReturns
<1>4. CASE Tick
  <2>1. pass' = pass /\ pass.who = "none" BY <1>4 DEF Tick, Quiet
  <2> QED BY <2>1 DEF AnswerHolds
<1>5. CASE SystemWakes
  <2>1. pass'.at = pass.at /\ (pass.at = "switch" => pass'.slept)
    BY <1>5, WakesMove DEF TypeOK
  <2> QED BY <2>1 DEF AnswerHolds
<1>6. CASE \/ LoopBegins \/ LoopWaited \/ SetLimit \/ SetOption \/ CanSystemSleep
           \/ SystemWillSleep \/ CallbackStep \/ SystemSleeps
  <2>1. UNCHANGED <<awakeFor, pass>>
    BY <1>6 DEF LoopBegins, LoopWaited, SetLimit, SetOption, CanSystemSleep,
       SystemWillSleep, SystemSleeps, CallbackStep, CanSleepChecks, CanSleepDecides,
       CanSleepAnswers, WillSleepChecks, WillSleepDisables, WillSleepAcknowledges,
       HasPoweredOn, CallbackGoes
  <2> QED BY <1>0, <2>1 DEF AnswerHolds
<1>7. CASE UNCHANGED vars BY <1>0, <1>7 DEF vars, AnswerHolds
<1> QED BY <1>2, <1>3, <1>4, <1>5, <1>6, <1>7, Zenon DEF Next

\* Only one step of a pass takes it that charging is on when it was off.
LEMMA OnlyPassStarts ==
    ASSUME TypeOK, [Next]_vars, pass.who # "none", pass.at = "switch", ~pass.charging,
           pass'.charging
    PROVE  PassStarts
<1> USE DEF passVars
<1>1. ASSUME NEW who, Return(who) PROVE FALSE BY <1>1 DEF Return, NoPass
<1>2. ASSUME NEW at \in {"notes", "assertion"}, NEW b \in BOOLEAN, GoOn(at, b) PROVE b
  BY <1>2, GoOnMoves DEF TypeOK
<1>3. pass' # pass OBVIOUS
<1>4. ~(LoopBegins \/ LoopWaited) BY <1>3 DEF LoopBegins, LoopWaited
<1>5. ASSUME NEW who \in Callers PROVE ~PassReads(who) BY DEF PassReads
<1>6. ~(SetLimit \/ SetOption \/ CanSystemSleep \/ SystemWillSleep \/ CallbackStep
        \/ SystemSleeps \/ Tick)
  BY <1>3 DEF SetLimit, SetOption, CanSystemSleep, SystemWillSleep, SystemSleeps,
     CallbackStep, CanSleepChecks, CanSleepDecides, CanSleepAnswers, WillSleepChecks,
     WillSleepDisables, WillSleepAcknowledges, HasPoweredOn, CallbackGoes, Tick
<1>7. ~UNCHANGED vars BY <1>3 DEF vars
<1>8. ~SystemWakes BY WakesMove DEF TypeOK
<1>9. PassStep BY <1>4, <1>5, <1>6, <1>7, <1>8, Zenon DEF Next
<1>10. ~PassNoMaintain /\ ~PassChecks BY DEF PassNoMaintain, PassChecks
<1>11. ~PassStops BY DEF PassStops
<1>12. ~PassWaits
  <2> SUFFICES ASSUME PassWaits PROVE FALSE
    OBVIOUS
  <2>1. Return(pass.who) BY Zenon DEF PassWaits
  <2> QED BY <1>1, <2>1
<1>13. ~PassKeeps
  <2> SUFFICES ASSUME PassKeeps PROVE FALSE
    OBVIOUS
  <2>1. GoOn("assertion", pass.charging) BY Zenon DEF PassKeeps
  <2>2. pass.charging \in BOOLEAN BY DEF TypeOK, PassStates
  <2> QED BY <1>2, <2>1, <2>2
<1>14. ~PassNotes /\ ~PassAssertion BY DEF PassNotes, PassAssertion
<1> QED BY <1>9, <1>10, <1>11, <1>12, <1>13, <1>14, Zenon DEF PassStep

\* A pass of the loop that heeds missed loops enables charging only on a machine that
\* has been awake for as many intervals as loops must have run, wherever sleep fell but
\* between its look for missed loops and its write (loop.go:293, 341).
THEOREM EnabledWhenStable == Spec => EnablesOnlyWhenStable
<1> DEFINE A == /\ pass.at = "switch" /\ ~pass.ignore /\ pass.who = "loop"
                /\ ~pass.charging /\ pass'.charging
                => awakeFor >= minMaintainLoopCount \/ pass.slept
<1>1. TypeOK /\ AnswerHolds /\ [Next]_vars => [A]_vars
  <2> SUFFICES ASSUME TypeOK, AnswerHolds, [Next]_vars,
                      pass.at = "switch", ~pass.ignore, pass.who = "loop",
                      ~pass.charging, pass'.charging
               PROVE  awakeFor >= minMaintainLoopCount \/ pass.slept
    BY Zenon
  <2>1. PassStarts BY OnlyPassStarts
  <2>2. ~pass.missed BY <2>1, Zenon DEF PassStarts
  <2> QED BY <2>2 DEF AnswerHolds
<1>2. Init => AnswerHolds BY DEF Init, NoPass, AnswerHolds
<1>3. TypeOK /\ StableInv /\ AnswerHolds /\ [Next]_vars => AnswerHolds' BY StepKeepsAnswer
<1>4. IInv => TypeOK BY DEF IInv
<1> HIDE DEF A
<1>5. Spec => [][A]_vars BY <1>1, <1>2, <1>3, <1>4, InvHolds, StableHolds, PTL DEF Spec
<1> QED BY <1>5 DEF A, EnablesOnlyWhenStable

-----------------------------------------------------------------------------
(* What the callback decides on, with obedient hardware *)

PassPlace == (pass.who = "none") <=> (pass.at = "none")

\* A request's pass ends before another request starts, so the limit it has read is
\* the limit there is; so is any other pass's, unless a request is about to run one.
LimitRead ==
    /\ pass.who = "request" => asked
    /\ pass.who = "request" \/ (pass.who # "none" /\ ~asked) => pass.limited = conf["limited"]

\* What a pass knows of the switch, which only the will-sleep callback turns off
\* meanwhile, and what it has noted.
PassKnows ==
    /\ pass.at \in {"acts", "switch", "notes"} /\ charging => pass.charging
    /\ pass.at \in {"acts", "switch"} => inProgress = (pass.charging /\ plugged)
    /\ pass.at = "assertion" /\ charging /\ plugged => inProgress

\* Between passes, after the callback's own.
DecisionKnown ==
    callback = "decide" /\ pass.who = "none" /\ ~asked /\ charging /\ plugged /\ conf["limited"]
    => inProgress

DecideInv == PassPlace /\ LimitRead /\ PassKnows /\ DecisionKnown

\* Steps outside of passes: they can only disable charging.
LEMMA NoPassKnown ==
    ASSUME DecideInv, UNCHANGED <<pass, inProgress, plugged, asked>>,
           conf'["limited"] = conf["limited"], charging' => charging,
           callback' = "decide" => callback = "decide"
    PROVE  DecideInv'
BY DEF DecideInv, PassPlace, LimitRead, PassKnows, DecisionKnown

\* A pass ends and leaves what it knows.
LEMMA ReturnKnown ==
    ASSUME DecideInv, pass.who # "none", Return(pass.who), UNCHANGED <<plugged, conf>>,
           pass.limited /\ charging' /\ plugged => inProgress'
    PROVE  DecideInv'
<1>1. pass'.who = "none" /\ pass'.at = "none" BY DEF Return, NoPass
<1>2. asked' = (asked /\ pass.who # "request") BY Zenon DEF Return
<1>3. ~asked' => pass.limited = conf["limited"] BY <1>2 DEF DecideInv, LimitRead
<1>4. PassPlace' /\ LimitRead' /\ PassKnows' BY <1>1 DEF PassPlace, LimitRead, PassKnows
<1>5. DecisionKnown' BY <1>3 DEF DecisionKnown
<1> QED BY <1>4, <1>5 DEF DecideInv

LEMMA GoOnKnown ==
    ASSUME TypeOK, DecideInv, pass.who # "none", NEW at \in {"notes", "assertion"},
           NEW b \in BOOLEAN, GoOn(at, b), UNCHANGED <<plugged, conf>>,
           at = "notes" /\ charging' => b,
           at = "assertion" /\ charging' /\ plugged => inProgress'
    PROVE  DecideInv'
<1>1. /\ pass'.who = pass.who /\ pass'.at = at /\ pass'.charging = b
      /\ pass'.limited = pass.limited
  BY GoOnMoves DEF TypeOK
<1>2. asked' = asked BY DEF GoOn
<1>3. PassPlace' /\ DecisionKnown' BY <1>1 DEF PassPlace, DecisionKnown
<1>4. LimitRead' BY <1>1, <1>2 DEF DecideInv, LimitRead
<1>5. PassKnows' BY <1>1 DEF PassKnows
<1> QED BY <1>3, <1>4, <1>5 DEF DecideInv

LEMMA PassStepKnown ==
    ASSUME HardwareOutcomes = {TRUE}, TypeOK, DecideInv, PassStep
    PROVE  DecideInv'
<1> USE DEF macVars, historyVars
<1>0. /\ pass.at # "none" => pass.who # "none"
      /\ pass.charging \in BOOLEAN /\ charging \in BOOLEAN
      /\ pass.at \in {"acts", "switch", "notes"} /\ charging => pass.charging
      /\ pass.at \in {"acts", "switch"} => inProgress = (pass.charging /\ plugged)
      /\ pass.at = "assertion" /\ charging /\ plugged => inProgress
  BY DEF DecideInv, PassPlace, PassKnows, TypeOK, PassStates
<1>1. CASE PassNoMaintain
  <2>1. /\ pass.at = "acts" /\ ~pass.limited /\ Return(pass.who)
        /\ UNCHANGED <<plugged, conf>>
    BY <1>1, Zenon DEF PassNoMaintain
  <2> QED BY <1>0, <2>1, ReturnKnown
<1>2. CASE PassStops
  <2>1. /\ pass.at = "switch" /\ charging' = FALSE /\ GoOn("notes", FALSE)
        /\ UNCHANGED <<plugged, conf>>
    BY <1>2 DEF PassStops, SetCharging
  <2> QED BY <1>0, <2>1, GoOnKnown
<1>3. CASE PassStarts
  <2>1. pass.at = "switch" /\ GoOn("notes", TRUE) /\ UNCHANGED <<plugged, conf>>
    BY <1>3 DEF PassStarts
  <2> QED BY <1>0, <2>1, GoOnKnown
<1>4. CASE PassWaits
  <2>1. /\ pass.at = "switch" /\ ~pass.charging /\ Return(pass.who)
        /\ UNCHANGED <<plugged, conf, charging>>
    BY <1>4, Zenon DEF PassWaits
  <2> QED BY <1>0, <2>1, ReturnKnown
<1>5. CASE PassKeeps
  <2>1. /\ pass.at = "switch" /\ GoOn("assertion", pass.charging)
        /\ UNCHANGED <<plugged, conf, charging, inProgress>>
    BY <1>5, Zenon DEF PassKeeps
  <2> QED BY <1>0, <2>1, GoOnKnown
<1>6. CASE PassNotes
  <2>1. /\ pass.at = "notes" /\ inProgress' = pass.charging
        /\ UNCHANGED <<plugged, conf, charging>>
    BY <1>6, Zenon DEF PassNotes
  <2>2. CASE pass.level = "low" /\ ~pass.charging
    <3>1. Return(pass.who) BY <1>6, <2>2 DEF PassNotes
    <3> QED BY <1>0, <2>1, <2>2, <3>1, ReturnKnown
  <2>3. CASE ~(pass.level = "low" /\ ~pass.charging)
    <3>1. GoOn("assertion", pass.charging) BY <1>6, <2>3 DEF PassNotes
    <3> QED BY <1>0, <2>1, <3>1, GoOnKnown
  <2> QED BY <2>2, <2>3
<1>7. CASE PassAssertion
  <2>1. /\ pass.at = "assertion" /\ Return(pass.who)
        /\ UNCHANGED <<plugged, conf, charging, inProgress>>
    BY <1>7, Zenon DEF PassAssertion
  <2> QED BY <1>0, <2>1, ReturnKnown
<1>8. CASE PassChecks
  <2>1. /\ pass.at = "acts" /\ UNCHANGED <<plugged, conf, charging, inProgress, asked>>
    BY <1>8 DEF PassChecks
  <2>2. /\ pass'.at = "switch" /\ pass'.charging = pass.charging /\ pass'.who = pass.who
        /\ pass'.limited = pass.limited
    BY <1>8, ChecksMove DEF TypeOK
  <2>3. pass.who # "none" BY <1>0, <2>1
  <2> QED
    BY <2>1, <2>2, <2>3 DEF DecideInv, PassPlace, LimitRead, PassKnows, DecisionKnown
<1> QED BY <1>1, <1>2, <1>3, <1>4, <1>5, <1>6, <1>7, <1>8 DEF PassStep

LEMMA PassReadsKnown ==
    ASSUME HardwareOutcomes = {TRUE}, TypeOK, DecideInv, NEW who \in Callers, PassReads(who)
    PROVE  DecideInv'
<1>1. /\ pass' = [who |-> who, at |-> "acts", ignore |-> Ignores(who),
                  waited |-> who = "loop" /\ loop.waited,
                  limited |-> conf["limited"], charging |-> charging,
                  level |-> level, missed |-> FALSE, slept |-> FALSE]
      /\ inProgress' = (charging /\ plugged)
      /\ UNCHANGED <<asked, charging, conf, plugged>>
  <2> HIDE DEF Ignores
  <2> QED BY DEF PassReads, macVars
<1>2. /\ pass'.who = who /\ pass'.at = "acts" /\ pass'.limited = conf["limited"]
      /\ pass'.charging = charging
  <2> HIDE DEF Ignores
  <2> QED BY <1>1
<1>3. who = "request" => asked BY DEF PassReads, Wants
<1>4. who # "none" BY DEF Callers
<1> QED
  BY <1>1, <1>2, <1>3, <1>4 DEF DecideInv, PassPlace, LimitRead, PassKnows, DecisionKnown

LEMMA StepKnown ==
    ASSUME HardwareOutcomes = {TRUE}
    PROVE  TypeOK /\ DecideInv /\ [Next]_vars => DecideInv'
<1> SUFFICES ASSUME TypeOK, DecideInv, [Next]_vars PROVE DecideInv'
  OBVIOUS
<1> USE DEF macVars, passVars
<1>1. CASE LoopBegins \/ LoopWaited \/ Tick \/ SystemSleeps
  <2>1. UNCHANGED <<pass, inProgress, plugged, asked, conf, charging, callback>>
    BY <1>1 DEF LoopBegins, LoopWaited, Tick, SystemSleeps
  <2> QED BY <2>1, NoPassKnown
<1>2. CASE SystemWakes
  <2>1. UNCHANGED <<inProgress, plugged, asked, conf, charging, callback>>
    BY <1>2 DEF SystemWakes
  <2>2. /\ pass'.at = pass.at /\ pass'.charging = pass.charging /\ pass'.who = pass.who
        /\ pass'.limited = pass.limited
    BY <1>2, WakesMove DEF TypeOK
  <2> QED BY <2>1, <2>2 DEF DecideInv, PassPlace, LimitRead, PassKnows, DecisionKnown
<1>3. ASSUME NEW who \in Callers, PassReads(who) PROVE DecideInv' BY <1>3, PassReadsKnown
<1>4. CASE PassStep BY <1>4, PassStepKnown
<1>5. CASE SetLimit
  <2>1. ~asked /\ asked' /\ UNCHANGED <<pass, inProgress, plugged, charging>>
    BY <1>5 DEF SetLimit
  <2>2. pass.who # "request" BY <2>1 DEF DecideInv, LimitRead
  <2> QED
    BY <2>1, <2>2 DEF DecideInv, PassPlace, LimitRead, PassKnows, DecisionKnown
<1>6. CASE SetOption
  <2>1. conf'["limited"] = conf["limited"]
    BY <1>6 DEF SetOption, Options, TypeOK
  <2>2. UNCHANGED <<pass, inProgress, plugged, asked, charging, callback>>
    BY <1>6 DEF SetOption
  <2> QED BY <2>1, <2>2, NoPassKnown
<1>7. CASE CanSystemSleep \/ SystemWillSleep \/ CallbackStep
  <2>1. UNCHANGED <<pass, inProgress, plugged, asked, conf>>
    BY <1>7 DEF CanSystemSleep, SystemWillSleep, CallbackStep, CanSleepChecks,
       CanSleepDecides, CanSleepAnswers, WillSleepChecks, WillSleepDisables,
       WillSleepAcknowledges, HasPoweredOn, CallbackGoes
  <2>2. callback' # "decide"
    BY <1>7 DEF CanSystemSleep, SystemWillSleep, CallbackStep, CanSleepChecks,
       CanSleepDecides, CanSleepAnswers, WillSleepChecks, WillSleepDisables,
       WillSleepAcknowledges, HasPoweredOn, CallbackGoes
  <2>3. charging' => charging
    BY <1>7 DEF CanSystemSleep, SystemWillSleep, CallbackStep, CanSleepChecks,
       CanSleepDecides, CanSleepAnswers, WillSleepChecks, WillSleepDisables,
       WillSleepAcknowledges, HasPoweredOn, CallbackGoes
  <2> QED BY <2>1, <2>2, <2>3, NoPassKnown
<1>8. CASE UNCHANGED vars BY <1>8, NoPassKnown DEF vars
<1> QED BY <1>1, <1>2, <1>3, <1>4, <1>5, <1>6, <1>7, <1>8, Zenon DEF Next

LEMMA InitKnown == Init => DecideInv
BY DEF Init, NoPass, DecideInv, PassPlace, LimitRead, PassKnows, DecisionKnown

\* Only the callback's decision allows idle sleep, on what the passes have noted.
LEMMA OnlyDecisionAllows ==
    ASSUME TypeOK, [Next]_vars, callback = "decide", callback' = "allow"
    PROVE  ~inProgress
<1> USE DEF macVars, passVars
<1>1. ASSUME NEW who, Return(who) PROVE FALSE BY <1>1 DEF Return
<1>2. ASSUME NEW at, NEW b, GoOn(at, b) PROVE FALSE BY <1>2 DEF GoOn
<1>3. ~PassStep
  <2>1. ~PassChecks BY DEF PassChecks
  <2> QED BY <1>1, <1>2, <2>1, PassGoesOnOrReturns
<1>4. ASSUME NEW who \in Callers PROVE ~PassReads(who) BY <1>1 DEF PassReads
<1>5. ~(LoopBegins \/ LoopWaited \/ SetLimit \/ SetOption \/ CanSystemSleep
        \/ SystemWillSleep \/ Tick \/ SystemSleeps \/ SystemWakes)
  BY DEF LoopBegins, LoopWaited, SetLimit, SetOption, CanSystemSleep, SystemWillSleep, Tick,
     SystemSleeps, SystemWakes, CallbackGoes
<1>6. ~UNCHANGED vars BY DEF vars
<1>7. CallbackStep BY <1>3, <1>4, <1>5, <1>6, Zenon DEF Next
<1>8. CanSleepDecides
  BY <1>7 DEF CallbackStep, CanSleepChecks, CanSleepAnswers, WillSleepChecks,
     WillSleepDisables, WillSleepAcknowledges, HasPoweredOn
<1> QED BY <1>8 DEF CanSleepDecides, CallbackGoes

\* While SMC calls succeed, idle sleep is not allowed in a charging session, although
\* the callback reads what its pass has found without the lock (sleepcallback.go:62-72).
THEOREM IdleSleepWaits ==
    ASSUME HardwareOutcomes = {TRUE}
    PROVE  Spec => IdleSleepDenied
<1> DEFINE A == callback = "decide" /\ callback' = "allow"
                => ~(charging /\ plugged /\ conf["limited"]) \/ pass.who # "none" \/ asked
<1>1. TypeOK /\ DecideInv /\ [Next]_vars => [A]_vars
  <2> SUFFICES ASSUME TypeOK, DecideInv, [Next]_vars, callback = "decide",
                      callback' = "allow"
               PROVE  ~(charging /\ plugged /\ conf["limited"]) \/ pass.who # "none" \/ asked
    BY Zenon
  <2>1. ~inProgress BY OnlyDecisionAllows
  <2> QED BY <2>1 DEF DecideInv, DecisionKnown
<1>2. IInv => TypeOK BY DEF IInv
<1>3. TypeOK /\ DecideInv /\ [Next]_vars => DecideInv' BY StepKnown
<1> HIDE DEF A
<1>4. Spec => [][A]_vars BY <1>1, <1>2, <1>3, InvHolds, InitKnown, PTL DEF Spec
<1> QED BY <1>4 DEF A, IdleSleepDenied
=============================================================================
