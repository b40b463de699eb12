------------------------ MODULE ChargeControlProofs ------------------------
(***************************************************************************)
(* Theorems about ChargeControl, for every set of limits, deltas, charges, *)
(* durations, requests and failures the assumption of that module allows,  *)
(* and where a theorem says so only for those that fail less.              *)
(*                                                                         *)
(* In order: what the operators return and keep; type correctness; the     *)
(* transition lock against the session (CheckedConflictsStay); the sleep   *)
(* assertion; who cuts the power; which steps start the timers; the        *)
(* deadline that is saved before the cut; which steps move the limits; the *)
(* session that is on disk; what brings the power back.                    *)
(***************************************************************************)
EXTENDS ChargeControl, TLAPS

USE DEF limits, session, machine, mainLoop, locks, world

-----------------------------------------------------------------------------
(* What the shared operators return.                                       *)

(* Writing one field of the configuration keeps its type.                  *)

LEMMA SetLimitType ==
    ASSUME NEW c \in Conf, NEW l \in 0..100
    PROVE  [c EXCEPT !.limit = l] \in Conf
BY DEF Conf

LEMMA SetDeltaType ==
    ASSUME NEW c \in Conf, NEW d \in 1..100
    PROVE  [c EXCEPT !.delta = d] \in Conf
BY DEF Conf

LEMMA SetDisableUntilType ==
    ASSUME NEW c \in Conf, NEW t \in Nat
    PROVE  [c EXCEPT !.disableUntil = t] \in Conf
BY DEF Conf

LEMMA SetPreDisableLimitType ==
    ASSUME NEW c \in Conf, NEW l \in 0..100
    PROVE  [c EXCEPT !.preDisableLimit = l] \in Conf
BY DEF Conf

LEMMA SetAdapterDisableUntilType ==
    ASSUME NEW c \in Conf, NEW t \in Nat
    PROVE  [c EXCEPT !.adapterDisableUntil = t] \in Conf
BY DEF Conf

LEMMA SetWantedType ==
    ASSUME NEW c \in Conf, NEW l \in 0..100
    PROVE  [c EXCEPT !.wanted = l] \in Conf
BY DEF Conf

LEMMA BlankType ==
    ASSUME NEW c \in Conf
    PROVE  Blank(c) \in Conf
<1>1. /\ 80 \in 0..100 /\ 2 \in 1..100 /\ 0 \in Nat /\ 0 \in 0..100
    OBVIOUS
<1> QED
    BY <1>1, SetLimitType, SetDeltaType, SetDisableUntilType,
       SetPreDisableLimitType, SetAdapterDisableUntilType, Zenon DEF Blank

LEMMA SavedType ==
    ASSUME file \in Conf, NEW c \in Conf, NEW outcome, Saved(c, outcome)
    PROVE  file' \in Conf
BY BlankType DEF Saved

LEMMA ClearDisableTimerType ==
    ASSUME NEW c \in Conf
    PROVE  ClearDisableTimer(c) \in Conf
<1>1. 0 \in Nat /\ 0 \in 0..100
    OBVIOUS
<1> QED BY <1>1, SetDisableUntilType, SetPreDisableLimitType, Zenon
        DEF ClearDisableTimer

LEMMA ClearAdapterDisableTimerType ==
    ASSUME NEW c \in Conf
    PROVE  ClearAdapterDisableTimer(c) \in Conf
BY SetAdapterDisableUntilType DEF ClearAdapterDisableTimer

LEMMA PersistType ==
    ASSUME calFile \in Calibration, daemon \in Life, NEW st \in Calibration,
           Persist(st)
    PROVE  calFile' \in Calibration /\ daemon' \in Life
BY DEF Persist, Life

LEMMA WrittenType ==
    ASSUME NEW old \in BOOLEAN, NEW new \in BOOLEAN
    PROVE  Written(old, new) \subseteq BOOLEAN
BY DEF Written

LEMMA RestoredLimitsType ==
    ASSUME NEW c \in Conf, NEW st \in Calibration, ~RestorePanics(c, st)
    PROVE  RestoredLimits(c, st) \in Conf
<1> DEFINE raised == [c EXCEPT !.limit = st.upper]
<1>1. st.upper \in 0..100 /\ st.lower \in Int
    BY DEF Calibration
<1>2. raised \in Conf
    BY <1>1, SetLimitType
<1>3. CanSetLowerLimit(raised, st.lower)
    BY Zenon DEF RestorePanics
<1> HIDE DEF raised
<1>4. raised.limit - st.lower \in 1..100
    BY <1>1, <1>2, <1>3 DEF CanSetLowerLimit, Conf
<1>5. [raised EXCEPT !.delta = raised.limit - st.lower] \in Conf
    BY <1>2, <1>4, SetDeltaType
<1> QED BY <1>5 DEF RestoredLimits, SetLowerLimit, raised

LEMMA FirmwareResultsType ==
    ASSUME hw \in Hardware, NEW limit \in 0..100
    PROVE  FirmwareResults(limit) \subseteq 0..100
<1>1. hw.limit \in 0..100 /\ 0 \in 0..100
    BY DEF Hardware
<1>2. FirmwareResults(limit) \subseteq {limit, hw.limit, 0}
    BY Zenon DEF FirmwareResults
<1> QED BY <1>1, <1>2

LEMMA RecoveredType ==
    ASSUME NEW st \in Calibration
    PROVE  Recovered(st) \in Calibration
BY DEF Recovered, Calibration

LEMMA NoCalibrationType == NoCalibration \in Calibration
BY DEF NoCalibration, Calibration, Phase

LEMMA EnteringType ==
    ASSUME cal \in Calibration, NEW phase \in Phase
    PROVE  Entering(phase) \in Calibration
BY DEF Entering, Calibration

LEMMA AdvanceType ==
    ASSUME TypeOK, NEW st \in Calibration, Advance(st)
    PROVE  /\ cal' \in Calibration /\ calFile' \in Calibration
           /\ daemon' \in Life /\ awake' \in BOOLEAN
BY PersistType DEF Advance, TypeOK

LEMMA RestoreHardwareType ==
    ASSUME hw \in Hardware, NEW st \in Calibration, RestoreHardware(st)
    PROVE  hw' \in Hardware
<1>1. RestoredCharging(st) \subseteq BOOLEAN
    BY WrittenType DEF RestoredCharging, Hardware, Calibration
<1>2. RestoredFirmware(st) \subseteq 0..100
    BY FirmwareResultsType DEF RestoredFirmware, Hardware, Calibration
<1>3. Written(hw.adapter, st.adapterOn) \subseteq BOOLEAN
    BY WrittenType DEF Hardware, Calibration
<1> QED BY <1>1, <1>2, <1>3 DEF RestoreHardware, Hardware

-----------------------------------------------------------------------------
(* What the writes to the configuration leave as it was.                   *)

LEMMA NoTxnOp == NoTxn.op = "none"
BY DEF NoTxn

SameLimits(c, d) ==
    /\ c.limit = d.limit /\ c.wanted = d.wanted
    /\ c.disableUntil = d.disableUntil /\ c.preDisableLimit = d.preDisableLimit

\* The other fields the service sees.
LEMMA LimitWritten ==
    ASSUME NEW c \in Conf, NEW l \in 0..100, NEW d, d = [c EXCEPT !.limit = l]
    PROVE  /\ d \in Conf /\ d.limit = l /\ d.wanted = c.wanted
           /\ d.disableUntil = c.disableUntil /\ d.preDisableLimit = c.preDisableLimit
           /\ d.adapterDisableUntil = c.adapterDisableUntil
BY DEF Conf

LEMMA WantedWritten ==
    ASSUME NEW c \in Conf, NEW l \in 0..100, NEW d, d = [c EXCEPT !.wanted = l]
    PROVE  /\ d \in Conf /\ d.limit = c.limit /\ d.wanted = l
           /\ d.disableUntil = c.disableUntil /\ d.preDisableLimit = c.preDisableLimit
           /\ d.adapterDisableUntil = c.adapterDisableUntil
BY DEF Conf

LEMMA DeltaWritten ==
    ASSUME NEW c \in Conf, NEW l \in 1..100, NEW d, d = [c EXCEPT !.delta = l]
    PROVE  /\ d \in Conf /\ SameLimits(d, c)
           /\ d.adapterDisableUntil = c.adapterDisableUntil
BY DEF Conf, SameLimits

LEMMA AdapterTimerWritten ==
    ASSUME NEW c \in Conf, NEW t \in Nat, NEW d, d = [c EXCEPT !.adapterDisableUntil = t]
    PROVE  /\ d \in Conf /\ SameLimits(d, c) /\ d.adapterDisableUntil = t
BY DEF Conf, SameLimits

LEMMA DisableTimerCleared ==
    ASSUME NEW c \in Conf, NEW d, d = ClearDisableTimer(c)
    PROVE  /\ d \in Conf /\ d.limit = c.limit /\ d.wanted = c.wanted
           /\ d.disableUntil = 0 /\ d.preDisableLimit = 0
           /\ d.adapterDisableUntil = c.adapterDisableUntil
<1> DEFINE zero == 0
<1>1. zero \in Nat /\ zero \in 0..100 OBVIOUS
<1>2. d = [c EXCEPT !.disableUntil = zero, !.preDisableLimit = zero]
  BY Zenon DEF ClearDisableTimer
<1>3. zero = 0 OBVIOUS
<1> HIDE DEF zero
<1>4. /\ d \in Conf /\ d.limit = c.limit /\ d.wanted = c.wanted
      /\ d.disableUntil = zero /\ d.preDisableLimit = zero
      /\ d.adapterDisableUntil = c.adapterDisableUntil
  BY <1>1, <1>2 DEF Conf
<1> QED BY <1>3, <1>4

LEMMA AdapterTimerCleared ==
    ASSUME NEW c \in Conf, NEW d, d = ClearAdapterDisableTimer(c)
    PROVE  d \in Conf /\ SameLimits(d, c) /\ d.adapterDisableUntil = 0
BY AdapterTimerWritten DEF ClearAdapterDisableTimer

LEMMA LimitsRestored ==
    ASSUME NEW c \in Conf, NEW st \in Calibration, ~RestorePanics(c, st),
           NEW d, d = RestoredLimits(c, st)
    PROVE  /\ d.limit = st.upper /\ d.wanted = c.wanted
           /\ d.disableUntil = c.disableUntil /\ d.preDisableLimit = c.preDisableLimit
           /\ d.adapterDisableUntil = c.adapterDisableUntil
<1> DEFINE raised == [c EXCEPT !.limit = st.upper]
<1>1. st.upper \in 0..100 /\ st.lower \in Int BY DEF Calibration
<1>2. /\ raised \in Conf /\ raised.limit = st.upper /\ raised.wanted = c.wanted
      /\ raised.disableUntil = c.disableUntil
      /\ raised.preDisableLimit = c.preDisableLimit
      /\ raised.adapterDisableUntil = c.adapterDisableUntil
  BY <1>1, LimitWritten
<1>3. CanSetLowerLimit(raised, st.lower) BY Zenon DEF RestorePanics
<1> DEFINE delta == raised.limit - st.lower
<1>4. d = [raised EXCEPT !.delta = delta]
  BY DEF RestoredLimits, SetLowerLimit
<1> HIDE DEF raised
<1>5. /\ raised.limit \in 0..100 /\ st.lower \in Int
      /\ st.lower >= 0 /\ st.lower < raised.limit
  BY <1>1, <1>2, <1>3 DEF CanSetLowerLimit
<1>6. delta \in 1..100 BY <1>5
<1> HIDE DEF delta
<1>7. SameLimits(d, raised) /\ d.adapterDisableUntil = raised.adapterDisableUntil
  BY <1>2, <1>4, <1>6, DeltaWritten
<1> QED BY <1>2, <1>7 DEF SameLimits

-----------------------------------------------------------------------------
(* Type correctness, group by group.                                       *)

\* The transactions that carry no number.
LEMMA TxnType ==
    /\ NoTxn \in Transaction
    /\ \A op \in {"pass", "adapterSave", "adapterCut", "restore", "adapterClear"} :
          [op |-> op, arg |-> 0] \in Transaction
BY DEF NoTxn, Transaction

LEMMA NoPassType == NoPass \in MaintainPass
BY DEF NoPass, MaintainPass

LEMMA PlaceTypes ==
    /\ "sleep" \in LoopPlace /\ "restore" \in LoopPlace /\ "forced" \in LoopPlace
    /\ "adapter" \in LoopPlace /\ "maintain" \in LoopPlace
    /\ "up" \in Life /\ "stopping" \in Life /\ "reset" \in Life
    /\ "down" \in Life /\ "panicked" \in Life
BY DEF LoopPlace, Life

LEMMA TypeInit == Init => TypeOK
<1> SUFFICES ASSUME Init PROVE TypeOK
    OBVIOUS
<1>1. file \in Conf
  <2>1. PICK l \in Limits : file = FreshFile(l)
      BY DEF Init
  <2> QED BY <2>1, ChargeControlAssumption DEF FreshFile, Conf
<1>2. conf \in Conf
    BY <1>1 DEF Init
<1>3. hw \in Hardware
    BY DEF Init, Hardware
<1>4. /\ cal \in Calibration /\ calFile \in Calibration
      /\ txn \in Transaction /\ pass \in MaintainPass
    BY NoCalibrationType, TxnType, NoPassType DEF Init
<1>5. /\ awake \in BOOLEAN /\ owed \in BOOLEAN /\ adapterWanted \in BOOLEAN
      /\ loopNow \in Nat /\ now \in Nat
      /\ daemon \in Life /\ loop \in LoopPlace
    BY PlaceTypes DEF Init
<1> QED BY <1>1, <1>2, <1>3, <1>4, <1>5 DEF TypeOK

\* What both Start and the end of a process leave in memory.
LEMMA FreshType ==
    ASSUME TypeOK, conf' = file, cal' = Recovered(calFile),
           loop' = "sleep", loopNow' = 0,
           txn' = NoTxn, pass' = NoPass, owed' = FALSE
    PROVE  /\ conf' \in Conf /\ cal' \in Calibration
           /\ loop' \in LoopPlace /\ loopNow' \in Nat
           /\ txn' \in Transaction /\ pass' \in MaintainPass /\ owed' \in BOOLEAN
<1>1. cal' \in Calibration
    BY RecoveredType DEF TypeOK
<1> QED BY <1>1, TxnType, NoPassType, PlaceTypes DEF TypeOK

LEMMA LifecycleType ==
    ASSUME TypeOK, Lifecycle
    PROVE  TypeOK'
<1>1. CASE Start
  <2>1. awake' \in BOOLEAN
      BY <1>1, Zenon DEF Start
  <2> QED BY <1>1, <2>1, FreshType, PlaceTypes DEF Start, TypeOK
<1>2. CASE Crash
    BY <1>2, FreshType, PlaceTypes DEF Crash, Forget, TypeOK
<1>3. CASE Shutdown
    BY <1>3, PlaceTypes DEF Shutdown, TypeOK
<1>4. CASE ResetChargeControl
  <2>1. hw' \in Hardware
    <3>1. CASE Mode = "Legacy"
        BY <1>4, <3>1, ChargeControlAssumption
        DEF ResetChargeControl, TypeOK, Hardware
    <3>2. CASE Mode = "Firmware"
        BY <1>4, <3>2, FirmwareResultsType DEF ResetChargeControl, TypeOK, Hardware
    <3> QED BY <3>1, <3>2, ChargeControlAssumption
  <2> QED BY <1>4, <2>1, PlaceTypes DEF ResetChargeControl, TypeOK
<1>5. CASE Exit
  <2>1. hw' \in Hardware
      BY <1>5, ChargeControlAssumption DEF Exit, TypeOK, Hardware
  <2> QED BY <1>5, <2>1, FreshType, PlaceTypes DEF Exit, Forget, TypeOK
<1>6. CASE Reload
    BY <1>6 DEF Reload, TypeOK
<1> QED BY <1>1, <1>2, <1>3, <1>4, <1>5, <1>6 DEF Lifecycle

LEMMA LimitRequestType ==
    ASSUME TypeOK, LimitRequest
    PROVE  TypeOK'
<1>1. ASSUME NEW l \in Limits, SetLimitCheck(l)
      PROVE  TypeOK'
  <2>1. txn' \in Transaction
      BY <1>1, ChargeControlAssumption DEF SetLimitCheck, Transaction
  <2> QED BY <1>1, <2>1 DEF SetLimitCheck, TypeOK
<1>2. CASE SetLimitCommit
  <2>1. txn' \in Transaction
    <3>1. txn' = NoTxn \/ txn' = [op |-> "pass", arg |-> 0]
        BY <1>2, Zenon DEF SetLimitCommit
    <3> QED BY <3>1, TxnType
  <2>2. conf' \in Conf /\ file' \in Conf
    <3>1. CASE ~CanSetUpperLimit(conf, txn.arg)
        BY <1>2, <3>1 DEF SetLimitCommit, TypeOK
    <3>2. CASE CanSetUpperLimit(conf, txn.arg)
      <4>1. txn.arg \in 0..100
          BY DEF TypeOK, Transaction
      <4> DEFINE raised == [conf EXCEPT !.limit = txn.arg]
      <4>2. [raised EXCEPT !.wanted = txn.arg] \in Conf
          BY <4>1, SetLimitType, SetWantedType, Zenon DEF TypeOK
      <4>3. conf' = ClearDisableTimer([raised EXCEPT !.wanted = txn.arg])
          BY <1>2, <3>2, Zenon DEF SetLimitCommit
      <4>4. conf' \in Conf
          BY <4>2, <4>3, ClearDisableTimerType, Zenon
      <4>5. PICK outcome \in SaveOutcomes : Saved(conf', outcome)
          BY <1>2, <3>2, Zenon DEF SetLimitCommit
      <4> QED BY <4>4, <4>5, SavedType DEF TypeOK
    <3> QED BY <3>1, <3>2
  <2> QED BY <1>2, <2>1, <2>2 DEF SetLimitCommit, TypeOK
<1>3. CASE SetDisableForCheck
  <2>1. resolveDisableLimit \in 0..100
      BY DEF resolveDisableLimit, TypeOK, Conf
  <2>2. txn' \in Transaction
      BY <1>3, <2>1 DEF SetDisableForCheck, Transaction
  <2> QED BY <1>3, <2>2 DEF SetDisableForCheck, TypeOK
<1>4. ASSUME NEW d \in Durations, SetDisableForCommit(d)
      PROVE  TypeOK'
  <2>1. conf' \in Conf
    <3>1. 100 \in 0..100 /\ now + d \in Nat /\ txn.arg \in 0..100
        BY ChargeControlAssumption DEF TypeOK, Transaction
    <3>2. conf' = [conf EXCEPT !.limit = 100, !.disableUntil = now + d,
                               !.preDisableLimit = txn.arg]
        BY <1>4 DEF SetDisableForCommit
    <3> QED BY <3>1, <3>2, SetLimitType, SetDisableUntilType,
               SetPreDisableLimitType, Zenon DEF TypeOK
  <2>2. PICK outcome \in SaveOutcomes :
            /\ Saved(conf', outcome)
            /\ txn' = NoTxn \/ txn' = [op |-> "pass", arg |-> 0]
      BY <1>4, Zenon DEF SetDisableForCommit
  <2>3. file' \in Conf
      BY <2>1, <2>2, SavedType DEF TypeOK
  <2> QED BY <1>4, <2>1, <2>2, <2>3, TxnType DEF SetDisableForCommit, TypeOK
<1>5. ASSUME NEW d \in Deltas, SetLowerLimitDelta(d)
      PROVE  TypeOK'
  <2>1. conf' \in Conf
    <3>1. conf' = [conf EXCEPT !.delta = conf.limit - (conf.limit - d)]
        BY <1>5 DEF SetLowerLimitDelta, SetLowerLimit
    <3>2. conf.limit - (conf.limit - d) \in 1..100
        BY ChargeControlAssumption DEF TypeOK, Conf
    <3> QED BY <3>1, <3>2, SetDeltaType DEF TypeOK
  <2>2. PICK outcome \in SaveOutcomes :
            Saved(conf', outcome) /\ owed' = (outcome = "ok")
      BY <1>5, Zenon DEF SetLowerLimitDelta
  <2>3. file' \in Conf /\ owed' \in BOOLEAN
      BY <2>1, <2>2, SavedType DEF TypeOK
  <2> QED BY <1>5, <2>1, <2>3 DEF SetLowerLimitDelta, TypeOK
<1> QED BY <1>1, <1>2, <1>3, <1>4, <1>5 DEF LimitRequest

LEMMA AdapterRequestType ==
    ASSUME TypeOK, AdapterRequest
    PROVE  TypeOK'
<1>1. ASSUME NEW d \in BOOLEAN, SetAdapterCheck(d)
      PROVE  TypeOK'
  <2>1. txn' \in Transaction
      BY <1>1 DEF SetAdapterCheck, Transaction
  <2> QED BY <1>1, <2>1 DEF SetAdapterCheck, TypeOK
<1>2. CASE SetAdapterCommit
  <2>1. CASE UNCHANGED <<limits, hw, adapterWanted>>
      BY <1>2, <2>1, TxnType DEF SetAdapterCommit, TypeOK
  <2>2. CASE /\ hw' = [hw EXCEPT !.adapter = (txn.arg = 1)]
             /\ adapterWanted' = (txn.arg = 1)
             /\ conf' = ClearAdapterDisableTimer(conf)
             /\ \E outcome \in SaveOutcomes : Saved(conf', outcome)
    <3>1. conf' \in Conf
        BY <2>2, ClearAdapterDisableTimerType DEF TypeOK
    <3>2. file' \in Conf
        BY <2>2, <3>1, SavedType DEF TypeOK
    <3>3. hw' \in Hardware /\ adapterWanted' \in BOOLEAN
        BY <2>2 DEF TypeOK, Hardware
    <3> QED BY <1>2, <3>1, <3>2, <3>3, TxnType DEF SetAdapterCommit, TypeOK
  <2> QED BY <1>2, <2>1, <2>2 DEF SetAdapterCommit
<1>3. ASSUME NEW d \in Durations, SetAdapterDisableForCheck(d)
      PROVE  TypeOK'
  <2>1. now + d \in Nat
      BY ChargeControlAssumption DEF TypeOK
  <2>2. conf' \in Conf
      BY <1>3, <2>1, SetAdapterDisableUntilType DEF SetAdapterDisableForCheck, TypeOK
  <2> QED BY <1>3, <2>2, TxnType DEF SetAdapterDisableForCheck, TypeOK
<1>4. CASE SetAdapterDisableForSave
  <2>1. PICK outcome \in SaveOutcomes : Saved(conf, outcome)
      BY <1>4, Zenon DEF SetAdapterDisableForSave
  <2>2. file' \in Conf
      BY <2>1, SavedType DEF TypeOK
  <2>3. \/ txn' = [op |-> "adapterCut", arg |-> 0] /\ conf' = conf
        \/ txn' = NoTxn /\ conf' = ClearAdapterDisableTimer(conf)
      BY <1>4, Zenon DEF SetAdapterDisableForSave
  <2>4. conf' \in Conf /\ txn' \in Transaction
      BY <2>3, TxnType, ClearAdapterDisableTimerType DEF TypeOK
  <2> QED BY <1>4, <2>2, <2>4 DEF SetAdapterDisableForSave, TypeOK
<1>5. CASE SetAdapterDisableForCut
  <2>1. CASE /\ hw' = [hw EXCEPT !.adapter = FALSE]
             /\ adapterWanted' = TRUE
             /\ UNCHANGED limits
    <3>1. hw' \in Hardware
        BY <2>1 DEF TypeOK, Hardware
    <3> QED BY <1>5, <2>1, <3>1, TxnType DEF SetAdapterDisableForCut, TypeOK
  <2>2. CASE /\ conf' = ClearAdapterDisableTimer(conf)
             /\ \E outcome \in SaveOutcomes : Saved(conf', outcome)
             /\ UNCHANGED <<hw, adapterWanted>>
    <3>1. conf' \in Conf
        BY <2>2, ClearAdapterDisableTimerType DEF TypeOK
    <3>2. file' \in Conf
        BY <2>2, <3>1, SavedType DEF TypeOK
    <3> QED BY <1>5, <2>2, <3>1, <3>2, TxnType DEF SetAdapterDisableForCut, TypeOK
  <2> QED BY <1>5, <2>1, <2>2 DEF SetAdapterDisableForCut
<1> QED BY <1>1, <1>2, <1>3, <1>4, <1>5 DEF AdapterRequest

LEMMA CalibrationRequestType ==
    ASSUME TypeOK, CalibrationRequest
    PROVE  TypeOK'
<1>1. CASE StartCalibration
  <2>1. PICK charging \in BOOLEAN, adapter \in BOOLEAN :
            cal' = [phase |-> "Discharge", paused |-> FALSE, upper |-> conf.limit,
                    lower |-> LowerLimit, chargingOn |-> charging,
                    adapterOn |-> adapter]
    <3>1. hw.charging \in BOOLEAN /\ hw.adapter \in BOOLEAN
        BY DEF TypeOK, Hardware
    <3>2. /\ (IF Mode = "Firmware" THEN {TRUE}
              ELSE {hw.charging} \union (HardwareOutcomes \ {TRUE})) \subseteq BOOLEAN
          /\ ({hw.adapter} \union (HardwareOutcomes \ {TRUE})) \subseteq BOOLEAN
        BY <3>1, ChargeControlAssumption
    <3> QED BY <1>1, <3>2, Zenon DEF StartCalibration
  <2>2. cal' \in Calibration
    <3>1. conf.limit \in 0..100 /\ LowerLimit \in Int
        BY DEF TypeOK, Conf, LowerLimit
    <3> QED BY <2>1, <3>1 DEF Calibration, Phase
  <2>3. calFile' \in Calibration /\ daemon' \in Life
      BY <1>1, <2>2, PersistType DEF StartCalibration, TypeOK
  <2> QED BY <1>1, <2>2, <2>3 DEF StartCalibration, TypeOK
<1>2. CASE PauseCalibration
  <2>1. cal' \in Calibration
      BY <1>2 DEF PauseCalibration, TypeOK, Calibration
  <2>2. calFile' \in Calibration /\ daemon' \in Life
      BY <1>2, <2>1, PersistType DEF PauseCalibration, TypeOK
  <2> QED BY <1>2, <2>1, <2>2 DEF PauseCalibration, TypeOK
<1>3. CASE ResumeCalibration
  <2>1. cal' \in Calibration
      BY <1>3 DEF ResumeCalibration, TypeOK, Calibration
  <2>2. calFile' \in Calibration /\ daemon' \in Life
      BY <1>3, <2>1, PersistType DEF ResumeCalibration, TypeOK
  <2> QED BY <1>3, <2>1, <2>2 DEF ResumeCalibration, TypeOK
<1>4. CASE CancelCalibration
  <2>1. conf' \in Conf
      BY <1>4, RestoredLimitsType DEF CancelCalibration, TypeOK
  <2>2. file' \in Conf
      BY <1>4, <2>1, SavedType DEF CancelCalibration, TypeOK
  <2>3. hw' \in Hardware
      BY <1>4, RestoreHardwareType DEF CancelCalibration, TypeOK
  <2>4. /\ cal' \in Calibration /\ calFile' \in Calibration
        /\ daemon' \in Life /\ awake' \in BOOLEAN
      BY <1>4, PersistType, NoCalibrationType
      DEF CancelCalibration, EndCalibration, TypeOK
  <2> QED BY <1>4, <2>1, <2>2, <2>3, <2>4 DEF CancelCalibration, TypeOK
<1> QED BY <1>1, <1>2, <1>3, <1>4 DEF CalibrationRequest

\* One field of the hardware record.
LEMMA SetHardwareType ==
    ASSUME NEW h \in Hardware
    PROVE  /\ \A on \in BOOLEAN : [h EXCEPT !.charging = on] \in Hardware
           /\ \A on \in BOOLEAN : [h EXCEPT !.adapter = on] \in Hardware
           /\ \A limit \in 0..100 : [h EXCEPT !.limit = limit] \in Hardware
BY DEF Hardware

\* What an apply fragment leaves to its pass: everything but the configuration,
\* the session, the hardware and the life of the process.
LEMMA ApplyType ==
    ASSUME TypeOK, NEW charge \in Charges, applyCalibrationWithinLoop(charge)
    PROVE  /\ conf' \in Conf /\ file' \in Conf
           /\ cal' \in Calibration /\ calFile' \in Calibration
           /\ hw' \in Hardware /\ awake' \in BOOLEAN /\ daemon' \in Life
<1>1. \A phase \in Phase : Entering(phase) \in Calibration
    BY EnteringType DEF TypeOK
<1>2. /\ "Error" \in Phase /\ "Charge" \in Phase /\ "Hold" \in Phase
      /\ "PostHold" \in Phase /\ "Restore" \in Phase /\ "Idle" \in Phase
    BY DEF Phase
<1>3. CASE KeepDischarging(charge)
  <2>1. Advance(cal) \/ Advance(Entering("Error"))
      BY <1>3, Zenon DEF KeepDischarging
  <2>2. hw' \in Hardware
      BY <1>3 DEF KeepDischarging, TypeOK, Hardware
  <2> QED BY <1>1, <1>2, <1>3, <2>1, <2>2, AdvanceType DEF KeepDischarging, TypeOK
<1>4. CASE BeginCharging(charge)
  <2>1. CASE /\ hw' = IF Mode = "Firmware"
                      THEN [hw EXCEPT !.adapter = TRUE, !.limit = 0]
                      ELSE [hw EXCEPT !.adapter = TRUE, !.charging = TRUE]
             /\ conf' = [conf EXCEPT !.limit = 100]
             /\ \E outcome \in SaveOutcomes :
                   /\ Saved(conf', outcome)
                   /\ Advance(Entering(IF outcome = "ok" THEN "Charge" ELSE "Error"))
    <3>1. conf' \in Conf
      <4>1. conf' = [conf EXCEPT !.limit = 100]
          BY <2>1, Zenon
      <4>2. 100 \in 0..100
          OBVIOUS
      <4> QED BY <4>1, <4>2, SetLimitType, Zenon DEF TypeOK
    <3>2. PICK outcome \in SaveOutcomes :
              /\ Saved(conf', outcome)
              /\ Advance(Entering(IF outcome = "ok" THEN "Charge" ELSE "Error"))
        BY <2>1, Zenon
    <3>3. file' \in Conf
        BY <3>1, <3>2, SavedType DEF TypeOK
    <3>4. Entering(IF outcome = "ok" THEN "Charge" ELSE "Error") \in Calibration
        BY <1>1, <1>2
    <3>5. hw' \in Hardware
      <4> DEFINE powered == [hw EXCEPT !.adapter = TRUE]
      <4>1. powered \in Hardware
          BY SetHardwareType, Zenon DEF TypeOK
      <4>2. 0 \in 0..100
          OBVIOUS
      <4>3. /\ [powered EXCEPT !.limit = 0] \in Hardware
            /\ [powered EXCEPT !.charging = TRUE] \in Hardware
        <5> HIDE DEF powered
        <5> QED BY <4>1, <4>2, SetHardwareType, Zenon
      <4> QED BY <2>1, <4>3, Zenon
    <3> QED BY <3>1, <3>2, <3>3, <3>4, <3>5, AdvanceType
  <2>2. CASE /\ hw' \in {hw, [hw EXCEPT !.adapter = TRUE]}
             /\ Advance(Entering("Error"))
             /\ UNCHANGED limits
    <3>1. hw' \in Hardware
        BY <2>2 DEF TypeOK, Hardware
    <3> QED BY <1>1, <1>2, <2>2, <3>1, AdvanceType DEF TypeOK
  <2> QED BY <1>4, <2>1, <2>2, Zenon DEF BeginCharging
<1>5. CASE FinishCharging(charge)
  <2>1. Advance(Entering("Hold")) \/ Advance(cal)
      BY <1>5, Zenon DEF FinishCharging
  <2> QED BY <1>1, <1>2, <1>5, <2>1, AdvanceType DEF FinishCharging, TypeOK
<1>6. CASE KeepHolding
  <2>1. Advance(cal) \/ Advance(Entering("PostHold"))
      BY <1>6, Zenon DEF KeepHolding
  <2>2. hw' \in Hardware
    <3>1. Written(hw.adapter, FALSE) \subseteq BOOLEAN
        BY WrittenType DEF TypeOK, Hardware
    <3> QED BY <1>6, <3>1 DEF KeepHolding, TypeOK, Hardware
  <2> QED BY <1>1, <1>2, <1>6, <2>1, <2>2, AdvanceType DEF KeepHolding, TypeOK
<1>7. CASE DrainToLimit(charge)
  <2>1. Advance(Entering("Restore")) \/ Advance(cal)
      BY <1>7, Zenon DEF DrainToLimit
  <2> QED BY <1>1, <1>2, <1>7, <2>1, AdvanceType DEF DrainToLimit, TypeOK
<1>8. CASE RestoreAndFinish
  <2>1. conf' \in Conf
      BY <1>8, RestoredLimitsType DEF RestoreAndFinish, TypeOK
  <2>2. PICK outcome \in SaveOutcomes :
            /\ Saved(conf', outcome)
            /\ \/ RestoreHardware(cal) /\ Advance(Entering("Idle"))
               \/ Advance(Entering("Error")) /\ UNCHANGED hw
      BY <1>8, Zenon DEF RestoreAndFinish
  <2>3. file' \in Conf
      BY <2>1, <2>2, SavedType DEF TypeOK
  <2>4. hw' \in Hardware
      BY <2>2, RestoreHardwareType DEF TypeOK
  <2> QED BY <1>1, <1>2, <2>1, <2>2, <2>3, <2>4, AdvanceType
<1> QED BY <1>3, <1>4, <1>5, <1>6, <1>7, <1>8 DEF applyCalibrationWithinLoop

LEMMA ReturnType ==
    ASSUME TypeOK, NEW by \in Callers \union {"none"}, Return(by)
    PROVE  /\ pass' \in MaintainPass /\ loop' \in LoopPlace /\ txn' \in Transaction
           /\ owed' \in BOOLEAN /\ loopNow' \in Nat
           /\ now' \in Nat /\ adapterWanted' \in BOOLEAN
BY NoPassType, TxnType, PlaceTypes DEF Return, TypeOK

LEMMA PassBy ==
    ASSUME TypeOK
    PROVE  pass.by \in Callers \union {"none"} /\ pass.charging \in BOOLEAN
BY DEF TypeOK, MaintainPass

LEMMA PassType ==
    ASSUME TypeOK, Pass
    PROVE  TypeOK'
<1>1. ASSUME NEW by \in Callers, NEW charge \in Charges, PassCalibrates(by, charge)
      PROVE  TypeOK'
    BY <1>1, ApplyType, ReturnType DEF PassCalibrates, TypeOK
<1>2. ASSUME NEW by \in Callers, NEW charge \in Charges, PassReads(by, charge)
      PROVE  TypeOK'
  <2>1. Plan(charge) \in {"none", "reconcile", "noMaintain", "above", "below", "keep"}
      BY DEF Plan
  <2>2. charge \in 0..100 /\ hw.charging \in BOOLEAN
      BY ChargeControlAssumption DEF TypeOK, Hardware
  <2>3. pass' \in MaintainPass
      BY <1>2, <2>1, <2>2 DEF PassReads, MaintainPass
  <2> QED BY <1>2, <2>3 DEF PassReads, TypeOK
<1>8. ASSUME NEW by \in Callers, NEW charge \in Charges, PassGoesOn(by, charge)
      PROVE  TypeOK'
  <2>1. (IF Mode = "Firmware" THEN "reconcile" ELSE pass.plan)
            \in {"none", "reconcile", "noMaintain", "above", "below", "keep"}
      BY DEF TypeOK, MaintainPass
  <2>2. pass' \in MaintainPass
      BY <1>8, <2>1, PassBy DEF PassGoesOn, MaintainPass
  <2> QED BY <1>8, <2>2 DEF PassGoesOn, TypeOK
<1>3. ASSUME NEW by \in Callers, PassFails(by)
      PROVE  TypeOK'
    BY <1>3, ReturnType DEF PassFails, TypeOK
<1>4. ASSUME NEW by \in Callers, NEW charge \in Charges, PassPanics(by, charge)
      PROVE  TypeOK'
    BY <1>4, ReturnType, PlaceTypes DEF PassPanics, TypeOK
<1>5. CASE PassReconciles
  <2>1. TargetLimit(conf) \in 0..100
      BY DEF TargetLimit, TypeOK, Conf
  <2>2. hw' \in Hardware
      BY <1>5, <2>1, FirmwareResultsType, SetHardwareType DEF PassReconciles, TypeOK
  <2> QED BY <1>5, <2>2, PassBy, ReturnType DEF PassReconciles, TypeOK
<1>6. CASE PassHysteresis
  <2>1. \A missed \in BOOLEAN : ChargingWrites(missed) \subseteq BOOLEAN
      BY WrittenType DEF ChargingWrites, TypeOK, Hardware
  <2>2. hw' \in Hardware
      BY <1>6, <2>1, SetHardwareType DEF PassHysteresis, TypeOK
  <2> QED BY <1>6, <2>2, PassBy, ReturnType DEF PassHysteresis, TypeOK
<1>7. CASE PassNoMaintain
  <2>1. hw.charging \in BOOLEAN /\ (hw.charging \/ ~pass.charging) \in BOOLEAN
      BY DEF TypeOK, Hardware
  <2>2. CASE CancelForPermanentDisable(hw.charging \/ ~pass.charging)
    <3>1. hw' \in Hardware
      <4>1. Written(hw.adapter, cal.adapterOn) \subseteq BOOLEAN
          BY WrittenType DEF TypeOK, Hardware, Calibration
      <4>2. \A on, adapter \in BOOLEAN :
                [hw EXCEPT !.charging = on, !.adapter = adapter] \in Hardware
        <5> TAKE on, adapter \in BOOLEAN
        <5> DEFINE switched == [hw EXCEPT !.charging = on]
        <5>1. switched \in Hardware
            BY SetHardwareType DEF TypeOK
        <5> QED BY <5>1, SetHardwareType, Zenon
      <4> QED BY <2>1, <2>2, <4>1, <4>2, SetHardwareType, Zenon
              DEF CancelForPermanentDisable, TypeOK
    <3>2. /\ cal' \in Calibration /\ calFile' \in Calibration
          /\ daemon' \in Life /\ awake' \in BOOLEAN
        BY <2>2, PersistType, NoCalibrationType
        DEF CancelForPermanentDisable, EndCalibration, TypeOK
    <3> QED BY <1>7, <3>1, <3>2, PassBy, ReturnType DEF PassNoMaintain, TypeOK
  <2>3. CASE UNCHANGED <<session, machine>>
      BY <1>7, <2>3, PassBy, ReturnType DEF PassNoMaintain, TypeOK
  <2> QED BY <1>7, <2>2, <2>3 DEF PassNoMaintain
<1> QED BY <1>1, <1>2, <1>3, <1>4, <1>5, <1>6, <1>7, <1>8 DEF Pass

LEMMA MainLoopType ==
    ASSUME TypeOK, MainLoop
    PROVE  TypeOK'
<1>1. CASE LoopTop
    BY <1>1, PlaceTypes DEF LoopTop, TypeOK
<1>2. CASE LoopRestoreCheck
    BY <1>2, PlaceTypes, TxnType DEF LoopRestoreCheck, TypeOK
<1>3. CASE LoopRestore
  <2>1. conf' \in Conf
    <3>1. [conf EXCEPT !.limit = conf.preDisableLimit] \in Conf
        BY SetLimitType DEF TypeOK, Conf
    <3> QED BY <1>3, <3>1, ClearDisableTimerType DEF LoopRestore
  <2>2. file' \in Conf
      BY <1>3, <2>1, SavedType DEF LoopRestore, TypeOK
  <2> QED BY <1>3, <2>1, <2>2, PlaceTypes, TxnType DEF LoopRestore, TypeOK
<1>4. CASE LoopRestoreInvalid
  <2>1. conf' \in Conf
      BY <1>4, ClearDisableTimerType DEF LoopRestoreInvalid, TypeOK
  <2>2. file' \in Conf
      BY <1>4, <2>1, SavedType DEF LoopRestoreInvalid, TypeOK
  <2> QED BY <1>4, <2>1, <2>2, PlaceTypes, TxnType DEF LoopRestoreInvalid, TypeOK
<1>5. CASE LoopRestorePanics
    BY <1>5, FreshType, PlaceTypes DEF LoopRestorePanics, Forget, TypeOK
<1>6. CASE LoopAdapterCheck
  <2>1. txn' \in Transaction /\ loop' \in LoopPlace
    <3>1. \A op \in {"adapterKeep", "adapterBack"}, arg \in {0, 1} :
              [op |-> op, arg |-> arg] \in Transaction
        BY DEF Transaction
    <3>2. CASE UNCHANGED loop
      <4>1. txn' = [op |-> IF loopNow < conf.adapterDisableUntil
                           THEN "adapterKeep" ELSE "adapterBack",
                    arg |-> IF hw.adapter THEN 1 ELSE 0] \/ txn' = txn
          BY <1>6 DEF LoopAdapterCheck
      <4> QED BY <3>1, <3>2, <4>1 DEF TypeOK
    <3>3. CASE loop' = "maintain" /\ UNCHANGED txn
        BY <3>3, PlaceTypes DEF TypeOK
    <3> QED BY <1>6, <3>2, <3>3 DEF LoopAdapterCheck
  <2> QED BY <1>6, <2>1 DEF LoopAdapterCheck, TypeOK
<1>7. CASE LoopAdapterKeep
  <2>1. hw' \in Hardware
    <3>1. (IF txn.arg = 1 THEN Written(hw.adapter, FALSE) ELSE {hw.adapter})
              \subseteq BOOLEAN
        BY WrittenType DEF TypeOK, Hardware
    <3> QED BY <1>7, <3>1, SetHardwareType DEF LoopAdapterKeep, TypeOK
  <2> QED BY <1>7, <2>1, PlaceTypes, TxnType DEF LoopAdapterKeep, TypeOK
<1>8. CASE LoopAdapterEnable
  <2>1. hw' \in Hardware
      BY <1>8 DEF LoopAdapterEnable, TypeOK, Hardware
  <2> QED BY <1>8, <2>1, PlaceTypes, TxnType DEF LoopAdapterEnable, TypeOK
<1>9. CASE LoopAdapterClear
  <2>1. conf' \in Conf
      BY <1>9, ClearAdapterDisableTimerType DEF LoopAdapterClear, TypeOK
  <2>2. file' \in Conf
      BY <1>9, <2>1, SavedType DEF LoopAdapterClear, TypeOK
  <2> QED BY <1>9, <2>1, <2>2, PlaceTypes, TxnType DEF LoopAdapterClear, TypeOK
<1> QED BY <1>1, <1>2, <1>3, <1>4, <1>5, <1>6, <1>7, <1>8, <1>9 DEF MainLoop

\* The state of the daemon, its files and its hardware always has its type: in
\* particular the limit and the delta stay within 0..100 and 1..100 although the
\* setters compute one from the other (pkg/config/file.go).
THEOREM TypeCorrect == Spec => []TypeOK
<1>1. Init => TypeOK
    BY TypeInit
<1>2. TypeOK /\ [Next]_vars => TypeOK'
  <2> SUFFICES ASSUME TypeOK, [Next]_vars PROVE TypeOK'
      OBVIOUS
  <2>1. CASE Tick
      BY <2>1 DEF Tick, TypeOK
  <2>2. CASE UNCHANGED vars
      BY <2>2 DEF vars, TypeOK
  <2> QED BY <2>1, <2>2, LifecycleType, LimitRequestType, AdapterRequestType,
             CalibrationRequestType, PassType, MainLoopType DEF Next
<1> QED BY <1>1, <1>2, PTL DEF Spec

-----------------------------------------------------------------------------
(* The session never outruns the transition lock.                          *)

\* A step of the session by an apply fragment happens only while the lock is
\* free; the pass then leaves it free.
LEMMA CalibrationRunsUnlocked ==
    ASSUME CheckedConflictsStay, Running, CalibrationRuns
    PROVE  txn = NoTxn
BY DEF CheckedConflictsStay, CalibrationRuns, SessionActive

LEMMA ConflictsInit == Init => CheckedConflictsStay
BY DEF Init, CheckedConflictsStay

LEMMA ConflictsStep ==
    ASSUME CheckedConflictsStay, [Next]_vars
    PROVE  CheckedConflictsStay'
<1> USE DEF CheckedConflictsStay
<1>1. CASE Lifecycle
  <2>1. CASE Start
      BY <2>1 DEF Start
  <2>2. CASE Crash
      BY <2>2 DEF Crash, Forget
  <2>3. CASE Shutdown
      BY <2>3 DEF Shutdown, Asked, Running
  <2>4. CASE ResetChargeControl
      BY <2>4 DEF ResetChargeControl, Running
  <2>5. CASE Exit
      BY <2>5 DEF Exit, Forget
  <2>6. CASE Reload
      BY <2>6 DEF Reload, Running
  <2> QED BY <1>1, <2>1, <2>2, <2>3, <2>4, <2>5, <2>6 DEF Lifecycle
<1>2. CASE LimitRequest
  <2>1. ASSUME NEW l \in Limits, SetLimitCheck(l) PROVE CheckedConflictsStay'
      BY <2>1 DEF SetLimitCheck, calibrationOwnsChargeLimit
  <2>2. CASE SetLimitCommit
      BY <2>2, NoTxnOp DEF SetLimitCommit, Running
  <2>3. CASE SetDisableForCheck
      BY <2>3 DEF SetDisableForCheck, calibrationOwnsChargeLimit
  <2>4. ASSUME NEW d \in Durations, SetDisableForCommit(d) PROVE CheckedConflictsStay'
      BY <2>4, NoTxnOp DEF SetDisableForCommit, Running
  <2>5. ASSUME NEW d \in Deltas, SetLowerLimitDelta(d) PROVE CheckedConflictsStay'
      BY <2>5 DEF SetLowerLimitDelta, Asked, Running
  <2> QED BY <1>2, <2>1, <2>2, <2>3, <2>4, <2>5 DEF LimitRequest
<1>3. CASE AdapterRequest
  <2>1. ASSUME NEW d \in BOOLEAN, SetAdapterCheck(d) PROVE CheckedConflictsStay'
      BY <2>1 DEF SetAdapterCheck, calibrationOwnsChargeLimit
  <2>2. CASE SetAdapterCommit
      BY <2>2 DEF SetAdapterCommit
  <2>3. ASSUME NEW d \in Durations, SetAdapterDisableForCheck(d)
        PROVE  CheckedConflictsStay'
      BY <2>3 DEF SetAdapterDisableForCheck, calibrationOwnsChargeLimit
  <2>4. CASE SetAdapterDisableForSave
      BY <2>4, NoTxnOp DEF SetAdapterDisableForSave, Running
  <2>5. CASE SetAdapterDisableForCut
      BY <2>5 DEF SetAdapterDisableForCut
  <2> QED BY <1>3, <2>1, <2>2, <2>3, <2>4, <2>5 DEF AdapterRequest
<1>4. CASE CalibrationRequest
  <2>1. CASE StartCalibration
      BY <2>1 DEF StartCalibration, StartAdmitted
  <2>2. CASE PauseCalibration
    <3>1. cal'.phase = cal.phase
        BY <2>2 DEF PauseCalibration
    <3> QED BY <2>2, <3>1 DEF PauseCalibration, Asked, Running
  <2>3. CASE ResumeCalibration
      BY <2>3 DEF ResumeCalibration, Asked, Running
  <2>4. CASE CancelCalibration
      BY <2>4 DEF CancelCalibration, EndCalibration, NoCalibration
  <2> QED BY <1>4, <2>1, <2>2, <2>3, <2>4 DEF CalibrationRequest
<1>5. CASE Pass
  <2>1. ASSUME NEW by \in Callers, NEW charge \in Charges, PassCalibrates(by, charge)
        PROVE  CheckedConflictsStay'
    <3>1. txn = NoTxn
        BY <2>1, CalibrationRunsUnlocked DEF PassCalibrates, Driving
    <3> QED BY <2>1, <3>1 DEF PassCalibrates, Return
  <2>2. ASSUME NEW by \in Callers, NEW charge \in Charges,
               PassReads(by, charge) \/ PassGoesOn(by, charge)
        PROVE  CheckedConflictsStay'
      BY <2>2 DEF PassReads, PassGoesOn, PassDue, Driving, Running
  <2>3. ASSUME NEW by \in Callers, PassFails(by) PROVE CheckedConflictsStay'
      BY <2>3 DEF PassFails, PassDue, Return, Running
  <2>4. ASSUME NEW by \in Callers, NEW charge \in Charges, PassPanics(by, charge)
        PROVE  CheckedConflictsStay'
      BY <2>4 DEF PassPanics, Driving, Return, Running
  <2>5. CASE PassReconciles
      BY <2>5 DEF PassReconciles, Return, Running
  <2>6. CASE PassHysteresis
      BY <2>6 DEF PassHysteresis, Return, Running
  <2>7. CASE PassNoMaintain
    <3>1. cal' = NoCalibration \/ UNCHANGED <<session, daemon>>
        BY <2>7 DEF PassNoMaintain, CancelForPermanentDisable, EndCalibration
    <3> QED BY <2>7, <3>1 DEF PassNoMaintain, Return, Running, NoCalibration
  <2> QED BY <1>5, <2>1, <2>2, <2>3, <2>4, <2>5, <2>6, <2>7 DEF Pass
<1>6. CASE MainLoop
  <2>1. CASE LoopTop
      BY <2>1 DEF LoopTop, Running
  <2>2. CASE LoopRestoreCheck
      BY <2>2 DEF LoopRestoreCheck, Running, calibrationOwnsChargeLimit
  <2>3. CASE LoopRestore
      BY <2>3 DEF LoopRestore
  <2>4. CASE LoopRestoreInvalid
      BY <2>4 DEF LoopRestoreInvalid
  <2>5. CASE LoopRestorePanics
      BY <2>5 DEF LoopRestorePanics, Forget
  <2>6. CASE LoopAdapterCheck
      BY <2>6 DEF LoopAdapterCheck, Running, calibrationOwnsChargeLimit
  <2>7. CASE LoopAdapterKeep
      BY <2>7 DEF LoopAdapterKeep
  <2>8. CASE LoopAdapterEnable
      BY <2>8, NoTxnOp DEF LoopAdapterEnable, Running
  <2>9. CASE LoopAdapterClear
      BY <2>9 DEF LoopAdapterClear
  <2> QED BY <1>6, <2>1, <2>2, <2>3, <2>4, <2>5, <2>6, <2>7, <2>8, <2>9 DEF MainLoop
<1>7. CASE Tick
    BY <1>7 DEF Tick, Running
<1>8. CASE UNCHANGED vars
    BY <1>8 DEF vars, Running
<1> QED BY <1>1, <1>2, <1>3, <1>4, <1>5, <1>6, <1>7, <1>8 DEF Next

\* While a handler or the main loop is past its conflict check, no calibration
\* comes into existence: the check still holds when it is acted on
\* (chargeControlTransitionMu, pkg/daemon/calibration.go).
THEOREM ChecksStayTrue == Spec => []CheckedConflictsStay
BY ConflictsInit, ConflictsStep, PTL DEF Spec

-----------------------------------------------------------------------------
(* The sleep assertion.                                                    *)

LEMMA AssertionInit == Init => AssertionMatchesSession
BY DEF Init, AssertionMatchesSession

\* Advance keeps the assertion of an active session and releases it at its end.
LEMMA AdvanceAssertion ==
    ASSUME AssertionMatchesSession, daemon = "up", SessionActive(cal),
           NEW st, Advance(st)
    PROVE  AssertionMatchesSession'
<1>1. cal' = st /\ awake' = (awake /\ SessionActive(st))
    BY DEF Advance
<1>2. SessionActive(cal)' <=> SessionActive(st)
    BY <1>1 DEF SessionActive
<1> QED BY <1>1, <1>2, Zenon DEF AssertionMatchesSession

\* A daemon that is up was up before, unless it has just started.
LEMMA UpStays ==
    ASSUME [Next]_vars, ~Start, daemon' = "up"
    PROVE  daemon = "up"
<1>1. CASE Lifecycle
    BY <1>1 DEF Lifecycle, Crash, Shutdown, ResetChargeControl, Exit, Reload
<1>2. CASE LimitRequest
    BY <1>2 DEF LimitRequest, SetLimitCheck, SetLimitCommit, SetDisableForCheck,
       SetDisableForCommit, SetLowerLimitDelta
<1>3. CASE AdapterRequest
    BY <1>3 DEF AdapterRequest, SetAdapterCheck, SetAdapterCommit,
       SetAdapterDisableForCheck, SetAdapterDisableForSave, SetAdapterDisableForCut
<1>4. CASE CalibrationRequest
    BY <1>4 DEF CalibrationRequest, StartCalibration, PauseCalibration,
       ResumeCalibration, CancelCalibration, EndCalibration, Persist
<1>5. CASE Pass
  <2>1. ASSUME NEW by \in Callers, NEW charge \in Charges, PassCalibrates(by, charge)
        PROVE  daemon = "up"
      BY <2>1, Zenon DEF PassCalibrates, applyCalibrationWithinLoop, KeepDischarging,
         BeginCharging, FinishCharging, KeepHolding, DrainToLimit, RestoreAndFinish,
         Advance, Persist
  <2>2. ASSUME NEW by \in Callers, NEW charge \in Charges, PassPanics(by, charge)
        PROVE  daemon = "up"
      BY <2>2 DEF PassPanics
  <2>3. CASE PassNoMaintain
      BY <2>3 DEF PassNoMaintain, CancelForPermanentDisable, EndCalibration, Persist
  <2> QED BY <1>5, <2>1, <2>2, <2>3 DEF Pass, PassReads, PassGoesOn, PassFails,
             PassReconciles, PassHysteresis
<1>6. CASE MainLoop
    BY <1>6 DEF MainLoop, LoopTop, LoopRestoreCheck, LoopRestore, LoopRestoreInvalid,
       LoopRestorePanics, LoopAdapterCheck, LoopAdapterKeep, LoopAdapterEnable,
       LoopAdapterClear
<1>7. CASE Tick
    BY <1>7 DEF Tick
<1>8. CASE UNCHANGED vars
    BY <1>8 DEF vars
<1> QED BY <1>1, <1>2, <1>3, <1>4, <1>5, <1>6, <1>7, <1>8 DEF Next, Lifecycle

\* The steps that change the session or the assertion: those of a running process,
\* and those that end it.
LEMMA SessionSteps ==
    ASSUME [Next]_vars, ~UNCHANGED session
    PROVE  \/ Start \/ Shutdown \/ CalibrationRequest \/ PassNoMaintain
           \/ \E by \in Callers, charge \in Charges : PassCalibrates(by, charge)
           \/ Forget /\ UNCHANGED <<file, calFile>> /\ ~Running'
<1>1. CASE Lifecycle
    BY <1>1 DEF Lifecycle, Crash, ResetChargeControl, Exit, Reload, Running
<1>2. CASE LimitRequest
    BY <1>2 DEF LimitRequest, SetLimitCheck, SetLimitCommit, SetDisableForCheck,
       SetDisableForCommit, SetLowerLimitDelta
<1>3. CASE AdapterRequest
    BY <1>3 DEF AdapterRequest, SetAdapterCheck, SetAdapterCommit,
       SetAdapterDisableForCheck, SetAdapterDisableForSave, SetAdapterDisableForCut
<1>4. CASE CalibrationRequest
    BY <1>4
<1>5. CASE Pass
    BY <1>5 DEF Pass, PassReads, PassGoesOn, PassFails, PassPanics, PassReconciles,
       PassHysteresis
<1>6. CASE MainLoop
    BY <1>6 DEF MainLoop, LoopTop, LoopRestoreCheck, LoopRestore, LoopRestoreInvalid,
       LoopRestorePanics, LoopAdapterCheck, LoopAdapterKeep, LoopAdapterEnable,
       LoopAdapterClear, Running
<1>7. CASE Tick
    BY <1>7 DEF Tick
<1>8. CASE UNCHANGED vars
    BY <1>8 DEF vars
<1> QED BY <1>1, <1>2, <1>3, <1>4, <1>5, <1>6, <1>7, <1>8 DEF Next

LEMMA SamePhaseAssertion ==
    ASSUME AssertionMatchesSession, daemon = "up", cal'.phase = cal.phase, awake' = awake
    PROVE  AssertionMatchesSession'
<1>1. SessionActive(cal)' <=> SessionActive(cal)
    BY DEF SessionActive
<1> QED BY <1>1, Zenon DEF AssertionMatchesSession

LEMMA NoSessionAssertion ==
    ASSUME cal' = NoCalibration, awake' = FALSE
    PROVE  AssertionMatchesSession'
<1>1. ~SessionActive(cal)'
    BY DEF SessionActive, NoCalibration
<1> QED BY <1>1, Zenon DEF AssertionMatchesSession

LEMMA AssertionStep ==
    ASSUME AssertionMatchesSession, [Next]_vars
    PROVE  AssertionMatchesSession'
<1> SUFFICES ASSUME daemon' = "up" PROVE AssertionMatchesSession'
    BY Zenon DEF AssertionMatchesSession
<1>1. CASE Start
  <2>1. PICK ok \in HardwareOutcomes : awake' = (ok /\ SessionActive(cal'))
      BY <1>1, Zenon DEF Start
  <2>2. SessionActive(cal') <=> SessionActive(cal)'
      BY DEF SessionActive
  <2> QED BY <2>1, <2>2, ChargeControlAssumption, Zenon DEF AssertionMatchesSession
<1>2. CASE ~Start
  <2>1. daemon = "up" /\ Running'
      BY <1>2, UpStays DEF Running
  <2>2. CASE UNCHANGED <<cal, awake>>
      BY <2>1, <2>2, SamePhaseAssertion
  <2>3. CASE Shutdown
      BY <2>3 DEF Shutdown
  <2>4. CASE CalibrationRequest
    <3>1. CASE StartCalibration
        BY <3>1 DEF StartCalibration, AssertionMatchesSession, SessionActive
    <3>2. CASE PauseCalibration
        BY <2>1, <3>2, SamePhaseAssertion DEF PauseCalibration
    <3>3. CASE ResumeCalibration
        BY <2>1, <3>3, SamePhaseAssertion DEF ResumeCalibration
    <3>4. CASE CancelCalibration
        BY <3>4, NoSessionAssertion DEF CancelCalibration, EndCalibration
    <3> QED BY <2>4, <3>1, <3>2, <3>3, <3>4 DEF CalibrationRequest
  <2>5. CASE PassNoMaintain
    <3>1. (cal' = NoCalibration /\ awake' = FALSE) \/ UNCHANGED <<cal, awake>>
        BY <2>5 DEF PassNoMaintain, CancelForPermanentDisable, EndCalibration
    <3> QED BY <2>2, <3>1, NoSessionAssertion
  <2>6. ASSUME NEW by \in Callers, NEW charge \in Charges, PassCalibrates(by, charge)
        PROVE  AssertionMatchesSession'
    <3>1. SessionActive(cal)
        BY <2>6 DEF PassCalibrates, CalibrationRuns
    <3>2. PICK st : Advance(st)
        BY <2>6, Zenon DEF PassCalibrates, applyCalibrationWithinLoop, KeepDischarging,
           BeginCharging, FinishCharging, KeepHolding, DrainToLimit, RestoreAndFinish
    <3> QED BY <2>1, <3>1, <3>2, AdvanceAssertion
  <2> QED BY <1>2, <2>1, <2>2, <2>3, <2>4, <2>5, <2>6, SessionSteps
<1> QED BY <1>1, <1>2

\* The calibration sleep assertion is never held without an active session, and,
\* when IOKit obliges, always with one: pausing, failing, cancelling, finishing
\* and restarting all keep the two together
\* (release/restoreCalibrationSleepAssertion, pkg/daemon/calibration.go).
THEOREM AssertionFollowsSession == Spec => []AssertionMatchesSession
BY AssertionInit, AssertionStep, PTL DEF Spec

-----------------------------------------------------------------------------
(* The power adapter.                                                      *)

\* The steps that can cut the power.
LEMMA AdapterCuts ==
    ASSUME TypeOK, [Next]_vars, hw.adapter, ~hw'.adapter
    PROVE  \/ SetAdapterCommit \/ SetAdapterDisableForCut \/ LoopAdapterKeep
           \/ CancelCalibration \/ PassNoMaintain
           \/ \E by \in Callers, charge \in Charges : PassCalibrates(by, charge)
<1> USE DEF TypeOK, Hardware
<1>1. CASE Lifecycle
    BY <1>1 DEF Lifecycle, Start, Crash, Shutdown, ResetChargeControl, Exit, Reload
<1>2. CASE LimitRequest
    BY <1>2 DEF LimitRequest, SetLimitCheck, SetLimitCommit, SetDisableForCheck,
       SetDisableForCommit, SetLowerLimitDelta
<1>3. CASE AdapterRequest
    BY <1>3 DEF AdapterRequest, SetAdapterCheck, SetAdapterDisableForCheck,
       SetAdapterDisableForSave
<1>4. CASE CalibrationRequest
    BY <1>4 DEF CalibrationRequest, StartCalibration, PauseCalibration,
       ResumeCalibration
<1>5. CASE Pass
    BY <1>5 DEF Pass, PassReads, PassGoesOn, PassFails, PassPanics, PassReconciles,
       PassHysteresis
<1>6. CASE MainLoop
    BY <1>6 DEF MainLoop, LoopTop, LoopRestoreCheck, LoopRestore, LoopRestoreInvalid,
       LoopRestorePanics, LoopAdapterCheck, LoopAdapterEnable, LoopAdapterClear
<1>7. CASE Tick
    BY <1>7 DEF Tick
<1>8. CASE UNCHANGED vars
    BY <1>8 DEF vars
<1> QED BY <1>1, <1>2, <1>3, <1>4, <1>5, <1>6, <1>7, <1>8 DEF Next

\* The snapshot decides what a session that ends does to a powered adapter.
LEMMA EndRestoresAdapter ==
    ASSUME TypeOK, hw.adapter, ~hw'.adapter,
           CancelCalibration \/ (PassNoMaintain /\ cal.phase # "Idle")
    PROVE  cal'.phase = "Idle" /\ ~cal.adapterOn
<1> USE DEF TypeOK, Hardware, Calibration
<1>1. CASE CancelCalibration
  <2>1. cal' = NoCalibration /\ RestoreHardware(cal)
      BY <1>1 DEF CancelCalibration, EndCalibration
  <2>2. hw'.adapter \in Written(hw.adapter, cal.adapterOn)
    <3>1. PICK charging \in RestoredCharging(cal), limit \in RestoredFirmware(cal),
               adapter \in Written(hw.adapter, cal.adapterOn) :
              hw' = [charging |-> charging, adapter |-> adapter, limit |-> limit]
        BY <2>1, Zenon DEF RestoreHardware
    <3> QED BY <3>1
  <2> QED BY <2>1, <2>2 DEF Written, NoCalibration
<1>2. CASE PassNoMaintain
  <2>1. CASE UNCHANGED <<session, machine>>
      BY <2>1
  <2>2. CASE CancelForPermanentDisable(hw.charging \/ ~pass.charging)
    <3>1. CASE hw' = [hw EXCEPT !.charging = hw.charging \/ ~pass.charging]
        BY <3>1
    <3>2. CASE /\ \E adapter \in Written(hw.adapter, cal.adapterOn) :
                     hw' = [hw EXCEPT !.charging = hw.charging \/ ~pass.charging,
                                      !.adapter = adapter]
               /\ EndCalibration
      <4>1. PICK adapter \in Written(hw.adapter, cal.adapterOn) :
                hw' = [hw EXCEPT !.charging = hw.charging \/ ~pass.charging,
                                 !.adapter = adapter]
          BY <3>2, Zenon
      <4>2. hw'.adapter = adapter
        <5> DEFINE switched == [hw EXCEPT !.charging = hw.charging \/ ~pass.charging]
        <5>1. switched \in Hardware
            OBVIOUS
        <5>2. \A h \in Hardware : [h EXCEPT !.adapter = adapter].adapter = adapter
            OBVIOUS
        <5> QED BY <4>1, <5>1, <5>2, Zenon
      <4>3. cal' = NoCalibration
          BY <3>2 DEF EndCalibration
      <4> QED BY <4>1, <4>2, <4>3 DEF Written, NoCalibration
    <3> QED BY <2>2, <3>1, <3>2, Zenon DEF CancelForPermanentDisable
  <2> QED BY <1>2, <2>1, <2>2, Zenon DEF PassNoMaintain
<1> QED BY <1>1, <1>2

\* Nobody but the calibration itself cuts the power under a calibration that
\* charges or holds: the handlers and the main loop cut it only under the
\* transition lock, when no session can exist.
THEOREM PowerStaysWhileCharging == Spec => PoweredWhileCharging
<1> DEFINE Powered ==
        Running /\ cal.phase \in {"Charge", "Hold"} /\ hw.adapter /\ ~hw'.adapter
            => cal'.phase = "PostHold" \/ (cal'.phase = "Idle" /\ ~cal.adapterOn)
<1>1. TypeOK /\ CheckedConflictsStay /\ [Next]_vars => Powered
  <2> SUFFICES ASSUME TypeOK, CheckedConflictsStay, [Next]_vars, Running,
                      cal.phase \in {"Charge", "Hold"}, hw.adapter, ~hw'.adapter
               PROVE  cal'.phase = "PostHold" \/ (cal'.phase = "Idle" /\ ~cal.adapterOn)
      OBVIOUS
  <2>1. txn = NoTxn
      BY DEF CheckedConflictsStay
  <2>2. CASE SetAdapterCommit \/ SetAdapterDisableForCut \/ LoopAdapterKeep
      BY <2>1, <2>2, NoTxnOp
         DEF SetAdapterCommit, SetAdapterDisableForCut, LoopAdapterKeep
  <2>3. CASE CancelCalibration \/ PassNoMaintain
      BY <2>3, EndRestoresAdapter
  <2>4. ASSUME NEW by \in Callers, NEW charge \in Charges, PassCalibrates(by, charge)
        PROVE  cal'.phase = "PostHold"
    <3>1. applyCalibrationWithinLoop(charge)
        BY <2>4 DEF PassCalibrates
    <3>2. KeepHolding
        BY <3>1 DEF applyCalibrationWithinLoop, KeepDischarging, BeginCharging,
           FinishCharging, DrainToLimit, RestoreAndFinish
    <3>3. Advance(Entering("PostHold"))
        BY <3>2 DEF KeepHolding
    <3> QED BY <3>3 DEF Advance, Entering, TypeOK, Calibration
  <2> QED BY <2>2, <2>3, <2>4, AdapterCuts
<1>2. TypeOK /\ CheckedConflictsStay /\ [Next]_vars => [Powered]_vars
    BY <1>1
<1> QED BY <1>2, TypeCorrect, ChecksStayTrue, PTL DEF Spec, PoweredWhileCharging

-----------------------------------------------------------------------------
(* The two timers: which steps start them.                                 *)

\* Both deadlines of c are those of d.
SameTimers(c, d) ==
    /\ c.disableUntil = d.disableUntil
    /\ c.adapterDisableUntil = d.adapterDisableUntil

\* An apply fragment leaves both timers alone.
LEMMA ApplyTimers ==
    ASSUME TypeOK, NEW charge \in Charges, applyCalibrationWithinLoop(charge)
    PROVE  SameTimers(conf', conf)
<1>1. CASE BeginCharging(charge)
  <2>1. conf' = [conf EXCEPT !.limit = 100] \/ conf' = conf
      BY <1>1, Zenon DEF BeginCharging
  <2>2. 100 \in 0..100
      OBVIOUS
  <2>3. SameTimers([conf EXCEPT !.limit = 100], conf)
      BY <2>2, LimitWritten DEF SameLimits, SameTimers, TypeOK
  <2> QED BY <2>1, <2>3, Zenon DEF SameTimers
<1>2. CASE RestoreAndFinish
    BY <1>2, LimitsRestored DEF SameLimits, SameTimers, RestoreAndFinish, TypeOK
<1>3. CASE ~BeginCharging(charge) /\ ~RestoreAndFinish
  <2>1. conf' = conf
      BY <1>3 DEF applyCalibrationWithinLoop, KeepDischarging, FinishCharging,
         KeepHolding, DrainToLimit
  <2> QED BY <2>1 DEF SameTimers
<1> QED BY <1>1, <1>2, <1>3

LEMMA SetLimitCommitTimers ==
    ASSUME TypeOK, SetLimitCommit
    PROVE  /\ conf'.adapterDisableUntil = conf.adapterDisableUntil
           /\ conf'.disableUntil \in {0, conf.disableUntil}
<1> DEFINE raised == [conf EXCEPT !.limit = txn.arg]
<1> DEFINE asked == [raised EXCEPT !.wanted = txn.arg]
<1>1. txn.arg \in 0..100
    BY DEF TypeOK, Transaction
<1>2. raised \in Conf /\ SameTimers(raised, conf)
    BY <1>1, LimitWritten DEF SameLimits, SameTimers, TypeOK
<1>3. conf' = conf \/ conf' = ClearDisableTimer(asked)
    BY Zenon DEF SetLimitCommit
<1> HIDE DEF raised
<1>4. asked \in Conf /\ SameTimers(asked, raised)
    BY <1>1, <1>2, WantedWritten DEF SameLimits, SameTimers
<1> HIDE DEF asked
<1> QED BY <1>2, <1>3, <1>4, DisableTimerCleared DEF SameLimits, SameTimers

\* The steps of a living daemon that start or move a deadline.
LEMMA TimerSteps ==
    ASSUME TypeOK, [Next]_vars, Running, Running'
    PROVE  \/ Reload
           \/ \E d \in Durations : SetDisableForCommit(d)
           \/ \E d \in Durations : SetAdapterDisableForCheck(d)
           \/ /\ conf'.disableUntil \in {0, conf.disableUntil}
              /\ conf'.adapterDisableUntil \in {0, conf.adapterDisableUntil}
<1> DEFINE Ends == /\ conf'.disableUntil \in {0, conf.disableUntil}
                   /\ conf'.adapterDisableUntil \in {0, conf.adapterDisableUntil}
<1>0. ASSUME conf' = conf \/ SameTimers(conf', conf) PROVE Ends
    BY <1>0 DEF SameTimers
<1> HIDE DEF Ends
<1>1. CASE Lifecycle
  <2>1. ~Start /\ ~Crash /\ ~Exit
      BY DEF Start, Crash, Exit, Running
  <2> QED BY <1>0, <1>1, <2>1 DEF Lifecycle, Shutdown, ResetChargeControl
<1>2. CASE LimitRequest
  <2>1. CASE SetLimitCommit
      BY <2>1, SetLimitCommitTimers DEF Ends
  <2>2. ASSUME NEW d \in Deltas, SetLowerLimitDelta(d) PROVE Ends
    <3>1. conf' = [conf EXCEPT !.delta = conf.limit - (conf.limit - d)]
        BY <2>2 DEF SetLowerLimitDelta, SetLowerLimit
    <3>2. conf.limit - (conf.limit - d) \in 1..100
        BY ChargeControlAssumption DEF TypeOK, Conf
    <3> QED BY <1>0, <3>1, <3>2, DeltaWritten DEF SameLimits, SameTimers, TypeOK
  <2> QED BY <1>0, <1>2, <2>1, <2>2
          DEF LimitRequest, SetLimitCheck, SetDisableForCheck, Ends
<1>3. CASE AdapterRequest
  <2>1. CASE SetAdapterCommit \/ SetAdapterDisableForSave \/ SetAdapterDisableForCut
    <3>1. conf' = conf \/ conf' = ClearAdapterDisableTimer(conf)
        BY <2>1 DEF SetAdapterCommit, SetAdapterDisableForSave, SetAdapterDisableForCut
    <3> QED BY <1>0, <3>1, AdapterTimerCleared DEF SameLimits, SameTimers, TypeOK, Ends
  <2> QED BY <1>0, <1>3, <2>1 DEF AdapterRequest, SetAdapterCheck, Ends
<1>4. CASE CalibrationRequest
  <2>1. CASE CancelCalibration
    <3>1. conf' = RestoredLimits(conf, cal) /\ ~RestorePanics(conf, cal)
        BY <2>1, Zenon DEF CancelCalibration
    <3>2. SameTimers(RestoredLimits(conf, cal), conf)
        BY <3>1, LimitsRestored, Zenon DEF SameLimits, SameTimers, TypeOK
    <3>3. SameTimers(conf', conf)
        BY <3>1, <3>2
    <3> QED BY <1>0, <3>3 DEF Ends
  <2> QED BY <1>0, <1>4, <2>1 DEF CalibrationRequest, StartCalibration,
          PauseCalibration, ResumeCalibration, Ends
<1>5. CASE Pass
  <2>1. ASSUME NEW by \in Callers, NEW charge \in Charges, PassCalibrates(by, charge)
        PROVE  Ends
      BY <1>0, <2>1, ApplyTimers DEF PassCalibrates
  <2> QED BY <1>0, <1>5, <2>1, Zenon
          DEF Pass, PassReads, PassGoesOn, PassFails, PassPanics,
          PassReconciles, PassHysteresis, PassNoMaintain, Ends
<1>6. CASE MainLoop
  <2>1. CASE LoopRestore
    <3>1. [conf EXCEPT !.limit = conf.preDisableLimit] \in Conf
          /\ SameTimers([conf EXCEPT !.limit = conf.preDisableLimit], conf)
        BY LimitWritten DEF SameLimits, SameTimers, TypeOK, Conf
    <3>2. conf' = ClearDisableTimer([conf EXCEPT !.limit = conf.preDisableLimit])
        BY <2>1 DEF LoopRestore
    <3> QED BY <3>1, <3>2, DisableTimerCleared DEF SameLimits, SameTimers, Ends
  <2>2. CASE LoopRestoreInvalid
      BY <2>2, DisableTimerCleared
         DEF SameLimits, SameTimers, LoopRestoreInvalid, TypeOK, Ends
  <2>3. CASE LoopAdapterClear
      BY <2>3, AdapterTimerCleared
         DEF SameLimits, SameTimers, LoopAdapterClear, TypeOK, Ends
  <2>4. ~LoopRestorePanics
      BY DEF LoopRestorePanics, Running
  <2> QED BY <1>0, <1>6, <2>1, <2>2, <2>3, <2>4 DEF MainLoop, LoopTop,
          LoopRestoreCheck, LoopAdapterCheck, LoopAdapterKeep, LoopAdapterEnable, Ends
<1>7. CASE Tick
    BY <1>0, <1>7 DEF Tick
<1>8. CASE UNCHANGED vars
    BY <1>0, <1>8 DEF vars
<1> QED BY <1>1, <1>2, <1>3, <1>4, <1>5, <1>6, <1>7, <1>8 DEF Next, Ends

\* A session of a living daemon is begun by startCalibration only.
LEMMA SessionBegins ==
    ASSUME TypeOK, [Next]_vars, Running, Running', cal.phase = "Idle", cal'.phase # "Idle"
    PROVE  StartCalibration
<1>1. ~UNCHANGED <<cal, awake>>
    BY Zenon
<1>2. ~Start /\ ~Shutdown
    BY DEF Start, Running, Shutdown
<1>3. ~PassNoMaintain
    BY DEF PassNoMaintain, CancelForPermanentDisable, EndCalibration, NoCalibration
<1>4. ASSUME NEW by \in Callers, NEW charge \in Charges, PassCalibrates(by, charge)
      PROVE  FALSE
    BY <1>4 DEF PassCalibrates, CalibrationRuns, SessionActive
<1>5. ~PauseCalibration /\ ~ResumeCalibration /\ ~CancelCalibration
    BY DEF PauseCalibration, ResumeCalibration, CancelCalibration
<1> QED BY <1>1, <1>2, <1>3, <1>4, <1>5, SessionSteps DEF CalibrationRequest

\* No step of a living daemon brings a session and a pending timer together,
\* except a SIGHUP that loads a timer from the file: neither request can slip in
\* between the checks of the other and its effect.
THEOREM ConflictsOnlyFromFile == Spec => ConflictsComeFromFile
<1> DEFINE Step ==
        Running /\ Running' /\ ~Conflict(conf, cal) /\ Conflict(conf', cal')
            => conf' = file /\ UNCHANGED cal
<1>1. TypeOK /\ CheckedConflictsStay /\ [Next]_vars => Step
  <2> SUFFICES ASSUME TypeOK, CheckedConflictsStay, [Next]_vars, Running, Running',
                      ~Conflict(conf, cal), Conflict(conf', cal')
               PROVE  conf' = file /\ UNCHANGED cal
      OBVIOUS
  <2>1. CASE cal.phase = "Idle"
    <3>1. StartCalibration
        BY <2>1, SessionBegins DEF Conflict
    <3>2. conf' = conf /\ conf.disableUntil = 0 /\ conf.adapterDisableUntil = 0
        BY <3>1 DEF StartCalibration, StartAdmitted
    <3> QED BY <3>2 DEF Conflict
  <2>2. CASE cal.phase # "Idle"
    <3>1. /\ conf.disableUntil = 0 /\ conf.adapterDisableUntil = 0
          /\ conf'.disableUntil # 0 \/ conf'.adapterDisableUntil # 0
        BY <2>2 DEF Conflict
    <3>2. ASSUME NEW d \in Durations, SetDisableForCommit(d) PROVE FALSE
        BY <2>2, <3>2, NoTxnOp DEF SetDisableForCommit, CheckedConflictsStay
    <3>3. ASSUME NEW d \in Durations, SetAdapterDisableForCheck(d) PROVE FALSE
        BY <2>2, <3>3 DEF SetAdapterDisableForCheck, calibrationOwnsChargeLimit
    <3>4. Reload
        BY <3>1, <3>2, <3>3, TimerSteps
    <3> QED BY <3>4 DEF Reload
  <2> QED BY <2>1, <2>2
<1>2. TypeOK /\ CheckedConflictsStay /\ [Next]_vars => [Step]_vars
    BY <1>1
<1> QED BY <1>2, TypeCorrect, ChecksStayTrue, PTL DEF Spec, ConflictsComeFromFile

-----------------------------------------------------------------------------
(* The adapter's deadline: saved before the power is cut.                  *)

\* A request's pass runs while its handler holds the transition lock.
RequestHoldsLock == Running /\ pass.by = "request" => txn.op = "pass"

\* Past the saving step the deadline is in the file, and whoever is about to
\* cut the power has it in memory.
DeadlineSaved ==
    Running =>
        /\ conf.adapterDisableUntil # 0 /\ txn.op # "adapterSave"
               => file.adapterDisableUntil # 0
        /\ txn.op \in {"adapterSave", "adapterCut", "adapterKeep"}
               => conf.adapterDisableUntil # 0

\* Only Start brings a process to life.
LEMMA UpStaysRunning ==
    ASSUME [Next]_vars, ~Running, ~Start
    PROVE  ~Running'
<1>1. UNCHANGED <<daemon>>
    BY DEF Next, Tick, vars, Lifecycle, LimitRequest, AdapterRequest,
       CalibrationRequest, Pass, MainLoop, Running, Asked, Crash, Shutdown,
       ResetChargeControl, Exit, Reload, SetLimitCheck, SetLimitCommit,
       SetDisableForCheck, SetDisableForCommit, SetLowerLimitDelta, SetAdapterCheck,
       SetAdapterCommit, SetAdapterDisableForCheck, SetAdapterDisableForSave,
       SetAdapterDisableForCut, StartCalibration, PauseCalibration,
       ResumeCalibration, CancelCalibration, PassDue, PassCalibrates, Driving,
       PassReads, PassGoesOn,
       PassFails, PassPanics, PassReconciles, PassHysteresis, PassNoMaintain,
       LoopTop, LoopRestoreCheck, LoopRestore, LoopRestoreInvalid,
       LoopRestorePanics, LoopAdapterCheck, LoopAdapterKeep, LoopAdapterEnable,
       LoopAdapterClear
<1> QED BY <1>1 DEF Running

LEMMA RequestHoldsLockStep ==
    ASSUME RequestHoldsLock, [Next]_vars
    PROVE  RequestHoldsLock'
<1> SUFFICES ASSUME Running' PROVE RequestHoldsLock'
    BY DEF RequestHoldsLock
<1>0. ASSUME pass' = NoPass PROVE RequestHoldsLock'
    BY <1>0 DEF RequestHoldsLock, NoPass
<1>1. ASSUME Running, pass' = pass, txn' = txn \/ txn.op # "pass"
      PROVE  RequestHoldsLock'
    BY <1>1 DEF RequestHoldsLock
<1>2. CASE Start
    BY <1>0, <1>2 DEF Start
<1>3. CASE ~Running /\ ~Start
    BY <1>3, UpStaysRunning
<1>4. CASE Running /\ Lifecycle
    BY <1>0, <1>1, <1>2, <1>4
    DEF Lifecycle, Crash, Shutdown, ResetChargeControl, Exit, Forget, Reload
<1>5. CASE Running /\ LimitRequest
    BY <1>1, <1>5, NoTxnOp DEF LimitRequest, SetLimitCheck, SetLimitCommit,
       SetDisableForCheck, SetDisableForCommit, SetLowerLimitDelta
<1>6. CASE Running /\ AdapterRequest
    BY <1>1, <1>6, NoTxnOp DEF AdapterRequest, SetAdapterCheck, SetAdapterCommit,
       SetAdapterDisableForCheck, SetAdapterDisableForSave, SetAdapterDisableForCut
<1>7. CASE Running /\ CalibrationRequest
    BY <1>1, <1>7 DEF CalibrationRequest, StartCalibration, PauseCalibration,
       ResumeCalibration, CancelCalibration
<1>8. CASE Running /\ Pass
  <2>1. ASSUME NEW by \in Callers, NEW charge \in Charges,
               PassReads(by, charge) \/ PassGoesOn(by, charge)
        PROVE  RequestHoldsLock'
      BY <2>1 DEF PassReads, PassGoesOn, PassDue, Driving, RequestHoldsLock
  <2> QED BY <1>0, <1>8, <2>1, Zenon DEF Pass, PassCalibrates, PassFails, PassPanics,
          PassReconciles, PassHysteresis, PassNoMaintain, Return
<1>9. CASE Running /\ MainLoop
    BY <1>0, <1>1, <1>9, NoTxnOp DEF MainLoop, LoopTop, LoopRestoreCheck, LoopRestore,
       LoopRestoreInvalid, LoopRestorePanics, Forget, LoopAdapterCheck,
       LoopAdapterKeep, LoopAdapterEnable, LoopAdapterClear
<1>10. CASE Running /\ (Tick \/ UNCHANGED vars)
    BY <1>1, <1>10 DEF Tick, vars
<1> QED BY <1>2, <1>3, <1>4, <1>5, <1>6, <1>7, <1>8, <1>9, <1>10 DEF Next

\* A save that is not torn leaves the file as it was or equal to what is saved.
LEMMA SavedFile ==
    ASSUME "torn" \notin SaveOutcomes, NEW c, NEW outcome \in SaveOutcomes,
           Saved(c, outcome)
    PROVE  file' = c \/ file' = file
BY ChargeControlAssumption DEF Saved

\* What a step of a living daemon does to the deadline, to the file and to a
\* transaction that is about to cut the power.
LEMMA DeadlineSteps ==
    ASSUME TypeOK, RequestHoldsLock, [Next]_vars, Running, Running',
           "torn" \notin SaveOutcomes, "reload" \notin Requests
    PROVE  /\ file' = file \/ file' = conf'
           /\ \/ /\ txn' = txn
                 /\ conf'.adapterDisableUntil = conf.adapterDisableUntil
              \/ /\ txn.op # "adapterSave"
                 /\ txn'.op \notin {"adapterSave", "adapterCut", "adapterKeep"}
                 /\ conf'.adapterDisableUntil \in {0, conf.adapterDisableUntil}
              \/ \E d \in Durations : SetAdapterDisableForCheck(d)
              \/ SetAdapterDisableForSave
              \/ LoopAdapterCheck
<1> DEFINE Kept == /\ txn' = txn
                   /\ conf'.adapterDisableUntil = conf.adapterDisableUntil
           Done == /\ txn.op # "adapterSave"
                   /\ txn'.op \notin {"adapterSave", "adapterCut", "adapterKeep"}
                   /\ conf'.adapterDisableUntil \in {0, conf.adapterDisableUntil}
           Cuts == \/ \E d \in Durations : SetAdapterDisableForCheck(d)
                   \/ SetAdapterDisableForSave
                   \/ LoopAdapterCheck
           FileFollows == file' = file \/ file' = conf'
<1> SUFFICES FileFollows /\ (Kept \/ Done \/ Cuts)
    BY Zenon
<1>0. ASSUME UNCHANGED <<conf, file>>, txn' = txn PROVE FileFollows /\ Kept
    BY <1>0
<1>1. ASSUME UNCHANGED <<conf, file>>, txn.op # "adapterSave",
             txn'.op \notin {"adapterSave", "adapterCut", "adapterKeep"}
      PROVE  FileFollows /\ Done
    BY <1>1
<1>2. CASE Lifecycle
  <2>1. ~Start /\ ~Crash /\ ~Exit /\ ~Reload
      BY DEF Start, Crash, Exit, Reload, Running
  <2> QED BY <1>0, <1>2, <2>1 DEF Lifecycle, Shutdown, ResetChargeControl
<1>3. CASE LimitRequest
  <2>1. ASSUME NEW l \in Limits, SetLimitCheck(l) PROVE FileFollows /\ Done
      BY <1>1, <2>1, NoTxnOp DEF SetLimitCheck
  <2>2. CASE SetLimitCommit
    <3>1. txn.op = "limit" /\ txn'.op \in {"none", "pass"}
        BY <2>2, NoTxnOp DEF SetLimitCommit
    <3>2. FileFollows
        BY <2>2, SavedFile, Zenon DEF SetLimitCommit
    <3> QED BY <2>2, <3>1, <3>2, SetLimitCommitTimers
  <2>3. CASE SetDisableForCheck
      BY <1>1, <2>3, NoTxnOp DEF SetDisableForCheck
  <2>4. ASSUME NEW d \in Durations, SetDisableForCommit(d) PROVE FileFollows /\ Done
    <3>1. txn.op = "disableFor" /\ txn'.op \in {"none", "pass"}
      <4>1. txn.op = "disableFor" /\ (txn' = NoTxn \/ txn' = [op |-> "pass", arg |-> 0])
          BY <2>4, Zenon DEF SetDisableForCommit
      <4> QED BY <4>1, NoTxnOp
    <3>2. FileFollows
        BY <2>4, SavedFile, Zenon DEF SetDisableForCommit
    <3>3. conf'.adapterDisableUntil = conf.adapterDisableUntil
      <4> DEFINE until == now + d
                 top == 100
      <4>1. top \in 0..100 /\ until \in Nat /\ txn.arg \in 0..100 /\ conf \in Conf
          BY ChargeControlAssumption DEF TypeOK, Transaction
      <4>2. conf' = [conf EXCEPT !.limit = top, !.disableUntil = until,
                                 !.preDisableLimit = txn.arg]
          BY <2>4, Zenon DEF SetDisableForCommit
      <4> HIDE DEF until, top
      <4> QED BY <4>1, <4>2 DEF Conf
    <3> QED BY <3>1, <3>2, <3>3
  <2>5. ASSUME NEW d \in Deltas, SetLowerLimitDelta(d) PROVE FileFollows /\ Kept
    <3>1. FileFollows
        BY <2>5, SavedFile, Zenon DEF SetLowerLimitDelta
    <3>2. conf' = [conf EXCEPT !.delta = conf.limit - (conf.limit - d)]
        BY <2>5 DEF SetLowerLimitDelta, SetLowerLimit
    <3>3. conf.limit - (conf.limit - d) \in 1..100
        BY ChargeControlAssumption DEF TypeOK, Conf
    <3>4. SameTimers(conf', conf)
        BY <3>2, <3>3, DeltaWritten DEF SameLimits, SameTimers, TypeOK
    <3> QED BY <2>5, <3>1, <3>4 DEF SetLowerLimitDelta, SameTimers
  <2> QED BY <1>3, <2>1, <2>2, <2>3, <2>4, <2>5 DEF LimitRequest
<1>4. CASE AdapterRequest
  <2>1. ASSUME NEW d \in BOOLEAN, SetAdapterCheck(d) PROVE FileFollows /\ Done
      BY <1>1, <2>1, NoTxnOp DEF SetAdapterCheck
  <2>2. CASE SetAdapterCommit \/ SetAdapterDisableForCut
    <3>1. txn.op # "adapterSave" /\ txn' = NoTxn
        BY <2>2 DEF SetAdapterCommit, SetAdapterDisableForCut
    <3>2. FileFollows
        BY <2>2, SavedFile, Zenon DEF SetAdapterCommit, SetAdapterDisableForCut
    <3>3. conf' = conf \/ conf' = ClearAdapterDisableTimer(conf)
        BY <2>2 DEF SetAdapterCommit, SetAdapterDisableForCut
    <3> QED BY <3>1, <3>2, <3>3, NoTxnOp, AdapterTimerCleared
            DEF SameLimits, SameTimers, TypeOK
  <2>3. ASSUME NEW d \in Durations, SetAdapterDisableForCheck(d) PROVE FileFollows
      BY <2>3 DEF SetAdapterDisableForCheck
  <2>4. CASE SetAdapterDisableForSave
    <3>1. PICK outcome \in SaveOutcomes :
              /\ Saved(conf, outcome)
              /\ outcome = "ok" => conf' = conf
        BY <2>4, Zenon DEF SetAdapterDisableForSave
    <3>2. FileFollows
        BY <3>1, ChargeControlAssumption DEF Saved
    <3> QED BY <2>4, <3>2
  <2> QED BY <1>4, <2>1, <2>2, <2>3, <2>4 DEF AdapterRequest
<1>5. CASE CalibrationRequest
  <2>1. CASE CancelCalibration
    <3>1. conf' = RestoredLimits(conf, cal) /\ ~RestorePanics(conf, cal)
        BY <2>1, Zenon DEF CancelCalibration
    <3>2. SameTimers(RestoredLimits(conf, cal), conf)
        BY <3>1, LimitsRestored, Zenon DEF SameLimits, SameTimers, TypeOK
    <3>3. FileFollows
        BY <2>1, SavedFile, Zenon DEF CancelCalibration
    <3> QED BY <2>1, <3>1, <3>2, <3>3 DEF CancelCalibration, SameTimers
  <2> QED BY <1>0, <1>5, <2>1 DEF CalibrationRequest, StartCalibration,
          PauseCalibration, ResumeCalibration
<1>6. CASE Pass
  <2>1. ASSUME NEW by \in Callers, NEW charge,
               PassDue(by) \/ Driving(by, charge), Running, Return(by)
        PROVE  txn' = txn \/ (txn.op # "adapterSave" /\ txn' = NoTxn)
      BY <2>1 DEF PassDue, Driving, Return, RequestHoldsLock
  <2>2. ASSUME NEW by \in Callers, NEW charge \in Charges, PassCalibrates(by, charge)
        PROVE  FileFollows /\ (Kept \/ Done)
    <3>1. conf'.adapterDisableUntil = conf.adapterDisableUntil
        BY <2>2, ApplyTimers DEF PassCalibrates, SameTimers
    <3>2. FileFollows
      <4>1. applyCalibrationWithinLoop(charge)
          BY <2>2 DEF PassCalibrates
      <4>2. CASE BeginCharging(charge) \/ RestoreAndFinish
          BY <4>2, SavedFile, Zenon DEF BeginCharging, RestoreAndFinish
      <4>3. CASE ~BeginCharging(charge) /\ ~RestoreAndFinish
          BY <4>1, <4>3 DEF applyCalibrationWithinLoop, KeepDischarging,
             FinishCharging, KeepHolding, DrainToLimit
      <4> QED BY <4>2, <4>3
    <3> QED BY <2>1, <2>2, <3>1, <3>2, NoTxnOp DEF PassCalibrates
  <2>3. ASSUME NEW by \in Callers,
               PassFails(by) \/ \E charge \in Charges : PassPanics(by, charge)
        PROVE  FileFollows /\ (Kept \/ Done)
    <3>1. UNCHANGED <<conf, file>> /\ Return(by)
        BY <2>3 DEF PassFails, PassPanics
    <3>2. PICK charge : PassDue(by) \/ Driving(by, charge)
        BY <2>3, Zenon DEF PassFails, PassPanics
    <3> QED BY <1>0, <1>1, <2>1, <3>1, <3>2, NoTxnOp
  <2>4. CASE PassReconciles \/ PassHysteresis \/ PassNoMaintain
    <3>1. UNCHANGED <<conf, file>> /\ Return(pass.by)
        BY <2>4 DEF PassReconciles, PassHysteresis, PassNoMaintain
    <3>2. txn' = txn \/ (txn.op # "adapterSave" /\ txn' = NoTxn)
        BY <3>1 DEF Return, RequestHoldsLock
    <3> QED BY <1>0, <1>1, <3>1, <3>2, NoTxnOp
  <2>5. ASSUME NEW by \in Callers, NEW charge \in Charges,
               PassReads(by, charge) \/ PassGoesOn(by, charge)
        PROVE  FileFollows /\ Kept
      BY <1>0, <2>5 DEF PassReads, PassGoesOn
  <2> QED BY <1>6, <2>2, <2>3, <2>4, <2>5 DEF Pass
<1>7. CASE MainLoop
  <2>1. CASE LoopTop
      BY <1>0, <2>1 DEF LoopTop
  <2>2. CASE LoopRestoreCheck
      BY <1>0, <1>1, <2>2, NoTxnOp DEF LoopRestoreCheck
  <2>3. CASE LoopRestore
    <3>1. FileFollows
        BY <2>3, SavedFile, Zenon DEF LoopRestore
    <3>2. /\ [conf EXCEPT !.limit = conf.preDisableLimit] \in Conf
          /\ SameTimers([conf EXCEPT !.limit = conf.preDisableLimit], conf)
        BY LimitWritten DEF SameLimits, SameTimers, TypeOK, Conf
    <3>3. conf' = ClearDisableTimer([conf EXCEPT !.limit = conf.preDisableLimit])
        BY <2>3 DEF LoopRestore
    <3>4. conf'.adapterDisableUntil = conf.adapterDisableUntil
        BY <3>2, <3>3, DisableTimerCleared DEF SameLimits, SameTimers
    <3> QED BY <2>3, <3>1, <3>4, NoTxnOp DEF LoopRestore
  <2>4. CASE LoopRestoreInvalid
    <3>1. FileFollows
        BY <2>4, SavedFile, Zenon DEF LoopRestoreInvalid
    <3> QED BY <2>4, <3>1, NoTxnOp, DisableTimerCleared
            DEF SameLimits, SameTimers, LoopRestoreInvalid, TypeOK
  <2>5. ~LoopRestorePanics
      BY DEF LoopRestorePanics, Running
  <2>6. CASE LoopAdapterCheck
      BY <2>6 DEF LoopAdapterCheck
  <2>7. CASE LoopAdapterKeep
      BY <1>1, <2>7, NoTxnOp DEF LoopAdapterKeep
  <2>8. CASE LoopAdapterEnable
    <3>1. txn.op = "adapterBack" /\ txn'.op \in {"adapterClear", "none"}
      <4>1. /\ txn.op = "adapterBack"
            /\ txn' = [op |-> "adapterClear", arg |-> 0] \/ txn' = NoTxn
          BY <2>8, Zenon DEF LoopAdapterEnable
      <4> QED BY <4>1, NoTxnOp
    <3>2. UNCHANGED <<conf, file>>
        BY <2>8 DEF LoopAdapterEnable
    <3> QED BY <1>1, <3>1, <3>2
  <2>9. CASE LoopAdapterClear
    <3>1. FileFollows
        BY <2>9, SavedFile, Zenon DEF LoopAdapterClear
    <3> QED BY <2>9, <3>1, NoTxnOp, AdapterTimerCleared
            DEF SameLimits, SameTimers, LoopAdapterClear, TypeOK
  <2> QED BY <1>7, <2>1, <2>2, <2>3, <2>4, <2>5, <2>6, <2>7, <2>8, <2>9 DEF MainLoop
<1>8. CASE Tick
    BY <1>0, <1>8 DEF Tick
<1>9. CASE UNCHANGED vars
    BY <1>0, <1>9 DEF vars
<1> QED BY <1>2, <1>3, <1>4, <1>5, <1>6, <1>7, <1>8, <1>9 DEF Next

LEMMA DeadlineSavedStep ==
    ASSUME TypeOK, RequestHoldsLock, DeadlineSaved, [Next]_vars,
           "torn" \notin SaveOutcomes, "reload" \notin Requests
    PROVE  DeadlineSaved'
<1> SUFFICES ASSUME Running' PROVE DeadlineSaved'
    BY DEF DeadlineSaved
<1>1. CASE Start
    BY <1>1, NoTxnOp DEF Start, DeadlineSaved
<1>2. CASE ~Running /\ ~Start
    BY <1>2, UpStaysRunning
<1>3. CASE Running
  <2>1. ASSUME NEW d \in Durations, SetAdapterDisableForCheck(d) PROVE DeadlineSaved'
    <3>1. now + d # 0 /\ now + d \in Nat
        BY ChargeControlAssumption DEF TypeOK
    <3>2. conf'.adapterDisableUntil = now + d /\ txn'.op = "adapterSave"
        BY <2>1 DEF SetAdapterDisableForCheck, TypeOK, Conf
    <3> QED BY <3>1, <3>2 DEF DeadlineSaved
  <2>2. CASE SetAdapterDisableForSave
    <3>1. conf.adapterDisableUntil # 0
        BY <1>3, <2>2 DEF SetAdapterDisableForSave, DeadlineSaved
    <3>2. PICK outcome \in SaveOutcomes :
              /\ Saved(conf, outcome)
              /\ \/ /\ outcome = "ok" /\ conf' = conf
                    /\ txn' = [op |-> "adapterCut", arg |-> 0]
                 \/ txn' = NoTxn /\ conf' = ClearAdapterDisableTimer(conf)
        BY <2>2, Zenon DEF SetAdapterDisableForSave
    <3>3. CASE outcome = "ok" /\ conf' = conf /\ txn' = [op |-> "adapterCut", arg |-> 0]
        BY <3>1, <3>2, <3>3 DEF Saved, DeadlineSaved
    <3>4. CASE txn' = NoTxn /\ conf' = ClearAdapterDisableTimer(conf)
        BY <3>4, NoTxnOp, AdapterTimerCleared
           DEF SameLimits, SameTimers, TypeOK, DeadlineSaved
    <3> QED BY <3>2, <3>3, <3>4
  <2>3. CASE LoopAdapterCheck
    <3>1. UNCHANGED <<conf, file>> /\ txn.op = "none"
        BY <2>3, NoTxnOp DEF LoopAdapterCheck
    <3>2. CASE conf.adapterDisableUntil # 0
        BY <1>3, <3>1, <3>2 DEF DeadlineSaved
    <3>3. CASE conf.adapterDisableUntil = 0
      <4>1. txn' = txn
          BY <2>3, <3>3, Zenon DEF LoopAdapterCheck
      <4> QED BY <3>1, <3>3, <4>1 DEF DeadlineSaved
    <3> QED BY <3>2, <3>3
  <2>4. CASE /\ file' = file \/ file' = conf'
             /\ \/ /\ txn' = txn
                   /\ conf'.adapterDisableUntil = conf.adapterDisableUntil
                \/ /\ txn.op # "adapterSave"
                   /\ txn'.op \notin {"adapterSave", "adapterCut", "adapterKeep"}
                   /\ conf'.adapterDisableUntil \in {0, conf.adapterDisableUntil}
      BY <1>3, <2>4 DEF DeadlineSaved
  <2> QED BY <1>3, <2>1, <2>2, <2>3, <2>4, DeadlineSteps, Zenon
<1> QED BY <1>1, <1>2, <1>3

\* Outside a session the power is cut only because the user said so for good, or
\* with the deadline that brings it back already in the file: setAdapterDisableFor
\* saves before it cuts (pkg/daemon/handlers.go).  A SIGHUP or a torn file breaks
\* this, so both are excluded.
THEOREM CutsAreBacked ==
    ASSUME "torn" \notin SaveOutcomes, "reload" \notin Requests
    PROVE  Spec => CutIsBacked
<1> DEFINE Backed == Running /\ cal.phase = "Idle" /\ hw.adapter /\ ~hw'.adapter
                         => txn.op = "adapter" \/ file.adapterDisableUntil # 0
<1>1. Init => RequestHoldsLock /\ DeadlineSaved
    BY DEF Init, RequestHoldsLock, DeadlineSaved, Running
<1>2. TypeOK /\ RequestHoldsLock /\ DeadlineSaved /\ [Next]_vars
          => RequestHoldsLock' /\ DeadlineSaved'
    BY RequestHoldsLockStep, DeadlineSavedStep
<1>3. TypeOK /\ DeadlineSaved /\ [Next]_vars => Backed
  <2> SUFFICES ASSUME TypeOK, DeadlineSaved, [Next]_vars, Running, cal.phase = "Idle",
                      hw.adapter, ~hw'.adapter
               PROVE  txn.op = "adapter" \/ file.adapterDisableUntil # 0
      OBVIOUS
  <2>1. CASE SetAdapterCommit
      BY <2>1 DEF SetAdapterCommit
  <2>2. CASE SetAdapterDisableForCut \/ LoopAdapterKeep
      BY <2>2 DEF SetAdapterDisableForCut, LoopAdapterKeep, DeadlineSaved
  <2>3. ~CancelCalibration
      BY DEF CancelCalibration
  <2>4. ~PassNoMaintain
    <3>1. ASSUME CancelForPermanentDisable(hw.charging \/ ~pass.charging) PROVE FALSE
      <4>1. hw' = [hw EXCEPT !.charging = hw.charging \/ ~pass.charging]
          BY <3>1, Zenon DEF CancelForPermanentDisable
      <4> QED BY <4>1 DEF TypeOK, Hardware
    <3>2. ASSUME UNCHANGED <<session, machine>> PROVE FALSE
        BY <3>2
    <3> QED BY <3>1, <3>2, Zenon DEF PassNoMaintain
  <2>5. ASSUME NEW by \in Callers, NEW charge \in Charges, PassCalibrates(by, charge)
        PROVE  FALSE
      BY <2>5 DEF PassCalibrates, CalibrationRuns, SessionActive
  <2> QED BY <2>1, <2>2, <2>3, <2>4, <2>5, AdapterCuts
<1>4. TypeOK /\ DeadlineSaved /\ [Next]_vars => [Backed]_vars
    BY <1>3
<1> QED BY <1>1, <1>2, <1>4, TypeCorrect, PTL DEF Spec, CutIsBacked

-----------------------------------------------------------------------------
(* The limit the user last set: which steps move the limits, and how.      *)

LEMMA BlankWritten ==
    ASSUME NEW c \in Conf
    PROVE  /\ Blank(c).wanted = c.wanted /\ Blank(c).disableUntil = 0
           /\ Blank(c).preDisableLimit = 0
<1> DEFINE zero == 0
           low == 80
           two == 2
<1>1. zero = 0
    OBVIOUS
<1>2. Blank(c) = [c EXCEPT !.limit = low, !.delta = two, !.disableUntil = zero,
                           !.preDisableLimit = zero, !.adapterDisableUntil = zero]
    BY Zenon DEF Blank
<1> HIDE DEF zero, low, two
<1> QED BY <1>1, <1>2 DEF Conf

\* What a step does to the limits in memory.
LimitSet ==
    /\ txn.op = "limit" /\ UNCHANGED cal
    /\ conf'.limit = txn.arg /\ conf'.wanted = txn.arg
    /\ conf'.disableUntil = 0 /\ conf'.preDisableLimit = 0
LimitDisabled ==
    /\ txn.op = "disableFor" /\ UNCHANGED cal
    /\ conf'.limit = 100 /\ conf'.wanted = conf.wanted
    /\ conf'.disableUntil # 0 /\ conf'.preDisableLimit = txn.arg
LimitBack ==
    /\ txn.op = "restore" /\ UNCHANGED cal
    /\ conf'.limit = IF conf.preDisableLimit >= 10 THEN conf.preDisableLimit
                     ELSE conf.limit
    /\ conf'.wanted = conf.wanted
    /\ conf'.disableUntil = 0 /\ conf'.preDisableLimit = 0
LimitOfSession ==
    /\ cal.phase # "Idle"
    /\ conf'.wanted = conf.wanted /\ conf'.disableUntil = conf.disableUntil
    /\ conf'.preDisableLimit = conf.preDisableLimit
    /\ \/ cal'.phase # "Idle" /\ cal'.upper = cal.upper
       \/ cal'.phase = "Idle" /\ conf'.limit = cal.upper

\* The file holds what it held, or the new limits, or what a torn write left.
FileFollowsLimits ==
    \/ file' = file
    \/ \E c \in Conf : SameLimits(c, conf') /\ (file' = c \/ file' = Blank(c))

LEMMA SavedFollows ==
    ASSUME NEW c \in Conf, SameLimits(c, conf'),
           \E outcome \in SaveOutcomes : Saved(c, outcome)
    PROVE  FileFollowsLimits
BY DEF Saved, FileFollowsLimits

LEMMA SavedNew ==
    ASSUME conf' \in Conf, \E outcome \in SaveOutcomes : Saved(conf', outcome)
    PROVE  FileFollowsLimits
BY SavedFollows DEF SameLimits

LEMMA LimitRequestLimits ==
    ASSUME TypeOK, TypeOK', LimitRequest
    PROVE  FileFollowsLimits /\ UNCHANGED cal
           /\ (SameLimits(conf', conf) \/ LimitSet \/ LimitDisabled)
<1>0. ASSUME UNCHANGED limits PROVE FileFollowsLimits /\ SameLimits(conf', conf)
    BY <1>0 DEF FileFollowsLimits, SameLimits
<1>1. CASE SetLimitCommit
  <2>1. txn.op = "limit" /\ UNCHANGED cal
      BY <1>1 DEF SetLimitCommit
  <2>2. CASE UNCHANGED limits
      BY <1>0, <2>1, <2>2
  <2>3. CASE ~UNCHANGED limits
    <3> DEFINE raised == [conf EXCEPT !.limit = txn.arg]
               asked == [raised EXCEPT !.wanted = txn.arg]
    <3>1. txn.arg \in 0..100
        BY DEF TypeOK, Transaction
    <3>2. conf' = ClearDisableTimer(asked)
          /\ \E outcome \in SaveOutcomes : Saved(conf', outcome)
        BY <2>3, <1>1, Zenon DEF SetLimitCommit
    <3>3. raised \in Conf /\ raised.limit = txn.arg
        BY <3>1, LimitWritten DEF TypeOK
    <3> HIDE DEF raised
    <3>4. asked \in Conf /\ asked.limit = txn.arg /\ asked.wanted = txn.arg
        BY <3>1, <3>3, WantedWritten
    <3> HIDE DEF asked
    <3>5. LimitSet
        BY <2>1, <3>2, <3>4, DisableTimerCleared DEF LimitSet
    <3> QED BY <2>1, <3>2, <3>5, SavedNew DEF TypeOK
  <2> QED BY <2>2, <2>3
<1>2. ASSUME NEW d \in Durations, SetDisableForCommit(d)
      PROVE  FileFollowsLimits /\ LimitDisabled /\ UNCHANGED cal
  <2> DEFINE top == 100
             until == now + d
  <2>1. /\ top \in 0..100 /\ top = 100 /\ until \in Nat /\ until # 0
        /\ conf \in Conf /\ txn.arg \in 0..100
      BY ChargeControlAssumption DEF TypeOK, Transaction
  <2>2. /\ conf' = [conf EXCEPT !.limit = top, !.disableUntil = until,
                                !.preDisableLimit = txn.arg]
        /\ txn.op = "disableFor" /\ UNCHANGED cal
      BY <1>2 DEF SetDisableForCommit
  <2>3. \E outcome \in SaveOutcomes : Saved(conf', outcome)
      BY <1>2, Zenon DEF SetDisableForCommit
  <2> HIDE DEF top, until
  <2>4. LimitDisabled
      BY <2>1, <2>2 DEF Conf, LimitDisabled
  <2> QED BY <2>2, <2>3, <2>4, SavedNew DEF TypeOK
<1>3. ASSUME NEW d \in Deltas, SetLowerLimitDelta(d)
      PROVE  FileFollowsLimits /\ SameLimits(conf', conf) /\ UNCHANGED cal
  <2>1. conf' = [conf EXCEPT !.delta = conf.limit - (conf.limit - d)] /\ UNCHANGED cal
      BY <1>3 DEF SetLowerLimitDelta, SetLowerLimit
  <2>2. conf.limit - (conf.limit - d) \in 1..100
      BY ChargeControlAssumption DEF TypeOK, Conf
  <2>3. \E outcome \in SaveOutcomes : Saved(conf', outcome)
      BY <1>3, Zenon DEF SetLowerLimitDelta
  <2> QED BY <2>1, <2>2, <2>3, SavedNew, DeltaWritten DEF TypeOK
<1> QED BY <1>0, <1>1, <1>2, <1>3 DEF LimitRequest, SetLimitCheck, SetDisableForCheck

LEMMA AdapterRequestLimits ==
    ASSUME TypeOK, TypeOK', AdapterRequest
    PROVE  FileFollowsLimits /\ UNCHANGED cal /\ SameLimits(conf', conf)
<1>0. ASSUME UNCHANGED limits PROVE FileFollowsLimits /\ SameLimits(conf', conf)
    BY <1>0 DEF FileFollowsLimits, SameLimits
<1>1. ASSUME conf' = ClearAdapterDisableTimer(conf)
      PROVE  SameLimits(conf', conf)
    BY <1>1, AdapterTimerCleared DEF TypeOK
<1>2. CASE SetAdapterCommit \/ SetAdapterDisableForCut
  <2>1. /\ UNCHANGED cal
        /\ \/ UNCHANGED limits
           \/ /\ conf' = ClearAdapterDisableTimer(conf)
              /\ \E outcome \in SaveOutcomes : Saved(conf', outcome)
      BY <1>2, Zenon DEF SetAdapterCommit, SetAdapterDisableForCut
  <2> QED BY <1>0, <1>1, <2>1, SavedNew DEF TypeOK
<1>3. ASSUME NEW d \in Durations, SetAdapterDisableForCheck(d)
      PROVE  FileFollowsLimits /\ UNCHANGED cal /\ SameLimits(conf', conf)
  <2>1. /\ conf' = [conf EXCEPT !.adapterDisableUntil = now + d]
        /\ UNCHANGED <<cal, file>>
      BY <1>3 DEF SetAdapterDisableForCheck
  <2>2. now + d \in Nat
      BY ChargeControlAssumption DEF TypeOK
  <2> QED BY <2>1, <2>2, AdapterTimerWritten DEF TypeOK, FileFollowsLimits
<1>4. CASE SetAdapterDisableForSave
  <2>1. /\ \E outcome \in SaveOutcomes : Saved(conf, outcome)
        /\ conf' = conf \/ conf' = ClearAdapterDisableTimer(conf)
        /\ UNCHANGED cal
      BY <1>4, Zenon DEF SetAdapterDisableForSave
  <2>2. SameLimits(conf', conf) /\ SameLimits(conf, conf')
      BY <1>1, <2>1 DEF SameLimits
  <2> QED BY <2>1, <2>2, SavedFollows DEF TypeOK
<1> QED BY <1>0, <1>2, <1>3, <1>4 DEF AdapterRequest, SetAdapterCheck

LEMMA RestoredFits ==
    ASSUME TypeOK, ~RestorePanics(conf, cal), conf' = RestoredLimits(conf, cal)
    PROVE  /\ conf'.limit = cal.upper /\ conf'.wanted = conf.wanted
           /\ conf'.disableUntil = conf.disableUntil
           /\ conf'.preDisableLimit = conf.preDisableLimit
BY LimitsRestored DEF TypeOK

\* The lower limit, too, whatever the delta was: the upper limit is set before it.
LEMMA LowerRestored ==
    ASSUME TypeOK, conf' = RestoredLimits(conf, cal)
    PROVE  LowerLimit' = cal.lower
<1> DEFINE raised == [conf EXCEPT !.limit = cal.upper]
<1>1. conf \in Conf /\ cal.upper \in Int /\ cal.lower \in Int
  BY DEF TypeOK, Calibration
<1>2. conf' = [raised EXCEPT !.delta = cal.upper - cal.lower]
  BY <1>1 DEF RestoredLimits, SetLowerLimit, Conf
<1>3. conf'.limit = cal.upper /\ conf'.delta = cal.upper - cal.lower
  BY <1>1, <1>2 DEF Conf
<1>4. LowerLimit' = conf'.limit - conf'.delta BY DEF LowerLimit
<1> QED BY <1>1, <1>3, <1>4

\* The steps of a session that is in progress keep its snapshot, or restore it.
LEMMA ApplyLimits ==
    ASSUME TypeOK, TypeOK', CalibrationRuns,
           NEW charge \in Charges, applyCalibrationWithinLoop(charge)
    PROVE  FileFollowsLimits /\ LimitOfSession
<1>1. cal \in Calibration /\ cal.phase # "Idle"
    BY DEF TypeOK, CalibrationRuns, SessionActive
<1>2. ASSUME NEW p \in {"Charge", "Hold", "PostHold", "Restore", "Error"},
             Advance(cal) \/ Advance(Entering(p))
      PROVE  cal'.phase # "Idle" /\ cal'.upper = cal.upper
    BY <1>1, <1>2 DEF Advance, Entering, Calibration
<1>3. ASSUME UNCHANGED limits, cal'.phase # "Idle", cal'.upper = cal.upper
      PROVE  FileFollowsLimits /\ LimitOfSession
    BY <1>1, <1>3 DEF FileFollowsLimits, LimitOfSession
<1>4. CASE BeginCharging(charge) /\ ~UNCHANGED limits
  <2> DEFINE top == 100
  <2>1. top \in 0..100 /\ conf \in Conf
      BY DEF TypeOK
  <2>2. conf' = [conf EXCEPT !.limit = top]
        /\ \E outcome \in SaveOutcomes :
              /\ Saved(conf', outcome)
              /\ Advance(Entering(IF outcome = "ok" THEN "Charge" ELSE "Error"))
      BY <1>4, Zenon DEF BeginCharging
  <2> HIDE DEF top
  <2>3. cal'.phase # "Idle" /\ cal'.upper = cal.upper
    <3>1. Advance(Entering("Charge")) \/ Advance(Entering("Error"))
        BY <2>2
    <3> QED BY <1>2, <3>1
  <2>4. /\ conf'.wanted = conf.wanted /\ conf'.disableUntil = conf.disableUntil
        /\ conf'.preDisableLimit = conf.preDisableLimit
      BY <2>1, <2>2, LimitWritten
  <2> QED BY <1>1, <2>2, <2>3, <2>4, SavedNew DEF LimitOfSession, TypeOK
<1>5. CASE RestoreAndFinish
  <2>1. /\ ~RestorePanics(conf, cal) /\ conf' = RestoredLimits(conf, cal)
        /\ \E outcome \in SaveOutcomes : Saved(conf', outcome)
        /\ Advance(Entering("Idle")) \/ Advance(Entering("Error"))
      BY <1>5, Zenon DEF RestoreAndFinish
  <2>2. \/ cal'.phase = "Idle"
        \/ cal'.phase # "Idle" /\ cal'.upper = cal.upper
    <3>1. ASSUME Advance(Entering("Idle")) PROVE cal'.phase = "Idle"
        BY <1>1, <3>1 DEF Advance, Entering, Calibration
    <3> QED BY <1>2, <2>1, <3>1
  <2> QED BY <1>1, <2>1, <2>2, RestoredFits, SavedNew DEF LimitOfSession, TypeOK
<1>6. CASE \/ KeepDischarging(charge) \/ FinishCharging(charge)
           \/ KeepHolding \/ DrainToLimit(charge)
           \/ BeginCharging(charge) /\ UNCHANGED limits
  <2>1. /\ UNCHANGED limits
        /\ \E p \in {"Charge", "Hold", "PostHold", "Restore", "Error"} :
              Advance(cal) \/ Advance(Entering(p))
    <3>1. CASE KeepDischarging(charge)
        BY <3>1, Zenon DEF KeepDischarging
    <3>2. CASE FinishCharging(charge)
        BY <3>2, Zenon DEF FinishCharging
    <3>3. CASE KeepHolding
        BY <3>3, Zenon DEF KeepHolding
    <3>4. CASE DrainToLimit(charge)
        BY <3>4, Zenon DEF DrainToLimit
    <3>5. CASE BeginCharging(charge) /\ UNCHANGED limits
      <4>1. Advance(Entering("Charge")) \/ Advance(Entering("Error"))
        <5>1. \/ \E outcome \in SaveOutcomes :
                    Advance(Entering(IF outcome = "ok" THEN "Charge" ELSE "Error"))
              \/ Advance(Entering("Error"))
            BY <3>5, Zenon DEF BeginCharging
        <5> QED BY <5>1
      <4> QED BY <3>5, <4>1
    <3> QED BY <1>6, <3>1, <3>2, <3>3, <3>4, <3>5
  <2> QED BY <1>2, <1>3, <2>1
<1> QED BY <1>4, <1>5, <1>6 DEF applyCalibrationWithinLoop

LEMMA CalibrationRequestLimits ==
    ASSUME TypeOK, TypeOK', CalibrationRequest, ~StartCalibration
    PROVE  FileFollowsLimits /\ LimitOfSession
<1>1. CASE CancelCalibration
  <2>1. /\ ~RestorePanics(conf, cal) /\ conf' = RestoredLimits(conf, cal)
        /\ \E outcome \in SaveOutcomes : Saved(conf', outcome)
        /\ cal.phase # "Idle" /\ cal'.phase = "Idle"
      BY <1>1, Zenon DEF CancelCalibration, EndCalibration, NoCalibration
  <2> QED BY <2>1, RestoredFits, SavedNew DEF LimitOfSession, TypeOK
<1>2. CASE PauseCalibration \/ ResumeCalibration
  <2>1. /\ UNCHANGED limits /\ cal.phase # "Idle"
        /\ cal'.phase = cal.phase /\ cal'.upper = cal.upper
      BY <1>2 DEF PauseCalibration, ResumeCalibration, TypeOK, Calibration
  <2> QED BY <2>1 DEF FileFollowsLimits, LimitOfSession
<1> QED BY <1>1, <1>2 DEF CalibrationRequest

LEMMA MainLoopLimits ==
    ASSUME TypeOK, TypeOK', MainLoop, ~LoopRestorePanics
    PROVE  FileFollowsLimits /\ UNCHANGED cal /\ (SameLimits(conf', conf) \/ LimitBack)
<1>0. ASSUME UNCHANGED limits PROVE FileFollowsLimits /\ SameLimits(conf', conf)
    BY <1>0 DEF FileFollowsLimits, SameLimits
<1>1. CASE LoopRestore
  <2> DEFINE back == [conf EXCEPT !.limit = conf.preDisableLimit]
  <2>1. /\ conf' = ClearDisableTimer(back)
        /\ \E outcome \in SaveOutcomes : Saved(conf', outcome)
        /\ txn.op = "restore" /\ conf.preDisableLimit >= 10 /\ UNCHANGED cal
      BY <1>1, Zenon DEF LoopRestore
  <2>2. conf \in Conf /\ conf.preDisableLimit \in 0..100
      BY DEF TypeOK, Conf
  <2>3. /\ back \in Conf /\ back.limit = conf.preDisableLimit
        /\ back.wanted = conf.wanted
      BY <2>2, LimitWritten
  <2> HIDE DEF back
  <2> QED BY <2>1, <2>3, DisableTimerCleared, SavedNew DEF LimitBack, TypeOK
<1>2. CASE LoopRestoreInvalid
  <2>1. /\ conf' = ClearDisableTimer(conf)
        /\ \E outcome \in SaveOutcomes : Saved(conf', outcome)
        /\ txn.op = "restore" /\ conf.preDisableLimit < 10 /\ UNCHANGED cal
      BY <1>2, Zenon DEF LoopRestoreInvalid
  <2>2. conf \in Conf /\ conf.preDisableLimit \in 0..100
      BY DEF TypeOK, Conf
  <2> QED BY <2>1, <2>2, DisableTimerCleared, SavedNew DEF LimitBack, TypeOK
<1>3. CASE LoopAdapterClear
  <2>1. /\ conf' = ClearAdapterDisableTimer(conf) /\ UNCHANGED cal
        /\ \E outcome \in SaveOutcomes : Saved(conf', outcome)
      BY <1>3, Zenon DEF LoopAdapterClear
  <2> QED BY <2>1, AdapterTimerCleared, SavedNew DEF TypeOK
<1> QED BY <1>0, <1>1, <1>2, <1>3 DEF MainLoop, LoopTop, LoopRestoreCheck,
        LoopAdapterCheck, LoopAdapterKeep, LoopAdapterEnable

\* Every step: it reads the file, or changes the limits in one of five ways.
LEMMA LimitSteps ==
    ASSUME TypeOK, TypeOK', [Next]_vars
    PROVE  \/ /\ conf' = file /\ file' = file
              /\ Running /\ Running' => UNCHANGED cal
           \/ /\ FileFollowsLimits
              /\ \/ LimitSet \/ LimitDisabled \/ LimitBack \/ LimitOfSession
                 \/ /\ SameLimits(conf', conf)
                    /\ UNCHANGED cal \/ StartCalibration \/ PassNoMaintain
<1>0. ASSUME UNCHANGED limits PROVE FileFollowsLimits /\ SameLimits(conf', conf)
    BY <1>0 DEF FileFollowsLimits, SameLimits
<1>1. CASE Lifecycle
    BY <1>0, <1>1 DEF Lifecycle, Start, Crash, Shutdown, ResetChargeControl, Exit,
       Forget, Reload, Running
<1>2. CASE LimitRequest \/ AdapterRequest
    BY <1>2, LimitRequestLimits, AdapterRequestLimits
<1>3. CASE CalibrationRequest
  <2>1. CASE StartCalibration
      BY <1>0, <2>1 DEF StartCalibration
  <2> QED BY <1>3, <2>1, CalibrationRequestLimits
<1>4. CASE Pass
  <2>1. ASSUME NEW by \in Callers, NEW charge \in Charges, PassCalibrates(by, charge)
        PROVE  FileFollowsLimits /\ LimitOfSession
      BY <2>1, ApplyLimits DEF PassCalibrates
  <2>2. CASE PassNoMaintain
      BY <1>0, <2>2 DEF PassNoMaintain
  <2>3. CASE ~PassNoMaintain /\ ~\E by \in Callers, charge \in Charges :
                                     PassCalibrates(by, charge)
    <3>1. UNCHANGED <<limits, cal>>
        BY <1>4, <2>3, Zenon
          DEF Pass, PassReads, PassGoesOn, PassFails, PassPanics,
           PassReconciles, PassHysteresis
    <3> QED BY <1>0, <3>1
  <2> QED BY <2>1, <2>2, <2>3
<1>5. CASE MainLoop
  <2>1. CASE LoopRestorePanics
      BY <2>1 DEF LoopRestorePanics, Forget, Running
  <2> QED BY <1>5, <2>1, MainLoopLimits
<1>6. CASE Tick \/ UNCHANGED vars
    BY <1>0, <1>6 DEF Tick, vars
<1> QED BY <1>1, <1>2, <1>3, <1>4, <1>5, <1>6 DEF Next

\* A configuration the user's limit can be read from: the limit is one the user
\* asked for, and without a timer there is nothing to go back to.
LimitSound(c) == c.wanted \in Limits /\ (c.disableUntil = 0 => c.preDisableLimit = 0)

\* Whoever is past the check of a limit holds one that can be committed.
HoldsLimit ==
    /\ txn.op = "limit" => txn.arg \in Limits
    /\ txn.op = "disableFor" => txn.arg # 0

LimitsSound == LimitSound(conf) /\ LimitSound(file) /\ HoldsLimit

LEMMA HoldsLimitStep ==
    ASSUME HoldsLimit, [Next]_vars
    PROVE  HoldsLimit'
<1>0. ASSUME txn' = txn \/ txn'.op \notin {"limit", "disableFor"} PROVE HoldsLimit'
    BY <1>0 DEF HoldsLimit
<1>1. CASE Lifecycle
    BY <1>0, <1>1, NoTxnOp DEF Lifecycle, Start, Crash, Shutdown, ResetChargeControl,
       Exit, Forget, Reload
<1>2. CASE LimitRequest
  <2>1. ASSUME NEW l \in Limits, SetLimitCheck(l) PROVE HoldsLimit'
      BY <2>1 DEF SetLimitCheck, HoldsLimit
  <2>2. CASE SetDisableForCheck
      BY <2>2 DEF SetDisableForCheck, HoldsLimit
  <2>3. CASE SetLimitCommit \/ \E d \in Durations : SetDisableForCommit(d)
    <3>1. txn' = NoTxn \/ txn' = [op |-> "pass", arg |-> 0]
        BY <2>3, Zenon DEF SetLimitCommit, SetDisableForCommit
    <3> QED BY <1>0, <3>1, NoTxnOp
  <2> QED BY <1>0, <1>2, <2>1, <2>2, <2>3 DEF LimitRequest, SetLowerLimitDelta
<1>3. CASE AdapterRequest
  <2>1. \/ txn' = NoTxn
        \/ \E a : txn' = [op |-> "adapter", arg |-> a]
        \/ \E op \in {"adapterSave", "adapterCut"} : txn' = [op |-> op, arg |-> 0]
      BY <1>3, Zenon DEF AdapterRequest, SetAdapterCheck, SetAdapterCommit,
         SetAdapterDisableForCheck, SetAdapterDisableForSave, SetAdapterDisableForCut
  <2> QED BY <1>0, <2>1, NoTxnOp
<1>4. CASE CalibrationRequest
    BY <1>0, <1>4 DEF CalibrationRequest, StartCalibration, PauseCalibration,
       ResumeCalibration, CancelCalibration
<1>5. CASE Pass
  <2>1. txn' = txn \/ txn' = NoTxn
      BY <1>5, Zenon DEF Pass, PassReads, PassGoesOn, PassCalibrates, PassFails,
         PassPanics, PassReconciles, PassHysteresis, PassNoMaintain, Return
  <2> QED BY <1>0, <2>1, NoTxnOp
<1>6. CASE MainLoop
  <2>1. \/ txn' = NoTxn \/ txn' = txn
        \/ \E a : txn' = [op |-> IF loopNow < conf.adapterDisableUntil
                                 THEN "adapterKeep" ELSE "adapterBack", arg |-> a]
        \/ \E op \in {"restore", "adapterClear"} : txn' = [op |-> op, arg |-> 0]
      BY <1>6, Zenon DEF MainLoop, LoopTop, LoopRestoreCheck, LoopRestore,
         LoopRestoreInvalid, LoopRestorePanics, Forget, LoopAdapterCheck,
         LoopAdapterKeep, LoopAdapterEnable, LoopAdapterClear
  <2> QED BY <1>0, <2>1, NoTxnOp
<1>7. CASE Tick \/ UNCHANGED vars
    BY <1>0, <1>7 DEF Tick, vars
<1> QED BY <1>1, <1>2, <1>3, <1>4, <1>5, <1>6, <1>7 DEF Next

LEMMA LimitsSoundStep ==
    ASSUME TypeOK, TypeOK', LimitsSound, [Next]_vars
    PROVE  LimitsSound'
<1>1. HoldsLimit'
    BY HoldsLimitStep DEF LimitsSound
<1>2. LimitSound(conf')
    BY LimitSteps DEF LimitsSound, LimitSound, HoldsLimit, SameLimits, LimitSet,
       LimitDisabled, LimitBack, LimitOfSession
<1>3. LimitSound(file')
  <2>1. ASSUME NEW c \in Conf, SameLimits(c, conf'), file' = c \/ file' = Blank(c)
        PROVE  LimitSound(file')
      BY <1>2, <2>1, BlankWritten DEF LimitSound, SameLimits
  <2> QED BY <2>1, LimitSteps DEF FileFollowsLimits, LimitsSound
<1> QED BY <1>1, <1>2, <1>3 DEF LimitsSound

\* Whatever fails, and with any requests and any limits, the daemon forgets the
\* limit the user last set in two places only: the cancellation in
\* handleNoMaintain (loop.go) and a start from the Error phase, which replaces
\* the snapshot (calibration.go).  Apart from them only a SIGHUP does, or a state
\* that an earlier SIGHUP or a file left by a failed save has disturbed.
THEOREM LimitForgottenTwice == Spec => OnlyTwoStepsForget
<1> DEFINE Step ==
        Running /\ Running' /\ ~FileDisturbs
            /\ LimitKept(conf, cal) /\ ~LimitKept(conf', cal')
        => \/ pass.at = "act" /\ pass.plan = "noMaintain" /\ cal'.phase = "Idle"
           \/ cal.phase = "Error" /\ cal'.phase = "Discharge"
           \/ conf' = file /\ UNCHANGED cal
<1>1. Init => LimitsSound
    BY NoTxnOp DEF Init, LimitsSound, LimitSound, HoldsLimit, FreshFile
<1>2. TypeOK /\ TypeOK' /\ LimitsSound /\ [Next]_vars => LimitsSound'
    BY LimitsSoundStep
<1>3. TypeOK /\ TypeOK' /\ CheckedConflictsStay /\ LimitsSound /\ [Next]_vars => Step
  <2> SUFFICES ASSUME TypeOK, TypeOK', CheckedConflictsStay, LimitsSound, [Next]_vars,
                      Running, Running', ~FileDisturbs, LimitKept(conf, cal)
               PROVE  \/ LimitKept(conf', cal')
                      \/ /\ pass.at = "act" /\ pass.plan = "noMaintain"
                         /\ cal'.phase = "Idle"
                      \/ cal.phase = "Error" /\ cal'.phase = "Discharge"
                      \/ conf' = file /\ UNCHANGED cal
      OBVIOUS
  <2>1. conf.wanted >= 10 /\ conf.limit \in 0..100 /\ conf.preDisableLimit \in 0..100
    <3>1. conf.wanted \in 10..100
        BY ChargeControlAssumption, Zenon DEF LimitsSound, LimitSound
    <3> QED BY <3>1 DEF TypeOK, Conf
  <2>2. ASSUME txn.op # "none" PROVE cal.phase = "Idle"
      BY <2>2, NoTxnOp DEF CheckedConflictsStay
  <2>3. CASE LimitSet
      BY <2>2, <2>3 DEF LimitSet, LimitKept
  <2>4. CASE LimitDisabled
    <3>1. /\ cal.phase = "Idle" /\ UNCHANGED cal
          /\ conf'.disableUntil # 0 /\ conf'.preDisableLimit = txn.arg
          /\ conf'.wanted = conf.wanted
          /\ txn.arg = resolveDisableLimit /\ txn.arg # 0
        BY <2>2, <2>4 DEF LimitDisabled, FileDisturbs, LimitsSound, HoldsLimit
    <3>2. resolveDisableLimit = conf.wanted
        BY <2>1, <3>1 DEF resolveDisableLimit, LimitKept, FileDisturbs
    <3> QED BY <3>1, <3>2 DEF LimitKept
  <2>5. CASE LimitBack
      BY <2>1, <2>2, <2>5 DEF LimitBack, LimitKept, LimitsSound, LimitSound
  <2>6. CASE LimitOfSession
      BY <2>6 DEF LimitOfSession, LimitKept, FileDisturbs
  <2>7. CASE SameLimits(conf', conf) /\ UNCHANGED cal
      BY <2>7 DEF SameLimits, LimitKept
  <2>8. CASE StartCalibration
    <3>1. /\ conf.disableUntil = 0 /\ UNCHANGED conf /\ cal.phase \in {"Idle", "Error"}
          /\ cal'.phase = "Discharge" /\ cal'.upper = conf.limit
        BY <2>8 DEF StartCalibration, StartAdmitted, SessionActive
    <3> QED BY <3>1 DEF LimitKept
  <2>9. CASE PassNoMaintain
    <3>1. /\ pass.at = "act" /\ pass.plan = "noMaintain" /\ UNCHANGED conf
          /\ cal' = NoCalibration \/ UNCHANGED cal
        BY <2>9, Zenon DEF PassNoMaintain, CancelForPermanentDisable, EndCalibration
    <3> QED BY <3>1 DEF LimitKept, NoCalibration
  <2> QED BY <2>3, <2>4, <2>5, <2>6, <2>7, <2>8, <2>9, LimitSteps
<1>4. TypeOK /\ TypeOK' /\ CheckedConflictsStay /\ LimitsSound /\ [Next]_vars
          => [Step]_vars
    BY <1>3
<1> QED BY <1>1, <1>2, <1>4, TypeCorrect, ChecksStayTrue, PTL
        DEF Spec, OnlyTwoStepsForget

-----------------------------------------------------------------------------
(* The session that is on disk.                                            *)

\* batt.state.json is written whenever the process lives to write it.
Recorded == PersistOutcomes \subseteq {"ok", "die"}

\* A restart would find the session of the running process, paused if need be.
SessionSaved == Running => Recovered(cal) = Recovered(calFile)

LEMMA RecoveredFields ==
    ASSUME NEW st \in Calibration
    PROVE  LET r == Recovered(st) IN
           /\ r.phase = st.phase /\ r.upper = st.upper /\ r.adapterOn = st.adapterOn
           /\ r.paused = (st.paused \/ st.phase \notin {"Idle", "Restore", "Error"})
BY DEF Recovered, Calibration

LEMMA RecoveredAgain ==
    ASSUME NEW st \in Calibration
    PROVE  Recovered(Recovered(st)) = Recovered(st)
BY DEF Recovered, Calibration

LEMMA PersistedOrDead ==
    ASSUME Recorded, Running, NEW st, Persist(st)
    PROVE  \/ calFile' = st /\ Running' /\ daemon' = daemon
           \/ calFile' = calFile /\ ~Running'
<1>1. PICK outcome \in PersistOutcomes :
        /\ calFile' = IF outcome = "ok" THEN st ELSE calFile
        /\ daemon' = IF outcome = "die" THEN "down" ELSE daemon
  BY Zenon DEF Persist
<1>2. outcome \in {"ok", "die"} BY DEF Recorded
<1> QED BY <1>1, <1>2 DEF Running

\* A process that is not there touches nothing.
LEMMA DeadStep ==
    ASSUME [Next]_vars, ~Running, ~Start
    PROVE  UNCHANGED <<file, calFile, hw, daemon, adapterWanted>>
BY DEF Next, Tick, vars, Lifecycle, LimitRequest, AdapterRequest,
   CalibrationRequest, Pass, MainLoop, Running, Asked, Crash, Shutdown,
   ResetChargeControl, Exit, Reload, SetLimitCheck, SetLimitCommit,
   SetDisableForCheck, SetDisableForCommit, SetLowerLimitDelta, SetAdapterCheck,
   SetAdapterCommit, SetAdapterDisableForCheck, SetAdapterDisableForSave,
   SetAdapterDisableForCut, StartCalibration, PauseCalibration,
   ResumeCalibration, CancelCalibration, PassDue, PassCalibrates, Driving,
   PassReads, PassGoesOn, PassFails, PassPanics, PassReconciles, PassHysteresis,
   PassNoMaintain, LoopTop, LoopRestoreCheck, LoopRestore, LoopRestoreInvalid,
   LoopRestorePanics, LoopAdapterCheck, LoopAdapterKeep, LoopAdapterEnable,
   LoopAdapterClear

LEMMA SessionSavedStep ==
    ASSUME Recorded, TypeOK, SessionSaved, [Next]_vars
    PROVE  SessionSaved'
<1> SUFFICES ASSUME Running' PROVE Recovered(cal') = Recovered(calFile')
    BY DEF SessionSaved
<1>1. CASE Start
    BY <1>1, RecoveredAgain DEF Start, TypeOK
<1>2. CASE ~Running /\ ~Start
    BY <1>2, UpStaysRunning
<1>3. ASSUME Running, UNCHANGED <<cal, calFile>>
      PROVE  Recovered(cal') = Recovered(calFile')
    BY <1>3 DEF SessionSaved
<1>4. ASSUME Running, Persist(cal') PROVE Recovered(cal') = Recovered(calFile')
    BY <1>4, PersistedOrDead
<1>5. CASE Running /\ ~UNCHANGED session
  <2>1. CASE Shutdown
      BY <1>3, <1>5, <2>1 DEF Shutdown
  <2>2. CASE CalibrationRequest
      BY <1>4, <1>5, <2>2 DEF CalibrationRequest, StartCalibration, PauseCalibration,
         ResumeCalibration, CancelCalibration, EndCalibration
  <2>3. CASE PassNoMaintain
    <3>1. Persist(cal') \/ UNCHANGED session
        BY <2>3, Zenon DEF PassNoMaintain, CancelForPermanentDisable, EndCalibration
    <3> QED BY <1>3, <1>4, <1>5, <3>1
  <2>4. ASSUME NEW by \in Callers, NEW charge \in Charges, PassCalibrates(by, charge)
        PROVE  Persist(cal')
    <3>1. \E st : Advance(st)
        BY <2>4, Zenon DEF PassCalibrates, applyCalibrationWithinLoop, KeepDischarging,
           BeginCharging, FinishCharging, KeepHolding, DrainToLimit, RestoreAndFinish
    <3> QED BY <3>1 DEF Advance
  <2> QED BY <1>1, <1>4, <1>5, <2>1, <2>2, <2>3, <2>4, SessionSteps
<1> QED BY <1>1, <1>2, <1>3, <1>5

\* The pass that follows a firmware limit rests only where it is to reconcile it.
FirmwarePass == pass.at # "drive" /\ (pass.at = "act" => pass.plan = "reconcile")

\* A firmware pass never rests between its readings and the calibration.
LEMMA FirmwarePassStep ==
    ASSUME Mode = "Firmware", FirmwarePass, [Next]_vars
    PROVE  FirmwarePass'
<1>0. ASSUME pass' = NoPass \/ pass' = pass PROVE FirmwarePass'
    BY <1>0 DEF FirmwarePass, NoPass
<1>1. CASE Lifecycle
    BY <1>0, <1>1 DEF Lifecycle, Start, Crash, Shutdown, ResetChargeControl, Exit,
       Forget, Reload
<1>2. CASE LimitRequest \/ AdapterRequest \/ CalibrationRequest
    BY <1>0, <1>2 DEF LimitRequest, SetLimitCheck, SetLimitCommit, SetDisableForCheck,
       SetDisableForCommit, SetLowerLimitDelta, AdapterRequest, SetAdapterCheck,
       SetAdapterCommit, SetAdapterDisableForCheck, SetAdapterDisableForSave,
       SetAdapterDisableForCut, CalibrationRequest, StartCalibration,
       PauseCalibration, ResumeCalibration, CancelCalibration
<1>3. CASE Pass
  <2>1. ASSUME NEW by \in Callers, NEW charge \in Charges,
               PassReads(by, charge) \/ PassGoesOn(by, charge)
        PROVE  FirmwarePass'
      BY <2>1 DEF PassReads, PassGoesOn, FirmwarePass
  <2> QED BY <1>0, <1>3, <2>1, Zenon DEF Pass, PassCalibrates, PassFails, PassPanics,
          PassReconciles, PassHysteresis, PassNoMaintain, Return
<1>4. CASE MainLoop
    BY <1>0, <1>4 DEF MainLoop, LoopTop, LoopRestoreCheck, LoopRestore,
       LoopRestoreInvalid, LoopRestorePanics, Forget, LoopAdapterCheck,
       LoopAdapterKeep, LoopAdapterEnable, LoopAdapterClear
<1>5. CASE Tick \/ UNCHANGED vars
    BY <1>0, <1>5 DEF Tick, vars
<1> QED BY <1>1, <1>2, <1>3, <1>4, <1>5 DEF Next

\* In firmware mode a session that is paused ends in one way only: the
\* cancellation that puts both limits of the snapshot back.  No maintain pass ends it,
\* and the death of the process keeps it, whatever else fails.
THEOREM PausedSessionsEndRestored ==
    ASSUME Mode = "Firmware", Recorded
    PROVE  Spec => PausedSessionEndsRestored
<1> DEFINE Step == Running /\ SessionActive(cal) /\ cal.paused /\ cal'.phase = "Idle"
                       => conf'.limit = cal.upper /\ LowerLimit' = cal.lower
<1>1. Init => SessionSaved /\ FirmwarePass
    BY DEF Init, SessionSaved, FirmwarePass, Running, NoPass
<1>2. TypeOK /\ SessionSaved /\ FirmwarePass /\ [Next]_vars
          => SessionSaved' /\ FirmwarePass'
    BY SessionSavedStep, FirmwarePassStep
<1>3. TypeOK /\ SessionSaved /\ FirmwarePass /\ [Next]_vars => Step
  <2> SUFFICES ASSUME TypeOK, SessionSaved, FirmwarePass, [Next]_vars, Running,
                      SessionActive(cal), cal.paused, cal'.phase = "Idle"
               PROVE  conf'.limit = cal.upper /\ LowerLimit' = cal.lower
      OBVIOUS
  <2>1. cal.phase # "Idle" /\ ~UNCHANGED session
      BY DEF SessionActive
  <2>2. ~Start /\ ~Shutdown /\ ~PassNoMaintain
      BY <2>1 DEF Start, Shutdown, Running, PassNoMaintain, FirmwarePass
  <2>3. ASSUME NEW by \in Callers, NEW charge \in Charges, PassCalibrates(by, charge)
        PROVE  FALSE
      BY <2>3 DEF PassCalibrates, CalibrationRuns
  <2>4. ~(Forget /\ UNCHANGED <<file, calFile>> /\ ~Running')
    <3>1. cal'.phase = "Idle" /\ cal' = Recovered(calFile) => cal.phase = "Idle"
        BY RecoveredFields DEF SessionSaved, TypeOK
    <3> QED BY <2>1, <3>1 DEF Forget
  <2>5. ~StartCalibration /\ ~PauseCalibration /\ ~ResumeCalibration
    <3>1. cal \in Calibration
        BY DEF TypeOK
    <3>2. ~StartCalibration
      <4> SUFFICES ASSUME StartCalibration PROVE FALSE
          OBVIOUS
      <4>1. PICK charging, adapter :
                cal' = [phase |-> "Discharge", paused |-> FALSE, upper |-> conf.limit,
                        lower |-> LowerLimit, chargingOn |-> charging,
                        adapterOn |-> adapter]
          BY Zenon DEF StartCalibration
      <4> QED BY <4>1
    <3>3. \A v \in BOOLEAN : cal' # [cal EXCEPT !.paused = v]
        BY <2>1, <3>1 DEF Calibration
    <3> QED BY <3>2, <3>3, Zenon DEF PauseCalibration, ResumeCalibration
  <2>6. CancelCalibration
      BY <2>1, <2>2, <2>3, <2>4, <2>5, SessionSteps DEF CalibrationRequest
  <2>7. ~RestorePanics(conf, cal) /\ conf' = RestoredLimits(conf, cal)
      BY <2>6, Zenon DEF CancelCalibration
  <2>8. conf'.limit = cal.upper BY <2>7, RestoredFits
  <2>9. LowerLimit' = cal.lower BY <2>7, LowerRestored
  <2> QED BY <2>8, <2>9
<1>4. TypeOK /\ SessionSaved /\ FirmwarePass /\ [Next]_vars => [Step]_vars
    BY <1>3
<1> QED BY <1>1, <1>2, <1>4, TypeCorrect, PTL DEF Spec, PausedSessionEndsRestored

-----------------------------------------------------------------------------
(* The power adapter: what brings it back.                                 *)

\* Hardware and disk obey, the process may die, and nobody sends SIGHUP.
Dependable ==
    /\ SaveOutcomes = {"ok"} /\ Recorded
    /\ HardwareOutcomes = {TRUE}
    /\ "reload" \notin Requests

LEMMA SavedOk ==
    ASSUME Dependable, NEW outcome \in SaveOutcomes, NEW c, Saved(c, outcome)
    PROVE  file' = c /\ outcome = "ok"
BY DEF Dependable, Saved

\* The adapter's deadline in memory is the one in the file, but for a handler
\* that is about to save it.
DeadlineAgrees ==
    Running /\ txn.op # "adapterSave"
        => conf.adapterDisableUntil = file.adapterDisableUntil

\* Who is about to move the adapter has seen a deadline; who is about to clear
\* the deadline has the adapter on.
AdapterHolder ==
    Running =>
        /\ txn.op \in {"adapterSave", "adapterCut", "adapterKeep", "adapterBack",
                       "adapterClear"}
              => conf.adapterDisableUntil # 0
        /\ txn.op = "adapterBack" => txn.arg = 0 \/ hw.adapter
        /\ txn.op = "adapterClear" => hw.adapter

\* A snapshot taken with the adapter off was taken by the user's own wish.
SnapshotTold ==
    /\ calFile.phase # "Error"
    /\ calFile.phase # "Idle" /\ ~calFile.adapterOn => ~adapterWanted

\* What brings the adapter back is on disk.
AdapterCovered ==
    ~hw.adapter /\ adapterWanted
        => \/ file.adapterDisableUntil # 0
           \/ calFile.phase # "Idle" /\ calFile.adapterOn

AdapterInv ==
    SessionSaved /\ DeadlineAgrees /\ AdapterHolder /\ SnapshotTold /\ AdapterCovered

\* The steps that do not concern the adapter.
LEMMA AdapterApart ==
    ASSUME TypeOK, AdapterInv, Running, Running',
           UNCHANGED <<cal, calFile, adapterWanted>>, hw'.adapter = hw.adapter,
           conf'.adapterDisableUntil = conf.adapterDisableUntil,
           file' = conf' \/ file'.adapterDisableUntil = file.adapterDisableUntil,
           \/ txn' = txn
           \/ /\ txn.op # "adapterSave"
              /\ txn'.op \notin {"adapterSave", "adapterCut", "adapterKeep",
                                 "adapterBack", "adapterClear"}
    PROVE  AdapterInv'
BY DEF AdapterInv, SessionSaved, DeadlineAgrees, AdapterHolder, SnapshotTold,
   AdapterCovered

\* The process dies between two steps.
LEMMA AdapterSurvives ==
    ASSUME AdapterInv, ~Running', UNCHANGED <<file, calFile, adapterWanted>>,
           hw'.adapter = hw.adapter \/ hw'.adapter = TRUE
    PROVE  AdapterInv'
BY DEF AdapterInv, SessionSaved, DeadlineAgrees, AdapterHolder, SnapshotTold,
   AdapterCovered

\* A running process and its file agree about the session.
LEMMA SnapshotOnDisk ==
    ASSUME TypeOK, AdapterInv, Running
    PROVE  cal.phase = calFile.phase /\ cal.adapterOn = calFile.adapterOn
BY RecoveredFields DEF TypeOK, AdapterInv, SessionSaved

\* A step of the session, or the process's end in the middle of it.
LEMMA AdapterInSession ==
    ASSUME Recorded, TypeOK, AdapterInv, Running, txn = NoTxn, txn' = NoTxn,
           conf'.adapterDisableUntil = conf.adapterDisableUntil,
           file' = conf' \/ file' = file, UNCHANGED adapterWanted,
           NEW st \in Calibration, cal' = st, Persist(st), st.phase # "Error",
           st.phase # "Idle" /\ ~st.adapterOn => ~adapterWanted,
           ~hw'.adapter /\ adapterWanted
               => \/ file.adapterDisableUntil # 0
                  \/ /\ calFile.phase # "Idle" /\ calFile.adapterOn
                     /\ st.phase # "Idle" /\ st.adapterOn
    PROVE  AdapterInv'
<1>1. /\ conf.adapterDisableUntil = file.adapterDisableUntil
      /\ file'.adapterDisableUntil = file.adapterDisableUntil
      /\ conf'.adapterDisableUntil = file'.adapterDisableUntil
    BY NoTxnOp DEF AdapterInv, DeadlineAgrees
<1>2. SessionSaved'
    BY PersistedOrDead DEF SessionSaved
<1>3. calFile' = st \/ calFile' = calFile
    BY PersistedOrDead
<1>4. SnapshotTold' /\ AdapterCovered'
    BY <1>1, <1>3 DEF AdapterInv, SnapshotTold, AdapterCovered
<1>5. DeadlineAgrees' /\ AdapterHolder'
    BY <1>1, NoTxnOp DEF DeadlineAgrees, AdapterHolder
<1> QED BY <1>2, <1>4, <1>5 DEF AdapterInv

LEMMA RestoredAdapter ==
    ASSUME HardwareOutcomes = {TRUE}, RestoreHardware(cal)
    PROVE  hw'.adapter = cal.adapterOn
<1>1. PICK charging \in RestoredCharging(cal), limit \in RestoredFirmware(cal),
           adapter \in Written(hw.adapter, cal.adapterOn) :
          hw' = [charging |-> charging, adapter |-> adapter, limit |-> limit]
    BY Zenon DEF RestoreHardware
<1>2. adapter = cal.adapterOn
    BY DEF Written
<1> QED BY <1>1, <1>2

LEMMA LimitRequestAdapter ==
    ASSUME Dependable, TypeOK, TypeOK', AdapterInv, LimitRequest
    PROVE  AdapterInv'
<1>1. Running /\ Running' /\ UNCHANGED <<cal, calFile, adapterWanted, hw>>
    BY DEF LimitRequest, SetLimitCheck, SetLimitCommit, SetDisableForCheck,
       SetDisableForCommit, SetLowerLimitDelta, Asked, Running
<1>3. \/ txn' = txn
      \/ /\ txn.op # "adapterSave"
         /\ txn'.op \notin {"adapterSave", "adapterCut", "adapterKeep",
                            "adapterBack", "adapterClear"}
  <2>1. \/ txn' = txn
        \/ /\ txn = NoTxn \/ txn.op \in {"limit", "disableFor"}
           /\ \/ \E l : txn' = [op |-> "limit", arg |-> l]
              \/ \E l : txn' = [op |-> "disableFor", arg |-> l]
              \/ txn' = [op |-> "pass", arg |-> 0] \/ txn' = NoTxn
    <3>1. CASE SetLimitCommit
      <4>1. txn' = [op |-> "pass", arg |-> 0] \/ txn' = NoTxn
          BY <3>1, Zenon DEF SetLimitCommit
      <4> QED BY <3>1, <4>1 DEF SetLimitCommit
    <3>2. ASSUME NEW d \in Durations, SetDisableForCommit(d)
          PROVE  /\ txn.op = "disableFor"
                 /\ txn' = [op |-> "pass", arg |-> 0] \/ txn' = NoTxn
        BY <3>2, Zenon DEF SetDisableForCommit
    <3>3. ASSUME NEW l \in Limits, SetLimitCheck(l)
          PROVE  txn = NoTxn /\ \E a : txn' = [op |-> "limit", arg |-> a]
        BY <3>3, Zenon DEF SetLimitCheck
    <3>4. CASE SetDisableForCheck
        BY <3>4, Zenon DEF SetDisableForCheck
    <3>5. ASSUME NEW d \in Deltas, SetLowerLimitDelta(d) PROVE txn' = txn
        BY <3>5, Zenon DEF SetLowerLimitDelta
    <3> QED BY <3>1, <3>2, <3>3, <3>4, <3>5 DEF LimitRequest
  <2> QED BY <2>1, NoTxnOp
<1>2. /\ file' = conf' \/ file' = file
      /\ conf'.adapterDisableUntil = conf.adapterDisableUntil
  <2>1. CASE SetLimitCommit
    <3>1. UNCHANGED limits \/ \E outcome \in SaveOutcomes : Saved(conf', outcome)
        BY <2>1, Zenon DEF SetLimitCommit
    <3> QED BY <2>1, <3>1, SavedOk, SetLimitCommitTimers
  <2>2. ASSUME NEW d \in Durations, SetDisableForCommit(d)
        PROVE  file' = conf' /\ conf'.adapterDisableUntil = conf.adapterDisableUntil
    <3> DEFINE top == 100
               until == now + d
    <3>1. top \in 0..100 /\ until \in Nat /\ conf \in Conf /\ txn.arg \in 0..100
        BY ChargeControlAssumption DEF TypeOK, Transaction
    <3>2. conf' = [conf EXCEPT !.limit = top, !.disableUntil = until,
                               !.preDisableLimit = txn.arg]
        BY <2>2, Zenon DEF SetDisableForCommit
    <3>3. \E outcome \in SaveOutcomes : Saved(conf', outcome)
        BY <2>2, Zenon DEF SetDisableForCommit
    <3> HIDE DEF top, until
    <3>4. conf'.adapterDisableUntil = conf.adapterDisableUntil
        BY <3>1, <3>2 DEF Conf
    <3> QED BY <3>3, <3>4, SavedOk
  <2>3. ASSUME NEW d \in Deltas, SetLowerLimitDelta(d)
        PROVE  file' = conf' /\ conf'.adapterDisableUntil = conf.adapterDisableUntil
    <3>1. conf' = [conf EXCEPT !.delta = conf.limit - (conf.limit - d)]
        BY <2>3 DEF SetLowerLimitDelta, SetLowerLimit
    <3>2. conf.limit - (conf.limit - d) \in 1..100
        BY ChargeControlAssumption DEF TypeOK, Conf
    <3>3. \E outcome \in SaveOutcomes : Saved(conf', outcome)
        BY <2>3, Zenon DEF SetLowerLimitDelta
    <3> QED BY <3>1, <3>2, <3>3, SavedOk, DeltaWritten DEF TypeOK
  <2> QED BY <2>1, <2>2, <2>3 DEF LimitRequest, SetLimitCheck, SetDisableForCheck
<1> QED BY <1>1, <1>2, <1>3, AdapterApart

\* The adapter's own requests; the transition lock keeps the session away.
LEMMA AdapterRequestAdapter ==
    ASSUME Dependable, TypeOK, TypeOK', CheckedConflictsStay, AdapterInv, AdapterRequest
    PROVE  AdapterInv'
<1>0. FALSE \notin HardwareOutcomes
    BY DEF Dependable
<1>1. Running /\ Running' /\ UNCHANGED <<cal, calFile>>
    BY DEF AdapterRequest, SetAdapterCheck, SetAdapterCommit, SetAdapterDisableForCheck,
       SetAdapterDisableForSave, SetAdapterDisableForCut, Asked, Running
<1>2. SessionSaved'
    BY <1>1 DEF AdapterInv, SessionSaved
<1>3. ASSUME txn # NoTxn PROVE calFile.phase = "Idle"
    BY <1>1, <1>3, SnapshotOnDisk DEF CheckedConflictsStay
<1>4. ASSUME NEW d \in BOOLEAN, SetAdapterCheck(d) PROVE AdapterInv'
  <2>1. /\ txn = NoTxn /\ UNCHANGED <<conf, file, hw, adapterWanted>>
        /\ txn' = [op |-> "adapter", arg |-> IF d THEN 1 ELSE 0]
      BY <1>4 DEF SetAdapterCheck
  <2> QED BY <1>1, <2>1, NoTxnOp, AdapterApart
<1>5. CASE SetAdapterCommit
  <2>1. /\ txn.op = "adapter" /\ txn' = NoTxn
        /\ hw' = [hw EXCEPT !.adapter = (txn.arg = 1)] /\ adapterWanted' = (txn.arg = 1)
        /\ conf' = ClearAdapterDisableTimer(conf)
        /\ \E outcome \in SaveOutcomes : Saved(conf', outcome)
      BY <1>0, <1>5, Zenon DEF SetAdapterCommit
  <2>2. hw'.adapter = adapterWanted' /\ file' = conf' /\ calFile.phase = "Idle"
      BY <1>3, <2>1, NoTxnOp, SavedOk DEF TypeOK, Hardware
  <2> QED BY <1>1, <1>2, <2>1, <2>2, NoTxnOp
          DEF AdapterInv, DeadlineAgrees, AdapterHolder, SnapshotTold, AdapterCovered
<1>6. ASSUME NEW d \in Durations, SetAdapterDisableForCheck(d) PROVE AdapterInv'
  <2>1. /\ conf' = [conf EXCEPT !.adapterDisableUntil = now + d]
        /\ txn' = [op |-> "adapterSave", arg |-> 0]
        /\ UNCHANGED <<file, hw, adapterWanted>>
      BY <1>6 DEF SetAdapterDisableForCheck
  <2>2. now + d \in Nat /\ now + d # 0
      BY ChargeControlAssumption DEF TypeOK
  <2>3. conf'.adapterDisableUntil # 0
      BY <2>1, <2>2, AdapterTimerWritten DEF TypeOK
  <2>4. txn'.op = "adapterSave"
      BY <2>1
  <2> QED BY <1>1, <1>2, <2>1, <2>3, <2>4
          DEF AdapterInv, DeadlineAgrees, AdapterHolder, SnapshotTold, AdapterCovered
<1>7. CASE SetAdapterDisableForSave
  <2>1. PICK outcome \in SaveOutcomes :
            /\ Saved(conf, outcome)
            /\ \/ /\ outcome = "ok"
                  /\ txn' = [op |-> "adapterCut", arg |-> 0]
                  /\ UNCHANGED conf
               \/ /\ outcome # "ok"
                  /\ txn' = NoTxn
                  /\ conf' = ClearAdapterDisableTimer(conf)
      BY <1>7, Zenon DEF SetAdapterDisableForSave
  <2>2. file' = conf /\ outcome = "ok"
      BY <2>1, SavedOk
  <2>3. txn'.op = "adapterCut" /\ UNCHANGED <<conf, hw, adapterWanted>>
      BY <1>7, <2>1, <2>2 DEF SetAdapterDisableForSave
  <2>4. conf.adapterDisableUntil # 0
      BY <1>1, <1>7 DEF SetAdapterDisableForSave, AdapterInv, AdapterHolder
  <2> QED BY <1>1, <1>2, <2>2, <2>3, <2>4
          DEF AdapterInv, DeadlineAgrees, AdapterHolder, SnapshotTold, AdapterCovered
<1>8. CASE SetAdapterDisableForCut
  <2>1. /\ txn.op = "adapterCut" /\ txn' = NoTxn /\ UNCHANGED limits
        /\ adapterWanted' = TRUE
      BY <1>0, <1>8 DEF SetAdapterDisableForCut
  <2>2. /\ conf.adapterDisableUntil # 0 /\ calFile.phase = "Idle"
        /\ conf.adapterDisableUntil = file.adapterDisableUntil
      BY <1>1, <1>3, <2>1, NoTxnOp DEF AdapterInv, AdapterHolder, DeadlineAgrees
  <2> QED BY <1>1, <1>2, <2>1, <2>2, NoTxnOp
          DEF AdapterInv, DeadlineAgrees, AdapterHolder, SnapshotTold, AdapterCovered
<1> QED BY <1>4, <1>5, <1>6, <1>7, <1>8 DEF AdapterRequest

LEMMA MainLoopAdapter ==
    ASSUME Dependable, TypeOK, TypeOK', AdapterInv, MainLoop, ~LoopRestorePanics
    PROVE  AdapterInv'
<1>0. FALSE \notin HardwareOutcomes
    BY DEF Dependable
<1>1. Running /\ Running' /\ UNCHANGED <<cal, calFile, adapterWanted>>
    BY DEF MainLoop, LoopTop, LoopRestoreCheck, LoopRestore, LoopRestoreInvalid,
       LoopAdapterCheck, LoopAdapterKeep, LoopAdapterEnable, LoopAdapterClear, Running
<1>2. SessionSaved' /\ SnapshotTold'
    BY <1>1 DEF AdapterInv, SessionSaved, SnapshotTold
<1>3. CASE LoopTop
    BY <1>1, <1>3, AdapterApart DEF LoopTop
<1>4. CASE LoopRestoreCheck
  <2>1. /\ txn = NoTxn /\ UNCHANGED <<conf, file, hw>>
        /\ txn' = [op |-> "restore", arg |-> 0] \/ txn' = txn
      BY <1>4, Zenon DEF LoopRestoreCheck
  <2> QED BY <1>1, <2>1, NoTxnOp, AdapterApart
<1>5. CASE LoopRestore \/ LoopRestoreInvalid
  <2>1. /\ txn.op = "restore" /\ txn' = NoTxn /\ UNCHANGED hw
        /\ \E outcome \in SaveOutcomes : Saved(conf', outcome)
      BY <1>5, Zenon DEF LoopRestore, LoopRestoreInvalid
  <2>2. /\ [conf EXCEPT !.limit = conf.preDisableLimit] \in Conf
        /\ [conf EXCEPT !.limit = conf.preDisableLimit].adapterDisableUntil
              = conf.adapterDisableUntil
      BY LimitWritten DEF TypeOK, Conf
  <2>3. conf'.adapterDisableUntil = conf.adapterDisableUntil
    <3>1. CASE LoopRestore
        BY <2>2, <3>1, DisableTimerCleared DEF LoopRestore
    <3>2. CASE LoopRestoreInvalid
        BY <3>2, DisableTimerCleared DEF LoopRestoreInvalid, TypeOK
    <3> QED BY <1>5, <3>1, <3>2
  <2> QED BY <1>1, <2>1, <2>3, NoTxnOp, SavedOk, AdapterApart
<1>6. CASE LoopAdapterCheck
  <2>1. /\ txn = NoTxn /\ UNCHANGED <<conf, file, hw>>
        /\ \/ /\ conf.adapterDisableUntil # 0
              /\ txn' = [op |-> IF loopNow < conf.adapterDisableUntil
                                THEN "adapterKeep" ELSE "adapterBack",
                         arg |-> IF hw.adapter THEN 1 ELSE 0]
           \/ txn' = txn
      BY <1>6, Zenon DEF LoopAdapterCheck
  <2>2. CASE txn' = txn
      BY <1>1, <2>1, <2>2, AdapterApart
  <2>3. CASE txn' # txn
    <3>1. /\ conf.adapterDisableUntil # 0
          /\ txn'.op \in {"adapterKeep", "adapterBack"}
          /\ txn'.arg = 0 \/ hw.adapter
        BY <2>1, <2>3
    <3> QED BY <1>1, <1>2, <2>1, <3>1, NoTxnOp
            DEF AdapterInv, DeadlineAgrees, AdapterHolder, AdapterCovered
  <2> QED BY <2>2, <2>3
<1>7. CASE LoopAdapterKeep \/ LoopAdapterEnable \/ LoopAdapterClear
  <2>1. /\ txn.op \in {"adapterKeep", "adapterBack", "adapterClear"}
        /\ conf.adapterDisableUntil # 0
        /\ conf.adapterDisableUntil = file.adapterDisableUntil
      BY <1>1, <1>7 DEF LoopAdapterKeep, LoopAdapterEnable, LoopAdapterClear,
         AdapterInv, AdapterHolder, DeadlineAgrees
  <2>2. CASE LoopAdapterKeep
    <3>1. txn' = NoTxn /\ UNCHANGED limits
        BY <2>2 DEF LoopAdapterKeep
    <3> QED BY <1>1, <1>2, <2>1, <3>1, NoTxnOp
            DEF AdapterInv, DeadlineAgrees, AdapterHolder, AdapterCovered
  <2>3. CASE LoopAdapterEnable
    <3>1. /\ txn.op = "adapterBack" /\ UNCHANGED limits
          /\ txn' = [op |-> "adapterClear", arg |-> 0]
          /\ hw' = [hw EXCEPT !.adapter = @ \/ txn.arg = 0]
        BY <1>0, <2>3, Zenon DEF LoopAdapterEnable
    <3>2. hw'.adapter \in BOOLEAN /\ hw'.adapter /\ txn'.op = "adapterClear"
        BY <1>1, <3>1 DEF TypeOK, Hardware, AdapterInv, AdapterHolder
    <3> QED BY <1>1, <1>2, <2>1, <3>1, <3>2
            DEF AdapterInv, DeadlineAgrees, AdapterHolder, AdapterCovered
  <2>4. CASE LoopAdapterClear
    <3>1. /\ txn.op = "adapterClear" /\ txn' = NoTxn /\ UNCHANGED hw
          /\ \E outcome \in SaveOutcomes : Saved(conf', outcome)
        BY <2>4, Zenon DEF LoopAdapterClear
    <3>2. hw.adapter /\ file' = conf'
        BY <1>1, <3>1, SavedOk DEF AdapterInv, AdapterHolder
    <3> QED BY <1>1, <1>2, <3>1, <3>2, NoTxnOp
            DEF AdapterInv, DeadlineAgrees, AdapterHolder, AdapterCovered
  <2> QED BY <1>7, <2>2, <2>3, <2>4
<1> QED BY <1>3, <1>4, <1>5, <1>6, <1>7 DEF MainLoop

LEMMA CalibrationRequestAdapter ==
    ASSUME Dependable, TypeOK, TypeOK', CheckedConflictsStay, AdapterInv,
           CalibrationRequest
    PROVE  AdapterInv'
<1>0. HardwareOutcomes = {TRUE} /\ Recorded
    BY DEF Dependable
<1>1. Running /\ UNCHANGED <<txn, adapterWanted>>
    BY DEF CalibrationRequest, StartCalibration, PauseCalibration, ResumeCalibration,
       CancelCalibration, Asked, Running
<1>2. /\ cal.phase = calFile.phase /\ cal.adapterOn = calFile.adapterOn
      /\ cal.phase # "Error" /\ SnapshotTold /\ AdapterCovered
    BY <1>1, SnapshotOnDisk DEF AdapterInv, SnapshotTold
<1>3. cal \in Calibration /\ cal' \in Calibration
    BY DEF TypeOK
<1>4. CASE StartCalibration
  <2>1. /\ txn = NoTxn /\ cal.phase = "Idle" /\ conf.adapterDisableUntil = 0
        /\ UNCHANGED <<limits, hw>> /\ Persist(cal')
    <3>1. StartAdmitted /\ UNCHANGED <<limits, hw>> /\ Persist(cal')
        BY <1>4, Zenon DEF StartCalibration
    <3>2. cal.phase \in Phase
        BY <1>3 DEF Calibration
    <3> QED BY <1>2, <3>1, <3>2 DEF StartAdmitted, SessionActive
  <2>2. PICK charging \in IF Mode = "Firmware" THEN {TRUE}
                          ELSE {hw.charging} \union (HardwareOutcomes \ {TRUE}),
             adapter \in {hw.adapter} \union (HardwareOutcomes \ {TRUE}) :
            cal' = [phase |-> "Discharge", paused |-> FALSE, upper |-> conf.limit,
                    lower |-> LowerLimit, chargingOn |-> charging,
                    adapterOn |-> adapter]
      BY <1>4, Zenon DEF StartCalibration
  <2>3. cal'.phase = "Discharge" /\ cal'.adapterOn = hw.adapter
      BY <1>0, <2>2
  <2>4. ~(~hw.adapter /\ adapterWanted)
      BY <1>1, <1>2, <2>1, NoTxnOp DEF AdapterInv, DeadlineAgrees, AdapterCovered
  <2> QED BY <1>0, <1>1, <1>3, <2>1, <2>3, <2>4, AdapterInSession
<1>5. ASSUME cal.phase # "Idle", UNCHANGED <<limits, hw>>, Persist(cal'),
             cal'.phase = cal.phase, cal'.adapterOn = cal.adapterOn
      PROVE  AdapterInv'
  <2>1. txn = NoTxn
      BY <1>1, <1>5 DEF CheckedConflictsStay
  <2> QED BY <1>0, <1>1, <1>2, <1>3, <1>5, <2>1, AdapterInSession
          DEF SnapshotTold, AdapterCovered
<1>6. CASE PauseCalibration \/ ResumeCalibration
  <2>1. \E v \in BOOLEAN : cal' = [cal EXCEPT !.paused = v]
      BY <1>6 DEF PauseCalibration, ResumeCalibration
  <2>2. cal'.phase = cal.phase /\ cal'.adapterOn = cal.adapterOn
      BY <1>3, <2>1 DEF Calibration
  <2> QED BY <1>5, <1>6, <2>2 DEF PauseCalibration, ResumeCalibration
<1>7. CASE CancelCalibration
  <2>1. /\ cal.phase # "Idle" /\ ~RestorePanics(conf, cal)
        /\ conf' = RestoredLimits(conf, cal) /\ RestoreHardware(cal)
        /\ cal' = NoCalibration /\ Persist(NoCalibration)
        /\ \E outcome \in SaveOutcomes : Saved(conf', outcome)
      BY <1>7, Zenon DEF CancelCalibration, EndCalibration
  <2>2. txn = NoTxn /\ file' = conf'
      BY <1>1, <2>1, SavedOk DEF CheckedConflictsStay
  <2>3. conf'.adapterDisableUntil = conf.adapterDisableUntil
      BY <2>1, LimitsRestored DEF TypeOK
  <2>4. hw'.adapter = cal.adapterOn
      BY <1>0, <2>1, RestoredAdapter
  <2>5. NoCalibration.phase = "Idle"
      BY DEF NoCalibration
  <2>6. ~hw'.adapter => ~adapterWanted
      BY <1>2, <2>1, <2>4 DEF SnapshotTold
  <2> QED BY <1>0, <1>1, <1>3, <2>1, <2>2, <2>3, <2>5, <2>6, AdapterInSession
<1> QED BY <1>4, <1>6, <1>7 DEF CalibrationRequest

\* A pass that drives the calibration on.
LEMMA PassCalibratesAdapter ==
    ASSUME Dependable, TypeOK, TypeOK', CheckedConflictsStay, AdapterInv,
           NEW by \in Callers, NEW charge \in Charges, PassCalibrates(by, charge)
    PROVE  AdapterInv'
<1>0. FALSE \notin HardwareOutcomes /\ HardwareOutcomes = {TRUE} /\ Recorded
    BY DEF Dependable
<1>1. /\ Running /\ cal.phase # "Idle" /\ UNCHANGED adapterWanted
      /\ txn' = txn \/ txn' = NoTxn
    BY DEF PassCalibrates, Driving, PassDue, CalibrationRuns, SessionActive, Return
<1>2. txn = NoTxn /\ txn' = NoTxn
    BY <1>1 DEF CheckedConflictsStay
<1>3. cal \in Calibration /\ cal' \in Calibration
    BY DEF TypeOK
<1>4. /\ cal.phase = calFile.phase /\ cal.adapterOn = calFile.adapterOn
      /\ SnapshotTold /\ AdapterCovered /\ (~cal.adapterOn => ~adapterWanted)
    BY <1>1, SnapshotOnDisk DEF AdapterInv, SnapshotTold
<1>5. conf'.adapterDisableUntil = conf.adapterDisableUntil
    BY ApplyTimers DEF PassCalibrates, SameTimers
<1>6. file' = conf' \/ file' = file
  <2>1. UNCHANGED limits \/ \E outcome \in SaveOutcomes : Saved(conf', outcome)
      BY Zenon DEF PassCalibrates, applyCalibrationWithinLoop, KeepDischarging,
         BeginCharging, FinishCharging, KeepHolding, DrainToLimit, RestoreAndFinish
  <2> QED BY <2>1, SavedOk
<1>7. ASSUME NEW phase \in Phase \ {"Error"}, Advance(Entering(phase)),
             phase = "Idle" => hw'.adapter = cal.adapterOn
      PROVE  AdapterInv'
  <2>1. /\ Entering(phase) \in Calibration /\ Entering(phase).phase = phase
        /\ Entering(phase).adapterOn = cal.adapterOn
      BY <1>3, <1>7 DEF Entering, Calibration
  <2>2. cal' = Entering(phase) /\ Persist(Entering(phase))
      BY <1>7 DEF Advance
  <2> QED BY <1>0, <1>1, <1>2, <1>4, <1>5, <1>6, <1>7, <2>1, <2>2, AdapterInSession
<1>8. ASSUME Advance(cal) PROVE AdapterInv'
  <2>1. cal' = cal /\ Persist(cal) /\ cal.phase # "Error"
      BY <1>4, <1>8 DEF Advance, SnapshotTold
  <2> QED BY <1>0, <1>1, <1>2, <1>3, <1>4, <1>5, <1>6, <2>1, AdapterInSession
<1>9. CASE RestoreAndFinish
  <2>1. PICK outcome \in SaveOutcomes :
            /\ Saved(conf', outcome)
            /\ \/ /\ outcome = "ok"
                  /\ RestoreHardware(cal)
                  /\ Advance(Entering("Idle"))
               \/ /\ outcome # "ok"
                  /\ Advance(Entering("Error"))
                  /\ UNCHANGED hw
      BY <1>9, Zenon DEF RestoreAndFinish
  <2>2. RestoreHardware(cal) /\ Advance(Entering("Idle"))
      BY <2>1, SavedOk
  <2>3. hw'.adapter = cal.adapterOn /\ "Idle" \in Phase \ {"Error"}
      BY <1>0, <2>2, RestoredAdapter DEF Phase
  <2> QED BY <1>7, <2>2, <2>3
<1>10. CASE BeginCharging(charge)
  <2>1. \E outcome \in SaveOutcomes :
            /\ Saved(conf', outcome)
            /\ Advance(Entering(IF outcome = "ok" THEN "Charge" ELSE "Error"))
      BY <1>0, <1>10, Zenon DEF BeginCharging
  <2>2. Advance(Entering("Charge"))
      BY <2>1, SavedOk
  <2>3. "Charge" \in Phase \ {"Error"} /\ "Charge" # "Idle"
      BY DEF Phase
  <2> QED BY <1>7, <2>2, <2>3
<1>11. CASE KeepDischarging(charge) \/ FinishCharging(charge) \/ KeepHolding
            \/ DrainToLimit(charge)
  <2>1. \/ Advance(cal)
        \/ \E phase \in {"Hold", "PostHold", "Restore"} : Advance(Entering(phase))
      BY <1>0, <1>11 DEF KeepDischarging, FinishCharging, KeepHolding, DrainToLimit
  <2>2. \A phase \in {"Hold", "PostHold", "Restore"} :
            phase \in Phase \ {"Error"} /\ phase # "Idle"
      BY DEF Phase
  <2> QED BY <1>7, <1>8, <2>1, <2>2
<1> QED BY <1>9, <1>10, <1>11, Zenon DEF PassCalibrates, applyCalibrationWithinLoop

\* The other steps of a pass.
LEMMA PassAdapter ==
    ASSUME Dependable, TypeOK, TypeOK', CheckedConflictsStay, RequestHoldsLock,
           AdapterInv, Pass
    PROVE  AdapterInv'
<1>0. FALSE \notin HardwareOutcomes /\ HardwareOutcomes = {TRUE} /\ Recorded
    BY DEF Dependable
<1>1. ASSUME NEW by \in Callers \union {"none"}, Return(by), Running,
             by = "request" => txn.op = "pass"
      PROVE  /\ UNCHANGED adapterWanted
             /\ \/ txn' = txn
                \/ /\ txn.op # "adapterSave"
                   /\ txn'.op \notin {"adapterSave", "adapterCut", "adapterKeep",
                                      "adapterBack", "adapterClear"}
    BY <1>1, NoTxnOp DEF Return
<1>2. pass.by \in Callers \union {"none"}
    BY DEF TypeOK, MaintainPass
<1>3. ASSUME Running PROVE pass.by = "request" => txn.op = "pass"
    BY <1>3 DEF RequestHoldsLock
<1>4. CASE \E by \in Callers, charge \in Charges :
              PassReads(by, charge) \/ PassGoesOn(by, charge)
  <2>1. Running /\ UNCHANGED <<conf, file, cal, calFile, hw, daemon, txn, adapterWanted>>
      BY <1>4 DEF PassReads, PassGoesOn, PassDue, Driving
  <2>2. Running'
      BY <2>1 DEF Running
  <2> QED BY <2>1, <2>2, AdapterApart
<1>5. ASSUME NEW by \in Callers, NEW charge \in Charges, PassPanics(by, charge)
      PROVE  AdapterInv'
  <2>1. /\ Running /\ UNCHANGED <<conf, file, cal, calFile, hw>> /\ Return(by)
        /\ by = "request" => txn.op = "pass"
      BY <1>3, <1>5 DEF PassPanics, Driving, PassDue
  <2>2. CASE Running'
      BY <1>1, <2>1, <2>2, AdapterApart
  <2>3. CASE ~Running'
      BY <1>1, <2>1, <2>3, AdapterSurvives
  <2> QED BY <2>2, <2>3
<1>6. CASE PassReconciles \/ PassHysteresis
  <2>1. Running /\ UNCHANGED <<conf, file, cal, calFile, daemon>> /\ Return(pass.by)
      BY <1>6 DEF PassReconciles, PassHysteresis
  <2>2. hw'.adapter = hw.adapter
      BY <1>6 DEF PassReconciles, PassHysteresis, TypeOK, Hardware
  <2>3. Running'
      BY <2>1 DEF Running
  <2> QED BY <1>1, <1>2, <1>3, <2>1, <2>2, <2>3, AdapterApart
<1>7. CASE PassNoMaintain
  <2>1. Running /\ Return(pass.by) /\ UNCHANGED limits
        /\ CancelForPermanentDisable(hw.charging \/ ~pass.charging)
      BY <1>0, <1>7, Zenon DEF PassNoMaintain
  <2>2. CASE UNCHANGED session
    <3>1. /\ UNCHANGED daemon
          /\ hw' = [hw EXCEPT !.charging = (hw.charging \/ ~pass.charging)]
      <4>1. cal.phase = "Idle" \/ conf.disableUntil # 0
        <5>1. ASSUME EndCalibration PROVE cal.phase = "Idle"
            BY <2>2, <5>1 DEF EndCalibration, NoCalibration
        <5> QED BY <2>1, <5>1, Zenon DEF CancelForPermanentDisable
      <4> QED BY <2>1, <4>1, Zenon DEF CancelForPermanentDisable
    <3>2. hw'.adapter = hw.adapter /\ Running'
        BY <2>1, <3>1 DEF TypeOK, Hardware, Running
    <3> QED BY <1>1, <1>2, <1>3, <2>1, <2>2, <3>2, AdapterApart
  <2>3. CASE ~UNCHANGED session
    <3>1. /\ cal.phase # "Idle" /\ cal' = NoCalibration /\ Persist(NoCalibration)
          /\ \E adapter \in Written(hw.adapter, cal.adapterOn) :
                hw' = [hw EXCEPT !.charging = (hw.charging \/ ~pass.charging),
                                 !.adapter = adapter]
        BY <2>1, <2>3, Zenon DEF CancelForPermanentDisable, EndCalibration
    <3>2. hw'.adapter = cal.adapterOn
        BY <1>0, <3>1 DEF Written, TypeOK, Hardware
    <3>3. /\ txn = NoTxn /\ txn' = NoTxn /\ UNCHANGED adapterWanted
          /\ ~cal.adapterOn => ~adapterWanted
        BY <2>1, <3>1, SnapshotOnDisk
           DEF CheckedConflictsStay, Return, AdapterInv, SnapshotTold
    <3>4. NoCalibration.phase = "Idle" /\ NoCalibration \in Calibration
        BY NoCalibrationType DEF NoCalibration
    <3> QED BY <1>0, <2>1, <3>1, <3>2, <3>3, <3>4, AdapterInSession
  <2> QED BY <2>2, <2>3
<1> QED BY <1>0, <1>4, <1>5, <1>6, <1>7, PassCalibratesAdapter, Zenon DEF Pass, PassFails

LEMMA AdapterInvStep ==
    ASSUME Dependable, TypeOK, TypeOK', CheckedConflictsStay, RequestHoldsLock,
           AdapterInv, [Next]_vars
    PROVE  AdapterInv'
<1>1. CASE ~Running /\ ~Start
  <2>1. ~Running' /\ UNCHANGED <<file, calFile, hw, adapterWanted>>
      BY <1>1, UpStaysRunning, DeadStep
  <2> QED BY <2>1, AdapterSurvives
<1>2. CASE Start
  <2>1. /\ conf' = file /\ cal' = Recovered(calFile) /\ txn' = NoTxn
        /\ UNCHANGED <<file, calFile, hw, adapterWanted>>
      BY <1>2 DEF Start
  <2>2. SessionSaved'
      BY <2>1, RecoveredAgain DEF SessionSaved, TypeOK
  <2> QED BY <2>1, <2>2, NoTxnOp
          DEF AdapterInv, DeadlineAgrees, AdapterHolder, SnapshotTold, AdapterCovered
<1>3. CASE Running /\ (Crash \/ Exit \/ LoopRestorePanics)
  <2>1. daemon' \in {"down", "panicked"} /\ UNCHANGED <<file, calFile, adapterWanted>>
      BY <1>3 DEF Crash, Exit, LoopRestorePanics
  <2>2. hw'.adapter = hw.adapter \/ hw'.adapter = TRUE
    <3>1. CASE Exit
      <4>1. PICK ok \in HardwareOutcomes : hw' = [hw EXCEPT !.adapter = @ \/ ok]
          BY <3>1 DEF Exit
      <4>2. ok = TRUE
          BY DEF Dependable
      <4> QED BY <4>1, <4>2 DEF TypeOK, Hardware
    <3> QED BY <1>3, <3>1 DEF Crash, LoopRestorePanics
  <2>3. ~Running'
      BY <2>1 DEF Running
  <2> QED BY <2>1, <2>2, <2>3, AdapterSurvives
<1>4. CASE Running /\ (Shutdown \/ ResetChargeControl \/ Tick \/ UNCHANGED vars)
  <2>1. /\ UNCHANGED <<conf, file, cal, calFile, txn, adapterWanted>>
        /\ hw'.adapter = hw.adapter
      BY <1>4 DEF Shutdown, ResetChargeControl, Tick, vars, TypeOK, Hardware
  <2>2. Running'
      BY <1>4 DEF Shutdown, ResetChargeControl, Tick, vars, Running
  <2> QED BY <1>4, <2>1, <2>2, AdapterApart
<1>5. ~Reload
    BY DEF Reload, Dependable
<1> QED BY <1>1, <1>2, <1>3, <1>4, <1>5, LimitRequestAdapter, AdapterRequestAdapter,
        CalibrationRequestAdapter, MainLoopAdapter, PassAdapter
        DEF Next, Lifecycle

\* An adapter that is off against the user's last word is always on its way back:
\* whatever sequence of requests, passes and deaths of the process led here, the
\* files hold a deadline or a snapshot taken with the adapter on.
THEOREM AdapterComesBack ==
    ASSUME Dependable
    PROVE  Spec => []AdapterRecoverable
<1>1. Init => AdapterInv
    BY NoTxnOp DEF Init, AdapterInv, SessionSaved, DeadlineAgrees, AdapterHolder,
       SnapshotTold, AdapterCovered, NoCalibration, Running
<1>2. Init => RequestHoldsLock
    BY DEF Init, RequestHoldsLock, Running
<1>3. RequestHoldsLock /\ [Next]_vars => RequestHoldsLock'
    BY RequestHoldsLockStep
<1>4. TypeOK /\ TypeOK' /\ CheckedConflictsStay /\ RequestHoldsLock /\ AdapterInv
          /\ [Next]_vars => AdapterInv'
    BY AdapterInvStep
<1>5. AdapterInv => AdapterRecoverable
    BY DEF AdapterInv, AdapterCovered, AdapterRecoverable
<1> QED BY <1>1, <1>2, <1>3, <1>4, <1>5, TypeCorrect, ChecksStayTrue, PTL DEF Spec

=============================================================================
