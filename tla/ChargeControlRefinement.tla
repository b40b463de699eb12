---------------------- MODULE ChargeControlRefinement ----------------------
(***************************************************************************)
(* ChargeControl implements ChargeService, step by step: in firmware mode, *)
(* with a disk and hardware that obey and without SIGHUP, every step of    *)
(* the handlers, the main loop, the maintain passes and the calibration,   *)
(* every death of the process included, is one step of the service or none.*)
(*                                                                         *)
(* A request takes effect when its outcome is in the file, so the argument *)
(* is about the two files: what they may hold together (FilesAgree), that  *)
(* the memory of a running process says the same (MemoryAgrees), and that  *)
(* what the holder of the transition lock has read is still so             *)
(* (HolderInformed).                                                       *)
(***************************************************************************)
EXTENDS ChargeControlProofs

USE DEF limits, session, machine, mainLoop, locks, world

-----------------------------------------------------------------------------
(* What holds between any two steps.                                       *)

\* What a configuration and a session may say together: no timer runs under a
\* session, and the limit the user last set is the session's to restore, the
\* timer's, or in force.
FilesFit(c, st) ==
    /\ c.wanted \in Limits
    /\ st.phase # "Error"
    /\ st.phase = "Idle" => ~st.paused
    /\ st.phase # "Idle" =>
          /\ c.disableUntil = 0 /\ c.adapterDisableUntil = 0
          /\ st.upper = c.wanted
    /\ c.disableUntil # 0 => c.limit = 100 /\ c.preDisableLimit = c.wanted
    /\ st.phase = "Idle" /\ c.disableUntil = 0 => c.limit = c.wanted

FilesAgree == FilesFit(file, calFile)

\* A running process knows what its files say, but for an adapter deadline that is
\* about to be saved.
MemoryAgrees ==
    Running =>
        /\ Recovered(cal) = Recovered(calFile)
        /\ SameLimits(conf, file)
        /\ txn.op # "adapterSave" => conf.adapterDisableUntil = file.adapterDisableUntil

\* What the holder of the transition lock has checked and read is still so.
HolderInformed ==
    Running =>
        /\ txn.op = "limit" => txn.arg \in Limits
        /\ txn.op = "disableFor" =>
              txn.arg = conf.wanted /\ (conf.limit < 100 \/ conf.disableUntil # 0)
        /\ txn.op = "restore" => conf.disableUntil # 0
        /\ txn.op \in {"adapterSave", "adapterCut", "adapterKeep", "adapterBack",
                       "adapterClear"}
              => conf.adapterDisableUntil # 0
        /\ txn.op = "adapterBack" => txn.arg = 0 \/ hw.adapter
        /\ txn.op = "adapterClear" => hw.adapter

DiskInv == FilesAgree /\ MemoryAgrees /\ HolderInformed

\* A step of the service, or none.
ServiceStep == [Service!Next]_(Service!serviceVars)

-----------------------------------------------------------------------------
(* The session as the clients see it.                                      *)

View(st) == [phase |-> st.phase, paused |-> st.paused,
             home |-> st.phase # "Idle" /\ st.adapterOn]

\* What SessionSeen stands for, with and without a process.
LEMMA SeenIs ==
    /\ Running => SessionSeen = View(cal)
    /\ ~Running => SessionSeen = View(Recovered(calFile))
    /\ Running' => SessionSeen' = View(cal')
    /\ ~Running' => SessionSeen' = View(Recovered(calFile'))
BY DEF SessionSeen, View

\* A start recovers the session as the service interrupts it.
LEMMA ViewInterrupted ==
    ASSUME NEW st \in Calibration
    PROVE  View(Recovered(st)) = Service!Interrupted(View(st))
BY RecoveredFields DEF Service!Interrupted, View

\* A running process and its file agree about the session.
LEMMA SessionOnDisk ==
    ASSUME TypeOK, DiskInv, Running
    PROVE  /\ cal.phase = calFile.phase /\ cal.upper = calFile.upper
           /\ cal.phase # "Error"
           /\ cal.phase = "Idle" => ~cal.paused
           /\ SessionSeen = View(cal)
           /\ View(Recovered(calFile)) = Service!Interrupted(SessionSeen)
<1>1. cal \in Calibration /\ calFile \in Calibration BY DEF TypeOK
<1>2. Recovered(cal) = Recovered(calFile) BY DEF DiskInv, MemoryAgrees
<1>3. cal.phase = calFile.phase /\ cal.upper = calFile.upper
  BY <1>1, <1>2, RecoveredFields
<1>4. cal.phase # "Error" BY <1>3 DEF DiskInv, FilesAgree, FilesFit
<1>5. cal.phase = "Idle" => ~cal.paused
  <2> SUFFICES ASSUME cal.phase = "Idle" PROVE ~cal.paused OBVIOUS
  <2>1. ~calFile.paused BY <1>3 DEF DiskInv, FilesAgree, FilesFit
  <2>2. cal.paused \in BOOLEAN /\ calFile.paused \in BOOLEAN BY <1>1 DEF Calibration
  <2> QED BY <1>1, <1>2, <1>3, <2>1, <2>2, RecoveredFields
<1> QED BY <1>1, <1>2, <1>3, <1>4, <1>5, SeenIs, ViewInterrupted

\* What the service sees stays.
LEMMA NothingSeen ==
    ASSUME UNCHANGED <<Running, SessionSeen>>, hw'.adapter = hw.adapter,
           file'.limit = file.limit, file'.wanted = file.wanted,
           file'.disableUntil # 0 <=> file.disableUntil # 0,
           file'.adapterDisableUntil # 0 <=> file.adapterDisableUntil # 0
    PROVE  ServiceStep
BY DEF ServiceStep, Service!serviceVars

\* A step that changes nothing on disk.
LEMMA Quiet ==
    ASSUME TypeOK, DiskInv, Running, Running', UNCHANGED <<file, cal, calFile>>,
           hw'.adapter = hw.adapter, SameLimits(conf', conf),
           txn'.op # "adapterSave"
               => conf'.adapterDisableUntil = file.adapterDisableUntil,
           HolderInformed'
    PROVE  DiskInv' /\ ServiceStep
<1>1. FilesAgree' BY DEF DiskInv, FilesAgree, FilesFit
<1>2. MemoryAgrees' BY DEF DiskInv, MemoryAgrees, SameLimits
<1>3. UNCHANGED <<Running, SessionSeen>> BY DEF SessionSeen
<1>4. ServiceStep BY <1>3, NothingSeen
<1> QED BY <1>1, <1>2, <1>4 DEF DiskInv

\* The process ends between two steps; its session is what a restart will find.
LEMMA Death ==
    ASSUME TypeOK, DiskInv, Running, ~Running', UNCHANGED <<file, calFile>>,
           hw'.adapter \in {hw.adapter, TRUE}
    PROVE  DiskInv' /\ ServiceStep
<1>1. DiskInv' BY DEF DiskInv, FilesAgree, FilesFit, MemoryAgrees, HolderInformed
<1>2. SessionSeen' = Service!Interrupted(SessionSeen)
  BY SessionOnDisk, SeenIs
<1>3. Running' = FALSE BY DEF Running
<1>4. UNCHANGED <<file.limit, file.wanted, file.disableUntil # 0,
                  file.adapterDisableUntil # 0>>
  OBVIOUS
<1>5. Service!Stop BY <1>2, <1>3, <1>4, Zenon DEF Service!Stop
<1> QED BY <1>1, <1>5 DEF ServiceStep, Service!Next

-----------------------------------------------------------------------------
(* The requests about the limit.                                           *)

\* A commit under the lock.
LEMMA Committed ==
    ASSUME TypeOK, DiskInv, Running, Running', UNCHANGED <<cal, calFile>>,
           cal.phase = "Idle", file' = conf',
           conf'.wanted \in Limits,
           conf'.disableUntil # 0
               => conf'.limit = 100 /\ conf'.preDisableLimit = conf'.wanted,
           conf'.disableUntil = 0 => conf'.limit = conf'.wanted,
           HolderInformed'
    PROVE  DiskInv' /\ SessionSeen' = SessionSeen /\ SessionSeen.phase = "Idle"
<1>1. calFile.phase = "Idle" /\ SessionSeen.phase = "Idle"
  BY SessionOnDisk DEF View
<1>2. FilesAgree' BY <1>1 DEF FilesAgree, FilesFit, DiskInv
<1>3. MemoryAgrees' BY DEF MemoryAgrees, DiskInv, SameLimits
<1>4. SessionSeen' = SessionSeen BY DEF SessionSeen
<1> QED BY <1>1, <1>2, <1>3, <1>4 DEF DiskInv

\* setLimit.
LEMMA LimitServed ==
    ASSUME TypeOK, DiskInv, CheckedConflictsStay, Dependable, SetLimitCommit
    PROVE  DiskInv' /\ ServiceStep
<1>1. Running /\ Running' /\ txn.op = "limit" /\ cal.phase = "Idle"
  <2>1. Running /\ txn.op = "limit" /\ daemon' = daemon BY DEF SetLimitCommit
  <2>2. txn # NoTxn BY <2>1, NoTxnOp
  <2> QED BY <2>1, <2>2 DEF Running, CheckedConflictsStay
<1>2. UNCHANGED <<cal, calFile, hw>> BY DEF SetLimitCommit
<1>3. CASE CanSetUpperLimit(conf, txn.arg)
  <2> DEFINE raised == [conf EXCEPT !.limit = txn.arg]
             asked == [raised EXCEPT !.wanted = txn.arg]
  <2>0. txn.arg \in 0..100 BY DEF TypeOK, Transaction
  <2>1. txn.arg \in Limits BY <1>1 DEF DiskInv, HolderInformed
  <2>2. conf' = ClearDisableTimer(asked)
    BY <1>3 DEF SetLimitCommit
  <2>a. PICK outcome \in SaveOutcomes :
                /\ Saved(conf', outcome)
                /\ txn' = IF outcome = "ok" THEN [op |-> "pass", arg |-> 0]
                                            ELSE NoTxn
    BY <1>3, Zenon DEF SetLimitCommit
  <2>3. file' = conf' /\ txn'.op = "pass" BY <2>a, SavedOk
  <2>4. /\ raised \in Conf /\ raised.limit = txn.arg
        /\ raised.adapterDisableUntil = conf.adapterDisableUntil
    BY <2>0, LimitWritten DEF TypeOK
  <2> HIDE DEF raised
  <2>5. /\ asked \in Conf /\ asked.limit = txn.arg /\ asked.wanted = txn.arg
        /\ asked.adapterDisableUntil = conf.adapterDisableUntil
    BY <2>0, <2>4, WantedWritten
  <2> HIDE DEF asked
  <2>6. /\ conf'.limit = txn.arg /\ conf'.wanted = txn.arg /\ conf'.disableUntil = 0
        /\ conf'.adapterDisableUntil = conf.adapterDisableUntil
    BY <2>2, <2>5, DisableTimerCleared
  <2>7. HolderInformed' BY <2>3 DEF HolderInformed
  <2>8. DiskInv' /\ SessionSeen' = SessionSeen /\ SessionSeen.phase = "Idle"
    BY <1>1, <1>2, <2>1, <2>3, <2>6, <2>7, Committed
  <2>9. conf.adapterDisableUntil = file.adapterDisableUntil
    BY <1>1 DEF DiskInv, MemoryAgrees
  <2>10. Service!SetLimit(txn.arg)
    BY <1>1, <1>2, <2>3, <2>6, <2>8, <2>9 DEF Service!SetLimit, Service!Unowned, Running
  <2> QED BY <2>1, <2>8, <2>10, Zenon DEF ServiceStep, Service!Next, Service!Request
<1>4. CASE ~CanSetUpperLimit(conf, txn.arg)
  <2>1. txn' = NoTxn /\ UNCHANGED limits BY <1>4 DEF SetLimitCommit
  <2>2. HolderInformed' BY <2>1, NoTxnOp DEF HolderInformed
  <2> QED BY <1>1, <1>2, <2>1, <2>2, Quiet DEF SameLimits, DiskInv, MemoryAgrees
<1> QED BY <1>3, <1>4

\* Who takes the lock has checked; nothing is seen of it.
LEMMA Taken ==
    ASSUME TypeOK, DiskInv, Running, UNCHANGED <<limits, session, hw, daemon>>,
           txn'.op # "adapterSave", txn.op # "adapterSave", HolderInformed'
    PROVE  DiskInv' /\ ServiceStep
<1>1. Running' BY DEF Running
<1>2. conf'.adapterDisableUntil = file.adapterDisableUntil
  BY DEF DiskInv, MemoryAgrees
<1> QED BY <1>1, <1>2, Quiet DEF SameLimits

\* setDisableFor.
LEMMA DisableForServed ==
    ASSUME TypeOK, DiskInv, CheckedConflictsStay, Dependable,
           SetDisableForCheck \/ \E d \in Durations : SetDisableForCommit(d)
    PROVE  DiskInv' /\ ServiceStep
<1>1. CASE SetDisableForCheck
  <2>1. /\ Running /\ cal.phase = "Idle" /\ txn = NoTxn
        /\ UNCHANGED <<limits, session, hw, daemon>>
        /\ resolveDisableLimit # 0
        /\ txn' = [op |-> "disableFor", arg |-> resolveDisableLimit]
    BY <1>1 DEF SetDisableForCheck, Asked, Running, calibrationOwnsChargeLimit
  <2>2. calFile.phase = "Idle" BY <2>1, SessionOnDisk
  <2>3. conf.limit \in 0..100 BY DEF TypeOK, Conf
  <2>4. /\ conf.disableUntil # 0 => conf.limit = 100 /\ conf.preDisableLimit = conf.wanted
        /\ conf.disableUntil = 0 => conf.limit = conf.wanted
    BY <2>1, <2>2 DEF DiskInv, FilesAgree, FilesFit, MemoryAgrees, SameLimits
  <2>5. /\ resolveDisableLimit = conf.wanted
        /\ conf.limit < 100 \/ conf.disableUntil # 0
    BY <2>1, <2>3, <2>4 DEF resolveDisableLimit
  <2>6. txn'.op = "disableFor" /\ txn'.arg = conf.wanted BY <2>1, <2>5
  <2>7. HolderInformed' BY <2>1, <2>5, <2>6 DEF HolderInformed
  <2> QED BY <2>1, <2>6, <2>7, NoTxnOp, Taken
<1>2. ASSUME NEW d \in Durations, SetDisableForCommit(d) PROVE DiskInv' /\ ServiceStep
  <2>1. /\ Running /\ Running' /\ txn.op = "disableFor"
        /\ UNCHANGED <<cal, calFile, hw>>
    BY <1>2 DEF SetDisableForCommit, Running
  <2>2. cal.phase = "Idle" BY <2>1, NoTxnOp DEF CheckedConflictsStay
  <2>3. /\ txn.arg = conf.wanted /\ conf.wanted \in 0..100
        /\ conf.limit < 100 \/ conf.disableUntil # 0
    BY <2>1 DEF DiskInv, HolderInformed, TypeOK, Conf
  <2> DEFINE top == 100
             until == now + d
  <2>4. top \in 0..100 /\ until \in Nat /\ until # 0 /\ top = 100
    BY ChargeControlAssumption DEF TypeOK
  <2>5. conf' = [conf EXCEPT !.limit = top, !.disableUntil = until,
                             !.preDisableLimit = txn.arg]
    BY <1>2 DEF SetDisableForCommit
  <2>6. conf \in Conf /\ txn.arg \in 0..100 BY <2>3 DEF TypeOK
  <2> HIDE DEF top, until
  <2>7. /\ conf'.limit = top /\ conf'.wanted = conf.wanted /\ conf'.disableUntil = until
        /\ conf'.preDisableLimit = txn.arg
        /\ conf'.adapterDisableUntil = conf.adapterDisableUntil
    BY <2>4, <2>5, <2>6 DEF Conf
  <2>8. PICK outcome \in SaveOutcomes :
          /\ Saved(conf', outcome)
          /\ txn' = IF outcome = "ok" THEN [op |-> "pass", arg |-> 0] ELSE NoTxn
    BY <1>2, Zenon DEF SetDisableForCommit
  <2>9. file' = conf' /\ txn'.op = "pass" BY <2>8, SavedOk
  <2>10. HolderInformed' BY <2>9 DEF HolderInformed
  <2>11. /\ SameLimits(conf, file) /\ file.wanted \in Limits
         /\ conf.adapterDisableUntil = file.adapterDisableUntil
    BY <2>1 DEF DiskInv, MemoryAgrees, FilesAgree, FilesFit
  <2>12. DiskInv' /\ SessionSeen' = SessionSeen /\ SessionSeen.phase = "Idle"
    BY <2>1, <2>2, <2>3, <2>4, <2>7, <2>9, <2>10, <2>11, Committed DEF SameLimits
  <2>13. Service!DisableFor
    BY <2>1, <2>3, <2>4, <2>7, <2>9, <2>11, <2>12
    DEF Service!DisableFor, Service!Unowned, Running, SameLimits
  <2> QED BY <2>12, <2>13 DEF ServiceStep, Service!Next, Service!Request
<1> QED BY <1>1, <1>2

\* setLimit, before its commit.
LEMMA LimitChecked ==
    ASSUME TypeOK, DiskInv, NEW l \in Limits, SetLimitCheck(l)
    PROVE  DiskInv' /\ ServiceStep
<1>1. /\ Running /\ txn = NoTxn /\ txn' = [op |-> "limit", arg |-> l]
      /\ UNCHANGED <<limits, session, hw, daemon>>
  BY DEF SetLimitCheck, Asked, Running
<1>2. txn'.op = "limit" /\ txn'.arg = l BY <1>1
<1>3. HolderInformed' BY <1>2 DEF HolderInformed
<1> QED BY <1>1, <1>2, <1>3, NoTxnOp, Taken

\* setLowerLimitDelta saves the whole configuration, an adapter deadline that a
\* handler has written but not saved included: the file may learn of it early.
LEMMA DeltaServed ==
    ASSUME TypeOK, DiskInv, CheckedConflictsStay, Dependable,
           NEW d \in Deltas, SetLowerLimitDelta(d)
    PROVE  DiskInv' /\ ServiceStep
<1>1. /\ Running /\ Running' /\ UNCHANGED <<cal, calFile, hw, txn>>
  BY DEF SetLowerLimitDelta, Asked, Running
<1>2. conf' = [conf EXCEPT !.delta = conf.limit - (conf.limit - d)]
  BY DEF SetLowerLimitDelta, SetLowerLimit
<1>3. conf.limit - (conf.limit - d) \in 1..100
  BY ChargeControlAssumption DEF TypeOK, Conf
<1>4. SameLimits(conf', conf) /\ conf'.adapterDisableUntil = conf.adapterDisableUntil
  BY <1>2, <1>3, DeltaWritten DEF TypeOK
<1>5. file' = conf' BY SavedOk, Zenon DEF SetLowerLimitDelta
<1>6. SameLimits(conf, file) BY <1>1 DEF DiskInv, MemoryAgrees
<1>7. SameLimits(file', file) BY <1>4, <1>5, <1>6 DEF SameLimits
<1>8. UNCHANGED <<Running, SessionSeen>> BY <1>1 DEF SessionSeen
<1>9. HolderInformed' BY <1>1, <1>4 DEF DiskInv, HolderInformed, SameLimits
<1>10. MemoryAgrees' BY <1>1, <1>5 DEF DiskInv, MemoryAgrees, SameLimits
<1>11. CASE txn.op # "adapterSave"
  <2>1. file'.adapterDisableUntil = file.adapterDisableUntil
    BY <1>1, <1>4, <1>5, <1>11 DEF DiskInv, MemoryAgrees
  <2>2. FilesAgree' BY <1>1, <1>7, <2>1 DEF DiskInv, FilesAgree, FilesFit, SameLimits
  <2>3. ServiceStep BY <1>1, <1>7, <1>8, <2>1, NothingSeen DEF SameLimits
  <2> QED BY <1>9, <1>10, <2>2, <2>3 DEF DiskInv
<1>12. CASE txn.op = "adapterSave"
  <2>1. cal.phase = "Idle" BY <1>1, <1>12, NoTxnOp DEF CheckedConflictsStay
  <2>2. calFile.phase = "Idle" /\ SessionSeen.phase = "Idle"
    BY <1>1, <2>1, SessionOnDisk DEF View
  <2>3. file'.adapterDisableUntil # 0
    BY <1>1, <1>4, <1>5, <1>12 DEF DiskInv, HolderInformed
  <2>4. FilesAgree' BY <1>1, <1>7, <2>2 DEF DiskInv, FilesAgree, FilesFit, SameLimits
  <2>5. Service!DisableAdapterFor
    BY <1>1, <1>7, <1>8, <2>2, <2>3
    DEF Service!DisableAdapterFor, Service!Unowned, Running, SameLimits
  <2>6. ServiceStep BY <2>5 DEF ServiceStep, Service!Next, Service!Request
  <2> QED BY <1>9, <1>10, <2>4, <2>6 DEF DiskInv
<1> QED BY <1>11, <1>12

-----------------------------------------------------------------------------
(* The requests about the adapter, and the main loop's two timers.         *)

\* Under the lock, or outside a session, the limit is at rest.
LEMMA AtRest ==
    ASSUME TypeOK, DiskInv, CheckedConflictsStay, Running,
           txn # NoTxn \/ cal.phase = "Idle"
    PROVE  /\ cal.phase = "Idle" /\ calFile.phase = "Idle" /\ SessionSeen.phase = "Idle"
           /\ SameLimits(conf, file) /\ conf.wanted \in Limits
           /\ conf.disableUntil # 0
                 => conf.limit = 100 /\ conf.preDisableLimit = conf.wanted
           /\ conf.disableUntil = 0 => conf.limit = conf.wanted
<1>1. cal.phase = "Idle" BY DEF CheckedConflictsStay
<1>2. calFile.phase = "Idle" /\ SessionSeen.phase = "Idle"
  BY <1>1, SessionOnDisk DEF View
<1>3. SameLimits(conf, file) BY DEF DiskInv, MemoryAgrees
<1> QED BY <1>1, <1>2, <1>3 DEF DiskInv, FilesAgree, FilesFit, SameLimits

\* The end of the adapter's timer, with or without a new setting of the adapter.
LEMMA CutEnded ==
    ASSUME TypeOK, DiskInv, CheckedConflictsStay, Running, Running', txn # NoTxn,
           UNCHANGED <<cal, calFile>>, conf' = ClearAdapterDisableTimer(conf),
           file' = conf', txn' = NoTxn
    PROVE  /\ DiskInv'
           /\ SessionSeen' = SessionSeen /\ SessionSeen.phase = "Idle"
           /\ file'.adapterDisableUntil = 0 /\ SameLimits(file', file)
<1>1. SameLimits(conf', conf) /\ conf'.adapterDisableUntil = 0
  BY AdapterTimerCleared DEF TypeOK
<1>2. HolderInformed' BY NoTxnOp DEF HolderInformed
<1>3. /\ cal.phase = "Idle" /\ SameLimits(conf, file) /\ conf.wanted \in Limits
      /\ conf.disableUntil # 0 => conf.limit = 100 /\ conf.preDisableLimit = conf.wanted
      /\ conf.disableUntil = 0 => conf.limit = conf.wanted
  BY AtRest
<1>4. SameLimits(file', file) BY <1>1, <1>3 DEF SameLimits
<1>5. DiskInv' /\ SessionSeen' = SessionSeen /\ SessionSeen.phase = "Idle"
  BY <1>1, <1>2, <1>3, Committed DEF SameLimits
<1> QED BY <1>1, <1>4, <1>5

\* setAdapter.
LEMMA AdapterServed ==
    ASSUME TypeOK, DiskInv, CheckedConflictsStay, Dependable,
           (\E d \in BOOLEAN : SetAdapterCheck(d)) \/ SetAdapterCommit
    PROVE  DiskInv' /\ ServiceStep
<1>1. ASSUME NEW d \in BOOLEAN, SetAdapterCheck(d) PROVE DiskInv' /\ ServiceStep
  <2>1. /\ Running /\ txn = NoTxn /\ txn' = [op |-> "adapter", arg |-> IF d THEN 1 ELSE 0]
        /\ UNCHANGED <<limits, session, hw, daemon>>
    BY <1>1 DEF SetAdapterCheck, Asked, Running
  <2>2. txn'.op = "adapter" BY <2>1
  <2>3. HolderInformed' BY <2>2 DEF HolderInformed
  <2> QED BY <2>1, <2>2, <2>3, NoTxnOp, Taken
<1>2. CASE SetAdapterCommit
  <2> DEFINE on == txn.arg = 1
  <2>1. /\ Running /\ Running' /\ txn.op = "adapter" /\ txn' = NoTxn
        /\ UNCHANGED <<cal, calFile>>
    BY <1>2 DEF SetAdapterCommit, Running
  <2>2. FALSE \notin HardwareOutcomes BY DEF Dependable
  <2>3. /\ hw' = [hw EXCEPT !.adapter = on]
        /\ conf' = ClearAdapterDisableTimer(conf)
        /\ \E outcome \in SaveOutcomes : Saved(conf', outcome)
    BY <1>2, <2>2, Zenon DEF SetAdapterCommit
  <2>4. file' = conf' BY <2>3, SavedOk
  <2>5. on \in BOOLEAN OBVIOUS
  <2> HIDE DEF on
  <2>6. hw'.adapter = on BY <2>3 DEF TypeOK, Hardware
  <2>7. /\ DiskInv' /\ SessionSeen' = SessionSeen /\ SessionSeen.phase = "Idle"
        /\ file'.adapterDisableUntil = 0 /\ SameLimits(file', file)
    BY <2>1, <2>3, <2>4, NoTxnOp, CutEnded
  <2>8. Service!SetAdapter(on)
    BY <2>1, <2>6, <2>7 DEF Service!SetAdapter, Service!Unowned, Running, SameLimits
  <2> QED BY <2>5, <2>7, <2>8, Zenon DEF ServiceStep, Service!Next, Service!Request
<1> QED BY <1>1, <1>2

\* While its deadline is pending the adapter may be switched.
LEMMA PowerSwitched ==
    ASSUME TypeOK, DiskInv, CheckedConflictsStay, Running, Running',
           txn.op \in {"adapterCut", "adapterKeep", "adapterBack"},
           UNCHANGED <<conf, file, cal, calFile>>, hw'.adapter \in BOOLEAN,
           txn'.op # "adapterSave", HolderInformed'
    PROVE  DiskInv' /\ ServiceStep
<1>1. txn # NoTxn BY NoTxnOp
<1>2. /\ conf.adapterDisableUntil # 0
      /\ conf.adapterDisableUntil = file.adapterDisableUntil
  BY DEF DiskInv, HolderInformed, MemoryAgrees
<1>3. CASE hw'.adapter = hw.adapter
  BY <1>2, <1>3, Quiet DEF SameLimits
<1>4. CASE hw'.adapter # hw.adapter
  <2>1. hw.adapter \in BOOLEAN BY DEF TypeOK, Hardware
  <2>2. hw'.adapter = ~hw.adapter BY <1>4, <2>1
  <2>3. SessionSeen' = SessionSeen /\ SessionSeen.phase = "Idle"
    BY <1>1, AtRest DEF SessionSeen
  <2>4. Service!SwitchPower
    BY <1>2, <2>2, <2>3 DEF Service!SwitchPower, Service!Unowned, Running
  <2>5. DiskInv' BY <1>2 DEF DiskInv, FilesAgree, FilesFit, MemoryAgrees
  <2> QED BY <2>4, <2>5 DEF ServiceStep, Service!Next, Service!Daemon
<1> QED BY <1>3, <1>4

\* setAdapterDisableFor: the deadline is saved, then the power is cut.
LEMMA AdapterForServed ==
    ASSUME TypeOK, DiskInv, CheckedConflictsStay, Dependable,
           \/ \E d \in Durations : SetAdapterDisableForCheck(d)
           \/ SetAdapterDisableForSave \/ SetAdapterDisableForCut
    PROVE  DiskInv' /\ ServiceStep
<1>1. ASSUME NEW d \in Durations, SetAdapterDisableForCheck(d)
      PROVE  DiskInv' /\ ServiceStep
  <2> DEFINE until == now + d
  <2>1. /\ Running /\ Running' /\ txn' = [op |-> "adapterSave", arg |-> 0]
        /\ UNCHANGED <<file, cal, calFile, hw>>
        /\ conf' = [conf EXCEPT !.adapterDisableUntil = until]
    BY <1>1 DEF SetAdapterDisableForCheck, Asked, Running
  <2>2. until \in Nat /\ until # 0 BY ChargeControlAssumption DEF TypeOK
  <2> HIDE DEF until
  <2>3. SameLimits(conf', conf) /\ conf'.adapterDisableUntil # 0
    BY <2>1, <2>2, AdapterTimerWritten DEF TypeOK
  <2>4. txn'.op = "adapterSave" BY <2>1
  <2>5. HolderInformed' BY <2>3, <2>4 DEF HolderInformed
  <2> QED BY <2>1, <2>3, <2>4, <2>5, Quiet
<1>2. CASE SetAdapterDisableForSave
  <2>1. /\ Running /\ Running' /\ txn.op = "adapterSave"
        /\ UNCHANGED <<cal, calFile, hw>>
    BY <1>2 DEF SetAdapterDisableForSave, Running
  <2>2. /\ file' = conf /\ conf' = conf /\ txn' = [op |-> "adapterCut", arg |-> 0]
    <3>1. PICK outcome \in SaveOutcomes :
            /\ Saved(conf, outcome)
            /\ outcome = "ok" => /\ txn' = [op |-> "adapterCut", arg |-> 0]
                                 /\ UNCHANGED conf
      BY <1>2, Zenon DEF SetAdapterDisableForSave
    <3> QED BY <3>1, SavedOk
  <2>3. txn'.op = "adapterCut" BY <2>2
  <2>4. conf.adapterDisableUntil # 0 BY <2>1 DEF DiskInv, HolderInformed
  <2>5. HolderInformed' BY <2>2, <2>3, <2>4 DEF HolderInformed
  <2>6. txn # NoTxn BY <2>1, NoTxnOp
  <2>7. DiskInv' /\ SessionSeen' = SessionSeen /\ SessionSeen.phase = "Idle"
    BY <2>1, <2>2, <2>5, <2>6, AtRest, Committed
  <2>8. SameLimits(conf, file) BY <2>1, <2>6, AtRest
  <2>9. Service!DisableAdapterFor
    BY <2>1, <2>2, <2>4, <2>7, <2>8
    DEF Service!DisableAdapterFor, Service!Unowned, Running, SameLimits
  <2> QED BY <2>7, <2>9 DEF ServiceStep, Service!Next, Service!Request
<1>3. CASE SetAdapterDisableForCut
  <2>1. FALSE \notin HardwareOutcomes BY DEF Dependable
  <2>2. /\ Running /\ Running' /\ txn.op = "adapterCut" /\ txn' = NoTxn
        /\ UNCHANGED <<conf, file, cal, calFile>>
        /\ hw' = [hw EXCEPT !.adapter = FALSE]
    BY <1>3, <2>1 DEF SetAdapterDisableForCut, Running
  <2>3. hw'.adapter \in BOOLEAN BY <2>2 DEF TypeOK, Hardware
  <2>4. HolderInformed' BY <2>2, NoTxnOp DEF HolderInformed
  <2> QED BY <2>2, <2>3, <2>4, NoTxnOp, PowerSwitched
<1> QED BY <1>1, <1>2, <1>3

\* restoreDisabledLimit.
LEMMA LoopRestoreServed ==
    ASSUME TypeOK, DiskInv, CheckedConflictsStay, Dependable,
           LoopRestoreCheck \/ LoopRestore \/ LoopRestoreInvalid \/ LoopRestorePanics
    PROVE  DiskInv' /\ ServiceStep
<1>1. CASE LoopRestoreCheck
  <2>1. /\ Running /\ txn = NoTxn /\ UNCHANGED <<limits, session, hw, daemon>>
        /\ \/ txn' = [op |-> "restore", arg |-> 0] /\ conf.disableUntil # 0
           \/ txn' = txn
    BY <1>1, Zenon DEF LoopRestoreCheck
  <2>2. /\ txn'.op \in {"none", "restore"}
        /\ txn'.op = "restore" => conf.disableUntil # 0
    BY <2>1, NoTxnOp
  <2>3. HolderInformed' BY <2>1, <2>2 DEF HolderInformed
  <2> QED BY <2>1, <2>2, <2>3, NoTxnOp, Taken
<1>2. CASE LoopRestore \/ LoopRestoreInvalid
  <2>1. /\ Running /\ Running' /\ txn.op = "restore" /\ txn' = NoTxn /\ txn # NoTxn
        /\ UNCHANGED <<cal, calFile, hw>>
        /\ \E outcome \in SaveOutcomes : Saved(conf', outcome)
    BY <1>2, NoTxnOp DEF LoopRestore, LoopRestoreInvalid, Running
  <2>2. /\ file' = conf' /\ conf.disableUntil # 0
    BY <2>1, SavedOk DEF DiskInv, HolderInformed
  <2>3. /\ conf.preDisableLimit = conf.wanted /\ conf.wanted \in Limits
        /\ SameLimits(conf, file) /\ cal.phase = "Idle"
    BY <2>1, <2>2, AtRest
  <2>4. conf.wanted \in 0..100 /\ conf.wanted >= 10
    <3>1. conf.wanted \in 10..100 BY <2>3, ChargeControlAssumption, Zenon
    <3> QED BY <3>1
  <2> DEFINE back == [conf EXCEPT !.limit = conf.wanted]
  <2>5. conf' = ClearDisableTimer(back)
    BY <1>2, <2>3, <2>4 DEF LoopRestore, LoopRestoreInvalid
  <2>6. /\ back \in Conf /\ back.limit = conf.wanted /\ back.wanted = conf.wanted
        /\ back.adapterDisableUntil = conf.adapterDisableUntil
    BY <2>4, LimitWritten DEF TypeOK
  <2> HIDE DEF back
  <2>7. /\ conf'.limit = conf.wanted /\ conf'.wanted = conf.wanted
        /\ conf'.disableUntil = 0
        /\ conf'.adapterDisableUntil = conf.adapterDisableUntil
    BY <2>5, <2>6, DisableTimerCleared
  <2>8. HolderInformed' BY <2>1, NoTxnOp DEF HolderInformed
  <2>9. conf.adapterDisableUntil = file.adapterDisableUntil
    BY <2>1 DEF DiskInv, MemoryAgrees
  <2>10. DiskInv' /\ SessionSeen' = SessionSeen /\ SessionSeen.phase = "Idle"
    BY <2>1, <2>2, <2>3, <2>7, <2>8, Committed
  <2>11. Service!RestoreLimit
    BY <2>1, <2>2, <2>3, <2>7, <2>9, <2>10
    DEF Service!RestoreLimit, Service!Unowned, Running, SameLimits
  <2> QED BY <2>10, <2>11 DEF ServiceStep, Service!Next, Service!Daemon
<1>3. CASE LoopRestorePanics
  BY <1>3, Death DEF LoopRestorePanics, Running
<1> QED BY <1>1, <1>2, <1>3

\* maintainAdapterDisable.
LEMMA LoopAdapterServed ==
    ASSUME TypeOK, DiskInv, CheckedConflictsStay, Dependable,
           LoopAdapterCheck \/ LoopAdapterKeep \/ LoopAdapterEnable \/ LoopAdapterClear
    PROVE  DiskInv' /\ ServiceStep
<1>0. FALSE \notin HardwareOutcomes BY DEF Dependable
<1>1. CASE LoopAdapterCheck
  <2>1. /\ Running /\ txn = NoTxn /\ UNCHANGED <<limits, session, hw, daemon>>
        /\ \/ /\ conf.adapterDisableUntil # 0
              /\ txn' = [op |-> IF loopNow < conf.adapterDisableUntil
                               THEN "adapterKeep" ELSE "adapterBack",
                        arg |-> IF hw.adapter THEN 1 ELSE 0]
           \/ txn' = txn
    BY <1>1, Zenon DEF LoopAdapterCheck
  <2>2. \/ /\ conf.adapterDisableUntil # 0
           /\ txn'.op \in {"adapterKeep", "adapterBack"}
           /\ txn'.arg = 0 \/ hw.adapter
        \/ txn'.op = "none"
    BY <2>1, NoTxnOp
  <2>3. HolderInformed' BY <2>1, <2>2 DEF HolderInformed
  <2>4. txn'.op # "adapterSave" BY <2>2
  <2> QED BY <2>1, <2>3, <2>4, NoTxnOp, Taken
<1>2. CASE LoopAdapterKeep
  <2>1. /\ Running /\ Running' /\ txn.op = "adapterKeep" /\ txn' = NoTxn
        /\ UNCHANGED <<conf, file, cal, calFile>>
    BY <1>2 DEF LoopAdapterKeep, Running
  <2>2. PICK adapter \in IF txn.arg = 1 THEN Written(hw.adapter, FALSE)
                         ELSE {hw.adapter} :
            hw' = [hw EXCEPT !.adapter = adapter]
    BY <1>2, Zenon DEF LoopAdapterKeep
  <2>3. adapter \in BOOLEAN BY WrittenType DEF TypeOK, Hardware
  <2>4. hw'.adapter \in BOOLEAN BY <2>2, <2>3 DEF TypeOK, Hardware
  <2>5. HolderInformed' BY <2>1, NoTxnOp DEF HolderInformed
  <2> QED BY <2>1, <2>4, <2>5, NoTxnOp, PowerSwitched
<1>3. CASE LoopAdapterEnable
  <2>1. /\ Running /\ Running' /\ txn.op = "adapterBack"
        /\ txn' = [op |-> "adapterClear", arg |-> 0]
        /\ hw' = [hw EXCEPT !.adapter = @ \/ txn.arg = 0]
        /\ UNCHANGED <<conf, file, cal, calFile>>
    BY <1>0, <1>3 DEF LoopAdapterEnable, Running
  <2>2. txn'.op = "adapterClear" BY <2>1
  <2>3. conf.adapterDisableUntil # 0 /\ (txn.arg = 0 \/ hw.adapter)
    BY <2>1 DEF DiskInv, HolderInformed
  <2>4. hw'.adapter \in BOOLEAN /\ hw'.adapter
    BY <2>1, <2>3 DEF TypeOK, Hardware
  <2>5. HolderInformed' BY <2>1, <2>2, <2>3, <2>4 DEF HolderInformed
  <2> QED BY <2>1, <2>2, <2>4, <2>5, PowerSwitched
<1>4. CASE LoopAdapterClear
  <2>1. /\ Running /\ Running' /\ txn.op = "adapterClear" /\ txn' = NoTxn /\ txn # NoTxn
        /\ UNCHANGED <<cal, calFile, hw>>
        /\ conf' = ClearAdapterDisableTimer(conf)
        /\ \E outcome \in SaveOutcomes : Saved(conf', outcome)
    BY <1>4, NoTxnOp DEF LoopAdapterClear, Running
  <2>2. file' = conf' BY <2>1, SavedOk
  <2>3. conf.adapterDisableUntil # 0 /\ hw.adapter BY <2>1 DEF DiskInv, HolderInformed
  <2>4. conf.adapterDisableUntil = file.adapterDisableUntil
    BY <2>1 DEF DiskInv, MemoryAgrees
  <2>5. /\ DiskInv' /\ SessionSeen' = SessionSeen /\ SessionSeen.phase = "Idle"
        /\ file'.adapterDisableUntil = 0 /\ SameLimits(file', file)
    BY <2>1, <2>2, CutEnded
  <2>6. Service!EndCut
    BY <2>1, <2>3, <2>4, <2>5 DEF Service!EndCut, Service!Unowned, Running, SameLimits
  <2> QED BY <2>5, <2>6 DEF ServiceStep, Service!Next, Service!Daemon
<1> QED BY <1>1, <1>2, <1>3, <1>4

-----------------------------------------------------------------------------
(* The session.                                                            *)

\* A step of the session from st to what it has become, or to the process's end.
LEMMA SessionStep ==
    ASSUME TypeOK, DiskInv, Dependable, Running, txn' = NoTxn,
           NEW st, cal' = st, Persist(st),
           SameLimits(conf', file'),
           conf'.adapterDisableUntil = file'.adapterDisableUntil,
           FilesFit(file', st), FilesFit(file', calFile)
    PROVE  DiskInv' /\ Service!Becomes(View(st))
<1>1. FilesAgree'
  BY PersistedOrDead DEF FilesAgree, Dependable
<1>2. MemoryAgrees'
  BY PersistedOrDead DEF MemoryAgrees, Dependable
<1>3. HolderInformed' BY NoTxnOp DEF HolderInformed
<1>4. \/ Running' = TRUE /\ SessionSeen' = View(st)
      \/ Running' = FALSE /\ SessionSeen' = Service!Interrupted(SessionSeen)
  <2>1. CASE Running' BY <2>1, SeenIs DEF Running
  <2>2. CASE ~Running'
    <3>1. calFile' = calFile BY <2>2, PersistedOrDead DEF Dependable
    <3> QED BY <2>2, <3>1, SeenIs, SessionOnDisk DEF Running
  <2> QED BY <2>1, <2>2
<1> QED BY <1>1, <1>2, <1>3, <1>4 DEF DiskInv, Service!Becomes

\* In a session no timer runs and the limit to come back to is the user's.
LEMMA InSession ==
    ASSUME TypeOK, DiskInv, CheckedConflictsStay, Running, cal.phase # "Idle"
    PROVE  /\ txn = NoTxn /\ calFile.phase # "Idle"
           /\ file.disableUntil = 0 /\ file.adapterDisableUntil = 0
           /\ cal.upper = file.wanted /\ file.wanted \in Limits
           /\ SameLimits(conf, file)
           /\ conf.adapterDisableUntil = file.adapterDisableUntil
           /\ cal.phase # "Error"
           /\ SessionSeen = View(cal) /\ SessionSeen.phase = cal.phase
           /\ SessionSeen.paused = cal.paused
<1>1. txn = NoTxn BY DEF CheckedConflictsStay
<1>2. SameLimits(conf, file) /\ conf.adapterDisableUntil = file.adapterDisableUntil
  BY <1>1, NoTxnOp DEF DiskInv, MemoryAgrees
<1>3. /\ calFile.phase # "Idle" /\ cal.phase # "Error" /\ cal.upper = calFile.upper
      /\ SessionSeen = View(cal)
  BY SessionOnDisk
<1> QED BY <1>1, <1>2, <1>3 DEF DiskInv, FilesAgree, FilesFit, View

\* startCalibration.
LEMMA StartServed ==
    ASSUME TypeOK, DiskInv, CheckedConflictsStay, Dependable, StartCalibration
    PROVE  DiskInv' /\ ServiceStep
<1>1. /\ Running /\ txn = NoTxn /\ txn' = NoTxn /\ ~SessionActive(cal)
      /\ conf.disableUntil = 0 /\ conf.adapterDisableUntil = 0
      /\ UNCHANGED <<conf, file, hw>> /\ Persist(cal')
  BY DEF StartCalibration, StartAdmitted
<1>2. HardwareOutcomes \ {TRUE} = {} BY DEF Dependable
<1>3. PICK charging, adapter :
        /\ adapter \in {hw.adapter} \union (HardwareOutcomes \ {TRUE})
        /\ cal' = [phase |-> "Discharge", paused |-> FALSE, upper |-> conf.limit,
                   lower |-> LowerLimit, chargingOn |-> charging, adapterOn |-> adapter]
  BY Zenon DEF StartCalibration
<1>4. cal.phase = "Idle" BY <1>1, SessionOnDisk DEF SessionActive
<1>5. /\ calFile.phase = "Idle" /\ SessionSeen.phase = "Idle" /\ SameLimits(conf, file)
      /\ conf.wanted \in Limits /\ conf.limit = conf.wanted
  BY <1>1, <1>4, AtRest
<1>6. conf.adapterDisableUntil = file.adapterDisableUntil
  BY <1>1, NoTxnOp DEF DiskInv, MemoryAgrees
<1>7. cal'.phase = "Discharge" /\ cal'.upper = conf.limit BY <1>3
<1>8. FilesFit(file', cal') /\ FilesFit(file', calFile)
  BY <1>1, <1>5, <1>6, <1>7 DEF FilesFit, SameLimits, DiskInv, FilesAgree
<1>9. DiskInv' /\ Service!Becomes(View(cal'))
  BY <1>1, <1>5, <1>6, <1>8, SessionStep DEF SameLimits
<1>10. View(cal') = [phase |-> "Discharge", paused |-> FALSE, home |-> hw.adapter]
  BY <1>2, <1>3 DEF View, TypeOK, Hardware
<1>11. Service!StartSession
  BY <1>1, <1>5, <1>6, <1>9, <1>10
  DEF Service!StartSession, Service!SettingsKept, SameLimits
<1> QED BY <1>9, <1>11 DEF ServiceStep, Service!Next, Service!Request

\* pauseCalibration and resumeCalibration.
LEMMA PauseServed ==
    ASSUME TypeOK, DiskInv, CheckedConflictsStay, Dependable,
           PauseCalibration \/ ResumeCalibration
    PROVE  DiskInv' /\ ServiceStep
<1>1. /\ Running /\ cal.phase # "Idle" /\ txn' = txn
      /\ UNCHANGED <<conf, file, hw>> /\ Persist(cal')
  BY DEF PauseCalibration, ResumeCalibration, Asked, Running
<1>2. PICK v \in BOOLEAN :
        /\ cal' = [cal EXCEPT !.paused = v]
        /\ v = TRUE => ~cal.paused
        /\ v = FALSE => cal.paused
  BY DEF PauseCalibration, ResumeCalibration
<1>3. cal \in Calibration BY DEF TypeOK
<1>4. cal'.phase = cal.phase /\ cal'.upper = cal.upper BY <1>2, <1>3 DEF Calibration
<1>5. FilesFit(file', cal') /\ FilesFit(file', calFile)
  BY <1>1, <1>4, InSession DEF FilesFit, DiskInv, FilesAgree
<1>6. DiskInv' /\ Service!Becomes(View(cal'))
  BY <1>1, <1>5, InSession, SessionStep
<1>7. View(cal') = [SessionSeen EXCEPT !.paused = v]
  BY <1>1, <1>2, <1>3, InSession DEF View, Calibration
<1>8. Service!PauseSession \/ Service!ResumeSession
  <2>1. /\ SessionSeen.phase # "Idle" /\ SessionSeen.paused = cal.paused
        /\ Service!SettingsKept
    BY <1>1, InSession DEF Service!SettingsKept
  <2>2. CASE v = TRUE
    BY <1>1, <1>2, <1>6, <1>7, <2>1, <2>2 DEF Service!PauseSession
  <2>3. CASE v = FALSE
    BY <1>1, <1>2, <1>6, <1>7, <2>1, <2>3 DEF Service!ResumeSession
  <2> QED BY <2>2, <2>3
<1> QED BY <1>6, <1>8 DEF ServiceStep, Service!Next, Service!Request

\* Both ends of a session.
LEMMA EndServed ==
    ASSUME TypeOK, DiskInv, CheckedConflictsStay, Dependable, Running, cal.phase # "Idle",
           ~RestorePanics(conf, cal), conf' = RestoredLimits(conf, cal),
           file' = conf', RestoreHardware(cal), txn' = NoTxn,
           NEW st \in Calibration, cal' = st, Persist(st),
           st.phase = "Idle", ~st.paused
    PROVE  DiskInv' /\ Service!EndSession
<1>1. cal \in Calibration /\ conf \in Conf BY DEF TypeOK
<1>2. /\ conf'.limit = cal.upper /\ conf'.wanted = conf.wanted
      /\ conf'.disableUntil = conf.disableUntil
      /\ conf'.adapterDisableUntil = conf.adapterDisableUntil
  BY <1>1, LimitsRestored
<1>3. /\ calFile.phase # "Idle" /\ calFile.phase = cal.phase /\ calFile.upper = cal.upper
      /\ cal.phase # "Error"
      /\ file.disableUntil = 0 /\ file.adapterDisableUntil = 0
      /\ cal.upper = file.wanted /\ file.wanted \in Limits
      /\ SameLimits(conf, file) /\ conf.adapterDisableUntil = file.adapterDisableUntil
      /\ SessionSeen = View(cal)
  BY InSession, SessionOnDisk
<1>4. FilesFit(file', st) /\ FilesFit(file', calFile)
  BY <1>2, <1>3 DEF FilesFit, SameLimits
<1>5. DiskInv' /\ Service!Becomes(View(st))
  BY <1>4, SessionStep DEF SameLimits
<1>6. View(st) = Service!NoSession
  <2>1. st.paused = FALSE BY DEF Calibration
  <2> QED BY <2>1 DEF View, Service!NoSession
<1>7. hw'.adapter = cal.adapterOn
  <2>1. PICK charging \in RestoredCharging(cal), limit \in RestoredFirmware(cal),
             adapter \in Written(hw.adapter, cal.adapterOn) :
            hw' = [charging |-> charging, adapter |-> adapter, limit |-> limit]
    BY Zenon DEF RestoreHardware
  <2>2. adapter = cal.adapterOn BY DEF Written, Dependable
  <2> QED BY <2>1, <2>2
<1>8. View(cal).home = cal.adapterOn BY <1>1 DEF View, Calibration
<1>9. /\ file'.limit = file.wanted /\ file'.wanted = file.wanted
      /\ file'.disableUntil = file.disableUntil
      /\ file'.adapterDisableUntil = file.adapterDisableUntil
  BY <1>2, <1>3 DEF SameLimits
<1>10. hw'.adapter = SessionSeen.home BY <1>3, <1>7, <1>8
<1>11. Service!EndSession BY <1>5, <1>6, <1>9, <1>10 DEF Service!EndSession
<1> QED BY <1>5, <1>11

\* cancelCalibration.
LEMMA CancelServed ==
    ASSUME TypeOK, DiskInv, CheckedConflictsStay, Dependable, CancelCalibration
    PROVE  DiskInv' /\ ServiceStep
<1>1. /\ Running /\ cal.phase # "Idle" /\ ~RestorePanics(conf, cal) /\ txn' = txn
      /\ conf' = RestoredLimits(conf, cal) /\ RestoreHardware(cal)
      /\ \E outcome \in SaveOutcomes : Saved(conf', outcome)
      /\ cal' = NoCalibration /\ Persist(NoCalibration)
  BY DEF CancelCalibration, Asked, Running, EndCalibration
<1>2. file' = conf' BY <1>1, SavedOk
<1>3. NoCalibration.phase = "Idle" /\ ~NoCalibration.paused BY DEF NoCalibration
<1>4. DiskInv' /\ Service!EndSession
  BY <1>1, <1>2, <1>3, NoCalibrationType, InSession, EndServed
<1>5. SessionSeen.phase # "Idle" BY <1>1, InSession
<1> QED BY <1>4, <1>5
        DEF ServiceStep, Service!Next, Service!Request, Service!CancelSession

-----------------------------------------------------------------------------
(* The steps of applyCalibrationWithinLoop.                                *)

\* A session that moves on keeps all but its phase.
LEMMA Entered ==
    ASSUME cal \in Calibration, NEW p \in Phase, p # "Idle", cal.phase # "Idle"
    PROVE  /\ Entering(p) \in Calibration
           /\ Entering(p).phase = p /\ Entering(p).upper = cal.upper
           /\ View(Entering(p)) = [View(cal) EXCEPT !.phase = p]
           /\ p = cal.phase => Entering(p) = cal
BY DEF Entering, Calibration, View

\* A session that moves on, or the process's end while it does.
LEMMA GoesServed ==
    ASSUME TypeOK, DiskInv, CheckedConflictsStay, Dependable, Running, CalibrationRuns,
           txn' = NoTxn, NEW p \in Phase, p \notin {"Idle", "Error"},
           Advance(Entering(p)),
           file'.wanted = file.wanted, file'.disableUntil = file.disableUntil,
           file'.adapterDisableUntil = file.adapterDisableUntil,
           SameLimits(conf', file'), conf'.adapterDisableUntil = file'.adapterDisableUntil
    PROVE  DiskInv' /\ Service!Goes(cal.phase, p)
<1>1. cal \in Calibration /\ cal.phase # "Idle" /\ ~cal.paused
  BY DEF TypeOK, CalibrationRuns, SessionActive
<1> DEFINE st == Entering(p)
<1>2. /\ st \in Calibration /\ st.phase = p /\ st.upper = cal.upper
      /\ View(st) = [View(cal) EXCEPT !.phase = p]
  BY <1>1, Entered
<1>3. cal' = st /\ Persist(st) BY DEF Advance
<1> HIDE DEF st
<1>4. /\ calFile.phase # "Idle" /\ calFile.phase = cal.phase /\ calFile.upper = cal.upper
      /\ cal.phase # "Error"
      /\ file.disableUntil = 0 /\ file.adapterDisableUntil = 0
      /\ cal.upper = file.wanted /\ file.wanted \in Limits
      /\ SessionSeen = View(cal) /\ SessionSeen.phase = cal.phase
      /\ SessionSeen.paused = cal.paused
  BY <1>1, InSession, SessionOnDisk
<1>5. FilesFit(file', st) /\ FilesFit(file', calFile) BY <1>2, <1>4 DEF FilesFit
<1>6. DiskInv' /\ Service!Becomes(View(st)) BY <1>3, <1>5, SessionStep
<1>7. Service!Goes(cal.phase, p) BY <1>1, <1>2, <1>4, <1>6 DEF Service!Goes
<1> QED BY <1>6, <1>7

\* A step that only writes the session's state once more.
LEMMA StaysPut ==
    ASSUME TypeOK, DiskInv, CheckedConflictsStay, Dependable, Running, CalibrationRuns,
           txn' = NoTxn, Advance(cal), UNCHANGED limits, hw'.adapter = hw.adapter
    PROVE  DiskInv' /\ ServiceStep
<1>1. cal.phase # "Idle" BY DEF CalibrationRuns, SessionActive
<1>2. cal' = cal /\ Persist(cal) BY DEF Advance
<1>3. FilesFit(file', cal) /\ FilesFit(file', calFile)
  BY <1>1, InSession DEF FilesFit, DiskInv, FilesAgree
<1>4. DiskInv' /\ Service!Becomes(View(cal))
  BY <1>1, <1>2, <1>3, InSession, SessionStep
<1>5. CASE Running'
  <2>1. UNCHANGED <<Running, SessionSeen>>
    BY <1>2, <1>5, SeenIs DEF Running
  <2>2. ServiceStep BY <2>1, NothingSeen
  <2> QED BY <1>4, <2>2
<1>6. CASE ~Running'
  <2>1. calFile' = calFile BY <1>2, <1>6, PersistedOrDead DEF Dependable
  <2> QED BY <1>6, <2>1, Death
<1> QED BY <1>5, <1>6

\* applyCalibrationWithinLoop, within the pass that runs it.
LEMMA CalibrationServed ==
    ASSUME TypeOK, DiskInv, CheckedConflictsStay, Mode = "Firmware", Dependable,
           NEW by \in Callers, NEW charge \in Charges, PassCalibrates(by, charge)
    PROVE  DiskInv' /\ ServiceStep
<1>1. Running /\ CalibrationRuns /\ applyCalibrationWithinLoop(charge) /\ Return(by)
  BY DEF PassCalibrates, Driving
<1>2. txn = NoTxn /\ txn' = NoTxn
  BY <1>1, CalibrationRunsUnlocked DEF Return
<1>3. cal.phase # "Idle" /\ cal \in Calibration /\ ~cal.paused
  BY <1>1 DEF CalibrationRuns, SessionActive, TypeOK
<1>4. /\ SameLimits(conf, file) /\ conf.adapterDisableUntil = file.adapterDisableUntil
      /\ SessionSeen.phase = cal.phase /\ SessionSeen.paused = cal.paused
  BY <1>1, <1>3, InSession
<1>5. FALSE \notin HardwareOutcomes /\ Mode = "Firmware" BY DEF Dependable
<1>6. hw \in Hardware BY DEF TypeOK
<1>7. \A p \in {"Discharge", "Charge", "Hold", "PostHold", "Restore"} :
          p \in Phase /\ p \notin {"Idle", "Error"}
  BY DEF Phase
<1>8. CASE KeepDischarging(charge)
  <2>1. /\ cal.phase = "Discharge" /\ hw' = [hw EXCEPT !.adapter = FALSE]
        /\ Advance(cal) /\ UNCHANGED limits
    BY <1>5, <1>8 DEF KeepDischarging
  <2>2. Advance(Entering("Discharge")) BY <1>3, <1>7, <2>1, Entered
  <2>3. DiskInv' /\ Service!Goes("Discharge", "Discharge")
    BY <1>1, <1>2, <1>4, <1>7, <2>1, <2>2, GoesServed
  <2>4. hw'.adapter = FALSE BY <1>6, <2>1 DEF Hardware
  <2>5. Service!Drain BY <2>1, <2>3, <2>4 DEF Service!Drain
  <2> QED BY <2>3, <2>5 DEF ServiceStep, Service!Next, Service!Daemon
<1>9. CASE BeginCharging(charge)
  <2> DEFINE top == 100
  <2>1. /\ cal.phase = "Discharge"
        /\ hw' = [hw EXCEPT !.adapter = TRUE, !.limit = 0]
        /\ conf' = [conf EXCEPT !.limit = top]
        /\ \E outcome \in SaveOutcomes :
              /\ Saved(conf', outcome)
              /\ Advance(Entering(IF outcome = "ok" THEN "Charge" ELSE "Error"))
    BY <1>5, <1>9, Zenon DEF BeginCharging
  <2>2. file' = conf' /\ Advance(Entering("Charge")) BY <2>1, SavedOk
  <2>3. top \in 0..100 /\ top = 100 OBVIOUS
  <2> HIDE DEF top
  <2>4. /\ conf'.limit = 100 /\ conf'.wanted = conf.wanted
        /\ conf'.disableUntil = conf.disableUntil
        /\ conf'.adapterDisableUntil = conf.adapterDisableUntil
    BY <2>1, <2>3, LimitWritten DEF TypeOK
  <2>5. DiskInv' /\ Service!Goes("Discharge", "Charge")
    BY <1>1, <1>2, <1>4, <1>7, <2>1, <2>2, <2>4, GoesServed DEF SameLimits
  <2>6. hw'.adapter = TRUE BY <1>6, <2>1 DEF Hardware
  <2>7. Service!BeginCharging BY <2>2, <2>4, <2>5, <2>6 DEF Service!BeginCharging
  <2> QED BY <2>5, <2>7 DEF ServiceStep, Service!Next, Service!Daemon
<1>10. CASE FinishCharging(charge)
  <2>1. /\ cal.phase = "Charge" /\ UNCHANGED <<limits, hw>>
        /\ Advance(Entering("Hold")) \/ Advance(cal)
    BY <1>10, Zenon DEF FinishCharging
  <2>2. CASE Advance(cal) BY <1>1, <1>2, <2>1, <2>2, StaysPut
  <2>3. CASE Advance(Entering("Hold"))
    <3>1. DiskInv' /\ Service!Goes("Charge", "Hold")
      BY <1>1, <1>2, <1>4, <1>7, <2>1, <2>3, GoesServed
    <3>2. Service!BeginHolding BY <2>1, <3>1 DEF Service!BeginHolding
    <3> QED BY <3>1, <3>2 DEF ServiceStep, Service!Next, Service!Daemon
  <2> QED BY <2>1, <2>2, <2>3
<1>11. CASE KeepHolding
  <2>1. /\ cal.phase = "Hold" /\ UNCHANGED limits
        /\ \/ Advance(cal) /\ hw' = hw
           \/ /\ \E adapter \in Written(hw.adapter, FALSE) :
                    hw' = [hw EXCEPT !.adapter = adapter]
              /\ Advance(Entering("PostHold"))
    BY <1>11, Zenon DEF KeepHolding
  <2>2. CASE Advance(cal) /\ hw' = hw BY <1>1, <1>2, <2>1, <2>2, StaysPut
  <2>3. CASE /\ \E adapter \in Written(hw.adapter, FALSE) :
                   hw' = [hw EXCEPT !.adapter = adapter]
             /\ Advance(Entering("PostHold"))
    <3>1. DiskInv' /\ Service!Goes("Hold", "PostHold")
      BY <1>1, <1>2, <1>4, <1>7, <2>1, <2>3, GoesServed
    <3>2. Written(hw.adapter, FALSE) = {FALSE} BY <1>5 DEF Written
    <3>3. hw'.adapter = FALSE BY <1>6, <2>3, <3>2 DEF Hardware
    <3>4. Service!BeginPostHold BY <2>1, <3>1, <3>3 DEF Service!BeginPostHold
    <3> QED BY <3>1, <3>4 DEF ServiceStep, Service!Next, Service!Daemon
  <2> QED BY <2>1, <2>2, <2>3
<1>12. CASE DrainToLimit(charge)
  <2>1. /\ cal.phase = "PostHold" /\ UNCHANGED <<limits, hw>>
        /\ Advance(Entering("Restore")) \/ Advance(cal)
    BY <1>12, Zenon DEF DrainToLimit
  <2>2. CASE Advance(cal) BY <1>1, <1>2, <2>1, <2>2, StaysPut
  <2>3. CASE Advance(Entering("Restore"))
    <3>1. DiskInv' /\ Service!Goes("PostHold", "Restore")
      BY <1>1, <1>2, <1>4, <1>7, <2>1, <2>3, GoesServed
    <3>2. Service!BeginRestore BY <2>1, <3>1 DEF Service!BeginRestore
    <3> QED BY <3>1, <3>2 DEF ServiceStep, Service!Next, Service!Daemon
  <2> QED BY <2>1, <2>2, <2>3
<1>13. CASE RestoreAndFinish
  <2>1. /\ cal.phase = "Restore" /\ ~RestorePanics(conf, cal)
        /\ conf' = RestoredLimits(conf, cal)
        /\ \E outcome \in SaveOutcomes :
              /\ Saved(conf', outcome)
              /\ outcome = "ok" => RestoreHardware(cal) /\ Advance(Entering("Idle"))
    BY <1>13, Zenon DEF RestoreAndFinish
  <2>2. file' = conf' /\ RestoreHardware(cal) /\ Advance(Entering("Idle"))
    BY <2>1, SavedOk
  <2> DEFINE st == Entering("Idle")
  <2>3. st \in Calibration /\ st.phase = "Idle" /\ ~st.paused
    BY <1>3, EnteringType DEF Entering, Calibration, Phase
  <2>4. cal' = st /\ Persist(st) BY <2>2 DEF Advance
  <2> HIDE DEF st
  <2>5. DiskInv' /\ Service!EndSession
    BY <1>1, <1>2, <1>3, <2>1, <2>2, <2>3, <2>4, EndServed
  <2>6. Service!Finish
    BY <1>3, <1>4, <2>1, <2>5 DEF Service!Finish
  <2> QED BY <2>5, <2>6 DEF ServiceStep, Service!Next, Service!Daemon
<1> QED BY <1>1, <1>8, <1>9, <1>10, <1>11, <1>12, <1>13, Zenon
        DEF applyCalibrationWithinLoop

-----------------------------------------------------------------------------
(* The maintain passes, the life of the process, and what nobody sees.     *)

\* A step that only moves the clock, the loop or a pass, or gives the lock back.
LEMMA Unnoticed ==
    ASSUME TypeOK, DiskInv, Running, Running', UNCHANGED <<conf, file, cal, calFile>>,
           hw'.adapter = hw.adapter,
           txn' = txn \/ (txn' = NoTxn /\ txn.op # "adapterSave")
    PROVE  DiskInv' /\ ServiceStep
<1>1. CASE txn' = txn
  <2>1. HolderInformed' BY <1>1 DEF DiskInv, HolderInformed
  <2> QED BY <1>1, <2>1, Quiet DEF SameLimits, DiskInv, MemoryAgrees
<1>2. CASE txn' = NoTxn /\ txn.op # "adapterSave"
  <2>1. HolderInformed' BY <1>2, NoTxnOp DEF HolderInformed
  <2> QED BY <1>2, <2>1, Quiet DEF SameLimits, DiskInv, MemoryAgrees
<1> QED BY <1>1, <1>2

\* Without a process: a start, or nothing that the files and the hardware show.
LEMMA DeadServed ==
    ASSUME TypeOK, DiskInv, [Next]_vars, ~Running
    PROVE  DiskInv' /\ ServiceStep
<1>1. CASE Start
  <2>1. /\ Running' = TRUE /\ UNCHANGED <<file, calFile, hw>>
        /\ conf' = file /\ cal' = Recovered(calFile) /\ txn' = NoTxn
    BY <1>1 DEF Start, Running
  <2>2. Recovered(cal') = Recovered(calFile')
    BY <2>1, RecoveredAgain DEF TypeOK
  <2>3. MemoryAgrees' BY <2>1, <2>2 DEF MemoryAgrees, SameLimits
  <2>4. HolderInformed' BY <2>1, NoTxnOp DEF HolderInformed
  <2>5. FilesAgree' BY <2>1 DEF DiskInv, FilesAgree, FilesFit
  <2>6. SessionSeen' = SessionSeen BY <2>1, SeenIs
  <2>7. Service!Restart BY <2>1, <2>6, Zenon DEF Service!Restart
  <2> QED BY <2>3, <2>4, <2>5, <2>7 DEF DiskInv, ServiceStep, Service!Next
<1>2. CASE ~Start
  <2>1. UNCHANGED <<file, calFile, hw, daemon>> BY <1>2, DeadStep
  <2>2. UNCHANGED Running /\ ~Running' BY <2>1 DEF Running
  <2>3. SessionSeen' = SessionSeen BY <2>1, <2>2, SeenIs
  <2>4. DiskInv'
    BY <2>1, <2>2 DEF DiskInv, FilesAgree, FilesFit, MemoryAgrees, HolderInformed
  <2> QED BY <2>1, <2>2, <2>3, <2>4, NothingSeen
<1> QED BY <1>1, <1>2

\* The ends of the process; SIGTERM shows only when it exits.
LEMMA LifecycleServed ==
    ASSUME TypeOK, DiskInv, Mode = "Firmware", Dependable, Running, Lifecycle
    PROVE  DiskInv' /\ ServiceStep
<1>1. CASE Start BY <1>1 DEF Start, Running
<1>2. CASE Crash BY <1>2, Death DEF Crash, Running
<1>3. CASE Shutdown
  <2>1. Running' /\ UNCHANGED <<conf, file, cal, calFile, hw, txn>>
    BY <1>3 DEF Shutdown, Running
  <2> QED BY <2>1, Unnoticed
<1>4. CASE ResetChargeControl
  <2>1. /\ Running' /\ UNCHANGED <<conf, file, cal, calFile, txn>>
        /\ \E limit \in FirmwareResults(0) : hw' = [hw EXCEPT !.limit = limit]
    BY <1>4, Zenon DEF ResetChargeControl, Running, Dependable
  <2>2. hw'.adapter = hw.adapter BY <2>1 DEF TypeOK, Hardware
  <2> QED BY <2>1, <2>2, Unnoticed
<1>5. CASE Exit
  <2>1. ~Running' /\ UNCHANGED <<file, calFile>> BY <1>5 DEF Exit, Running
  <2>2. PICK ok \in HardwareOutcomes : hw' = [hw EXCEPT !.adapter = @ \/ ok]
    BY <1>5, Zenon DEF Exit
  <2>3. ok = TRUE BY DEF Dependable
  <2>4. hw'.adapter = TRUE BY <2>2, <2>3 DEF TypeOK, Hardware
  <2> QED BY <2>1, <2>4, Death
<1>6. CASE Reload BY <1>6 DEF Reload, Dependable
<1> QED BY <1>1, <1>2, <1>3, <1>4, <1>5, <1>6 DEF Lifecycle

\* A maintain pass shows only what the calibration does.
LEMMA PassServed ==
    ASSUME TypeOK, DiskInv, CheckedConflictsStay, RequestHoldsLock, FirmwarePass,
           Mode = "Firmware", Dependable, Running, Pass
    PROVE  DiskInv' /\ ServiceStep
<1>1. ASSUME NEW by \in Callers, NEW charge \in Charges, PassCalibrates(by, charge)
      PROVE  DiskInv' /\ ServiceStep
    BY <1>1, CalibrationServed
<1>2. ASSUME NEW by \in Callers, NEW charge \in Charges, PassReads(by, charge)
      PROVE  DiskInv' /\ ServiceStep
    BY <1>2 DEF PassReads, Dependable
<1>3. ASSUME NEW by \in Callers, NEW charge \in Charges, PassGoesOn(by, charge)
      PROVE  DiskInv' /\ ServiceStep
    BY <1>3, Unnoticed DEF PassGoesOn, Running
<1>4. ASSUME NEW by \in Callers, NEW charge \in Charges, PassPanics(by, charge)
      PROVE  DiskInv' /\ ServiceStep
  <2>1. /\ UNCHANGED <<conf, file, cal, calFile, hw>> /\ Return(by) /\ CalibrationRuns
        /\ daemon' = IF by \in {"loop", "forced"} THEN "panicked" ELSE daemon
    BY <1>4 DEF PassPanics
  <2>2. txn' = NoTxn /\ txn.op # "adapterSave"
    BY <2>1, CalibrationRunsUnlocked, NoTxnOp DEF Return
  <2>3. CASE daemon' = daemon BY <2>1, <2>2, <2>3, Unnoticed DEF Running
  <2>4. CASE daemon' = "panicked" BY <2>1, <2>4, Death DEF Running
  <2> QED BY <2>1, <2>3, <2>4
<1>5. ASSUME NEW by \in Callers, PassFails(by) PROVE DiskInv' /\ ServiceStep
    BY <1>5 DEF PassFails, Dependable
<1>6. CASE PassReconciles
  <2>1. /\ Running' /\ UNCHANGED <<conf, file, cal, calFile>> /\ Return(pass.by)
        /\ \E limit \in FirmwareResults(TargetLimit(conf)) :
              hw' = [hw EXCEPT !.limit = limit]
    BY <1>6 DEF PassReconciles, Running
  <2>2. hw'.adapter = hw.adapter BY <2>1 DEF TypeOK, Hardware
  <2>3. txn' = txn \/ (txn' = NoTxn /\ txn.op # "adapterSave")
    BY <2>1 DEF Return, RequestHoldsLock
  <2> QED BY <2>1, <2>2, <2>3, Unnoticed
<1>7. CASE PassHysteresis \/ PassNoMaintain
    BY <1>7 DEF PassHysteresis, PassNoMaintain, FirmwarePass
<1> QED BY <1>1, <1>2, <1>3, <1>4, <1>5, <1>6, <1>7, Zenon DEF Pass

LEMMA StepServed ==
    ASSUME TypeOK, DiskInv, CheckedConflictsStay, RequestHoldsLock, FirmwarePass,
           Mode = "Firmware", Dependable, [Next]_vars
    PROVE  DiskInv' /\ ServiceStep
<1>1. CASE ~Running BY <1>1, DeadServed
<1>2. CASE Running /\ Lifecycle BY <1>2, LifecycleServed
<1>3. CASE LimitRequest
    BY <1>3, LimitChecked, LimitServed, DisableForServed, DeltaServed, Zenon
    DEF LimitRequest
<1>4. CASE AdapterRequest
    BY <1>4, AdapterServed, AdapterForServed, Zenon DEF AdapterRequest
<1>5. CASE CalibrationRequest
    BY <1>5, StartServed, PauseServed, CancelServed, Zenon DEF CalibrationRequest
<1>6. CASE Running /\ Pass BY <1>6, PassServed
<1>7. CASE MainLoop
  <2>1. CASE LoopTop
      BY <2>1, Unnoticed DEF LoopTop, Running
  <2> QED BY <1>7, <2>1, LoopRestoreServed, LoopAdapterServed DEF MainLoop
<1>8. CASE Running /\ (Tick \/ UNCHANGED vars)
    BY <1>8, Unnoticed DEF Tick, vars, Running
<1> QED BY <1>1, <1>2, <1>3, <1>4, <1>5, <1>6, <1>7, <1>8 DEF Next

LEMMA ServiceInit ==
    ASSUME Init
    PROVE  /\ DiskInv /\ RequestHoldsLock /\ FirmwarePass
           /\ Service!Init
<1>1. PICK l \in Limits : file = FreshFile(l) BY DEF Init
<1>2. ~Running /\ Running = FALSE BY DEF Init, Running
<1>3. calFile = NoCalibration /\ pass = NoPass /\ hw.adapter = TRUE BY DEF Init
<1>4. FilesAgree BY <1>1, <1>3 DEF FilesAgree, FilesFit, FreshFile, NoCalibration
<1>5. DiskInv BY <1>2, <1>4 DEF DiskInv, MemoryAgrees, HolderInformed
<1>6. SessionSeen = Service!NoSession
  BY <1>2, <1>3, NoCalibrationType, RecoveredFields
  DEF SessionSeen, Service!NoSession, NoCalibration
<1>7. /\ file.wanted \in Limits /\ file.limit = file.wanted
      /\ (file.disableUntil # 0) = FALSE /\ (file.adapterDisableUntil # 0) = FALSE
  BY <1>1 DEF FreshFile
<1>8. Service!Init BY <1>2, <1>3, <1>6, <1>7, Zenon DEF Service!Init
<1> QED BY <1>2, <1>3, <1>5, <1>8 DEF RequestHoldsLock, FirmwarePass, NoPass

\* The whole invariant, and the step it maps to.
LEMMA StepKeepsService ==
    ASSUME Mode = "Firmware", Dependable, TypeOK, CheckedConflictsStay, DiskInv,
           RequestHoldsLock, FirmwarePass, [Next]_vars
    PROVE  DiskInv' /\ RequestHoldsLock' /\ FirmwarePass' /\ ServiceStep
<1>1. DiskInv' /\ ServiceStep
    BY StepServed
<1>2. FirmwarePass'
    BY FirmwarePassStep
<1>3. RequestHoldsLock'
    BY RequestHoldsLockStep
<1> QED BY <1>1, <1>2, <1>3

\* The handlers' check and commit under chargeControlTransitionMu (handlers.go),
\* the two timers of the main loop (loop.go), the session's steps (calibration.go)
\* and the recovery of both files at start-up (daemon.go) are, to those who talk
\* to the daemon, the atomic steps of the service, through every death of the
\* process.
THEOREM ServiceImplemented ==
    ASSUME Mode = "Firmware", Dependable
    PROVE  Spec => ImplementsService
<1>1. Init => Service!Init /\ DiskInv /\ RequestHoldsLock /\ FirmwarePass
    BY ServiceInit
<1>2. TypeOK /\ CheckedConflictsStay /\ DiskInv /\ RequestHoldsLock /\ FirmwarePass
          /\ [Next]_vars
          => DiskInv' /\ RequestHoldsLock' /\ FirmwarePass' /\ ServiceStep
    BY StepKeepsService
<1> QED BY <1>1, <1>2, TypeCorrect, ChecksStayTrue, PTL
        DEF Spec, ImplementsService, Service!Spec, ServiceStep

\* The user's limit is never lost: whatever requests, passes and deaths of the
\* process led here, the limit last set is in force, or the timer or the session
\* that raised it gives it back, and never are there both.
THEOREM LimitPromiseKept ==
    ASSUME Mode = "Firmware", Dependable
    PROVE  Spec => []Service!LimitPromise
<1>1. Init => DiskInv /\ RequestHoldsLock /\ FirmwarePass
    BY ServiceInit
<1>2. TypeOK /\ CheckedConflictsStay /\ DiskInv /\ RequestHoldsLock /\ FirmwarePass
          /\ [Next]_vars
          => DiskInv' /\ RequestHoldsLock' /\ FirmwarePass'
    BY StepKeepsService
<1>3. TypeOK /\ DiskInv => Service!LimitPromise
  <2> SUFFICES ASSUME TypeOK, DiskInv PROVE Service!LimitPromise
      OBVIOUS
  <2>1. SessionSeen.phase = calFile.phase
      BY SeenIs, SessionOnDisk, RecoveredFields DEF View, TypeOK
  <2> QED BY <2>1 DEF Service!LimitPromise, DiskInv, FilesAgree, FilesFit
<1> QED BY <1>1, <1>2, <1>3, TypeCorrect, ChecksStayTrue, PTL DEF Spec

=============================================================================
