------------------------ MODULE FirmwareLimitProofs ------------------------
(***************************************************************************)
(* A sequence of accesses to the firmware limit that nobody else writes    *)
(* into sets one whole pair while the limit is inactive, and no step but   *)
(* a start caps a charge phase: for every limit, delta and number of       *)
(* events.                                                                 *)
(*                                                                         *)
(* Whoever writes takes from the others that they are alone, so what an    *)
(* alone sequence has written is still there; and what it is to write was  *)
(* checked before its first read (SequenceInv).                            *)
(*                                                                         *)
(* The discharge phase ends with the limit off.  While the configured      *)
(* limit is full in the charge phase, nobody is on the way to another:     *)
(* a cancellation is past the limit's sequence or has put the snapshot's   *)
(* limit back first (ChargeInv).                                           *)
(***************************************************************************)
EXTENDS FirmwareLimit, TLAPS

Pairs == [limit : Int, delta : Int]
Registers == [active : BOOLEAN, upper : Int, lower : Int]
Sessions == [phase : Phases, paused : BOOLEAN, upper : Int, lower : Int]
TaskStates == [at : Places, upper : Int, lower : Int, same : BOOLEAN, alone : BOOLEAN]

Typed ==
    /\ conf \in Pairs /\ file \in Pairs
    /\ regs \in Registers
    /\ session \in Sessions
    /\ task \in [Tasks -> TaskStates]

\* What is checked before the reads holds through them and the writes.
PairChecked(t) == t.at \in ReadSteps \cup WriteSteps => t.lower < t.upper

\* What an alone sequence has written so far is in the registers r.
WritesStand(t, r) ==
    t.alone =>
        /\ t.at \in {"writeUpper", "writeLower", "activate"} => ~r.active
        /\ t.at \in {"writeLower", "activate"} => r.upper = t.upper
        /\ t.at = "activate" => r.lower = t.lower

SequenceInv ==
    Typed /\ \A w \in Tasks : PairChecked(task[w]) /\ WritesStand(task[w], regs)

-----------------------------------------------------------------------------
(* Places and states of a sequence *)

\* A sequence at its beginning, or where it accesses nothing.
LEMMA FreshTask ==
    ASSUME NEW at \in Places, NEW upper \in Int, NEW lower \in Int,
           at \notin WriteSteps, at \in ReadSteps => lower < upper
    PROVE  /\ At(at, upper, lower) \in TaskStates
           /\ PairChecked(At(at, upper, lower))
           /\ \A r : WritesStand(At(at, upper, lower), r)
BY DEF At, TaskStates, PairChecked, WritesStand, WriteSteps

LEMMA IdleTask ==
    Idle \in TaskStates /\ PairChecked(Idle) /\ \A r : WritesStand(Idle, r)
BY DEF Idle, At, TaskStates, Places, PairChecked, WritesStand, WriteSteps, ReadSteps

-----------------------------------------------------------------------------
(* How tasks change *)

\* One sequence goes on and nothing is written.
LEMMA OneTaskChanges ==
    ASSUME SequenceInv, NEW w \in Tasks, NEW t \in TaskStates,
           task' = [task EXCEPT ![w] = t], regs' = regs,
           PairChecked(t), WritesStand(t, regs),
           conf' \in Pairs, file' \in Pairs, session' \in Sessions
    PROVE  SequenceInv'
<1>1. task \in [Tasks -> TaskStates] /\ regs \in Registers BY DEF SequenceInv, Typed
<1> HIDE DEF TaskStates
<1>2. task' \in [Tasks -> TaskStates] BY <1>1
<1>3. \A v \in Tasks : task'[v] = IF v = w THEN t ELSE task[v] BY <1>1
<1>4. Typed' BY <1>1, <1>2 DEF Typed
<1>5. ASSUME NEW v \in Tasks PROVE PairChecked(task'[v]) /\ WritesStand(task'[v], regs)
  BY <1>3 DEF SequenceInv
<1> QED BY <1>4, <1>5 DEF SequenceInv, PairChecked, WritesStand

\* Nothing of the limit changes.
LEMMA NothingChanges ==
    ASSUME SequenceInv, UNCHANGED <<regs, task>>,
           conf' \in Pairs, file' \in Pairs, session' \in Sessions
    PROVE  SequenceInv'
BY DEF SequenceInv, Typed, PairChecked, WritesStand

\* A write: nobody else is alone after it.
LEMMA WriteKeepsInv ==
    ASSUME SequenceInv, NEW w \in Tasks, NEW at \in Places, NEW r \in Registers,
           Writes(w, at, r), task[w].at \in WriteSteps \cup OffSteps,
           at \in WriteSteps => task[w].at \in WriteSteps, at \notin ReadSteps,
           WritesStand([task[w] EXCEPT !.at = at], r),
           UNCHANGED <<conf, file, session>>
    PROVE  SequenceInv'
<1>1. task \in [Tasks -> TaskStates] BY DEF SequenceInv, Typed
<1> DEFINE t == [task[w] EXCEPT !.at = at]
           u(v) == IF task[v].at \in SmcSteps THEN [task[v] EXCEPT !.alone = FALSE]
                   ELSE task[v]
<1>2. t \in TaskStates BY <1>1 DEF TaskStates
<1>3. \A v \in Tasks : u(v) \in TaskStates BY <1>1 DEF TaskStates
<1>4. task' = [v \in Tasks |-> IF v = w THEN t ELSE u(v)] /\ regs' = r
  BY DEF Writes
<1>5. PairChecked(t)
  <2>1. t.at = at /\ t.lower = task[w].lower /\ t.upper = task[w].upper
    BY <1>1 DEF TaskStates
  <2> QED BY <2>1 DEF PairChecked, SequenceInv
<1>6. ASSUME NEW v \in Tasks PROVE PairChecked(u(v)) /\ WritesStand(u(v), r)
  <2>1. PairChecked(task[v]) BY DEF SequenceInv
  <2>2. CASE task[v].at \in SmcSteps
    <3>1. /\ u(v).at = task[v].at /\ u(v).lower = task[v].lower
          /\ u(v).upper = task[v].upper /\ u(v).alone = FALSE
      BY <1>1, <2>2 DEF TaskStates
    <3> QED BY <2>1, <3>1 DEF PairChecked, WritesStand
  <2>3. CASE task[v].at \notin SmcSteps
    <3>1. task[v].at \notin WriteSteps BY <2>3 DEF SmcSteps
    <3> QED BY <2>1, <2>3, <3>1 DEF WritesStand, WriteSteps
  <2> QED BY <2>2, <2>3
<1> HIDE DEF t, u, TaskStates
<1>7. Typed' BY <1>2, <1>3, <1>4 DEF SequenceInv, Typed
<1>8. ASSUME NEW v \in Tasks PROVE PairChecked(task'[v]) /\ WritesStand(task'[v], r)
  <2>1. task'[v] = IF v = w THEN t ELSE u(v) BY <1>4
  <2>2. WritesStand(t, r) BY DEF t
  <2> QED BY <1>5, <1>6, <2>1, <2>2
<1> QED BY <1>4, <1>7, <1>8 DEF SequenceInv, PairChecked, WritesStand

\* w goes on to a place where it has nothing to have written.
LEMMA GoesKeepsInv ==
    ASSUME SequenceInv, NEW w \in Tasks, NEW at \in Places, Goes(w, at),
           at \notin WriteSteps, at \notin ReadSteps, regs' = regs,
           conf' \in Pairs, file' \in Pairs, session' \in Sessions
    PROVE  SequenceInv'
<1> DEFINE t == [task[w] EXCEPT !.at = at]
<1>1. task[w] \in TaskStates BY DEF SequenceInv, Typed
<1>2. t \in TaskStates /\ t.at = at BY <1>1 DEF TaskStates
<1>3. PairChecked(t) /\ WritesStand(t, regs)
  BY <1>2 DEF PairChecked, WritesStand, WriteSteps
<1>4. task' = [task EXCEPT ![w] = t] BY DEF Goes
<1> HIDE DEF t
<1> QED BY <1>2, <1>3, <1>4, OneTaskChanges

\* A sequence that begins anew.
LEMMA FreshKeepsInv ==
    ASSUME SequenceInv, NEW w \in Tasks,
           NEW at \in Places, NEW upper \in Int, NEW lower \in Int,
           at \notin WriteSteps, at \in ReadSteps => lower < upper,
           task' = [task EXCEPT ![w] = At(at, upper, lower)], regs' = regs,
           conf' \in Pairs, file' \in Pairs, session' \in Sessions
    PROVE  SequenceInv'
<1> DEFINE t == At(at, upper, lower)
<1>1. t \in TaskStates /\ PairChecked(t) /\ WritesStand(t, regs) BY FreshTask
<1>2. task' = [task EXCEPT ![w] = t] OBVIOUS
<1> HIDE DEF t
<1> QED BY <1>1, <1>2, OneTaskChanges

LEMMA EnsureKeepsInv ==
    ASSUME SequenceInv, NEW w \in Tasks, NEW lower \in Int, NEW upper \in Int,
           EnsureBegins(w, lower, upper), regs' = regs,
           conf' \in Pairs, file' \in Pairs, session' \in Sessions
    PROVE  SequenceInv'
<1>1. CASE Refused(lower, upper)
  <2>1. task' = [task EXCEPT ![w] = At("failed", upper, lower)]
    BY <1>1 DEF EnsureBegins
  <2>2. "failed" \in Places /\ "failed" \notin WriteSteps /\ "failed" \notin ReadSteps
    BY DEF Places, WriteSteps, ReadSteps
  <2> QED BY <2>1, <2>2, FreshKeepsInv
<1>2. CASE ~Refused(lower, upper)
  <2>1. task' = [task EXCEPT ![w] = At("readActive", upper, lower)]
    BY <1>2 DEF EnsureBegins
  <2>2. "readActive" \in Places /\ "readActive" \notin WriteSteps
    BY DEF Places, SmcSteps, ReadSteps, WriteSteps
  <2>3. lower < upper BY <1>2 DEF Refused
  <2> QED BY <2>1, <2>2, <2>3, FreshKeepsInv
<1> QED BY <1>1, <1>2

LEMMA DisableKeepsInv ==
    ASSUME SequenceInv, NEW w \in Tasks, DisableBegins(w), regs' = regs,
           conf' \in Pairs, file' \in Pairs, session' \in Sessions
    PROVE  SequenceInv'
<1>1. task' = [task EXCEPT ![w] = At("test", Full, 0)] BY DEF DisableBegins
<1>2. "test" \in Places /\ "test" \notin WriteSteps /\ "test" \notin ReadSteps
  BY DEF Places, SmcSteps, OffSteps, WriteSteps, ReadSteps
<1>3. Full \in Int /\ 0 \in Int BY DEF Full
<1> QED BY <1>1, <1>2, <1>3, FreshKeepsInv

-----------------------------------------------------------------------------
(* Every step keeps the invariant *)

LEMMA FieldTypes ==
    ASSUME SequenceInv
    PROVE  /\ conf \in Pairs /\ conf.limit \in Int /\ conf.delta \in Int
           /\ file \in Pairs
           /\ regs \in Registers
           /\ session \in Sessions /\ session.upper \in Int /\ session.lower \in Int
           /\ task \in [Tasks -> TaskStates]
BY DEF SequenceInv, Typed, Pairs, Sessions

LEMMA ReadKeepsInv ==
    ASSUME SequenceInv, NEW w \in Tasks, Read(w), UNCHANGED <<conf, file, session>>
    PROVE  SequenceInv'
<1> DEFINE same == task[w].same /\ Matches(w)
           next == CASE task[w].at = "readActive" -> "readUpper"
                     [] task[w].at = "readUpper"  -> "readLower"
                     [] task[w].at = "readLower"  -> IF same THEN "done" ELSE "deactivate"
           t == [task[w] EXCEPT !.at = next, !.same = same]
<1>1. task[w] \in TaskStates BY FieldTypes
<1>2. task[w].at \in ReadSteps /\ regs' = regs BY DEF Read
<1>3. next \in {"readUpper", "readLower", "done", "deactivate"}
  BY <1>2 DEF ReadSteps
<1>4. next \in Places BY <1>3 DEF Places, SmcSteps, ReadSteps, WriteSteps
<1>5. same \in BOOLEAN OBVIOUS
<1>6. task' = [task EXCEPT ![w] = t]
  <2>1. task' = [task EXCEPT ![w].at = next, ![w].same = same] BY DEF Read
  <2> HIDE DEF next, same
  <2> QED BY <2>1, FieldTypes
<1> HIDE DEF next, same
<1>7. /\ t \in TaskStates /\ t.at = next
      /\ t.lower = task[w].lower /\ t.upper = task[w].upper
  BY <1>1, <1>4, <1>5 DEF TaskStates
<1>8. PairChecked(task[w]) BY DEF SequenceInv
<1>9. PairChecked(t) BY <1>2, <1>7, <1>8 DEF PairChecked
<1>10. WritesStand(t, regs) BY <1>3, <1>7 DEF WritesStand
<1> HIDE DEF t
<1> QED BY <1>2, <1>6, <1>7, <1>9, <1>10, FieldTypes, OneTaskChanges

\* The four writes: each leaves in the registers what the next place asks for.
LEMMA WriteStepKeepsInv ==
    ASSUME SequenceInv, NEW w \in Tasks, Write(w), UNCHANGED <<conf, file, session>>
    PROVE  SequenceInv'
<1>1. task[w] \in TaskStates /\ regs \in Registers BY FieldTypes
<1>2. WritesStand(task[w], regs) BY DEF SequenceInv
<1>3. ASSUME NEW at \in Places
      PROVE  LET t == [task[w] EXCEPT !.at = at] IN
             /\ t.at = at /\ t.alone = task[w].alone
             /\ t.upper = task[w].upper /\ t.lower = task[w].lower
  BY <1>1 DEF TaskStates
<1>4. /\ {"deactivate", "writeUpper", "writeLower", "activate", "done"} \subseteq Places
      /\ WriteSteps = {"deactivate", "writeUpper", "writeLower", "activate"}
      /\ \A at \in {"writeUpper", "writeLower", "activate", "done"} : at \notin ReadSteps
      /\ "done" \notin WriteSteps
  BY DEF Places, SmcSteps, WriteSteps, ReadSteps
<1>5. CASE task[w].at = "deactivate"
           /\ Writes(w, "writeUpper", [regs EXCEPT !.active = FALSE])
  <2> DEFINE r == [regs EXCEPT !.active = FALSE]
  <2>1. r \in Registers /\ r.active = FALSE BY <1>1 DEF Registers
  <2>2. WritesStand([task[w] EXCEPT !.at = "writeUpper"], r)
    BY <1>3, <1>4, <2>1 DEF WritesStand
  <2>3. Writes(w, "writeUpper", r) BY <1>5
  <2> HIDE DEF r
  <2> QED BY <1>4, <1>5, <2>1, <2>2, <2>3, WriteKeepsInv
<1>6. CASE task[w].at = "writeUpper"
           /\ Writes(w, "writeLower", [regs EXCEPT !.upper = task[w].upper])
  <2> DEFINE r == [regs EXCEPT !.upper = task[w].upper]
  <2>1. r \in Registers /\ r.active = regs.active /\ r.upper = task[w].upper
    BY <1>1 DEF Registers, TaskStates
  <2>2. task[w].alone => ~regs.active BY <1>2, <1>6 DEF WritesStand
  <2>3. WritesStand([task[w] EXCEPT !.at = "writeLower"], r)
    BY <1>3, <1>4, <2>1, <2>2 DEF WritesStand
  <2>4. Writes(w, "writeLower", r) BY <1>6
  <2> HIDE DEF r
  <2> QED BY <1>4, <1>6, <2>1, <2>3, <2>4, WriteKeepsInv
<1>7. CASE task[w].at = "writeLower"
           /\ Writes(w, "activate", [regs EXCEPT !.lower = task[w].lower])
  <2> DEFINE r == [regs EXCEPT !.lower = task[w].lower]
  <2>1. /\ r \in Registers /\ r.active = regs.active /\ r.upper = regs.upper
        /\ r.lower = task[w].lower
    BY <1>1 DEF Registers, TaskStates
  <2>2. task[w].alone => ~regs.active /\ regs.upper = task[w].upper
    BY <1>2, <1>7 DEF WritesStand
  <2>3. WritesStand([task[w] EXCEPT !.at = "activate"], r)
    BY <1>3, <1>4, <2>1, <2>2 DEF WritesStand
  <2>4. Writes(w, "activate", r) BY <1>7
  <2> HIDE DEF r
  <2> QED BY <1>4, <1>7, <2>1, <2>3, <2>4, WriteKeepsInv
<1>8. CASE task[w].at = "activate" /\ Writes(w, "done", [regs EXCEPT !.active = TRUE])
  <2> DEFINE r == [regs EXCEPT !.active = TRUE]
  <2>1. r \in Registers BY <1>1 DEF Registers
  <2>2. WritesStand([task[w] EXCEPT !.at = "done"], r) BY <1>3, <1>4 DEF WritesStand
  <2>3. Writes(w, "done", r) BY <1>8
  <2> HIDE DEF r
  <2> QED BY <1>4, <1>8, <2>1, <2>2, <2>3, WriteKeepsInv
<1> QED BY <1>5, <1>6, <1>7, <1>8 DEF Write

LEMMA TurnOffKeepsInv ==
    ASSUME SequenceInv, NEW w \in Tasks, TurnOff(w), UNCHANGED <<conf, file, session>>
    PROVE  SequenceInv'
<1>1. /\ {"done", "turnOff"} \subseteq Places
      /\ \A at \in {"done", "turnOff"} : at \notin ReadSteps /\ at \notin WriteSteps
      /\ "turnOff" \in OffSteps
  BY DEF Places, SmcSteps, OffSteps, WriteSteps, ReadSteps
<1>2. CASE task[w].at = "test" /\ Goes(w, IF regs.active THEN "turnOff" ELSE "done")
           /\ UNCHANGED regs
  <2>1. CASE regs.active BY <1>1, <1>2, <2>1, FieldTypes, GoesKeepsInv
  <2>2. CASE ~regs.active BY <1>1, <1>2, <2>2, FieldTypes, GoesKeepsInv
  <2> QED BY <2>1, <2>2
<1>3. CASE task[w].at = "turnOff" /\ Writes(w, "done", [regs EXCEPT !.active = FALSE])
  <2> DEFINE r == [regs EXCEPT !.active = FALSE]
             t == [task[w] EXCEPT !.at = "done"]
  <2>1. r \in Registers BY FieldTypes DEF Registers
  <2>2. t.at = "done" BY FieldTypes DEF TaskStates
  <2>3. WritesStand(t, r) BY <2>2 DEF WritesStand
  <2>4. Writes(w, "done", r) BY <1>3
  <2> HIDE DEF r
  <2> QED BY <1>1, <1>3, <2>1, <2>3, <2>4, WriteKeepsInv
<1> QED BY <1>2, <1>3 DEF TurnOff

LEMMA FailsKeepsInv ==
    ASSUME SequenceInv, NEW w \in Tasks, Fails(w)
    PROVE  SequenceInv'
<1>1. "failed" \in Places /\ "failed" \notin WriteSteps /\ "failed" \notin ReadSteps
  BY DEF Places, WriteSteps, ReadSteps
<1>2. Goes(w, "failed") /\ UNCHANGED <<conf, file, session, regs>> BY DEF Fails
<1> QED BY <1>1, <1>2, FieldTypes, GoesKeepsInv

\* A pass goes on to a place where it accesses nothing.
LEMMA PassGoesKeepsInv ==
    ASSUME SequenceInv, NEW at \in {"idle", "checks", "calibrates", "limit"}, PassGoes(at),
           session' \in Sessions
    PROVE  SequenceInv'
<1>1. at \in Places /\ at \notin WriteSteps /\ at \notin ReadSteps
  BY DEF Places, WriteSteps, ReadSteps
<1>2. "pass" \in Tasks BY DEF Tasks
<1>3. task' = [task EXCEPT !["pass"] = At(at, 0, 0)] /\ UNCHANGED <<conf, file, regs>>
  BY DEF PassGoes
<1>4. 0 \in Int OBVIOUS
<1> QED BY <1>1, <1>2, <1>3, <1>4, FieldTypes, FreshKeepsInv

LEMMA PassKeepsInv == SequenceInv /\ PassStep => SequenceInv'
<1> SUFFICES ASSUME SequenceInv, PassStep PROVE SequenceInv'
  OBVIOUS
<1>0. "pass" \in Tasks BY DEF Tasks
<1>1. CASE PassBegins BY <1>1, FieldTypes, PassGoesKeepsInv DEF PassBegins
<1>2. CASE PassChecks
  <2>1. session' = session BY <1>2 DEF PassChecks
  <2>2. PICK at \in {"idle", "calibrates", "limit"} : PassGoes(at)
    BY <1>2, Zenon DEF PassChecks
  <2> QED BY <2>1, <2>2, FieldTypes, PassGoesKeepsInv
<1>3. CASE PassCalibrates
  <2>1. CASE CalibrationOver BY <2>1, FieldTypes, PassGoesKeepsInv DEF CalibrationOver
  <2>2. CASE CalibrationWaits
    <3>1. session' \in Sessions
      BY <2>2, FieldTypes DEF CalibrationWaits, Sessions, Phases
    <3> QED BY <2>2, <3>1, PassGoesKeepsInv DEF CalibrationWaits
  <2>3. CASE CalibrationWrites
    <3>1. UNCHANGED <<conf, file, regs, session>> BY <2>3 DEF CalibrationWrites
    <3>2. CASE DisableBegins("pass") BY <1>0, <3>1, <3>2, FieldTypes, DisableKeepsInv
    <3>3. CASE task' = [task EXCEPT !["pass"] = At("setUpper", 0, 0)]
      <4>1. "setUpper" \in Places /\ "setUpper" \notin WriteSteps
            /\ "setUpper" \notin ReadSteps
        BY DEF Places, WriteSteps, ReadSteps
      <4>2. 0 \in Int OBVIOUS
      <4> QED BY <1>0, <3>1, <3>3, <4>1, <4>2, FieldTypes, FreshKeepsInv
    <3> QED BY <2>3, <3>2, <3>3 DEF CalibrationWrites
  <2>4. CASE CalibrationFails
    <3>1. session' \in Sessions
      BY <2>4, FieldTypes DEF CalibrationFails, Sessions, Phases
    <3> QED BY <2>4, <3>1, PassGoesKeepsInv DEF CalibrationFails
  <2> QED BY <1>3, <2>1, <2>2, <2>3, <2>4 DEF PassCalibrates
<1>4. CASE PassReadsUpper
  <2>1. UNCHANGED <<conf, file, regs, session>> BY <1>4 DEF PassReadsUpper
  <2>2. CASE DisableBegins("pass") BY <1>0, <2>1, <2>2, FieldTypes, DisableKeepsInv
  <2>3. CASE task' = [task EXCEPT !["pass"] = At("lower", conf.limit, 0)]
    <3>1. "lower" \in Places /\ "lower" \notin WriteSteps /\ "lower" \notin ReadSteps
      BY DEF Places, WriteSteps, ReadSteps
    <3>2. 0 \in Int /\ conf.limit \in Int BY FieldTypes
    <3> QED BY <1>0, <2>1, <2>3, <3>1, <3>2, FieldTypes, FreshKeepsInv
  <2> QED BY <1>4, <2>2, <2>3 DEF PassReadsUpper
<1>5. CASE PassReadsLower
  <2>1. UNCHANGED <<conf, file, regs, session>> BY <1>5 DEF PassReadsLower
  <2>2. EnsureBegins("pass", conf.limit - conf.delta, task["pass"].upper)
    BY <1>5 DEF PassReadsLower
  <2>3. conf.limit - conf.delta \in Int BY FieldTypes
  <2>4. task["pass"].upper \in Int BY <1>0, FieldTypes DEF TaskStates
  <2> QED BY <1>0, <2>1, <2>2, <2>3, <2>4, FieldTypes, EnsureKeepsInv
<1>6. CASE PassEnds
  <2>1. task' = [task EXCEPT !["pass"] = Idle] /\ regs' = regs BY <1>6 DEF PassEnds
  <2>2. CASE calMu # "pass"
    <3>1. UNCHANGED <<session, conf, file>> BY <1>6, <2>2 DEF PassEnds
    <3> QED BY <1>0, <2>1, <3>1, IdleTask, FieldTypes, OneTaskChanges
  <2>3. CASE calMu = "pass"
    <3>1. conf' \in Pairs /\ file' \in Pairs /\ session' \in Sessions
      <4>1. CASE ChargePhaseBegins
        <5>1. conf' \in Pairs /\ file' = conf'
          BY <4>1, FieldTypes DEF ChargePhaseBegins, Pairs, Full
        <5>2. session' \in Sessions
          BY <4>1, FieldTypes DEF ChargePhaseBegins, Sessions, Phases
        <5> QED BY <5>1, <5>2
      <4>2. CASE ChargePhaseFails
        <5>1. session' \in Sessions
          BY <4>2, FieldTypes DEF ChargePhaseFails, Sessions, Phases
        <5> QED BY <4>2, <5>1, FieldTypes DEF ChargePhaseFails
      <4>3. CASE CalibrationEnds
        <5>1. NoSession \in Sessions BY DEF NoSession, Sessions, Phases
        <5> QED BY <4>3, <5>1, FieldTypes DEF CalibrationEnds
      <4> QED BY <1>6, <2>3, <4>1, <4>2, <4>3 DEF PassEnds
    <3> QED BY <1>0, <2>1, <3>1, IdleTask, OneTaskChanges
  <2> QED BY <2>2, <2>3
<1> QED BY <1>1, <1>2, <1>3, <1>4, <1>5, <1>6, Zenon DEF PassStep

\* A calibration's end restores the configuration, and begins the sequence that follows.
LEMMA RestoreKeepsInv ==
    ASSUME SequenceInv, NEW w \in Tasks, RestoresUpper(w) \/ RestoresLower(w)
    PROVE  SequenceInv'
<1>1. CASE RestoresUpper(w)
  <2>1. conf' \in Pairs BY <1>1, FieldTypes DEF RestoresUpper, Pairs
  <2>2. UNCHANGED <<file, session, regs>> /\ Goes(w, "setLower")
    BY <1>1 DEF RestoresUpper
  <2>3. "setLower" \in Places /\ "setLower" \notin WriteSteps /\ "setLower" \notin ReadSteps
    BY DEF Places, WriteSteps, ReadSteps
  <2> QED BY <2>1, <2>2, <2>3, FieldTypes, GoesKeepsInv
<1>2. CASE RestoresLower(w)
  <2>1. conf' \in Pairs /\ file' = conf'
    BY <1>2, FieldTypes DEF RestoresLower, Pairs
  <2>2. UNCHANGED <<session, regs>> BY <1>2 DEF RestoresLower
  <2>3. CASE EnsureBegins(w, session.lower, session.upper)
    BY <2>1, <2>2, <2>3, FieldTypes, EnsureKeepsInv
  <2>4. CASE DisableBegins(w) BY <2>1, <2>2, <2>4, FieldTypes, DisableKeepsInv
  <2> QED BY <1>2, <2>3, <2>4 DEF RestoresLower
<1> QED BY <1>1, <1>2

\* Requests and a start change the configuration and the session only.
LEMMA RequestKeepsInv ==
    ASSUME SequenceInv,
           SetLimit \/ SetLowerLimitDelta \/ StartCalibration \/ PauseCalibration
             \/ ResumeCalibration \/ Starts
    PROVE  SequenceInv'
<1>1. CASE SetLimit
  <2>1. PICK l \in Limits : conf' = [conf EXCEPT !.limit = l] /\ file' = conf'
    BY <1>1 DEF SetLimit
  <2>2. l \in Int BY ConstantsAssumption DEF Floor, Full
  <2>3. conf' \in Pairs BY <2>1, <2>2, FieldTypes DEF Pairs
  <2>4. UNCHANGED <<regs, task, session>> BY <1>1 DEF SetLimit
  <2> QED BY <2>1, <2>3, <2>4, FieldTypes, NothingChanges
<1>2. CASE SetLowerLimitDelta
  <2>1. PICK d \in Deltas : conf' = [conf EXCEPT !.delta = d] /\ file' = conf'
    BY <1>2 DEF SetLowerLimitDelta
  <2>2. d \in Int BY ConstantsAssumption DEF Full
  <2>3. conf' \in Pairs BY <2>1, <2>2, FieldTypes DEF Pairs
  <2>4. UNCHANGED <<regs, task, session>> BY <1>2 DEF SetLowerLimitDelta
  <2> QED BY <2>1, <2>3, <2>4, FieldTypes, NothingChanges
<1>3. CASE StartCalibration
  <2>1. session' \in Sessions
    BY <1>3, FieldTypes DEF StartCalibration, SessionBecomes, Sessions, Phases
  <2>2. UNCHANGED <<regs, task, conf, file>>
    BY <1>3 DEF StartCalibration, SessionBecomes
  <2> QED BY <2>1, <2>2, FieldTypes, NothingChanges
<1>4. CASE PauseCalibration \/ ResumeCalibration
  <2>1. session' \in Sessions
    BY <1>4, FieldTypes DEF PauseCalibration, ResumeCalibration, SessionBecomes, Sessions
  <2>2. UNCHANGED <<regs, task, conf, file>>
    BY <1>4 DEF PauseCalibration, ResumeCalibration, SessionBecomes
  <2> QED BY <2>1, <2>2, FieldTypes, NothingChanges
<1>5. CASE Starts
  <2>1. (session.paused \/ session.phase \in {"discharge", "charge"}) \in BOOLEAN
    OBVIOUS
  <2>2. session' \in Sessions BY <1>5, <2>1, FieldTypes DEF Starts, Sessions
  <2>3. UNCHANGED <<regs, task, file>> /\ conf' = file BY <1>5 DEF Starts
  <2> QED BY <2>2, <2>3, FieldTypes, NothingChanges
<1> QED BY <1>1, <1>2, <1>3, <1>4, <1>5

LEMMA CancelAndStopKeepInv ==
    ASSUME SequenceInv, CancelCalibration \/ CancelEnds \/ Stops
    PROVE  SequenceInv'
<1>0. "cancel" \in Tasks /\ "exit" \in Tasks BY DEF Tasks
<1>1. CASE CancelCalibration
  <2>1. "setUpper" \in Places /\ "setUpper" \notin WriteSteps /\ "setUpper" \notin ReadSteps
    BY DEF Places, WriteSteps, ReadSteps
  <2>2. /\ task' = [task EXCEPT !["cancel"] = At("setUpper", 0, 0)]
        /\ UNCHANGED <<conf, file, session, regs>>
    BY <1>1 DEF CancelCalibration
  <2>3. 0 \in Int OBVIOUS
  <2> QED BY <1>0, <2>1, <2>2, <2>3, FieldTypes, FreshKeepsInv
<1>2. CASE CancelEnds
  <2>1. NoSession \in Sessions BY DEF NoSession, Sessions, Phases
  <2>2. /\ task' = [task EXCEPT !["cancel"] = Idle] /\ session' = NoSession
        /\ UNCHANGED <<conf, file, regs>>
    BY <1>2 DEF CancelEnds
  <2> QED BY <1>0, <2>1, <2>2, IdleTask, FieldTypes, OneTaskChanges
<1>3. CASE Stops
  <2>1. DisableBegins("exit") /\ UNCHANGED <<conf, file, session, regs>> BY <1>3 DEF Stops
  <2> QED BY <1>0, <2>1, FieldTypes, DisableKeepsInv
<1> QED BY <1>1, <1>2, <1>3

LEMMA EndKeepsInv ==
    ASSUME SequenceInv, Exits \/ Crashes
    PROVE  SequenceInv'
<1>1. /\ task' = [w \in Tasks |-> Idle]
      /\ UNCHANGED <<conf, file, session, regs>>
  BY DEF Exits, Crashes, Ends
<1> HIDE DEF TaskStates
<1>2. task' \in [Tasks -> TaskStates] BY <1>1, IdleTask
<1>3. \A w \in Tasks : task'[w] = Idle BY <1>1
<1>4. Typed' BY <1>1, <1>2, FieldTypes DEF Typed
<1>5. ASSUME NEW w \in Tasks PROVE PairChecked(task'[w]) /\ WritesStand(task'[w], regs')
  BY <1>3, IdleTask
<1> QED BY <1>4, <1>5 DEF SequenceInv, PairChecked, WritesStand

\* The firmware forgets, and nobody is alone.
LEMMA ForgetKeepsInv == ASSUME SequenceInv, Forgets PROVE SequenceInv'
<1> DEFINE u(w) == [task[w] EXCEPT !.alone = FALSE]
<1>1. /\ task' = [w \in Tasks |-> u(w)]
      /\ regs' = [active |-> FALSE, upper |-> 0, lower |-> 0]
      /\ UNCHANGED <<conf, file, session>>
  BY DEF Forgets
<1>2. \A w \in Tasks : /\ u(w) \in TaskStates /\ u(w).alone = FALSE
                       /\ u(w).at = task[w].at
                       /\ u(w).lower = task[w].lower /\ u(w).upper = task[w].upper
  BY FieldTypes DEF TaskStates
<1>3. \A w \in Tasks : PairChecked(u(w)) BY <1>2 DEF PairChecked, SequenceInv
<1>4. \A w \in Tasks : WritesStand(u(w), regs') BY <1>2 DEF WritesStand
<1>5. regs' \in Registers BY <1>1 DEF Registers
<1> HIDE DEF u, TaskStates
<1>6. task' \in [Tasks -> TaskStates] BY <1>1, <1>2
<1>7. Typed' BY <1>1, <1>5, <1>6, FieldTypes DEF Typed
<1>8. ASSUME NEW w \in Tasks PROVE PairChecked(task'[w]) /\ WritesStand(task'[w], regs')
  <2>1. task'[w] = u(w) BY <1>1
  <2> QED BY <1>3, <1>4, <2>1
<1> QED BY <1>7, <1>8 DEF SequenceInv, PairChecked, WritesStand

-----------------------------------------------------------------------------

LEMMA InitHolds == Init => SequenceInv
<1> SUFFICES ASSUME Init PROVE SequenceInv
  OBVIOUS
<1>1. PICK l \in Limits, d \in Deltas : conf = [limit |-> l, delta |-> d] BY DEF Init
<1>2. l \in Int /\ d \in Int BY ConstantsAssumption DEF Floor, Full
<1>3. conf \in Pairs /\ file \in Pairs BY <1>1, <1>2 DEF Init, Pairs
<1>4. regs \in Registers BY DEF Init, Registers
<1>5. session \in Sessions BY DEF Init, NoSession, Sessions, Phases
<1>6. task = [w \in Tasks |-> Idle] BY DEF Init
<1> HIDE DEF TaskStates
<1>7. task \in [Tasks -> TaskStates] /\ \A w \in Tasks : task[w] = Idle
  BY <1>6, IdleTask
<1>8. Typed BY <1>3, <1>4, <1>5, <1>7 DEF Typed
<1>9. ASSUME NEW w \in Tasks PROVE PairChecked(task[w]) /\ WritesStand(task[w], regs)
  BY <1>7, IdleTask
<1> QED BY <1>8, <1>9 DEF SequenceInv

LEMMA StepKeepsInv == SequenceInv /\ [Next]_vars => SequenceInv'
<1> SUFFICES ASSUME SequenceInv, [Next]_vars PROVE SequenceInv'
  OBVIOUS
<1>1. CASE UNCHANGED vars BY <1>1, FieldTypes, NothingChanges DEF vars
<1>2. CASE PassStep BY <1>2, PassKeepsInv
<1>3. ASSUME NEW w \in Tasks, TaskStep(w) PROVE SequenceInv'
  <2>1. CASE Access(w)
    <3>1. UNCHANGED <<conf, file, session>> BY <2>1 DEF Access
    <3> QED BY <2>1, <3>1, ReadKeepsInv, WriteStepKeepsInv, TurnOffKeepsInv DEF Access
  <2>2. CASE RestoresUpper(w) \/ RestoresLower(w) BY <2>2, RestoreKeepsInv
  <2> QED BY <1>3, <2>1, <2>2 DEF TaskStep
<1>4. ASSUME NEW w \in Tasks, Fails(w) PROVE SequenceInv' BY <1>4, FailsKeepsInv
<1>5. CASE SetLimit \/ SetLowerLimitDelta \/ StartCalibration \/ PauseCalibration
             \/ ResumeCalibration \/ Starts
  BY <1>5, RequestKeepsInv
<1>6. CASE CancelCalibration \/ CancelEnds \/ Stops BY <1>6, CancelAndStopKeepInv
<1>7. CASE Exits \/ Crashes BY <1>7, EndKeepsInv
<1>8. CASE Forgets BY <1>8, ForgetKeepsInv
<1> QED BY <1>1, <1>2, <1>3, <1>4, <1>5, <1>6, <1>7, <1>8, Zenon DEF Next

\* A sequence nobody else writes into changes the limits only while they are inactive,
\* and activates the checked pair it was to set (charging.go:153-183).
THEOREM SequencesSetOnePair == Spec => []SequenceSetsOnePair
<1>1. SequenceInv => SequenceSetsOnePair
  BY DEF SequenceInv, PairChecked, WritesStand, SequenceSetsOnePair
<1> QED BY <1>1, InitHolds, StepKeepsInv, PTL DEF Spec

-----------------------------------------------------------------------------
(* The charge phase *)

SetsLimit == ReadSteps \cup WriteSteps \cup {"lower"}
Ending == OffSteps \cup {"done", "failed"}

\* Who is where, with calibrationMu and without.
LocksHeld ==
    /\ calMu \in {"free", "pass", "cancel"}
    /\ task["exit"].at \in Ending \cup {"idle"}
    /\ calMu # "cancel" => task["cancel"].at = "idle"
    /\ task["cancel"].at \notin {"checks", "calibrates", "limit", "lower"}
    /\ calMu = "pass" =>
          /\ session.phase \in {"discharge", "restore"}
          /\ task["pass"].at \notin {"idle", "checks", "calibrates", "limit", "lower"}
    /\ calMu = "pass" /\ session.phase = "discharge" => task["pass"].at \in Ending
    /\ task["pass"].at \in {"setUpper", "setLower"} =>
          calMu = "pass" /\ session.phase = "restore"
    /\ ~up => task["pass"].at = "idle" /\ calMu = "free"

\* The discharge phase ends with the limit off, and nobody puts it on meanwhile.
DischargeUncaps ==
    calMu = "pass" /\ session.phase = "discharge" /\ task["pass"].at = "done"
        => ~regs.active

RestoreUnderWay == task["cancel"].at = "setLower" => conf.limit = session.upper

\* In the charge phase the limit is Full or the snapshot's, and while it is Full nobody is
\* about to set another.
ChargeLimits ==
    session.phase = "charge" =>
        /\ conf.limit \in {Full, session.upper} /\ file.limit \in {Full, session.upper}
        /\ conf.limit = Full =>
              task["pass"].at \notin SetsLimit /\ task["cancel"].at \notin SetsLimit

ChargeInv == LocksHeld /\ DischargeUncaps /\ RestoreUnderWay /\ ChargeLimits

\* What each step is shown to do.
StaysUncapped == ChargeInv' /\ (Capped' => Capped \/ ~up)

USE DEF Ending, SetsLimit, ReadSteps, WriteSteps, OffSteps

\* The place of one sequence changes.
LEMMA OnePlaceChanges ==
    ASSUME SequenceInv, NEW w \in Tasks, NEW t, task' = [task EXCEPT ![w] = t]
    PROVE  /\ task'[w] = t
           /\ \A v \in Tasks : v # w => task'[v] = task[v]
BY FieldTypes

LEMMA GoesThere ==
    ASSUME SequenceInv, NEW w \in Tasks, NEW at, Goes(w, at)
    PROVE  /\ task'[w].at = at
           /\ \A v \in Tasks : v # w => task'[v] = task[v]
<1> DEFINE t == [task[w] EXCEPT !.at = at]
<1>1. task[w] \in TaskStates BY FieldTypes
<1>2. t.at = at BY <1>1 DEF TaskStates
<1>3. task' = [task EXCEPT ![w] = t] BY DEF Goes
<1> HIDE DEF t
<1> QED BY <1>2, <1>3, OnePlaceChanges

LEMMA BeginsThere ==
    ASSUME SequenceInv, NEW w \in Tasks, NEW at, NEW upper, NEW lower,
           task' = [task EXCEPT ![w] = At(at, upper, lower)]
    PROVE  /\ task'[w].at = at
           /\ \A v \in Tasks : v # w => task'[v] = task[v]
<1> DEFINE t == At(at, upper, lower)
<1>1. t.at = at BY DEF At
<1>2. task' = [task EXCEPT ![w] = t] OBVIOUS
<1> HIDE DEF t
<1> QED BY <1>1, <1>2, OnePlaceChanges

LEMMA EnsureThere ==
    ASSUME SequenceInv, NEW w \in Tasks, NEW lower, NEW upper,
           EnsureBegins(w, lower, upper)
    PROVE  /\ task'[w].at \in {"failed", "readActive"}
           /\ \A v \in Tasks : v # w => task'[v] = task[v]
<1>1. CASE Refused(lower, upper)
  <2>1. task' = [task EXCEPT ![w] = At("failed", upper, lower)]
    BY <1>1 DEF EnsureBegins
  <2> QED BY <2>1, BeginsThere
<1>2. CASE ~Refused(lower, upper)
  <2>1. task' = [task EXCEPT ![w] = At("readActive", upper, lower)]
    BY <1>2 DEF EnsureBegins
  <2> QED BY <2>1, BeginsThere
<1> QED BY <1>1, <1>2

\* A write moves nobody else.
LEMMA WritesThere ==
    ASSUME SequenceInv, NEW w \in Tasks, NEW at, NEW r, Writes(w, at, r)
    PROVE  /\ task'[w].at = at /\ regs' = r
           /\ \A v \in Tasks : v # w => task'[v].at = task[v].at
<1> DEFINE t == [task[w] EXCEPT !.at = at]
           u(v) == IF task[v].at \in SmcSteps THEN [task[v] EXCEPT !.alone = FALSE]
                   ELSE task[v]
<1>1. \A v \in Tasks : task[v] \in TaskStates BY FieldTypes
<1>2. t.at = at BY <1>1 DEF TaskStates
<1>3. \A v \in Tasks : u(v).at = task[v].at BY <1>1 DEF TaskStates
<1>4. task' = [v \in Tasks |-> IF v = w THEN t ELSE u(v)] /\ regs' = r BY DEF Writes
<1> HIDE DEF t, u
<1> QED BY <1>2, <1>3, <1>4

\* What an access does, as far as the charge phase is concerned.
LEMMA AccessEffect ==
    ASSUME SequenceInv, NEW w \in Tasks, Access(w)
    PROVE  /\ UNCHANGED <<up, conf, file, session, calMu>>
           /\ \A v \in Tasks : v # w => task'[v].at = task[v].at
           /\ \/ /\ task[w].at \in ReadSteps \cup WriteSteps
                 /\ task'[w].at \in ReadSteps \cup WriteSteps \cup {"done"}
              \/ /\ task[w].at \in OffSteps
                 /\ task'[w].at \in {"turnOff", "done"}
                 /\ task'[w].at = "done" => ~regs'.active
                 /\ regs'.active => regs.active
<1>1. UNCHANGED <<up, conf, file, session, calMu>> BY DEF Access
<1>2. CASE Read(w)
  <2> DEFINE same == task[w].same /\ Matches(w)
             next == CASE task[w].at = "readActive" -> "readUpper"
                       [] task[w].at = "readUpper"  -> "readLower"
                       [] task[w].at = "readLower"  -> IF same THEN "done" ELSE "deactivate"
             t == [task[w] EXCEPT !.at = next, !.same = same]
  <2>1. task[w] \in TaskStates BY FieldTypes
  <2>2. task[w].at \in ReadSteps BY <1>2 DEF Read
  <2>3. next \in ReadSteps \cup WriteSteps \cup {"done"} BY <2>2
  <2>4. task' = [task EXCEPT ![w] = t]
    <3>1. task' = [task EXCEPT ![w].at = next, ![w].same = same] BY <1>2 DEF Read
    <3> HIDE DEF next, same
    <3> QED BY <3>1, FieldTypes
  <2> HIDE DEF next, same
  <2>5. t.at = next BY <2>1 DEF TaskStates
  <2> HIDE DEF t
  <2>6. task'[w].at = next /\ \A v \in Tasks : v # w => task'[v] = task[v]
    BY <2>4, <2>5, OnePlaceChanges
  <2> QED BY <1>1, <2>2, <2>3, <2>6
<1>3. CASE Write(w)
  <2>1. PICK at, r : /\ at \in WriteSteps \cup {"done"} /\ task[w].at \in WriteSteps
                     /\ Writes(w, at, r)
    BY <1>3, Zenon DEF Write
  <2>2. task'[w].at = at /\ \A v \in Tasks : v # w => task'[v].at = task[v].at
    BY <2>1, WritesThere
  <2> QED BY <1>1, <2>1, <2>2
<1>4. CASE TurnOff(w)
  <2>1. CASE task[w].at = "test" /\ Goes(w, IF regs.active THEN "turnOff" ELSE "done")
             /\ UNCHANGED regs
    <3>1. PICK at : at = IF regs.active THEN "turnOff" ELSE "done" OBVIOUS
    <3>2. Goes(w, at) BY <2>1, <3>1
    <3>3. task'[w].at = at /\ \A v \in Tasks : v # w => task'[v] = task[v]
      BY <3>2, GoesThere
    <3> QED BY <1>1, <2>1, <3>1, <3>3
  <2>2. CASE task[w].at = "turnOff" /\ Writes(w, "done", [regs EXCEPT !.active = FALSE])
    <3>1. PICK r : r = [regs EXCEPT !.active = FALSE] OBVIOUS
    <3>2. r.active = FALSE BY <3>1, FieldTypes DEF Registers
    <3>3. Writes(w, "done", r) BY <2>2, <3>1
    <3>4. /\ task'[w].at = "done" /\ regs' = r
          /\ \A v \in Tasks : v # w => task'[v].at = task[v].at
      BY <3>3, WritesThere
    <3> QED BY <1>1, <2>2, <3>2, <3>4
  <2> QED BY <1>4, <2>1, <2>2 DEF TurnOff
<1> QED BY <1>2, <1>3, <1>4 DEF Access

LEMMA AccessUncapped ==
    ASSUME SequenceInv, ChargeInv, NEW w \in Tasks, Access(w)
    PROVE  StaysUncapped
<1>1. /\ UNCHANGED <<up, conf, file, session, calMu>>
      /\ \A v \in Tasks : v # w => task'[v].at = task[v].at
      /\ \/ /\ task[w].at \in ReadSteps \cup WriteSteps
            /\ task'[w].at \in ReadSteps \cup WriteSteps \cup {"done"}
         \/ /\ task[w].at \in OffSteps
            /\ task'[w].at \in {"turnOff", "done"}
            /\ task'[w].at = "done" => ~regs'.active
            /\ regs'.active => regs.active
  BY AccessEffect
<1>2. CASE w = "pass"
  <2>1. /\ task'["cancel"].at = task["cancel"].at
        /\ task'["exit"].at = task["exit"].at
    BY <1>1, <1>2 DEF Tasks
  <2>2. LocksHeld' BY <1>1, <1>2, <2>1 DEF ChargeInv, LocksHeld
  <2>3. DischargeUncaps' BY <1>1, <1>2 DEF ChargeInv, LocksHeld, DischargeUncaps
  <2>4. RestoreUnderWay' BY <1>1, <2>1 DEF ChargeInv, RestoreUnderWay
  <2>5. ChargeLimits' BY <1>1, <1>2, <2>1 DEF ChargeInv, ChargeLimits
  <2>6. Capped' => Capped BY <1>1, <1>2 DEF Capped, ChargeInv, ChargeLimits
  <2> QED BY <2>2, <2>3, <2>4, <2>5, <2>6 DEF StaysUncapped, ChargeInv
<1>3. CASE w = "cancel"
  <2>1. /\ task'["pass"].at = task["pass"].at
        /\ task'["exit"].at = task["exit"].at
    BY <1>1, <1>3 DEF Tasks
  <2>2. LocksHeld' BY <1>1, <1>3, <2>1 DEF ChargeInv, LocksHeld
  <2>3. DischargeUncaps' BY <1>1, <1>3 DEF ChargeInv, LocksHeld, DischargeUncaps
  <2>4. RestoreUnderWay' BY <1>1, <1>3 DEF ChargeInv, RestoreUnderWay
  <2>5. ChargeLimits' BY <1>1, <1>3, <2>1 DEF ChargeInv, ChargeLimits
  <2>6. Capped' => Capped BY <1>1, <1>3 DEF Capped, ChargeInv, ChargeLimits
  <2> QED BY <2>2, <2>3, <2>4, <2>5, <2>6 DEF StaysUncapped, ChargeInv
<1>4. CASE w = "exit"
  <2>1. /\ task'["pass"].at = task["pass"].at
        /\ task'["cancel"].at = task["cancel"].at
    BY <1>1, <1>4 DEF Tasks
  <2>2. task["exit"].at \in OffSteps /\ (regs'.active => regs.active)
    BY <1>1, <1>4 DEF ChargeInv, LocksHeld
  <2>3. LocksHeld' BY <1>1, <1>4, <2>1 DEF ChargeInv, LocksHeld
  <2>4. DischargeUncaps' BY <1>1, <2>1, <2>2 DEF ChargeInv, DischargeUncaps
  <2>5. RestoreUnderWay' BY <1>1, <2>1 DEF ChargeInv, RestoreUnderWay
  <2>6. ChargeLimits' BY <1>1, <2>1 DEF ChargeInv, ChargeLimits
  <2>7. Capped' => Capped BY <1>1, <2>2 DEF Capped
  <2> QED BY <2>3, <2>4, <2>5, <2>6, <2>7 DEF StaysUncapped, ChargeInv
<1> QED BY <1>2, <1>3, <1>4 DEF Tasks

LEMMA FailsUncapped ==
    ASSUME SequenceInv, ChargeInv, NEW w \in Tasks, Fails(w)
    PROVE  StaysUncapped
<1>1. /\ UNCHANGED <<up, conf, file, regs, session, calMu>>
      /\ task[w].at \in SmcSteps /\ Goes(w, "failed")
  BY DEF Fails
<1>2. task'[w].at = "failed" /\ \A v \in Tasks : v # w => task'[v] = task[v]
  BY <1>1, GoesThere
<1>3. \A v \in Tasks : task'[v].at \in {task[v].at, "failed"} BY <1>2
<1>4. "pass" \in Tasks /\ "cancel" \in Tasks /\ "exit" \in Tasks BY DEF Tasks
<1>5. /\ task'["pass"].at \in {task["pass"].at, "failed"}
      /\ task'["cancel"].at \in {task["cancel"].at, "failed"}
      /\ task'["exit"].at \in {task["exit"].at, "failed"}
      /\ task["pass"].at = "idle" => task'["pass"].at = "idle"
      /\ task["cancel"].at = "idle" => task'["cancel"].at = "idle"
  BY <1>1, <1>2, <1>3, <1>4 DEF SmcSteps
<1>6. LocksHeld' BY <1>1, <1>5 DEF ChargeInv, LocksHeld
<1>7. DischargeUncaps' BY <1>1, <1>5 DEF ChargeInv, DischargeUncaps
<1>8. RestoreUnderWay' BY <1>1, <1>5 DEF ChargeInv, RestoreUnderWay
<1>9. ChargeLimits' BY <1>1, <1>5 DEF ChargeInv, ChargeLimits
<1>10. Capped' => Capped BY <1>1 DEF Capped
<1> QED BY <1>6, <1>7, <1>8, <1>9, <1>10 DEF StaysUncapped, ChargeInv

\* A sequence begins or goes on with calMu, session and the configuration as they were.
LEMMA PassGoesThere ==
    ASSUME SequenceInv, NEW at, PassGoes(at)
    PROVE  /\ UNCHANGED <<up, conf, file, regs>>
           /\ task'["pass"].at = at /\ task'["cancel"] = task["cancel"]
           /\ task'["exit"] = task["exit"]
<1>1. /\ task' = [task EXCEPT !["pass"] = At(at, 0, 0)]
      /\ UNCHANGED <<up, conf, file, regs>>
  BY DEF PassGoes
<1>2. "pass" \in Tasks /\ "cancel" \in Tasks /\ "exit" \in Tasks BY DEF Tasks
<1> QED BY <1>1, <1>2, BeginsThere

LEMMA PassStartsUncapped ==
    ASSUME SequenceInv, ChargeInv, PassBegins \/ PassChecks
    PROVE  StaysUncapped
<1>1. PICK at \in {"idle", "checks", "calibrates", "limit"} : PassGoes(at)
  BY Zenon DEF PassBegins, PassChecks
<1>2. /\ UNCHANGED <<up, conf, file, regs>>
      /\ task'["pass"].at = at /\ task'["cancel"] = task["cancel"]
      /\ task'["exit"] = task["exit"]
  BY <1>1, PassGoesThere
<1>3. UNCHANGED <<session, calMu>> BY DEF PassBegins, PassChecks
<1>4. calMu # "pass" /\ (~up => at = "idle")
  <2>1. CASE PassBegins BY <2>1 DEF PassBegins, ChargeInv, LocksHeld
  <2>2. CASE PassChecks BY <2>2 DEF PassChecks, ChargeInv, LocksHeld
  <2> QED BY <2>1, <2>2
<1>5. LocksHeld' BY <1>2, <1>3, <1>4 DEF ChargeInv, LocksHeld
<1>6. DischargeUncaps' BY <1>3, <1>4 DEF DischargeUncaps
<1>7. RestoreUnderWay' BY <1>2, <1>3 DEF ChargeInv, RestoreUnderWay
<1>8. ChargeLimits' BY <1>2, <1>3 DEF ChargeInv, ChargeLimits
<1>9. Capped' => Capped BY <1>2, <1>3 DEF Capped
<1> QED BY <1>5, <1>6, <1>7, <1>8, <1>9 DEF StaysUncapped, ChargeInv

LEMMA PassCalibratesUncapped ==
    ASSUME SequenceInv, ChargeInv, PassCalibrates
    PROVE  StaysUncapped
<1>0. /\ task["pass"].at = "calibrates" /\ calMu = "free"
      /\ "pass" \in Tasks /\ "cancel" \in Tasks /\ "exit" \in Tasks
  BY DEF PassCalibrates, Tasks
<1>1. CASE CalibrationOver
  <2>1. PassGoes("limit") /\ UNCHANGED <<session, calMu>> BY <1>1 DEF CalibrationOver
  <2>2. /\ UNCHANGED <<up, conf, file, regs>>
        /\ task'["pass"].at = "limit" /\ task'["cancel"] = task["cancel"]
        /\ task'["exit"] = task["exit"]
    BY <2>1, PassGoesThere
  <2>3. LocksHeld' BY <1>0, <2>1, <2>2 DEF ChargeInv, LocksHeld
  <2>4. DischargeUncaps' BY <1>0, <2>1 DEF DischargeUncaps
  <2>5. RestoreUnderWay' BY <2>1, <2>2 DEF ChargeInv, RestoreUnderWay
  <2>6. ChargeLimits' BY <2>1, <2>2 DEF ChargeInv, ChargeLimits
  <2>7. Capped' => Capped BY <2>1, <2>2 DEF Capped
  <2> QED BY <2>3, <2>4, <2>5, <2>6, <2>7 DEF StaysUncapped, ChargeInv
<1>2. CASE CalibrationWaits \/ CalibrationFails
  <2>1. PassGoes("idle") /\ UNCHANGED calMu
    BY <1>2 DEF CalibrationWaits, CalibrationFails
  <2>2. session'.phase \in {"discharge", "restore", "error"}
    BY <1>2, FieldTypes DEF CalibrationWaits, CalibrationFails, Sessions
  <2>3. /\ UNCHANGED <<up, conf, file, regs>>
        /\ task'["pass"].at = "idle" /\ task'["cancel"] = task["cancel"]
        /\ task'["exit"] = task["exit"]
    BY <2>1, PassGoesThere
  <2>4. task'["cancel"].at = "idle" BY <1>0, <2>3 DEF ChargeInv, LocksHeld
  <2>5. LocksHeld' BY <1>0, <2>1, <2>3, <2>4 DEF ChargeInv, LocksHeld
  <2>6. DischargeUncaps' /\ RestoreUnderWay' /\ ChargeLimits' /\ ~Capped'
    BY <1>0, <2>1, <2>2, <2>4 DEF DischargeUncaps, RestoreUnderWay, ChargeLimits, Capped
  <2> QED BY <2>5, <2>6 DEF StaysUncapped, ChargeInv
<1>3. CASE CalibrationWrites
  <2>1. /\ calMu' = "pass" /\ UNCHANGED <<up, conf, file, regs, session>>
        /\ up = TRUE
    BY <1>0, <1>3 DEF CalibrationWrites, ChargeInv, LocksHeld
  <2>2. \/ session.phase = "discharge" /\ task' = [task EXCEPT !["pass"] = At("test", Full, 0)]
        \/ session.phase = "restore" /\ task' = [task EXCEPT !["pass"] = At("setUpper", 0, 0)]
    BY <1>3 DEF CalibrationWrites, DisableBegins
  <2>3. /\ \/ session.phase = "discharge" /\ task'["pass"].at = "test"
           \/ session.phase = "restore" /\ task'["pass"].at = "setUpper"
        /\ task'["cancel"] = task["cancel"] /\ task'["exit"] = task["exit"]
    <3>1. CASE session.phase = "discharge"
               /\ task' = [task EXCEPT !["pass"] = At("test", Full, 0)]
      BY <1>0, <3>1, BeginsThere
    <3>2. CASE session.phase = "restore"
               /\ task' = [task EXCEPT !["pass"] = At("setUpper", 0, 0)]
      BY <1>0, <3>2, BeginsThere
    <3> QED BY <2>2, <3>1, <3>2
  <2>4. task'["cancel"].at = "idle" BY <1>0, <2>3 DEF ChargeInv, LocksHeld
  <2>5. LocksHeld' BY <2>1, <2>3, <2>4 DEF ChargeInv, LocksHeld
  <2>6. DischargeUncaps' /\ RestoreUnderWay' /\ ChargeLimits' /\ ~Capped'
    BY <2>1, <2>3, <2>4 DEF DischargeUncaps, RestoreUnderWay, ChargeLimits, Capped
  <2> QED BY <2>5, <2>6 DEF StaysUncapped, ChargeInv
<1> QED BY <1>1, <1>2, <1>3, Zenon DEF PassCalibrates

\* A pass that reads the limit in the charge phase, and while it is Full, sets none.
LEMMA PassReadsUncapped ==
    ASSUME SequenceInv, ChargeInv, PassReadsUpper \/ PassReadsLower
    PROVE  StaysUncapped
<1>0. "pass" \in Tasks /\ "cancel" \in Tasks /\ "exit" \in Tasks BY DEF Tasks
<1>1. /\ UNCHANGED <<up, conf, file, regs, session, calMu>>
      /\ task["pass"].at \in {"limit", "lower"} /\ calMu # "pass" /\ up = TRUE
  BY DEF PassReadsUpper, PassReadsLower, ChargeInv, LocksHeld
<1>2. /\ task'["pass"].at \in {"test", "lower", "readActive", "failed"}
      /\ task'["pass"].at \in {"lower", "readActive"} /\ session.phase = "charge"
            => conf.limit # Full
      /\ task'["cancel"] = task["cancel"] /\ task'["exit"] = task["exit"]
  <2>1. CASE PassReadsUpper
    <3>1. CASE conf.limit >= Full
      <4>1. task' = [task EXCEPT !["pass"] = At("test", Full, 0)]
        BY <2>1, <3>1 DEF PassReadsUpper, DisableBegins
      <4>2. /\ task'["pass"].at = "test"
            /\ task'["cancel"] = task["cancel"] /\ task'["exit"] = task["exit"]
        BY <1>0, <4>1, BeginsThere
      <4> QED BY <4>2
    <3>2. CASE ~(conf.limit >= Full)
      <4>1. task' = [task EXCEPT !["pass"] = At("lower", conf.limit, 0)]
        BY <2>1, <3>2 DEF PassReadsUpper
      <4>2. conf.limit # Full BY <3>2 DEF Full
      <4> QED BY <1>0, <4>1, <4>2, BeginsThere
    <3> QED BY <3>1, <3>2
  <2>2. CASE PassReadsLower
    <3>1. session.phase = "charge" => conf.limit # Full
      BY <2>2 DEF PassReadsLower, ChargeInv, ChargeLimits
    <3>2. EnsureBegins("pass", conf.limit - conf.delta, task["pass"].upper)
      BY <2>2 DEF PassReadsLower
    <3>3. /\ task'["pass"].at \in {"failed", "readActive"}
          /\ task'["cancel"] = task["cancel"] /\ task'["exit"] = task["exit"]
      BY <1>0, <3>2, EnsureThere
    <3> QED BY <3>1, <3>3
  <2> QED BY <2>1, <2>2
<1>3. LocksHeld' BY <1>1, <1>2 DEF ChargeInv, LocksHeld
<1>4. DischargeUncaps' BY <1>1 DEF DischargeUncaps
<1>5. RestoreUnderWay' BY <1>1, <1>2 DEF ChargeInv, RestoreUnderWay
<1>6. ChargeLimits' BY <1>1, <1>2 DEF ChargeInv, ChargeLimits
<1>7. Capped' => Capped BY <1>1 DEF Capped
<1> QED BY <1>3, <1>4, <1>5, <1>6, <1>7 DEF StaysUncapped, ChargeInv

\* The charge phase begins where the discharge has taken the limit off.
LEMMA PassEndsUncapped ==
    ASSUME SequenceInv, ChargeInv, PassEnds
    PROVE  StaysUncapped
<1>0. "pass" \in Tasks /\ "cancel" \in Tasks /\ "exit" \in Tasks BY DEF Tasks
<1>1. /\ task["pass"].at \in {"done", "failed"}
      /\ task' = [task EXCEPT !["pass"] = At("idle", 0, 0)]
      /\ UNCHANGED <<up, regs>> /\ up = TRUE
  BY DEF PassEnds, Idle, ChargeInv, LocksHeld
<1>2. /\ task'["pass"].at = "idle"
      /\ task'["cancel"] = task["cancel"] /\ task'["exit"] = task["exit"]
  BY <1>0, <1>1, BeginsThere
<1>3. CASE calMu # "pass"
  <2>1. UNCHANGED <<calMu, session, conf, file>> BY <1>3 DEF PassEnds
  <2>2. LocksHeld' BY <1>1, <1>2, <1>3, <2>1 DEF ChargeInv, LocksHeld
  <2>3. DischargeUncaps' BY <1>3, <2>1 DEF DischargeUncaps
  <2>4. RestoreUnderWay' BY <1>2, <2>1 DEF ChargeInv, RestoreUnderWay
  <2>5. ChargeLimits' BY <1>2, <2>1 DEF ChargeInv, ChargeLimits
  <2>6. Capped' => Capped BY <1>1, <2>1 DEF Capped
  <2> QED BY <2>2, <2>3, <2>4, <2>5, <2>6 DEF StaysUncapped, ChargeInv
<1>4. CASE calMu = "pass"
  <2>1. calMu' = "free" /\ task'["cancel"].at = "idle"
    BY <1>2, <1>4 DEF PassEnds, ChargeInv, LocksHeld
  <2>2. LocksHeld' BY <1>1, <1>2, <2>1 DEF ChargeInv, LocksHeld
  <2>3. DischargeUncaps' /\ RestoreUnderWay'
    BY <2>1 DEF DischargeUncaps, RestoreUnderWay
  <2>4. CASE ChargePhaseBegins
    <3>1. /\ conf'.limit = Full /\ file'.limit = Full
          /\ session.phase = "discharge" /\ task["pass"].at = "done"
      BY <2>4, FieldTypes DEF ChargePhaseBegins, Pairs
    <3>2. ~regs'.active BY <1>1, <1>4, <3>1 DEF ChargeInv, DischargeUncaps
    <3>3. ChargeLimits' /\ ~Capped'
      BY <1>2, <2>1, <3>1, <3>2 DEF ChargeLimits, Capped
    <3> QED BY <2>2, <2>3, <3>3 DEF StaysUncapped, ChargeInv
  <2>5. CASE ChargePhaseFails \/ CalibrationEnds
    <3>1. session'.phase \in {"error", "idle"}
      BY <2>5, FieldTypes DEF ChargePhaseFails, CalibrationEnds, NoSession, Sessions
    <3>2. ChargeLimits' /\ ~Capped' BY <3>1 DEF ChargeLimits, Capped
    <3> QED BY <2>2, <2>3, <3>2 DEF StaysUncapped, ChargeInv
  <2> QED BY <1>4, <2>4, <2>5 DEF PassEnds
<1> QED BY <1>3, <1>4

\* Where a calibration's end restores the configuration: in the pass, or in a cancellation.
LEMMA RestorerKnown ==
    ASSUME ChargeInv, NEW w \in Tasks, task[w].at \in {"setUpper", "setLower"}
    PROVE  /\ up = TRUE
           /\ \/ w = "pass" /\ calMu = "pass" /\ session.phase = "restore"
              \/ w = "cancel" /\ calMu = "cancel"
BY DEF ChargeInv, LocksHeld, Tasks

LEMMA RestoresUpperUncapped ==
    ASSUME SequenceInv, ChargeInv, NEW w \in Tasks, RestoresUpper(w)
    PROVE  StaysUncapped
<1>0. "pass" \in Tasks /\ "cancel" \in Tasks /\ "exit" \in Tasks BY DEF Tasks
<1>1. /\ UNCHANGED <<up, file, regs, session, calMu>>
      /\ task[w].at = "setUpper" /\ Goes(w, "setLower")
  BY DEF RestoresUpper
<1>2. conf'.limit = session.upper BY FieldTypes DEF RestoresUpper, Pairs
<1>3. task'[w].at = "setLower" /\ \A v \in Tasks : v # w => task'[v] = task[v]
  BY <1>1, GoesThere
<1>4. /\ up = TRUE
      /\ \/ w = "pass" /\ calMu = "pass" /\ session.phase = "restore"
         \/ w = "cancel" /\ calMu = "cancel"
  BY <1>1, RestorerKnown
<1>5. LocksHeld' BY <1>0, <1>1, <1>3, <1>4 DEF ChargeInv, LocksHeld
<1>6. DischargeUncaps' BY <1>1, <1>4 DEF DischargeUncaps
<1>7. RestoreUnderWay' BY <1>1, <1>2 DEF RestoreUnderWay
<1>8. session.phase = "charge" /\ session.upper = Full => conf.limit = Full
  BY DEF ChargeInv, ChargeLimits
<1>9. ChargeLimits'
  BY <1>0, <1>1, <1>2, <1>3, <1>4, <1>8 DEF ChargeInv, ChargeLimits
<1>10. Capped' => Capped BY <1>1, <1>2, <1>8 DEF Capped
<1> QED BY <1>5, <1>6, <1>7, <1>9, <1>10 DEF StaysUncapped, ChargeInv

LEMMA RestoresLowerUncapped ==
    ASSUME SequenceInv, ChargeInv, NEW w \in Tasks, RestoresLower(w)
    PROVE  StaysUncapped
<1>0. "pass" \in Tasks /\ "cancel" \in Tasks /\ "exit" \in Tasks BY DEF Tasks
<1>1. /\ UNCHANGED <<up, regs, session, calMu>>
      /\ task[w].at = "setLower"
  BY DEF RestoresLower
<1>2. conf'.limit = conf.limit /\ file'.limit = conf.limit
  BY FieldTypes DEF RestoresLower, Pairs
<1>3. /\ task'[w].at \in {"test", "failed", "readActive"}
      /\ task'[w].at = "readActive" => session.upper # Full
      /\ \A v \in Tasks : v # w => task'[v] = task[v]
  <2>1. CASE session.upper < Full
    <3>1. EnsureBegins(w, session.lower, session.upper) BY <2>1 DEF RestoresLower
    <3>2. session.upper # Full BY <2>1 DEF Full
    <3> QED BY <3>1, <3>2, EnsureThere
  <2>2. CASE ~(session.upper < Full)
    <3>1. task' = [task EXCEPT ![w] = At("test", Full, 0)]
      BY <2>2 DEF RestoresLower, DisableBegins
    <3>2. task'[w].at = "test" /\ \A v \in Tasks : v # w => task'[v] = task[v]
      BY <3>1, BeginsThere
    <3> QED BY <3>2
  <2> QED BY <2>1, <2>2
<1>4. /\ up = TRUE
      /\ \/ w = "pass" /\ calMu = "pass" /\ session.phase = "restore"
         \/ w = "cancel" /\ calMu = "cancel"
  BY <1>1, RestorerKnown
<1>5. LocksHeld' BY <1>0, <1>1, <1>3, <1>4 DEF ChargeInv, LocksHeld
<1>6. DischargeUncaps' BY <1>1, <1>4 DEF DischargeUncaps
<1>7. RestoreUnderWay'
  <2>1. task'["cancel"].at # "setLower"
    BY <1>0, <1>3, <1>4 DEF ChargeInv, LocksHeld
  <2> QED BY <2>1 DEF RestoreUnderWay
<1>8. w = "cancel" => conf.limit = session.upper
  BY <1>1 DEF ChargeInv, RestoreUnderWay
<1>9. ChargeLimits'
  BY <1>0, <1>1, <1>2, <1>3, <1>4, <1>8 DEF ChargeInv, ChargeLimits
<1>10. Capped' => Capped BY <1>1, <1>2 DEF Capped
<1> QED BY <1>5, <1>6, <1>7, <1>9, <1>10 DEF StaysUncapped, ChargeInv

\* A limit request finds no session, a delta leaves the limit, and a session becomes none in
\* its charge phase.
LEMMA RequestsUncapped ==
    ASSUME SequenceInv, ChargeInv,
           SetLimit \/ SetLowerLimitDelta \/ StartCalibration \/ PauseCalibration
             \/ ResumeCalibration
    PROVE  StaysUncapped
<1>1. UNCHANGED <<up, regs, calMu, task>>
  BY DEF SetLimit, SetLowerLimitDelta, StartCalibration, PauseCalibration,
         ResumeCalibration, SessionBecomes
<1>2. CASE SetLimit
  <2>1. UNCHANGED session /\ session.phase = "idle" /\ calMu = "free"
    BY <1>2 DEF SetLimit
  <2>2. LocksHeld' /\ DischargeUncaps' /\ ChargeLimits' /\ ~Capped'
    BY <1>1, <2>1 DEF ChargeInv, LocksHeld, DischargeUncaps, ChargeLimits, Capped
  <2>3. RestoreUnderWay'
    BY <1>1, <2>1 DEF ChargeInv, LocksHeld, RestoreUnderWay
  <2> QED BY <2>2, <2>3 DEF StaysUncapped, ChargeInv
<1>3. CASE SetLowerLimitDelta
  <2>1. UNCHANGED session /\ conf'.limit = conf.limit /\ file'.limit = conf.limit
    BY <1>3, FieldTypes DEF SetLowerLimitDelta, Pairs
  <2>2. LocksHeld' /\ DischargeUncaps' /\ RestoreUnderWay' /\ ChargeLimits'
    BY <1>1, <2>1
       DEF ChargeInv, LocksHeld, DischargeUncaps, RestoreUnderWay, ChargeLimits
  <2>3. Capped' => Capped BY <1>1, <2>1 DEF Capped
  <2> QED BY <2>2, <2>3 DEF StaysUncapped, ChargeInv
<1>4. CASE StartCalibration \/ PauseCalibration \/ ResumeCalibration
  <2>1. calMu = "free" /\ UNCHANGED <<conf, file>>
    BY <1>4 DEF StartCalibration, PauseCalibration, ResumeCalibration, SessionBecomes
  <2>2. \/ session'.phase = "discharge"
        \/ session'.phase = session.phase /\ session'.upper = session.upper
    BY <1>4, FieldTypes
       DEF StartCalibration, PauseCalibration, ResumeCalibration, SessionBecomes, Sessions
  <2>3. LocksHeld' /\ DischargeUncaps' /\ RestoreUnderWay'
    BY <1>1, <2>1 DEF ChargeInv, LocksHeld, DischargeUncaps, RestoreUnderWay
  <2>4. ChargeLimits' BY <1>1, <2>1, <2>2 DEF ChargeInv, ChargeLimits
  <2>5. Capped' => Capped BY <1>1, <2>1, <2>2 DEF Capped
  <2> QED BY <2>3, <2>4, <2>5 DEF StaysUncapped, ChargeInv
<1> QED BY <1>2, <1>3, <1>4

LEMMA CancelAndStopUncapped ==
    ASSUME SequenceInv, ChargeInv, CancelCalibration \/ CancelEnds \/ Stops
    PROVE  StaysUncapped
<1>0. "pass" \in Tasks /\ "cancel" \in Tasks /\ "exit" \in Tasks BY DEF Tasks
<1>1. CASE CancelCalibration
  <2>1. /\ up = TRUE /\ calMu = "free" /\ calMu' = "cancel"
        /\ task' = [task EXCEPT !["cancel"] = At("setUpper", 0, 0)]
        /\ UNCHANGED <<up, conf, file, regs, session>>
    BY <1>1 DEF CancelCalibration, Request, ChargeInv, LocksHeld
  <2>2. /\ task'["cancel"].at = "setUpper"
        /\ task'["pass"] = task["pass"] /\ task'["exit"] = task["exit"]
    BY <1>0, <2>1, BeginsThere
  <2>3. up' <=> up BY <2>1
  <2>4. up BY <1>1 DEF CancelCalibration, Request
  <2>5. LocksHeld' BY <2>1, <2>2, <2>4 DEF ChargeInv, LocksHeld
  <2>6. DischargeUncaps' /\ RestoreUnderWay' BY <2>1, <2>2 DEF DischargeUncaps, RestoreUnderWay
  <2>7. ChargeLimits' BY <2>1, <2>2 DEF ChargeInv, ChargeLimits
  <2>8. Capped' => Capped BY <2>1 DEF Capped
  <2> QED BY <2>5, <2>6, <2>7, <2>8 DEF StaysUncapped, ChargeInv
<1>2. CASE CancelEnds
  <2>1. /\ session'.phase = "idle" /\ calMu' = "free"
        /\ task' = [task EXCEPT !["cancel"] = At("idle", 0, 0)]
        /\ UNCHANGED <<up, conf, file, regs>>
        /\ task["cancel"].at # "idle"
    BY <1>2 DEF CancelEnds, NoSession, Idle
  <2>2. /\ task'["cancel"].at = "idle"
        /\ task'["pass"] = task["pass"] /\ task'["exit"] = task["exit"]
    BY <1>0, <2>1, BeginsThere
  <2>3. calMu = "cancel" BY <2>1 DEF ChargeInv, LocksHeld
  <2>4. LocksHeld' BY <2>1, <2>2, <2>3 DEF ChargeInv, LocksHeld
  <2>5. DischargeUncaps' /\ RestoreUnderWay' /\ ChargeLimits' /\ ~Capped'
    BY <2>1, <2>2 DEF DischargeUncaps, RestoreUnderWay, ChargeLimits, Capped
  <2> QED BY <2>4, <2>5 DEF StaysUncapped, ChargeInv
<1>3. CASE Stops
  <2>1. /\ task' = [task EXCEPT !["exit"] = At("test", Full, 0)]
        /\ UNCHANGED <<up, conf, file, regs, session, calMu>>
    BY <1>3 DEF Stops, DisableBegins
  <2>2. /\ task'["exit"].at = "test"
        /\ task'["pass"] = task["pass"] /\ task'["cancel"] = task["cancel"]
    BY <1>0, <2>1, BeginsThere
  <2>3. LocksHeld' BY <2>1, <2>2 DEF ChargeInv, LocksHeld
  <2>4. DischargeUncaps' /\ RestoreUnderWay' /\ ChargeLimits'
    BY <2>1, <2>2 DEF ChargeInv, DischargeUncaps, RestoreUnderWay, ChargeLimits
  <2>5. Capped' => Capped BY <2>1 DEF Capped
  <2> QED BY <2>3, <2>4, <2>5 DEF StaysUncapped, ChargeInv
<1> QED BY <1>1, <1>2, <1>3

\* The process ends, starts again, and the firmware forgets.
LEMMA LifeUncapped ==
    ASSUME SequenceInv, ChargeInv, Exits \/ Crashes \/ Starts \/ Forgets
    PROVE  StaysUncapped
<1>0. "pass" \in Tasks /\ "cancel" \in Tasks /\ "exit" \in Tasks BY DEF Tasks
<1>1. CASE Exits \/ Crashes
  <2>1. /\ up' = FALSE /\ calMu' = "free" /\ task' = [w \in Tasks |-> Idle]
        /\ UNCHANGED <<conf, file, session>>
    BY <1>1 DEF Exits, Crashes, Ends
  <2>2. Idle.at = "idle" BY DEF Idle, At
  <2>3. \A w \in Tasks : task'[w].at = "idle" BY <2>1, <2>2
  <2>4. /\ task'["pass"].at = "idle" /\ task'["cancel"].at = "idle"
        /\ task'["exit"].at = "idle"
    BY <1>0, <2>3
  <2>5. LocksHeld' BY <2>1, <2>4 DEF LocksHeld
  <2>6. DischargeUncaps' /\ RestoreUnderWay' /\ ChargeLimits' /\ ~Capped'
    BY <2>1, <2>4
       DEF ChargeInv, DischargeUncaps, RestoreUnderWay, ChargeLimits, Capped
  <2> QED BY <2>5, <2>6 DEF StaysUncapped, ChargeInv
<1>2. CASE Starts
  <2>1. ~up /\ up' = TRUE /\ conf' = file /\ UNCHANGED <<file, regs, calMu, task>>
    BY <1>2 DEF Starts
  <2>2. session'.phase = session.phase /\ session'.upper = session.upper
    BY <1>2, FieldTypes DEF Starts, Sessions
  <2>3. /\ calMu = "free" /\ task["pass"].at = "idle" /\ task["cancel"].at = "idle"
    BY <2>1 DEF ChargeInv, LocksHeld
  <2>4. LocksHeld' BY <2>1, <2>3 DEF ChargeInv, LocksHeld
  <2>5. DischargeUncaps' /\ RestoreUnderWay' BY <2>1, <2>3 DEF DischargeUncaps, RestoreUnderWay
  <2>6. ChargeLimits' BY <2>1, <2>2, <2>3 DEF ChargeInv, ChargeLimits
  <2> QED BY <2>1, <2>4, <2>5, <2>6 DEF StaysUncapped, ChargeInv
<1>3. CASE Forgets
  <2>1. /\ regs'.active = FALSE
        /\ task' = [w \in Tasks |-> [task[w] EXCEPT !.alone = FALSE]]
        /\ UNCHANGED <<up, conf, file, session, calMu>>
    BY <1>3 DEF Forgets
  <2>2. \A w \in Tasks : [task[w] EXCEPT !.alone = FALSE].at = task[w].at
    BY FieldTypes DEF TaskStates
  <2>3. \A w \in Tasks : task'[w].at = task[w].at BY <2>1, <2>2
  <2>4. /\ task'["pass"].at = task["pass"].at
        /\ task'["cancel"].at = task["cancel"].at
        /\ task'["exit"].at = task["exit"].at
    BY <1>0, <2>3
  <2>5. LocksHeld' BY <2>1, <2>4 DEF ChargeInv, LocksHeld
  <2>6. DischargeUncaps' /\ RestoreUnderWay' /\ ChargeLimits' /\ ~Capped'
    BY <2>1, <2>4
       DEF ChargeInv, DischargeUncaps, RestoreUnderWay, ChargeLimits, Capped
  <2> QED BY <2>5, <2>6 DEF StaysUncapped, ChargeInv
<1> QED BY <1>1, <1>2, <1>3

LEMMA InitUncapped == Init => ChargeInv
<1> SUFFICES ASSUME Init PROVE ChargeInv
  OBVIOUS
<1>1. /\ up = TRUE /\ calMu = "free" /\ session.phase = "idle"
      /\ task = [w \in Tasks |-> Idle]
  BY DEF Init, NoSession
<1>2. Idle.at = "idle" BY DEF Idle, At
<1>3. /\ task["pass"].at = "idle" /\ task["cancel"].at = "idle"
      /\ task["exit"].at = "idle"
  BY <1>1, <1>2 DEF Tasks
<1> QED BY <1>1, <1>3
        DEF ChargeInv, LocksHeld, DischargeUncaps, RestoreUnderWay, ChargeLimits

LEMMA StepUncapped == SequenceInv /\ ChargeInv /\ [Next]_vars => StaysUncapped
<1> SUFFICES ASSUME SequenceInv, ChargeInv, [Next]_vars PROVE StaysUncapped
  OBVIOUS
<1>1. CASE UNCHANGED vars
  BY <1>1 DEF vars, StaysUncapped, ChargeInv, LocksHeld, DischargeUncaps, RestoreUnderWay,
              ChargeLimits, Capped
<1>2. CASE PassStep
  BY <1>2, PassStartsUncapped, PassCalibratesUncapped, PassReadsUncapped, PassEndsUncapped
     DEF PassStep
<1>3. ASSUME NEW w \in Tasks, TaskStep(w) PROVE StaysUncapped
  BY <1>3, AccessUncapped, RestoresUpperUncapped, RestoresLowerUncapped DEF TaskStep
<1>4. ASSUME NEW w \in Tasks, Fails(w) PROVE StaysUncapped BY <1>4, FailsUncapped
<1>5. CASE SetLimit \/ SetLowerLimitDelta \/ StartCalibration \/ PauseCalibration
             \/ ResumeCalibration
  BY <1>5, RequestsUncapped
<1>6. CASE CancelCalibration \/ CancelEnds \/ Stops BY <1>6, CancelAndStopUncapped
<1>7. CASE Exits \/ Crashes \/ Starts \/ Forgets BY <1>7, LifeUncapped
<1> QED BY <1>1, <1>2, <1>3, <1>4, <1>5, <1>6, <1>7, Zenon DEF Next

\* The charge phase begins with no limit active, and whatever passes, pauses, cancellations,
\* failures and deaths follow, only a start of the daemon finds one in it
\* (calibration.go:267-277, loop.go:413-422).
THEOREM ChargePhasesStayUncapped == Spec => ChargePhaseStaysUncapped
<1>1. Init => SequenceInv /\ ChargeInv BY InitHolds, InitUncapped
<1>2. SequenceInv /\ ChargeInv /\ [Next]_vars => (SequenceInv /\ ChargeInv)'
  BY StepKeepsInv, StepUncapped DEF StaysUncapped
<1>3. SequenceInv /\ ChargeInv /\ [Next]_vars => [Capped' => Capped \/ ~up]_vars
  BY StepUncapped DEF StaysUncapped
<1> QED BY <1>1, <1>2, <1>3, PTL DEF Spec, ChargePhaseStaysUncapped
=============================================================================
