-------------------------- MODULE SchedulerProofs --------------------------
(***************************************************************************)
(* Proofs about Scheduler, for every set of schedules, requests, outcomes  *)
(* and durations: the state keeps its type; until the scheduler is stopped *)
(* there is one runner exactly when `running' says so, and the expression  *)
(* in the file is served; runs keep time and start once when nobody        *)
(* postpones; postponed runs wait when there are no sleep hooks; runs are  *)
(* given up in time when the machine does not sleep; skips that reach the  *)
(* runner in time hold until a restart.                                    *)
(***************************************************************************)
EXTENDS Scheduler, SequenceTheorems, TLAPS

RunnerRecord ==
    [at : Places, schedule : Periods \cup {0}, nextRun : Nat, leading : BOOLEAN,
     attempts : 0..MaxAttempts, timer : Nat \cup {Off}, announced : Nat, held : Nat]

\* Requests in progress and messages say what they are about: a schedule to
\* set is a schedule.
ClientRecord ==
    {c \in [at : ClientPlaces, kind : Kinds \cup {"none"}, data : Nat] :
        /\ c.at = "schedule" => c.data \in Periods
        /\ c.at \in {"send", "send, start"} => c.kind \in Kinds
        /\ c.kind = "recalculate" => c.data \in Periods}

MessageRecord == {m \in [kind : Kinds, data : Nat] : m.kind = "recalculate" => m.data \in Periods}

\* The type invariant with its records named and these two facts.
Scalars ==
    /\ now \in Nat /\ nextRun \in Nat
    /\ cron \in Periods \cup {0} /\ cronFile \in Periods \cup {0}
    /\ schedule \in Periods \cup {0}
    /\ running \in BOOLEAN /\ stopped \in BOOLEAN /\ wakeOwed \in BOOLEAN
    /\ started \subseteq Nat /\ skipped \subseteq Nat /\ heeded \subseteq Nat

Channel == controlCh \in Seq(MessageRecord) /\ Len(controlCh) <= Capacity

Typed ==
    /\ Scalars /\ Channel
    /\ client \in [Clients -> ClientRecord]
    /\ runner \in [Runners -> RunnerRecord]

\* Which is more than the type invariant.
LEMMA TypedIsTypeOK == ASSUME Typed PROVE TypeOK
<1>1. client \in [Clients -> [at : ClientPlaces, kind : Kinds \cup {"none"}, data : Nat]]
  BY DEF Typed, ClientRecord
<1>2. controlCh \in Seq([kind : Kinds, data : Nat])
  <2>1. MessageRecord \subseteq [kind : Kinds, data : Nat] BY DEF MessageRecord
  <2>2. QED BY <2>1, SeqMonotonic DEF Typed, Channel
<1>3. QED BY <1>1, <1>2, Zenon DEF TypeOK, Typed, Scalars, Channel, RunnerRecord

-----------------------------------------------------------------------------
(* Schedules, records *)

\* The next run of a schedule is a time.
LEMMA NextAfterType ==
    ASSUME NEW s \in Periods, NEW t \in Nat
    PROVE  NextAfter(s, t) \in Nat
<1>1. s \in Nat /\ s > 0 BY ConstantsAssumption
<1>2. t \div s \in Nat BY <1>1
<1>3. ASSUME NEW a \in Nat, NEW b \in Nat PROVE (a + 1) * b \in Nat BY SMT
<1>4. QED BY <1>1, <1>2, <1>3 DEF NextAfter

\* The bounds as numbers.
LEMMA Numbers ==
    /\ Lead \in Nat /\ MaxAttempts \in Nat /\ MaxTime \in Nat
    /\ OverdueDelay \in Nat /\ RetryDelay \in Nat /\ Capacity \in Nat
BY ConstantsAssumption

\* The record of an absent runner, of a new one, and of one that has taken its
\* snapshot.
LEMMA NoRunnerType == NoRunner \in RunnerRecord
<1>1. 0 \in 0..MaxAttempts BY Numbers
<1>2. QED BY <1>1 DEF NoRunner, RunnerRecord, Places, Off

LEMMA AtTopType == AtTop \in RunnerRecord /\ AtTop.at = "snapshot"
<1>1. 0 \in 0..MaxAttempts BY Numbers
<1>2. QED BY <1>1 DEF AtTop, NoRunner, RunnerRecord, Places, Off

LEMMA SnapshotType ==
    ASSUME Typed
    PROVE  Snapshot \in RunnerRecord /\ Snapshot.at = "select"
<1>1. 0 \in 0..MaxAttempts BY Numbers
<1>2. (IF schedule = 0 \/ nextRun = 0 THEN Off ELSE TimerFor(nextRun - now - Lead))
          \in Nat \cup {Off}
  BY Numbers DEF Typed, Scalars, TimerFor, Off
<1>3. schedule \in Periods \cup {0} /\ nextRun \in Nat /\ now \in Nat
  BY DEF Typed, Scalars
<1>4. QED BY <1>1, <1>2, <1>3 DEF Snapshot, RunnerRecord, Places

\* Changes of a runner's record.
LEMMA MovedType ==
    ASSUME NEW me \in RunnerRecord, NEW p \in Places
    PROVE  [me EXCEPT !.at = p] \in RunnerRecord /\ [me EXCEPT !.at = p].at = p
BY DEF RunnerRecord

LEMMA TimedType ==
    ASSUME NEW me \in RunnerRecord, NEW t \in Nat \cup {Off}
    PROVE  [me EXCEPT !.timer = t] \in RunnerRecord /\ [me EXCEPT !.timer = t].at = me.at
BY DEF RunnerRecord

LEMMA PrecheckedType ==
    ASSUME NEW me \in RunnerRecord
    PROVE  LET rec == [me EXCEPT !.at = "precheck", !.timer = Off]
           IN rec \in RunnerRecord /\ rec.at = "precheck"
BY DEF RunnerRecord, Places

LEMMA NotifiedType ==
    ASSUME NEW me \in RunnerRecord, NEW t \in Nat, NEW a \in Nat
    PROVE  LET rec == [me EXCEPT !.leading = FALSE, !.timer = t, !.announced = a]
           IN rec \in RunnerRecord /\ rec.at = me.at
BY DEF RunnerRecord

LEMMA FailedType ==
    ASSUME NEW me \in RunnerRecord
    PROVE  Failed(me) \in RunnerRecord /\ Failed(me).at \in {"select", "given up"}
<1>1. me.attempts \in 0..MaxAttempts BY DEF RunnerRecord
<1>2. CASE me.attempts < MaxAttempts
  <2>1. me.attempts + 1 \in 0..MaxAttempts BY <1>1, <1>2, Numbers
  <2>2. RetryDelay \in Nat BY Numbers
  <2> DEFINE n == me.attempts + 1
  <2>3. Failed(me) = [me EXCEPT !.at = "select", !.timer = RetryDelay, !.attempts = n]
    BY <1>2 DEF Failed
  <2>4. n \in 0..MaxAttempts BY <2>1
  <2> HIDE DEF n
  <2>5. QED BY <2>2, <2>3, <2>4 DEF RunnerRecord, Places
<1>3. CASE ~(me.attempts < MaxAttempts)
  BY <1>3, MovedType DEF Failed, Places
<1>4. QED BY <1>2, <1>3

LEMMA PostponedType ==
    ASSUME NEW me \in RunnerRecord, NEW until \in Nat, now \in Nat
    PROVE  Postponed(me, until) \in RunnerRecord /\ Postponed(me, until).at = me.at
<1> DEFINE t == TimerFor(until - now)
<1>1. t \in Nat BY DEF TimerFor
<1>2. Postponed(me, until) = [me EXCEPT !.timer = t, !.held = now + t] BY DEF Postponed
<1> HIDE DEF t
<1> DEFINE h == now + t
<1>3. h \in Nat BY <1>1
<1>4. Postponed(me, until) = [me EXCEPT !.timer = t, !.held = h] BY <1>2
<1> HIDE DEF h
<1>5. QED BY <1>1, <1>3, <1>4 DEF RunnerRecord

LEMMA WakeTimerType ==
    ASSUME Typed, NEW me \in RunnerRecord
    PROVE  WakeTimer(me) \in Nat \cup {Off}
BY Numbers DEF RunnerRecord, WakeTimer, Typed, Scalars, Off

\* One runner changes.
LEMMA OneRunnerChanges ==
    ASSUME Typed, NEW r \in Runners, NEW record \in RunnerRecord,
           RunnerBecomes(r, record)
    PROVE  /\ runner' \in [Runners -> RunnerRecord]
           /\ runner'[r] = record
           /\ \A s \in Runners \ {r} : runner'[s] = runner[s]
BY DEF Typed, RunnerBecomes

\* One client changes.
LEMMA OneClientChanges ==
    ASSUME Typed, NEW c \in Clients, NEW record \in ClientRecord,
           client' = [client EXCEPT ![c] = record]
    PROVE  client' \in [Clients -> ClientRecord]
BY DEF Typed

LEMMA ClientRecords ==
    /\ Idle \in ClientRecord
    /\ \A p \in ClientPlaces \ {"schedule", "send", "send, start"} :
          Sending(p, "none", 0) \in ClientRecord
    /\ \A s \in Periods : /\ Sending("schedule", "none", s) \in ClientRecord
                          /\ Sending("send, start", "recalculate", s) \in ClientRecord
    /\ \A k \in Kinds \ {"recalculate"}, d \in Nat :
          Sending("send", k, d) \in ClientRecord
BY ConstantsAssumption DEF Idle, Sending, ClientRecord, ClientPlaces, Kinds

\* The channel.
LEMMA SendType ==
    ASSUME Typed, NEW k \in Kinds, NEW d \in Nat, TrySend(k, d),
           k = "recalculate" => d \in Periods
    PROVE  controlCh' \in Seq(MessageRecord) /\ Len(controlCh') <= Capacity
<1>1. Message(k, d) \in MessageRecord BY DEF Message, MessageRecord
<1>2. controlCh \in Seq(MessageRecord) /\ Len(controlCh) <= Capacity
  BY DEF Typed, Channel
<1>3. CASE Len(controlCh) < Capacity
  <2>1. controlCh' = Append(controlCh, Message(k, d)) BY <1>3 DEF TrySend
  <2>2. controlCh' \in Seq(MessageRecord) /\ Len(controlCh') = Len(controlCh) + 1
    BY <1>1, <1>2, <2>1
  <2>3. Len(controlCh) \in Nat BY <1>2
  <2>4. QED BY <1>3, <2>2, <2>3, Numbers
<1>4. CASE ~(Len(controlCh) < Capacity) BY <1>2, <1>4 DEF TrySend
<1>5. QED BY <1>3, <1>4

LEMMA ReceiveType ==
    ASSUME Typed, NEW r \in Runners, NEW k \in Kinds, Receives(r, k)
    PROVE  /\ Head(controlCh) \in MessageRecord
           /\ controlCh' \in Seq(MessageRecord) /\ Len(controlCh') <= Capacity
<1>1. controlCh \in Seq(MessageRecord) /\ Len(controlCh) <= Capacity
  BY DEF Typed, Channel
<1>2. controlCh # <<>> /\ controlCh' = Tail(controlCh) BY DEF Receives
<1>3. Len(controlCh) \in Nat /\ Len(Tail(controlCh)) = Len(controlCh) - 1 BY <1>1, <1>2
<1>4. QED BY <1>1, <1>2, <1>3, Numbers

-----------------------------------------------------------------------------
(* The invariant *)

\* A runner that is on its way out has seen the stop channel closed.
ExitsAfterStop == ~stopped => \A r \in Runners : runner[r].at # "exit"

Inv == Typed /\ RunningIsTrue /\ ExitsAfterStop

\* A step of a runner that is in its loop and stays there.
LEMMA RunnerGoesOn ==
    ASSUME Inv, NEW r \in Runners, NEW record \in RunnerRecord,
           RunnerBecomes(r, record), Alive(r), record.at \notin {"none", "exit"},
           UNCHANGED <<running, stopped>>
    PROVE  RunningIsTrue' /\ ExitsAfterStop'
<1>1. /\ runner'[r] = record
      /\ \A s \in Runners \ {r} : runner'[s] = runner[s]
  BY OneRunnerChanges DEF Inv
<1>2. \A s \in Runners : Alive(s)' <=> Alive(s) BY <1>1 DEF Alive
<1>3. QED BY <1>1, <1>2 DEF Inv, RunningIsTrue, ExitsAfterStop

\* A step that leaves the runners, `running' and the stop channel alone.
LEMMA RunnersStay ==
    ASSUME Inv, UNCHANGED <<runner, running, stopped>>
    PROVE  RunningIsTrue' /\ ExitsAfterStop'
BY DEF Inv, RunningIsTrue, ExitsAfterStop, Alive

\* After the stop nothing is said.
LEMMA StoppedIsFree ==
    ASSUME stopped' PROVE RunningIsTrue' /\ ExitsAfterStop'
BY DEF RunningIsTrue, ExitsAfterStop

-----------------------------------------------------------------------------
(* Start-up *)

LEMMA FreshRunnersType ==
    ASSUME NEW c
    PROVE  /\ FreshRunners(c) \in [Runners -> RunnerRecord]
           /\ \E first \in Runners : \A r \in Runners :
                 FreshRunners(c)[r].at =
                    IF c # 0 /\ r = first THEN "snapshot" ELSE "none"
<1> DEFINE first == CHOOSE x \in Runners : TRUE
<1>1. first \in Runners BY ConstantsAssumption
<1>2. AtTop \in RunnerRecord /\ AtTop.at = "snapshot" BY AtTopType
<1>3. NoRunner \in RunnerRecord /\ NoRunner.at = "none" BY NoRunnerType DEF NoRunner
<1>4. FreshRunners(c) = [r \in Runners |-> IF c # 0 /\ r = first THEN AtTop ELSE NoRunner]
  BY DEF FreshRunners
<1> HIDE DEF first
<1>5. QED BY <1>1, <1>2, <1>3, <1>4

\* The state of a new scheduler, now or after a restart.
LEMMA FreshNextRunType ==
    ASSUME NEW c \in Periods \cup {0}, NEW t \in Nat
    PROVE  FreshNextRun(c, t) \in Nat
BY NextAfterType DEF FreshNextRun

LEMMA InitInv == Init => Inv
<1> SUFFICES ASSUME Init PROVE Inv
  OBVIOUS
<1>1. cron \in Periods \cup {0} /\ runner = FreshRunners(cron) BY DEF Init
<1>2. runner \in [Runners -> RunnerRecord] BY <1>1, FreshRunnersType
<1>3. nextRun \in Nat BY <1>1, FreshNextRunType DEF Init
<1>4. client \in [Clients -> ClientRecord] BY ClientRecords DEF Init
<1>5. Typed
  <2>1. Channel BY Numbers DEF Init, Channel
  <2>2. Scalars BY <1>1, <1>3 DEF Init, Scalars
  <2>3. QED BY <1>2, <1>4, <2>1, <2>2 DEF Typed
<1>6. PICK first \in Runners : \A r \in Runners :
         runner[r].at = IF cron # 0 /\ r = first THEN "snapshot" ELSE "none"
  BY <1>1, FreshRunnersType
<1>7. RunningIsTrue /\ ExitsAfterStop
  BY <1>6 DEF Init, RunningIsTrue, ExitsAfterStop, Alive
<1>8. QED BY <1>5, <1>7 DEF Inv

LEMMA RestartInv == ASSUME Inv, Restart PROVE Inv'
<1>1. cronFile \in Periods \cup {0} /\ runner' = FreshRunners(cronFile) /\ now \in Nat
  BY DEF Restart, Inv, Typed, Scalars
<1>2. runner' \in [Runners -> RunnerRecord] BY <1>1, FreshRunnersType
<1>3. nextRun' \in Nat BY <1>1, FreshNextRunType DEF Restart
<1>4. client' \in [Clients -> ClientRecord] BY ClientRecords DEF Restart
<1>5. Typed'
  <2>1. Channel' BY Numbers DEF Restart, Channel
  <2>2. Scalars BY DEF Inv, Typed
  <2>3. Scalars' BY <1>1, <1>3, <2>2 DEF Restart, Scalars, historyVars
  <2>4. QED BY <1>2, <1>4, <2>1, <2>3 DEF Typed
<1>6. PICK first \in Runners : \A r \in Runners :
         runner'[r].at = IF cronFile # 0 /\ r = first THEN "snapshot" ELSE "none"
  BY <1>1, FreshRunnersType
<1>7. RunningIsTrue' /\ ExitsAfterStop'
  BY <1>6 DEF Restart, RunningIsTrue, ExitsAfterStop, Alive
<1>8. QED BY <1>5, <1>7 DEF Inv

-----------------------------------------------------------------------------
(* Requests *)

\* A step of client c that leaves the runners alone.
LEMMA ClientOnly ==
    ASSUME Inv, Scalars', Channel', client' \in [Clients -> ClientRecord],
           UNCHANGED <<runner, running, stopped>>
    PROVE  Inv'
<1>1. runner' \in [Runners -> RunnerRecord] BY DEF Inv, Typed
<1>2. QED BY <1>1, RunnersStay DEF Inv, Typed

LEMMA UserRequestInv ==
    ASSUME Inv, NEW c \in Clients, UserRequest(c)
    PROVE  Inv'
<1>1. Typed BY DEF Inv
<1> USE DEF confVars, sharedVars, historyVars
<1>2. CASE ScheduleRequest(c)
  <2>1. PICK s \in Periods, saved \in SaveOutcomes :
           /\ SaveCron(s, saved)
           /\ client' = IF saved
                        THEN [client EXCEPT ![c] = Sending("schedule", "none", s)]
                        ELSE client
    BY <1>2 DEF ScheduleRequest
  <2>2. s \in Nat BY ConstantsAssumption
  <2>3. Sending("schedule", "none", s) \in ClientRecord
    BY <2>2, ClientRecords DEF ClientPlaces
  <2>4. client' \in [Clients -> ClientRecord] BY <1>1, <2>1, <2>3 DEF Typed
  <2>5. Scalars' BY <1>1, <1>2, <2>1 DEF Typed, Scalars, ScheduleRequest, SaveCron
  <2>6. Channel' BY <1>1, <1>2 DEF Typed, Channel, ScheduleRequest
  <2>7. QED BY <1>2, <2>4, <2>5, <2>6, ClientOnly DEF ScheduleRequest
<1>3. CASE DisableRequest(c)
  <2>1. \A p \in {"disabled", "stop"} : Sending(p, "none", 0) \in ClientRecord
    BY ClientRecords DEF ClientPlaces
  <2>2. client' \in [Clients -> ClientRecord]
    BY <1>1, <1>3, <2>1 DEF Typed, DisableRequest
  <2>3. Scalars' BY <1>1, <1>3 DEF Typed, Scalars, DisableRequest, SaveCron
  <2>4. Channel' BY <1>1, <1>3 DEF Typed, Channel, DisableRequest
  <2>5. QED BY <1>3, <2>2, <2>3, <2>4, ClientOnly DEF DisableRequest
<1>4. CASE Postpone(c)
  <2>1. PICK d \in Delays :
           client' = [client EXCEPT ![c] = Sending("send", "postpone", nextRun + d)]
    BY <1>4 DEF Postpone
  <2>2. nextRun + d \in Nat BY <1>1, ConstantsAssumption DEF Typed, Scalars
  <2>3. Sending("send", "postpone", nextRun + d) \in ClientRecord
    BY <2>2, ClientRecords DEF ClientPlaces, Kinds
  <2>4. client' \in [Clients -> ClientRecord] BY <1>1, <2>1, <2>3 DEF Typed
  <2>5. Scalars' BY <1>1, <1>4 DEF Typed, Scalars, Postpone
  <2>6. Channel' BY <1>1, <1>4 DEF Typed, Channel, Postpone
  <2>7. QED BY <1>4, <2>4, <2>5, <2>6, ClientOnly DEF Postpone
<1>5. CASE Skip(c)
  <2>1. schedule \in Periods /\ nextRun \in Nat BY <1>1, <1>5 DEF Typed, Scalars, Skip
  <2>2. NextAfter(schedule, nextRun) \in Nat BY <2>1, NextAfterType
  <2>3. Sending("send", "skip", nextRun) \in ClientRecord
    BY <2>1, ClientRecords DEF ClientPlaces, Kinds
  <2>4. client' \in [Clients -> ClientRecord] BY <1>1, <1>5, <2>3 DEF Typed, Skip
  <2>5. Scalars' BY <1>1, <1>5, <2>1, <2>2 DEF Typed, Scalars, Skip
  <2>6. Channel' BY <1>1, <1>5 DEF Typed, Channel, Skip
  <2>7. QED BY <1>5, <2>4, <2>5, <2>6, ClientOnly DEF Skip
<1>6. QED BY <1>2, <1>3, <1>4, <1>5 DEF UserRequest

LEMMA ClientStepInv ==
    ASSUME Inv, NEW c \in Clients, ClientStep(c)
    PROVE  Inv'
<1>1. Typed BY DEF Inv
<1>2. client[c] \in ClientRecord BY <1>1 DEF Typed
<1>3. Idle \in ClientRecord /\ \A p \in {"start", "disabled"} :
                                  Sending(p, "none", 0) \in ClientRecord
  BY ClientRecords DEF ClientPlaces
<1>4. runner \in [Runners -> RunnerRecord] BY <1>1 DEF Typed
<1> USE DEF confVars, sharedVars, historyVars
<1>5. CASE ScheduleCall(c)
  <2> DEFINE s == client[c].data
  <2>1. s \in Periods /\ now \in Nat
    BY <1>1, <1>2, <1>5 DEF ScheduleCall, ClientRecord, Typed, Scalars
  <2>2. Sending("send, start", "recalculate", s) \in ClientRecord /\ NextAfter(s, now) \in Nat
    BY <2>1, ClientRecords, NextAfterType
  <2>3. client' \in [Clients -> ClientRecord]
    BY <1>1, <1>3, <1>5, <2>2 DEF Typed, ScheduleCall
  <2>4. Scalars' BY <1>1, <1>5, <2>1, <2>2 DEF Typed, Scalars, ScheduleCall
  <2>5. Channel' BY <1>1, <1>5 DEF Typed, Channel, ScheduleCall
  <2>6. QED BY <1>5, <2>3, <2>4, <2>5, ClientOnly DEF ScheduleCall
<1>6. CASE Send(c)
  <2> DEFINE k == client[c].kind
             d == client[c].data
  <2>1. k \in Kinds /\ d \in Nat /\ (k = "recalculate" => d \in Periods) /\ TrySend(k, d)
    BY <1>2, <1>6 DEF Send, ClientRecord
  <2> HIDE DEF k, d
  <2>2. Channel' BY <1>1, <2>1, SendType DEF Channel
  <2>3. client' \in [Clients -> ClientRecord] BY <1>1, <1>3, <1>6 DEF Typed, Send
  <2>4. Scalars'
    <3>1. client[c].data \in Nat BY <2>1 DEF d
    <3>2. QED BY <1>1, <1>6, <3>1 DEF Typed, Scalars, Send
  <2>5. QED BY <1>6, <2>2, <2>3, <2>4, ClientOnly DEF Send
<1>7. CASE Start(c)
  <2>1. client' \in [Clients -> ClientRecord] BY <1>1, <1>3, <1>7 DEF Typed, Start
  <2>2. Scalars' BY <1>1, <1>7 DEF Typed, Scalars, Start
  <2>3. Channel' BY <1>1, <1>7 DEF Typed, Channel, Start
  <2>4. CASE running
    BY <1>7, <2>1, <2>2, <2>3, <2>4, ClientOnly DEF Start, AlreadyRunning
  <2>5. CASE ~running
    <3>1. PICK r \in Runners : runner[r].at = "none" /\ RunnerBecomes(r, AtTop)
      BY <1>7, <2>5 DEF Start, AlreadyRunning, RunnerBecomes
    <3>2. AtTop \in RunnerRecord /\ AtTop.at = "snapshot" BY AtTopType
    <3>3. running' /\ stopped' = stopped BY <1>7, <2>5 DEF Start, AlreadyRunning
    <3>4. /\ runner' \in [Runners -> RunnerRecord] /\ runner'[r] = AtTop
          /\ \A x \in Runners \ {r} : runner'[x] = runner[x]
      BY <1>1, <3>1, <3>2, OneRunnerChanges
    <3>5. ~stopped => \A x \in Runners : ~Alive(x)
      BY <2>5 DEF Inv, RunningIsTrue
    <3>6. RunningIsTrue' /\ ExitsAfterStop'
      BY <3>2, <3>3, <3>4, <3>5 DEF Inv, RunningIsTrue, ExitsAfterStop, Alive
    <3>7. QED BY <2>1, <2>2, <2>3, <3>4, <3>6 DEF Inv, Typed
  <2>6. QED BY <2>4, <2>5
<1>8. CASE Stop(c)
  <2>1. client' \in [Clients -> ClientRecord] BY <1>1, <1>3, <1>8 DEF Typed, Stop
  <2>2. Scalars' BY <1>1, <1>8 DEF Typed, Scalars, Stop
  <2>3. Channel' BY <1>1, <1>8 DEF Typed, Channel, Stop
  <2>4. RunningIsTrue' /\ ExitsAfterStop' BY <1>8, StoppedIsFree DEF Stop
  <2>5. runner' = runner BY <1>8 DEF Stop
  <2>6. QED BY <1>4, <2>1, <2>2, <2>3, <2>4, <2>5 DEF Inv, Typed
<1>9. CASE ReplyDisabled(c)
  <2>1. client' \in [Clients -> ClientRecord] BY <1>1, <1>3, <1>9 DEF Typed, ReplyDisabled
  <2>2. Scalars' BY <1>1, <1>9 DEF Typed, Scalars, ReplyDisabled
  <2>3. Channel' BY <1>1, <1>9 DEF Typed, Channel, ReplyDisabled
  <2>4. QED BY <1>9, <2>1, <2>2, <2>3, ClientOnly DEF ReplyDisabled
<1>10. QED BY <1>5, <1>6, <1>7, <1>8, <1>9 DEF ClientStep

LEMMA HandleWakeUpInv == ASSUME Inv, HandleWakeUp PROVE Inv'
<1>1. Typed BY DEF Inv
<1>2. Channel' BY <1>1, SendType DEF HandleWakeUp, Kinds, Channel
<1>3. Scalars' BY <1>1 DEF HandleWakeUp, Typed, Scalars, confVars, sharedVars, historyVars
<1>4. client' \in [Clients -> ClientRecord] BY <1>1 DEF HandleWakeUp, Typed
<1>5. QED BY <1>2, <1>3, <1>4, ClientOnly DEF HandleWakeUp

-----------------------------------------------------------------------------
(* The runner and time *)

\* A step of runner r in its loop that leaves requests and the channel alone.
LEMMA RunnerOnly ==
    ASSUME Inv, NEW r \in Runners, NEW record \in RunnerRecord,
           RunnerBecomes(r, record), Alive(r), record.at \notin {"none", "exit"},
           Scalars', Channel', UNCHANGED <<running, stopped, client>>
    PROVE  Inv'
<1>1. runner' \in [Runners -> RunnerRecord] BY OneRunnerChanges DEF Inv
<1>2. client' \in [Clients -> ClientRecord] BY DEF Inv, Typed
<1>3. QED BY <1>1, <1>2, RunnerGoesOn DEF Inv, Typed

LEMMA TimerStepsInv ==
    ASSUME Inv, NEW r \in Runners,
           \/ TakeSnapshot(r) \/ TimerNotifies(r) \/ TimerRuns(r)
           \/ PreCheckPasses(r) \/ PreCheckFails(r) \/ AdvanceNextRun(r)
    PROVE  Inv'
<1>1. Typed /\ runner[r] \in RunnerRecord BY DEF Inv, Typed
<1> DEFINE me == runner[r]
<1> USE DEF confVars, sharedVars, historyVars
<1>2. CASE TakeSnapshot(r)
  <2>1. Snapshot \in RunnerRecord /\ Snapshot.at \notin {"none", "exit"}
    BY <1>1, SnapshotType
  <2>2. Scalars' /\ Channel' BY <1>1, <1>2 DEF TakeSnapshot, Typed, Scalars, Channel
  <2>3. QED BY <1>2, <2>1, <2>2, RunnerOnly DEF TakeSnapshot, Alive
<1>3. CASE TimerNotifies(r)
  <2> DEFINE wait == IF me.nextRun <= now THEN OverdueDelay ELSE me.nextRun - now
             record == [me EXCEPT !.leading = FALSE, !.timer = wait, !.announced = now + wait]
  <2>1. me.nextRun \in Nat /\ now \in Nat BY <1>1 DEF RunnerRecord, Typed, Scalars
  <2>2. wait \in Nat /\ now + wait \in Nat BY <2>1, Numbers
  <2> HIDE DEF wait
  <2>3. record \in RunnerRecord /\ record.at = me.at BY <1>1, <2>2 DEF RunnerRecord
  <2>4. RunnerBecomes(r, record) /\ me.at = "select" BY <1>3 DEF TimerNotifies, wait
  <2>5. Scalars' /\ Channel' BY <1>1, <1>3 DEF TimerNotifies, Typed, Scalars, Channel
  <2>6. UNCHANGED <<running, stopped, client>> BY <1>3 DEF TimerNotifies
  <2> HIDE DEF record
  <2>7. QED BY <2>3, <2>4, <2>5, <2>6, RunnerOnly DEF Alive
<1>4. CASE TimerRuns(r)
  <2> DEFINE record == [me EXCEPT !.at = "precheck", !.timer = Off]
  <2>1. record \in RunnerRecord /\ record.at = "precheck" BY <1>1, PrecheckedType
  <2>2. RunnerBecomes(r, record) /\ me.at = "select" BY <1>4 DEF TimerRuns
  <2>3. Scalars' /\ Channel' BY <1>1, <1>4 DEF TimerRuns, Typed, Scalars, Channel
  <2>4. UNCHANGED <<running, stopped, client>> BY <1>4 DEF TimerRuns
  <2> HIDE DEF record
  <2>5. QED BY <2>1, <2>2, <2>3, <2>4, RunnerOnly DEF Alive
<1>5. CASE PreCheckPasses(r)
  <2> DEFINE record == [me EXCEPT !.at = "started"]
  <2>1. record \in RunnerRecord /\ record.at = "started" BY <1>1, MovedType DEF Places
  <2>2. RunnerBecomes(r, record) /\ me.at = "precheck" BY <1>5 DEF PreCheckPasses
  <2>3. me.nextRun \in Nat BY <1>1 DEF RunnerRecord
  <2>4. Scalars' /\ Channel'
    BY <1>1, <1>5, <2>3 DEF PreCheckPasses, Typed, Scalars, Channel
  <2>5. UNCHANGED <<running, stopped, client>> BY <1>5 DEF PreCheckPasses
  <2> HIDE DEF record
  <2>6. QED BY <2>1, <2>2, <2>4, <2>5, RunnerOnly DEF Alive
<1>6. CASE PreCheckFails(r)
  <2>1. Failed(me) \in RunnerRecord /\ Failed(me).at \notin {"none", "exit"}
    BY <1>1, FailedType
  <2>2. Scalars' /\ Channel' BY <1>1, <1>6 DEF PreCheckFails, Typed, Scalars, Channel
  <2>3. QED BY <1>6, <2>1, <2>2, RunnerOnly DEF PreCheckFails, Alive
<1>7. CASE AdvanceNextRun(r)
  <2>1. AtTop \in RunnerRecord /\ AtTop.at = "snapshot" BY AtTopType
  <2>2. RunnerBecomes(r, AtTop) /\ me.at \in {"started", "given up"}
    BY <1>7 DEF AdvanceNextRun
  <2>3. Advanced(r) \in Nat BY <1>1, NextAfterType DEF Advanced, Typed, Scalars
  <2>4. Scalars' /\ Channel'
    BY <1>1, <1>7, <2>3 DEF AdvanceNextRun, Typed, Scalars, Channel
  <2>5. UNCHANGED <<running, stopped, client>> BY <1>7 DEF AdvanceNextRun
  <2>6. QED BY <2>1, <2>2, <2>4, <2>5, RunnerOnly DEF Alive
<1>8. QED BY <1>2, <1>3, <1>4, <1>5, <1>6, <1>7

\* What is common to the control messages.
LEMMA ReceivesFrame ==
    ASSUME Inv, NEW r \in Runners, NEW k \in Kinds, Receives(r, k)
    PROVE  /\ Channel' /\ Head(controlCh) \in MessageRecord /\ Head(controlCh).kind = k
           /\ Alive(r) /\ UNCHANGED <<running, stopped, client>>
<1>1. Typed BY DEF Inv
<1>2. QED BY <1>1, ReceiveType DEF Receives, Channel, Alive

LEMMA ControlStepsInv ==
    ASSUME Inv, NEW r \in Runners,
           \/ ControlRecalculate(r) \/ ControlPostpone(r)
           \/ ControlSkip(r) \/ ControlWake(r)
    PROVE  Inv'
<1>1. Typed /\ runner[r] \in RunnerRecord BY DEF Inv, Typed
<1> DEFINE me == runner[r]
<1>2. AtTop \in RunnerRecord /\ AtTop.at = "snapshot" BY AtTopType
<1> USE DEF confVars, sharedVars
<1>3. CASE ControlRecalculate(r)
  <2>1. Receives(r, "recalculate") /\ RunnerBecomes(r, AtTop)
    BY <1>3 DEF ControlRecalculate
  <2>2. /\ Channel' /\ Alive(r) /\ UNCHANGED <<running, stopped, client>>
        /\ Head(controlCh).data \in Periods
    BY <2>1, ReceivesFrame DEF MessageRecord, Kinds
  <2>3. now \in Nat BY <1>1 DEF Typed, Scalars
  <2>4. schedule' \in Periods /\ nextRun' \in Nat
    BY <1>3, <2>2, <2>3, NextAfterType DEF ControlRecalculate
  <2>5. Scalars'
    BY <1>1, <1>3, <2>4 DEF ControlRecalculate, Receives, Typed, Scalars
  <2>6. QED BY <1>2, <2>1, <2>2, <2>5, RunnerOnly
<1>4. CASE ControlPostpone(r)
  <2> DEFINE record == Postponed(me, Head(controlCh).data)
  <2>1. Receives(r, "postpone") /\ RunnerBecomes(r, record) BY <1>4 DEF ControlPostpone
  <2>2. /\ Channel' /\ Alive(r) /\ UNCHANGED <<running, stopped, client>>
        /\ Head(controlCh).data \in Nat
    BY <2>1, ReceivesFrame DEF MessageRecord, Kinds
  <2>3. now \in Nat BY <1>1 DEF Typed, Scalars
  <2>4. record \in RunnerRecord /\ record.at = me.at BY <1>1, <2>2, <2>3, PostponedType
  <2>5. Scalars' BY <1>1, <1>4 DEF ControlPostpone, Receives, Typed, Scalars
  <2> HIDE DEF record
  <2>6. QED BY <2>1, <2>2, <2>4, <2>5, RunnerOnly DEF Alive
<1>5. CASE ControlSkip(r)
  <2>1. Receives(r, "skip") /\ RunnerBecomes(r, AtTop) BY <1>5 DEF ControlSkip
  <2>2. Channel' /\ Alive(r) /\ UNCHANGED <<running, stopped, client>>
    BY <2>1, ReceivesFrame DEF Kinds
  <2>3. Scalars' BY <1>1, <1>5 DEF ControlSkip, Receives, Typed, Scalars
  <2>4. QED BY <1>2, <2>1, <2>2, <2>3, RunnerOnly
<1>6. CASE ControlWake(r)
  <2> DEFINE timer == WakeTimer(me)
             record == [me EXCEPT !.timer = timer]
  <2>1. Receives(r, "wake") /\ RunnerBecomes(r, record) BY <1>6 DEF ControlWake
  <2>2. Channel' /\ Alive(r) /\ UNCHANGED <<running, stopped, client>>
    BY <2>1, ReceivesFrame DEF Kinds
  <2>3. timer \in Nat \cup {Off} BY <1>1, WakeTimerType
  <2> HIDE DEF timer
  <2>4. record \in RunnerRecord /\ record.at = me.at BY <1>1, <2>3, TimedType
  <2>5. Scalars' BY <1>1, <1>6 DEF ControlWake, Receives, Typed, Scalars
  <2> HIDE DEF record
  <2>6. QED BY <2>1, <2>2, <2>4, <2>5, RunnerOnly DEF Alive
<1>7. QED BY <1>3, <1>4, <1>5, <1>6

LEMMA EndingInv ==
    ASSUME Inv, NEW r \in Runners, SelectStop(r) \/ Exit(r)
    PROVE  Inv'
<1>1. Typed BY DEF Inv
<1> DEFINE leaving == [NoRunner EXCEPT !.at = "exit"]
<1>2. leaving \in RunnerRecord /\ NoRunner \in RunnerRecord
  BY NoRunnerType, MovedType DEF Places
<1>3. runner' \in [Runners -> RunnerRecord]
  <2>1. CASE SelectStop(r)
    <3>1. RunnerBecomes(r, leaving) BY <2>1 DEF SelectStop
    <3> HIDE DEF leaving
    <3>2. QED BY <1>1, <1>2, <3>1, OneRunnerChanges
  <2>2. CASE Exit(r) BY <1>1, <1>2, <2>2, OneRunnerChanges DEF Exit
  <2>3. QED BY <2>1, <2>2
<1>4. Scalars' /\ Channel' /\ client' = client
  BY <1>1 DEF SelectStop, Exit, Typed, Scalars, Channel, confVars, sharedVars, historyVars
<1>5. stopped'
  BY DEF SelectStop, Exit, Inv, ExitsAfterStop
<1>6. QED BY <1>1, <1>3, <1>4, <1>5, StoppedIsFree DEF Inv, Typed

LEMMA TimeInv == ASSUME Inv, Tick \/ SystemSleeps PROVE Inv'
<1>1. Typed BY DEF Inv
<1> USE DEF confVars, sharedVars, historyVars
<1>2. CASE Tick
  <2> DEFINE ticked(r) == IF runner[r].timer > 0 THEN runner[r].timer - 1 ELSE runner[r].timer
             record(r) == [runner[r] EXCEPT !.timer = ticked(r)]
  <2>1. runner' = [r \in Runners |-> record(r)] BY <1>2 DEF Tick
  <2>2. ASSUME NEW r \in Runners
        PROVE  record(r) \in RunnerRecord /\ record(r).at = runner[r].at
    <3>1. runner[r] \in RunnerRecord BY <1>1 DEF Typed
    <3>2. ticked(r) \in Nat \cup {Off} BY <3>1 DEF RunnerRecord, Off
    <3> HIDE DEF ticked
    <3>3. QED BY <3>1, <3>2, TimedType
  <2> HIDE DEF record
  <2>3. runner' \in [Runners -> RunnerRecord] BY <2>1, <2>2
  <2>4. \A r \in Runners : runner'[r].at = runner[r].at BY <2>1, <2>2
  <2>5. UNCHANGED <<running, stopped, client>> BY <1>2 DEF Tick
  <2>6. RunningIsTrue' /\ ExitsAfterStop'
    BY <2>4, <2>5 DEF Inv, RunningIsTrue, ExitsAfterStop, Alive
  <2>7. Scalars' /\ Channel' BY <1>1, <1>2 DEF Tick, Typed, Scalars, Channel
  <2>8. QED BY <1>1, <2>3, <2>5, <2>6, <2>7 DEF Inv, Typed
<1>3. CASE SystemSleeps
  <2>1. PICK d \in SleepLengths : now' = now + d BY <1>3 DEF SystemSleeps
  <2>2. Scalars' /\ Channel' /\ client' \in [Clients -> ClientRecord]
    BY <1>1, <1>3, <2>1, ConstantsAssumption
       DEF SystemSleeps, Typed, Scalars, Channel
  <2>3. QED BY <1>3, <2>2, ClientOnly DEF SystemSleeps
<1>4. QED BY <1>2, <1>3

-----------------------------------------------------------------------------
(* Every step keeps the invariant *)

LEMMA NextInv == ASSUME Inv, [Next]_vars PROVE Inv'
<1>1. CASE UNCHANGED vars
  BY <1>1 DEF vars, Inv, Typed, Scalars, Channel, RunningIsTrue, ExitsAfterStop, Alive
<1>2. ASSUME NEW r \in Runners, RunnerStep(r) PROVE Inv'
  BY <1>2, TimerStepsInv, ControlStepsInv, EndingInv DEF RunnerStep
<1>3. QED
  BY <1>1, <1>2, UserRequestInv, ClientStepInv, HandleWakeUpInv, TimeInv, RestartInv
     DEF Next

LEMMA Invariance == Spec => []Inv
<1>1. Init => Inv BY InitInv
<1>2. Inv /\ [Next]_vars => Inv' BY NextInv
<1>3. QED BY <1>1, <1>2, PTL DEF Spec

\* The scheduler's state keeps its type: no message, request or timer ever
\* holds anything but a time or a schedule where one is expected.
THEOREM TypeCorrect == Spec => []TypeOK
<1>1. Inv => TypeOK BY TypedIsTypeOK DEF Inv
<1>2. QED BY <1>1, Invariance, PTL

\* Until the scheduler is stopped, however requests, restarts, sleep and
\* prechecks fall together, there is one runner when `running' is set and none
\* when it is not (scheduler.go:82-90, 175-181).
THEOREM OneRunnerUntilStopped == Spec => []RunningIsTrue
<1>1. Inv => RunningIsTrue BY DEF Inv
<1>2. QED BY <1>1, Invariance, PTL

-----------------------------------------------------------------------------
(* What each step does to the runner that takes it, field by field *)

\* A field of a runner's record is what the runner's type says.
LEMMA RunnerFields ==
    ASSUME Typed, NEW r \in Runners
    PROVE  /\ runner[r] \in RunnerRecord
           /\ runner[r].nextRun \in Nat /\ runner[r].announced \in Nat
           /\ runner[r].held \in Nat /\ runner[r].timer \in Nat \cup {Off}
           /\ runner[r].leading \in BOOLEAN /\ runner[r].schedule \in Periods \cup {0}
BY DEF Typed, RunnerRecord

\* The other runners stay as they are.
LEMMA OthersStay ==
    ASSUME Typed, NEW r \in Runners, RunnerStep(r)
    PROVE  \A s \in Runners \ {r} : runner'[s] = runner[s]
<1>1. \E record : RunnerBecomes(r, record)
  <2>1. CASE TakeSnapshot(r) BY <2>1, Zenon DEF TakeSnapshot
  <2>2. CASE TimerNotifies(r) BY <2>2, Zenon DEF TimerNotifies
  <2>3. CASE TimerRuns(r) BY <2>3, Zenon DEF TimerRuns
  <2>4. CASE PreCheckPasses(r) BY <2>4, Zenon DEF PreCheckPasses
  <2>5. CASE PreCheckFails(r) BY <2>5, Zenon DEF PreCheckFails
  <2>6. CASE AdvanceNextRun(r) BY <2>6, Zenon DEF AdvanceNextRun
  <2>7. CASE ControlRecalculate(r) BY <2>7, Zenon DEF ControlRecalculate
  <2>8. CASE ControlPostpone(r) BY <2>8, Zenon DEF ControlPostpone
  <2>9. CASE ControlSkip(r) BY <2>9, Zenon DEF ControlSkip
  <2>10. CASE ControlWake(r) BY <2>10, Zenon DEF ControlWake
  <2>11. CASE SelectStop(r) BY <2>11, Zenon DEF SelectStop
  <2>12. CASE Exit(r) BY <2>12, Zenon DEF Exit
  <2>13. QED
    BY <2>1, <2>2, <2>3, <2>4, <2>5, <2>6, <2>7, <2>8, <2>9, <2>10, <2>11, <2>12
       DEF RunnerStep
<1>2. PICK record : runner' = [runner EXCEPT ![r] = record]
  BY <1>1 DEF RunnerBecomes
<1>3. QED BY <1>2 DEF Typed

\* The runner that changes has the record of its step.
LEMMA RunnerHas ==
    ASSUME Typed, NEW r \in Runners, NEW record, RunnerBecomes(r, record)
    PROVE  runner'[r] = record
BY DEF Typed, RunnerBecomes

LEMMA SnapshotTaken ==
    ASSUME Typed, NEW r \in Runners, TakeSnapshot(r)
    PROVE  LET me == runner'[r] IN
           /\ me.at = "select" /\ me.schedule = schedule /\ me.nextRun = nextRun
           /\ me.leading = TRUE /\ me.announced = 0 /\ me.held = now /\ me.attempts = 0
           /\ me.timer = IF schedule = 0 \/ nextRun = 0 THEN Off
                         ELSE TimerFor(nextRun - now - Lead)
<1>1. runner'[r] = Snapshot BY RunnerHas DEF TakeSnapshot
<1> DEFINE timer == IF schedule = 0 \/ nextRun = 0 THEN Off
                    ELSE TimerFor(nextRun - now - Lead)
<1>2. runner'[r] = [at |-> "select", schedule |-> schedule, nextRun |-> nextRun,
                    leading |-> TRUE, attempts |-> 0, announced |-> 0, held |-> now,
                    timer |-> timer]
  BY <1>1 DEF Snapshot
<1> HIDE DEF timer
<1>3. /\ runner'[r].at = "select" /\ runner'[r].schedule = schedule
      /\ runner'[r].nextRun = nextRun /\ runner'[r].leading = TRUE
      /\ runner'[r].announced = 0 /\ runner'[r].held = now
      /\ runner'[r].attempts = 0 /\ runner'[r].timer = timer
  BY <1>2
<1>4. QED BY <1>3, Zenon DEF timer

LEMMA Notified ==
    ASSUME Typed, NEW r \in Runners, TimerNotifies(r)
    PROVE  LET me == runner[r]
               new == runner'[r]
               wait == IF me.nextRun <= now THEN OverdueDelay ELSE me.nextRun - now
           IN /\ me.at = "select" /\ me.timer = 0 /\ me.leading
              /\ new.at = "select" /\ new.timer = wait /\ new.leading = FALSE
              /\ new.announced = now + wait
              /\ new.schedule = me.schedule /\ new.nextRun = me.nextRun
              /\ new.held = me.held /\ new.attempts = me.attempts
<1> DEFINE me == runner[r]
           wait == IF me.nextRun <= now THEN OverdueDelay ELSE me.nextRun - now
           a == now + wait
           record == [me EXCEPT !.leading = FALSE, !.timer = wait, !.announced = a]
<1>1. me \in RunnerRecord BY RunnerFields
<1>2. me.at = "select" /\ me.timer = 0 /\ me.leading BY DEF TimerNotifies
<1>3. RunnerBecomes(r, record) BY DEF TimerNotifies
<1>4. runner'[r] = record BY <1>3, RunnerHas, Zenon
<1> HIDE DEF wait, a
<1>5. runner'[r].at = "select" /\ runner'[r].timer = wait /\ runner'[r].leading = FALSE
  BY <1>1, <1>2, <1>4 DEF RunnerRecord
<1>6. /\ runner'[r].announced = a /\ runner'[r].schedule = me.schedule
      /\ runner'[r].nextRun = me.nextRun /\ runner'[r].held = me.held
      /\ runner'[r].attempts = me.attempts
  BY <1>1, <1>4 DEF RunnerRecord
<1>7. QED BY <1>2, <1>5, <1>6, Zenon DEF wait, a

LEMMA RunComes ==
    ASSUME Typed, NEW r \in Runners, TimerRuns(r)
    PROVE  LET me == runner[r]
               new == runner'[r]
           IN /\ me.at = "select" /\ me.timer = 0 /\ ~me.leading
              /\ new.at = "precheck" /\ new.timer = Off /\ new.leading = me.leading
              /\ new.announced = me.announced /\ new.held = me.held
              /\ new.schedule = me.schedule /\ new.nextRun = me.nextRun
              /\ new.attempts = me.attempts
<1> DEFINE me == runner[r]
           record == [me EXCEPT !.at = "precheck", !.timer = Off]
<1>1. me \in RunnerRecord BY RunnerFields
<1>2. me.at = "select" /\ me.timer = 0 /\ ~me.leading BY DEF TimerRuns
<1>3. RunnerBecomes(r, record) BY DEF TimerRuns
<1>4. runner'[r] = record BY <1>3, RunnerHas, Zenon
<1>5. QED BY <1>1, <1>2, <1>4 DEF RunnerRecord

LEMMA Prechecked ==
    ASSUME Typed, NEW r \in Runners, PreCheckPasses(r)
    PROVE  LET me == runner[r]
               new == runner'[r]
           IN /\ me.at = "precheck" /\ new.at = "started"
              /\ new.schedule = me.schedule /\ new.nextRun = me.nextRun
              /\ started' = started \cup {me.nextRun}
<1> DEFINE me == runner[r]
           record == [me EXCEPT !.at = "started"]
<1>1. me \in RunnerRecord BY RunnerFields
<1>2. me.at = "precheck" /\ started' = started \cup {me.nextRun} BY DEF PreCheckPasses
<1>3. RunnerBecomes(r, record) BY DEF PreCheckPasses
<1>4. runner'[r] = record BY <1>3, RunnerHas, Zenon
<1>5. QED BY <1>1, <1>2, <1>4 DEF RunnerRecord

LEMMA PrecheckFailed ==
    ASSUME Typed, NEW r \in Runners, PreCheckFails(r)
    PROVE  LET me == runner[r]
               new == runner'[r]
           IN /\ me.at = "precheck"
              /\ \/ /\ new.at = "select" /\ new.timer = RetryDelay
                    /\ me.attempts < MaxAttempts /\ new.attempts = me.attempts + 1
                 \/ new.at = "given up"
              /\ new.leading = me.leading
              /\ new.announced = me.announced /\ new.held = me.held
              /\ new.schedule = me.schedule /\ new.nextRun = me.nextRun
<1> DEFINE me == runner[r]
<1>1. me \in RunnerRecord /\ me.at = "precheck" BY RunnerFields DEF PreCheckFails
<1>2. runner'[r] = Failed(me) BY RunnerHas, Zenon DEF PreCheckFails
<1>3. me.attempts \in Nat BY <1>1, Numbers DEF RunnerRecord
<1> DEFINE n == me.attempts + 1
           again == [me EXCEPT !.at = "select", !.timer = RetryDelay, !.attempts = n]
           over == [me EXCEPT !.at = "given up"]
<1>4. (me.attempts < MaxAttempts /\ runner'[r] = again) \/ runner'[r] = over
  BY <1>2 DEF Failed
<1> HIDE DEF n
<1>5. /\ again.at = "select" /\ again.timer = RetryDelay
      /\ again.leading = me.leading /\ again.announced = me.announced
      /\ again.held = me.held /\ again.schedule = me.schedule
      /\ again.nextRun = me.nextRun /\ again.attempts = n
  BY <1>1 DEF RunnerRecord
<1>6. /\ over.at = "given up"
      /\ over.leading = me.leading /\ over.announced = me.announced
      /\ over.held = me.held /\ over.schedule = me.schedule
      /\ over.nextRun = me.nextRun
  BY <1>1 DEF RunnerRecord
<1> HIDE DEF again, over
<1>7. QED BY <1>1, <1>4, <1>5, <1>6 DEF n

\* The runner begins its loop again.
LEMMA LoopsAgain ==
    ASSUME Typed, NEW r \in Runners,
           AdvanceNextRun(r) \/ ControlRecalculate(r) \/ ControlSkip(r)
    PROVE  runner'[r].at = "snapshot"
<1>1. RunnerBecomes(r, AtTop) BY DEF AdvanceNextRun, ControlRecalculate, ControlSkip
<1>2. runner'[r] = AtTop BY <1>1, RunnerHas, Zenon
<1>3. QED BY <1>2, AtTopType

LEMMA HeldBack ==
    ASSUME Typed, NEW r \in Runners, ControlPostpone(r)
    PROVE  LET until == Head(controlCh).data
               new == runner'[r]
           IN /\ runner[r].at = "select" /\ new.at = "select"
              /\ until \in Nat /\ new.timer = TimerFor(until - now)
              /\ new.held = now + new.timer /\ new.nextRun = runner[r].nextRun
              /\ new.leading = runner[r].leading /\ new.attempts = runner[r].attempts
<1> DEFINE me == runner[r]
           until == Head(controlCh).data
           timer == TimerFor(until - now)
           held == now + timer
           record == [me EXCEPT !.timer = timer, !.held = held]
<1>1. me \in RunnerRecord BY RunnerFields
<1>2. Receives(r, "postpone") /\ RunnerBecomes(r, record)
  BY DEF ControlPostpone, Postponed
<1>3. runner'[r] = record BY <1>2, RunnerHas, Zenon
<1>4. me.at = "select" BY <1>2 DEF Receives
<1>5. until \in Nat BY <1>2, ReceiveType DEF Kinds, MessageRecord
<1> HIDE DEF until, timer, held
<1>6. /\ runner'[r].at = "select" /\ runner'[r].timer = timer
      /\ runner'[r].held = held /\ runner'[r].nextRun = me.nextRun
      /\ runner'[r].leading = me.leading /\ runner'[r].attempts = me.attempts
  BY <1>1, <1>3, <1>4 DEF RunnerRecord
<1>7. QED BY <1>4, <1>5, <1>6, Zenon DEF until, timer, held

LEMMA WokenUp ==
    ASSUME Typed, NEW r \in Runners, ControlWake(r)
    PROVE  LET me == runner[r]
               new == runner'[r]
           IN /\ me.at = "select" /\ new.at = "select"
              /\ new.timer = WakeTimer(me) /\ new.leading = me.leading
              /\ new.announced = me.announced /\ new.held = me.held
              /\ new.schedule = me.schedule /\ new.nextRun = me.nextRun
<1> DEFINE me == runner[r]
           timer == WakeTimer(me)
           record == [me EXCEPT !.timer = timer]
<1>1. me \in RunnerRecord BY RunnerFields
<1>2. Receives(r, "wake") /\ RunnerBecomes(r, record) BY DEF ControlWake
<1>3. runner'[r] = record BY <1>2, RunnerHas, Zenon
<1>4. me.at = "select" BY <1>2 DEF Receives
<1> HIDE DEF timer
<1>5. /\ runner'[r].at = "select" /\ runner'[r].timer = timer
      /\ runner'[r].leading = me.leading /\ runner'[r].announced = me.announced
      /\ runner'[r].held = me.held /\ runner'[r].schedule = me.schedule
      /\ runner'[r].nextRun = me.nextRun
  BY <1>1, <1>3, <1>4 DEF RunnerRecord
<1>6. QED BY <1>4, <1>5, Zenon DEF timer

LEMMA Leaves ==
    ASSUME Typed, NEW r \in Runners, SelectStop(r) \/ Exit(r)
    PROVE  runner'[r].at \in {"exit", "none"}
<1> DEFINE leaving == [NoRunner EXCEPT !.at = "exit"]
<1>1. leaving.at = "exit" /\ NoRunner.at = "none" BY DEF NoRunner
<1>2. CASE SelectStop(r)
  <2>1. RunnerBecomes(r, leaving) BY <1>2 DEF SelectStop
  <2>2. runner'[r] = leaving BY <2>1, RunnerHas, Zenon
  <2>3. QED BY <1>1, <2>2
<1>3. CASE Exit(r)
  <2>1. RunnerBecomes(r, NoRunner) BY <1>3 DEF Exit
  <2>2. runner'[r] = NoRunner BY <2>1, RunnerHas, Zenon
  <2>3. QED BY <1>1, <2>2
<1>4. QED BY <1>2, <1>3

\* The clock changes timers only.
LEMMA Ticked ==
    ASSUME Typed, Tick, NEW r \in Runners
    PROVE  LET me == runner[r]
               new == runner'[r]
           IN /\ new.timer = IF me.timer > 0 THEN me.timer - 1 ELSE me.timer
              /\ new.at = me.at /\ new.leading = me.leading
              /\ new.announced = me.announced /\ new.held = me.held
              /\ new.schedule = me.schedule /\ new.nextRun = me.nextRun
              /\ new.attempts = me.attempts
<1> DEFINE me == runner[r]
           left == IF me.timer > 0 THEN me.timer - 1 ELSE me.timer
           record == [me EXCEPT !.timer = left]
<1>1. me \in RunnerRecord BY RunnerFields
<1>2. runner'[r] = record BY DEF Tick
<1> HIDE DEF left
<1>3. /\ runner'[r].timer = left
      /\ runner'[r].at = me.at /\ runner'[r].leading = me.leading
      /\ runner'[r].announced = me.announced /\ runner'[r].held = me.held
      /\ runner'[r].schedule = me.schedule /\ runner'[r].nextRun = me.nextRun
      /\ runner'[r].attempts = me.attempts
  BY <1>1, <1>2 DEF RunnerRecord
<1>4. QED BY <1>3, Zenon DEF left

\* A runner that has just been created takes its snapshot next, and nothing
\* else of a restart or a late Start is a runner.
LEMMA Restarted ==
    ASSUME Restart, NEW r \in Runners
    PROVE  runner'[r].at \in {"snapshot", "none"}
BY FreshRunnersType DEF Restart

LEMMA StartedRunner ==
    ASSUME Typed, NEW c \in Clients, Start(c)
    PROVE  \/ runner' = runner
           \/ \E r \in Runners :
                 /\ ~running /\ running' /\ runner[r].at = "none"
                 /\ runner'[r].at = "snapshot"
                 /\ \A s \in Runners \ {r} : runner'[s] = runner[s]
<1>1. CASE running BY <1>1 DEF Start, AlreadyRunning
<1>2. CASE ~running
  <2>1. PICK r \in Runners : runner[r].at = "none" /\ RunnerBecomes(r, AtTop)
    BY <1>2 DEF Start, AlreadyRunning, RunnerBecomes
  <2>2. AtTop \in RunnerRecord /\ AtTop.at = "snapshot" BY AtTopType
  <2>3. running' BY <1>2 DEF Start, AlreadyRunning
  <2>4. runner'[r] = AtTop /\ \A s \in Runners \ {r} : runner'[s] = runner[s]
    BY <2>1, <2>2, OneRunnerChanges
  <2>5. QED BY <1>2, <2>1, <2>2, <2>3, <2>4
<1>3. QED BY <1>1, <1>2

\* Clients other than by Start leave the runners alone.
LEMMA ClientsLeaveRunners ==
    ASSUME NEW c \in Clients,
           UserRequest(c) \/ ScheduleCall(c) \/ Send(c) \/ Stop(c) \/ ReplyDisabled(c)
    PROVE  runner' = runner
BY DEF UserRequest, ScheduleRequest, DisableRequest, Postpone, Skip, ScheduleCall, Send,
       Stop, ReplyDisabled

-----------------------------------------------------------------------------
(* Messages *)

\* A message of kind k is in the channel.
Waiting(k) == \E i \in DOMAIN controlCh : controlCh[i].kind = k

\* None is, and no request is about to send one.
NoMessage(k) == ~Waiting(k) /\ \A c \in Clients : client[c].kind # k

LEMMA Sent ==
    ASSUME Typed, NEW k \in Kinds, NEW d \in Nat, TrySend(k, d), NEW q \in Kinds
    PROVE  /\ Waiting(q)' => Waiting(q) \/ q = k
           /\ Waiting(q) => Waiting(q)'
           /\ controlCh' # controlCh => Waiting(k)'
<1> DEFINE m == Message(k, d)
           ch == controlCh
<1>1. m.kind = k BY DEF Message
<1>2. ch \in Seq(MessageRecord) /\ m \in MessageRecord \cup {m} BY DEF Typed, Channel
<1>3. CASE controlCh' = ch BY <1>3 DEF Waiting
<1>4. CASE controlCh' = Append(ch, m)
  <2>1. ch \in Seq(MessageRecord \cup {m}) BY <1>2, SeqMonotonic
  <2> HIDE DEF m, ch
  <2>2. Len(ch) \in Nat /\ DOMAIN ch = 1..Len(ch) BY <2>1
  <2>3. /\ DOMAIN controlCh' = 1..(Len(ch) + 1)
        /\ \A i \in 1..Len(ch) : controlCh'[i] = ch[i]
        /\ controlCh'[Len(ch) + 1] = m
    BY <1>4, <2>1, AppendProperties
  <2>4. \A i \in DOMAIN controlCh' : i \in DOMAIN ch \/ i = Len(ch) + 1 BY <2>2, <2>3
  <2>5. \A i \in DOMAIN ch : i \in DOMAIN controlCh' BY <2>2, <2>3
  <2>6. Len(ch) + 1 \in DOMAIN controlCh' BY <2>2, <2>3
  <2>7. \A i \in DOMAIN ch : controlCh'[i] = ch[i] BY <2>2, <2>3
  <2>8. QED BY <1>1, <2>3, <2>4, <2>5, <2>6, <2>7, Zenon DEF Waiting, ch
<1>5. QED BY <1>3, <1>4 DEF TrySend

LEMMA Received ==
    ASSUME Typed, NEW r \in Runners, NEW k \in Kinds, Receives(r, k), NEW q \in Kinds
    PROVE  /\ Waiting(q)' => Waiting(q)
           /\ Waiting(q) => Waiting(q)' \/ q = k
           /\ Waiting(k)
<1> DEFINE ch == controlCh
<1>1. ch \in Seq(MessageRecord) /\ ch # <<>> BY DEF Typed, Channel, Receives
<1>2. controlCh' = Tail(ch) /\ Head(ch).kind = k BY DEF Receives
<1> HIDE DEF ch
<1>3. /\ Len(ch) \in Nat \ {0} /\ DOMAIN ch = 1..Len(ch) /\ Head(ch) = ch[1]
      /\ Len(Tail(ch)) = Len(ch) - 1 /\ DOMAIN Tail(ch) = 1..(Len(ch) - 1)
      /\ \A i \in 1..(Len(ch) - 1) : Tail(ch)[i] = ch[i + 1]
  BY <1>1
<1>4. \A i \in DOMAIN controlCh' : i + 1 \in DOMAIN ch /\ controlCh'[i] = ch[i + 1]
  BY <1>2, <1>3
<1>5. \A j \in DOMAIN ch : j # 1 => j - 1 \in DOMAIN controlCh' /\ controlCh'[j - 1] = ch[j]
  BY <1>2, <1>3
<1>6. 1 \in DOMAIN ch /\ ch[1].kind = k BY <1>2, <1>3
<1>7. Waiting(q)' => Waiting(q)
  <2>1. SUFFICES ASSUME Waiting(q)' PROVE Waiting(q) OBVIOUS
  <2>2. PICK i \in DOMAIN controlCh' : controlCh'[i].kind = q BY <2>1 DEF Waiting
  <2>3. QED BY <1>4, <2>2 DEF Waiting, ch
<1>8. Waiting(q) => Waiting(q)' \/ q = k
  <2>1. SUFFICES ASSUME Waiting(q), q # k PROVE Waiting(q)' OBVIOUS
  <2>2. PICK j \in DOMAIN ch : ch[j].kind = q BY <2>1 DEF Waiting, ch
  <2>3. QED BY <1>5, <1>6, <2>1, <2>2 DEF Waiting
<1>9. Waiting(k) BY <1>6 DEF Waiting, ch
<1>10. QED BY <1>7, <1>8, <1>9

\* The channel is empty: nothing waits in it.
LEMMA NoneWaits == ASSUME controlCh = <<>> PROVE \A k : ~Waiting(k)
BY DEF Waiting

\* What a client has to send changes by its own steps only, and only Postpone
\* gives it a postponement to send, none a wake-up.
LEMMA ClientKinds ==
    ASSUME Typed, NEW c \in Clients, UserRequest(c) \/ ClientStep(c),
           NEW k \in {"postpone", "wake"}, k = "postpone" => k \notin Requests
    PROVE  \A x \in Clients : client'[x].kind = k => client[x].kind = k
<1>1. \/ client' = client
      \/ client' = [client EXCEPT ![c] = Idle]
      \/ \E p, q, d : /\ client' = [client EXCEPT ![c] = Sending(p, q, d)]
                      /\ q # k
  <2>0. "none" # k /\ "recalculate" # k /\ "skip" # k OBVIOUS
  <2>1. CASE ScheduleRequest(c) BY <2>0, <2>1, Zenon DEF ScheduleRequest
  <2>2. CASE DisableRequest(c)
    <3>1. \/ client' = client
          \/ client' = [client EXCEPT ![c] = Sending("disabled", "none", 0)]
          \/ client' = [client EXCEPT ![c] = Sending("stop", "none", 0)]
      BY <2>2, Zenon DEF DisableRequest
    <3>2. QED BY <2>0, <3>1, Zenon
  <2>3. CASE Skip(c) BY <2>0, <2>3, Zenon DEF Skip
  <2>4. CASE ScheduleCall(c) BY <2>0, <2>4, Zenon DEF ScheduleCall
  <2>5. CASE Send(c) BY <2>0, <2>5, Zenon DEF Send
  <2>6. CASE Start(c) BY <2>0, <2>6, Zenon DEF Start
  <2>7. CASE Stop(c) BY <2>0, <2>7, Zenon DEF Stop
  <2>8. CASE ReplyDisabled(c) BY <2>0, <2>8, Zenon DEF ReplyDisabled
  <2>9. CASE Postpone(c) /\ k # "postpone"
    BY <2>9, Zenon DEF Postpone
  <2>10. QED
    BY <2>1, <2>2, <2>3, <2>4, <2>5, <2>6, <2>7, <2>8, <2>9
       DEF UserRequest, ClientStep, Postpone
<1>2. QED BY <1>1 DEF Typed, Idle, Sending

-----------------------------------------------------------------------------
(* The expression in the file is served *)

\* A request is about to set a schedule or to start a runner for it, one is
\* about to stop the scheduler, there is a runner.
Serving == \E c \in Clients : client[c].at \in {"schedule", "send, start", "start"}
Stopping == \E c \in Clients : client[c].at = "stop"
SomeRunner == \E r \in Runners : Alive(r)

\* Until the scheduler is stopped, an expression in the file has a runner or
\* will have one, and without one there is none and will be none, unless the
\* stop is still to come.
Served ==
    ~stopped =>
        /\ cronFile = 0 => Stopping \/ (~Serving /\ ~SomeRunner)
        /\ cronFile # 0 => Serving \/ SomeRunner

ServedInv == Inv /\ Served

\* A step of a client that changes its own place only.
LEMMA ClientMoves ==
    ASSUME Typed, NEW c \in Clients, NEW p, NEW q, NEW d,
           client' = [client EXCEPT ![c] = Sending(p, q, d)]
    PROVE  /\ client'[c].at = p
           /\ \A x \in Clients \ {c} : client'[x] = client[x]
BY DEF Typed, Sending

LEMMA ClientDone ==
    ASSUME Typed, NEW c \in Clients, client' = [client EXCEPT ![c] = Idle]
    PROVE  /\ client'[c].at = "idle"
           /\ \A x \in Clients \ {c} : client'[x] = client[x]
BY DEF Typed, Idle

LEMMA ServedRequest ==
    ASSUME ServedInv, NEW c \in Clients, UserRequest(c) PROVE Served'
<1>1. Typed BY DEF ServedInv, Inv
<1>2. (SomeRunner' <=> SomeRunner) /\ stopped' = stopped
  BY DEF UserRequest, ScheduleRequest, DisableRequest, Postpone, Skip, SomeRunner, Alive
<1>3. client[c].at = "idle" BY DEF UserRequest, ScheduleRequest, DisableRequest, Postpone, Skip
<1> SUFFICES ASSUME ~stopped PROVE Served' BY <1>2 DEF Served
<1>4. Served /\ stopped' = stopped BY <1>2 DEF ServedInv
<1>5. CASE client' = client /\ cronFile' = cronFile
  BY <1>2, <1>4, <1>5 DEF Served, Serving, Stopping
<1>6. ASSUME NEW p \in {"send", "disabled"}, NEW q, NEW d,
             client' = [client EXCEPT ![c] = Sending(p, q, d)], cronFile' = cronFile
      PROVE  Served'
  <2>1. client'[c].at = p /\ \A x \in Clients \ {c} : client'[x] = client[x]
    BY <1>1, <1>6, ClientMoves
  <2>2. (Serving' <=> Serving) /\ (Stopping' <=> Stopping)
    BY <1>3, <2>1 DEF Serving, Stopping
  <2>3. QED BY <1>2, <1>4, <1>6, <2>2 DEF Served
<1>7. CASE ScheduleRequest(c)
  <2>1. PICK s \in Periods, saved \in SaveOutcomes :
           /\ SaveCron(s, saved)
           /\ client' = IF saved
                        THEN [client EXCEPT ![c] = Sending("schedule", "none", s)]
                        ELSE client
    BY <1>7 DEF ScheduleRequest
  <2>2. s # 0 /\ saved \in BOOLEAN BY ConstantsAssumption
  <2>3. CASE saved
    <3>1. client'[c].at = "schedule" BY <1>1, <2>1, <2>3, ClientMoves
    <3>2. Serving' BY <3>1 DEF Serving
    <3>3. cronFile' # 0 BY <2>1, <2>2, <2>3 DEF SaveCron
    <3>4. QED BY <3>2, <3>3 DEF Served
  <2>4. CASE ~saved BY <1>5, <2>1, <2>4 DEF SaveCron
  <2>5. QED BY <2>3, <2>4
<1>8. CASE DisableRequest(c)
  <2>1. CASE cron = 0
    BY <1>6, <1>8, <2>1 DEF DisableRequest, confVars
  <2>2. CASE cron # 0
    <3>1. PICK saved \in SaveOutcomes :
             /\ SaveCron(0, saved)
             /\ client' = IF saved
                          THEN [client EXCEPT ![c] = Sending("stop", "none", 0)]
                          ELSE client
      BY <1>8, <2>2 DEF DisableRequest
    <3>2. CASE saved
      <4>1. client'[c].at = "stop" BY <1>1, <3>1, <3>2, ClientMoves
      <4>2. Stopping' BY <4>1 DEF Stopping
      <4>3. cronFile' = 0 BY <3>1, <3>2 DEF SaveCron
      <4>4. QED BY <4>2, <4>3 DEF Served
    <3>3. CASE ~saved BY <1>5, <3>1, <3>3 DEF SaveCron
    <3>4. QED BY <3>2, <3>3
  <2>3. QED BY <2>1, <2>2
<1>9. CASE Postpone(c)
  BY <1>6, <1>9 DEF Postpone, confVars
<1>10. CASE Skip(c)
  <2>1. cronFile' = cronFile BY <1>10 DEF Skip, confVars
  <2>2. CASE running BY <1>6, <1>10, <2>1, <2>2 DEF Skip
  <2>3. CASE ~running BY <1>5, <1>10, <2>1, <2>3 DEF Skip
  <2>4. QED BY <2>2, <2>3
<1>11. QED BY <1>7, <1>8, <1>9, <1>10 DEF UserRequest

LEMMA ServedClient ==
    ASSUME ServedInv, NEW c \in Clients, ClientStep(c) PROVE Served'
<1>1. Typed /\ Served /\ RunningIsTrue BY DEF ServedInv, Inv
<1>2. cronFile' = cronFile
  BY DEF ClientStep, ScheduleCall, Send, Start, Stop, ReplyDisabled, confVars
<1>3. CASE Stop(c) BY <1>3 DEF Stop, Served
\* A request that serves goes on serving.
<1>4. ASSUME NEW p \in {"start", "send, start"}, NEW q, NEW d,
             client' = [client EXCEPT ![c] = Sending(p, q, d)],
             client[c].at \in {"schedule", "send, start"},
             UNCHANGED <<runner, stopped>>
      PROVE  Served'
  <2>1. client'[c].at = p /\ \A x \in Clients \ {c} : client'[x] = client[x]
    BY <1>1, <1>4, ClientMoves
  <2>2. Serving' /\ Serving BY <1>4, <2>1 DEF Serving
  <2>3. (Stopping' <=> Stopping) /\ (SomeRunner' <=> SomeRunner)
    BY <1>4, <2>1 DEF Stopping, SomeRunner, Alive
  <2>4. QED BY <1>1, <1>2, <1>4, <2>2, <2>3 DEF Served
<1>5. CASE ScheduleCall(c)
  BY <1>4, <1>5 DEF ScheduleCall
<1>6. ASSUME client' = [client EXCEPT ![c] = Idle],
             client[c].at \in {"send", "disabled"}, UNCHANGED <<runner, stopped>>
      PROVE  Served'
  <2>1. client'[c].at = "idle" /\ \A x \in Clients \ {c} : client'[x] = client[x]
    BY <1>1, <1>6, ClientDone
  <2>2. /\ (Serving' <=> Serving) /\ (Stopping' <=> Stopping)
        /\ (SomeRunner' <=> SomeRunner)
    BY <1>6, <2>1 DEF Serving, Stopping, SomeRunner, Alive
  <2>3. QED BY <1>1, <1>2, <1>6, <2>2 DEF Served
<1>7. CASE Send(c)
  <2>1. CASE client[c].at = "send" BY <1>6, <1>7, <2>1 DEF Send
  <2>2. CASE client[c].at = "send, start" BY <1>4, <1>7, <2>2 DEF Send
  <2>3. QED BY <1>7, <2>1, <2>2 DEF Send
<1>8. CASE ReplyDisabled(c) BY <1>6, <1>8 DEF ReplyDisabled
<1>9. CASE Start(c)
  <2>1. client' = [client EXCEPT ![c] = Idle] /\ client[c].at = "start" /\ stopped' = stopped
    BY <1>9 DEF Start
  <2>2. client'[c].at = "idle" /\ \A x \in Clients \ {c} : client'[x] = client[x]
    BY <1>1, <2>1, ClientDone
  <2>3. Serving BY <2>1 DEF Serving
  <2>4. Stopping' <=> Stopping BY <2>1, <2>2 DEF Stopping
  <2>5. ~stopped => SomeRunner'
    <3>1. CASE runner' = runner
      <4>1. CASE running
        BY <1>1, <3>1, <4>1 DEF RunningIsTrue, SomeRunner, Alive
      <4>2. CASE ~running
        <5>1. \E r \in Runners : runner[r].at = "none" /\ runner'[r].at = "snapshot"
          <6>1. PICK r \in Runners : runner[r].at = "none" /\ RunnerBecomes(r, AtTop)
            BY <1>9, <4>2 DEF Start, AlreadyRunning, RunnerBecomes
          <6>2. AtTop.at = "snapshot" BY AtTopType
          <6>3. runner'[r] = AtTop BY <1>1, <6>1, RunnerHas, Zenon
          <6>4. QED BY <6>1, <6>2, <6>3
        <5>2. QED BY <3>1, <5>1
      <4>3. QED BY <4>1, <4>2
    <3>2. CASE \E r \in Runners : runner'[r].at = "snapshot"
      BY <3>2 DEF SomeRunner, Alive
    <3>3. QED BY <1>1, <1>9, <3>1, <3>2, StartedRunner
  <2>6. QED BY <1>1, <1>2, <2>1, <2>3, <2>4, <2>5 DEF Served
<1>10. QED BY <1>3, <1>5, <1>7, <1>8, <1>9 DEF ClientStep

LEMMA ServedRunner ==
    ASSUME ServedInv, NEW r \in Runners, RunnerStep(r) PROVE Served'
<1>1. Typed /\ Served /\ ExitsAfterStop BY DEF ServedInv, Inv
<1>2. UNCHANGED <<cronFile, stopped, client>>
  BY DEF RunnerStep, TakeSnapshot, TimerNotifies, TimerRuns, PreCheckPasses, PreCheckFails,
         AdvanceNextRun, ControlRecalculate, ControlPostpone, ControlSkip, ControlWake,
         SelectStop, Exit, Receives, confVars
<1>3. CASE SelectStop(r) \/ Exit(r)
  <2>1. stopped' BY <1>1, <1>2, <1>3 DEF SelectStop, Exit, ExitsAfterStop
  <2>2. QED BY <2>1 DEF Served
<1>4. CASE ~(SelectStop(r) \/ Exit(r))
  <2>1. Alive(r)
    BY <1>4 DEF RunnerStep, TakeSnapshot, TimerNotifies, TimerRuns, PreCheckPasses,
                PreCheckFails, AdvanceNextRun, ControlRecalculate, ControlPostpone,
                ControlSkip, ControlWake, Receives, Alive
  <2>2. runner'[r].at \notin {"none", "exit"}
    <3>1. CASE TakeSnapshot(r) BY <1>1, <3>1, SnapshotTaken
    <3>2. CASE TimerNotifies(r) BY <1>1, <3>2, Notified
    <3>3. CASE TimerRuns(r) BY <1>1, <3>3, RunComes
    <3>4. CASE PreCheckPasses(r) BY <1>1, <3>4, Prechecked
    <3>5. CASE PreCheckFails(r) BY <1>1, <3>5, PrecheckFailed
    <3>6. CASE AdvanceNextRun(r) \/ ControlRecalculate(r) \/ ControlSkip(r)
      BY <1>1, <3>6, LoopsAgain
    <3>7. CASE ControlPostpone(r) BY <1>1, <3>7, HeldBack
    <3>8. CASE ControlWake(r) BY <1>1, <3>8, WokenUp
    <3>9. QED BY <1>4, <3>1, <3>2, <3>3, <3>4, <3>5, <3>6, <3>7, <3>8 DEF RunnerStep
  <2>3. SomeRunner /\ SomeRunner' BY <2>1, <2>2 DEF SomeRunner, Alive
  <2>4. QED BY <1>1, <1>2, <2>3 DEF Served, Serving, Stopping
<1>5. QED BY <1>3, <1>4

LEMMA ServedOthers ==
    ASSUME ServedInv, HandleWakeUp \/ Tick \/ SystemSleeps \/ Restart PROVE Served'
<1>1. Typed /\ Served BY DEF ServedInv, Inv
<1>2. CASE HandleWakeUp \/ SystemSleeps
  BY <1>1, <1>2 DEF HandleWakeUp, SystemSleeps, Served, Serving, Stopping, SomeRunner, Alive,
                    confVars
<1>3. CASE Tick
  <2>1. \A r \in Runners : runner'[r].at = runner[r].at BY <1>1, <1>3, Ticked
  <2>2. UNCHANGED <<cronFile, stopped, client>> BY <1>3 DEF Tick, confVars
  <2>3. SomeRunner' <=> SomeRunner BY <2>1 DEF SomeRunner, Alive
  <2>4. QED BY <1>1, <2>2, <2>3 DEF Served, Serving, Stopping
<1>4. CASE Restart
  <2>1. PICK first \in Runners : \A r \in Runners :
           runner'[r].at = IF cronFile # 0 /\ r = first THEN "snapshot" ELSE "none"
    BY <1>4, FreshRunnersType DEF Restart
  <2>2. SomeRunner' <=> cronFile # 0 BY <2>1 DEF SomeRunner, Alive
  <2>3. ~Serving' BY <1>4 DEF Restart, Serving, Idle
  <2>4. cronFile' = cronFile BY <1>4 DEF Restart
  <2>5. QED BY <2>2, <2>3, <2>4 DEF Served
<1>5. QED BY <1>2, <1>3, <1>4

LEMMA ServedInit == Init => ServedInv
<1> SUFFICES ASSUME Init PROVE ServedInv OBVIOUS
<1>1. PICK first \in Runners : \A r \in Runners :
         runner[r].at = IF cron # 0 /\ r = first THEN "snapshot" ELSE "none"
  BY FreshRunnersType DEF Init
<1>2. SomeRunner <=> cronFile # 0 BY <1>1 DEF SomeRunner, Alive, Init
<1>3. ~Serving BY DEF Init, Serving, Idle
<1>4. QED BY <1>2, <1>3, InitInv DEF ServedInv, Served

LEMMA ServedNext == ASSUME ServedInv, [Next]_vars PROVE ServedInv'
<1>1. Inv' BY NextInv DEF ServedInv
<1>2. CASE UNCHANGED vars
  BY <1>2 DEF vars, ServedInv, Served, Serving, Stopping, SomeRunner, Alive, Inv, Typed,
     Scalars, Channel, RunningIsTrue, ExitsAfterStop
<1>3. CASE Next
  <2>1. Served'
    BY <1>3, ServedRequest, ServedClient, ServedRunner, ServedOthers DEF Next
  <2>2. QED BY <1>1, <2>1 DEF ServedInv
<1>4. QED BY <1>2, <1>3

\* When nothing is under way, memory and file agree and the scheduler has not
\* been stopped, there is a runner exactly when there is an expression, whatever
\* requests, failed saves, stops and restarts came before (calibration.go:564,
\* 587; scheduler.go:98-104).
THEOREM ExpressionServed == Spec => []ExpressionIsServed
<1>1. ServedInv => ExpressionIsServed
  <2> SUFFICES ASSUME ServedInv, Quiet, cron = cronFile, ~stopped
               PROVE  cron # 0 <=> SomeRunner
    BY DEF ExpressionIsServed, SomeRunner
  <2>1. ~Serving /\ ~Stopping BY DEF Quiet, Serving, Stopping
  <2>2. QED BY <2>1 DEF ServedInv, Served
<1>2. QED BY <1>1, ServedInit, ServedNext, PTL DEF Spec

-----------------------------------------------------------------------------
(* Runs keep time when nobody postpones *)

\* A runner that waits for its run, or has come to it, is late enough for it
\* and for its notice.  The notice is for the run itself, unless the run was
\* overdue already.
OnTime(me) ==
    /\ me.at = "select" /\ ~me.leading =>
          /\ me.timer # Off => now + me.timer >= me.nextRun /\ now + me.timer >= me.announced
          /\ \/ me.announced <= me.nextRun
             \/ me.nextRun <= now /\ me.announced <= now + OverdueDelay
    /\ me.at = "precheck" => me.nextRun <= now /\ me.announced <= now

KeepInv ==
    /\ Inv /\ NoMessage("postpone")
    /\ \A r \in Runners : OnTime(runner[r])

\* Only a tick and the machine's sleep move the clock.
LEMMA ClockStands ==
    ASSUME [Next]_vars PROVE now' = now \/ Tick \/ SystemSleeps
<1>1. ASSUME NEW c \in Clients, UserRequest(c) \/ ClientStep(c) PROVE now' = now
  BY <1>1 DEF UserRequest, ScheduleRequest, DisableRequest, Postpone, Skip, ClientStep,
              ScheduleCall, Send, Start, Stop, ReplyDisabled
<1>2. ASSUME NEW r \in Runners, RunnerStep(r) PROVE now' = now
  BY <1>2 DEF RunnerStep, TakeSnapshot, TimerNotifies, TimerRuns, PreCheckPasses,
              PreCheckFails, AdvanceNextRun, ControlRecalculate, ControlPostpone,
              ControlSkip, ControlWake, SelectStop, Exit, Receives
<1>3. CASE HandleWakeUp \/ Restart BY <1>3 DEF HandleWakeUp, Restart
<1>4. QED BY <1>1, <1>2, <1>3 DEF Next, vars

\* The clock does not go back.
LEMMA ClockGoesOn ==
    ASSUME Typed, [Next]_vars
    PROVE  now \in Nat /\ now' \in Nat /\ now' >= now
<1>1. now \in Nat BY DEF Typed, Scalars
<1>2. CASE now' = now BY <1>1, <1>2
<1>3. CASE Tick BY <1>1, <1>3 DEF Tick
<1>4. CASE SystemSleeps BY <1>1, <1>4, ConstantsAssumption DEF SystemSleeps
<1>5. QED BY <1>1, <1>2, <1>3, <1>4, ClockStands

\* Every step but a message of the runner leaves the runners' loops where they
\* are, or at the beginning.
LEMMA RunnersElsewhere ==
    ASSUME Typed, NEW r \in Runners,
           \/ \E c \in Clients : UserRequest(c) \/ ClientStep(c)
           \/ HandleWakeUp \/ SystemSleeps \/ Restart
           \/ \E s \in Runners \ {r} : RunnerStep(s)
    PROVE  \/ runner'[r] = runner[r]
           \/ runner'[r].at \in {"snapshot", "none"}
<1>1. CASE \E s \in Runners \ {r} : RunnerStep(s) BY <1>1, OthersStay
<1>2. CASE HandleWakeUp \/ SystemSleeps BY <1>2 DEF HandleWakeUp, SystemSleeps
<1>3. CASE Restart BY <1>3, Restarted
<1>4. ASSUME NEW c \in Clients, UserRequest(c) \/ ClientStep(c)
      PROVE  runner'[r] = runner[r] \/ runner'[r].at \in {"snapshot", "none"}
  <2>1. CASE Start(c) BY <2>1, StartedRunner
  <2>2. CASE ~Start(c)
    <3>1. runner' = runner BY <1>4, <2>2, ClientsLeaveRunners DEF ClientStep
    <3>2. QED BY <3>1
  <2>3. QED BY <2>1, <2>2
<1>5. QED BY <1>1, <1>2, <1>3, <1>4

\* When nobody postpones, or the machine's wake-ups go unnoticed, there is no
\* such message and will be none.
LEMMA NoMessageStays ==
    ASSUME Typed, NEW k \in {"postpone", "wake"}, k = "postpone" => k \notin Requests,
           k = "wake" => ~wakeOwed, NoMessage(k), [Next]_vars
    PROVE  NoMessage(k)'
<1>1. k \in Kinds /\ "wake" \in Kinds BY DEF Kinds
<1>2. CASE UNCHANGED vars BY <1>2 DEF vars, NoMessage, Waiting
<1>3. ASSUME NEW c \in Clients, UserRequest(c) \/ ClientStep(c) PROVE NoMessage(k)'
  <2>1. \A x \in Clients : client'[x].kind # k
    BY <1>3, ClientKinds DEF NoMessage
  <2>2. CASE Send(c)
    <3> DEFINE q == client[c].kind
               d == client[c].data
    <3>1. q \in Kinds /\ d \in Nat /\ TrySend(q, d) /\ q # k
      BY <2>2 DEF Send, Typed, ClientRecord, NoMessage
    <3> HIDE DEF q, d
    <3>2. Waiting(k)' => Waiting(k) BY <1>1, <3>1, Sent
    <3>3. QED BY <2>1, <3>2 DEF NoMessage
  <2>3. CASE ~Send(c)
    <3>1. controlCh' = controlCh
      BY <1>3, <2>3 DEF UserRequest, ScheduleRequest, DisableRequest, Postpone, Skip,
                        ClientStep, ScheduleCall, Start, Stop, ReplyDisabled
    <3>2. QED BY <2>1, <3>1 DEF NoMessage, Waiting
  <2>4. QED BY <2>2, <2>3
<1>4. ASSUME NEW r \in Runners, RunnerStep(r) PROVE NoMessage(k)'
  <2>1. client' = client
    BY <1>4 DEF RunnerStep, TakeSnapshot, TimerNotifies, TimerRuns, PreCheckPasses,
                PreCheckFails, AdvanceNextRun, ControlRecalculate, ControlPostpone,
                ControlSkip, ControlWake, SelectStop, Exit, Receives
  <2>2. CASE \E q \in Kinds : Receives(r, q)
    <3>1. Waiting(k)' => Waiting(k) BY <1>1, <2>2, Received
    <3>2. QED BY <2>1, <3>1 DEF NoMessage
  <2>3. CASE ~(\E q \in Kinds : Receives(r, q))
    <3>1. controlCh' = controlCh
      BY <1>4, <2>3 DEF Kinds, RunnerStep, TakeSnapshot, TimerNotifies, TimerRuns,
                PreCheckPasses, PreCheckFails, AdvanceNextRun, ControlRecalculate,
                ControlPostpone, ControlSkip, ControlWake, SelectStop, Exit
    <3>2. QED BY <2>1, <3>1 DEF NoMessage, Waiting
  <2>4. QED BY <2>2, <2>3
<1>5. CASE HandleWakeUp
  <2>1. TrySend("wake", 0) /\ client' = client /\ k # "wake" BY <1>5 DEF HandleWakeUp
  <2>2. Waiting(k)' => Waiting(k) BY <1>1, <2>1, Sent
  <2>3. QED BY <2>1, <2>2 DEF NoMessage
<1>6. CASE Tick \/ SystemSleeps
  BY <1>6 DEF Tick, SystemSleeps, NoMessage, Waiting
<1>7. CASE Restart
  BY <1>7 DEF Restart, NoMessage, Waiting, Idle
<1>8. QED BY <1>2, <1>3, <1>4, <1>5, <1>6, <1>7 DEF Next

LEMMA KeepInit == Init => KeepInv
<1> SUFFICES ASSUME Init PROVE KeepInv OBVIOUS
<1>1. NoMessage("postpone") BY DEF Init, NoMessage, Waiting, Idle
<1>2. \A r \in Runners : runner[r].at \in {"snapshot", "none"}
  BY FreshRunnersType DEF Init
<1>3. QED BY <1>1, <1>2, InitInv DEF KeepInv, OnTime

\* The runner that takes a step stays on time.
LEMMA StepOnTime ==
    ASSUME KeepInv, NEW r \in Runners, RunnerStep(r) PROVE OnTime(runner[r])'
<1>1. Typed /\ OnTime(runner[r]) /\ ~Waiting("postpone") BY DEF KeepInv, Inv, NoMessage
<1> DEFINE me == runner[r]
<1>2. /\ me.nextRun \in Nat /\ me.announced \in Nat /\ me.timer \in Nat \cup {Off}
      /\ now \in Nat /\ OverdueDelay \in Nat \ {0} /\ RetryDelay \in Nat
  BY <1>1, RunnerFields, ConstantsAssumption DEF Typed, Scalars
<1>3. now' = now
  BY DEF RunnerStep, TakeSnapshot, TimerNotifies, TimerRuns, PreCheckPasses,
         PreCheckFails, AdvanceNextRun, ControlRecalculate, ControlPostpone,
         ControlSkip, ControlWake, SelectStop, Exit, Receives
<1> DEFINE new == runner'[r]
<1>4. CASE TakeSnapshot(r)
  <2>1. new.at = "select" /\ new.leading BY <1>1, <1>4, SnapshotTaken
  <2>2. QED BY <2>1 DEF OnTime
<1>5. CASE TimerNotifies(r)
  <2> DEFINE wait == IF me.nextRun <= now THEN OverdueDelay ELSE me.nextRun - now
  <2>1. /\ new.at = "select" /\ new.timer = wait /\ new.announced = now + wait
        /\ new.nextRun = me.nextRun
    BY <1>1, <1>5, Notified
  <2>2. wait \in Nat /\ now + wait >= me.nextRun
        /\ (now + wait <= me.nextRun \/ (me.nextRun <= now /\ wait = OverdueDelay))
    BY <1>2
  <2> HIDE DEF wait
  <2>3. QED BY <1>2, <1>3, <2>1, <2>2 DEF OnTime
<1>6. CASE TimerRuns(r)
  <2>1. /\ me.at = "select" /\ me.timer = 0 /\ ~me.leading
        /\ new.at = "precheck" /\ new.announced = me.announced /\ new.nextRun = me.nextRun
    BY <1>1, <1>6, RunComes
  <2>2. 0 # Off /\ now + 0 = now BY <1>2 DEF Off
  <2>3. now >= me.nextRun /\ now >= me.announced BY <1>1, <2>1, <2>2 DEF OnTime
  <2>4. QED BY <1>2, <1>3, <2>1, <2>3 DEF OnTime
<1>7. CASE PreCheckPasses(r)
  <2>1. new.at = "started" BY <1>1, <1>7, Prechecked
  <2>2. QED BY <2>1 DEF OnTime
<1>8. CASE PreCheckFails(r)
  <2>1. /\ me.at = "precheck"
        /\ (new.at = "select" /\ new.timer = RetryDelay) \/ new.at = "given up"
        /\ new.announced = me.announced /\ new.nextRun = me.nextRun
    BY <1>1, <1>8, PrecheckFailed
  <2>2. me.nextRun <= now /\ me.announced <= now BY <1>1, <2>1 DEF OnTime
  <2>3. CASE new.at = "given up" BY <2>3 DEF OnTime
  <2>4. CASE new.at = "select" /\ new.timer = RetryDelay
    <3>1. now + RetryDelay >= me.nextRun /\ now + RetryDelay >= me.announced
      BY <1>2, <2>2
    <3>2. me.announced <= now + OverdueDelay BY <1>2, <2>2
    <3>3. QED BY <1>3, <2>1, <2>2, <2>4, <3>1, <3>2 DEF OnTime
  <2>5. QED BY <2>1, <2>3, <2>4
<1>9. CASE AdvanceNextRun(r) \/ ControlRecalculate(r) \/ ControlSkip(r)
  <2>1. new.at = "snapshot" BY <1>1, <1>9, LoopsAgain
  <2>2. QED BY <2>1 DEF OnTime
<1>10. CASE ControlPostpone(r)
  <2>1. Waiting("postpone") BY <1>1, <1>10, Received DEF ControlPostpone, Kinds
  <2>2. QED BY <1>1, <2>1
<1>11. CASE ControlWake(r)
  <2>1. /\ me.at = "select" /\ new.at = "select"
        /\ new.timer = WakeTimer(me) /\ new.leading = me.leading
        /\ new.announced = me.announced /\ new.nextRun = me.nextRun
    BY <1>1, <1>11, WokenUp
  <2>2. ~me.leading => \/ WakeTimer(me) = Off
                       \/ me.nextRun <= now /\ WakeTimer(me) = OverdueDelay
                       \/ me.nextRun > now /\ WakeTimer(me) = me.nextRun - now
    BY <1>2 DEF WakeTimer
  <2>3. QED BY <1>1, <1>2, <1>3, <2>1, <2>2 DEF OnTime
<1>12. CASE SelectStop(r) \/ Exit(r)
  <2>1. new.at \in {"exit", "none"} BY <1>1, <1>12, Leaves
  <2>2. QED BY <2>1 DEF OnTime
<1>13. QED
  BY <1>4, <1>5, <1>6, <1>7, <1>8, <1>9, <1>10, <1>11, <1>12 DEF RunnerStep

LEMMA KeepNext ==
    ASSUME KeepInv, "postpone" \notin Requests, [Next]_vars PROVE KeepInv'
<1>1. Inv' /\ Typed BY NextInv DEF KeepInv, Inv
<1>2. NoMessage("postpone")' BY <1>1, NoMessageStays DEF KeepInv
<1>3. now \in Nat /\ now' \in Nat /\ now' >= now BY <1>1, ClockGoesOn
<1>4. ASSUME NEW r \in Runners PROVE OnTime(runner[r])'
  <2>1. OnTime(runner[r]) BY DEF KeepInv
  <2>2. /\ runner[r].nextRun \in Nat /\ runner[r].announced \in Nat
        /\ runner[r].timer \in Nat \cup {Off} /\ OverdueDelay \in Nat
    BY <1>1, RunnerFields, Numbers
  <2>3. CASE runner'[r] = runner[r] BY <1>3, <2>1, <2>2, <2>3 DEF OnTime, Off
  <2>4. CASE runner'[r].at \in {"snapshot", "none"} BY <2>4 DEF OnTime
  <2>5. CASE RunnerStep(r) BY <2>5, StepOnTime
  <2>6. CASE Tick
    <3>1. /\ runner'[r].timer = IF runner[r].timer > 0 THEN runner[r].timer - 1
                                ELSE runner[r].timer
          /\ runner'[r].at = runner[r].at /\ runner'[r].leading = runner[r].leading
          /\ runner'[r].announced = runner[r].announced
          /\ runner'[r].nextRun = runner[r].nextRun
      BY <1>1, <2>6, Ticked
    <3>2. now' = now + 1 BY <2>6 DEF Tick
    <3>3. QED BY <1>3, <2>1, <2>2, <3>1, <3>2 DEF OnTime, Off
  <2>7. CASE UNCHANGED vars BY <2>3, <2>7 DEF vars
  <2>8. QED
    BY <1>1, <2>3, <2>4, <2>5, <2>6, <2>7, RunnersElsewhere DEF Next
<1>5. QED BY <1>1, <1>2, <1>4 DEF KeepInv

\* As long as nobody postpones, no run starts before it is due and none before
\* the time its notice gave, however the clock, sleep, wake-ups, prechecks and
\* changes of the schedule fall together (scheduler.go:196-219, 275, 296).  With
\* postponements it is false: one that was meant for an earlier run may be
\* delivered when the runner waits for the next.
THEOREM RunsKeepTheirTime ==
    ASSUME "postpone" \notin Requests PROVE Spec => RunsKeepTime
<1>1. KeepInv /\ [Next]_vars => KeepInv' BY KeepNext
<1>2. KeepInv /\ [Next]_vars
        => [\A r \in Runners : Starting(r) => runner[r].nextRun <= now]_vars
  BY DEF KeepInv, OnTime, Starting
<1>3. KeepInv /\ [Next]_vars
        => [\A r \in Runners : Starting(r) => runner[r].announced <= now]_vars
  BY DEF KeepInv, OnTime, Starting
<1>4. Spec => RunsAreDue BY <1>1, <1>2, KeepInit, PTL DEF Spec, RunsAreDue
<1>5. Spec => NoticeKept BY <1>1, <1>3, KeepInit, PTL DEF Spec, NoticeKept
<1>6. QED BY <1>4, <1>5 DEF RunsKeepTime

-----------------------------------------------------------------------------
(* Postponed runs wait when wake-ups go unnoticed *)

\* A runner that waits for the notice or for its run, or has come to it, is
\* late enough for the time it has been held to.
Waits(me) ==
    /\ me.at = "select" /\ me.timer # Off => now + me.timer >= me.held
    /\ me.at = "precheck" => now >= me.held

HeldInv ==
    /\ Inv /\ NoMessage("wake") /\ ~wakeOwed
    /\ \A r \in Runners : Waits(runner[r])

LEMMA HeldInit == Init => HeldInv
<1> SUFFICES ASSUME Init PROVE HeldInv OBVIOUS
<1>1. NoMessage("wake") /\ ~wakeOwed BY DEF Init, NoMessage, Waiting, Idle
<1>2. \A r \in Runners : runner[r].at \in {"snapshot", "none"}
  BY FreshRunnersType DEF Init
<1>3. QED BY <1>1, <1>2, InitInv DEF HeldInv, Waits

LEMMA StepWaits ==
    ASSUME HeldInv, NEW r \in Runners, RunnerStep(r) PROVE Waits(runner[r])'
<1>1. Typed /\ Waits(runner[r]) /\ ~Waiting("wake") BY DEF HeldInv, Inv, NoMessage
<1> DEFINE me == runner[r]
           new == runner'[r]
<1>2. /\ me.nextRun \in Nat /\ me.held \in Nat /\ me.timer \in Nat \cup {Off}
      /\ now \in Nat /\ OverdueDelay \in Nat \ {0} /\ RetryDelay \in Nat
  BY <1>1, RunnerFields, ConstantsAssumption DEF Typed, Scalars
<1>3. now' = now
  BY DEF RunnerStep, TakeSnapshot, TimerNotifies, TimerRuns, PreCheckPasses,
         PreCheckFails, AdvanceNextRun, ControlRecalculate, ControlPostpone,
         ControlSkip, ControlWake, SelectStop, Exit, Receives
<1>4. 0 # Off /\ now + 0 = now BY <1>2 DEF Off
<1>5. CASE TakeSnapshot(r)
  <2>1. new.at = "select" /\ new.held = now BY <1>1, <1>5, SnapshotTaken
  <2>2. new.timer # Off => now + new.timer >= now
    <3>1. runner'[r] = Snapshot BY <1>1, <1>5, RunnerHas DEF TakeSnapshot
    <3>2. new.timer \in Nat \cup {Off} BY <1>1, <3>1, SnapshotType DEF RunnerRecord
    <3>3. QED BY <1>2, <3>2
  <2>3. QED BY <1>3, <2>1, <2>2 DEF Waits
<1>6. CASE TimerNotifies(r)
  <2> DEFINE wait == IF me.nextRun <= now THEN OverdueDelay ELSE me.nextRun - now
  <2>1. /\ me.at = "select" /\ me.timer = 0
        /\ new.at = "select" /\ new.timer = wait /\ new.held = me.held
    BY <1>1, <1>6, Notified
  <2>2. now >= me.held BY <1>1, <1>4, <2>1 DEF Waits
  <2>3. wait \in Nat BY <1>2
  <2> HIDE DEF wait
  <2>4. now + wait >= me.held BY <1>2, <2>2, <2>3
  <2>5. QED BY <1>3, <2>1, <2>4 DEF Waits
<1>7. CASE TimerRuns(r)
  <2>1. /\ me.at = "select" /\ me.timer = 0
        /\ new.at = "precheck" /\ new.held = me.held
    BY <1>1, <1>7, RunComes
  <2>2. now >= me.held BY <1>1, <1>4, <2>1 DEF Waits
  <2>3. QED BY <1>3, <2>1, <2>2 DEF Waits
<1>8. CASE PreCheckPasses(r)
  <2>1. new.at = "started" BY <1>1, <1>8, Prechecked
  <2>2. QED BY <2>1 DEF Waits
<1>9. CASE PreCheckFails(r)
  <2>1. /\ me.at = "precheck"
        /\ (new.at = "select" /\ new.timer = RetryDelay) \/ new.at = "given up"
        /\ new.held = me.held
    BY <1>1, <1>9, PrecheckFailed
  <2>2. now >= me.held BY <1>1, <2>1 DEF Waits
  <2>3. now + RetryDelay >= me.held BY <1>2, <2>2
  <2>4. QED BY <1>3, <2>1, <2>3 DEF Waits
<1>10. CASE AdvanceNextRun(r) \/ ControlRecalculate(r) \/ ControlSkip(r)
  <2>1. new.at = "snapshot" BY <1>1, <1>10, LoopsAgain
  <2>2. QED BY <2>1 DEF Waits
<1>11. CASE ControlPostpone(r)
  <2>1. new.at = "select" /\ new.held = now + new.timer BY <1>1, <1>11, HeldBack
  <2>2. new.timer \in Int BY <1>1, <1>2, <1>11, HeldBack DEF TimerFor
  <2>3. QED BY <1>2, <1>3, <2>1, <2>2 DEF Waits
<1>12. CASE ControlWake(r)
  <2>1. Waiting("wake") BY <1>1, <1>12, Received DEF ControlWake, Kinds
  <2>2. QED BY <1>1, <2>1
<1>13. CASE SelectStop(r) \/ Exit(r)
  <2>1. new.at \in {"exit", "none"} BY <1>1, <1>13, Leaves
  <2>2. QED BY <2>1 DEF Waits
<1>14. QED
  BY <1>5, <1>6, <1>7, <1>8, <1>9, <1>10, <1>11, <1>12, <1>13 DEF RunnerStep

\* Without the sleep hooks, or without sleep, no wake-up is ever owed.
LEMMA NoWakeOwed ==
    ASSUME WakeHook = FALSE \/ SleepLengths = {}, ~wakeOwed, [Next]_vars
    PROVE  ~wakeOwed'
<1>1. ASSUME NEW c \in Clients, UserRequest(c) \/ ClientStep(c) PROVE wakeOwed' = wakeOwed
  BY <1>1 DEF UserRequest, ScheduleRequest, DisableRequest, Postpone, Skip, ClientStep,
              ScheduleCall, Send, Start, Stop, ReplyDisabled
<1>2. ASSUME NEW r \in Runners, RunnerStep(r) PROVE wakeOwed' = wakeOwed
  BY <1>2 DEF RunnerStep, TakeSnapshot, TimerNotifies, TimerRuns, PreCheckPasses,
              PreCheckFails, AdvanceNextRun, ControlRecalculate, ControlPostpone,
              ControlSkip, ControlWake, SelectStop, Exit, Receives
<1>3. CASE HandleWakeUp \/ Tick \/ SystemSleeps \/ Restart
  BY <1>3 DEF HandleWakeUp, Tick, SystemSleeps, Restart
<1>4. QED BY <1>1, <1>2, <1>3 DEF Next, vars

LEMMA HeldNext == ASSUME HeldInv, WakeHook = FALSE, [Next]_vars PROVE HeldInv'
<1>1. Inv' /\ Typed BY NextInv DEF HeldInv, Inv
<1>2. NoMessage("wake")' /\ ~wakeOwed' BY <1>1, NoMessageStays, NoWakeOwed DEF HeldInv
<1>3. now \in Nat /\ now' \in Nat /\ now' >= now BY <1>1, ClockGoesOn
<1>4. ASSUME NEW r \in Runners PROVE Waits(runner[r])'
  <2>1. Waits(runner[r]) BY DEF HeldInv
  <2>2. runner[r].held \in Nat /\ runner[r].timer \in Nat \cup {Off}
    BY <1>1, RunnerFields
  <2>3. CASE runner'[r] = runner[r] BY <1>3, <2>1, <2>2, <2>3 DEF Waits, Off
  <2>4. CASE runner'[r].at \in {"snapshot", "none"} BY <2>4 DEF Waits
  <2>5. CASE RunnerStep(r) BY <2>5, StepWaits
  <2>6. CASE Tick
    <3>1. /\ runner'[r].timer = IF runner[r].timer > 0 THEN runner[r].timer - 1
                                ELSE runner[r].timer
          /\ runner'[r].at = runner[r].at /\ runner'[r].held = runner[r].held
      BY <1>1, <2>6, Ticked
    <3>2. now' = now + 1 BY <2>6 DEF Tick
    <3>3. QED BY <1>3, <2>1, <2>2, <3>1, <3>2 DEF Waits, Off
  <2>7. CASE UNCHANGED vars BY <2>3, <2>7 DEF vars
  <2>8. QED
    BY <1>1, <2>3, <2>4, <2>5, <2>6, <2>7, RunnersElsewhere DEF Next
<1>5. QED BY <1>1, <1>2, <1>4 DEF HeldInv

\* With firmware control the daemon installs no sleep hooks, and a run that has
\* been postponed does not start before then, whatever schedules, skips,
\* prechecks, sleep and restarts come in between (README.md:271,
\* scheduler.go:275).  With legacy control a wake-up sets the timer back to the
\* run's own time.
THEOREM PostponedRunsWaitAwake ==
    ASSUME WakeHook = FALSE PROVE Spec => PostponedRunsWait
<1>1. HeldInv /\ [Next]_vars => HeldInv' BY HeldNext
<1>2. HeldInv /\ [Next]_vars
        => [\A r \in Runners : Starting(r) => now >= runner[r].held]_vars
  BY DEF HeldInv, Waits, Starting
<1>3. QED BY <1>1, <1>2, HeldInit, PTL DEF Spec, PostponedRunsWait

-----------------------------------------------------------------------------
(* Runs are given up in time *)

\* The next run of a schedule is later.
LEMMA NextAfterIsLater ==
    ASSUME NEW s \in Periods, NEW t \in Nat
    PROVE  NextAfter(s, t) \in Nat /\ NextAfter(s, t) > t
<1> DEFINE q == t \div s
           m == t % s
<1>1. s \in Nat /\ s > 0 BY ConstantsAssumption
<1>2. q \in Nat /\ m \in Nat /\ m < s BY <1>1
<1>3. t = q * s + m BY <1>1
<1>4. NextAfter(s, t) = (q + 1) * s BY DEF NextAfter
<1> HIDE DEF q, m
<1>5. q * s \in Nat BY <1>1, <1>2
<1>6. (q + 1) * s = q * s + s BY <1>1, <1>2
<1>7. QED BY <1>1, <1>2, <1>3, <1>4, <1>5, <1>6

\* A scheduler with a schedule has a next run, and there is one wherever a runner
\* runs or a request is about to start one.
Provided ==
    /\ schedule # 0 => nextRun # 0
    /\ running => schedule # 0
    /\ \A c \in Clients : client[c].at \in {"start", "send, start"} => schedule # 0
    /\ \A r \in Runners : runner[r].at # "none" => schedule # 0

LEMMA ProvidedInit == ASSUME Init PROVE Provided
<1>1. cron \in Periods \cup {0} /\ schedule = cron /\ nextRun = FreshNextRun(cron, 0)
  BY DEF Init
<1>2. schedule # 0 => nextRun # 0 BY <1>1, NextAfterIsLater DEF FreshNextRun
<1>3. running => schedule # 0 BY DEF Init
<1>4. \A c \in Clients : client[c].at = "idle" BY DEF Init, Idle
<1>5. \A r \in Runners : runner[r].at # "none" => schedule # 0
  <2>1. runner = FreshRunners(cron) BY DEF Init
  <2>2. QED BY <1>1, <2>1, FreshRunnersType
<1>6. QED BY <1>2, <1>3, <1>4, <1>5 DEF Provided

\* A schedule stays until a restart.
LEMMA ScheduleStays ==
    ASSUME Typed, Provided, schedule # 0, [Next]_vars, ~Restart
    PROVE  schedule' # 0 /\ nextRun' # 0
<1>1. /\ nextRun # 0 /\ nextRun \in Nat /\ now \in Nat /\ schedule \in Periods
      /\ \A s \in Periods : s # 0
  BY ConstantsAssumption DEF Provided, Typed, Scalars
<1>2. \A s \in Periods, t \in Nat : NextAfter(s, t) # 0 BY NextAfterIsLater
<1>3. ASSUME NEW c \in Clients, UserRequest(c) \/ ClientStep(c)
      PROVE  schedule' # 0 /\ nextRun' # 0
  <2>1. CASE Skip(c) BY <1>1, <1>2, <2>1 DEF Skip
  <2>2. CASE ScheduleCall(c)
    <3>1. client[c].data \in Periods BY <2>2 DEF ScheduleCall, Typed, ClientRecord
    <3>2. QED BY <1>1, <1>2, <2>2, <3>1 DEF ScheduleCall, sharedVars
  <2>3. QED
    BY <1>1, <1>3, <2>1, <2>2
       DEF UserRequest, ScheduleRequest, DisableRequest, Postpone, ClientStep, Send,
           Start, Stop, ReplyDisabled, sharedVars
<1>4. ASSUME NEW r \in Runners, RunnerStep(r) PROVE schedule' # 0 /\ nextRun' # 0
  <2>1. CASE ControlRecalculate(r)
    <3>1. Receives(r, "recalculate") BY <2>1 DEF ControlRecalculate
    <3>2. Head(controlCh) \in MessageRecord BY <3>1, ReceiveType DEF Kinds
    <3>3. Head(controlCh).data \in Periods BY <3>1, <3>2 DEF Receives, MessageRecord
    <3>4. QED BY <1>1, <1>2, <2>1, <3>3 DEF ControlRecalculate
  <2>2. CASE AdvanceNextRun(r) BY <1>1, <1>2, <2>2 DEF AdvanceNextRun, Advanced
  <2>3. QED
    BY <1>1, <1>4, <2>1, <2>2
       DEF RunnerStep, TakeSnapshot, TimerNotifies, TimerRuns, PreCheckPasses,
           PreCheckFails, ControlPostpone, ControlSkip, ControlWake, SelectStop, Exit,
           sharedVars
<1>5. CASE HandleWakeUp \/ Tick \/ SystemSleeps \/ UNCHANGED vars
  BY <1>1, <1>5 DEF HandleWakeUp, Tick, SystemSleeps, vars, sharedVars
<1>6. QED BY <1>3, <1>4, <1>5 DEF Next

\* And without one nothing runs, until a request sets one.
LEMMA ScheduleComes ==
    ASSUME Typed, Provided, schedule = 0, [Next]_vars, ~Restart
    PROVE  Provided'
<1>1. /\ ~running
      /\ \A c \in Clients : client[c].at \notin {"start", "send, start"}
      /\ \A r \in Runners : runner[r].at = "none"
  BY DEF Provided
<1>2. ASSUME NEW c \in Clients, UserRequest(c) \/ ClientStep(c) PROVE Provided'
  <2>1. CASE ScheduleCall(c)
    <3>1. client[c].data \in Periods BY <2>1 DEF ScheduleCall, Typed, ClientRecord
    <3>2. schedule' = client[c].data /\ nextRun' = NextAfter(client[c].data, now)
      BY <1>1, <2>1 DEF ScheduleCall
    <3> DEFINE s == client[c].data
    <3>3. s # 0 BY <3>1, ConstantsAssumption
    <3>4. now \in Nat BY DEF Typed, Scalars
    <3> HIDE DEF s
    <3>5. NextAfter(s, now) # 0 BY <3>1, <3>4, NextAfterIsLater DEF s
    <3>6. schedule' # 0 /\ nextRun' # 0 BY <3>2, <3>3, <3>5 DEF s
    <3>7. QED BY <3>6 DEF Provided
  <2>2. CASE ~ScheduleCall(c)
    <3>1. ~Start(c) /\ ~Skip(c) BY <1>1 DEF Start, Skip
    <3> DEFINE Quieter == /\ UNCHANGED <<schedule, runner, running>>
                          /\ \E x : /\ x.at \notin {"start", "send, start"}
                                    /\ \/ client' = client
                                       \/ client' = [client EXCEPT ![c] = x]
    <3>2. Quieter
      <4>1. /\ Idle.at = "idle"
            /\ \A p, k, d : Sending(p, k, d).at = p
        BY DEF Idle, Sending
      <4>2. CASE ScheduleRequest(c)
        <5>1. PICK s \in Periods :
                 \/ client' = client
                 \/ client' = [client EXCEPT ![c] = Sending("schedule", "none", s)]
          BY <4>2 DEF ScheduleRequest
        <5>2. Sending("schedule", "none", s).at \notin {"start", "send, start"} BY <4>1
        <5>3. UNCHANGED <<schedule, runner, running>>
          BY <4>2 DEF ScheduleRequest, sharedVars
        <5>4. QED BY <5>1, <5>2, <5>3
      <4>3. CASE DisableRequest(c)
        <5>1. PICK p \in {"disabled", "stop"} :
                 \/ client' = client
                 \/ client' = [client EXCEPT ![c] = Sending(p, "none", 0)]
          BY <4>3 DEF DisableRequest
        <5>2. Sending(p, "none", 0).at \notin {"start", "send, start"} BY <4>1
        <5>3. UNCHANGED <<schedule, runner, running>>
          BY <4>3 DEF DisableRequest, sharedVars
        <5>4. QED BY <5>1, <5>2, <5>3
      <4>4. CASE Postpone(c)
        <5>1. FALSE BY <1>1, <4>4 DEF Postpone
        <5>2. QED BY <5>1
      <4>5. CASE Send(c)
        <5>1. client' = [client EXCEPT ![c] = Idle] BY <1>1, <4>5 DEF Send
        <5>2. UNCHANGED <<schedule, runner, running>> BY <4>5 DEF Send, sharedVars
        <5>3. QED BY <4>1, <5>1, <5>2
      <4>6. CASE Stop(c)
        <5>1. client' = [client EXCEPT ![c] = Sending("disabled", "none", 0)]
          BY <4>6 DEF Stop
        <5>2. Sending("disabled", "none", 0).at \notin {"start", "send, start"} BY <4>1
        <5>3. UNCHANGED <<schedule, runner, running>> BY <4>6 DEF Stop, sharedVars
        <5>4. QED BY <5>1, <5>2, <5>3
      <4>7. CASE ReplyDisabled(c)
        <5>1. client' = [client EXCEPT ![c] = Idle] BY <4>7 DEF ReplyDisabled
        <5>2. UNCHANGED <<schedule, runner, running>>
          BY <4>7 DEF ReplyDisabled, sharedVars
        <5>3. QED BY <4>1, <5>1, <5>2
      <4> HIDE DEF Quieter
      <4>8. QED
        BY <1>2, <2>2, <3>1, <4>2, <4>3, <4>4, <4>5, <4>6, <4>7
           DEF UserRequest, ClientStep
    <3>3. \A d \in Clients : client'[d].at \notin {"start", "send, start"}
      BY <1>1, <3>2 DEF Typed
    <3>4. QED BY <1>1, <3>2, <3>3 DEF Provided
  <2>3. QED BY <2>1, <2>2
<1>3. ASSUME NEW r \in Runners PROVE ~RunnerStep(r)
  BY <1>1 DEF RunnerStep, TakeSnapshot, TimerNotifies, TimerRuns, PreCheckPasses,
              PreCheckFails, AdvanceNextRun, ControlRecalculate, ControlPostpone,
              ControlSkip, ControlWake, SelectStop, Exit, Receives
<1>4. CASE HandleWakeUp \/ SystemSleeps \/ UNCHANGED vars
  <2>1. UNCHANGED <<sharedVars, running, client, runner>>
    BY <1>4 DEF HandleWakeUp, SystemSleeps, vars, sharedVars
  <2>2. QED BY <2>1 DEF Provided, sharedVars
<1>5. CASE Tick
  <2>1. UNCHANGED <<sharedVars, running, client>> BY <1>5 DEF Tick
  <2>2. \A r \in Runners : runner'[r].at = "none" BY <1>1, <1>5, Ticked
  <2>3. QED BY <2>1, <2>2 DEF Provided, sharedVars
<1>6. QED BY <1>2, <1>3, <1>4, <1>5 DEF Next

LEMMA ProvidedNext == ASSUME Typed, Provided, [Next]_vars PROVE Provided'
<1>1. CASE Restart
  <2>1. /\ cronFile \in Periods \cup {0} /\ now \in Nat
        /\ schedule' = cronFile /\ nextRun' = FreshNextRun(cronFile, now)
        /\ running' = (cronFile # 0) /\ runner' = FreshRunners(cronFile)
        /\ \A c \in Clients : client'[c].at = "idle"
    BY <1>1 DEF Typed, Scalars, Restart, Idle
  <2>2. schedule' # 0 => nextRun' # 0 BY <2>1, NextAfterIsLater DEF FreshNextRun
  <2>3. \A r \in Runners : runner'[r].at # "none" => schedule' # 0
    BY <2>1, FreshRunnersType
  <2>4. QED BY <2>1, <2>2, <2>3 DEF Provided
<1>2. CASE ~Restart /\ schedule # 0 BY <1>2, ScheduleStays DEF Provided
<1>3. CASE ~Restart /\ schedule = 0 BY <1>3, ScheduleComes
<1>4. QED BY <1>1, <1>2, <1>3

\* The later of the run's own time and the time the runner took it up or users
\* postponed it to, and the time left for the prechecks to fail again.
Due(me) == IF me.held > me.nextRun THEN me.held ELSE me.nextRun
Rest(a) == (MaxAttempts - a) * RetryDelay

LEMMA RestType ==
    /\ Rest(0) = MaxAttempts * RetryDelay
    /\ \A a \in 0..MaxAttempts : Rest(a) \in Nat /\ Rest(a) <= Rest(0)
    /\ \A a \in 0..MaxAttempts :
          a < MaxAttempts => a + 1 \in 0..MaxAttempts /\ Rest(a) = RetryDelay + Rest(a + 1)
<1>1. \A m \in Nat, d \in Nat : m * d \in Nat OBVIOUS
<1>2. \A m \in Nat, d \in Nat : (m + 1) * d = m * d + d OBVIOUS
<1>3. \A m \in Nat, a \in Nat, d \in Nat : (m + a) * d = m * d + a * d BY SMT
<1>4. Rest(0) = MaxAttempts * RetryDelay BY Numbers DEF Rest
<1>5. ASSUME NEW a \in 0..MaxAttempts PROVE Rest(a) \in Nat /\ Rest(a) <= Rest(0)
  <2> DEFINE m == MaxAttempts - a
  <2>1. m \in Nat /\ a \in Nat /\ m + a = MaxAttempts BY <1>5, Numbers
  <2> HIDE DEF m
  <2>2. (m + a) * RetryDelay = m * RetryDelay + a * RetryDelay BY <1>3, <2>1, Numbers
  <2>3. m * RetryDelay \in Nat /\ a * RetryDelay \in Nat BY <1>1, <2>1, Numbers
  <2>4. Rest(a) = m * RetryDelay BY DEF Rest, m
  <2>5. Rest(0) = m * RetryDelay + a * RetryDelay BY <1>4, <2>1, <2>2
  <2> HIDE DEF Rest
  <2>6. QED BY <2>3, <2>4, <2>5
<1>6. ASSUME NEW a \in 0..MaxAttempts, a < MaxAttempts
      PROVE  a + 1 \in 0..MaxAttempts /\ Rest(a) = RetryDelay + Rest(a + 1)
  <2> DEFINE m == MaxAttempts - (a + 1)
  <2>1. m \in Nat /\ MaxAttempts - a = m + 1 BY <1>6, Numbers
  <2>2. a + 1 \in 0..MaxAttempts BY <1>6, Numbers
  <2>3. Rest(a) = (m + 1) * RetryDelay /\ Rest(a + 1) = m * RetryDelay
    BY <2>1 DEF Rest
  <2> HIDE DEF m
  <2>4. (m + 1) * RetryDelay = m * RetryDelay + RetryDelay BY <1>2, <2>1, Numbers
  <2>5. m * RetryDelay \in Nat BY <1>1, <2>1, Numbers
  <2>6. QED BY <2>2, <2>3, <2>4, <2>5, Numbers
<1>7. QED BY <1>4, <1>5, <1>6

\* A runner's timer is on, and stays within the time its run has left: until the
\* run is due, and then until the last precheck.
InGrace(me) ==
    /\ me.at = "select" => me.timer # Off
    /\ me.at = "select" /\ me.leading => me.attempts = 0 /\ now + me.timer <= Due(me)
    /\ me.at = "select" /\ ~me.leading =>
          now + me.timer + Rest(me.attempts) <= Due(me) + OverdueDelay + Rest(0)
    /\ me.at = "precheck" =>
          ~me.leading /\ now + Rest(me.attempts) <= Due(me) + OverdueDelay + Rest(0)

GraceInv ==
    /\ Inv /\ NoMessage("wake") /\ ~wakeOwed /\ Provided
    /\ \A r \in Runners : InGrace(runner[r])

LEMMA GraceInit == Init => GraceInv
<1> SUFFICES ASSUME Init PROVE GraceInv OBVIOUS
<1>1. NoMessage("wake") /\ ~wakeOwed BY DEF Init, NoMessage, Waiting, Idle
<1>2. \A r \in Runners : runner[r].at \in {"snapshot", "none"}
  BY FreshRunnersType DEF Init
<1>3. QED BY <1>1, <1>2, InitInv, ProvidedInit DEF GraceInv, InGrace

\* The numbers of a runner's record.
LEMMA GraceNumbers ==
    ASSUME Typed, NEW r \in Runners
    PROVE  LET me == runner[r] IN
           /\ me.nextRun \in Nat /\ me.held \in Nat /\ me.timer \in Nat \cup {Off}
           /\ me.attempts \in 0..MaxAttempts /\ me.leading \in BOOLEAN
           /\ Due(me) \in Nat /\ Due(me) >= me.held /\ Due(me) >= me.nextRun
           /\ Rest(me.attempts) \in Nat /\ Rest(me.attempts) <= Rest(0)
           /\ Rest(0) \in Nat /\ now \in Nat
           /\ OverdueDelay \in Nat /\ RetryDelay \in Nat /\ Lead \in Nat
<1> DEFINE me == runner[r]
<1>1. /\ me.nextRun \in Nat /\ me.held \in Nat /\ me.timer \in Nat \cup {Off}
      /\ me.attempts \in 0..MaxAttempts /\ me.leading \in BOOLEAN /\ now \in Nat
  BY DEF Typed, Scalars, RunnerRecord
<1>2. Due(me) \in Nat /\ Due(me) >= me.held /\ Due(me) >= me.nextRun BY <1>1 DEF Due
<1>3. 0 \in 0..MaxAttempts BY Numbers
<1> HIDE DEF me
<1>4. Rest(me.attempts) \in Nat /\ Rest(me.attempts) <= Rest(0) /\ Rest(0) \in Nat
  BY <1>1, <1>3, RestType
<1>5. QED BY <1>1, <1>2, <1>4, Numbers DEF me

\* A runner elsewhere has nothing to show.
LEMMA GraceElsewhere ==
    ASSUME NEW r \in Runners, runner'[r].at \notin {"select", "precheck"}
    PROVE  InGrace(runner[r])'
BY DEF InGrace

\* The runner that takes a step stays within its time.
LEMMA StepInGrace ==
    ASSUME GraceInv, NEW r \in Runners, RunnerStep(r) PROVE InGrace(runner[r])'
<1>1. /\ Typed /\ Provided /\ InGrace(runner[r]) /\ ~Waiting("wake")
  BY DEF GraceInv, Inv, NoMessage
<1> DEFINE me == runner[r]
           new == runner'[r]
<1>2. /\ me.nextRun \in Nat /\ me.held \in Nat /\ me.timer \in Nat \cup {Off}
      /\ me.attempts \in 0..MaxAttempts /\ me.leading \in BOOLEAN
      /\ Due(me) \in Nat /\ Due(me) >= me.held /\ Due(me) >= me.nextRun
      /\ Rest(me.attempts) \in Nat /\ Rest(me.attempts) <= Rest(0)
      /\ Rest(0) \in Nat /\ now \in Nat
      /\ OverdueDelay \in Nat /\ RetryDelay \in Nat /\ Lead \in Nat
  BY <1>1, GraceNumbers
<1>3. now' = now
  BY DEF RunnerStep, TakeSnapshot, TimerNotifies, TimerRuns, PreCheckPasses,
         PreCheckFails, AdvanceNextRun, ControlRecalculate, ControlPostpone,
         ControlSkip, ControlWake, SelectStop, Exit, Receives
<1>4. CASE TakeSnapshot(r)
  <2>1. schedule # 0 /\ nextRun # 0 /\ nextRun \in Nat
    BY <1>1, <1>4 DEF TakeSnapshot, Provided, Typed, Scalars
  <2>2. /\ new.at = "select" /\ new.leading /\ new.attempts = 0 /\ new.held = now
        /\ new.nextRun = nextRun /\ new.timer = TimerFor(nextRun - now - Lead)
    BY <1>1, <1>4, <2>1, SnapshotTaken
  <2>3. new.timer \in Nat /\ new.timer # Off /\ now + new.timer <= Due(new)
    BY <1>2, <2>1, <2>2 DEF TimerFor, Off, Due
  <2>4. QED BY <1>3, <2>2, <2>3 DEF InGrace
<1>5. CASE TimerNotifies(r)
  <2> DEFINE wait == IF me.nextRun <= now THEN OverdueDelay ELSE me.nextRun - now
  <2>1. /\ me.at = "select" /\ me.timer = 0 /\ me.leading
        /\ new.at = "select" /\ new.timer = wait /\ new.leading = FALSE
        /\ new.nextRun = me.nextRun /\ new.held = me.held /\ new.attempts = me.attempts
    BY <1>1, <1>5, Notified
  <2>2. me.attempts = 0 /\ now + 0 <= Due(me) BY <1>1, <2>1 DEF InGrace
  <2>3. wait \in Nat /\ now + wait <= Due(me) + OverdueDelay BY <1>2, <2>2
  <2>4. Due(new) = Due(me) BY <2>1 DEF Due
  <2> HIDE DEF wait
  <2>5. wait # Off /\ now + wait + Rest(0) <= Due(me) + OverdueDelay + Rest(0)
    BY <1>2, <2>3 DEF Off
  <2>6. QED BY <1>3, <2>1, <2>2, <2>4, <2>5 DEF InGrace
<1>6. CASE TimerRuns(r)
  <2>1. /\ me.at = "select" /\ me.timer = 0 /\ ~me.leading
        /\ new.at = "precheck" /\ new.leading = me.leading
        /\ new.nextRun = me.nextRun /\ new.held = me.held /\ new.attempts = me.attempts
    BY <1>1, <1>6, RunComes
  <2>2. now + 0 + Rest(me.attempts) <= Due(me) + OverdueDelay + Rest(0)
    BY <1>1, <2>1 DEF InGrace
  <2>3. now + Rest(me.attempts) <= Due(me) + OverdueDelay + Rest(0) BY <1>2, <2>2
  <2>4. Due(new) = Due(me) BY <2>1 DEF Due
  <2>5. QED BY <1>3, <2>1, <2>3, <2>4 DEF InGrace
<1>7. CASE PreCheckPasses(r)
  <2>1. new.at = "started" BY <1>1, <1>7, Prechecked
  <2>2. QED BY <2>1, GraceElsewhere
<1>8. CASE PreCheckFails(r)
  <2>1. /\ me.at = "precheck"
        /\ \/ /\ new.at = "select" /\ new.timer = RetryDelay
              /\ me.attempts < MaxAttempts /\ new.attempts = me.attempts + 1
           \/ new.at = "given up"
        /\ new.leading = me.leading /\ new.nextRun = me.nextRun /\ new.held = me.held
    BY <1>1, <1>8, PrecheckFailed
  <2>2. ~me.leading /\ now + Rest(me.attempts) <= Due(me) + OverdueDelay + Rest(0)
    BY <1>1, <2>1 DEF InGrace
  <2>3. CASE new.at = "given up" BY <2>3, GraceElsewhere
  <2>4. CASE new.at # "given up"
    <3>1. /\ new.at = "select" /\ new.timer = RetryDelay
          /\ me.attempts < MaxAttempts /\ new.attempts = me.attempts + 1
      BY <2>1, <2>4
    <3>2. /\ Rest(me.attempts) = RetryDelay + Rest(new.attempts)
          /\ Rest(new.attempts) \in Nat
      BY <1>2, <3>1, RestType
    <3>3. now + RetryDelay + Rest(new.attempts) <= Due(me) + OverdueDelay + Rest(0)
      BY <1>2, <2>2, <3>2
    <3>4. Due(new) = Due(me) BY <2>1 DEF Due
    <3>5. RetryDelay # Off BY <1>2 DEF Off
    <3>6. QED BY <1>3, <2>1, <2>2, <3>1, <3>3, <3>4, <3>5 DEF InGrace
  <2>5. QED BY <2>3, <2>4
<1>9. CASE AdvanceNextRun(r) \/ ControlRecalculate(r) \/ ControlSkip(r)
  <2>1. new.at = "snapshot" BY <1>1, <1>9, LoopsAgain
  <2>2. QED BY <2>1, GraceElsewhere
<1>10. CASE ControlPostpone(r)
  <2>1. /\ me.at = "select" /\ new.at = "select" /\ new.held = now + new.timer
        /\ new.nextRun = me.nextRun /\ new.leading = me.leading
        /\ new.attempts = me.attempts
    BY <1>1, <1>10, HeldBack
  <2>2. new.timer \in Nat BY <1>1, <1>2, <1>10, HeldBack DEF TimerFor
  <2>3. Due(new) \in Nat /\ now + new.timer <= Due(new) BY <1>2, <2>1, <2>2 DEF Due
  <2>4. now + new.timer + Rest(me.attempts) <= Due(new) + OverdueDelay + Rest(0)
    BY <1>2, <2>2, <2>3
  <2>5. new.timer # Off BY <2>2 DEF Off
  <2>6. me.leading => me.attempts = 0 BY <1>1, <2>1 DEF InGrace
  <2>7. QED BY <1>3, <2>1, <2>3, <2>4, <2>5, <2>6 DEF InGrace
<1>11. CASE ControlWake(r)
  <2>1. Waiting("wake") BY <1>1, <1>11, Received DEF ControlWake, Kinds
  <2>2. QED BY <1>1, <2>1
<1>12. CASE SelectStop(r) \/ Exit(r)
  <2>1. new.at \in {"exit", "none"} BY <1>1, <1>12, Leaves
  <2>2. QED BY <2>1, GraceElsewhere
<1>13. QED
  BY <1>4, <1>5, <1>6, <1>7, <1>8, <1>9, <1>10, <1>11, <1>12 DEF RunnerStep

LEMMA GraceNext ==
    ASSUME GraceInv, Prompt = TRUE, SleepLengths = {}, [Next]_vars PROVE GraceInv'
<1>1. Inv' /\ Typed /\ Provided BY NextInv DEF GraceInv, Inv
<1>2. NoMessage("wake")' /\ ~wakeOwed'
  BY <1>1, NoMessageStays, NoWakeOwed DEF GraceInv
<1>3. Provided' BY <1>1, ProvidedNext
<1>4. ~SystemSleeps BY DEF SystemSleeps
<1>5. ASSUME NEW r \in Runners PROVE InGrace(runner[r])'
  <2> DEFINE me == runner[r]
             new == runner'[r]
  <2>1. InGrace(me) BY DEF GraceInv
  <2>2. CASE Tick
    <3>1. /\ new.timer = IF me.timer > 0 THEN me.timer - 1 ELSE me.timer
          /\ new.at = me.at /\ new.leading = me.leading /\ new.held = me.held
          /\ new.nextRun = me.nextRun /\ new.attempts = me.attempts
      BY <1>1, <2>2, Ticked
    <3>2. now' = now + 1 /\ Quiet BY <2>2 DEF Tick
    <3>3. me.at = "none" \/ (me.at = "select" /\ me.timer # 0) BY <3>2 DEF Quiet
    <3>4. CASE me.at = "none" BY <3>1, <3>4, GraceElsewhere
    <3>5. CASE me.at = "select" /\ me.timer # 0
      <4>1. me.timer \in Nat \cup {Off} /\ me.timer # Off /\ now \in Nat
        BY <1>1, <2>1, <3>5, GraceNumbers DEF InGrace
      <4>2. new.timer \in Nat /\ now' + new.timer = now + me.timer
        BY <3>1, <3>2, <3>5, <4>1
      <4>3. new.timer # Off BY <4>2 DEF Off
      <4>4. Due(new) = Due(me) BY <3>1 DEF Due
      <4>5. QED BY <2>1, <3>1, <3>5, <4>2, <4>3, <4>4, Zenon DEF InGrace
    <3>6. QED BY <3>3, <3>4, <3>5
  <2>3. CASE ~Tick
    <3>1. now' = now BY <1>4, <2>3, ClockStands
    <3>2. CASE new = me BY <2>1, <3>1, <3>2 DEF InGrace
    <3>3. CASE new.at \in {"snapshot", "none"} BY <3>3, GraceElsewhere
    <3>4. CASE RunnerStep(r) BY <3>4, StepInGrace
    <3>5. CASE UNCHANGED vars BY <3>2, <3>5 DEF vars
    <3>6. QED BY <1>1, <2>3, <3>2, <3>3, <3>4, <3>5, RunnersElsewhere DEF Next
  <2>4. QED BY <2>2, <2>3
<1>6. QED BY <1>1, <1>2, <1>3, <1>5 DEF GraceInv

\* While the machine does not sleep and the daemon is not held up, a run whose
\* prechecks keep failing is given up within overdueTaskDelay and
\* preCheckMaxTimes intervals of when it was due, taken up or postponed to,
\* however many users postpone, skip, set the schedule again or restart the
\* daemon (README.md:277, scheduler.go:196-243).
THEOREM GivenUpInTime ==
    ASSUME Prompt = TRUE, SleepLengths = {} PROVE Spec => []GraceEnds
<1>1. GraceInv /\ [Next]_vars => GraceInv' BY GraceNext
<1>2. GraceInv => GraceEnds
  <2> SUFFICES ASSUME GraceInv, NEW r \in Runners, runner[r].at = "select"
               PROVE  now <= Due(runner[r]) + OverdueDelay + MaxAttempts * RetryDelay
    BY Zenon DEF GraceEnds, Due
  <2> DEFINE me == runner[r]
  <2>1. Typed /\ InGrace(me) BY DEF GraceInv, Inv
  <2>2. /\ me.timer \in Nat \cup {Off} /\ me.leading \in BOOLEAN /\ now \in Nat
        /\ Due(me) \in Nat /\ OverdueDelay \in Nat
        /\ Rest(me.attempts) \in Nat /\ Rest(0) \in Nat
    BY <2>1, GraceNumbers
  <2>3. me.timer \in Nat BY <2>1, <2>2 DEF InGrace
  <2>4. now <= Due(me) + OverdueDelay + Rest(0)
    <3>1. CASE me.leading
      <4>1. now + me.timer <= Due(me) BY <2>1, <3>1 DEF InGrace
      <4>2. QED BY <2>2, <2>3, <4>1
    <3>2. CASE ~me.leading
      <4>1. now + me.timer + Rest(me.attempts) <= Due(me) + OverdueDelay + Rest(0)
        BY <2>1, <3>2 DEF InGrace
      <4>2. QED BY <2>2, <2>3, <4>1
    <3>3. QED BY <3>1, <3>2
  <2>5. QED BY <2>4, RestType
<1>3. QED BY <1>1, <1>2, GraceInit, PTL DEF Spec

-----------------------------------------------------------------------------
(* No run starts twice when nobody postpones *)

\* A runner has a run to wait for.
HasRun(me) == me.schedule # 0 /\ me.nextRun # 0

\* Its next step may lead to the run, or is after it.
Armed(me) ==
    \/ me.at \in {"precheck", "started", "given up"}
    \/ me.at = "select" /\ me.timer = 0 /\ ~me.leading

\* Nobody else runs, or may come to.
Sole(r) == running /\ \A s \in Runners \ {r} : runner[s].at = "none"

\* From the snapshot of a run until it is passed over.
InLoop == {"select", "precheck", "started", "given up"}

\* Only a runner that has a run waits for one, the scheduler has a schedule then,
\* and a run that is waited for has not been started.
RunOK(r) ==
    LET me == runner[r] IN
    /\ me.at = "select" /\ ~HasRun(me) => me.timer = Off
    /\ me.at \in {"precheck", "started", "given up"} => HasRun(me)
    /\ me.at \in InLoop /\ me.schedule # 0 => schedule # 0
    /\ me.at \in {"select", "precheck"} /\ HasRun(me) => me.nextRun \notin started

\* A runner whose run may start is alone, and its run is not past the next.
SoleOK(r) ==
    LET me == runner[r] IN
    /\ Armed(me) => Sole(r)
    /\ me.at \in {"select", "precheck"} /\ Sole(r) => me.nextRun <= nextRun

\* The runs that have started are past, and come before the next one, which
\* may be the one that is about to be passed over.
Past ==
    /\ \A x \in started : x <= now
    /\ schedule # 0 => \A x \in started :
          x < nextRun \/ (x = nextRun /\ \E r \in Runners : runner[r].at = "started")

TwiceInv ==
    /\ KeepInv /\ Past
    /\ \A r \in Runners : RunOK(r) /\ SoleOK(r)

\* Numbers.
LEMMA TwiceTypes ==
    ASSUME TwiceInv
    PROVE  /\ Typed /\ now \in Nat /\ nextRun \in Nat /\ started \subseteq Nat
           /\ schedule \in Periods \cup {0}
BY DEF TwiceInv, KeepInv, Inv, Typed, Scalars

\* A runner that is not waiting for a run is out of the way.
LEMMA OutOfLoop ==
    ASSUME NEW r \in Runners, runner'[r].at \in {"snapshot", "exit", "none"}
    PROVE  RunOK(r)' /\ SoleOK(r)'
BY DEF RunOK, SoleOK, Armed, InLoop

LEMMA TwiceInit == Init => TwiceInv
<1> SUFFICES ASSUME Init PROVE TwiceInv OBVIOUS
<1>1. \A r \in Runners : runner[r].at \in {"snapshot", "none"}
  BY FreshRunnersType DEF Init
<1>2. Past BY DEF Init, Past
<1>3. QED BY <1>1, <1>2, KeepInit DEF TwiceInv, RunOK, SoleOK, Armed, InLoop

\* Steps that leave runners, `running' and the runs that started alone, and
\* move the next run only forward or where there is nobody to see it.
LEMMA TwiceFrame ==
    ASSUME TwiceInv, UNCHANGED <<runner, running, started>>, now' \in Nat, now' >= now,
           nextRun' \in Nat, schedule # 0 => schedule' # 0,
           \/ UNCHANGED <<schedule, nextRun>>
           \/ schedule # 0 /\ nextRun' > nextRun
           \/ ~running /\ nextRun' > now
    PROVE  Past' /\ \A r \in Runners : RunOK(r)' /\ SoleOK(r)'
<1>1. /\ now \in Nat /\ nextRun \in Nat /\ started \subseteq Nat BY TwiceTypes
<1>2. ASSUME NEW r \in Runners PROVE RunOK(r)'
  BY <1>2 DEF TwiceInv, RunOK, HasRun
<1>3. ASSUME NEW r \in Runners PROVE SoleOK(r)'
  <2>1. SoleOK(r) /\ (Sole(r)' <=> Sole(r)) BY DEF TwiceInv, Sole
  <2>2. Sole(r) => nextRun' >= nextRun BY <1>1 DEF Sole
  <2>3. runner[r].nextRun \in Nat BY TwiceTypes, RunnerFields
  <2>4. Armed(runner[r])' => Sole(r)' BY <2>1 DEF SoleOK, Armed
  <2>5. ASSUME runner[r].at \in {"select", "precheck"}, Sole(r)
        PROVE  runner[r].nextRun <= nextRun'
    <3>1. runner[r].nextRun <= nextRun BY <2>1, <2>5 DEF SoleOK
    <3>2. nextRun' >= nextRun BY <2>2, <2>5
    <3>3. QED BY <1>1, <2>3, <3>1, <3>2
  <2>6. (runner[r].at \in {"select", "precheck"} /\ Sole(r) => runner[r].nextRun <= nextRun)'
    BY <2>1, <2>5
  <2>7. QED BY <2>4, <2>6 DEF SoleOK
<1>4. Past'
  <2>1. Past BY DEF TwiceInv
  <2>2. \A x \in started : x <= now' BY <1>1, <2>1 DEF Past
  <2>3. CASE UNCHANGED <<schedule, nextRun>> BY <2>1, <2>2, <2>3 DEF Past
  <2>4. CASE schedule # 0 /\ nextRun' > nextRun BY <1>1, <2>1, <2>2, <2>4 DEF Past
  <2>5. CASE ~running /\ nextRun' > now BY <1>1, <2>1, <2>2, <2>5 DEF Past
  <2>6. QED BY <2>3, <2>4, <2>5
<1>5. QED BY <1>2, <1>3, <1>4

LEMMA TwiceClient ==
    ASSUME TwiceInv, NEW c \in Clients, UserRequest(c) \/ ClientStep(c)
    PROVE  Past' /\ \A r \in Runners : RunOK(r)' /\ SoleOK(r)'
<1>1. /\ Typed /\ now \in Nat /\ nextRun \in Nat /\ started \subseteq Nat
      /\ schedule \in Periods \cup {0}
  BY TwiceTypes
<1>2. CASE Skip(c)
  <2>1. schedule # 0 /\ nextRun' = NextAfter(schedule, nextRun) BY <1>2 DEF Skip
  <2>2. nextRun' \in Nat /\ nextRun' > nextRun BY <1>1, <2>1, NextAfterIsLater
  <2>3. UNCHANGED <<runner, running, started, schedule, now>> BY <1>2 DEF Skip
  <2>4. QED BY <1>1, <2>1, <2>2, <2>3, TwiceFrame
<1>3. CASE ScheduleCall(c)
  <2>1. UNCHANGED <<runner, running, started, now>> BY <1>3 DEF ScheduleCall
  <2>2. CASE running
    <3>1. UNCHANGED <<schedule, nextRun>> BY <1>3, <2>2 DEF ScheduleCall, sharedVars
    <3>2. QED BY <1>1, <2>1, <3>1, TwiceFrame
  <2>3. CASE ~running
    <3> DEFINE s == client[c].data
    <3>1. s \in Periods BY <1>1, <1>3 DEF ScheduleCall, Typed, ClientRecord
    <3>2. schedule' = s /\ nextRun' = NextAfter(s, now) BY <1>3, <2>3 DEF ScheduleCall
    <3>3. schedule' # 0 BY <3>1, <3>2, ConstantsAssumption
    <3>4. nextRun' \in Nat /\ nextRun' > now BY <1>1, <3>1, <3>2, NextAfterIsLater
    <3>5. QED BY <1>1, <2>1, <2>3, <3>3, <3>4, TwiceFrame
  <2>4. QED BY <2>2, <2>3
<1>4. CASE Start(c)
  <2>1. UNCHANGED <<started, schedule, nextRun, now>> BY <1>4 DEF Start, sharedVars, historyVars
  <2>2. CASE running
    <3>1. UNCHANGED <<runner, running>> BY <1>4, <2>2 DEF Start, AlreadyRunning
    <3>2. QED BY <1>1, <2>1, <3>1, TwiceFrame
  <2>3. CASE ~running
    <3>1. PICK r \in Runners : runner[r].at = "none" /\ RunnerBecomes(r, AtTop)
      BY <1>4, <2>3 DEF Start, AlreadyRunning, RunnerBecomes
    <3>2. AtTop \in RunnerRecord /\ AtTop.at = "snapshot" BY AtTopType
    <3>3. runner'[r] = AtTop /\ \A s \in Runners \ {r} : runner'[s] = runner[s]
      BY <1>1, <3>1, <3>2, OneRunnerChanges
    <3>4. \A s \in Runners : ~Armed(runner[s]) BY <2>3 DEF TwiceInv, SoleOK, Sole
    <3>5. Past'
      <4>1. \A s \in Runners : runner[s].at # "started" BY <3>4 DEF Armed
      <4>2. QED BY <1>1, <2>1, <4>1 DEF TwiceInv, Past
    <3>6. ASSUME NEW s \in Runners PROVE RunOK(s)' /\ SoleOK(s)'
      <4>1. CASE s = r BY <3>2, <3>3, <4>1, OutOfLoop
      <4>2. CASE s # r
        <5>1. runner'[s] = runner[s] /\ ~Sole(s)' BY <3>2, <3>3, <4>2 DEF Sole
        <5>2. RunOK(s)' BY <2>1, <5>1 DEF TwiceInv, RunOK, HasRun
        <5>3. SoleOK(s)' BY <3>4, <5>1 DEF SoleOK, Armed
        <5>4. QED BY <5>2, <5>3
      <4>3. QED BY <4>1, <4>2
    <3>7. QED BY <3>5, <3>6
  <2>4. QED BY <2>2, <2>3
<1>5. CASE ~(Skip(c) \/ ScheduleCall(c) \/ Start(c))
  <2>1. UNCHANGED <<runner, running, started, schedule, nextRun, now>>
    BY <1>5 DEF UserRequest, ScheduleRequest, DisableRequest, Postpone, ClientStep, Send, Stop,
                ReplyDisabled, sharedVars, historyVars
  <2>2. QED BY <1>1, <2>1, TwiceFrame
<1>6. QED BY <1>2, <1>3, <1>4, <1>5

LEMMA TwiceTime ==
    ASSUME TwiceInv, Prompt, HandleWakeUp \/ Tick \/ SystemSleeps \/ Restart
    PROVE  Past' /\ \A r \in Runners : RunOK(r)' /\ SoleOK(r)'
<1>1. /\ Typed /\ now \in Nat /\ nextRun \in Nat /\ started \subseteq Nat
      /\ schedule \in Periods \cup {0}
  BY TwiceTypes
<1>2. now' \in Nat /\ now' >= now BY <1>1, ClockGoesOn DEF Next
<1>3. CASE HandleWakeUp \/ SystemSleeps
  <2>1. UNCHANGED <<runner, running, started, schedule, nextRun>>
    BY <1>3 DEF HandleWakeUp, SystemSleeps, sharedVars, historyVars
  <2>2. QED BY <1>1, <1>2, <2>1, TwiceFrame
<1>4. CASE Tick
  <2>1. UNCHANGED <<running, started, schedule, nextRun>>
    BY <1>4 DEF Tick, sharedVars, historyVars
  <2>2. Quiet BY <1>4 DEF Tick
  <2>3. \A r \in Runners : runner'[r].at = runner[r].at BY <1>1, <1>4, Ticked
  <2>4. Past'
    <3>1. Past BY DEF TwiceInv
    <3>2. \A x \in started : x <= now' BY <1>1, <1>2, <3>1 DEF Past
    <3>3. QED BY <2>1, <2>3, <3>1, <3>2 DEF Past
  <2>5. ASSUME NEW r \in Runners PROVE RunOK(r)' /\ SoleOK(r)'
    <3>1. CASE runner[r].at = "none" BY <2>3, <3>1, OutOfLoop
    <3>2. CASE runner[r].at # "none"
      <4>1. runner[r].at = "select" /\ ~stopped BY <2>2, <3>2 DEF Quiet
      <4>2. RunningIsTrue /\ ExitsAfterStop BY DEF TwiceInv, KeepInv, Inv
      <4>3. Sole(r)
        <5>1. Alive(r) BY <4>1 DEF Alive
        <5>2. running BY <4>1, <4>2, <5>1 DEF RunningIsTrue
        <5>3. \A s \in Runners \ {r} : runner[s].at = "none"
          BY <4>1, <4>2, <5>1 DEF RunningIsTrue, ExitsAfterStop, Alive
        <5>4. QED BY <5>2, <5>3 DEF Sole
      <4>4. Sole(r)' BY <2>1, <2>3, <4>3 DEF Sole
      <4>5. /\ runner'[r].timer = IF runner[r].timer > 0 THEN runner[r].timer - 1
                                  ELSE runner[r].timer
            /\ runner'[r].schedule = runner[r].schedule
            /\ runner'[r].nextRun = runner[r].nextRun
        BY <1>1, <1>4, Ticked
      <4>6. runner[r].timer = Off => runner'[r].timer = Off BY <4>5 DEF Off
      <4>7. RunOK(r) /\ SoleOK(r) BY DEF TwiceInv
      <4>8. RunOK(r)' BY <2>1, <2>3, <4>1, <4>5, <4>6, <4>7 DEF RunOK, HasRun, InLoop
      <4>9. SoleOK(r)' BY <2>1, <2>3, <4>1, <4>3, <4>4, <4>5, <4>7 DEF SoleOK
      <4>10. QED BY <4>8, <4>9
    <3>3. QED BY <3>1, <3>2
  <2>6. QED BY <2>4, <2>5
<1>5. CASE Restart
  <2>1. \A r \in Runners : runner'[r].at \in {"snapshot", "none"} BY <1>5, Restarted
  <2>2. UNCHANGED <<now, started>> BY <1>5 DEF Restart, historyVars
  <2>3. schedule' = cronFile /\ nextRun' = FreshNextRun(cronFile, now)
    BY <1>5 DEF Restart
  <2>4. cronFile \in Periods \cup {0} BY <1>1 DEF Typed, Scalars
  <2>5. schedule' # 0 => nextRun' \in Nat /\ nextRun' > now
    BY <1>1, <2>3, <2>4, NextAfterIsLater DEF FreshNextRun
  <2>6. \A x \in started : x <= now BY DEF TwiceInv, Past
  <2>7. Past' BY <1>1, <2>2, <2>5, <2>6 DEF Past
  <2>8. QED BY <2>1, <2>7, OutOfLoop
<1>6. QED BY <1>3, <1>4, <1>5

\* A step of one runner leaves the others as they are: none of them is alone,
\* before or after it.
LEMMA OthersNotSole ==
    ASSUME TwiceInv, NEW r \in Runners, RunnerStep(r), NEW s \in Runners \ {r}
    PROVE  ~Sole(s) /\ ~Sole(s)' /\ ~Armed(runner[s]) /\ runner'[s] = runner[s]
<1>1. Typed BY TwiceTypes
<1>2. runner[r].at # "none"
  BY DEF RunnerStep, TakeSnapshot, TimerNotifies, TimerRuns, PreCheckPasses,
         PreCheckFails, AdvanceNextRun, ControlRecalculate, ControlPostpone,
         ControlSkip, ControlWake, SelectStop, Exit, Receives
<1>3. ~Sole(s) BY <1>2 DEF Sole
<1>4. ~Sole(s)'
  <2>1. CASE SelectStop(r) \/ Exit(r) BY <2>1 DEF SelectStop, Exit, Sole
  <2>2. CASE TakeSnapshot(r)
    <3>1. runner'[r].at # "none" BY <1>1, <2>2, SnapshotTaken
    <3>2. QED BY <3>1 DEF Sole
  <2>3. CASE TimerNotifies(r)
    <3>1. runner'[r].at # "none" BY <1>1, <2>3, Notified
    <3>2. QED BY <3>1 DEF Sole
  <2>4. CASE TimerRuns(r)
    <3>1. runner'[r].at # "none" BY <1>1, <2>4, RunComes
    <3>2. QED BY <3>1 DEF Sole
  <2>5. CASE PreCheckPasses(r)
    <3>1. runner'[r].at # "none" BY <1>1, <2>5, Prechecked
    <3>2. QED BY <3>1 DEF Sole
  <2>6. CASE PreCheckFails(r)
    <3>1. runner'[r].at # "none" BY <1>1, <2>6, PrecheckFailed
    <3>2. QED BY <3>1 DEF Sole
  <2>7. CASE AdvanceNextRun(r) \/ ControlRecalculate(r) \/ ControlSkip(r)
    <3>1. runner'[r].at # "none" BY <1>1, <2>7, LoopsAgain
    <3>2. QED BY <3>1 DEF Sole
  <2>8. CASE ControlPostpone(r)
    <3>1. runner'[r].at # "none" BY <1>1, <2>8, HeldBack
    <3>2. QED BY <3>1 DEF Sole
  <2>9. CASE ControlWake(r)
    <3>1. runner'[r].at # "none" BY <1>1, <2>9, WokenUp
    <3>2. QED BY <3>1 DEF Sole
  <2>10. QED
    BY <2>1, <2>2, <2>3, <2>4, <2>5, <2>6, <2>7, <2>8, <2>9 DEF RunnerStep
<1>5. ~Armed(runner[s]) BY <1>3 DEF TwiceInv, SoleOK
<1>6. runner'[s] = runner[s] BY <1>1, OthersStay
<1>7. QED BY <1>3, <1>4, <1>5, <1>6

\* What holds of a runner whose record and runs stay.
LEMMA RunStays ==
    ASSUME NEW s \in Runners, RunOK(s), runner'[s] = runner[s], started' = started,
           schedule # 0 => schedule' # 0
    PROVE  RunOK(s)'
BY DEF RunOK, HasRun

\* A step of runner r in which only r's record matters.
LEMMA OneStepTwice ==
    ASSUME TwiceInv, NEW r \in Runners, RunnerStep(r), RunOK(r)', SoleOK(r)', Past',
           started' = started \/ Sole(r), schedule # 0 => schedule' # 0
    PROVE  Past' /\ \A s \in Runners : RunOK(s)' /\ SoleOK(s)'
<1>1. ASSUME NEW s \in Runners \ {r} PROVE RunOK(s)' /\ SoleOK(s)'
  <2>1. ~Sole(s)' /\ ~Armed(runner[s]) /\ runner'[s] = runner[s] BY OthersNotSole
  <2>2. SoleOK(s)' BY <2>1 DEF SoleOK, Armed
  <2>3. RunOK(s) BY DEF TwiceInv
  <2>4. CASE started' = started BY <2>1, <2>2, <2>3, <2>4, RunStays
  <2>5. CASE Sole(r)
    <3>1. runner'[s].at = "none" BY <2>1, <2>5 DEF Sole
    <3>2. QED BY <3>1, OutOfLoop
  <2>6. QED BY <2>2, <2>4, <2>5
<1>2. QED BY <1>1

\* When a runner's run may start, or it waits for it with others gone, being
\* alone does not depend on its own record.
LEMMA SoleStays ==
    ASSUME TwiceInv, NEW r \in Runners, RunnerStep(r), running' = running
    PROVE  Sole(r)' <=> Sole(r)
<1>1. Typed BY TwiceTypes
<1>2. \A s \in Runners \ {r} : runner'[s] = runner[s] BY <1>1, OthersStay
<1>3. QED BY <1>2 DEF Sole

\* Nothing is added to the past by a step that leaves what it speaks of alone.
LEMMA PastStays ==
    ASSUME TwiceInv, NEW r \in Runners, RunnerStep(r), runner[r].at # "started",
           UNCHANGED <<now, started, schedule, nextRun>>
    PROVE  Past'
<1>1. Typed BY TwiceTypes
<1>2. \A s \in Runners \ {r} : runner'[s] = runner[s] BY <1>1, OthersStay
<1>3. \A s \in Runners : runner[s].at = "started" => runner'[s].at = "started" BY <1>2
<1>4. QED BY <1>3 DEF TwiceInv, Past

LEMMA TwiceRunner ==
    ASSUME TwiceInv, NEW r \in Runners, RunnerStep(r)
    PROVE  Past' /\ \A s \in Runners : RunOK(s)' /\ SoleOK(s)'
<1>1. /\ Typed /\ now \in Nat /\ nextRun \in Nat /\ started \subseteq Nat
      /\ schedule \in Periods \cup {0}
  BY TwiceTypes
<1> DEFINE me == runner[r]
           new == runner'[r]
<1>2. /\ RunOK(r) /\ SoleOK(r) /\ Past /\ OnTime(me) /\ ~Waiting("postpone")
  BY DEF TwiceInv, KeepInv, NoMessage
<1>3. /\ me.nextRun \in Nat /\ me.timer \in Nat \cup {Off} /\ 0 # Off
      /\ OverdueDelay \in Nat \ {0} /\ RetryDelay \in Nat \ {0}
  BY <1>1, RunnerFields, ConstantsAssumption DEF Off
<1>4. CASE TakeSnapshot(r)
  <2>1. /\ new.at = "select" /\ new.schedule = schedule /\ new.nextRun = nextRun
        /\ new.leading = TRUE /\ (schedule = 0 \/ nextRun = 0 => new.timer = Off)
    BY <1>1, <1>4, SnapshotTaken
  <2>2. UNCHANGED <<now, started, schedule, nextRun>> /\ me.at = "snapshot"
    BY <1>4 DEF TakeSnapshot, sharedVars, historyVars
  <2>3. Past' BY <2>2, PastStays
  <2>4. schedule # 0 => nextRun \notin started
    <3>1. SUFFICES ASSUME schedule # 0, nextRun \in started PROVE FALSE OBVIOUS
    <3>2. PICK s \in Runners : runner[s].at = "started" BY <1>1, <1>2, <3>1 DEF Past
    <3>3. s # r /\ Armed(runner[s]) BY <2>2, <3>2 DEF Armed
    <3>4. QED BY <3>3, OthersNotSole
  <2>5. RunOK(r)' BY <2>1, <2>2, <2>4 DEF RunOK, HasRun
  <2>6. nextRun <= nextRun' BY <1>1, <2>2
  <2>7. SoleOK(r)' BY <2>1, <2>6 DEF SoleOK, Armed
  <2>8. QED BY <2>2, <2>3, <2>5, <2>7, OneStepTwice
<1>5. CASE TimerNotifies(r)
  <2> DEFINE wait == IF me.nextRun <= now THEN OverdueDelay ELSE me.nextRun - now
  <2>1. /\ me.at = "select" /\ me.timer = 0
        /\ new.at = "select" /\ new.timer = wait
        /\ new.schedule = me.schedule /\ new.nextRun = me.nextRun
    BY <1>1, <1>5, Notified
  <2>2. wait # 0 BY <1>1, <1>3
  <2> HIDE DEF wait
  <2>3. UNCHANGED <<now, started, schedule, nextRun, running>>
    BY <1>5 DEF TimerNotifies, sharedVars, historyVars
  <2>4. Past' BY <2>1, <2>3, PastStays
  <2>5. HasRun(me) BY <1>2, <1>3, <2>1 DEF RunOK
  <2>6. RunOK(r)' BY <1>2, <2>1, <2>3, <2>5 DEF RunOK, HasRun, InLoop
  <2>7. Sole(r)' <=> Sole(r) BY <2>3, SoleStays
  <2>8. SoleOK(r)' BY <1>2, <2>1, <2>2, <2>3, <2>7 DEF SoleOK, Armed
  <2>9. QED BY <2>3, <2>4, <2>6, <2>8, OneStepTwice
<1>6. CASE TimerRuns(r)
  <2>1. /\ me.at = "select" /\ me.timer = 0 /\ ~me.leading
        /\ new.at = "precheck"
        /\ new.schedule = me.schedule /\ new.nextRun = me.nextRun
    BY <1>1, <1>6, RunComes
  <2>2. UNCHANGED <<now, started, schedule, nextRun, running>>
    BY <1>6 DEF TimerRuns, sharedVars, historyVars
  <2>3. Past' BY <2>1, <2>2, PastStays
  <2>4. HasRun(me) BY <1>2, <1>3, <2>1 DEF RunOK
  <2>5. RunOK(r)' BY <1>2, <2>1, <2>2, <2>4 DEF RunOK, HasRun, InLoop
  <2>6. Sole(r) BY <1>2, <2>1 DEF SoleOK, Armed
  <2>7. Sole(r)' BY <2>2, <2>6, SoleStays
  <2>8. SoleOK(r)' BY <1>2, <2>1, <2>2, <2>6, <2>7 DEF SoleOK
  <2>9. QED BY <2>2, <2>3, <2>5, <2>8, OneStepTwice
<1>7. CASE PreCheckPasses(r)
  <2>1. /\ me.at = "precheck" /\ new.at = "started"
        /\ new.schedule = me.schedule /\ new.nextRun = me.nextRun
        /\ started' = started \cup {me.nextRun}
    BY <1>1, <1>7, Prechecked
  <2>2. UNCHANGED <<now, schedule, nextRun, running>>
    BY <1>7 DEF PreCheckPasses, sharedVars
  <2>3. Sole(r) BY <1>2, <2>1 DEF SoleOK, Armed
  <2>4. Sole(r)' BY <2>2, <2>3, SoleStays
  <2>5. me.nextRun <= nextRun /\ me.nextRun <= now
    BY <1>2, <2>1, <2>3 DEF SoleOK, OnTime
  <2>6. Past'
    <3>1. \A x \in started' : x <= now' BY <1>2, <2>1, <2>2, <2>5 DEF Past
    <3>2. ASSUME schedule # 0, NEW x \in started'
          PROVE  x < nextRun \/ (x = nextRun /\ new.at = "started")
      <4>1. CASE x = me.nextRun BY <1>1, <1>3, <2>1, <2>5, <4>1
      <4>2. CASE x \in started BY <1>2, <2>1, <3>2, <4>2 DEF Past
      <4>3. QED BY <2>1, <4>1, <4>2
    <3>3. QED BY <2>2, <3>1, <3>2 DEF Past
  <2>7. RunOK(r)' BY <1>2, <2>1, <2>2 DEF RunOK, HasRun, InLoop
  <2>8. SoleOK(r)' BY <2>1, <2>4 DEF SoleOK
  <2>9. QED BY <2>2, <2>3, <2>6, <2>7, <2>8, OneStepTwice
<1>8. CASE PreCheckFails(r)
  <2>1. /\ me.at = "precheck"
        /\ (new.at = "select" /\ new.timer = RetryDelay) \/ new.at = "given up"
        /\ new.schedule = me.schedule /\ new.nextRun = me.nextRun
    BY <1>1, <1>8, PrecheckFailed
  <2>2. UNCHANGED <<now, started, schedule, nextRun, running>>
    BY <1>8 DEF PreCheckFails, sharedVars, historyVars
  <2>3. Past' BY <2>1, <2>2, PastStays
  <2>4. RunOK(r)' BY <1>2, <2>1, <2>2 DEF RunOK, HasRun, InLoop
  <2>5. Sole(r) BY <1>2, <2>1 DEF SoleOK, Armed
  <2>6. Sole(r)' BY <2>2, <2>5, SoleStays
  <2>7. SoleOK(r)' BY <1>2, <2>1, <2>2, <2>5, <2>6 DEF SoleOK
  <2>8. QED BY <2>2, <2>3, <2>4, <2>7, OneStepTwice
<1>9. CASE AdvanceNextRun(r)
  <2>1. me.at \in {"started", "given up"} /\ nextRun' = Advanced(r)
    BY <1>9 DEF AdvanceNextRun
  <2>2. new.at = "snapshot" BY <1>1, <1>9, LoopsAgain
  <2>3. schedule # 0 BY <1>2, <2>1 DEF RunOK, HasRun, InLoop
  <2>4. nextRun' \in Nat /\ nextRun' > nextRun
    BY <1>1, <2>1, <2>3, NextAfterIsLater DEF Advanced
  <2>5. UNCHANGED <<now, started, schedule>> BY <1>9 DEF AdvanceNextRun, historyVars
  <2>6. \A x \in started : x < nextRun' BY <1>1, <1>2, <2>3, <2>4 DEF Past
  <2>7. Past' BY <1>2, <2>5, <2>6 DEF Past
  <2>8. QED BY <2>2, <2>5, <2>7, OutOfLoop, OneStepTwice
<1>10. CASE ControlRecalculate(r)
  <2>1. new.at = "snapshot" BY <1>1, <1>10, LoopsAgain
  <2>2. Receives(r, "recalculate") /\ UNCHANGED <<now, started>>
    BY <1>10 DEF ControlRecalculate, Receives
  <2>3. Head(controlCh).data \in Periods
    BY <1>1, <2>2, ReceiveType DEF Kinds, MessageRecord, Receives
  <2>4. schedule' \in Periods /\ nextRun' = NextAfter(schedule', now)
    BY <1>10, <2>3 DEF ControlRecalculate
  <2>5. nextRun' > now /\ nextRun' \in Nat /\ schedule' # 0
    BY <1>1, <2>4, NextAfterIsLater, ConstantsAssumption
  <2>6. Past' BY <1>1, <1>2, <2>2, <2>5 DEF Past
  <2>7. QED BY <2>1, <2>2, <2>5, <2>6, OutOfLoop, OneStepTwice
<1>11. CASE ControlPostpone(r)
  <2>1. Waiting("postpone") BY <1>1, <1>11, Received DEF ControlPostpone, Kinds
  <2>2. QED BY <1>2, <2>1
<1>12. CASE ControlSkip(r)
  <2>1. new.at = "snapshot" BY <1>1, <1>12, LoopsAgain
  <2>2. UNCHANGED <<now, started, schedule, nextRun>> /\ me.at = "select"
    BY <1>12 DEF ControlSkip, Receives, sharedVars
  <2>3. Past' BY <2>2, PastStays
  <2>4. QED BY <2>1, <2>2, <2>3, OutOfLoop, OneStepTwice
<1>13. CASE ControlWake(r)
  <2>1. /\ me.at = "select" /\ new.at = "select" /\ new.timer = WakeTimer(me)
        /\ new.schedule = me.schedule /\ new.nextRun = me.nextRun
    BY <1>1, <1>13, WokenUp
  <2>2. WakeTimer(me) # 0 /\ (~HasRun(me) => WakeTimer(me) = Off)
    <3> DEFINE target == IF me.leading THEN me.nextRun - Lead ELSE me.nextRun
    <3>1. target \in Int BY <1>3, Numbers
    <3>2. WakeTimer(me) = IF ~HasRun(me) THEN Off
                          ELSE IF target <= now THEN OverdueDelay ELSE target - now
      BY DEF WakeTimer, HasRun
    <3> HIDE DEF target
    <3>3. QED BY <1>1, <1>3, <3>1, <3>2
  <2>3. UNCHANGED <<now, started, schedule, nextRun, running>>
    BY <1>13 DEF ControlWake, Receives, sharedVars
  <2>4. Past' BY <2>1, <2>3, PastStays
  <2>5. RunOK(r)' BY <1>2, <2>1, <2>2, <2>3 DEF RunOK, HasRun, InLoop
  <2>6. Sole(r)' <=> Sole(r) BY <2>3, SoleStays
  <2>7. SoleOK(r)' BY <1>2, <2>1, <2>2, <2>3, <2>6 DEF SoleOK, Armed
  <2>8. QED BY <2>3, <2>4, <2>5, <2>7, OneStepTwice
<1>14. CASE SelectStop(r) \/ Exit(r)
  <2>1. new.at \in {"exit", "none"} BY <1>1, <1>14, Leaves
  <2>2. UNCHANGED <<now, started, schedule, nextRun>> /\ me.at # "started"
    BY <1>14 DEF SelectStop, Exit, sharedVars, historyVars
  <2>3. Past' BY <2>2, PastStays
  <2>4. QED BY <2>1, <2>2, <2>3, OutOfLoop, OneStepTwice
<1>15. QED
  BY <1>4, <1>5, <1>6, <1>7, <1>8, <1>9, <1>10, <1>11, <1>12, <1>13, <1>14
     DEF RunnerStep

LEMMA TwiceNext ==
    ASSUME TwiceInv, Prompt, "postpone" \notin Requests, [Next]_vars
    PROVE  TwiceInv'
<1>1. KeepInv' BY KeepNext DEF TwiceInv
<1>2. CASE UNCHANGED vars
  <2>1. Past' BY <1>2 DEF vars, TwiceInv, Past
  <2>2. \A r \in Runners : RunOK(r)' /\ SoleOK(r)'
    BY <1>2 DEF vars, TwiceInv, RunOK, SoleOK, HasRun, Armed, Sole
  <2>3. QED BY <1>1, <2>1, <2>2 DEF TwiceInv
<1>3. CASE Next
  <2>1. Past' /\ \A r \in Runners : RunOK(r)' /\ SoleOK(r)'
    BY <1>3, TwiceClient, TwiceRunner, TwiceTime DEF Next
  <2>2. QED BY <1>1, <2>1 DEF TwiceInv
<1>4. QED BY <1>2, <1>3

\* As long as nobody postpones, and the clock waits for goroutines that can run,
\* no run is started twice: a run that starts has its runner to itself, is not
\* past the next run, and is passed over before anyone reads that again
\* (runScheduled, advanceNextRun, ctrlRecalculate).  With postponements a run may
\* start early, and again on time after a restart.
THEOREM RunsStartOnce ==
    ASSUME Prompt, "postpone" \notin Requests PROVE Spec => NoRunStartsTwice
<1>1. TwiceInv /\ [Next]_vars => TwiceInv' BY TwiceNext
<1>2. TwiceInv /\ [Next]_vars
        => [\A r \in Runners : Starting(r) => runner[r].nextRun \notin started]_vars
  BY DEF TwiceInv, RunOK, Starting
<1>3. QED BY <1>1, <1>2, TwiceInit, PTL DEF Spec, NoRunStartsTwice

-----------------------------------------------------------------------------
(* Skips that reach the runner in time hold *)

\* A runner that waits for a run whose skip has been heeded will be told, for
\* the run is not due: the message is still in the channel, unless the scheduler
\* is stopped and another runner may have taken it.
Told(r) ==
    LET me == runner[r] IN
    me.at \in {"select", "precheck"} /\ me.nextRun \in heeded
        => now < me.nextRun /\ (stopped \/ Waiting("skip"))

HeedInv ==
    /\ Inv
    /\ \A x \in heeded : x < nextRun
    /\ \A r \in Runners : Told(r)

LEMMA HeedTypes ==
    ASSUME HeedInv
    PROVE  /\ Typed /\ now \in Nat /\ nextRun \in Nat /\ heeded \subseteq Nat
           /\ schedule \in Periods \cup {0}
BY DEF HeedInv, Inv, Typed, Scalars

LEMMA HeedInit == Init => HeedInv
<1> SUFFICES ASSUME Init PROVE HeedInv OBVIOUS
<1>1. heeded = {} BY DEF Init
<1>2. QED BY <1>1, InitInv DEF HeedInv, Told

\* Steps that heed no skip, take none from the channel, and let the clock alone.
LEMMA HeedFrame ==
    ASSUME HeedInv, UNCHANGED <<now, runner>>, heeded' \in {heeded, {}},
           stopped => stopped', Waiting("skip") => Waiting("skip")',
           nextRun' \in Nat, heeded' = heeded => nextRun' >= nextRun
    PROVE  (\A x \in heeded' : x < nextRun') /\ \A r \in Runners : Told(r)'
<1>1. now \in Nat /\ nextRun \in Nat /\ heeded \subseteq Nat BY HeedTypes
<1>2. \A x \in heeded' : x < nextRun'
  <2>1. CASE heeded' = {} BY <2>1
  <2>2. CASE heeded' = heeded BY <1>1, <2>2 DEF HeedInv
  <2>3. QED BY <2>1, <2>2
<1>3. ASSUME NEW r \in Runners PROVE Told(r)'
  <2>1. Told(r) BY DEF HeedInv
  <2>2. CASE heeded' = {} BY <2>2 DEF Told
  <2>3. CASE heeded' = heeded BY <2>1, <2>3 DEF Told
  <2>4. QED BY <2>2, <2>3
<1>4. QED BY <1>2, <1>3

LEMMA HeedClient ==
    ASSUME HeedInv, NEW c \in Clients, UserRequest(c) \/ ClientStep(c)
    PROVE  (\A x \in heeded' : x < nextRun') /\ \A r \in Runners : Told(r)'
<1>1. /\ Typed /\ now \in Nat /\ nextRun \in Nat /\ heeded \subseteq Nat
      /\ schedule \in Periods \cup {0}
  BY HeedTypes
<1>2. now' = now /\ (stopped => stopped')
  <2>1. CASE UserRequest(c)
    BY <2>1 DEF UserRequest, ScheduleRequest, DisableRequest, Postpone, Skip
  <2>2. CASE ScheduleCall(c) BY <2>2, Zenon DEF ScheduleCall
  <2>5. CASE Start(c) BY <2>5 DEF Start
  <2>6. CASE ReplyDisabled(c) BY <2>6, Zenon DEF ReplyDisabled
  <2>3. CASE Send(c) BY <2>3, Zenon DEF Send
  <2>4. CASE Stop(c) BY <2>4 DEF Stop
  <2>7. QED BY <2>1, <2>2, <2>3, <2>4, <2>5, <2>6 DEF ClientStep
<1>3. CASE Skip(c)
  <2>1. schedule # 0 /\ nextRun' = NextAfter(schedule, nextRun) BY <1>3 DEF Skip
  <2>2. nextRun' \in Nat /\ nextRun' > nextRun BY <1>1, <2>1, NextAfterIsLater
  <2>3. UNCHANGED <<runner, heeded, controlCh>> BY <1>3 DEF Skip
  <2>4. Waiting("skip") => Waiting("skip")' BY <2>3 DEF Waiting
  <2>5. QED BY <1>1, <1>2, <2>2, <2>3, <2>4, HeedFrame
<1>4. CASE ScheduleCall(c)
  <2>1. UNCHANGED <<runner, controlCh>> BY <1>4 DEF ScheduleCall
  <2>2. Waiting("skip") => Waiting("skip")' BY <2>1 DEF Waiting
  <2>3. \/ heeded' = heeded /\ nextRun' = nextRun
        \/ heeded' = {} /\ nextRun' \in Nat
    <3>1. CASE running BY <1>4, <3>1 DEF ScheduleCall, sharedVars
    <3>2. CASE ~running
      <4> DEFINE s == client[c].data
      <4>1. s \in Periods BY <1>1, <1>4 DEF ScheduleCall, Typed, ClientRecord
      <4>2. heeded' = {} /\ nextRun' = NextAfter(s, now) BY <1>4, <3>2 DEF ScheduleCall
      <4>3. QED BY <1>1, <4>1, <4>2, NextAfterIsLater
    <3>3. QED BY <3>1, <3>2
  <2>4. CASE heeded' = heeded /\ nextRun' = nextRun
    BY <1>1, <1>2, <2>1, <2>2, <2>4, HeedFrame
  <2>5. CASE heeded' = {} /\ nextRun' \in Nat
    <3>1. \A r \in Runners : Told(r)' BY <2>5 DEF Told
    <3>2. QED BY <2>5, <3>1
  <2>6. QED BY <2>3, <2>4, <2>5
<1>5. CASE Send(c)
  <2>1. PICK k \in Kinds, d \in Nat : k = client[c].kind /\ d = client[c].data
    BY <1>1, <1>5 DEF Send, Typed, ClientRecord
  <2> DEFINE mark == k = "skip" /\ controlCh' # controlCh /\ now < d /\ d < nextRun
  <2>2. TrySend(k, d) /\ heeded' = IF mark THEN heeded \cup {d} ELSE heeded
    BY <1>5, <2>1 DEF Send
  <2>3. UNCHANGED <<runner, nextRun, stopped>> BY <1>5 DEF Send, sharedVars
  <2>4. /\ Waiting("skip") => Waiting("skip")'
        /\ controlCh' # controlCh => Waiting(k)'
    BY <1>1, <2>2, Sent DEF Kinds
  <2> HIDE DEF mark
  <2>5. CASE ~mark
    <3>1. heeded' = heeded BY <2>2, <2>5
    <3>2. QED BY <1>1, <1>2, <2>3, <2>4, <3>1, HeedFrame
  <2>6. CASE mark
    <3>1. heeded' = heeded \cup {d} /\ Waiting("skip")' BY <2>2, <2>4, <2>6 DEF mark
    <3>2. \A x \in heeded' : x < nextRun' BY <2>3, <2>6, <3>1 DEF HeedInv, mark
    <3>3. ASSUME NEW r \in Runners PROVE Told(r)'
      <4>1. Told(r) BY DEF HeedInv
      <4>2. CASE runner[r].nextRun = d BY <1>2, <2>3, <2>6, <3>1, <4>2 DEF Told, mark
      <4>3. CASE runner[r].nextRun # d BY <1>2, <2>3, <3>1, <4>1, <4>3 DEF Told
      <4>4. QED BY <4>2, <4>3
    <3>4. QED BY <3>2, <3>3
  <2>7. QED BY <2>5, <2>6
<1>6. CASE Start(c)
  <2>1. UNCHANGED <<controlCh, stopped, nextRun, heeded>>
    BY <1>6 DEF Start, sharedVars, historyVars
  <2>2. Waiting("skip") => Waiting("skip")' BY <2>1 DEF Waiting
  <2>3. CASE runner' = runner BY <1>1, <1>2, <2>1, <2>2, <2>3, HeedFrame
  <2>4. ASSUME NEW s \in Runners, runner'[s].at = "snapshot",
               \A x \in Runners \ {s} : runner'[x] = runner[x]
        PROVE  \A r \in Runners : Told(r)'
    <3>1. Told(s)' BY <2>4 DEF Told
    <3>2. ASSUME NEW r \in Runners \ {s} PROVE Told(r)'
      <4>1. Told(r) /\ runner'[r] = runner[r] BY <2>4 DEF HeedInv
      <4>2. QED BY <1>2, <2>1, <2>2, <4>1 DEF Told
    <3>3. QED BY <3>1, <3>2
  <2>5. \A x \in heeded' : x < nextRun' BY <2>1 DEF HeedInv
  <2>6. QED BY <1>1, <1>6, <2>3, <2>4, <2>5, StartedRunner
<1>7. CASE ~(Skip(c) \/ ScheduleCall(c) \/ Send(c) \/ Start(c))
  <2>1. UNCHANGED <<runner, controlCh, nextRun, heeded>>
    BY <1>7 DEF UserRequest, ScheduleRequest, DisableRequest, Postpone, ClientStep, Stop,
                ReplyDisabled, sharedVars, historyVars
  <2>2. Waiting("skip") => Waiting("skip")' BY <2>1 DEF Waiting
  <2>3. QED BY <1>1, <1>2, <2>1, <2>2, HeedFrame
<1>8. QED BY <1>3, <1>4, <1>5, <1>6, <1>7

\* A step of runner r that leaves the channel and what has been heeded alone,
\* and moves the next run only forward.
LEMMA HeedOwn ==
    ASSUME HeedInv, NEW r \in Runners, RunnerStep(r), Told(r)',
           UNCHANGED <<now, stopped, heeded>>, nextRun' \in Nat, nextRun' >= nextRun,
           stopped \/ (Waiting("skip") => Waiting("skip")') \/ Alive(r)
    PROVE  (\A x \in heeded' : x < nextRun') /\ \A s \in Runners : Told(s)'
<1>1. /\ Typed /\ now \in Nat /\ nextRun \in Nat /\ heeded \subseteq Nat BY HeedTypes
<1>2. \A x \in heeded' : x < nextRun' BY <1>1 DEF HeedInv
<1>3. ASSUME NEW s \in Runners \ {r} PROVE Told(s)'
  <2>1. Told(s) /\ runner'[s] = runner[s] BY <1>1, OthersStay DEF HeedInv
  <2>2. CASE stopped \/ (Waiting("skip") => Waiting("skip")') BY <2>1, <2>2 DEF Told
  <2>3. CASE Alive(r) /\ ~stopped
    <3>1. ~Alive(s) BY <2>3 DEF HeedInv, Inv, RunningIsTrue
    <3>2. QED BY <2>1, <3>1 DEF Told, Alive
  <2>4. QED BY <2>2, <2>3
<1>4. QED BY <1>2, <1>3

LEMMA HeedRunner ==
    ASSUME HeedInv, NEW r \in Runners, RunnerStep(r)
    PROVE  (\A x \in heeded' : x < nextRun') /\ \A s \in Runners : Told(s)'
<1>1. /\ Typed /\ now \in Nat /\ nextRun \in Nat /\ heeded \subseteq Nat
      /\ schedule \in Periods \cup {0}
  BY HeedTypes
<1> DEFINE me == runner[r]
           new == runner'[r]
<1>2. Told(r) BY DEF HeedInv
<1>3. now' = now /\ stopped' = stopped
  BY DEF RunnerStep, TakeSnapshot, TimerNotifies, TimerRuns, PreCheckPasses,
         PreCheckFails, AdvanceNextRun, ControlRecalculate, ControlPostpone,
         ControlSkip, ControlWake, SelectStop, Exit, Receives
\* The same run, the channel and the next run as they were.
<1>4. ASSUME UNCHANGED <<heeded, nextRun, controlCh>>,
             \/ new.at \in {"select", "precheck"}
                   => me.at \in {"select", "precheck"} /\ new.nextRun = me.nextRun
      PROVE  (\A x \in heeded' : x < nextRun') /\ \A s \in Runners : Told(s)'
  <2>1. Waiting("skip") => Waiting("skip")' BY <1>4 DEF Waiting
  <2>2. Told(r)' BY <1>2, <1>3, <1>4, <2>1 DEF Told
  <2>3. QED BY <1>1, <1>3, <1>4, <2>1, <2>2, HeedOwn
<1>5. CASE TakeSnapshot(r)
  <2>1. new.nextRun = nextRun BY <1>1, <1>5, SnapshotTaken
  <2>2. UNCHANGED <<heeded, nextRun, controlCh>>
    BY <1>5 DEF TakeSnapshot, sharedVars, historyVars
  <2>3. nextRun \notin heeded BY <1>1 DEF HeedInv
  <2>4. Told(r)' BY <2>1, <2>2, <2>3 DEF Told
  <2>5. Waiting("skip") => Waiting("skip")' BY <2>2 DEF Waiting
  <2>6. QED BY <1>1, <1>3, <2>2, <2>4, <2>5, HeedOwn
<1>6. CASE TimerNotifies(r)
  <2>1. me.at = "select" /\ new.nextRun = me.nextRun BY <1>1, <1>6, Notified
  <2>2. QED BY <1>4, <1>6, <2>1 DEF TimerNotifies, sharedVars, historyVars
<1>7. CASE TimerRuns(r)
  <2>1. me.at = "select" /\ new.nextRun = me.nextRun BY <1>1, <1>7, RunComes
  <2>2. QED BY <1>4, <1>7, <2>1 DEF TimerRuns, sharedVars, historyVars
<1>8. CASE PreCheckPasses(r)
  <2>1. new.at = "started" BY <1>1, <1>8, Prechecked
  <2>2. QED BY <1>4, <1>8, <2>1 DEF PreCheckPasses, sharedVars
<1>9. CASE PreCheckFails(r)
  <2>1. me.at = "precheck" /\ new.nextRun = me.nextRun BY <1>1, <1>9, PrecheckFailed
  <2>2. QED BY <1>4, <1>9, <2>1 DEF PreCheckFails, sharedVars, historyVars
<1>10. CASE AdvanceNextRun(r)
  <2>1. new.at = "snapshot" BY <1>1, <1>10, LoopsAgain
  <2>2. Told(r)' BY <2>1 DEF Told
  <2>3. UNCHANGED <<heeded, controlCh>> /\ nextRun' = Advanced(r)
    BY <1>10 DEF AdvanceNextRun, historyVars
  <2>4. Waiting("skip") => Waiting("skip")' BY <2>3 DEF Waiting
  <2>5. nextRun' \in Nat /\ nextRun' >= nextRun
    <3>1. CASE schedule = 0 BY <1>1, <2>3, <3>1 DEF Advanced
    <3>2. CASE schedule # 0 BY <1>1, <2>3, <3>2, NextAfterIsLater DEF Advanced
    <3>3. QED BY <3>1, <3>2
  <2>6. QED BY <1>3, <2>2, <2>3, <2>4, <2>5, HeedOwn
<1>11. CASE ControlRecalculate(r)
  <2>1. heeded' = {} BY <1>11 DEF ControlRecalculate
  <2>2. QED BY <2>1 DEF Told
<1>12. CASE ControlPostpone(r)
  <2>1. me.at = "select" /\ new.nextRun = me.nextRun BY <1>1, <1>12, HeldBack
  <2>2. Receives(r, "postpone") /\ UNCHANGED <<nextRun, heeded>>
    BY <1>12 DEF ControlPostpone, sharedVars
  <2>3. Waiting("skip") => Waiting("skip")' BY <1>1, <2>2, Received DEF Kinds
  <2>4. Told(r)' BY <1>2, <1>3, <2>1, <2>2, <2>3 DEF Told
  <2>5. QED BY <1>1, <1>3, <2>2, <2>3, <2>4, HeedOwn
<1>13. CASE ControlSkip(r)
  <2>1. new.at = "snapshot" BY <1>1, <1>13, LoopsAgain
  <2>2. Told(r)' BY <2>1 DEF Told
  <2>3. UNCHANGED <<nextRun, heeded>> /\ Alive(r)
    BY <1>13 DEF ControlSkip, Receives, sharedVars, Alive
  <2>4. QED BY <1>1, <1>3, <2>2, <2>3, HeedOwn
<1>14. CASE ControlWake(r)
  <2>1. me.at = "select" /\ new.nextRun = me.nextRun BY <1>1, <1>14, WokenUp
  <2>2. Receives(r, "wake") /\ UNCHANGED <<nextRun, heeded>>
    BY <1>14 DEF ControlWake, sharedVars
  <2>3. Waiting("skip") => Waiting("skip")' BY <1>1, <2>2, Received DEF Kinds
  <2>4. Told(r)' BY <1>2, <1>3, <2>1, <2>2, <2>3 DEF Told
  <2>5. QED BY <1>1, <1>3, <2>2, <2>3, <2>4, HeedOwn
<1>15. CASE SelectStop(r) \/ Exit(r)
  <2>1. new.at \in {"exit", "none"} BY <1>1, <1>15, Leaves
  <2>2. UNCHANGED <<heeded, nextRun, controlCh>>
    BY <1>15 DEF SelectStop, Exit, sharedVars, historyVars
  <2>3. QED BY <1>4, <2>1, <2>2
<1>16. QED
  BY <1>5, <1>6, <1>7, <1>8, <1>9, <1>10, <1>11, <1>12, <1>13, <1>14, <1>15
     DEF RunnerStep

\* The clock moves only when no runner is about to be told.
LEMMA HeedTime ==
    ASSUME HeedInv, Prompt, HandleWakeUp \/ Tick \/ SystemSleeps
    PROVE  (\A x \in heeded' : x < nextRun') /\ \A r \in Runners : Told(r)'
<1>1. Typed /\ now \in Nat /\ nextRun \in Nat /\ heeded \subseteq Nat BY HeedTypes
<1>2. UNCHANGED <<nextRun, heeded, stopped>>
  BY DEF HandleWakeUp, Tick, SystemSleeps, sharedVars, historyVars
<1>3. CASE HandleWakeUp
  <2>1. TrySend("wake", 0) /\ UNCHANGED <<now, runner>> BY <1>3 DEF HandleWakeUp
  <2>2. Waiting("skip") => Waiting("skip")' BY <1>1, <2>1, Sent DEF Kinds
  <2>3. QED BY <1>1, <1>2, <2>1, <2>2, HeedFrame
<1>4. CASE Tick \/ SystemSleeps
  <2>1. Quiet BY <1>4 DEF Tick, SystemSleeps
  <2>2. \A x \in heeded' : x < nextRun' BY <1>2 DEF HeedInv
  <2>3. ASSUME NEW r \in Runners PROVE Told(r)'
    <3>1. runner'[r].at = runner[r].at /\ runner'[r].nextRun = runner[r].nextRun
      <4>1. CASE Tick BY <1>1, <4>1, Ticked
      <4>2. CASE SystemSleeps BY <4>2 DEF SystemSleeps
      <4>3. QED BY <1>4, <4>1, <4>2
    <3>2. runner[r].at \notin {"select", "precheck"} \/ (controlCh = <<>> /\ ~stopped)
      BY <2>1 DEF Quiet
    <3>3. CASE runner[r].at \notin {"select", "precheck"} BY <3>1, <3>3 DEF Told
    <3>4. CASE controlCh = <<>> /\ ~stopped
      <4>1. ~Waiting("skip") BY <3>4, NoneWaits
      <4>2. Told(r) BY DEF HeedInv
      <4>3. QED BY <1>2, <3>1, <3>4, <4>1, <4>2 DEF Told
    <3>5. QED BY <3>2, <3>3, <3>4
  <2>4. QED BY <2>2, <2>3
<1>5. QED BY <1>3, <1>4

LEMMA HeedNext ==
    ASSUME HeedInv, Prompt, "restart" \notin Requests, [Next]_vars
    PROVE  HeedInv'
<1>1. Inv' BY NextInv DEF HeedInv
<1>2. CASE UNCHANGED vars
  BY <1>1, <1>2 DEF vars, HeedInv, Told, Waiting
<1>3. CASE Next
  <2>1. ~Restart BY DEF Restart
  <2>2. (\A x \in heeded' : x < nextRun') /\ \A r \in Runners : Told(r)'
    BY <1>3, <2>1, HeedClient, HeedRunner, HeedTime DEF Next
  <2>3. QED BY <1>1, <2>2 DEF HeedInv
<1>4. QED BY <1>2, <1>3

\* As long as the daemon is not restarted, and the clock waits for goroutines
\* that can run, a run whose skip reached the channel before the run was due is
\* not started when it is due, postponements and stops included: the skip is
\* taken from the channel before the clock goes on, and after it the runner
\* reads a later run (Skip, ctrlSkip).  A restart forgets skips.
THEOREM HeededSkips ==
    ASSUME Prompt, "restart" \notin Requests PROVE Spec => HeededSkipsHold
<1>1. HeedInv /\ [Next]_vars => HeedInv' BY HeedNext
<1>2. HeedInv /\ [Next]_vars
        => [\A r \in Runners :
               Starting(r) /\ runner[r].nextRun <= now => runner[r].nextRun \notin heeded]_vars
  <2> SUFFICES ASSUME HeedInv, NEW r \in Runners, Starting(r), runner[r].nextRun <= now
               PROVE  runner[r].nextRun \notin heeded
    OBVIOUS
  <2>1. Told(r) /\ runner[r].at = "precheck" BY DEF HeedInv, Starting
  <2>2. runner[r].nextRun \in Nat /\ now \in Nat BY HeedTypes, RunnerFields
  <2>3. QED BY <2>1, <2>2 DEF Told
<1>3. QED BY <1>1, <1>2, HeedInit, PTL DEF Spec, HeededSkipsHold
=============================================================================
