---------------------------- MODULE MenuAppProofs ----------------------------
(***************************************************************************)
(* The menu offers what the daemon takes, and its parts agree, for every   *)
(* set of limits and Macs and any number of requests and failed calls.     *)
(*                                                                         *)
(* The first part is about the daemon alone, ChargeService: what its       *)
(* promises add up to for the user's limit.  The app and the command line  *)
(* move it by its own steps only (DaemonUnderApp).  The second part is     *)
(* about the menu: what each update makes of it, what holds between any    *)
(* two calls (MenuInv), and what an undisturbed refresh has read so far    *)
(* (FreshInv).                                                             *)
(***************************************************************************)
EXTENDS MenuApp, TLAPS

Sessions == [phase : Phases, paused : BOOLEAN, home : BOOLEAN]

PromiseInv ==
    /\ session \in Sessions
    /\ timer \in BOOLEAN /\ cut \in BOOLEAN /\ adapter \in BOOLEAN
    /\ Daemon!LimitPromise

LEMMA InterruptedKeepsPhase ==
    ASSUME session \in Sessions
    PROVE  /\ Daemon!Interrupted(session) \in Sessions
           /\ Daemon!Interrupted(session).phase = session.phase
  BY DEF Daemon!Interrupted, Sessions, Phases

\* A step of the calibration ends in the new session or in the old one, interrupted.
LEMMA BecomesOneOfTwo ==
    ASSUME session \in Sessions, NEW s \in Sessions, Daemon!Becomes(s)
    PROVE  session' \in Sessions /\ session'.phase \in {s.phase, session.phase}
  BY InterruptedKeepsPhase DEF Daemon!Becomes

\* A session that stays one owes nothing: neither timer runs under it.
LEMMA OwnedStep ==
    ASSUME PromiseInv, session.phase # "Idle",
           NEW s \in Sessions, s.phase # "Idle", Daemon!Becomes(s),
           UNCHANGED <<timer, cut>>, adapter' \in BOOLEAN
    PROVE  PromiseInv'
<1>1. session' \in Sessions /\ session'.phase # "Idle"
  BY BecomesOneOfTwo DEF PromiseInv
<1> QED BY <1>1 DEF PromiseInv, Daemon!LimitPromise

LEMMA GoesStaysOwned ==
    ASSUME PromiseInv, NEW from, NEW to \in Phases, from # "Idle", to # "Idle",
           Daemon!Goes(from, to), adapter' \in BOOLEAN
    PROVE  PromiseInv'
<1> DEFINE s == [session EXCEPT !.phase = to]
<1>1. s \in Sessions /\ s.phase # "Idle" BY DEF PromiseInv, Sessions
<1>2. Daemon!Becomes(s) /\ session.phase # "Idle" /\ UNCHANGED <<timer, cut>>
  BY DEF Daemon!Goes
<1> HIDE DEF s
<1> QED BY <1>1, <1>2, OwnedStep

LEMMA EndSessionGivesBack ==
    ASSUME PromiseInv, session.phase # "Idle", Daemon!EndSession
    PROVE  PromiseInv'
<1>1. Daemon!NoSession \in Sessions BY DEF Daemon!NoSession, Sessions, Phases
<1>2. Daemon!Becomes(Daemon!NoSession) BY DEF Daemon!EndSession
<1>3. session' \in Sessions BY <1>1, <1>2, BecomesOneOfTwo DEF PromiseInv
<1>4. session.home \in BOOLEAN BY DEF PromiseInv, Sessions
<1>5. /\ limit' = wanted /\ adapter' = session.home
      /\ UNCHANGED <<wanted, timer, cut>>
  BY DEF Daemon!EndSession
<1>6. ~timer /\ ~cut BY DEF PromiseInv, Daemon!LimitPromise
<1> QED BY <1>3, <1>4, <1>5, <1>6 DEF PromiseInv, Daemon!LimitPromise

LEMMA LifeKeepsPromise ==
    ASSUME PromiseInv, Daemon!Stop \/ Daemon!Restart
    PROVE  PromiseInv'
<1>1. CASE Daemon!Stop
  <2>1. /\ session' \in Sessions /\ session'.phase = session.phase
        /\ adapter' \in BOOLEAN /\ UNCHANGED <<limit, wanted, timer, cut>>
    BY <1>1, InterruptedKeepsPhase DEF Daemon!Stop, PromiseInv
  <2> QED BY <2>1 DEF PromiseInv, Daemon!LimitPromise
<1>2. CASE Daemon!Restart
  BY <1>2 DEF Daemon!Restart, PromiseInv, Daemon!LimitPromise
<1> QED BY <1>1, <1>2

LEMMA StartKeepsPromise ==
    ASSUME PromiseInv, Daemon!StartSession
    PROVE  PromiseInv'
<1> DEFINE s == [phase |-> "Discharge", paused |-> FALSE, home |-> adapter]
<1>1. s \in Sessions /\ s.phase # "Idle" BY DEF PromiseInv, Sessions, Phases
<1>2. Daemon!Becomes(s) /\ Daemon!SettingsKept BY DEF Daemon!StartSession
<1>3. session' = s \/ session' = Daemon!Interrupted(session) BY <1>2 DEF Daemon!Becomes
<1>4. ~timer /\ ~cut BY DEF Daemon!StartSession
<1> HIDE DEF s
<1>5. session' \in Sessions
  BY <1>1, <1>3, InterruptedKeepsPhase DEF PromiseInv
<1>6. session'.phase # "Idle" \/ session'.phase = session.phase
  BY <1>1, <1>3, InterruptedKeepsPhase DEF PromiseInv
<1>7. UNCHANGED <<limit, wanted, timer, cut, adapter>> BY <1>2 DEF Daemon!SettingsKept
<1> QED BY <1>4, <1>5, <1>6, <1>7 DEF PromiseInv, Daemon!LimitPromise

LEMMA RequestKeepsPromise ==
    ASSUME PromiseInv, Daemon!Request
    PROVE  PromiseInv'
<1>1. CASE \E l \in Limits : Daemon!SetLimit(l)
  BY <1>1 DEF Daemon!SetLimit, Daemon!Unowned, PromiseInv, Daemon!LimitPromise
<1>2. CASE Daemon!DisableFor
  BY <1>2 DEF Daemon!DisableFor, Daemon!Unowned, PromiseInv, Daemon!LimitPromise
<1>3. CASE \E on \in BOOLEAN : Daemon!SetAdapter(on)
  <2>1. /\ adapter' \in BOOLEAN /\ cut' = FALSE
        /\ UNCHANGED <<limit, wanted, timer, session>>
    BY <1>3 DEF Daemon!SetAdapter
  <2> QED BY <2>1 DEF PromiseInv, Daemon!LimitPromise
<1>4. CASE Daemon!DisableAdapterFor
  BY <1>4 DEF Daemon!DisableAdapterFor, Daemon!Unowned, PromiseInv, Daemon!LimitPromise
<1>5. CASE Daemon!StartSession BY <1>5, StartKeepsPromise
<1>6. ASSUME NEW v \in BOOLEAN, session.phase # "Idle", Daemon!SettingsKept,
             Daemon!Becomes([session EXCEPT !.paused = v])
      PROVE  PromiseInv'
  <2> DEFINE s == [session EXCEPT !.paused = v]
  <2>1. s \in Sessions /\ s.phase # "Idle" BY <1>6 DEF PromiseInv, Sessions
  <2>2. Daemon!Becomes(s) BY <1>6
  <2> HIDE DEF s
  <2> QED BY <1>6, <2>1, <2>2, OwnedStep DEF Daemon!SettingsKept, PromiseInv
<1>7. CASE Daemon!PauseSession \/ Daemon!ResumeSession
  BY <1>6, <1>7 DEF Daemon!PauseSession, Daemon!ResumeSession
<1>8. CASE Daemon!CancelSession BY <1>8, EndSessionGivesBack DEF Daemon!CancelSession
<1> QED BY <1>1, <1>2, <1>3, <1>4, <1>5, <1>7, <1>8, Zenon DEF Daemon!Request

LEMMA DaemonKeepsPromise ==
    ASSUME PromiseInv, Daemon!Daemon
    PROVE  PromiseInv'
<1>1. CASE Daemon!RestoreLimit
  BY <1>1 DEF Daemon!RestoreLimit, Daemon!Unowned, PromiseInv, Daemon!LimitPromise
<1>2. CASE Daemon!SwitchPower \/ Daemon!EndCut
  <2>1. /\ cut' \in BOOLEAN /\ adapter' \in BOOLEAN
        /\ session.phase = "Idle" /\ UNCHANGED <<limit, wanted, timer, session>>
    BY <1>2 DEF Daemon!SwitchPower, Daemon!EndCut, Daemon!Unowned, PromiseInv
  <2> QED BY <2>1 DEF PromiseInv, Daemon!LimitPromise
<1>3. CASE Daemon!Drain \/ Daemon!BeginCharging \/ Daemon!BeginHolding
             \/ Daemon!BeginPostHold \/ Daemon!BeginRestore
  BY <1>3, GoesStaysOwned
     DEF Daemon!Drain, Daemon!BeginCharging, Daemon!BeginHolding, Daemon!BeginPostHold,
         Daemon!BeginRestore, Phases, PromiseInv
<1>4. CASE Daemon!Finish BY <1>4, EndSessionGivesBack DEF Daemon!Finish
<1>5. CASE Daemon!Fail
  <2>1. adapter' \in BOOLEAN BY <1>5 DEF Daemon!Fail, PromiseInv
  <2> QED BY <1>5, <2>1, GoesStaysOwned DEF Daemon!Fail, Phases
<1> QED BY <1>1, <1>2, <1>3, <1>4, <1>5, Zenon DEF Daemon!Daemon


LEMMA ServiceInit == Daemon!Init => PromiseInv
<1>1. Daemon!NoSession \in Sessions BY DEF Daemon!NoSession, Sessions, Phases
<1>2. Daemon!NoSession.phase = "Idle" BY DEF Daemon!NoSession
<1>3. Daemon!Init => /\ limit = wanted /\ timer = FALSE /\ cut = FALSE /\ adapter = TRUE
                     /\ session = Daemon!NoSession
  BY DEF Daemon!Init
<1> QED BY <1>1, <1>2, <1>3 DEF PromiseInv, Daemon!LimitPromise

LEMMA ServiceKeepsPromise ==
    ASSUME PromiseInv, [Daemon!Next]_(Daemon!serviceVars)
    PROVE  PromiseInv'
<1>1. CASE Daemon!Next
  BY <1>1, LifeKeepsPromise, RequestKeepsPromise, DaemonKeepsPromise DEF Daemon!Next
<1>2. CASE UNCHANGED Daemon!serviceVars
  BY <1>2 DEF Daemon!serviceVars, PromiseInv, Daemon!LimitPromise
<1> QED BY <1>1, <1>2

\* Whatever requests, failures and restarts do, the limit in force is the one the user
\* last set unless a timer or a calibration has raised it, and these never meet: what
\* setDisableFor, startCalibration and both their ends promise (handlers.go,
\* calibration.go).
THEOREM LimitIsPromised == Daemon!Spec => []Daemon!LimitPromise
<1>1. PromiseInv /\ [Daemon!Next]_(Daemon!serviceVars) => PromiseInv'
  BY ServiceKeepsPromise
<1>2. PromiseInv => Daemon!LimitPromise BY DEF PromiseInv
<1> QED BY <1>1, <1>2, ServiceInit, PTL DEF Daemon!Spec

-----------------------------------------------------------------------------
(* The daemon under the app *)

\* The daemon's steps that no calibration begins with.
QuietStep ==
    \/ Daemon!Stop \/ Daemon!Restart \/ Daemon!Daemon
    \/ \E l \in Limits : Daemon!SetLimit(l)
    \/ Daemon!DisableFor
    \/ \E on \in BOOLEAN : Daemon!SetAdapter(on)
    \/ Daemon!DisableAdapterFor
    \/ Daemon!PauseSession \/ Daemon!ResumeSession \/ Daemon!CancelSession

StartsCalibration == capabilities.calibration /\ Daemon!StartSession

\* An item's request is one of the daemon's, and begins a calibration where there is one.
LEMMA RequestMoves ==
    ASSUME NEW i, Supported(i), Request(i)
    PROVE  QuietStep \/ StartsCalibration
<1>1. CASE i = "limit" /\ \E l \in Limits \ {100} : Daemon!SetLimit(l)
  BY <1>1, Zenon DEF QuietStep
<1>2. CASE i = "disableNow" /\ Daemon!SetLimit(100)
  <2>1. 100 \in Limits BY MenuAppAssumption
  <2> QED BY <1>2, <2>1, Zenon DEF QuietStep
<1>3. CASE i = "dischargeNow" /\ Daemon!SetAdapter(FALSE)
  <2>1. FALSE \in BOOLEAN OBVIOUS
  <2> QED BY <1>3, <2>1, Zenon DEF QuietStep
<1>4. CASE i = "dischargeStop" /\ Daemon!SetAdapter(TRUE)
  <2>1. TRUE \in BOOLEAN OBVIOUS
  <2> QED BY <1>4, <2>1, Zenon DEF QuietStep
<1>5. CASE i = "start" /\ Daemon!StartSession
  <2>1. capabilities.calibration
    BY <1>5 DEF Supported, CalibrationItems, disableLimitActionItems
  <2> QED BY <1>5, <2>1 DEF StartsCalibration
<1>6. CASE \/ i = "disableFor" /\ Daemon!DisableFor
           \/ i = "dischargeFor" /\ Daemon!DisableAdapterFor
           \/ i = "pause" /\ Daemon!PauseSession
           \/ i = "resume" /\ Daemon!ResumeSession
           \/ i = "cancel" /\ Daemon!CancelSession
  BY <1>6, Zenon DEF QuietStep
<1> QED BY <1>1, <1>2, <1>3, <1>4, <1>5, <1>6, Zenon DEF Request

LEMMA SendMoves ==
    ASSUME NEW i, Sends(i)
    PROVE  /\ UNCHANGED service \/ QuietStep \/ StartsCalibration
           /\ UNCHANGED <<machine, menu>> /\ undisturbed' = FALSE
<1>1. CASE Supported(i) /\ Request(i) BY <1>1, RequestMoves DEF Sends
<1>2. CASE UNCHANGED service BY <1>2 DEF Sends
<1> QED BY <1>1, <1>2 DEF Sends

LEMMA OthersMove ==
    ASSUME Others
    PROVE  /\ QuietStep \/ StartsCalibration
           /\ UNCHANGED <<machine, menu, app>> /\ undisturbed' = FALSE
<1>1. UNCHANGED <<machine, menu, app>> /\ undisturbed' = FALSE BY DEF Others
<1>2. CASE CommandLine
  <2>1. CASE NewLimitCommand BY <1>1, <2>1, Zenon DEF NewLimitCommand, QuietStep
  <2>2. CASE NewDisableCommand
    <3>1. 100 \in Limits BY MenuAppAssumption
    <3> QED BY <1>1, <2>2, <3>1, Zenon DEF NewDisableCommand, QuietStep
  <2>3. CASE NewAdapterCommand BY <1>1, <2>3, Zenon DEF NewAdapterCommand, QuietStep
  <2>4. CASE capabilities.calibration /\ NewCalibrationCommand
    BY <1>1, <2>4, Zenon DEF NewCalibrationCommand, QuietStep, StartsCalibration
  <2> QED BY <1>1, <1>2, <2>1, <2>2, <2>3, <2>4, Zenon DEF CommandLine
<1>3. CASE Daemon!Daemon \/ Daemon!Stop \/ Daemon!Restart
  BY <1>1, <1>3, Zenon DEF QuietStep
<1> QED BY <1>2, <1>3, Zenon DEF Others

\* What a step does to the daemon and the Mac.
LEMMA ServiceMoves ==
    ASSUME [Next]_vars
    PROVE  /\ UNCHANGED service \/ QuietStep \/ StartsCalibration
           /\ machine' = machine
<1>1. CASE Calls BY <1>1 DEF Calls
<1>2. CASE Tick BY <1>2 DEF Tick
<1>3. CASE OpenMenu \/ CloseMenu \/ Dismiss BY <1>3 DEF OpenMenu, CloseMenu, Dismiss
<1>4. CASE Confirm BY <1>4, SendMoves DEF Confirm
<1>5. ASSUME NEW i \in ActionItems, Click(i) \/ ClickToConfirm(i)
      PROVE  /\ UNCHANGED service \/ QuietStep \/ StartsCalibration
             /\ machine' = machine
  <2>1. CASE Click(i) BY <2>1, SendMoves DEF Click
  <2>2. CASE ClickToConfirm(i) BY <2>2 DEF ClickToConfirm
  <2> QED BY <1>5, <2>1, <2>2
<1>6. CASE Others BY <1>6, OthersMove
<1>7. CASE UNCHANGED vars BY <1>7 DEF vars
<1> QED BY <1>1, <1>2, <1>3, <1>4, <1>5, <1>6, <1>7, Zenon DEF Next, User

LEMMA ServiceStep == ASSUME [Next]_vars PROVE [Daemon!Next]_(Daemon!serviceVars)
<1>1. CASE UNCHANGED service BY <1>1 DEF service, Daemon!serviceVars
<1>2. CASE QuietStep \/ StartsCalibration
  BY <1>2, Zenon DEF QuietStep, StartsCalibration, Daemon!Next, Daemon!Request
<1> QED BY <1>1, <1>2, ServiceMoves

\* Whatever the app and the command line send, the daemon takes its own steps only:
\* MenuApp composes ChargeService, it changes nothing of it.
THEOREM DaemonUnderApp == Spec => Daemon!Spec
<1>1. Init => Daemon!Init BY DEF Init
<1>2. [Next]_vars => [Daemon!Next]_(Daemon!serviceVars) BY ServiceStep
<1> QED BY <1>1, <1>2, PTL DEF Spec, Daemon!Spec

\* What the app relies on besides the promise.
ServiceInv ==
    /\ PromiseInv
    /\ limit \in 0..100 /\ wanted \in 0..100
    /\ session.phase = "Idle" => ~session.paused
    /\ ~capabilities.calibration => session.phase = "Idle"

\* What a step of a calibration makes of the session.
LEMMA BecomesUnpaused ==
    ASSUME session \in Sessions, session.phase = "Idle" => ~session.paused,
           NEW s \in Sessions, s.phase = "Idle" => ~s.paused, Daemon!Becomes(s)
    PROVE  session'.phase = "Idle" => ~session'.paused
<1>1. CASE session' = s BY <1>1
<1>2. CASE session' = Daemon!Interrupted(session)
  BY <1>2 DEF Daemon!Interrupted, Sessions
<1> QED BY <1>1, <1>2 DEF Daemon!Becomes

\* Whatever the daemon does, the limit is 100, the user's or the one in force.
LEMMA LimitStays ==
    ASSUME ServiceInv, [Daemon!Next]_(Daemon!serviceVars)
    PROVE  limit' \in 0..100 /\ wanted' \in 0..100
<1>1. CASE Daemon!Stop \/ Daemon!Restart BY <1>1 DEF Daemon!Stop, Daemon!Restart, ServiceInv
<1>2. CASE Daemon!Request
  <2>1. CASE \E l \in Limits : Daemon!SetLimit(l)
    BY <2>1, MenuAppAssumption DEF Daemon!SetLimit
  <2>2. CASE Daemon!DisableFor BY <2>2 DEF Daemon!DisableFor, ServiceInv
  <2>3. CASE \E on \in BOOLEAN : Daemon!SetAdapter(on)
    BY <2>3 DEF Daemon!SetAdapter, ServiceInv
  <2>4. CASE Daemon!DisableAdapterFor BY <2>4 DEF Daemon!DisableAdapterFor, ServiceInv
  <2>5. CASE Daemon!StartSession \/ Daemon!PauseSession \/ Daemon!ResumeSession
    BY <2>5 DEF Daemon!StartSession, Daemon!PauseSession, Daemon!ResumeSession,
                Daemon!SettingsKept, ServiceInv
  <2>6. CASE Daemon!CancelSession
    BY <2>6 DEF Daemon!CancelSession, Daemon!EndSession, ServiceInv
  <2> QED BY <1>2, <2>1, <2>2, <2>3, <2>4, <2>5, <2>6, Zenon DEF Daemon!Request
<1>3. CASE Daemon!Daemon
  <2>1. CASE Daemon!RestoreLimit BY <2>1 DEF Daemon!RestoreLimit, ServiceInv
  <2>2. CASE Daemon!SwitchPower \/ Daemon!EndCut
    BY <2>2 DEF Daemon!SwitchPower, Daemon!EndCut, ServiceInv
  <2>3. CASE Daemon!Drain \/ Daemon!BeginCharging \/ Daemon!BeginHolding
               \/ Daemon!BeginPostHold \/ Daemon!BeginRestore
    BY <2>3 DEF Daemon!Drain, Daemon!BeginCharging, Daemon!BeginHolding,
                Daemon!BeginPostHold, Daemon!BeginRestore, Daemon!Goes, ServiceInv
  <2>4. CASE Daemon!Finish BY <2>4 DEF Daemon!Finish, Daemon!EndSession, ServiceInv
  <2>5. CASE Daemon!Fail BY <2>5 DEF Daemon!Fail, Daemon!Goes, ServiceInv
  <2> QED BY <1>3, <2>1, <2>2, <2>3, <2>4, <2>5, Zenon DEF Daemon!Daemon
<1>4. CASE UNCHANGED Daemon!serviceVars BY <1>4 DEF Daemon!serviceVars, ServiceInv
<1> QED BY <1>1, <1>2, <1>3, <1>4, Zenon DEF Daemon!Next

\* A step of the session from a phase to a phase.
LEMMA GoesUnpaused ==
    ASSUME ServiceInv, NEW from, NEW to \in Phases, from # "Idle", to # "Idle",
           Daemon!Goes(from, to)
    PROVE  session.phase # "Idle" /\ session'.phase # "Idle"
<1> DEFINE s == [session EXCEPT !.phase = to]
<1>1. session \in Sessions BY DEF ServiceInv, PromiseInv
<1>2. s \in Sessions /\ s.phase = to BY <1>1 DEF Sessions
<1>3. Daemon!Becomes(s) /\ session.phase = from BY DEF Daemon!Goes
<1> HIDE DEF s
<1> QED BY <1>1, <1>2, <1>3, BecomesOneOfTwo

LEMMA EndsUnpaused ==
    ASSUME ServiceInv, Daemon!EndSession
    PROVE  session'.phase = "Idle" => ~session'.paused
<1>1. Daemon!NoSession \in Sessions /\ ~Daemon!NoSession.paused
  BY DEF Daemon!NoSession, Sessions, Phases
<1>2. Daemon!Becomes(Daemon!NoSession) BY DEF Daemon!EndSession
<1> QED BY <1>1, <1>2, BecomesUnpaused DEF ServiceInv, PromiseInv

\* What the daemon's steps do to the session.
LEMMA SessionMoves ==
    ASSUME QuietStep
    PROVE  \/ UNCHANGED session
           \/ session' = Daemon!Interrupted(session)
           \/ /\ session.phase # "Idle"
              /\ \E v \in BOOLEAN : Daemon!Becomes([session EXCEPT !.paused = v])
           \/ session.phase # "Idle" /\ Daemon!EndSession
           \/ \E from, to \in Phases \ {"Idle"} : Daemon!Goes(from, to)
<1>1. CASE Daemon!Restart \/ (\E l \in Limits : Daemon!SetLimit(l)) \/ Daemon!DisableFor
             \/ (\E on \in BOOLEAN : Daemon!SetAdapter(on)) \/ Daemon!DisableAdapterFor
  BY <1>1 DEF Daemon!Restart, Daemon!SetLimit, Daemon!DisableFor, Daemon!SetAdapter,
              Daemon!DisableAdapterFor
<1>2. CASE Daemon!Stop BY <1>2 DEF Daemon!Stop
<1>3. CASE Daemon!PauseSession \/ Daemon!ResumeSession
  <2>1. TRUE \in BOOLEAN /\ FALSE \in BOOLEAN OBVIOUS
  <2> QED BY <1>3, <2>1, Zenon DEF Daemon!PauseSession, Daemon!ResumeSession
<1>4. CASE Daemon!CancelSession BY <1>4, Zenon DEF Daemon!CancelSession
<1>5. CASE Daemon!Daemon
  <2>1. CASE Daemon!RestoreLimit \/ Daemon!SwitchPower \/ Daemon!EndCut
    BY <2>1 DEF Daemon!RestoreLimit, Daemon!SwitchPower, Daemon!EndCut
  <2>2. CASE Daemon!Drain \/ Daemon!BeginCharging \/ Daemon!BeginHolding
               \/ Daemon!BeginPostHold \/ Daemon!BeginRestore \/ Daemon!Fail
    <3>1. PICK from, to \in Phases \ {"Idle"} : Daemon!Goes(from, to)
      BY <2>2 DEF Daemon!Drain, Daemon!BeginCharging, Daemon!BeginHolding,
                  Daemon!BeginPostHold, Daemon!BeginRestore, Daemon!Fail, Phases
    <3> QED BY <3>1, Zenon
  <2>3. CASE Daemon!Finish
    <3>1. session.phase # "Idle" /\ Daemon!EndSession BY <2>3 DEF Daemon!Finish
    <3> QED BY <3>1, Zenon
  <2> QED BY <1>5, <2>1, <2>2, <2>3, Zenon DEF Daemon!Daemon
<1> QED BY <1>1, <1>2, <1>3, <1>4, <1>5, Zenon DEF QuietStep

\* An idle session is not paused, and stays idle until one is started.
LEMMA IdleStays ==
    ASSUME ServiceInv, QuietStep
    PROVE  /\ session'.phase = "Idle" => ~session'.paused
           /\ session.phase = "Idle" => session'.phase = "Idle"
<1>0. session \in Sessions /\ (session.phase = "Idle" => ~session.paused)
  BY DEF ServiceInv, PromiseInv
<1>1. CASE UNCHANGED session BY <1>0, <1>1
<1>2. CASE session' = Daemon!Interrupted(session)
  BY <1>0, <1>2 DEF Daemon!Interrupted, Sessions
<1>3. CASE /\ session.phase # "Idle"
           /\ \E v \in BOOLEAN : Daemon!Becomes([session EXCEPT !.paused = v])
  <2>1. PICK v \in BOOLEAN : Daemon!Becomes([session EXCEPT !.paused = v]) BY <1>3
  <2> DEFINE s == [session EXCEPT !.paused = v]
  <2>2. s \in Sessions /\ s.phase # "Idle" BY <1>0, <1>3 DEF Sessions
  <2>3. Daemon!Becomes(s) BY <2>1
  <2> HIDE DEF s
  <2> QED BY <1>0, <1>3, <2>2, <2>3, BecomesUnpaused
<1>4. CASE session.phase # "Idle" /\ Daemon!EndSession BY <1>4, EndsUnpaused
<1>5. CASE \E from, to \in Phases \ {"Idle"} : Daemon!Goes(from, to)
  BY <1>5, GoesUnpaused
<1> QED BY <1>1, <1>2, <1>3, <1>4, <1>5, SessionMoves, Zenon

LEMMA StartUnpaused ==
    ASSUME ServiceInv, Daemon!StartSession
    PROVE  session'.phase = "Idle" => ~session'.paused
<1> DEFINE s == [phase |-> "Discharge", paused |-> FALSE, home |-> adapter]
<1>1. s \in Sessions /\ s.phase # "Idle"
  BY DEF ServiceInv, PromiseInv, Sessions, Phases
<1>2. Daemon!Becomes(s) BY DEF Daemon!StartSession
<1> HIDE DEF s
<1> QED BY <1>1, <1>2, BecomesUnpaused DEF ServiceInv, PromiseInv

LEMMA ServiceKeeps == ASSUME ServiceInv, [Next]_vars PROVE ServiceInv'
<1>1. PromiseInv' BY ServiceStep, ServiceKeepsPromise DEF ServiceInv
<1>2. limit' \in 0..100 /\ wanted' \in 0..100 BY ServiceStep, LimitStays
<1>3. /\ session'.phase = "Idle" => ~session'.paused
      /\ ~capabilities.calibration => session'.phase = "Idle"
  <2>1. CASE UNCHANGED service BY <2>1 DEF service, ServiceInv
  <2>2. CASE QuietStep BY <2>2, IdleStays DEF ServiceInv
  <2>3. CASE StartsCalibration BY <2>3, StartUnpaused DEF StartsCalibration
  <2> QED BY <2>1, <2>2, <2>3, ServiceMoves
<1>4. capabilities' = capabilities BY ServiceMoves DEF capabilities
<1> QED BY <1>1, <1>2, <1>3, <1>4 DEF ServiceInv

LEMMA ServiceInvInit == Init => ServiceInv
<1> SUFFICES ASSUME Init PROVE ServiceInv
  OBVIOUS
<1>1. PromiseInv BY ServiceInit DEF Init
<1>2. limit \in 0..100 /\ wanted \in 0..100
  BY MenuAppAssumption DEF Init, Daemon!Init
<1>3. session.phase = "Idle" /\ session.paused = FALSE
  BY DEF Init, Daemon!Init, Daemon!NoSession
<1> QED BY <1>1, <1>2, <1>3 DEF ServiceInv

-----------------------------------------------------------------------------
(* What the updates make of the menu *)

Apps ==
    [at : Places, open : BOOLEAN, dialog : Confirmed \union {"none"},
     phase : Phases, disableScheduled : BOOLEAN,
     adapterDisableScheduled : BOOLEAN, adapterEnabled : BOOLEAN,
     adapterKnown : BOOLEAN, compatibilityKnown : BOOLEAN,
     adapterControl : BOOLEAN]
Menus == [enabled : SUBSET Items, hidden : SUBSET Items]

\* The force-discharge items agree with the application's state a.
ForceShown(a, m) ==
    /\ \A i \in forceDischargeActionItems \union {"dischargeStop"} :
          i \in m.enabled => a.phase = "Idle"
    /\ ~(forceDischargeActionItems \intersect m.enabled # {}
            /\ "dischargeStop" \in m.enabled)
    /\ a.adapterDisableScheduled => forceDischargeActionItems \intersect m.enabled = {}

ForceItems == forceDischargeActionItems \union {"dischargeStop", "discharge"}

USE DEF Items, ActionItems, Submenus, Countdowns, disableLimitActionItems,
        forceDischargeActionItems, CalibrationItems, ForceItems

LEMMA EnabledEffect ==
    ASSUME NEW m \in Menus, NEW S \in SUBSET Items, NEW yes \in BOOLEAN
    PROVE  /\ SetEnabled(m, S, yes) \in Menus
           /\ SetEnabled(m, S, yes).hidden = m.hidden
           /\ SetEnabled(m, S, yes).enabled = IF yes THEN m.enabled \union S
                                                     ELSE m.enabled \ S
BY DEF SetEnabled, Menus

\* updateForceDischargeControls touches its own items.
LEMMA ForceEffect ==
    ASSUME NEW a \in Apps, NEW m \in Menus
    PROVE  LET r == updateForceDischargeControls(a, m) IN
           /\ r \in Menus /\ r.hidden = m.hidden
           /\ r.enabled \ ForceItems = m.enabled \ ForceItems
           /\ ForceShown(a, r)
<1> DEFINE idle == a.phase = "Idle"
           canControl == a.adapterKnown /\ idle
           cutOff == ~a.adapterEnabled \/ a.adapterDisableScheduled
           m1 == SetEnabled(m, forceDischargeActionItems, canControl /\ ~cutOff)
           m2 == SetEnabled(m1, {"dischargeStop"}, canControl /\ cutOff)
           m3 == SetEnabled(m2, {"discharge"},
                            a.adapterKnown /\ (idle \/ a.adapterDisableScheduled))
<1>1. /\ (canControl /\ ~cutOff) \in BOOLEAN /\ (canControl /\ cutOff) \in BOOLEAN
      /\ (a.adapterKnown /\ (idle \/ a.adapterDisableScheduled)) \in BOOLEAN
  BY DEF Apps
<1>2. /\ forceDischargeActionItems \in SUBSET Items
      /\ {"dischargeStop"} \in SUBSET Items /\ {"discharge"} \in SUBSET Items
  OBVIOUS
<1>3. /\ m1 \in Menus /\ m1.hidden = m.hidden
      /\ m1.enabled = IF canControl /\ ~cutOff
                      THEN m.enabled \union forceDischargeActionItems
                      ELSE m.enabled \ forceDischargeActionItems
  <2> HIDE DEF canControl, cutOff
  <2> QED BY <1>1, <1>2, EnabledEffect
<1>4. /\ m2 \in Menus /\ m2.hidden = m1.hidden
      /\ m2.enabled = IF canControl /\ cutOff THEN m1.enabled \union {"dischargeStop"}
                      ELSE m1.enabled \ {"dischargeStop"}
  <2> HIDE DEF canControl, cutOff, m1
  <2> QED BY <1>1, <1>2, <1>3, EnabledEffect
<1>5. /\ m3 \in Menus /\ m3.hidden = m2.hidden
      /\ m3.enabled \ {"discharge"} = m2.enabled \ {"discharge"}
  <2> DEFINE yes == a.adapterKnown /\ (idle \/ a.adapterDisableScheduled)
             S == {"discharge"}
  <2>1. m3 = SetEnabled(m2, S, yes) OBVIOUS
  <2>2. yes \in BOOLEAN /\ S \in SUBSET Items BY <1>1, <1>2
  <2> HIDE DEF yes, m1, m2, m3, S, idle, canControl, cutOff, Items
  <2>3. /\ m3 \in Menus /\ m3.hidden = m2.hidden
        /\ m3.enabled = IF yes THEN m2.enabled \union S ELSE m2.enabled \ S
    BY <1>4, <2>1, <2>2 DEF SetEnabled, Menus
  <2> QED BY <2>3 DEF S
<1>6. updateForceDischargeControls(a, m) = m3 BY DEF updateForceDischargeControls
<1>7. canControl => idle OBVIOUS
<1>8. a.adapterDisableScheduled => cutOff OBVIOUS
<1> HIDE DEF canControl, cutOff, m1, m2, m3
<1>9. m3.enabled \ ForceItems = m.enabled \ ForceItems BY <1>3, <1>4, <1>5
<1>10. ForceShown(a, m3)
  <2>1. \A i \in forceDischargeActionItems : i \in m3.enabled => canControl /\ ~cutOff
    BY <1>3, <1>4, <1>5
  <2>2. "dischargeStop" \in m3.enabled => canControl /\ cutOff
    BY <1>3, <1>4, <1>5
  <2> QED BY <1>7, <1>8, <2>1, <2>2 DEF ForceShown
<1> QED BY <1>3, <1>4, <1>5, <1>6, <1>9, <1>10

\* The countdowns show the timers, and what the timers forbid is off.
TimersShown(a, m) ==
    /\ "disableCountdown" \notin m.hidden <=> a.disableScheduled
    /\ "dischargeCountdown" \notin m.hidden <=> a.adapterDisableScheduled
    /\ a.disableScheduled => disableLimitActionItems \intersect m.enabled = {}
    /\ a.disableScheduled \/ a.adapterDisableScheduled => "start" \notin m.enabled

LEMMA ScheduledEffect ==
    ASSUME NEW a \in Apps, NEW m \in Menus
    PROVE  LET r == ScheduledMenu(a, m) IN
           /\ r \in Menus /\ r.hidden \ Countdowns = m.hidden \ Countdowns
           /\ ForceShown(a, r) /\ TimersShown(a, r)
<1> DEFINE m1 == SetEnabled(m, disableLimitActionItems, ~a.disableScheduled)
           m2 == SetHidden(m1, {"disableCountdown"}, ~a.disableScheduled)
           m3 == IF a.disableScheduled THEN SetEnabled(m2, {"disable"}, TRUE) ELSE m2
           m4 == SetHidden(m3, {"dischargeCountdown"}, ~a.adapterDisableScheduled)
           m5 == IF a.disableScheduled \/ a.adapterDisableScheduled
                 THEN SetEnabled(m4, {"start"}, FALSE) ELSE m4
           r == updateForceDischargeControls(a, m5)
<1>0. a.disableScheduled \in BOOLEAN /\ a.adapterDisableScheduled \in BOOLEAN
  BY DEF Apps
<1>1. /\ m1 \in Menus /\ m1.hidden = m.hidden
      /\ a.disableScheduled => disableLimitActionItems \intersect m1.enabled = {}
  BY <1>0 DEF SetEnabled, Menus
<1>2. /\ m2 \in Menus /\ m2.enabled = m1.enabled
      /\ m2.hidden = IF a.disableScheduled THEN m1.hidden \ {"disableCountdown"}
                     ELSE m1.hidden \union {"disableCountdown"}
  <2> HIDE DEF m1
  <2> QED BY <1>0, <1>1 DEF SetHidden, Menus
<1>3. /\ m3 \in Menus /\ m3.hidden = m2.hidden
      /\ m3.enabled \ {"disable"} = m2.enabled \ {"disable"}
  <2> HIDE DEF m1, m2
  <2> QED BY <1>0, <1>2 DEF SetEnabled, Menus
<1>4. /\ m4 \in Menus /\ m4.enabled = m3.enabled
      /\ m4.hidden = IF a.adapterDisableScheduled THEN m3.hidden \ {"dischargeCountdown"}
                     ELSE m3.hidden \union {"dischargeCountdown"}
  <2> HIDE DEF m1, m2, m3
  <2> QED BY <1>0, <1>3 DEF SetHidden, Menus
<1>5. /\ m5 \in Menus /\ m5.hidden = m4.hidden
      /\ m5.enabled \ {"start"} = m4.enabled \ {"start"}
      /\ a.disableScheduled \/ a.adapterDisableScheduled => "start" \notin m5.enabled
  <2> HIDE DEF m1, m2, m3, m4
  <2> QED BY <1>0, <1>4 DEF SetEnabled, Menus
<1>6. /\ r \in Menus /\ r.hidden = m5.hidden
      /\ r.enabled \ ForceItems = m5.enabled \ ForceItems
      /\ ForceShown(a, r)
  <2> HIDE DEF m5
  <2> QED BY <1>5, ForceEffect
<1>7. ScheduledMenu(a, m) = r BY DEF ScheduledMenu
<1> HIDE DEF m1, m2, m3, m4, m5, r
<1>8. r.hidden \ Countdowns = m.hidden \ Countdowns
  BY <1>1, <1>2, <1>3, <1>4, <1>5, <1>6
<1>9. /\ "disableCountdown" \notin r.hidden <=> a.disableScheduled
      /\ "dischargeCountdown" \notin r.hidden <=> a.adapterDisableScheduled
  BY <1>0, <1>2, <1>3, <1>4, <1>5, <1>6
<1>10. a.disableScheduled => disableLimitActionItems \intersect r.enabled = {}
  BY <1>1, <1>2, <1>3, <1>4, <1>5, <1>6
<1>11. a.disableScheduled \/ a.adapterDisableScheduled => "start" \notin r.enabled
  BY <1>5, <1>6
<1> QED BY <1>6, <1>7, <1>8, <1>9, <1>10, <1>11 DEF TimersShown

\* What updateCalibration has shown of a calibration, paused or not.
CalibrationShown(a, m, paused) ==
    /\ "start" \in m.enabled =>
          a.phase = "Idle" /\ ~a.disableScheduled /\ ~a.adapterDisableScheduled
    /\ {"pause", "cancel"} \intersect m.enabled # {} => a.phase # "Idle"
    /\ "pause" \in m.enabled => ~paused
    /\ "resume" \in m.enabled => paused
    /\ "limit" \in m.enabled => a.phase = "Idle"
    /\ "disable" \in m.enabled => a.phase = "Idle" \/ a.disableScheduled

LEMMA CalibrationEffect ==
    ASSUME NEW a \in Apps, NEW m \in Menus, NEW paused \in BOOLEAN
    PROVE  LET r == CalibrationMenu(a, m, paused) IN
           /\ r \in Menus /\ r.hidden = m.hidden
           /\ disableLimitActionItems \intersect r.enabled
                = disableLimitActionItems \intersect m.enabled
           /\ ForceShown(a, r) /\ CalibrationShown(a, r, paused)
<1> DEFINE idle == a.phase = "Idle"
           m1 == SetEnabled(m, {"start"}, canStartCalibration(a))
           m2 == SetEnabled(m1, {"cancel"}, ~idle)
           m3 == SetEnabled(m2, {"pause"}, ~idle /\ ~paused)
           m4 == SetEnabled(m3, {"resume"}, paused)
           m5 == SetEnabled(m4, {"limit"}, canSetChargeLimit(a))
           m6 == SetEnabled(m5, {"disable"}, idle \/ a.disableScheduled)
           r == updateForceDischargeControls(a, m6)
<1>0. a.disableScheduled \in BOOLEAN /\ a.adapterDisableScheduled \in BOOLEAN
  BY DEF Apps
<1>1. /\ m1 \in Menus /\ m1.hidden = m.hidden
      /\ m1.enabled \ {"start"} = m.enabled \ {"start"}
      /\ "start" \in m1.enabled => canStartCalibration(a)
  BY <1>0 DEF SetEnabled, Menus
<1>2. /\ m2 \in Menus /\ m2.hidden = m1.hidden
      /\ m2.enabled \ {"cancel"} = m1.enabled \ {"cancel"}
      /\ "cancel" \in m2.enabled => ~idle
  <2> HIDE DEF m1
  <2> QED BY <1>1 DEF SetEnabled, Menus
<1>3. /\ m3 \in Menus /\ m3.hidden = m2.hidden
      /\ m3.enabled \ {"pause"} = m2.enabled \ {"pause"}
      /\ "pause" \in m3.enabled => ~idle /\ ~paused
  <2> HIDE DEF m1, m2
  <2> QED BY <1>2 DEF SetEnabled, Menus
<1>4. /\ m4 \in Menus /\ m4.hidden = m3.hidden
      /\ m4.enabled \ {"resume"} = m3.enabled \ {"resume"}
      /\ "resume" \in m4.enabled => paused
  <2> HIDE DEF m1, m2, m3
  <2> QED BY <1>3 DEF SetEnabled, Menus
<1>5. /\ m5 \in Menus /\ m5.hidden = m4.hidden
      /\ m5.enabled \ {"limit"} = m4.enabled \ {"limit"}
      /\ "limit" \in m5.enabled => idle
  <2> HIDE DEF m1, m2, m3, m4
  <2> QED BY <1>4 DEF SetEnabled, Menus, canSetChargeLimit
<1>6. /\ m6 \in Menus /\ m6.hidden = m5.hidden
      /\ m6.enabled \ {"disable"} = m5.enabled \ {"disable"}
      /\ "disable" \in m6.enabled => idle \/ a.disableScheduled
  <2> HIDE DEF m1, m2, m3, m4, m5
  <2> QED BY <1>0, <1>5 DEF SetEnabled, Menus
<1>7. /\ r \in Menus /\ r.hidden = m6.hidden
      /\ r.enabled \ ForceItems = m6.enabled \ ForceItems
      /\ ForceShown(a, r)
  <2> HIDE DEF m6
  <2> QED BY <1>6, ForceEffect
<1>8. CalibrationMenu(a, m, paused) = r BY DEF CalibrationMenu
<1> HIDE DEF m1, m2, m3, m4, m5, m6, r
<1>9. disableLimitActionItems \intersect r.enabled
        = disableLimitActionItems \intersect m.enabled
  BY <1>1, <1>2, <1>3, <1>4, <1>5, <1>6, <1>7
<1>10. /\ "start" \in r.enabled => canStartCalibration(a)
       /\ "cancel" \in r.enabled => ~idle
       /\ "pause" \in r.enabled => ~idle /\ ~paused
       /\ "resume" \in r.enabled => paused
       /\ "limit" \in r.enabled => idle
       /\ "disable" \in r.enabled => idle \/ a.disableScheduled
  BY <1>1, <1>2, <1>3, <1>4, <1>5, <1>6, <1>7
<1>11. CalibrationShown(a, r, paused)
  BY <1>10 DEF CalibrationShown, canStartCalibration
<1> QED BY <1>1, <1>2, <1>3, <1>4, <1>5, <1>6, <1>7, <1>8, <1>9, <1>11

LEMMA CapabilitiesTyped ==
    ASSUME machine \in Machines
    PROVE  capabilities \in Capabilities /\ Permissive \in Capabilities
BY MenuAppAssumption DEF capabilities, Permissive, Capabilities, Modes

LEMMA CompatibilityEffect ==
    ASSUME NEW m \in Menus, NEW caps \in Capabilities, NEW installed \in BOOLEAN,
           NEW needsUpgrade \in BOOLEAN
    PROVE  LET r == setCompatibility(m, installed, caps, needsUpgrade) IN
           /\ r \in Menus /\ r.enabled = m.enabled
           /\ r.hidden \intersect Countdowns = m.hidden \intersect Countdowns
           /\ HiddenItems(installed, caps, needsUpgrade) \subseteq r.hidden
<1> DEFINE H == HiddenItems(installed, caps, needsUpgrade)
           h == (m.hidden \intersect Countdowns) \union H
           r == setCompatibility(m, installed, caps, needsUpgrade)
<1>1. H \subseteq Items /\ H \intersect Countdowns = {} BY DEF HiddenItems
<1>2. h \in SUBSET Items BY <1>1 DEF Menus
<1>3. r = [m EXCEPT !.hidden = h] BY DEF setCompatibility
<1> HIDE DEF H, r
<1>4. r \in Menus /\ r.enabled = m.enabled /\ r.hidden = h BY <1>2, <1>3 DEF Menus
<1>5. h \intersect Countdowns = m.hidden \intersect Countdowns BY <1>1
<1>6. H \subseteq h OBVIOUS
<1> QED BY <1>4, <1>5, <1>6 DEF H, r

\* The menu hides what the Mac lacks.
Hides(m) == HiddenItems(TRUE, capabilities, FALSE) \subseteq m.hidden

LEMMA HiddenMonotone ==
    ASSUME NEW installed \in BOOLEAN, NEW needsUpgrade \in BOOLEAN
    PROVE  HiddenItems(TRUE, capabilities, FALSE)
              \subseteq HiddenItems(installed, capabilities, needsUpgrade)
BY DEF HiddenItems

LEMMA NothingOffered ==
    ASSUME NEW caps
    PROVE  /\ "discharge" \in HiddenItems(FALSE, caps, FALSE)
           /\ HiddenItems(TRUE, capabilities, FALSE)
                 \subseteq HiddenItems(FALSE, caps, FALSE)
BY DEF HiddenItems

LEMMA NotInstalledEffect ==
    ASSUME menu \in Menus, machine \in Machines
    PROVE  /\ NotInstalled \in Menus /\ NotInstalled.enabled = menu.enabled
           /\ NotInstalled.hidden \intersect Countdowns = menu.hidden \intersect Countdowns
           /\ "discharge" \in NotInstalled.hidden /\ Hides(NotInstalled)
<1>1. FALSE \in BOOLEAN /\ Permissive \in Capabilities BY CapabilitiesTyped
<1>2. /\ NotInstalled \in Menus /\ NotInstalled.enabled = menu.enabled
      /\ NotInstalled.hidden \intersect Countdowns = menu.hidden \intersect Countdowns
      /\ HiddenItems(FALSE, Permissive, FALSE) \subseteq NotInstalled.hidden
  BY <1>1, CompatibilityEffect DEF NotInstalled
<1> QED BY <1>2, NothingOffered DEF Hides

-----------------------------------------------------------------------------
(* Between two calls *)

Launching == {"launchConfig", "launchCompatibility", "launchVersion"}

\* A force discharge can be begun or stopped, once the menu has been open.
OneDischarge ==
    \/ app.at \in Launching \union {"config"} \/ (app.at = "waiting" /\ ~app.open)
    \/ "discharge" \in menu.hidden /\ app.at \notin {"compatibility", "version"}
    \/ ~(forceDischargeActionItems \intersect menu.enabled # {}
            /\ "dischargeStop" \in menu.enabled)

\* What the items and the application's state say of the timers and the Mac.
Shown ==
    /\ app \in Apps /\ menu \in Menus /\ machine \in Machines
    /\ TimersShown(app, menu)
    /\ app.adapterDisableScheduled => forceDischargeActionItems \intersect menu.enabled = {}

HidesKnown ==
    app.compatibilityKnown /\ app.at \notin {"launchVersion", "version"} => Hides(menu)

MenuInv ==
    /\ Shown /\ OneDischarge /\ HidesKnown
    /\ app.at \in Launching => ~app.open

\* What a refresh has read so far, when nothing has come between.
ConfigRead == {"compatibility", "version", "state", "adapter", "tickAdapter", "telemetry"}
CompatibilityRead ==
    {"version", "state", "adapter", "tickConfig", "tickAdapter", "telemetry"}
Refreshed == app.at = "waiting" /\ app.open

FreshInv ==
    undisturbed =>
        /\ app.at \notin Launching
        /\ app.at \in ConfigRead \/ Refreshed =>
              alive /\ app.disableScheduled = timer /\ app.adapterDisableScheduled = cut
        /\ app.at \in CompatibilityRead \/ Refreshed => app.compatibilityKnown
        /\ Refreshed /\ capabilities.calibration =>
              /\ app.phase = session.phase
              /\ CalibrationShown(app, menu, session.paused) /\ ForceShown(app, menu)

AppInv == MenuInv /\ FreshInv

\* The fields of a that the invariant is about, but for its place.
SameBut(a, b) ==
    /\ a.open = b.open /\ a.phase = b.phase
    /\ a.disableScheduled = b.disableScheduled
    /\ a.adapterDisableScheduled = b.adapterDisableScheduled

LEMMA ToPlace ==
    ASSUME NEW place \in Places, app \in Apps
    PROVE  /\ To(place) \in Apps /\ To(place).at = place
           /\ SameBut(To(place), app)
           /\ To(place).compatibilityKnown = app.compatibilityKnown
BY DEF To, Apps, SameBut

LEMMA ControlRead ==
    ASSUME NEW a \in Apps, NEW b \in BOOLEAN
    PROVE  /\ [a EXCEPT !.adapterControl = b] \in Apps
           /\ [a EXCEPT !.adapterControl = b].at = a.at
           /\ SameBut([a EXCEPT !.adapterControl = b], a)
           /\ [a EXCEPT !.adapterControl = b].compatibilityKnown = a.compatibilityKnown
BY DEF Apps, SameBut

LEMMA KnownRead ==
    ASSUME NEW a \in Apps, NEW b \in BOOLEAN
    PROVE  /\ [a EXCEPT !.compatibilityKnown = b] \in Apps
           /\ [a EXCEPT !.compatibilityKnown = b].at = a.at
           /\ SameBut([a EXCEPT !.compatibilityKnown = b], a)
           /\ [a EXCEPT !.compatibilityKnown = b].compatibilityKnown = b
BY DEF Apps, SameBut

LEMMA ScheduledRead ==
    ASSUME NEW a \in Apps, timer \in BOOLEAN, cut \in BOOLEAN
    PROVE  /\ Scheduled(a) \in Apps /\ Scheduled(a).at = a.at
           /\ Scheduled(a).open = a.open /\ Scheduled(a).phase = a.phase
           /\ Scheduled(a).disableScheduled = timer
           /\ Scheduled(a).adapterDisableScheduled = cut
           /\ Scheduled(a).compatibilityKnown = a.compatibilityKnown
BY DEF Scheduled, Apps

LEMMA AdapterRead ==
    ASSUME NEW a \in Apps, adapter \in BOOLEAN
    PROVE  /\ ReadsAdapter(a) \in Apps /\ ReadsAdapter(a).at = a.at
           /\ SameBut(ReadsAdapter(a), a)
           /\ ReadsAdapter(a).compatibilityKnown = a.compatibilityKnown
BY DEF ReadsAdapter, Apps, SameBut

LEMMA PhaseRead ==
    ASSUME NEW a \in Apps, NEW phase \in Phases
    PROVE  /\ [a EXCEPT !.phase = phase] \in Apps
           /\ [a EXCEPT !.phase = phase].at = a.at
           /\ [a EXCEPT !.phase = phase].open = a.open
           /\ [a EXCEPT !.phase = phase].phase = phase
           /\ [a EXCEPT !.phase = phase].disableScheduled = a.disableScheduled
           /\ [a EXCEPT !.phase = phase].adapterDisableScheduled = a.adapterDisableScheduled
           /\ [a EXCEPT !.phase = phase].compatibilityKnown = a.compatibilityKnown
BY DEF Apps

LEMMA ShownKept ==
    ASSUME Shown, app' \in Apps, SameBut(app', app), UNCHANGED <<menu, machine>>
    PROVE  Shown' /\ (Hides(menu)' <=> Hides(menu))
BY DEF Shown, TimersShown, SameBut, Hides, capabilities

\* A menu with the same items shown hides what the other hides.
LEMMA HidesKept ==
    ASSUME NEW m \in Menus, NEW r \in Menus, Hides(m),
           r.hidden \ Countdowns = m.hidden \ Countdowns
    PROVE  Hides(r)
<1>1. HiddenItems(TRUE, capabilities, FALSE) \intersect Countdowns = {} BY DEF HiddenItems
<1> QED BY <1>1 DEF Hides

LEMMA MacKept ==
    ASSUME machine' = machine
    PROVE  capabilities' = capabilities /\ Hides(menu)' = Hides(menu')
BY DEF capabilities, Hides

\* A step of a refresh that keeps the menu.
LEMMA MenuInvKept ==
    ASSUME MenuInv, app' \in Apps, SameBut(app', app), UNCHANGED <<menu, machine>>,
           app.at \notin Launching \union {"config", "version", "waiting"},
           app'.at \notin Launching \union {"compatibility", "version"},
           app'.compatibilityKnown = app.compatibilityKnown
    PROVE  MenuInv'
<1>1. Shown' /\ (Hides(menu)' <=> Hides(menu)) BY ShownKept DEF MenuInv
<1>2. OneDischarge' BY DEF MenuInv, OneDischarge, SameBut
<1>3. HidesKnown'
  BY <1>1 DEF MenuInv, HidesKnown, Launching
<1> QED BY <1>1, <1>2, <1>3 DEF MenuInv

\* An answer to one of the later calls of a refresh.
LEMMA StillFresh ==
    ASSUME FreshInv, Answers, UNCHANGED <<service, machine>>,
           app.at \in ConfigRead, app'.at \in ConfigRead, SameBut(app', app),
           undisturbed => app'.compatibilityKnown
    PROVE  FreshInv'
BY DEF FreshInv, Answers, service, ConfigRead, SameBut, Launching, Refreshed

LEMMA Disturbed == ASSUME undisturbed' = FALSE PROVE FreshInv'
BY DEF FreshInv

LEMMA FailsDisturbs == ASSUME Fails \/ Refuses PROVE undisturbed' = FALSE
BY DEF Fails, Refuses

-----------------------------------------------------------------------------
(* The calls *)

LEMMA LaunchConfigKeeps ==
    ASSUME AppInv, LaunchConfig, UNCHANGED <<service, machine>>
    PROVE  AppInv'
<1>0. /\ app.at = "launchConfig" /\ ~app.open /\ Shown /\ menu \in Menus
      /\ app \in Apps /\ machine \in Machines /\ undisturbed = FALSE
  BY DEF LaunchConfig, Goes, AppInv, MenuInv, Shown, FreshInv, Launching
<1>1. CASE /\ Answers
           /\ Goes("launchConfig", To("launchCompatibility")) /\ UNCHANGED menu
  <2>1. /\ app' \in Apps /\ app'.at = "launchCompatibility" /\ SameBut(app', app)
        /\ app'.compatibilityKnown = app.compatibilityKnown
    BY <1>0, <1>1, ToPlace DEF Goes, Places
  <2>2. Shown' /\ (Hides(menu)' <=> Hides(menu)) BY <1>0, <1>1, <2>1, ShownKept
  <2>3. HidesKnown' BY <1>0, <2>1, <2>2 DEF HidesKnown, AppInv, MenuInv
  <2>4. FreshInv' BY <1>0, <1>1, Disturbed DEF Answers
  <2> QED BY <1>0, <2>1, <2>2, <2>3, <2>4
          DEF AppInv, MenuInv, OneDischarge, Launching, SameBut
<1>2. CASE /\ Fails
           /\ Goes("launchConfig", [To("waiting") EXCEPT !.adapterControl = TRUE])
           /\ menu' = NotInstalled
  <2>1. /\ app' \in Apps /\ app'.at = "waiting" /\ SameBut(app', app)
    <3>1. /\ To("waiting") \in Apps /\ To("waiting").at = "waiting"
          /\ SameBut(To("waiting"), app)
      BY <1>0, ToPlace DEF Places
    <3> QED BY <1>2, <3>1, ControlRead DEF Goes, SameBut
  <2>2. /\ menu' \in Menus /\ menu'.enabled = menu.enabled
        /\ menu'.hidden \intersect Countdowns = menu.hidden \intersect Countdowns
        /\ "discharge" \in menu'.hidden /\ Hides(menu)'
    BY <1>0, <1>2, NotInstalledEffect, MacKept
  <2>3. Shown' BY <1>0, <2>1, <2>2 DEF Shown, TimersShown, SameBut
  <2>4. FreshInv' BY <1>2, FailsDisturbs, Disturbed
  <2> QED BY <1>0, <2>1, <2>2, <2>3, <2>4
          DEF AppInv, MenuInv, OneDischarge, HidesKnown, Launching, SameBut
<1> QED BY <1>1, <1>2 DEF LaunchConfig

LEMMA ReadCompatibilityKeeps ==
    ASSUME AppInv, NEW from, NEW to, ReadCompatibility(from, to),
           UNCHANGED <<service, machine>>,
           \/ from = "launchCompatibility" /\ to = "launchVersion"
           \/ from = "compatibility" /\ to = "version"
    PROVE  AppInv'
<1>0. /\ app.at = from /\ Shown /\ menu \in Menus /\ app \in Apps
      /\ from = "launchCompatibility" => ~app.open /\ undisturbed = FALSE
  BY DEF ReadCompatibility, Goes, AppInv, MenuInv, Shown, FreshInv, Launching
<1>1. PICK known \in BOOLEAN :
        /\ app' = [To(to) EXCEPT !.compatibilityKnown = known]
        /\ (known /\ Answers) \/ (~known /\ Fails)
  BY DEF ReadCompatibility, Goes
<1>2. /\ app' \in Apps /\ app'.at = to /\ SameBut(app', app)
      /\ app'.compatibilityKnown = known
  <2>1. To(to) \in Apps /\ To(to).at = to /\ SameBut(To(to), app)
    BY <1>0, ToPlace DEF Places
  <2> QED BY <1>1, <2>1, KnownRead DEF SameBut
<1>3. Shown' BY <1>0, <1>2, ShownKept DEF ReadCompatibility
<1>4. OneDischarge' /\ HidesKnown'
  BY <1>0, <1>2 DEF ReadCompatibility, OneDischarge, HidesKnown, AppInv, MenuInv,
                    Launching, SameBut
<1>5. FreshInv'
  <2>1. CASE ~known BY <1>1, <2>1, FailsDisturbs, Disturbed
  <2>2. CASE from = "launchCompatibility" /\ known
    BY <1>0, <1>1, <2>2, Disturbed DEF Answers
  <2>3. CASE from = "compatibility" /\ to = "version" /\ known
    BY <1>0, <1>1, <1>2, <2>3, StillFresh DEF ConfigRead, AppInv
  <2> QED BY <2>1, <2>2, <2>3
<1> QED BY <1>0, <1>2, <1>3, <1>4, <1>5 DEF AppInv, MenuInv, Launching, SameBut

LEMMA ReadVersionKeeps ==
    ASSUME AppInv, NEW from, NEW to, ReadVersion(from, to),
           UNCHANGED <<service, machine, sameVersion>>, sameVersion \in BOOLEAN,
           \/ from = "launchVersion" /\ to = "waiting"
           \/ from = "version" /\ to = "state"
    PROVE  AppInv'
<1>0. /\ app.at = from /\ Shown /\ menu \in Menus /\ app \in Apps /\ machine \in Machines
      /\ from = "launchVersion" => ~app.open /\ undisturbed = FALSE
  BY DEF ReadVersion, Goes, AppInv, MenuInv, Shown, FreshInv, Launching
<1>1. capabilities \in Capabilities /\ Known(app) \in Capabilities
  BY <1>0, CapabilitiesTyped DEF Known
<1>2. /\ app' \in Apps /\ app'.at = to /\ SameBut(app', app)
      /\ app'.compatibilityKnown = app.compatibilityKnown
  <2>1. /\ To(to) \in Apps /\ To(to).at = to /\ SameBut(To(to), app)
        /\ To(to).compatibilityKnown = app.compatibilityKnown
    BY <1>0, ToPlace DEF Places
  <2>2. Known(app).adapterControl \in BOOLEAN BY <1>1 DEF Capabilities
  <2>3. app' = [To(to) EXCEPT !.adapterControl = Known(app).adapterControl]
    BY DEF ReadVersion, Goes
  <2> QED BY <2>1, <2>2, <2>3, ControlRead DEF SameBut
<1>3. PICK upgrade \in BOOLEAN :
        /\ menu' = setCompatibility(menu, TRUE, Known(app), upgrade)
        /\ Answers \/ Fails
  BY DEF ReadVersion
<1>4. /\ menu' \in Menus /\ menu'.enabled = menu.enabled
      /\ menu'.hidden \intersect Countdowns = menu.hidden \intersect Countdowns
      /\ HiddenItems(TRUE, Known(app), upgrade) \subseteq menu'.hidden
  <2>1. TRUE \in BOOLEAN OBVIOUS
  <2> HIDE DEF Items, Countdowns
  <2> QED BY <1>0, <1>1, <1>3, <2>1, CompatibilityEffect, Zenon
<1>5. Shown' BY <1>0, <1>2, <1>4 DEF Shown, TimersShown, SameBut
<1>6. HidesKnown'
  <2>1. SUFFICES ASSUME app.compatibilityKnown PROVE Hides(menu')
    BY <1>2, MacKept DEF HidesKnown
  <2>2. Known(app) = capabilities BY <2>1 DEF Known
  <2> QED BY <1>4, <2>2, HiddenMonotone DEF Hides
<1>7. OneDischarge'
  <2>1. CASE from = "launchVersion" BY <1>0, <1>2, <2>1 DEF OneDischarge, SameBut
  <2>2. CASE from = "version"
    BY <1>0, <1>4, <2>2 DEF OneDischarge, AppInv, MenuInv, Launching
  <2> QED BY <2>1, <2>2
<1>8. FreshInv'
  <2>1. CASE Fails BY <2>1, FailsDisturbs, Disturbed
  <2>2. CASE from = "launchVersion" /\ Answers
    BY <1>0, <2>2, Disturbed DEF Answers
  <2>3. CASE from = "version" /\ Answers
    <3>1. undisturbed => app'.compatibilityKnown
      BY <1>0, <1>2, <2>3 DEF AppInv, FreshInv, CompatibilityRead
    <3> QED BY <1>0, <1>2, <2>3, <3>1, StillFresh DEF ConfigRead, AppInv
  <2> QED BY <1>3, <2>1, <2>2, <2>3
<1> QED BY <1>0, <1>2, <1>5, <1>6, <1>7, <1>8 DEF AppInv, MenuInv, Launching, SameBut

\* After an answer with the timers, on opening and on a tick.
LEMMA TimersReadKeeps ==
    ASSUME AppInv, machine' = machine, app' \in Apps, menu' = ScheduledMenu(app', menu),
           app.at \notin Launching \union {"version"},
           app'.at \notin Launching \union {"version"},
           app'.compatibilityKnown = app.compatibilityKnown
    PROVE  MenuInv'
<1>1. /\ menu' \in Menus /\ menu'.hidden \ Countdowns = menu.hidden \ Countdowns
      /\ ForceShown(app', menu') /\ TimersShown(app', menu')
  BY ScheduledEffect DEF AppInv, MenuInv, Shown
<1>2. Shown' BY <1>1 DEF Shown, AppInv, MenuInv, ForceShown
<1>3. OneDischarge' BY <1>1 DEF OneDischarge, ForceShown
<1>4. HidesKnown'
  <2>1. SUFFICES ASSUME app.compatibilityKnown PROVE Hides(menu')
    BY MacKept DEF HidesKnown
  <2>2. Hides(menu) /\ menu \in Menus
    BY <2>1 DEF AppInv, MenuInv, HidesKnown, Launching, Shown
  <2> QED BY <1>1, <2>2, HidesKept
<1> QED BY <1>2, <1>3, <1>4 DEF MenuInv

LEMMA OpenConfigKeeps ==
    ASSUME AppInv, OpenConfig, UNCHANGED <<service, machine>>,
           timer \in BOOLEAN, cut \in BOOLEAN
    PROVE  AppInv'
<1>0. app.at = "config" /\ Shown /\ menu \in Menus /\ app \in Apps /\ machine \in Machines
  BY DEF OpenConfig, Goes, AppInv, MenuInv, Shown
<1>1. CASE /\ Answers
           /\ Goes("config", Scheduled(To("compatibility")))
           /\ menu' = ScheduledMenu(app', menu)
  <2>1. /\ app' \in Apps /\ app'.at = "compatibility"
        /\ app'.compatibilityKnown = app.compatibilityKnown
        /\ app'.disableScheduled = timer /\ app'.adapterDisableScheduled = cut
    <3>1. /\ To("compatibility") \in Apps /\ To("compatibility").at = "compatibility"
          /\ To("compatibility").compatibilityKnown = app.compatibilityKnown
      BY <1>0, ToPlace DEF Places
    <3> QED BY <1>1, <3>1, ScheduledRead DEF Goes
  <2>2. MenuInv' BY <1>0, <1>1, <2>1, TimersReadKeeps DEF Launching
  <2>3. FreshInv'
    BY <1>1, <2>1 DEF FreshInv, Answers, Launching, ConfigRead, CompatibilityRead,
                      Refreshed, service
  <2> QED BY <2>2, <2>3 DEF AppInv
<1>2. CASE /\ Fails
           /\ Goes("config", [To("telemetry") EXCEPT !.adapterControl = TRUE])
           /\ menu' = NotInstalled
  <2>1. /\ app' \in Apps /\ app'.at = "telemetry" /\ SameBut(app', app)
    <3>1. /\ To("telemetry") \in Apps /\ To("telemetry").at = "telemetry"
          /\ SameBut(To("telemetry"), app)
      BY <1>0, ToPlace DEF Places
    <3> QED BY <1>2, <3>1, ControlRead DEF Goes, SameBut
  <2>2. /\ menu' \in Menus /\ menu'.enabled = menu.enabled
        /\ menu'.hidden \intersect Countdowns = menu.hidden \intersect Countdowns
        /\ "discharge" \in menu'.hidden /\ Hides(menu)'
    BY <1>0, <1>2, NotInstalledEffect, MacKept
  <2>3. Shown' BY <1>0, <2>1, <2>2 DEF Shown, TimersShown, SameBut
  <2>4. FreshInv' BY <1>2, FailsDisturbs, Disturbed
  <2> QED BY <1>0, <2>1, <2>2, <2>3, <2>4
          DEF AppInv, MenuInv, OneDischarge, HidesKnown, Launching, SameBut
<1> QED BY <1>1, <1>2 DEF OpenConfig

LEMMA TickConfigKeeps ==
    ASSUME AppInv, TickConfig, UNCHANGED <<service, machine>>,
           timer \in BOOLEAN, cut \in BOOLEAN
    PROVE  AppInv'
<1>0. app.at = "tickConfig" /\ app \in Apps
  BY DEF TickConfig, Goes, AppInv, MenuInv, Shown
<1>1. CASE /\ Answers
           /\ Goes("tickConfig", Scheduled(AfterTick(app)))
           /\ menu' = ScheduledMenu(app', menu)
  <2>1. /\ AfterTick(app) \in Apps /\ AfterTick(app).at \in {"tickAdapter", "telemetry"}
        /\ AfterTick(app).compatibilityKnown = app.compatibilityKnown
    BY <1>0 DEF AfterTick, Apps, Places
  <2>2. /\ app' \in Apps /\ app'.at \in {"tickAdapter", "telemetry"}
        /\ app'.compatibilityKnown = app.compatibilityKnown
        /\ app'.disableScheduled = timer /\ app'.adapterDisableScheduled = cut
    BY <1>1, <2>1, ScheduledRead DEF Goes
  <2>3. MenuInv' BY <1>0, <1>1, <2>2, TimersReadKeeps DEF Launching
  <2>4. FreshInv'
    BY <1>0, <1>1, <2>2 DEF AppInv, FreshInv, Answers, Launching, ConfigRead,
                            CompatibilityRead, Refreshed, service
  <2> QED BY <2>3, <2>4 DEF AppInv
<1>2. CASE Fails /\ Goes("tickConfig", To("telemetry")) /\ UNCHANGED menu
  <2>1. /\ app' \in Apps /\ app'.at = "telemetry" /\ SameBut(app', app)
        /\ app'.compatibilityKnown = app.compatibilityKnown
    BY <1>0, <1>2, ToPlace DEF Goes, Places
  <2>2. MenuInv' BY <1>0, <1>2, <2>1, MenuInvKept DEF AppInv, Launching
  <2> QED BY <1>2, <2>2, FailsDisturbs, Disturbed DEF AppInv
<1> QED BY <1>1, <1>2 DEF TickConfig

LEMMA OpenStateKeeps ==
    ASSUME AppInv, OpenState, UNCHANGED <<service, machine>>
    PROVE  AppInv'
<1>0. app.at = "state" /\ app \in Apps
  BY DEF OpenState, Goes, AppInv, MenuInv, Shown
<1>1. PICK place \in {"adapter", "telemetry"} :
        app' = To(place) /\ (Answers \/ Fails \/ Refuses)
  BY DEF OpenState, Goes
<1>2. /\ app' \in Apps /\ app'.at = place /\ SameBut(app', app)
      /\ app'.compatibilityKnown = app.compatibilityKnown
  BY <1>0, <1>1, ToPlace DEF Places
<1>3. MenuInv' BY <1>0, <1>2, MenuInvKept DEF OpenState, AppInv, Launching
<1>4. FreshInv'
  <2>1. CASE Fails \/ Refuses BY <2>1, FailsDisturbs, Disturbed
  <2>2. CASE Answers
    <3>1. undisturbed => app'.compatibilityKnown
      BY <1>0, <1>2 DEF AppInv, FreshInv, CompatibilityRead
    <3> QED BY <1>0, <1>2, <2>2, <3>1, StillFresh DEF ConfigRead, AppInv
  <2> QED BY <1>1, <2>1, <2>2
<1> QED BY <1>3, <1>4 DEF AppInv

\* An answer with the adapter's state, on opening and on a tick.
LEMMA AdapterReadKeeps ==
    ASSUME AppInv, adapter \in BOOLEAN, Answers, UNCHANGED <<service, machine>>,
           app.at \in {"adapter", "tickAdapter"}, app' = ReadsAdapter(To("telemetry")),
           menu' = updateForceDischargeControls(app', menu)
    PROVE  AppInv'
<1>0. Shown /\ menu \in Menus /\ app \in Apps
  BY DEF AppInv, MenuInv, Shown
<1>1. /\ app' \in Apps /\ app'.at = "telemetry" /\ SameBut(app', app)
      /\ app'.compatibilityKnown = app.compatibilityKnown
  <2>1. /\ To("telemetry") \in Apps /\ To("telemetry").at = "telemetry"
        /\ SameBut(To("telemetry"), app)
        /\ To("telemetry").compatibilityKnown = app.compatibilityKnown
    BY <1>0, ToPlace DEF Places
  <2> QED BY <2>1, AdapterRead DEF SameBut
<1>2. /\ menu' \in Menus /\ menu'.hidden = menu.hidden
      /\ menu'.enabled \ ForceItems = menu.enabled \ ForceItems
      /\ ForceShown(app', menu')
  BY <1>0, <1>1, ForceEffect
<1>3. Shown'
  BY <1>0, <1>1, <1>2 DEF Shown, TimersShown, SameBut, ForceShown
<1>4. OneDischarge' BY <1>2 DEF OneDischarge, ForceShown
<1>5. HidesKnown'
  <2>1. SUFFICES ASSUME app.compatibilityKnown PROVE Hides(menu')
    BY <1>1, MacKept DEF HidesKnown
  <2> QED BY <1>2, <2>1 DEF AppInv, MenuInv, HidesKnown, Hides, Launching
<1>6. FreshInv'
  <2>1. undisturbed => app'.compatibilityKnown
    BY <1>1 DEF AppInv, FreshInv, CompatibilityRead
  <2> QED BY <1>1, <2>1, StillFresh DEF ConfigRead, AppInv
<1> QED BY <1>1, <1>3, <1>4, <1>5, <1>6 DEF AppInv, MenuInv, Launching

LEMMA OpenAdapterKeeps ==
    ASSUME AppInv, OpenAdapter, UNCHANGED <<service, machine>>, adapter \in BOOLEAN
    PROVE  AppInv'
<1>0. app.at = "adapter" /\ app \in Apps /\ Shown /\ menu \in Menus
  BY DEF OpenAdapter, Goes, AppInv, MenuInv, Shown
<1>1. CASE /\ Answers /\ Goes("adapter", ReadsAdapter(To("telemetry")))
           /\ menu' = updateForceDischargeControls(app', menu)
  BY <1>1, AdapterReadKeeps DEF Goes
<1>2. CASE /\ Fails \/ Refuses
           /\ Goes("adapter", To("telemetry"))
           /\ menu' = IF app.compatibilityKnown THEN SetEnabled(menu, {"discharge"}, FALSE)
                                                ELSE menu
  <2>1. /\ app' \in Apps /\ app'.at = "telemetry" /\ SameBut(app', app)
        /\ app'.compatibilityKnown = app.compatibilityKnown
    BY <1>0, <1>2, ToPlace DEF Goes, Places
  <2>2. /\ menu' \in Menus /\ menu'.hidden = menu.hidden
        /\ menu'.enabled \ {"discharge"} = menu.enabled \ {"discharge"}
    BY <1>0, <1>2 DEF SetEnabled, Menus
  <2>3. Shown' BY <1>0, <2>1, <2>2 DEF Shown, TimersShown, SameBut
  <2>4. OneDischarge' BY <1>0, <2>1, <2>2 DEF OneDischarge, AppInv, MenuInv, Launching
  <2>5. HidesKnown'
    BY <1>0, <2>1, <2>2, MacKept DEF AppInv, MenuInv, HidesKnown, Hides, Launching
  <2> QED BY <1>2, <2>1, <2>3, <2>4, <2>5, FailsDisturbs, Disturbed
          DEF AppInv, MenuInv, Launching
<1> QED BY <1>1, <1>2 DEF OpenAdapter

LEMMA TickAdapterKeeps ==
    ASSUME AppInv, TickAdapter, UNCHANGED <<service, machine>>, adapter \in BOOLEAN
    PROVE  AppInv'
<1>0. app.at = "tickAdapter" /\ app \in Apps
  BY DEF TickAdapter, Goes, AppInv, MenuInv, Shown
<1>1. CASE /\ Answers /\ Goes("tickAdapter", ReadsAdapter(To("telemetry")))
           /\ menu' = updateForceDischargeControls(app', menu)
  BY <1>1, AdapterReadKeeps DEF Goes
<1>2. CASE (Fails \/ Refuses) /\ Goes("tickAdapter", To("telemetry")) /\ UNCHANGED menu
  <2>1. /\ app' \in Apps /\ app'.at = "telemetry" /\ SameBut(app', app)
        /\ app'.compatibilityKnown = app.compatibilityKnown
    BY <1>0, <1>2, ToPlace DEF Goes, Places
  <2>2. MenuInv' BY <1>0, <1>2, <2>1, MenuInvKept DEF AppInv, Launching
  <2> QED BY <1>2, <2>2, FailsDisturbs, Disturbed DEF AppInv
<1> QED BY <1>1, <1>2 DEF TickAdapter

LEMMA updateTelemetryKeeps ==
    ASSUME AppInv, ServiceInv, updateTelemetry, UNCHANGED <<service, machine>>
    PROVE  AppInv'
<1>0. /\ app.at = "telemetry" /\ app \in Apps /\ Shown /\ menu \in Menus
      /\ session.phase \in Phases /\ session.paused \in BOOLEAN
  BY DEF updateTelemetry, Goes, AppInv, MenuInv, Shown, ServiceInv, PromiseInv, Sessions
<1>w. /\ To("waiting") \in Apps /\ To("waiting").at = "waiting"
      /\ SameBut(To("waiting"), app)
      /\ To("waiting").compatibilityKnown = app.compatibilityKnown
  BY <1>0, ToPlace DEF Places
<1>1. CASE /\ Answers /\ capabilities.calibration
           /\ app' = [To("waiting") EXCEPT !.phase = session.phase]
           /\ menu' = CalibrationMenu(app', menu, session.paused)
  <2>1. /\ app' \in Apps /\ app'.at = "waiting" /\ app'.open = app.open
        /\ app'.phase = session.phase
        /\ app'.disableScheduled = app.disableScheduled
        /\ app'.adapterDisableScheduled = app.adapterDisableScheduled
        /\ app'.compatibilityKnown = app.compatibilityKnown
    BY <1>0, <1>w, <1>1, PhaseRead DEF SameBut
  <2>2. /\ menu' \in Menus /\ menu'.hidden = menu.hidden
        /\ disableLimitActionItems \intersect menu'.enabled
              = disableLimitActionItems \intersect menu.enabled
        /\ ForceShown(app', menu') /\ CalibrationShown(app', menu', session.paused)
    BY <1>0, <1>1, <2>1, CalibrationEffect
  <2>3. Shown'
    BY <1>0, <2>1, <2>2 DEF Shown, TimersShown, ForceShown, CalibrationShown
  <2>4. OneDischarge' BY <2>2 DEF OneDischarge, ForceShown
  <2>5. HidesKnown'
    BY <1>0, <2>1, <2>2, MacKept DEF AppInv, MenuInv, HidesKnown, Hides, Launching
  <2>6. FreshInv'
    <3>1. /\ undisturbed' = undisturbed /\ alive' /\ UNCHANGED <<timer, cut, session>>
          /\ capabilities' = capabilities
      BY <1>1, MacKept DEF Answers, service
    <3>2. undisturbed => /\ app.disableScheduled = timer
                         /\ app.adapterDisableScheduled = cut
                         /\ app.compatibilityKnown
      BY <1>0 DEF AppInv, FreshInv, ConfigRead, CompatibilityRead
    <3> QED BY <2>1, <2>2, <3>1, <3>2
            DEF FreshInv, Launching, ConfigRead, CompatibilityRead, Refreshed
  <2> QED BY <2>1, <2>3, <2>4, <2>5, <2>6 DEF AppInv, MenuInv, Launching
<1>2. CASE app' = To("waiting") /\ UNCHANGED menu /\ (Fails \/ ~capabilities.calibration)
  <2>1. MenuInv' BY <1>0, <1>w, <1>2, MenuInvKept DEF AppInv, Launching
  <2>2. CASE Fails BY <2>1, <2>2, FailsDisturbs, Disturbed DEF AppInv
  <2>3. CASE Answers /\ ~capabilities.calibration
    <3>1. /\ undisturbed' = undisturbed /\ alive' /\ UNCHANGED <<timer, cut>>
          /\ capabilities' = capabilities
      BY <2>3, MacKept DEF Answers, service
    <3>2. undisturbed => /\ app.disableScheduled = timer
                         /\ app.adapterDisableScheduled = cut
                         /\ app.compatibilityKnown
      BY <1>0 DEF AppInv, FreshInv, ConfigRead, CompatibilityRead
    <3>3. FreshInv'
      BY <1>w, <1>2, <2>3, <3>1, <3>2
         DEF FreshInv, Launching, ConfigRead, CompatibilityRead, Refreshed, SameBut
    <3> QED BY <2>1, <3>3 DEF AppInv
  <2> QED BY <1>2, <2>2, <2>3 DEF updateTelemetry
<1> QED BY <1>1, <1>2 DEF updateTelemetry, getUnifiedTelemetry, Goes

LEMMA CallsKeep ==
    ASSUME AppInv, ServiceInv, Calls, sameVersion \in BOOLEAN
    PROVE  AppInv'
<1>0. /\ UNCHANGED <<service, machine, sameVersion>>
      /\ timer \in BOOLEAN /\ cut \in BOOLEAN /\ adapter \in BOOLEAN
  BY DEF Calls, ServiceInv, PromiseInv
<1>1. CASE LaunchConfig BY <1>0, <1>1, LaunchConfigKeeps
<1>2. CASE ReadCompatibility("launchCompatibility", "launchVersion")
  BY <1>0, <1>2, ReadCompatibilityKeeps
<1>3. CASE ReadVersion("launchVersion", "waiting") BY <1>0, <1>3, ReadVersionKeeps
<1>4. CASE OpenConfig BY <1>0, <1>4, OpenConfigKeeps
<1>5. CASE ReadCompatibility("compatibility", "version")
  BY <1>0, <1>5, ReadCompatibilityKeeps
<1>6. CASE ReadVersion("version", "state") BY <1>0, <1>6, ReadVersionKeeps
<1>7. CASE OpenState BY <1>0, <1>7, OpenStateKeeps
<1>8. CASE OpenAdapter BY <1>0, <1>8, OpenAdapterKeeps
<1>9. CASE TickConfig BY <1>0, <1>9, TickConfigKeeps
<1>10. CASE TickAdapter BY <1>0, <1>10, TickAdapterKeeps
<1>11. CASE updateTelemetry BY <1>0, <1>11, updateTelemetryKeeps
<1> QED BY <1>1, <1>2, <1>3, <1>4, <1>5, <1>6, <1>7, <1>8, <1>9, <1>10, <1>11, Zenon
        DEF Calls

-----------------------------------------------------------------------------
(* The user and the others *)

\* What every step does that is no call: the menu stays as it is.
LEMMA MenuWaits ==
    ASSUME AppInv, UNCHANGED <<menu, machine>>, NEW at \in Places, NEW open \in BOOLEAN,
           NEW dialog \in Confirmed \union {"none"},
           app' = [app EXCEPT !.at = at, !.open = open, !.dialog = dialog],
           \/ at = app.at /\ (open => app.open)
           \/ app.at = "waiting" /\ at = "config"
           \/ app.at = "waiting" /\ app.open /\ at = "tickConfig"
    PROVE  MenuInv' /\ app'.at = at /\ app'.open = open /\ app'.phase = app.phase
           /\ app'.compatibilityKnown = app.compatibilityKnown
           /\ app'.disableScheduled = app.disableScheduled
           /\ app'.adapterDisableScheduled = app.adapterDisableScheduled
<1>1. /\ app' \in Apps /\ app'.at = at /\ app'.open = open /\ app'.phase = app.phase
      /\ app'.compatibilityKnown = app.compatibilityKnown
      /\ app'.disableScheduled = app.disableScheduled
      /\ app'.adapterDisableScheduled = app.adapterDisableScheduled
  BY DEF AppInv, MenuInv, Shown, Apps
<1>2. Shown' BY <1>1 DEF AppInv, MenuInv, Shown, TimersShown
<1>3. Hides(menu)' <=> Hides(menu) BY MacKept DEF Hides
<1>4. HidesKnown' BY <1>1, <1>3 DEF AppInv, MenuInv, HidesKnown
<1>5. OneDischarge' BY <1>1 DEF AppInv, MenuInv, OneDischarge, Launching
<1> QED BY <1>1, <1>2, <1>4, <1>5 DEF AppInv, MenuInv, Launching

LEMMA FieldsKept ==
    ASSUME app \in Apps, NEW at \in Places, NEW open \in BOOLEAN,
           NEW dialog \in Confirmed \union {"none"}
    PROVE  /\ [app EXCEPT !.at = at]
                = [app EXCEPT !.at = at, !.open = app.open, !.dialog = app.dialog]
           /\ [app EXCEPT !.open = open]
                = [app EXCEPT !.at = app.at, !.open = open, !.dialog = app.dialog]
           /\ [app EXCEPT !.dialog = dialog]
                = [app EXCEPT !.at = app.at, !.open = app.open, !.dialog = dialog]
           /\ [app EXCEPT !.open = open, !.at = at]
                = [app EXCEPT !.at = at, !.open = open, !.dialog = app.dialog]
           /\ [app EXCEPT !.open = open, !.dialog = dialog]
                = [app EXCEPT !.at = app.at, !.open = open, !.dialog = dialog]
           /\ app.at \in Places /\ app.open \in BOOLEAN
           /\ app.dialog \in Confirmed \union {"none"}
BY DEF Apps

LEMMA OpenMenuKeeps == ASSUME AppInv, OpenMenu PROVE AppInv'
<1>1. /\ app \in Apps /\ "config" \in Places /\ TRUE \in BOOLEAN
      /\ app.dialog \in Confirmed \union {"none"}
  BY DEF AppInv, MenuInv, Shown, Places, Apps
<1>2. /\ app' = [app EXCEPT !.at = "config", !.open = TRUE, !.dialog = app.dialog]
      /\ app.at = "waiting" /\ UNCHANGED <<menu, machine>>
  BY <1>1, FieldsKept DEF OpenMenu, Idle
<1>3. MenuInv' /\ app'.at = "config" BY <1>1, <1>2, MenuWaits
<1>4. FreshInv'
  BY <1>3 DEF FreshInv, Launching, ConfigRead, CompatibilityRead, Refreshed
<1> QED BY <1>3, <1>4 DEF AppInv

LEMMA TickKeeps == ASSUME AppInv, Tick PROVE AppInv'
<1>1. /\ app \in Apps /\ "tickConfig" \in Places /\ app.open = TRUE
      /\ app.dialog \in Confirmed \union {"none"}
  BY DEF AppInv, MenuInv, Shown, Places, Apps, Tick
<1>2. /\ app' = [app EXCEPT !.at = "tickConfig", !.open = TRUE, !.dialog = app.dialog]
      /\ app.at = "waiting" /\ UNCHANGED <<menu, machine>>
  BY <1>1, FieldsKept DEF Tick, Idle
<1>3. /\ MenuInv' /\ app'.at = "tickConfig"
      /\ app'.compatibilityKnown = app.compatibilityKnown
  BY <1>1, <1>2, MenuWaits
<1>4. FreshInv'
  BY <1>3 DEF FreshInv, Launching, ConfigRead, CompatibilityRead, Refreshed, Tick
<1> QED BY <1>3, <1>4 DEF AppInv

\* The menu closes, whatever dialog comes up.
LEMMA ClosingKeeps ==
    ASSUME AppInv, Idle, UNCHANGED <<menu, machine>>,
           NEW dialog \in Confirmed \union {"none"},
           app' = [app EXCEPT !.at = app.at, !.open = FALSE, !.dialog = dialog]
    PROVE  AppInv'
<1>1. /\ app.at \in Places /\ FALSE \in BOOLEAN
  BY DEF AppInv, MenuInv, Shown, Apps
<1>2. MenuInv' /\ app'.at = "waiting" /\ app'.open = FALSE
  BY <1>1, MenuWaits DEF Idle
<1>3. FreshInv'
  BY <1>2 DEF FreshInv, Launching, ConfigRead, CompatibilityRead, Refreshed
<1> QED BY <1>2, <1>3 DEF AppInv

LEMMA ItemsKeep ==
    ASSUME AppInv, NEW i \in ActionItems, Click(i) \/ ClickToConfirm(i)
    PROVE  AppInv'
<1>1. /\ app \in Apps /\ FALSE \in BOOLEAN /\ app.dialog \in Confirmed \union {"none"}
  BY DEF AppInv, MenuInv, Shown, Apps
<1>2. CASE Click(i)
  <2>1. /\ app' = [app EXCEPT !.at = app.at, !.open = FALSE, !.dialog = app.dialog]
        /\ Idle /\ UNCHANGED <<menu, machine>>
    BY <1>1, <1>2, FieldsKept, SendMoves DEF Click
  <2> QED BY <1>1, <2>1, ClosingKeeps
<1>3. CASE ClickToConfirm(i)
  <2>1. i \in Confirmed \union {"none"} BY <1>3 DEF ClickToConfirm
  <2>2. /\ app' = [app EXCEPT !.at = app.at, !.open = FALSE, !.dialog = i]
        /\ Idle /\ UNCHANGED <<menu, machine>>
    BY <1>1, <1>3, <2>1, FieldsKept DEF ClickToConfirm
  <2> QED BY <2>1, <2>2, ClosingKeeps
<1> QED BY <1>2, <1>3

\* CloseMenu is an item-less closing, Dismiss and Confirm leave the menu closed.
LEMMA CloseMenuKeeps == ASSUME AppInv, CloseMenu PROVE AppInv'
<1>1. /\ app \in Apps /\ FALSE \in BOOLEAN /\ app.dialog \in Confirmed \union {"none"}
  BY DEF AppInv, MenuInv, Shown, Apps
<1>2. /\ app' = [app EXCEPT !.at = app.at, !.open = FALSE, !.dialog = app.dialog]
      /\ Idle /\ UNCHANGED <<menu, machine>>
  BY <1>1, FieldsKept DEF CloseMenu
<1> QED BY <1>1, <1>2, ClosingKeeps

LEMMA DialogKeeps == ASSUME AppInv, Confirm \/ Dismiss PROVE AppInv'
<1>1. /\ app \in Apps /\ "none" \in Confirmed \union {"none"}
      /\ app.at \in Places /\ app.open \in BOOLEAN
  BY DEF AppInv, MenuInv, Shown, Apps
<1>2. app' = [app EXCEPT !.at = app.at, !.open = app.open, !.dialog = "none"]
  BY <1>1, FieldsKept DEF Confirm, Dismiss
<1>3. UNCHANGED <<menu, machine>> BY SendMoves DEF Confirm, Dismiss
<1>4. /\ MenuInv' /\ app'.at = app.at /\ app'.open = app.open /\ app'.phase = app.phase
      /\ app'.compatibilityKnown = app.compatibilityKnown
      /\ app'.disableScheduled = app.disableScheduled
      /\ app'.adapterDisableScheduled = app.adapterDisableScheduled
  BY <1>1, <1>2, <1>3, MenuWaits
<1>5. CASE Confirm BY <1>4, <1>5, SendMoves, Disturbed DEF Confirm, AppInv
<1>6. CASE Dismiss
  <2>1. /\ UNCHANGED <<service, undisturbed, menu>> /\ capabilities' = capabilities
    BY <1>6, MacKept DEF Dismiss
  <2>2. FreshInv'
    BY <1>4, <2>1 DEF AppInv, FreshInv, Refreshed, CalibrationShown, ForceShown, service
  <2> QED BY <1>4, <2>2 DEF AppInv
<1> QED BY <1>5, <1>6

LEMMA StutterKeeps == ASSUME AppInv, UNCHANGED vars PROVE AppInv'
<1>1. /\ UNCHANGED <<service, app, undisturbed, menu, machine>>
      /\ capabilities' = capabilities /\ (Hides(menu)' <=> Hides(menu))
  BY MacKept DEF vars, Hides
<1>2. MenuInv'
  BY <1>1 DEF AppInv, MenuInv, Shown, OneDischarge, HidesKnown, TimersShown
<1>3. FreshInv'
  BY <1>1 DEF AppInv, FreshInv, Refreshed, CalibrationShown, ForceShown, service
<1> QED BY <1>2, <1>3 DEF AppInv

LEMMA OthersKeep == ASSUME AppInv, Others PROVE AppInv'
<1>1. UNCHANGED <<machine, menu, app>> /\ undisturbed' = FALSE BY OthersMove
<1>2. Hides(menu)' <=> Hides(menu) BY <1>1, MacKept DEF Hides
<1>3. MenuInv'
  BY <1>1, <1>2 DEF AppInv, MenuInv, Shown, OneDischarge, HidesKnown, TimersShown
<1> QED BY <1>1, <1>3, Disturbed DEF AppInv

\* The whole invariant.
Inv == ServiceInv /\ AppInv /\ sameVersion \in BOOLEAN

LEMMA InvInit == Init => Inv
<1> SUFFICES ASSUME Init PROVE Inv
  OBVIOUS
<1>1. ServiceInv BY ServiceInvInit
<1>2. /\ app.at = "launchConfig" /\ app.open = FALSE
      /\ app.disableScheduled = FALSE /\ app.adapterDisableScheduled = FALSE
      /\ app.compatibilityKnown = FALSE
      /\ menu.enabled = Items /\ menu.hidden = Countdowns
      /\ machine \in Machines /\ sameVersion \in BOOLEAN /\ undisturbed = FALSE
  BY DEF Init
<1>3. app \in Apps BY DEF Init, Apps, Places, Phases
<1>4. menu \in Menus
  <2>1. Items \in SUBSET Items /\ Countdowns \in SUBSET Items OBVIOUS
  <2> HIDE DEF Items, Countdowns
  <2> QED BY <2>1 DEF Init, Menus
<1>5. Shown BY <1>2, <1>3, <1>4 DEF Shown, TimersShown
<1> QED BY <1>1, <1>2, <1>5
        DEF Inv, AppInv, MenuInv, FreshInv, OneDischarge, HidesKnown, Launching

LEMMA InvKept == ASSUME Inv, [Next]_vars PROVE Inv'
<1>1. ServiceInv' BY ServiceKeeps DEF Inv
<1>2. AppInv'
  <2>1. CASE Calls BY <2>1, CallsKeep DEF Inv
  <2>2. CASE Tick BY <2>2, TickKeeps DEF Inv
  <2>3. CASE User
    <3>1. CASE OpenMenu \/ CloseMenu \/ Confirm \/ Dismiss
      BY <3>1, OpenMenuKeeps, CloseMenuKeeps, DialogKeeps DEF Inv
    <3>2. CASE \E i \in ActionItems : Click(i) \/ ClickToConfirm(i)
      <4>1. PICK i \in ActionItems : Click(i) \/ ClickToConfirm(i) BY <3>2
      <4> QED BY <4>1, ItemsKeep DEF Inv
    <3> QED BY <2>3, <3>1, <3>2 DEF User
  <2>4. CASE Others BY <2>4, OthersKeep DEF Inv
  <2>5. CASE UNCHANGED vars BY <2>5, StutterKeeps DEF Inv
  <2> QED BY <2>1, <2>2, <2>3, <2>4, <2>5 DEF Next
<1>3. sameVersion' = sameVersion
  <2>1. CASE User
    BY <2>1 DEF User, OpenMenu, CloseMenu, Confirm, Dismiss, Click, ClickToConfirm, Sends
  <2>2. CASE Calls \/ Tick \/ Others \/ UNCHANGED vars
    BY <2>2 DEF Calls, Tick, Others, vars
  <2> QED BY <2>1, <2>2 DEF Next
<1> QED BY <1>1, <1>2, <1>3 DEF Inv

LEMMA Invariance == Spec => []Inv
<1>1. Inv /\ [Next]_vars => Inv' BY InvKept
<1> QED BY <1>1, InvInit, PTL DEF Spec

-----------------------------------------------------------------------------
(* What the user is offered *)

\* Whatever the app reads between the daemon's steps, whichever calls fail: next to a
\* countdown no calibration and no second timer is offered, and a force discharge can be
\* begun or stopped, not both (updateDisableSchedule, updateAdapterDisableSchedule and
\* updateForceDischargeControls in controller.go, called from four places).
THEOREM ControlsAlwaysAgree == Spec => []ControlsAgree
<1>1. Inv => ControlsAgree
  <2> SUFFICES ASSUME Inv, Idle, app.open PROVE ControlsAgree
    BY DEF ControlsAgree
  <2>1. /\ "disableCountdown" \notin menu.hidden => app.disableScheduled
        /\ "dischargeCountdown" \notin menu.hidden => app.adapterDisableScheduled
        /\ app.disableScheduled => "disableFor" \notin menu.enabled
        /\ app.disableScheduled \/ app.adapterDisableScheduled
              => "start" \notin menu.enabled
        /\ app.adapterDisableScheduled => "dischargeFor" \notin menu.enabled
    BY DEF Inv, AppInv, MenuInv, Shown, TimersShown
  <2>2. \/ "discharge" \in menu.hidden
        \/ ~("dischargeFor" \in menu.enabled /\ "dischargeStop" \in menu.enabled)
    BY DEF Inv, AppInv, MenuInv, OneDischarge, Idle, Launching
  <2>3. Parent("dischargeFor") = "discharge" /\ Parent("dischargeStop") = "discharge"
    BY DEF Parent
  <2> QED BY <2>1, <2>2, <2>3 DEF ControlsAgree, Offered
<1> QED BY <1>1, Invariance, PTL

\* What is not hidden, the Mac has.
LEMMA ShownIsSupported ==
    ASSUME Hides(menu), NEW i \in ActionItems, Offered(i)
    PROVE  Supported(i)
<1>1. CASE i = "limit"
  BY <1>1 DEF Hides, HiddenItems, Offered, Parent, Supported
<1>2. CASE i \in disableLimitActionItems
  <2>1. "disable" \notin menu.hidden BY <1>2 DEF Offered, Parent
  <2> QED BY <1>2, <2>1 DEF Hides, HiddenItems, Supported
<1>3. CASE i \in CalibrationItems
  <2>1. "calibration" \notin menu.hidden BY <1>3 DEF Offered, Parent
  <2> QED BY <1>3, <2>1 DEF Hides, HiddenItems, Supported
<1>4. CASE i \in forceDischargeActionItems \union {"dischargeStop"}
  <2>1. "discharge" \notin menu.hidden BY <1>4 DEF Offered, Parent
  <2> QED BY <1>4, <2>1 DEF Hides, HiddenItems, Supported
<1>5. CASE i \in {"sleep", "magSafe"}
  <2>1. i \notin menu.hidden BY <1>5 DEF Offered
  <2> QED BY <1>5, <2>1 DEF Hides, HiddenItems, Supported
<1> QED BY <1>1, <1>2, <1>3, <1>4, <1>5

\* However the menu came about, a refresh whose calls were all answered and during which
\* the daemon stood still offers what the daemon takes and nothing else: refreshOnOpen,
\* refreshDisableSchedules and updateTelemetry read enough, and every item they leave
\* alone is in order (controller.go:213-231, 327-365).
THEOREM OffersAccepted == Spec => []OfferedIsAccepted
<1>1. Inv => OfferedIsAccepted
  <2> SUFFICES ASSUME Inv, Idle, app.open, undisturbed, NEW i \in ActionItems, Offered(i),
                      ~(i = "disableFor" /\ limit = 100)
               PROVE  Accepts(i)
    BY DEF OfferedIsAccepted
  <2>1. /\ alive /\ app.disableScheduled = timer /\ app.adapterDisableScheduled = cut
        /\ app.compatibilityKnown
        /\ capabilities.calibration =>
              /\ app.phase = session.phase
              /\ CalibrationShown(app, menu, session.paused) /\ ForceShown(app, menu)
    BY DEF Inv, AppInv, FreshInv, Refreshed, Idle
  <2>2. Hides(menu) BY <2>1 DEF Inv, AppInv, MenuInv, HidesKnown, Idle
  <2>3. Supported(i) BY <2>2, ShownIsSupported
  <2>4. /\ ~capabilities.calibration => session.phase = "Idle"
        /\ session.phase = "Idle" => ~session.paused
        /\ limit \in 0..100
        /\ timer => disableLimitActionItems \intersect menu.enabled = {}
    BY <2>1 DEF Inv, ServiceInv, AppInv, MenuInv, Shown, TimersShown
  <2>5. i \in menu.enabled /\ Parent(i) \in menu.enabled BY DEF Offered
  <2>6. ASSUME i \in ActionItems \ (CalibrationItems \union {"sleep", "magSafe"})
        PROVE  session.phase = "Idle"
    <3>1. CASE i = "limit" BY <2>1, <2>4, <2>5, <3>1 DEF CalibrationShown
    <3>2. CASE i \in disableLimitActionItems
      <4>1. Parent(i) = "disable" BY <3>2 DEF Parent
      <4> QED BY <2>1, <2>4, <2>5, <3>2, <4>1 DEF CalibrationShown
    <3>3. CASE i \in forceDischargeActionItems \union {"dischargeStop"}
      BY <2>1, <2>4, <2>5, <3>3 DEF ForceShown
    <3> QED BY <2>6, <3>1, <3>2, <3>3
  <2>7. i = "disableFor" => limit < 100 \/ timer BY <2>4
  <2>8. ASSUME i \in CalibrationItems
        PROVE  /\ i = "start" => session.phase \in {"Idle", "Error"} /\ ~timer /\ ~cut
               /\ i \in {"pause", "resume", "cancel"} => session.phase # "Idle"
               /\ i = "pause" => ~session.paused
               /\ i = "resume" => session.paused
    <3>1. capabilities.calibration BY <2>3, <2>8 DEF Supported
    <3> QED BY <2>1, <2>4, <2>5, <3>1 DEF CalibrationShown
  <2> QED BY <2>1, <2>3, <2>6, <2>7, <2>8 DEF Accepts
<1> QED BY <1>1, Invariance, PTL
=============================================================================
