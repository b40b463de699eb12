------------------------------ MODULE MenuApp ------------------------------
(***************************************************************************)
(* The menu-bar app (pkg/gui) beside the daemon and the command line.  The *)
(* app runs on one thread; every answer of the daemon it builds the menu   *)
(* from comes from a call of its own, and between two calls the daemon     *)
(* moves on, other clients make requests, and calls fail.                  *)
(*                                                                         *)
(* The daemon is ChargeService, which ChargeControl implements.            *)
(***************************************************************************)
EXTENDS Integers, FiniteSets

CONSTANTS
    Limits,       \* the charge limits users ask for (bound)
    Machines,     \* the Macs the app may run on
    MaxChanges,   \* steps the daemon takes, on request or on its own (bound)
    MaxGlitches   \* calls that fail although the daemon runs (bound)

Modes == {"legacy", "firmware", "unsupported"}

ASSUME MenuAppAssumption ==
    /\ Limits \subseteq 10..100 /\ 100 \in Limits
    /\ Machines \subseteq [mode : Modes, adapter : BOOLEAN, led : BOOLEAN]
    /\ MaxChanges \in Nat /\ MaxGlitches \in Nat

VARIABLES
    alive, limit, wanted, timer, cut, adapter, session,  \* see ChargeService
    machine,      \* the Mac
    sameVersion,  \* the daemon has the app's version
    app,          \* menuController: what it has read, and where it is
    menu,         \* the native menu: which items are enabled and hidden
    changes,      \* steps the daemon has taken
    glitches,     \* calls that have failed although the daemon ran
    undisturbed   \* history: no call failed and the daemon stood still since
                  \* the last refresh began

service == <<alive, limit, wanted, timer, cut, adapter, session>>
vars == <<service, machine, sameVersion, app, menu, changes, glitches, undisturbed>>

Daemon == INSTANCE ChargeService

-----------------------------------------------------------------------------
(* Capabilities: what the daemon reports, and what the app takes for       *)
(* granted when it cannot ask.                                             *)

Capabilities ==
    [chargingControl : BOOLEAN, legacy : BOOLEAN, sleepHooks : BOOLEAN,
     magSafeLED : BOOLEAN, adapterControl : BOOLEAN, calibration : BOOLEAN]

capabilities ==
    LET legacy == machine.mode = "legacy"
        controlled == machine.mode # "unsupported"
    IN  [chargingControl |-> controlled, legacy |-> legacy, sleepHooks |-> legacy,
         magSafeLED |-> legacy /\ machine.led, adapterControl |-> machine.adapter,
         calibration |-> controlled /\ machine.adapter]

Permissive ==
    [chargingControl |-> TRUE, legacy |-> TRUE, sleepHooks |-> TRUE,
     magSafeLED |-> TRUE, adapterControl |-> TRUE, calibration |-> TRUE]

-----------------------------------------------------------------------------
(* The menu.  One item stands for the five quick limits, one for the       *)
(* disable and one for the force-discharge durations, and so on.           *)

disableLimitActionItems == {"disableNow", "disableFor"}
forceDischargeActionItems == {"dischargeNow", "dischargeFor"}
CalibrationItems == {"start", "pause", "resume", "cancel"}
ActionItems ==
    disableLimitActionItems \union forceDischargeActionItems
        \union CalibrationItems \union {"dischargeStop", "limit", "sleep", "magSafe"}
Submenus == {"disable", "discharge", "calibration"}
Countdowns == {"disableCountdown", "dischargeCountdown"}
Items == ActionItems \union Submenus \union Countdowns

\* The item that has to be usable for i to be clicked; a top-level item is its own.
Parent(i) ==
    CASE i \in disableLimitActionItems -> "disable"
      [] i \in forceDischargeActionItems \union {"dischargeStop"} -> "discharge"
      [] i \in CalibrationItems -> "calibration"
      [] OTHER -> i

Offered(i) == {i, Parent(i)} \subseteq menu.enabled \ menu.hidden

SetEnabled(m, items, yes) ==
    [m EXCEPT !.enabled = IF yes THEN @ \union items ELSE @ \ items]
SetHidden(m, items, yes) ==
    [m EXCEPT !.hidden = IF yes THEN @ \union items ELSE @ \ items]

-----------------------------------------------------------------------------
(* How the controller builds the menu from what it has read.               *)

updateForceDischargeControls(a, m) ==
    LET idle == a.phase = "Idle"
        canControl == a.adapterKnown /\ idle
        cutOff == ~a.adapterEnabled \/ a.adapterDisableScheduled
        m1 == SetEnabled(m, forceDischargeActionItems, canControl /\ ~cutOff)
        m2 == SetEnabled(m1, {"dischargeStop"}, canControl /\ cutOff)
    IN  SetEnabled(m2, {"discharge"},
                   a.adapterKnown /\ (idle \/ a.adapterDisableScheduled))

\* updateDisableSchedule and updateAdapterDisableSchedule.
\* Mutant: the countdown of a calibration-blocking timer, "start" left alone.
ScheduledMenuKeepsStart(a, m) ==
    LET m1 == SetEnabled(m, disableLimitActionItems, ~a.disableScheduled)
        m2 == SetHidden(m1, {"disableCountdown"}, ~a.disableScheduled)
        m3 == IF a.disableScheduled THEN SetEnabled(m2, {"disable"}, TRUE) ELSE m2
        m4 == SetHidden(m3, {"dischargeCountdown"}, ~a.adapterDisableScheduled)
    IN  updateForceDischargeControls(a, m4)
ScheduledMenu(a, m) ==
    LET m1 == SetEnabled(m, disableLimitActionItems, ~a.disableScheduled)
        m2 == SetHidden(m1, {"disableCountdown"}, ~a.disableScheduled)
        m3 == IF a.disableScheduled THEN SetEnabled(m2, {"disable"}, TRUE) ELSE m2
        m4 == SetHidden(m3, {"dischargeCountdown"}, ~a.adapterDisableScheduled)
        m5 == IF a.disableScheduled \/ a.adapterDisableScheduled
              THEN SetEnabled(m4, {"start"}, FALSE) ELSE m4
    IN  updateForceDischargeControls(a, m5)

\* What setCompatibility hides.
HiddenItems(installed, caps, needsUpgrade) ==
    LET usable == installed /\ caps.chargingControl /\ ~needsUpgrade
        shown == {i \in {"limit", "disable"} : usable}
            \union {i \in {"magSafe"} : usable /\ caps.magSafeLED}
            \union {i \in {"sleep"} : usable /\ caps.sleepHooks}
            \union {i \in {"discharge"} : usable /\ caps.adapterControl}
            \union {i \in {"calibration"} : usable /\ caps.calibration}
    IN  {"limit", "disable", "magSafe", "sleep", "discharge", "calibration"} \ shown

setCompatibility(m, installed, caps, needsUpgrade) ==
    [m EXCEPT !.hidden =
        (@ \intersect Countdowns) \union HiddenItems(installed, caps, needsUpgrade)]

canStartCalibration(a) ==
    a.phase = "Idle" /\ ~a.disableScheduled /\ ~a.adapterDisableScheduled

\* Mutant: a failed calibration is taken to leave the limit alone.
canSetChargeLimitError(a) == a.phase \in {"Idle", "Error"}
canSetChargeLimit(a) == a.phase = "Idle"

\* updateCalibration, once a.phase is the status's phase.
CalibrationMenu(a, m, paused) ==
    LET idle == a.phase = "Idle"
        m1 == SetEnabled(m, {"start"}, canStartCalibration(a))
        m2 == SetEnabled(m1, {"cancel"}, ~idle)
        m3 == SetEnabled(m2, {"pause"}, ~idle /\ ~paused)
        m4 == SetEnabled(m3, {"resume"}, paused)
        m5 == SetEnabled(m4, {"limit"}, canSetChargeLimit(a))
        m6 == SetEnabled(m5, {"disable"}, idle \/ a.disableScheduled)
    IN  updateForceDischargeControls(a, m6)

-----------------------------------------------------------------------------
Places == {"waiting", "launchConfig", "launchCompatibility", "launchVersion",
           "config", "compatibility", "version", "state", "adapter",
           "tickConfig", "tickAdapter", "telemetry"}

Phases == {"Idle", "Discharge", "Charge", "Hold", "PostHold", "Restore", "Error"}

Init ==
    /\ Daemon!Init
    /\ machine \in Machines
    /\ sameVersion \in BOOLEAN
    /\ app = [at |-> "launchConfig", open |-> FALSE, dialog |-> "none",
              phase |-> "Idle", disableScheduled |-> FALSE,
              adapterDisableScheduled |-> FALSE, adapterEnabled |-> FALSE,
              adapterKnown |-> FALSE, compatibilityKnown |-> FALSE,
              adapterControl |-> FALSE]
    /\ menu = [enabled |-> Items, hidden |-> Countdowns]
    /\ changes = 0 /\ glitches = 0
    /\ undisturbed = FALSE

-----------------------------------------------------------------------------
(* Calls.  They fail when the daemon is down, and now and then.            *)

Answers ==
    /\ alive
    /\ UNCHANGED <<glitches, undisturbed>>

Fails ==
    /\ \/ ~alive /\ UNCHANGED glitches
       \/ alive /\ glitches < MaxGlitches /\ glitches' = glitches + 1
    /\ undisturbed' = FALSE

\* The getters that answer with an error on this Mac, whatever happens.
Refused ==
    {c \in {"charging"} : ~capabilities.legacy}
        \union {c \in {"adapter"} : ~capabilities.adapterControl}
Refuses == alive /\ undisturbed' = FALSE /\ UNCHANGED glitches

Goes(from, a) == app.at = from /\ app' = a
To(place) == [app EXCEPT !.at = place]

\* The capabilities a refresh goes on with.
Known(a) == IF a.compatibilityKnown THEN capabilities ELSE Permissive

NotInstalled == setCompatibility(menu, FALSE, Permissive, FALSE)

-----------------------------------------------------------------------------
(* refreshCompatibility, once at launch.                                   *)

LaunchConfig ==
    \/ Answers /\ Goes("launchConfig", To("launchCompatibility")) /\ UNCHANGED menu
    \/ /\ Fails
       /\ Goes("launchConfig", [To("waiting") EXCEPT !.adapterControl = TRUE])
       /\ menu' = NotInstalled

ReadCompatibility(from, to) ==
    /\ \/ Answers /\ Goes(from, [To(to) EXCEPT !.compatibilityKnown = TRUE])
       \/ Fails /\ Goes(from, [To(to) EXCEPT !.compatibilityKnown = FALSE])
    /\ UNCHANGED menu

ReadVersion(from, to) ==
    /\ Goes(from, [To(to) EXCEPT !.adapterControl = Known(app).adapterControl])
    /\ \/ /\ Answers
          /\ menu' = setCompatibility(menu, TRUE, Known(app), ~sameVersion)
       \/ /\ Fails
          /\ menu' = setCompatibility(menu, TRUE, Known(app), TRUE)

-----------------------------------------------------------------------------
(* onWillOpen: refreshOnOpen, then updateTelemetry.                        *)

Scheduled(a) == [a EXCEPT !.disableScheduled = timer, !.adapterDisableScheduled = cut]

OpenConfig ==
    \/ /\ Answers
       /\ Goes("config", Scheduled(To("compatibility")))
       /\ menu' = ScheduledMenu(app', menu)
    \/ /\ Fails
       /\ Goes("config", [To("telemetry") EXCEPT !.adapterControl = TRUE])
       /\ menu' = NotInstalled

StateCalls ==
    {"plugged-in", "current-charge", "battery-info"}
        \union {c \in {"charging"} : Known(app).legacy}

\* One call that fails ends the refresh.
OpenState ==
    /\ \/ /\ Answers /\ StateCalls \intersect Refused = {}
          /\ Goes("state", To(IF Known(app).adapterControl THEN "adapter"
                                                           ELSE "telemetry"))
       \/ /\ Fails \/ (StateCalls \intersect Refused # {} /\ Refuses)
          /\ Goes("state", To("telemetry"))
    /\ UNCHANGED menu

ReadsAdapter(a) == [a EXCEPT !.adapterEnabled = adapter, !.adapterKnown = TRUE]

OpenAdapter ==
    \/ /\ Answers /\ "adapter" \notin Refused
       /\ Goes("adapter", ReadsAdapter(To("telemetry")))
       /\ menu' = updateForceDischargeControls(app', menu)
    \/ /\ Fails \/ ("adapter" \in Refused /\ Refuses)
       /\ Goes("adapter", To("telemetry"))
       /\ menu' = IF app.compatibilityKnown THEN SetEnabled(menu, {"discharge"}, FALSE)
                                            ELSE menu

\* What the daemon's telemetry says of the calibration, if anything.
getUnifiedTelemetry == {s \in {session} : capabilities.calibration}

updateTelemetry ==
    \/ /\ Answers
       /\ \/ \E s \in getUnifiedTelemetry :
                /\ Goes("telemetry", [To("waiting") EXCEPT !.phase = s.phase])
                /\ menu' = CalibrationMenu(app', menu, s.paused)
          \/ /\ getUnifiedTelemetry = {}
             /\ Goes("telemetry", To("waiting")) /\ UNCHANGED menu
    \/ /\ Fails
       /\ Goes("telemetry", To("waiting"))
       /\ UNCHANGED menu

-----------------------------------------------------------------------------
(* onTimerTick: refreshDisableSchedules, then updateTelemetry.             *)

AfterTick(a) == [a EXCEPT !.at = IF app.adapterControl THEN "tickAdapter" ELSE "telemetry"]

\* Mutant: a tick that finds no timer returns early.
TickReturnsEarly ==
    \/ /\ Answers /\ (timer \/ cut)
       /\ Goes("tickConfig", Scheduled(AfterTick(app)))
       /\ menu' = ScheduledMenu(app', menu)
    \/ /\ Answers /\ ~timer /\ ~cut
       /\ Goes("tickConfig", AfterTick(app)) /\ UNCHANGED menu
    \/ Fails /\ Goes("tickConfig", To("telemetry")) /\ UNCHANGED menu
TickConfig ==
    \/ /\ Answers
       /\ Goes("tickConfig", Scheduled(AfterTick(app)))
       /\ menu' = ScheduledMenu(app', menu)
    \/ Fails /\ Goes("tickConfig", To("telemetry")) /\ UNCHANGED menu

TickAdapter ==
    \/ /\ Answers /\ "adapter" \notin Refused
       /\ Goes("tickAdapter", ReadsAdapter(To("telemetry")))
       /\ menu' = updateForceDischargeControls(app', menu)
    \/ /\ Fails \/ ("adapter" \in Refused /\ Refuses)
       /\ Goes("tickAdapter", To("telemetry"))
       /\ UNCHANGED menu

Calls ==
    /\ \/ LaunchConfig
       \/ ReadCompatibility("launchCompatibility", "launchVersion")
       \/ ReadVersion("launchVersion", "waiting")
       \/ OpenConfig
       \/ ReadCompatibility("compatibility", "version")
       \/ ReadVersion("version", "state")
       \/ OpenState \/ OpenAdapter
       \/ TickConfig \/ TickAdapter
       \/ updateTelemetry
    /\ UNCHANGED <<service, machine, sameVersion, changes>>

-----------------------------------------------------------------------------
(* The user at the menu.                                                   *)

Idle == app.at = "waiting" /\ app.dialog = "none"

OpenMenu ==
    /\ Idle /\ ~app.open
    /\ app' = [app EXCEPT !.open = TRUE, !.at = "config"]
    /\ undisturbed' = TRUE
    /\ UNCHANGED <<service, machine, sameVersion, menu, changes, glitches>>

\* The menu's timer, which runs while the menu is open.
Tick ==
    /\ Idle /\ app.open
    /\ app' = [app EXCEPT !.at = "tickConfig"]
    /\ undisturbed' = app.compatibilityKnown
    /\ UNCHANGED <<service, machine, sameVersion, menu, changes, glitches>>

CloseMenu ==
    /\ Idle /\ app.open
    /\ app' = [app EXCEPT !.open = FALSE]
    /\ UNCHANGED <<service, machine, sameVersion, menu, changes, glitches, undisturbed>>

Changes == changes < MaxChanges /\ changes' = changes + 1

\* What the daemon does with the request behind an item.
Request(i) ==
    \/ i = "limit" /\ \E l \in Limits \ {100} : Daemon!SetLimit(l)
    \/ i = "disableNow" /\ Daemon!SetLimit(100)
    \/ i = "disableFor" /\ Daemon!DisableFor
    \/ i = "dischargeNow" /\ Daemon!SetAdapter(FALSE)
    \/ i = "dischargeFor" /\ Daemon!DisableAdapterFor
    \/ i = "dischargeStop" /\ Daemon!SetAdapter(TRUE)
    \/ i = "start" /\ Daemon!StartSession
    \/ i = "pause" /\ Daemon!PauseSession
    \/ i = "resume" /\ Daemon!ResumeSession
    \/ i = "cancel" /\ Daemon!CancelSession

\* requireCapability.
Supported(i) ==
    CASE i \in {"limit"} \union disableLimitActionItems -> capabilities.chargingControl
      [] i \in CalibrationItems -> capabilities.calibration
      [] i = "sleep" -> capabilities.sleepHooks
      [] i = "magSafe" -> capabilities.magSafeLED
      [] OTHER -> capabilities.adapterControl

\* The daemon takes the request.
Accepts(i) ==
    /\ alive /\ Supported(i)
    /\ i \in ActionItems \ (CalibrationItems \union {"sleep", "magSafe"})
           => session.phase = "Idle"
    /\ i = "disableFor" => limit < 100 \/ timer
    /\ i = "start" => session.phase \in {"Idle", "Error"} /\ ~timer /\ ~cut
    /\ i \in {"pause", "resume", "cancel"} => session.phase # "Idle"
    /\ i = "pause" => ~session.paused
    /\ i = "resume" => session.paused

\* A request that is not taken ends in an alert.
Sends(i) ==
    /\ \/ Supported(i) /\ Request(i) /\ Changes
       \/ ~Accepts(i) /\ UNCHANGED <<service, changes>>
       \/ i \in {"sleep", "magSafe"} /\ UNCHANGED <<service, changes>>
    /\ undisturbed' = FALSE
    /\ UNCHANGED <<machine, sameVersion, menu, glitches>>

Confirmed == forceDischargeActionItems \union {"start"}

Click(i) ==
    /\ Idle /\ app.open
    /\ Offered(i)
    /\ i \notin Confirmed
    /\ app' = [app EXCEPT !.open = FALSE]
    /\ Sends(i)

\* The dialog is modal: the app waits, the daemon does not.
ClickToConfirm(i) ==
    /\ Idle /\ app.open
    /\ Offered(i)
    /\ i \in Confirmed
    /\ app' = [app EXCEPT !.open = FALSE, !.dialog = i]
    /\ UNCHANGED <<service, machine, sameVersion, menu, changes, glitches, undisturbed>>

Confirm ==
    /\ app.dialog # "none"
    /\ app' = [app EXCEPT !.dialog = "none"]
    /\ Sends(app.dialog)

Dismiss ==
    /\ app.dialog # "none"
    /\ app' = [app EXCEPT !.dialog = "none"]
    /\ UNCHANGED <<service, machine, sameVersion, menu, changes, glitches, undisturbed>>

-----------------------------------------------------------------------------
(* The rest of the world: batt's command line, which makes one request at a*)
(* time, and the daemon on its own.                                        *)

NewLimitCommand == \E l \in Limits : Daemon!SetLimit(l)
NewDisableCommand == Daemon!SetLimit(100) \/ Daemon!DisableFor
NewAdapterCommand == Daemon!DisableAdapterFor \/ \E on \in BOOLEAN : Daemon!SetAdapter(on)
NewCalibrationCommand ==
    \/ Daemon!StartSession \/ Daemon!PauseSession
    \/ Daemon!ResumeSession \/ Daemon!CancelSession

CommandLine ==
    \/ capabilities.chargingControl /\ (NewLimitCommand \/ NewDisableCommand)
    \/ capabilities.adapterControl /\ NewAdapterCommand
    \/ capabilities.calibration /\ NewCalibrationCommand

Others ==
    /\ CommandLine \/ Daemon!Daemon \/ Daemon!Stop \/ Daemon!Restart
    /\ Changes
    /\ undisturbed' = FALSE
    /\ UNCHANGED <<machine, sameVersion, app, menu, glitches>>

-----------------------------------------------------------------------------
User ==
    \/ OpenMenu \/ CloseMenu \/ Confirm \/ Dismiss
    \/ \E i \in ActionItems : Click(i) \/ ClickToConfirm(i)

Next == Calls \/ Tick \/ User \/ Others

Spec == Init /\ [][Next]_vars

\* The app's thread runs on and AppKit's timer fires while the menu is open.
FairSpec == Spec /\ WF_vars(Calls) /\ WF_vars(Tick)

-----------------------------------------------------------------------------
(* Properties.                                                             *)

TypeOK ==
    /\ Daemon!TypeOK
    /\ machine \in Machines /\ sameVersion \in BOOLEAN
    /\ app \in [at : Places, open : BOOLEAN, dialog : Confirmed \union {"none"},
                phase : Phases, disableScheduled : BOOLEAN,
                adapterDisableScheduled : BOOLEAN, adapterEnabled : BOOLEAN,
                adapterKnown : BOOLEAN, compatibilityKnown : BOOLEAN,
                adapterControl : BOOLEAN]
    /\ menu.enabled \subseteq Items /\ menu.hidden \subseteq Items
    /\ changes \in 0..MaxChanges /\ glitches \in 0..MaxGlitches
    /\ undisturbed \in BOOLEAN

\* Whatever the calls of earlier refreshes did, a refresh no call of which
\* failed and during which the daemon stood still leaves a menu that offers only
\* what the daemon accepts: no item for a feature the Mac lacks, none that a
\* timer, a cut or a calibration forbids (controller.go:213-231, 327-365).  Only
\* "disable for" is offered in vain, when the limit is already 100%.
OfferedIsAccepted ==
    Idle /\ app.open /\ undisturbed
        => \A i \in ActionItems :
              Offered(i) => Accepts(i) \/ (i = "disableFor" /\ limit = 100)

\* Whatever fails and whatever the daemon does between two calls, the parts of
\* the menu agree with each other: next to a countdown no calibration is offered
\* and no second timer; a force discharge is offered or can be stopped, not both
\* (controller.go:178-240, 316-345; docs/auto-calibration.md on conflicts).
ControlsAgree ==
    Idle /\ app.open =>
        /\ "disableCountdown" \notin menu.hidden
              => ~Offered("start") /\ ~Offered("disableFor")
        /\ "dischargeCountdown" \notin menu.hidden
              => ~Offered("start") /\ ~Offered("dischargeFor")
        /\ ~(Offered("dischargeFor") /\ Offered("dischargeStop"))

\* A menu that opened with the daemon's capabilities and version known and stays
\* open follows a daemon that has come to rest, although its calls are separate
\* and some have failed: the countdowns show the timers, and a calibration is
\* offered exactly when it can start from the beginning (onTimerTick).
MenuCatchesUp ==
    <>[](app.open /\ alive /\ app.compatibilityKnown /\ "limit" \notin menu.hidden)
    => <>[](Idle => /\ "disableCountdown" \in menu.hidden <=> ~timer
                    /\ "dischargeCountdown" \in menu.hidden <=> ~cut
                    /\ Offered("start") <=> Accepts("start") /\ session.phase = "Idle")

\* A GetAdapter that fails disables the force-discharge menu for this opening
\* (controller.go:164-166).
FailedReadDisables ==
    [][app.at = "telemetry" /\ app.adapterKnown /\ app.phase = "Idle"
         /\ "discharge" \notin menu.enabled
       => "discharge" \notin menu'.enabled]_vars

=============================================================================
