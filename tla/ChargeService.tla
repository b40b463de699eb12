--------------------------- MODULE ChargeService ---------------------------
(***************************************************************************)
(* What the daemon promises those who talk to it, without its locks, its   *)
(* main loop's passes and its files: every request takes effect in one     *)
(* step, between the steps of at most one calibration session, and all a   *)
(* death of the daemon costs is the step it was taking.                    *)
(*                                                                         *)
(* ChargeControl implements this specification (ImplementsService there);  *)
(* MenuApp uses it as the daemon the menu-bar app talks to.                *)
(***************************************************************************)
EXTENDS Integers

CONSTANT Limits  \* the charge limits users ask for (bound); the daemon takes 10..100

VARIABLES
    alive,    \* the daemon runs
    limit,    \* the charge limit in force
    wanted,   \* the limit the user last set
    timer,    \* the limit is disabled for a while
    cut,      \* the power adapter is disabled for a while
    adapter,  \* the power adapter is on
    session   \* the calibration: phase, pause, and the adapter to go back to

serviceVars == <<alive, limit, wanted, timer, cut, adapter, session>>

NoSession == [phase |-> "Idle", paused |-> FALSE, home |-> FALSE]

Init ==
    /\ alive = FALSE
    /\ wanted \in Limits /\ limit = wanted
    /\ timer = FALSE /\ cut = FALSE
    /\ adapter = TRUE
    /\ session = NoSession

-----------------------------------------------------------------------------
(* The life of the daemon.                                                 *)

\* A session interrupted mid-flow comes back paused.
Interrupted(s) ==
    [s EXCEPT !.paused = @ \/ s.phase \notin {"Idle", "Restore", "Error"}]

\* A shut-down puts the adapter back on, a crash does not.
Stop ==
    /\ alive
    /\ alive' = FALSE
    /\ adapter' \in {adapter, TRUE}
    /\ session' = Interrupted(session)
    /\ UNCHANGED <<limit, wanted, timer, cut>>

Restart ==
    /\ ~alive
    /\ alive' = TRUE
    /\ UNCHANGED <<limit, wanted, timer, cut, adapter, session>>

-----------------------------------------------------------------------------
(* The limit and the adapter.  None of these moves under a calibration.    *)

Unowned == alive /\ session.phase = "Idle"

SetLimit(l) ==
    /\ Unowned
    /\ limit' = l /\ wanted' = l /\ timer' = FALSE
    /\ UNCHANGED <<alive, cut, adapter, session>>

DisableFor ==
    /\ Unowned
    /\ limit < 100 \/ timer
    /\ limit' = 100 /\ timer' = TRUE
    /\ UNCHANGED <<alive, wanted, cut, adapter, session>>

RestoreLimit ==
    /\ Unowned
    /\ timer
    /\ limit' = wanted /\ timer' = FALSE
    /\ UNCHANGED <<alive, wanted, cut, adapter, session>>

SetAdapter(on) ==
    /\ Unowned
    /\ adapter' = on /\ cut' = FALSE
    /\ UNCHANGED <<alive, limit, wanted, timer, session>>

DisableAdapterFor ==
    /\ Unowned
    /\ cut' = TRUE
    /\ UNCHANGED <<alive, limit, wanted, timer, adapter, session>>

\* While the adapter's timer is pending the power follows it, off and back on.
SwitchPower ==
    /\ Unowned
    /\ cut
    /\ adapter' = ~adapter
    /\ UNCHANGED <<alive, limit, wanted, timer, cut, session>>

EndCut ==
    /\ Unowned
    /\ cut /\ adapter
    /\ cut' = FALSE
    /\ UNCHANGED <<alive, limit, wanted, timer, adapter, session>>

-----------------------------------------------------------------------------
(* The calibration.  A step takes effect on the limit and the power, and   *)
(* the daemon may die before it has recorded the new state of the session. *)

Becomes(s) ==
    \/ alive' = TRUE /\ session' = s
    \/ alive' = FALSE /\ session' = Interrupted(session)

SettingsKept == UNCHANGED <<limit, wanted, timer, cut, adapter>>

StartSession ==
    /\ alive /\ session.phase \in {"Idle", "Error"}
    /\ ~timer /\ ~cut
    /\ Becomes([phase |-> "Discharge", paused |-> FALSE, home |-> adapter])
    /\ SettingsKept

PauseSession ==
    /\ alive /\ session.phase # "Idle" /\ ~session.paused
    /\ Becomes([session EXCEPT !.paused = TRUE])
    /\ SettingsKept

ResumeSession ==
    /\ alive /\ session.phase # "Idle" /\ session.paused
    /\ Becomes([session EXCEPT !.paused = FALSE])
    /\ SettingsKept

\* Both ways of ending a session give back what it found.
EndSession ==
    /\ alive
    /\ Becomes(NoSession)
    /\ limit' = wanted /\ adapter' = session.home
    /\ UNCHANGED <<wanted, timer, cut>>

CancelSession == session.phase # "Idle" /\ EndSession

Goes(from, to) ==
    /\ alive /\ ~session.paused /\ session.phase = from
    /\ Becomes([session EXCEPT !.phase = to])
    /\ UNCHANGED <<wanted, timer, cut>>

Drain == Goes("Discharge", "Discharge") /\ adapter' = FALSE /\ UNCHANGED limit
BeginCharging == Goes("Discharge", "Charge") /\ adapter' = TRUE /\ limit' = 100
BeginHolding == Goes("Charge", "Hold") /\ UNCHANGED <<adapter, limit>>
BeginPostHold == Goes("Hold", "PostHold") /\ adapter' = FALSE /\ UNCHANGED limit
BeginRestore == Goes("PostHold", "Restore") /\ UNCHANGED <<adapter, limit>>
Finish == ~session.paused /\ session.phase = "Restore" /\ EndSession

\* An SMC call failed: the session stops where it is.
Fail ==
    /\ \E from \in {"Discharge", "Restore"} : Goes(from, "Error")
    /\ adapter' \in {adapter, TRUE}
    /\ UNCHANGED limit

-----------------------------------------------------------------------------
Request ==
    \/ \E l \in Limits : SetLimit(l)
    \/ DisableFor
    \/ \E on \in BOOLEAN : SetAdapter(on)
    \/ DisableAdapterFor
    \/ StartSession \/ PauseSession \/ ResumeSession \/ CancelSession

Daemon ==
    \/ RestoreLimit \/ SwitchPower \/ EndCut
    \/ Drain \/ BeginCharging \/ BeginHolding \/ BeginPostHold \/ BeginRestore
    \/ Finish \/ Fail

Next == Stop \/ Restart \/ Request \/ Daemon

Spec == Init /\ [][Next]_serviceVars

-----------------------------------------------------------------------------
(* What follows from the promises.                                         *)

TypeOK ==
    /\ alive \in BOOLEAN
    /\ limit \in 0..100 /\ wanted \in Limits
    /\ timer \in BOOLEAN /\ cut \in BOOLEAN /\ adapter \in BOOLEAN
    /\ session \in
          [phase : {"Idle", "Discharge", "Charge", "Hold", "PostHold", "Restore", "Error"},
           paused : BOOLEAN, home : BOOLEAN]

\* A timer and a session never meet, and the user's limit is in force unless
\* one of them, which will give it back, has raised it.
LimitPromise ==
    /\ session.phase # "Idle" => ~timer /\ ~cut
    /\ ~timer /\ session.phase = "Idle" => limit = wanted

=============================================================================
