-------------------------- MODULE MCChargeControl --------------------------
(***************************************************************************)
(* The request sets of the model-checking runs of ChargeControl.  A run    *)
(* names the requests users and the system make in it; the other constants *)
(* are in the .cfg files.                                                  *)
(***************************************************************************)
EXTENDS ChargeControl

\* Everything but SIGHUP.
AllRequests ==
    {"limit", "disableFor", "adapter", "adapterFor", "delta",
     "start", "pause", "resume", "cancel", "crash", "stop"}

\* The requests that start, end or survive a timer or a session, with SIGHUP,
\* for the runs in which individual steps fail.
FailureRequests ==
    {"disableFor", "adapter", "adapterFor", "start", "pause", "cancel",
     "crash", "reload"}

\* The requests whose limits the setters may refuse.
LimitRequests ==
    {"limit", "disableFor", "adapterFor", "delta", "start", "cancel", "crash"}

\* One user who disables the adapter for a while, and one SIGHUP.
ReloadRequests == {"adapterFor", "reload"}

\* A session that fails and is started again.
RestartRequests == {"start", "cancel"}

\* A session that is paused, then resumed or cancelled.
PauseRequests == {"start", "pause", "resume", "cancel"}

=============================================================================
