---------------------------- MODULE MCSleepHooks ----------------------------
(***************************************************************************)
(* Instances of SleepHooks for TLC.                                        *)
(***************************************************************************)
EXTENDS SleepHooks

\* The options' defaults (pkg/config/file.go:31-48), with and without a limit.
Defaults ==
    {[limited |-> limited, preventIdleSleep |-> TRUE, disableChargingPreSleep |-> TRUE,
      preventSystemSleep |-> FALSE] : limited \in BOOLEAN}
=============================================================================
