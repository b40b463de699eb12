----------------------------- MODULE MCMenuApp -----------------------------
(***************************************************************************)
(* The Macs of the model-checking runs of MenuApp.                         *)
(***************************************************************************)
EXTENDS MenuApp

Mac(mode, hasAdapter, led) == [mode |-> mode, adapter |-> hasAdapter, led |-> led]

\* One that lacks nothing, one with firmware charge control, one without
\* adapter control.
Macs ==
    {Mac("legacy", TRUE, TRUE), Mac("firmware", TRUE, FALSE),
     Mac("firmware", FALSE, FALSE), Mac("unsupported", FALSE, FALSE)}

=============================================================================
