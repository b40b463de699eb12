--------------------------- MODULE MCConfigStore ---------------------------
(***************************************************************************)
(* Statements about ConfigStore that its code does not keep; the runs that *)
(* refute them are described in the README.                                *)
(***************************************************************************)
EXTENDS ConfigStore

\* file.go panics on a lower limit below 0 or not below the upper one.
LowerBelowUpper ==
    alive = "up" => Value("delta") > 0 /\ Value("limit") - Value("delta") >= 0

\* No two goroutines wait for each other.
EveryRequestEnds == \A p \in Clients : proc[p].op # "none" ~> proc[p].op = "none"

\* A setter's value stays in memory until its save is done.
SaveWritesIt ==
    \A p \in Clients :
        proc[p].at \in {"saves", "encodes"} /\ (\A q \in Clients \ {p} : proc[q].op = "none")
            => mem[proc[p].field] = proc[p].value

=============================================================================
