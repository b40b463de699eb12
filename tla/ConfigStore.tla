---------------------------- MODULE ConfigStore ----------------------------
(***************************************************************************)
(* The configuration and its file (pkg/config/file.go): one record that    *)
(* the request handlers, the reloading on SIGHUP and every reader share    *)
(* under a read-write lock, section by section; the writing back, which    *)
(* truncates the file first; restarts, and a user who edits the file.      *)
(*                                                                         *)
(* What the values do to the charging is ChargeControl's; the two timers,  *)
(* which no request but those of ChargeControl sets, are left out here.    *)
(***************************************************************************)
EXTENDS Integers, FiniteSets

CONSTANTS
    Clients,      \* connections that make requests
    Signal,       \* the goroutine that reloads on SIGHUP, and start-up before it
    None,
    Settings,     \* the settings a request stores as they are
    OnByDefault,  \* those that are on when the file does not say
    Unsupported,  \* those this Mac lacks
    Limits,       \* the limits users ask for (bound)
    Deltas,       \* the deltas users ask for (bound)
    MaxRequests,  \* requests clients make (bound)
    MaxReloads,   \* SIGHUPs (bound)
    MaxTroubles   \* deaths of the daemon, failed saves and edits of the file (bound)

Processes == Clients \union {Signal}
Fields == {"limit", "delta"} \union Settings

ASSUME ConfigStoreAssumption ==
    /\ Signal \notin Clients /\ None \notin Processes \union Int
    /\ {"limit", "delta"} \intersect Settings = {}
    /\ OnByDefault \subseteq Settings /\ Unsupported \subseteq Settings
    /\ Limits \subseteq 10..100 /\ Deltas \subseteq Nat
    /\ {MaxRequests, MaxReloads, MaxTroubles} \subseteq Nat

VARIABLES
    alive,       \* the daemon: "down", "starting" or "up"
    mem,         \* File.c
    file,        \* the file: its text "whole", "empty" or "garbled", what it says
    lock,        \* File.mu: the writer that has announced itself, the readers inside
    transition,  \* who holds chargeControlTransitionMu
    proc,        \* what every process is doing
    latest,      \* history: who wrote a field last
    promised,    \* history: the value a request was told is stored
    undone,      \* history: fields that a reload replaced before their save had begun
    apart,       \* history: the file was edited, or a save has failed
    spent        \* how often the bounded things have happened

storeVars == <<alive, mem, file, lock>>
historyVars == <<latest, promised, undone, apart>>
vars == <<storeVars, transition, proc, historyVars, spent>>

-----------------------------------------------------------------------------
(* The record and its file.  A field that was never set is None.           *)

Empty == [f \in Fields |-> None]

Default(f) ==
    CASE f = "limit" -> 80
      [] f = "delta" -> 2
      [] OTHER -> IF f \in OnByDefault THEN 1 ELSE 0

\* UpperLimit, the settings' getters, and the section of LowerLimit that reads the delta.
Value(f) == IF mem[f] = None THEN Default(f) ELSE mem[f]

Whole(conf) == [text |-> "whole", conf |-> conf]
Torn(text) == [text |-> text, conf |-> Empty]

\* What Load makes of the file; it refuses a garbled one.
Loads == file.text # "garbled"
Loaded == IF file.text = "whole" THEN file.conf ELSE Empty

-----------------------------------------------------------------------------
(* The processes and the lock.                                             *)

Idle ==
    [op |-> "none", at |-> "idle", field |-> "limit", value |-> 0, upper |-> 0,
     delta |-> 0, again |-> FALSE]

Init ==
    /\ alive = "down"
    /\ mem = Empty /\ file = Torn("empty")
    /\ lock = [writer |-> None, readers |-> {}] /\ transition = None
    /\ proc = [p \in Processes |-> Idle]
    /\ latest = Empty /\ promised = Empty /\ undone = {} /\ apart = FALSE
    /\ spent = [requests |-> 0, reloads |-> 0, troubles |-> 0]

Spend(what, max) ==
    /\ spent[what] < max
    /\ spent' = [spent EXCEPT ![what] = @ + 1]

Unlocked == lock.writer = None
Joined(p) == [lock EXCEPT !.readers = @ \union {p}]
Left(p) == [lock EXCEPT !.readers = @ \ {p}]

Goes(p, at) == proc' = [proc EXCEPT ![p].at = at]

\* The handler returns, or panics: gin recovers, and both give the transition back.
Ends(p) ==
    /\ proc' = [proc EXCEPT ![p] = Idle]
    /\ transition' = IF transition = p THEN None ELSE transition
    /\ alive' = IF p = Signal THEN "up" ELSE alive

\* A step that only looks, in a section of its own.
Looks(p, at) ==
    /\ proc[p].at = at /\ Unlocked
    /\ UNCHANGED <<mem, file, lock, historyVars, spent>>
Holds == UNCHANGED <<alive, transition>>

\* Mutant: an early return that keeps the transition.
RefusesHolding(p) ==
    /\ proc' = [proc EXCEPT ![p] = Idle]
    /\ UNCHANGED <<alive, transition>>
Refuses(p) == Ends(p)

-----------------------------------------------------------------------------
(* Requests.                                                               *)

Asks(p, request) ==
    /\ alive = "up" /\ proc[p].op = "none"
    /\ Spend("requests", MaxRequests)
    /\ proc' = [proc EXCEPT ![p] = request]
    /\ UNCHANGED <<storeVars, transition, historyVars>>

AskLimit(p) ==
    \E l \in Limits :
        Asks(p, [Idle EXCEPT !.op = "limit", !.at = "waits", !.value = l])

AskDelta(p) ==
    \E d \in Deltas :
        Asks(p, [Idle EXCEPT !.op = "delta", !.at = "check", !.field = "delta",
                             !.value = d])

\* requireCapability refuses what the Mac lacks.
Storable == Settings \ Unsupported

\* Flags, and of the calibration's two numbers the default and another one in range.
SettingValues == {0, 1}

AskSetting(p) ==
    \E s \in Storable, v \in SettingValues :
        Asks(p, [Idle EXCEPT !.op = "setting", !.at = "locks", !.field = s,
                             !.value = v])

\* GET /config; the passes of the main loop read the same way.
AskConfig(p) == Asks(p, [Idle EXCEPT !.op = "config", !.at = "upper"])

TakeTransition(p) ==
    /\ proc[p].at = "waits" /\ transition = None
    /\ transition' = p
    /\ Goes(p, "upper")
    /\ UNCHANGED <<storeVars, historyVars, spent>>

-----------------------------------------------------------------------------
(* Reading both limits.  LowerLimit reads the delta under the lock, and    *)
(* then the limit with UpperLimit, which takes the lock once more.         *)

ReadUpper(p) ==
    /\ Looks(p, "upper") /\ Holds
    /\ proc' = [proc EXCEPT ![p].upper = Value("limit"), ![p].at = "lower"]

ReadLower(p) ==
    /\ proc[p].at = "lower" /\ Unlocked
    /\ lock' = Joined(p)
    /\ proc' = [proc EXCEPT ![p].delta = Value("delta"), ![p].at = "nested"]
    /\ UNCHANGED <<alive, mem, file, transition, historyVars, spent>>

\* The difference of the two limits, as far as both reads saw the same limit.
Gap(p) == proc[p].upper - (Value("limit") - proc[p].delta)

\* What was read is done with.
Looked(p, at) == [proc[p] EXCEPT !.at = at, !.upper = 0, !.delta = 0]

\* GetConfig returns; setLimit checks its limit, and SetUpperLimit checks it again.
ReadNested(p) ==
    LET me == proc[p]
        refused == me.value - Gap(p) <= 10
        panics == me.value - Gap(p) < 0
    IN
    /\ me.at = "nested" /\ Unlocked
    /\ lock' = Left(p)
    /\ CASE me.op = "config" -> Ends(p)
         [] me.op = "limit" /\ ~me.again /\ refused -> Refuses(p)
         [] me.op = "limit" /\ ~me.again /\ ~refused ->
                /\ proc' = [proc EXCEPT ![p] = [Looked(p, "upper") EXCEPT !.again = TRUE]]
                /\ Holds
         [] me.op = "limit" /\ me.again /\ panics -> Ends(p)
         [] OTHER -> proc' = [proc EXCEPT ![p] = Looked(p, "locks")] /\ Holds
    /\ UNCHANGED <<mem, file, historyVars, spent>>

-----------------------------------------------------------------------------
(* setLowerLimitDelta and SetLowerLimit read the limit four times, and     *)
(* nothing keeps it from moving.                                           *)

CheckDelta(p) ==
    /\ Looks(p, "check")
    /\ IF Value("limit") - proc[p].value < 10
       THEN Ends(p)
       ELSE Goes(p, "low") /\ Holds

ComputeLower(p) ==
    /\ Looks(p, "low") /\ Holds
    /\ proc' = [proc EXCEPT ![p].value = Value("limit") - @, ![p].at = "assert"]

AssertLower(p) ==
    /\ Looks(p, "assert")
    /\ IF proc[p].value < 0 \/ proc[p].value >= Value("limit")
       THEN Ends(p)
       ELSE Goes(p, "gap") /\ Holds

ComputeDelta(p) ==
    /\ Looks(p, "gap") /\ Holds
    /\ proc' = [proc EXCEPT ![p].value = Value("limit") - @, ![p].at = "locks"]

-----------------------------------------------------------------------------
(* Writing a field, under the lock.                                        *)

\* A writer keeps new readers out, and waits for those inside.
Locks(p) ==
    /\ proc[p].at = "locks" /\ Unlocked
    /\ lock' = [lock EXCEPT !.writer = p]
    /\ Goes(p, "writes")
    /\ UNCHANGED <<alive, mem, file, transition, historyVars, spent>>

HasLock(p) == proc[p].at = "writes" /\ lock.writer = p /\ lock.readers = {}

\* What it does next: a request saves, the clearing looks for more.
\* Mutant: the clearing forgets that it has changed something.
WrittenUnnoticed(p) ==
    IF p = Signal THEN [proc[p] EXCEPT !.at = "clears"] ELSE [proc[p] EXCEPT !.at = "saves"]
Written(p) ==
    IF p = Signal THEN [proc[p] EXCEPT !.at = "clears", !.again = TRUE]
    ELSE [proc[p] EXCEPT !.at = "saves"]

Write(p) ==
    LET f == proc[p].field
    IN
    /\ HasLock(p) /\ proc[p].op # "reload"
    /\ mem' = [mem EXCEPT ![f] = proc[p].value]
    /\ lock' = [lock EXCEPT !.writer = None]
    /\ proc' = [proc EXCEPT ![p] = Written(p)]
    /\ latest' = [latest EXCEPT ![f] = p]
    /\ promised' = [promised EXCEPT ![f] = None]
    /\ undone' = undone \ {f}
    /\ UNCHANGED <<alive, file, transition, apart, spent>>

-----------------------------------------------------------------------------
(* Save holds the lock as a reader: it truncates the file, then writes it. *)

SaveBegins(p) ==
    /\ proc[p].at = "saves" /\ Unlocked
    /\ lock' = Joined(p)
    /\ file' = Torn("empty")
    /\ Goes(p, "encodes")
    /\ UNCHANGED <<alive, mem, transition, historyVars, spent>>

\* The request is answered: what it wrote is stored, unless another request has
\* overwritten it.  It is answered so even if a reload has replaced the value.
Promise(p) ==
    promised' = [f \in Fields |->
                    IF f = proc[p].field /\ latest[f] = p THEN proc[p].value
                    ELSE promised[f]]

SaveEnds(p) ==
    /\ proc[p].at = "encodes"
    /\ file' = Whole(mem)
    /\ lock' = Left(p)
    /\ Promise(p)
    /\ apart' = FALSE
    /\ Ends(p)
    /\ UNCHANGED <<mem, latest, undone, spent>>

\* The file cannot be opened, and is left alone.  Mutant: nobody looks at the error.
OpenFailsUnnoticed(p) ==
    /\ proc[p].at = "saves" /\ Unlocked
    /\ Spend("troubles", MaxTroubles)
    /\ Promise(p)
    /\ apart' = TRUE
    /\ Ends(p)
    /\ UNCHANGED <<mem, file, lock, latest, undone>>
OpenFails(p) ==
    /\ proc[p].at = "saves" /\ Unlocked
    /\ Spend("troubles", MaxTroubles)
    /\ apart' = TRUE
    /\ Ends(p)
    /\ UNCHANGED <<mem, file, lock, latest, promised, undone>>

Kept == IF file.text = "whole" THEN promised ELSE Empty

\* The writing fails: the file holds a part of it, or nothing, unless another
\* save has written the same before.
EncodeFails(p) ==
    /\ proc[p].at = "encodes"
    /\ Spend("troubles", MaxTroubles)
    /\ \/ file' = file
       \/ file.text = "empty" /\ file' = Torn("garbled")
    /\ lock' = Left(p)
    /\ promised' = Kept /\ apart' = TRUE
    /\ Ends(p)
    /\ UNCHANGED <<mem, latest, undone>>

-----------------------------------------------------------------------------
(* SIGHUP: Load, then disableUnsupportedConfiguredFeatures.                *)

Reload ==
    /\ alive = "up" /\ proc[Signal].op = "none"
    /\ Spend("reloads", MaxReloads)
    /\ proc' = [proc EXCEPT ![Signal] = [Idle EXCEPT !.op = "reload", !.at = "locks"]]
    /\ UNCHANGED <<storeVars, transition, historyVars>>

Clearing == [Idle EXCEPT !.op = "clear", !.at = "clears"]

\* The value a request has written and is about to save, before Load replaces it.
Undoes(f) ==
    /\ Loaded[f] # mem[f]
    /\ \E p \in Clients : latest[f] = p /\ proc[p].at = "saves" /\ proc[p].field = f

Load ==
    /\ HasLock(Signal) /\ proc[Signal].op = "reload"
    /\ lock' = [lock EXCEPT !.writer = None]
    /\ IF Loads
       THEN /\ mem' = Loaded
            /\ undone' = undone \union {f \in Fields : Undoes(f)}
            /\ apart' = FALSE
            /\ proc' = [proc EXCEPT ![Signal] = Clearing]
            /\ Holds
       ELSE Ends(Signal) /\ UNCHANGED <<mem, undone, apart>>
    /\ UNCHANGED <<file, latest, promised, spent>>

\* A setting that is on and not supported is turned off, one after the other,
\* and the file is saved if there was one.
TurnOff(s) ==
    /\ Looks(Signal, "clears") /\ Holds
    /\ Value(s) # 0
    /\ proc' = [proc EXCEPT ![Signal].at = "locks", ![Signal].field = s,
                            ![Signal].value = 0]

AllOff ==
    /\ Looks(Signal, "clears")
    /\ \A s \in Unsupported : Value(s) = 0
    /\ IF proc[Signal].again THEN Goes(Signal, "saves") /\ Holds ELSE Ends(Signal)

-----------------------------------------------------------------------------
(* The daemon's life, and the user's editor.                               *)

\* NewFile and the clearing that start-up runs; a garbled file keeps it from starting.
Start ==
    /\ alive = "down" /\ Loads
    /\ alive' = "starting"
    /\ mem' = Loaded
    /\ proc' = [proc EXCEPT ![Signal] = Clearing]
    /\ UNCHANGED <<file, lock, transition, historyVars, spent>>

Crash ==
    /\ alive # "down" /\ Spend("troubles", MaxTroubles)
    /\ alive' = "down"
    /\ mem' = Empty
    /\ lock' = [writer |-> None, readers |-> {}] /\ transition' = None
    /\ proc' = [p \in Processes |-> Idle]
    /\ latest' = Empty /\ promised' = Kept /\ apart' = FALSE
    /\ UNCHANGED <<file, undone>>

Edited(f) ==
    CASE f = "limit" -> Limits
      [] f = "delta" -> Deltas
      [] OTHER -> SettingValues

Edit ==
    /\ Spend("troubles", MaxTroubles)
    /\ \/ file' = Torn("garbled")
       \/ \E f \in Fields : \E v \in Edited(f) : file' = Whole([Loaded EXCEPT ![f] = v])
    /\ promised' = Empty /\ apart' = TRUE
    /\ UNCHANGED <<alive, mem, lock, transition, proc, latest, undone>>

-----------------------------------------------------------------------------
Ask(p) == AskLimit(p) \/ AskDelta(p) \/ AskSetting(p) \/ AskConfig(p)

Step(p) ==
    \/ TakeTransition(p) \/ ReadUpper(p) \/ ReadLower(p) \/ ReadNested(p)
    \/ CheckDelta(p) \/ ComputeLower(p) \/ AssertLower(p) \/ ComputeDelta(p)
    \/ Locks(p) \/ Write(p)
    \/ SaveBegins(p) \/ SaveEnds(p) \/ OpenFails(p) \/ EncodeFails(p)

Clear == AllOff \/ \E s \in Unsupported : TurnOff(s)

Next ==
    \/ \E p \in Clients : Ask(p)
    \/ \E p \in Processes : Step(p)
    \/ Load \/ Clear
    \/ Reload \/ Start \/ Crash \/ Edit

Spec == Init /\ [][Next]_vars

\* The scheduler of Go runs every goroutine that can run.
FairSpec ==
    /\ Spec
    /\ \A p \in Clients : WF_vars(Step(p))
    /\ WF_vars(Step(Signal) \/ Load \/ Clear)

-----------------------------------------------------------------------------
(* Properties.                                                             *)

(***************************************************************************)
(* A value whose request was answered is the one in memory and on disk,    *)
(* until somebody writes the field again, the user edits the file or the   *)
(* disk fails: no reload after the answer, no restart and no request for   *)
(* another field takes it back.  There are two exceptions.  A reload that  *)
(* comes between a request's setter and its Save replaces the value, and   *)
(* the request is answered all the same (daemon.go:118): such a field is   *)
(* `undone', and nothing is said of it until it is written again.  And a   *)
(* daemon that dies in the middle of a save may leave the file empty.      *)
(***************************************************************************)
PromisesKept ==
    \A f \in Fields \ undone : promised[f] # None =>
        /\ alive # "down" => mem[f] = promised[f]
        /\ file.text = "whole" => file.conf[f] = promised[f]

(***************************************************************************)
(* Whatever is in memory gets to the file: they differ only while somebody *)
(* has a save to do, or after an edit or a failed save.                    *)
(***************************************************************************)
SavePending ==
    \/ \E p \in Processes : proc[p].at \in {"saves", "encodes"}
    \/ proc[Signal].again

FileAgrees ==
    alive # "down" /\ file.text = "whole" /\ file.conf # mem => SavePending \/ apart

(***************************************************************************)
(* Every request is answered, unless the daemon dies.  A reader that has   *)
(* let a writer announce itself between the two locks of LowerLimit waits  *)
(* for it, as it does for the reader: then everything stands still.        *)
(***************************************************************************)
Stalled == \E p \in Processes : proc[p].at = "nested" /\ ~Unlocked

RequestEnds(p) == proc[p].op # "none" ~> proc[p].op = "none" \/ Stalled
RequestsEnd == \A p \in Clients : RequestEnds(p)

=============================================================================
