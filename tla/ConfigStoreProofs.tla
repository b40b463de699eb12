------------------------- MODULE ConfigStoreProofs -------------------------
(***************************************************************************)
(* Answered values stay in memory and on disk, and memory gets to disk,    *)
(* for any number of clients and settings and any bounds.                  *)
(*                                                                         *)
(* What a process has written is in memory until somebody writes the field *)
(* again, so its save stores it, unless a reload comes before the save has *)
(* begun: then the field is `undone', and left out of what is proved.      *)
(* Values that are promised but not on disk are in memory, as a save is    *)
(* half-way: it holds the lock as a reader, and no reload can begin before *)
(* it has ended.                                                           *)
(***************************************************************************)
EXTENDS ConfigStore, TLAPS

Ops == {"none", "limit", "delta", "setting", "config", "reload", "clear"}

\* Start-up and the reloading neither check nor read limits, requests clear nothing.
SignalPlaces == {"idle", "locks", "writes", "clears", "saves", "encodes"}
ClientPlaces ==
    {"idle", "waits", "upper", "lower", "nested", "check", "low", "assert", "gap",
     "locks", "writes", "saves", "encodes"}

Process ==
    [op : Ops, at : SignalPlaces \union ClientPlaces, field : Fields, value : Int,
     upper : Int, delta : Int, again : BOOLEAN]

Confs == [Fields -> Int \union {None}]
Locked == [writer : Processes \union {None}, readers : SUBSET Processes]

TypeOK ==
    /\ alive \in {"down", "starting", "up"}
    /\ mem \in Confs
    /\ file \in [text : {"whole", "empty", "garbled"}, conf : Confs]
    /\ lock \in Locked
    /\ proc \in [Processes -> Process]
    /\ latest \in [Fields -> Processes \union {None}]
    /\ promised \in Confs
    /\ undone \subseteq Fields
    /\ apart \in BOOLEAN

\* Where a process can be.
Placed(p, r) ==
    /\ r.at \in IF p = Signal THEN SignalPlaces ELSE ClientPlaces
    /\ r.op = "none" => r.at = "idle" /\ ~r.again
    /\ r.op = "reload" => p = Signal /\ ~r.again

\* It has the lock it thinks it has.
Inside == {"nested", "encodes"}
Admitted(p, r, l) ==
    /\ r.at = "writes" <=> l.writer = p
    /\ r.at \in Inside <=> p \in l.readers

\* It has written a field and not yet saved it.
Saving == {"saves", "encodes"}
Wrote(r) == r.at \in Saving \/ (r.at = "clears" /\ r.again)

\* It will save.
Owes(p, r) == r.at \in Saving \/ (p = Signal /\ r.again)

Discipline == \A p \in Processes : Placed(p, proc[p]) /\ Admitted(p, proc[p], lock)
DownIdle == alive = "down" => \A p \in Processes : proc[p].at = "idle"

\* The last writer of a field finds there what it wrote, if no reload has undone it.
WrittenIsThere ==
    \A p \in Processes :
        /\ Wrote(proc[p]) /\ latest[proc[p].field] = p
        /\ proc[p].field \notin undone
        => mem[proc[p].field] = proc[p].value

\* With a promise given, the file is whole or being written.
HalfSaved ==
    \A f \in Fields : promised[f] # None /\ file.text # "whole" =>
        \E p \in Processes : proc[p].at = "encodes"

StoreInv ==
    /\ TypeOK /\ Discipline /\ DownIdle /\ WrittenIsThere /\ HalfSaved
    /\ PromisesKept /\ FileAgrees

-----------------------------------------------------------------------------

LEMMA ProcessFields ==
    ASSUME NEW r \in Process
    PROVE  /\ r.op \in Ops /\ r.at \in SignalPlaces \union ClientPlaces
           /\ r.field \in Fields /\ r.value \in Int /\ r.again \in BOOLEAN
           /\ r.upper \in Int /\ r.delta \in Int
BY DEF Process

\* One process moves on.
LEMMA OneMoves ==
    ASSUME proc \in [Processes -> Process], NEW p \in Processes, NEW r \in Process,
           proc' = [proc EXCEPT ![p] = r]
    PROVE  /\ proc' \in [Processes -> Process]
           /\ proc'[p] = r
           /\ \A q \in Processes \ {p} : proc'[q] = proc[q]
<1> HIDE DEF Process
<1> QED OBVIOUS

\* The others keep their places and what they have of the lock.
LEMMA DisciplineKept ==
    ASSUME TypeOK, Discipline, NEW p \in Processes, NEW r \in Process,
           proc' = [proc EXCEPT ![p] = r],
           Placed(p, r), Admitted(p, r, lock'),
           \A q \in Processes \ {p} :
               /\ lock'.writer = q <=> lock.writer = q
               /\ q \in lock'.readers <=> q \in lock.readers
    PROVE  Discipline'
<1>1. proc \in [Processes -> Process] BY DEF TypeOK
<1>2. proc'[p] = r /\ \A q \in Processes \ {p} : proc'[q] = proc[q] BY <1>1, OneMoves
<1>3. Placed(p, proc'[p]) /\ Admitted(p, proc'[p], lock') BY <1>2
<1>4. ASSUME NEW q \in Processes \ {p}
      PROVE  Placed(q, proc'[q]) /\ Admitted(q, proc'[q], lock')
  <2>1. Placed(q, proc[q]) /\ Admitted(q, proc[q], lock) BY DEF Discipline
  <2>2. proc'[q] = proc[q] BY <1>2
  <2> QED BY <2>1, <2>2 DEF Admitted
<1> QED BY <1>3, <1>4 DEF Discipline

\* A process that writes neither the record nor the file, and owes no less
\* than before unless its save has failed.
LEMMA MoveKeepsInv ==
    ASSUME StoreInv, NEW p \in Processes, NEW r \in Process,
           proc' = [proc EXCEPT ![p] = r],
           UNCHANGED <<mem, file, latest, promised, undone>>,
           alive # "down", alive' \in {alive, "up"},
           apart' \in {apart, TRUE},
           lock' \in Locked, Placed(p, r), Admitted(p, r, lock'),
           \A q \in Processes \ {p} :
               /\ lock'.writer = q <=> lock.writer = q
               /\ q \in lock'.readers <=> q \in lock.readers,
           proc[p].at # "encodes",
           Owes(p, proc[p]) => Owes(p, r) \/ apart',
           Wrote(r) => Wrote(proc[p]) /\ r.field = proc[p].field /\ r.value = proc[p].value
    PROVE  StoreInv'
<1>1. proc \in [Processes -> Process] BY DEF StoreInv, TypeOK
<1>2. /\ proc' \in [Processes -> Process]
      /\ proc'[p] = r /\ \A q \in Processes \ {p} : proc'[q] = proc[q]
  BY <1>1, OneMoves
<1>3. TypeOK' BY <1>2 DEF StoreInv, TypeOK
<1>4. Discipline' BY DisciplineKept DEF StoreInv
<1>5. DownIdle' BY DEF DownIdle, StoreInv, TypeOK
<1>6. WrittenIsThere'
  <2>1. WrittenIsThere BY DEF StoreInv
  <2> QED BY <1>2, <2>1 DEF WrittenIsThere
<1>7. HalfSaved'
  <2>1. HalfSaved BY DEF StoreInv
  <2> QED BY <1>2, <2>1 DEF HalfSaved
<1>8. PromisesKept' BY DEF PromisesKept, StoreInv, TypeOK
<1>9. FileAgrees'
  <2>1. FileAgrees BY DEF StoreInv
  <2>2. SavePending => SavePending' \/ apart'
    <3>1. SavePending <=> \E q \in Processes : Owes(q, proc[q])
      BY DEF SavePending, Owes, Saving, Processes
    <3>2. SavePending' <=> \E q \in Processes : Owes(q, proc'[q])
      BY DEF SavePending, Owes, Saving, Processes
    <3> QED BY <1>2, <3>1, <3>2
  <2>3. apart => apart' OBVIOUS
  <2>4. mem' = mem /\ file' = file OBVIOUS
  <2> HIDE DEF SavePending
  <2> QED BY <2>1, <2>2, <2>3, <2>4 DEF FileAgrees
<1> QED BY <1>3, <1>4, <1>5, <1>6, <1>7, <1>8, <1>9 DEF StoreInv

-----------------------------------------------------------------------------

LEMMA IdleProcess ==
    /\ Idle \in Process /\ Idle.op = "none" /\ Idle.at = "idle" /\ ~Idle.again
    /\ \A p \in Processes : Placed(p, Idle) /\ ~Owes(p, Idle)
    /\ ~Wrote(Idle)
<1>1. Idle \in Process
  BY DEF Idle, Process, Ops, SignalPlaces, ClientPlaces, Fields
<1>2. Idle.op = "none" /\ Idle.at = "idle" /\ ~Idle.again BY DEF Idle
<1> QED
  BY <1>1, <1>2 DEF Placed, Owes, Wrote, Saving, SignalPlaces, ClientPlaces

\* A process goes to another place, and keeps the rest.
LEMMA PlaceChanges ==
    ASSUME NEW r \in Process, NEW a \in SignalPlaces \union ClientPlaces
    PROVE  LET s == [r EXCEPT !.at = a]
           IN  /\ s \in Process /\ s.at = a /\ s.op = r.op /\ s.field = r.field
               /\ s.value = r.value /\ s.again = r.again
<1> HIDE DEF SignalPlaces, ClientPlaces, Fields, Ops
<1> QED BY DEF Process

LEMMA AgainChanges ==
    ASSUME NEW r \in Process
    PROVE  LET s == [r EXCEPT !.again = TRUE]
           IN  s \in Process /\ s.at = r.at /\ s.op = r.op /\ s.field = r.field
               /\ s.value = r.value /\ s.again
<1> HIDE DEF SignalPlaces, ClientPlaces, Fields, Ops
<1> QED BY DEF Process

\* What was read is done with: z stands for 0.
Forgotten(r, a, z) == [r EXCEPT !.at = a, !.upper = z, !.delta = z]

LEMMA ReadsForgotten ==
    ASSUME NEW r \in Process, NEW a \in SignalPlaces \union ClientPlaces, NEW z \in Int
    PROVE  /\ Forgotten(r, a, z) \in Process /\ Forgotten(r, a, z).at = a
           /\ Forgotten(r, a, z).op = r.op
<1> HIDE DEF SignalPlaces, ClientPlaces, Fields, Ops
<1> QED BY DEF Process, Forgotten

LEMMA LookedTyped ==
    ASSUME NEW p \in Processes, proc[p] \in Process,
           NEW a \in SignalPlaces \union ClientPlaces
    PROVE  /\ Looked(p, a) \in Process /\ Looked(p, a).at = a
           /\ Looked(p, a).op = proc[p].op
<1>1. Looked(p, a) = Forgotten(proc[p], a, 0) BY DEF Looked, Forgotten
<1>2. 0 \in Int OBVIOUS
<1> QED BY <1>1, <1>2, ReadsForgotten

\* The field to write, and its value: z stands for 0.
Chosen(r, s, z) == [r EXCEPT !.at = "locks", !.field = s, !.value = z]

LEMMA FieldChosen ==
    ASSUME NEW r \in Process, NEW s \in Fields, NEW z \in Int
    PROVE  /\ Chosen(r, s, z) \in Process /\ Chosen(r, s, z).at = "locks"
           /\ Chosen(r, s, z).op = r.op /\ Chosen(r, s, z).again = r.again
<1>1. "locks" \in SignalPlaces \union ClientPlaces BY DEF SignalPlaces
<1> HIDE DEF SignalPlaces, ClientPlaces, Fields, Ops
<1> QED BY <1>1 DEF Process, Chosen

LEMMA ValuesTyped == ASSUME TypeOK PROVE Value("limit") \in Int /\ Value("delta") \in Int
<1>1. {"limit", "delta"} \subseteq Fields BY DEF Fields
<1>2. mem \in [Fields -> Int \union {None}] BY DEF TypeOK, Confs
<1>3. Default("limit") = 80 /\ Default("delta") = 2 BY DEF Default
<1> QED BY <1>1, <1>2, <1>3 DEF Value

\* A step that leaves the lock alone.
LEMMA QuietStepKeepsInv ==
    ASSUME StoreInv, NEW p \in Processes, NEW r \in Process,
           proc' = [proc EXCEPT ![p] = r],
           UNCHANGED <<mem, file, lock, latest, promised, undone>>,
           alive # "down", alive' \in {alive, "up"}, apart' \in {apart, TRUE},
           Placed(p, r), {proc[p].at, r.at} \intersect ({"writes"} \union Inside) = {},
           Owes(p, proc[p]) => Owes(p, r) \/ apart',
           Wrote(r) => Wrote(proc[p]) /\ r.field = proc[p].field /\ r.value = proc[p].value
    PROVE  StoreInv'
<1>1. Admitted(p, proc[p], lock) BY DEF StoreInv, Discipline
<1>2. Admitted(p, r, lock') BY <1>1 DEF Admitted
<1>3. lock' \in Locked BY DEF StoreInv, TypeOK
<1>4. proc[p].at # "encodes" BY DEF Inside
<1> QED BY <1>2, <1>3, <1>4, MoveKeepsInv

\* What is known of a process that reads for a request.
Reading == {"waits", "upper", "lower", "nested", "check", "low", "assert", "gap"}

LEMMA ReadersAreClients ==
    ASSUME StoreInv, NEW p \in Processes, proc[p].at \in Reading
    PROVE  /\ p # Signal /\ alive # "down" /\ proc[p].op \notin {"none", "reload"}
           /\ ~Owes(p, proc[p])
<1>1. Placed(p, proc[p]) BY DEF StoreInv, Discipline
<1>2. proc[p].at # "idle" BY DEF Reading
<1>3. p # Signal BY <1>1 DEF Placed, Reading, SignalPlaces
<1>4. alive # "down" BY <1>2 DEF StoreInv, DownIdle
<1> QED BY <1>1, <1>2, <1>3, <1>4 DEF Placed, Owes, Saving, Reading

\* A client that reads, or asks for the lock, goes on to r.
LEMMA ReadingKeepsInv ==
    ASSUME StoreInv, NEW p \in Processes, NEW r \in Process,
           proc' = [proc EXCEPT ![p] = r],
           UNCHANGED <<mem, file, lock, latest, promised, undone, apart>>,
           alive' = alive, p # Signal, alive # "down",
           proc[p].at \in Reading \union {"idle"}, proc[p].at # "nested",
           r.at \in (Reading \ {"nested"}) \union {"locks"},
           r.op \notin {"none", "reload"}
    PROVE  StoreInv'
<1>1. ~Owes(p, proc[p]) /\ ~Owes(p, r) BY DEF Owes, Reading, Saving
<1>2. ~Wrote(r) BY DEF Wrote, Reading, Saving
<1>3. Placed(p, r) BY DEF Placed, Reading, ClientPlaces
<1>4. {proc[p].at, r.at} \intersect ({"writes"} \union Inside) = {}
  BY DEF Reading, Inside
<1>5. apart' \in {apart, TRUE} /\ alive' \in {alive, "up"} OBVIOUS
<1> QED BY <1>1, <1>2, <1>3, <1>4, <1>5, QuietStepKeepsInv

\* A request ends without having written anything.
LEMMA RefusalKeepsInv ==
    ASSUME StoreInv, NEW p \in Processes, proc[p].at \in Reading, proc[p].at # "nested",
           Ends(p), UNCHANGED <<mem, file, lock, latest, promised, undone, apart>>
    PROVE  StoreInv'
<1>1. proc' = [proc EXCEPT ![p] = Idle] /\ alive' \in {alive, "up"}
  BY DEF Ends
<1>2. ~Owes(p, proc[p]) /\ alive # "down" BY ReadersAreClients
<1>3. {proc[p].at, Idle.at} \intersect ({"writes"} \union Inside) = {}
  BY IdleProcess DEF Reading, Inside
<1>4. apart' \in {apart, TRUE} OBVIOUS
<1> QED BY <1>1, <1>2, <1>3, <1>4, IdleProcess, QuietStepKeepsInv

-----------------------------------------------------------------------------

LEMMA AskKeepsInv ==
    ASSUME StoreInv, NEW p \in Clients, Ask(p)
    PROVE  StoreInv'
<1>1. PICK r \in Process :
        /\ Asks(p, r)
        /\ r.at \in {"waits", "check", "locks", "upper"}
        /\ r.op \notin {"none", "reload"}
  <2>0. /\ {"limit", "delta", "setting", "config"} \subseteq Ops
        /\ {"waits", "check", "locks", "upper"} \subseteq SignalPlaces \union ClientPlaces
        /\ {"limit", "delta"} \subseteq Fields
    BY DEF Ops, SignalPlaces, ClientPlaces, Fields
  <2>1. CASE AskLimit(p)
    <3>1. PICK l \in Limits :
            Asks(p, [Idle EXCEPT !.op = "limit", !.at = "waits", !.value = l])
      BY <2>1 DEF AskLimit
    <3> DEFINE r == [Idle EXCEPT !.op = "limit", !.at = "waits", !.value = l]
    <3>2. l \in Int BY ConfigStoreAssumption
    <3>3. Asks(p, r) BY <3>1
    <3>4. r \in Process /\ r.at = "waits" /\ r.op = "limit"
      BY <2>0, <3>2, IdleProcess DEF Process
    <3> HIDE DEF r
    <3> QED BY <3>3, <3>4
  <2>2. CASE AskDelta(p)
    <3>1. PICK d \in Deltas :
            Asks(p, [Idle EXCEPT !.op = "delta", !.at = "check", !.field = "delta",
                             !.value = d])
      BY <2>2 DEF AskDelta
    <3> DEFINE r == [Idle EXCEPT !.op = "delta", !.at = "check", !.field = "delta",
                             !.value = d]
    <3>2. d \in Int BY ConfigStoreAssumption
    <3>3. Asks(p, r) BY <3>1
    <3>4. r \in Process /\ r.at = "check" /\ r.op = "delta"
      BY <2>0, <3>2, IdleProcess DEF Process
    <3> HIDE DEF r
    <3> QED BY <3>3, <3>4
  <2>3. CASE AskSetting(p)
    <3>1. PICK s \in Storable, v \in SettingValues :
            Asks(p, [Idle EXCEPT !.op = "setting", !.at = "locks", !.field = s,
                             !.value = v])
      BY <2>3 DEF AskSetting
    <3> DEFINE r == [Idle EXCEPT !.op = "setting", !.at = "locks", !.field = s,
                             !.value = v]
    <3>2. s \in Fields /\ v \in Int BY DEF Storable, SettingValues, Fields
    <3>3. Asks(p, r) BY <3>1
    <3>4. r \in Process /\ r.at = "locks" /\ r.op = "setting"
      BY <2>0, <3>2, IdleProcess DEF Process
    <3> HIDE DEF r
    <3> QED BY <3>3, <3>4
  <2>4. CASE AskConfig(p)
    <3> DEFINE r == [Idle EXCEPT !.op = "config", !.at = "upper"]
    <3>3. Asks(p, r) BY <2>4 DEF AskConfig
    <3>4. r \in Process /\ r.at = "upper" /\ r.op = "config"
      BY <2>0, IdleProcess DEF Process
    <3> HIDE DEF r
    <3> QED BY <3>3, <3>4
  <2> QED BY <2>1, <2>2, <2>3, <2>4 DEF Ask
<1>2. p \in Processes /\ p # Signal BY ConfigStoreAssumption DEF Processes
<1>3. /\ proc' = [proc EXCEPT ![p] = r] /\ alive = "up" /\ proc[p].op = "none"
      /\ UNCHANGED <<alive, mem, file, lock, latest, promised, undone, apart>>
  BY <1>1 DEF Asks, storeVars, historyVars
<1>4. proc[p].at = "idle" BY <1>2, <1>3 DEF StoreInv, Discipline, Placed
<1> QED BY <1>1, <1>2, <1>3, <1>4, ReadingKeepsInv DEF Reading

\* Whoever reads the limit under the lock for a moment, or waits for the transition.
LEMMA ReadingStepKeepsInv ==
    ASSUME StoreInv, NEW p \in Processes,
           \/ TakeTransition(p) \/ ReadUpper(p)
           \/ CheckDelta(p) \/ ComputeLower(p) \/ AssertLower(p) \/ ComputeDelta(p)
    PROVE  StoreInv'
<1>0. /\ proc[p] \in Process /\ Value("limit") \in Int
      /\ proc[p].at \in Reading /\ proc[p].at # "nested"
      /\ UNCHANGED <<mem, file, lock, latest, promised, undone, apart>>
  <2>1. Value("limit") \in Int /\ proc[p] \in Process BY ValuesTyped DEF StoreInv, TypeOK
  <2> QED BY <2>1 DEF TakeTransition, ReadUpper, CheckDelta, ComputeLower, AssertLower,
                      ComputeDelta, Looks, Reading, historyVars, storeVars
<1>1. p # Signal /\ alive # "down" /\ proc[p].op \notin {"none", "reload"}
  BY <1>0, ReadersAreClients
<1>2. ASSUME NEW r \in Process, proc' = [proc EXCEPT ![p] = r], alive' = alive,
             r.op = proc[p].op, r.at \in (Reading \ {"nested"}) \union {"locks"}
      PROVE  StoreInv'
  BY <1>0, <1>1, <1>2, ReadingKeepsInv
<1>3. ASSUME NEW a \in (Reading \ {"nested"}) \union {"locks"}, Goes(p, a), alive' = alive
      PROVE  StoreInv'
  <2> DEFINE r == [proc[p] EXCEPT !.at = a]
  <2>1. a \in SignalPlaces \union ClientPlaces
    BY DEF Reading, SignalPlaces, ClientPlaces
  <2>2. r \in Process /\ r.at = a /\ r.op = proc[p].op BY <1>0, <2>1, PlaceChanges
  <2>3. proc' = [proc EXCEPT ![p] = r] BY <1>3 DEF Goes
  <2> HIDE DEF r
  <2> QED BY <1>2, <1>3, <2>2, <2>3
<1>4. ASSUME NEW v \in Int, NEW a \in {"assert", "locks"},
             proc' = [proc EXCEPT ![p].value = v, ![p].at = a], alive' = alive
      PROVE  StoreInv'
  <2> DEFINE r == [proc[p] EXCEPT !.value = v, !.at = a]
  <2>1. r \in Process /\ r.at = a /\ r.op = proc[p].op
    <3> HIDE DEF Ops, Fields
    <3> QED BY <1>0 DEF Process, SignalPlaces, ClientPlaces
  <2>2. proc' = [proc EXCEPT ![p] = r] BY <1>4
  <2> HIDE DEF r
  <2> QED BY <1>2, <1>4, <2>1, <2>2 DEF Reading
<1>5. CASE TakeTransition(p)
  <2>1. Goes(p, "upper") /\ alive' = alive BY <1>5 DEF TakeTransition, storeVars
  <2>2. "upper" \in Reading \ {"nested"} BY DEF Reading
  <2> QED BY <1>3, <2>1, <2>2
<1>6. CASE ReadUpper(p)
  <2> DEFINE r == [proc[p] EXCEPT !.upper = Value("limit"), !.at = "lower"]
  <2>1. r \in Process /\ r.at = "lower" /\ r.op = proc[p].op
    <3> HIDE DEF Ops, Fields, Value
    <3> QED BY <1>0 DEF Process, SignalPlaces, ClientPlaces
  <2>2. proc' = [proc EXCEPT ![p] = r] /\ alive' = alive BY <1>6 DEF ReadUpper, Holds
  <2> HIDE DEF r
  <2> QED BY <1>2, <2>1, <2>2 DEF Reading
<1>7. CASE CheckDelta(p)
  <2>1. CASE Ends(p) BY <1>0, <2>1, RefusalKeepsInv
  <2>2. CASE Goes(p, "low") /\ Holds
    <3>1. "low" \in Reading \ {"nested"} /\ alive' = alive BY <2>2 DEF Reading, Holds
    <3> QED BY <1>3, <2>2, <3>1
  <2> QED BY <1>7, <2>1, <2>2 DEF CheckDelta
<1>8. CASE ComputeLower(p)
  <2>1. /\ proc' = [proc EXCEPT ![p].value = Value("limit") - proc[p].value,
                                ![p].at = "assert"]
        /\ alive' = alive
    BY <1>8 DEF ComputeLower, Holds
  <2>2. Value("limit") - proc[p].value \in Int BY <1>0, ProcessFields
  <2> QED BY <1>4, <2>1, <2>2
<1>9. CASE AssertLower(p)
  <2>1. CASE Ends(p) BY <1>0, <2>1, RefusalKeepsInv
  <2>2. CASE Goes(p, "gap") /\ Holds
    <3>1. "gap" \in Reading \ {"nested"} /\ alive' = alive BY <2>2 DEF Reading, Holds
    <3> QED BY <1>3, <2>2, <3>1
  <2> QED BY <1>9, <2>1, <2>2 DEF AssertLower
<1>10. CASE ComputeDelta(p)
  <2>1. /\ proc' = [proc EXCEPT ![p].value = Value("limit") - proc[p].value,
                                ![p].at = "locks"]
        /\ alive' = alive
    BY <1>10 DEF ComputeDelta, Holds
  <2>2. Value("limit") - proc[p].value \in Int BY <1>0, ProcessFields
  <2> QED BY <1>4, <2>1, <2>2
<1> QED BY <1>5, <1>6, <1>7, <1>8, <1>9, <1>10

-----------------------------------------------------------------------------
(* Steps that take the lock or give it back, and write nothing. *)

LEMMA ReadLowerKeepsInv ==
    ASSUME StoreInv, NEW p \in Processes, ReadLower(p)
    PROVE  StoreInv'
<1>1. proc[p] \in Process /\ Value("delta") \in Int /\ lock \in Locked
  BY ValuesTyped DEF StoreInv, TypeOK
<1>2. p # Signal /\ alive # "down" /\ proc[p].op \notin {"none", "reload"}
      /\ ~Owes(p, proc[p])
  BY ReadersAreClients DEF ReadLower, Reading
<1> DEFINE r == [proc[p] EXCEPT !.delta = Value("delta"), !.at = "nested"]
<1>3. r \in Process /\ r.at = "nested" /\ r.op = proc[p].op
  <2> HIDE DEF Ops, Fields, Value
  <2> QED BY <1>1 DEF Process, SignalPlaces, ClientPlaces
<1>4. /\ proc' = [proc EXCEPT ![p] = r] /\ lock' = Joined(p) /\ lock.writer = None
      /\ UNCHANGED <<alive, mem, file, latest, promised, undone, apart>>
      /\ proc[p].at # "encodes"
  BY DEF ReadLower, Unlocked, historyVars
<1> HIDE DEF r
<1>5. /\ lock' \in Locked /\ lock'.writer = lock.writer
      /\ lock'.readers = lock.readers \union {p}
  BY <1>1, <1>4 DEF Joined, Locked
<1>6. p # None BY ConfigStoreAssumption
<1>7. Placed(p, r) /\ Admitted(p, r, lock')
  BY <1>2, <1>3, <1>4, <1>5, <1>6 DEF Placed, Admitted, Inside, ClientPlaces
<1>8. ~Wrote(r) BY <1>3 DEF Wrote, Saving
<1>9. apart' \in {apart, TRUE} /\ alive' \in {alive, "up"} BY <1>4
<1> QED BY <1>2, <1>3, <1>4, <1>5, <1>7, <1>8, <1>9, MoveKeepsInv

LEMMA ReadNestedKeepsInv ==
    ASSUME StoreInv, NEW p \in Processes, ReadNested(p)
    PROVE  StoreInv'
<1>1. proc[p] \in Process /\ lock \in Locked BY DEF StoreInv, TypeOK
<1>2. p # Signal /\ alive # "down" /\ proc[p].op \notin {"none", "reload"}
      /\ ~Owes(p, proc[p]) /\ proc[p].at = "nested"
  BY ReadersAreClients DEF ReadNested, Reading
<1>3. /\ lock' = Left(p) /\ lock.writer = None
      /\ UNCHANGED <<mem, file, latest, promised, undone, apart>>
  BY DEF ReadNested, Unlocked, historyVars
<1>4. PICK r \in Process :
        /\ proc' = [proc EXCEPT ![p] = r]
        /\ alive' = alive
        /\ r = Idle \/ (r.at \in {"upper", "locks"} /\ r.op = proc[p].op)
  <2>1. CASE Ends(p) BY <1>2, <2>1, IdleProcess DEF Ends
  <2>2. CASE /\ proc' = [proc EXCEPT ![p] = [Looked(p, "upper") EXCEPT !.again = TRUE]]
             /\ Holds
    <3> DEFINE r == [Looked(p, "upper") EXCEPT !.again = TRUE]
    <3>1. r \in Process /\ r.at = "upper" /\ r.op = proc[p].op
      <4>1. "upper" \in SignalPlaces \union ClientPlaces BY DEF ClientPlaces
      <4>2. /\ Looked(p, "upper") \in Process /\ Looked(p, "upper").at = "upper"
            /\ Looked(p, "upper").op = proc[p].op
        BY <1>1, <4>1, LookedTyped
      <4> QED BY <4>2, AgainChanges
    <3>2. proc' = [proc EXCEPT ![p] = r] /\ alive' = alive BY <2>2 DEF Holds
    <3> HIDE DEF r
    <3> QED BY <3>1, <3>2
  <2>3. CASE proc' = [proc EXCEPT ![p] = Looked(p, "locks")] /\ Holds
    <3> DEFINE r == Looked(p, "locks")
    <3>1. r \in Process /\ r.at = "locks" /\ r.op = proc[p].op
      <4>1. "locks" \in SignalPlaces \union ClientPlaces BY DEF ClientPlaces
      <4> QED BY <1>1, <4>1, LookedTyped
    <3>2. proc' = [proc EXCEPT ![p] = r] /\ alive' = alive BY <2>3 DEF Holds
    <3> HIDE DEF r
    <3> QED BY <3>1, <3>2
  <2> QED BY <2>1, <2>2, <2>3 DEF ReadNested, Refuses
<1>5. /\ lock' \in Locked /\ lock'.writer = lock.writer
      /\ lock'.readers = lock.readers \ {p}
  BY <1>1, <1>3 DEF Left, Locked
<1>6. p # None BY ConfigStoreAssumption
<1>7. Placed(p, r) /\ Admitted(p, r, lock') /\ ~Wrote(r)
  BY <1>2, <1>3, <1>4, <1>5, <1>6, IdleProcess
     DEF Placed, Admitted, Inside, Wrote, Saving, ClientPlaces
<1>8. apart' \in {apart, TRUE} /\ alive' \in {alive, "up"} BY <1>3, <1>4
<1>9. proc[p].at # "encodes" BY <1>2
<1> QED BY <1>2, <1>3, <1>4, <1>5, <1>7, <1>8, <1>9, MoveKeepsInv

LEMMA LocksKeepsInv ==
    ASSUME StoreInv, NEW p \in Processes, Locks(p)
    PROVE  StoreInv'
<1>1. proc[p] \in Process /\ lock \in Locked /\ proc[p].at = "locks"
  BY DEF StoreInv, TypeOK, Locks
<1>2. Placed(p, proc[p]) /\ Admitted(p, proc[p], lock) /\ alive # "down"
  BY <1>1 DEF StoreInv, Discipline, DownIdle
<1> DEFINE r == [proc[p] EXCEPT !.at = "writes"]
<1>3. r \in Process /\ r.at = "writes" /\ r.op = proc[p].op /\ r.again = proc[p].again
  BY <1>1, PlaceChanges DEF SignalPlaces
<1>4. /\ proc' = [proc EXCEPT ![p] = r] /\ lock' = [lock EXCEPT !.writer = p]
      /\ lock.writer = None
      /\ UNCHANGED <<alive, mem, file, latest, promised, undone, apart>>
  BY DEF Locks, Goes, Unlocked, historyVars
<1> HIDE DEF r
<1>5. lock' \in Locked /\ lock'.writer = p /\ lock'.readers = lock.readers
  BY <1>1, <1>4 DEF Locked
<1>6. None \notin Processes BY ConfigStoreAssumption
<1>7. Placed(p, r) /\ Admitted(p, r, lock')
  BY <1>1, <1>2, <1>3, <1>5 DEF Placed, Admitted, Inside, SignalPlaces, ClientPlaces
<1>8. ~Wrote(r) /\ (Owes(p, proc[p]) => Owes(p, r))
  BY <1>1, <1>3 DEF Wrote, Owes, Saving
<1>9. apart' \in {apart, TRUE} /\ alive' \in {alive, "up"} /\ proc[p].at # "encodes"
  BY <1>1, <1>4
<1> QED BY <1>2, <1>3, <1>4, <1>5, <1>6, <1>7, <1>8, <1>9, MoveKeepsInv

-----------------------------------------------------------------------------
(* The signal's own steps, and a save that does not begin. *)

LEMMA ReloadKeepsInv ==
    ASSUME StoreInv, Reload
    PROVE  StoreInv'
<1> DEFINE r == [Idle EXCEPT !.op = "reload", !.at = "locks"]
<1>1. r \in Process /\ r.at = "locks" /\ r.op = "reload" /\ ~r.again
  <2>1. "reload" \in Ops /\ "locks" \in SignalPlaces \union ClientPlaces
    BY DEF Ops, SignalPlaces
  <2> QED BY <2>1, IdleProcess DEF Process
<1>2. /\ proc' = [proc EXCEPT ![Signal] = r] /\ alive = "up" /\ proc[Signal].op = "none"
      /\ UNCHANGED <<alive, mem, file, lock, latest, promised, undone, apart>>
  BY DEF Reload, storeVars, historyVars
<1> HIDE DEF r
<1>3. Signal \in Processes BY DEF Processes
<1>4. proc[Signal].at = "idle" /\ ~proc[Signal].again
  BY <1>2, <1>3 DEF StoreInv, Discipline, Placed
<1>5. Placed(Signal, r) /\ ~Wrote(r) /\ ~Owes(Signal, proc[Signal])
  BY <1>1, <1>4 DEF Placed, Wrote, Owes, Saving, SignalPlaces
<1>6. {proc[Signal].at, r.at} \intersect ({"writes"} \union Inside) = {}
  BY <1>1, <1>4 DEF Inside
<1>7. apart' \in {apart, TRUE} /\ alive' \in {alive, "up"} /\ alive # "down" BY <1>2
<1> QED BY <1>1, <1>2, <1>3, <1>5, <1>6, <1>7, QuietStepKeepsInv

LEMMA OpenFailsKeepsInv ==
    ASSUME StoreInv, NEW p \in Processes, OpenFails(p)
    PROVE  StoreInv'
<1>1. /\ proc' = [proc EXCEPT ![p] = Idle] /\ alive' \in {alive, "up"}
      /\ UNCHANGED <<mem, file, lock, latest, promised, undone>> /\ apart' = TRUE
      /\ proc[p].at = "saves"
  BY DEF OpenFails, Ends
<1>2. alive # "down" BY <1>1 DEF StoreInv, DownIdle
<1>3. {proc[p].at, Idle.at} \intersect ({"writes"} \union Inside) = {}
  BY <1>1, IdleProcess DEF Inside
<1>4. apart' \in {apart, TRUE} BY <1>1
<1> QED BY <1>1, <1>2, <1>3, <1>4, IdleProcess, QuietStepKeepsInv

LEMMA ClearKeepsInv ==
    ASSUME StoreInv, Clear
    PROVE  StoreInv'
<1> DEFINE me == proc[Signal]
<1>1. Signal \in Processes BY DEF Processes
<1>2. /\ me \in Process /\ me.at = "clears" /\ Placed(Signal, me)
      /\ UNCHANGED <<mem, file, lock, latest, promised, undone, apart>>
  BY <1>1 DEF StoreInv, TypeOK, Discipline, Clear, AllOff, TurnOff, Looks, historyVars
<1>3. alive # "down" BY <1>1, <1>2 DEF StoreInv, DownIdle
<1>4. ASSUME NEW r \in Process, proc' = [proc EXCEPT ![Signal] = r],
             alive' \in {alive, "up"}, Placed(Signal, r), r.at \in {"idle", "locks", "saves"},
             me.again => Owes(Signal, r),
             Wrote(r) => me.again /\ r.field = me.field /\ r.value = me.value
      PROVE  StoreInv'
  <2>1. {me.at, r.at} \intersect ({"writes"} \union Inside) = {} BY <1>2, <1>4 DEF Inside
  <2>2. Owes(Signal, me) => Owes(Signal, r) \/ apart' BY <1>2, <1>4 DEF Owes, Saving
  <2>3. Wrote(r) => Wrote(me) /\ r.field = me.field /\ r.value = me.value
    BY <1>2, <1>4 DEF Wrote
  <2>4. apart' \in {apart, TRUE} BY <1>2
  <2> QED BY <1>1, <1>2, <1>3, <1>4, <2>1, <2>2, <2>3, <2>4, QuietStepKeepsInv
<1>5. CASE AllOff
  <2>1. CASE me.again
    <3> DEFINE r == [me EXCEPT !.at = "saves"]
    <3>1. /\ r \in Process /\ r.at = "saves" /\ r.op = me.op /\ r.field = me.field
          /\ r.value = me.value /\ r.again = me.again
      BY <1>2, PlaceChanges DEF SignalPlaces
    <3>2. proc' = [proc EXCEPT ![Signal] = r] /\ alive' \in {alive, "up"}
      BY <1>5, <2>1 DEF AllOff, Goes, Holds
    <3> HIDE DEF r
    <3>3. Placed(Signal, r) /\ Owes(Signal, r)
      BY <1>2, <3>1 DEF Placed, Owes, Saving, SignalPlaces
    <3> QED BY <1>4, <2>1, <3>1, <3>2, <3>3
  <2>2. CASE ~me.again
    <3>1. proc' = [proc EXCEPT ![Signal] = Idle] /\ alive' \in {alive, "up"}
      BY <1>5, <2>2 DEF AllOff, Ends
    <3> QED BY <1>1, <1>4, <2>2, <3>1, IdleProcess
  <2> QED BY <2>1, <2>2
<1>6. ASSUME NEW s \in Unsupported, TurnOff(s) PROVE StoreInv'
  <2> DEFINE r == Chosen(me, s, 0)
  <2>1. s \in Fields /\ 0 \in Int BY ConfigStoreAssumption DEF Fields
  <2>2. r \in Process /\ r.at = "locks" /\ r.op = me.op /\ r.again = me.again
    BY <1>2, <2>1, FieldChosen
  <2>3. proc' = [proc EXCEPT ![Signal] = r] /\ alive' \in {alive, "up"}
    BY <1>6 DEF TurnOff, Holds, Chosen
  <2> HIDE DEF r
  <2>4. Placed(Signal, r) /\ ~Wrote(r) /\ (me.again => Owes(Signal, r))
    BY <1>2, <2>2 DEF Placed, Wrote, Owes, Saving, SignalPlaces
  <2> QED BY <1>4, <2>2, <2>3, <2>4
<1> QED BY <1>5, <1>6 DEF Clear

-----------------------------------------------------------------------------
(* Writing the record. *)

\* Nobody else is inside, so no save is under way: a promise means a whole file.
LEMMA WriterIsAlone ==
    ASSUME StoreInv, NEW p \in Processes, HasLock(p)
    PROVE  /\ alive # "down"
           /\ \A q \in Processes : proc[q].at # "encodes"
           /\ \A f \in Fields : promised[f] # None => file.text = "whole"
           /\ \A q \in Processes : lock.writer = q => q = p
<1>1. alive # "down" BY DEF StoreInv, DownIdle, HasLock
<1>2. \A q \in Processes : proc[q].at # "encodes"
  BY DEF HasLock, StoreInv, Discipline, Admitted, Inside
<1>3. \A f \in Fields : promised[f] # None => file.text = "whole"
  BY <1>2 DEF StoreInv, HalfSaved
<1> QED BY <1>1, <1>2, <1>3 DEF HasLock

\* The lock is free again.
LEMMA LockReleased ==
    ASSUME StoreInv, NEW p \in Processes, HasLock(p), NEW r \in Process,
           proc' = [proc EXCEPT ![p] = r], lock' = [lock EXCEPT !.writer = None],
           Placed(p, r), r.at \notin {"writes"} \union Inside
    PROVE  lock' \in Locked /\ Discipline'
<1>1. lock \in Locked BY DEF StoreInv, TypeOK
<1>2. lock' \in Locked /\ lock'.writer = None /\ lock'.readers = {}
  BY <1>1 DEF Locked, HasLock
<1>3. None \notin Processes BY ConfigStoreAssumption
<1>4. Admitted(p, r, lock') BY <1>2, <1>3 DEF Admitted
<1>5. \A q \in Processes \ {p} :
        /\ lock'.writer = q <=> lock.writer = q
        /\ q \in lock'.readers <=> q \in lock.readers
  BY <1>2, <1>3 DEF HasLock
<1> QED BY <1>2, <1>4, <1>5, DisciplineKept DEF StoreInv

LEMMA WriteKeepsInv ==
    ASSUME StoreInv, NEW p \in Processes, Write(p)
    PROVE  StoreInv'
<1> DEFINE f == proc[p].field
           r == Written(p)
<1>1. /\ proc \in [Processes -> Process] /\ proc[p] \in Process /\ f \in Fields
      /\ proc[p].value \in Int /\ mem \in Confs
      /\ latest \in [Fields -> Processes \union {None}] /\ promised \in Confs
  BY ProcessFields DEF StoreInv, TypeOK
<1>2. /\ HasLock(p) /\ proc[p].op # "reload"
      /\ mem' = [mem EXCEPT ![f] = proc[p].value]
      /\ lock' = [lock EXCEPT !.writer = None]
      /\ proc' = [proc EXCEPT ![p] = r]
      /\ latest' = [latest EXCEPT ![f] = p]
      /\ promised' = [promised EXCEPT ![f] = None]
      /\ undone' = undone \ {f}
      /\ UNCHANGED <<alive, file, apart>>
  BY DEF Write
<1>3. /\ r \in Process /\ r.op = proc[p].op /\ r.field = f /\ r.value = proc[p].value
      /\ p = Signal => r.at = "clears" /\ r.again
      /\ p # Signal => r.at = "saves"
  <2>1. CASE p = Signal
    <3> DEFINE s == [proc[p] EXCEPT !.at = "clears"]
    <3>1. /\ s \in Process /\ s.at = "clears" /\ s.op = proc[p].op /\ s.field = f
          /\ s.value = proc[p].value
      BY <1>1, PlaceChanges DEF SignalPlaces
    <3>2. r = [s EXCEPT !.again = TRUE] BY <2>1 DEF Written
    <3> HIDE DEF s
    <3>3. /\ r \in Process /\ r.at = s.at /\ r.op = s.op /\ r.field = s.field
          /\ r.value = s.value /\ r.again
      BY <3>1, <3>2, AgainChanges
    <3> QED BY <2>1, <3>1, <3>3
  <2>2. CASE p # Signal
    <3>1. r = [proc[p] EXCEPT !.at = "saves"] BY <2>2 DEF Written
    <3> QED BY <1>1, <2>2, <3>1, PlaceChanges DEF SignalPlaces
  <2> QED BY <2>1, <2>2
<1> HIDE DEF r
<1>4. Placed(p, proc[p]) /\ proc[p].at = "writes" BY <1>2 DEF StoreInv, Discipline, HasLock
<1>5. Placed(p, r) BY <1>2, <1>3, <1>4 DEF Placed, SignalPlaces, ClientPlaces
<1>6. r.at \notin {"writes"} \union Inside BY <1>3 DEF Inside
<1>7. lock' \in Locked /\ Discipline' BY <1>2, <1>3, <1>5, <1>6, LockReleased
<1>8. proc' \in [Processes -> Process] /\ proc'[p] = r
      /\ \A q \in Processes \ {p} : proc'[q] = proc[q]
  BY <1>1, <1>2, <1>3, OneMoves
<1>9. TypeOK'
  <2>1. mem' \in Confs /\ promised' \in Confs BY <1>1, <1>2 DEF Confs
  <2>2. latest' \in [Fields -> Processes \union {None}] BY <1>1, <1>2
  <2> QED BY <1>2, <1>7, <1>8, <2>1, <2>2 DEF StoreInv, TypeOK
<1>10. DownIdle' BY <1>2, WriterIsAlone DEF DownIdle
<1>11. /\ mem'[f] = proc[p].value /\ latest'[f] = p /\ promised'[f] = None
       /\ \A g \in Fields \ {f} :
             mem'[g] = mem[g] /\ latest'[g] = latest[g] /\ promised'[g] = promised[g]
  BY <1>1, <1>2 DEF Confs
<1> HIDE DEF f
<1>12. WrittenIsThere'
  <2> SUFFICES ASSUME NEW q \in Processes, Wrote(proc'[q]), latest'[proc'[q].field] = q,
                      proc'[q].field \notin undone'
               PROVE  mem'[proc'[q].field] = proc'[q].value
    BY DEF WrittenIsThere
  <2>1. CASE q = p BY <1>3, <1>8, <1>11, <2>1
  <2>2. CASE q # p
    <3>1. proc'[q] = proc[q] /\ proc[q].field \in Fields /\ proc[q].field # f
      BY <1>1, <1>8, <1>11, <2>2, ProcessFields
    <3>2. proc[q].field \notin undone BY <1>2, <3>1
    <3> QED BY <1>11, <3>1, <3>2 DEF StoreInv, WrittenIsThere
  <2> QED BY <2>1, <2>2
<1>13. HalfSaved'
  BY <1>2, <1>11, WriterIsAlone DEF HalfSaved
<1>14. PromisesKept'
  BY <1>2, <1>11 DEF StoreInv, PromisesKept
<1>15. FileAgrees'
  <2>1. CASE p = Signal BY <1>3, <1>8, <2>1 DEF FileAgrees, SavePending
  <2>2. CASE p # Signal
    <3>1. proc'[p].at \in {"saves", "encodes"} BY <1>3, <1>8, <2>2
    <3> QED BY <3>1 DEF FileAgrees, SavePending
  <2> QED BY <2>1, <2>2
<1> QED BY <1>7, <1>9, <1>10, <1>12, <1>13, <1>14, <1>15 DEF StoreInv

LEMMA LoadKeepsInv ==
    ASSUME StoreInv, Load
    PROVE  StoreInv'
<1>1. /\ Signal \in Processes /\ HasLock(Signal) /\ proc[Signal].op = "reload"
      /\ lock' = [lock EXCEPT !.writer = None] /\ UNCHANGED <<file, latest, promised>>
      /\ proc \in [Processes -> Process]
  BY DEF Load, Processes, StoreInv, TypeOK
<1>2. ~proc[Signal].again /\ proc[Signal].at = "writes"
  BY <1>1 DEF StoreInv, Discipline, Placed, HasLock
<1>3. ASSUME Loads PROVE StoreInv'
  <2>1. /\ mem' = Loaded /\ apart' = FALSE /\ alive' = alive
        /\ undone' = undone \union {f \in Fields : Undoes(f)}
        /\ proc' = [proc EXCEPT ![Signal] = Clearing]
    BY <1>3 DEF Load, Holds
  <2>2. Clearing \in Process /\ Clearing.at = "clears" /\ Clearing.op = "clear"
        /\ ~Clearing.again
    <3>1. "clear" \in Ops /\ "clears" \in SignalPlaces \union ClientPlaces
      BY DEF Ops, SignalPlaces
    <3> QED BY <3>1, IdleProcess DEF Process, Clearing
  <2>3. Placed(Signal, Clearing) /\ Clearing.at \notin {"writes"} \union Inside
    BY <2>2 DEF Placed, SignalPlaces, Inside
  <2>4. lock' \in Locked /\ Discipline' BY <1>1, <2>1, <2>2, <2>3, LockReleased
  <2>5. proc' \in [Processes -> Process] BY <1>1, <2>1, <2>2, OneMoves
  <2>6. TypeOK'
    BY <1>1, <2>1, <2>4, <2>5 DEF StoreInv, TypeOK, Loaded, Empty, Confs
  <2>7. DownIdle' BY <1>1, <2>1, WriterIsAlone DEF DownIdle
  <2>8. WrittenIsThere'
    <3>1. proc'[Signal] = Clearing /\ \A q \in Processes \ {Signal} : proc'[q] = proc[q]
      BY <1>1, <2>1, <2>2, OneMoves
    <3> SUFFICES ASSUME NEW q \in Processes, Wrote(proc'[q]), latest'[proc'[q].field] = q,
                        proc'[q].field \notin undone'
                 PROVE  mem'[proc'[q].field] = proc'[q].value
      BY DEF WrittenIsThere
    <3> DEFINE g == proc[q].field
    <3>2. q \in Clients /\ proc'[q] = proc[q]
      BY <2>2, <3>1 DEF Wrote, Saving, Processes
    <3>3. proc[q].at = "saves"
      <4>1. proc[q].at # "encodes" BY <1>1, WriterIsAlone
      <4>2. proc[q].at # "clears"
        BY <3>2, ConfigStoreAssumption DEF StoreInv, Discipline, Placed, ClientPlaces
      <4> QED BY <3>2, <4>1, <4>2 DEF Wrote, Saving
    <3>4. g \in Fields /\ g \notin undone /\ ~Undoes(g) /\ latest[g] = q
      <4>1. g \in Fields BY <2>5, <3>2, ProcessFields
      <4> QED BY <1>1, <2>1, <3>2, <4>1
    <3>5. Loaded[g] = mem[g] BY <3>2, <3>3, <3>4 DEF Undoes
    <3>6. mem[g] = proc[q].value BY <3>2, <3>4 DEF StoreInv, WrittenIsThere
    <3> QED BY <2>1, <3>2, <3>5, <3>6
  <2>9. HalfSaved' BY <1>1, WriterIsAlone DEF HalfSaved
  <2>10. PromisesKept'
    <3>1. undone \subseteq undone' BY <2>1
    <3> QED BY <1>1, <2>1, <3>1, WriterIsAlone DEF StoreInv, PromisesKept, Loaded
  <2>11. FileAgrees' BY <1>1, <2>1 DEF FileAgrees, Loaded
  <2> QED BY <2>4, <2>6, <2>7, <2>8, <2>9, <2>10, <2>11 DEF StoreInv
<1>4. ASSUME ~Loads PROVE StoreInv'
  <2>1. /\ proc' = [proc EXCEPT ![Signal] = Idle] /\ alive' \in {alive, "up"}
        /\ UNCHANGED <<mem, file, latest, promised, undone, apart>>
    BY <1>1, <1>4 DEF Load, Ends
  <2>2. lock' \in Locked /\ lock'.writer = None /\ lock'.readers = lock.readers
    BY <1>1 DEF StoreInv, TypeOK, Locked
  <2>3. None \notin Processes BY ConfigStoreAssumption
  <2>4. Admitted(Signal, Idle, lock') BY <1>1, <2>2, <2>3, IdleProcess DEF Admitted, Inside, HasLock
  <2>5. \A q \in Processes \ {Signal} :
          /\ lock'.writer = q <=> lock.writer = q
          /\ q \in lock'.readers <=> q \in lock.readers
    BY <1>1, <2>2, <2>3 DEF HasLock
  <2>6. alive # "down" /\ ~Owes(Signal, proc[Signal]) /\ apart' \in {apart, TRUE}
        /\ proc[Signal].at # "encodes"
    BY <1>1, <1>2, <2>1, WriterIsAlone DEF Owes, Saving
  <2> QED BY <1>1, <2>1, <2>2, <2>4, <2>5, <2>6, IdleProcess, MoveKeepsInv
<1> QED BY <1>3, <1>4

-----------------------------------------------------------------------------
(* Writing the file. *)

LEMMA SaveBeginsKeepsInv ==
    ASSUME StoreInv, NEW p \in Processes, SaveBegins(p)
    PROVE  StoreInv'
<1>1. /\ proc \in [Processes -> Process] /\ proc[p] \in Process /\ lock \in Locked
      /\ proc[p].at = "saves" /\ Placed(p, proc[p]) /\ Admitted(p, proc[p], lock)
  BY DEF StoreInv, TypeOK, Discipline, SaveBegins
<1> DEFINE r == [proc[p] EXCEPT !.at = "encodes"]
<1>2. /\ r \in Process /\ r.at = "encodes" /\ r.op = proc[p].op /\ r.again = proc[p].again
      /\ r.field = proc[p].field /\ r.value = proc[p].value
  BY <1>1, PlaceChanges DEF SignalPlaces
<1>3. /\ proc' = [proc EXCEPT ![p] = r] /\ lock' = Joined(p) /\ lock.writer = None
      /\ file' = Torn("empty")
      /\ UNCHANGED <<alive, mem, latest, promised, undone, apart>>
  BY DEF SaveBegins, Goes, Unlocked, historyVars
<1> HIDE DEF r
<1>4. /\ proc' \in [Processes -> Process]
      /\ proc'[p] = r /\ \A q \in Processes \ {p} : proc'[q] = proc[q]
  BY <1>1, <1>2, <1>3, OneMoves
<1>5. /\ lock' \in Locked /\ lock'.writer = None
      /\ lock'.readers = lock.readers \union {p}
  BY <1>1, <1>3 DEF Joined, Locked
<1>6. None \notin Processes BY ConfigStoreAssumption
<1>7. Placed(p, r) /\ Admitted(p, r, lock')
  BY <1>1, <1>2, <1>5, <1>6 DEF Placed, Admitted, Inside, SignalPlaces, ClientPlaces
<1>8. Discipline' BY <1>2, <1>3, <1>5, <1>7, DisciplineKept DEF StoreInv
<1>9. TypeOK'
  <2>1. file' \in [text : {"whole", "empty", "garbled"}, conf : Confs]
    BY <1>3 DEF Torn, Empty, Confs
  <2> QED BY <1>3, <1>4, <1>5, <2>1 DEF StoreInv, TypeOK
<1>10. DownIdle' BY <1>1, <1>3 DEF StoreInv, DownIdle
<1>11. WrittenIsThere'
  <2>1. WrittenIsThere BY DEF StoreInv
  <2>2. Wrote(proc[p]) BY <1>1 DEF Wrote, Saving
  <2> QED BY <1>2, <1>3, <1>4, <2>1, <2>2 DEF WrittenIsThere
<1>12. HalfSaved' BY <1>2, <1>4 DEF HalfSaved
<1>13. PromisesKept' /\ FileAgrees'
  <2>1. file'.text # "whole" BY <1>3 DEF Torn
  <2> QED BY <1>3, <2>1 DEF StoreInv, PromisesKept, FileAgrees
<1> QED BY <1>8, <1>9, <1>10, <1>11, <1>12, <1>13 DEF StoreInv

\* A save that ends, well or not: the process is idle, and the lock has one reader less.
LEMMA SaverLeaves ==
    ASSUME StoreInv, NEW p \in Processes, proc[p].at = "encodes",
           lock' = Left(p), Ends(p)
    PROVE  /\ alive # "down" /\ alive' \in {alive, "up"}
           /\ lock' \in Locked /\ proc' \in [Processes -> Process]
           /\ proc'[p] = Idle /\ \A q \in Processes \ {p} : proc'[q] = proc[q]
           /\ Discipline'
<1>1. proc \in [Processes -> Process] /\ lock \in Locked BY DEF StoreInv, TypeOK
<1>2. proc' = [proc EXCEPT ![p] = Idle] /\ alive' \in {alive, "up"} BY DEF Ends
<1>3. /\ proc' \in [Processes -> Process]
      /\ proc'[p] = Idle /\ \A q \in Processes \ {p} : proc'[q] = proc[q]
  BY <1>1, <1>2, IdleProcess, OneMoves
<1>4. /\ lock' \in Locked /\ lock'.writer = lock.writer
      /\ lock'.readers = lock.readers \ {p}
  BY <1>1 DEF Left, Locked
<1>5. lock.writer # p BY DEF StoreInv, Discipline, Admitted
<1>6. Admitted(p, Idle, lock') BY <1>4, <1>5, IdleProcess DEF Admitted, Inside
<1>7. Discipline' BY <1>2, <1>4, <1>6, IdleProcess, DisciplineKept DEF StoreInv
<1>8. alive # "down" BY DEF StoreInv, DownIdle
<1> QED BY <1>2, <1>3, <1>4, <1>7, <1>8

LEMMA SaveEndsKeepsInv ==
    ASSUME StoreInv, NEW p \in Processes, SaveEnds(p)
    PROVE  StoreInv'
<1> DEFINE f == proc[p].field
<1>1. /\ proc[p] \in Process /\ mem \in Confs /\ promised \in Confs
      /\ f \in Fields /\ proc[p].value \in Int
  BY ProcessFields DEF StoreInv, TypeOK
<1>2. /\ proc[p].at = "encodes" /\ file' = Whole(mem) /\ lock' = Left(p) /\ Ends(p)
      /\ promised' = [g \in Fields |-> IF g = f /\ latest[g] = p THEN proc[p].value
                                       ELSE promised[g]]
      /\ apart' = FALSE /\ UNCHANGED <<mem, latest, undone>>
  BY DEF SaveEnds, Promise
<1>3. /\ alive # "down" /\ alive' \in {alive, "up"}
      /\ lock' \in Locked /\ proc' \in [Processes -> Process]
      /\ proc'[p] = Idle /\ \A q \in Processes \ {p} : proc'[q] = proc[q]
      /\ Discipline'
  BY <1>2, SaverLeaves
<1>4. file'.text = "whole" /\ file'.conf = mem BY <1>2 DEF Whole
<1>5. TypeOK'
  <2>1. file' \in [text : {"whole", "empty", "garbled"}, conf : Confs]
    BY <1>1, <1>2 DEF Whole
  <2>2. promised' \in Confs BY <1>1, <1>2 DEF Confs
  <2> QED BY <1>2, <1>3, <2>1, <2>2 DEF StoreInv, TypeOK
<1>6. DownIdle' BY <1>3 DEF DownIdle
<1>7. WrittenIsThere' BY <1>2, <1>3, IdleProcess DEF StoreInv, WrittenIsThere
<1>8. HalfSaved' BY <1>4 DEF HalfSaved
<1>9. \A g \in Fields \ undone : promised'[g] # None => mem[g] = promised'[g]
  <2>1. latest[f] = p /\ f \notin undone => mem[f] = proc[p].value
    BY <1>2 DEF StoreInv, WrittenIsThere, Wrote, Saving
  <2> QED BY <1>2, <1>3, <2>1 DEF StoreInv, PromisesKept
<1>10. PromisesKept' /\ FileAgrees' BY <1>2, <1>4, <1>9 DEF PromisesKept, FileAgrees
<1> QED BY <1>3, <1>5, <1>6, <1>7, <1>8, <1>10 DEF StoreInv

LEMMA EncodeFailsKeepsInv ==
    ASSUME StoreInv, NEW p \in Processes, EncodeFails(p)
    PROVE  StoreInv'
<1>1. /\ proc[p].at = "encodes" /\ lock' = Left(p) /\ Ends(p)
      /\ file' = file \/ (file.text = "empty" /\ file' = Torn("garbled"))
      /\ promised' = Kept /\ apart' = TRUE /\ UNCHANGED <<mem, latest, undone>>
  BY DEF EncodeFails
<1>2. /\ alive # "down" /\ alive' \in {alive, "up"}
      /\ lock' \in Locked /\ proc' \in [Processes -> Process]
      /\ proc'[p] = Idle /\ \A q \in Processes \ {p} : proc'[q] = proc[q]
      /\ Discipline'
  BY <1>1, SaverLeaves
<1>3. TypeOK'
  <2>1. file' \in [text : {"whole", "empty", "garbled"}, conf : Confs]
    <3>1. Torn("garbled") \in [text : {"whole", "empty", "garbled"}, conf : Confs]
      BY DEF Torn, Empty, Confs
    <3> QED BY <1>1, <3>1 DEF StoreInv, TypeOK
  <2>2. promised' \in Confs BY <1>1 DEF StoreInv, TypeOK, Kept, Empty, Confs
  <2> QED BY <1>1, <1>2, <2>1, <2>2 DEF StoreInv, TypeOK
<1>4. DownIdle' BY <1>2 DEF DownIdle
<1>5. WrittenIsThere' BY <1>1, <1>2, IdleProcess DEF StoreInv, WrittenIsThere
<1>6. \A f \in Fields : promised'[f] # None =>
        file.text = "whole" /\ file' = file /\ promised'[f] = promised[f]
  BY <1>1 DEF Kept, Empty
<1>7. HalfSaved' BY <1>6 DEF HalfSaved
<1>8. PromisesKept' BY <1>1, <1>2, <1>6 DEF StoreInv, PromisesKept
<1>9. FileAgrees' BY <1>1 DEF FileAgrees
<1> QED BY <1>2, <1>3, <1>4, <1>5, <1>7, <1>8, <1>9 DEF StoreInv

-----------------------------------------------------------------------------
(* The daemon's life, and the editor. *)

LEMMA StartKeepsInv ==
    ASSUME StoreInv, Start
    PROVE  StoreInv'
<1>1. /\ alive = "down" /\ alive' = "starting" /\ mem' = Loaded
      /\ proc' = [proc EXCEPT ![Signal] = Clearing]
      /\ UNCHANGED <<file, lock, latest, promised, undone, apart>>
      /\ Signal \in Processes /\ proc \in [Processes -> Process]
  BY DEF Start, historyVars, Processes, StoreInv, TypeOK
<1>2. \A q \in Processes : proc[q].at = "idle" BY <1>1 DEF StoreInv, DownIdle
<1>3. Clearing \in Process /\ Clearing.at = "clears" /\ Clearing.op = "clear"
      /\ ~Clearing.again
  <2>1. "clear" \in Ops /\ "clears" \in SignalPlaces \union ClientPlaces
    BY DEF Ops, SignalPlaces
  <2> QED BY <2>1, IdleProcess DEF Process, Clearing
<1>4. /\ proc' \in [Processes -> Process] /\ proc'[Signal] = Clearing
      /\ \A q \in Processes \ {Signal} : proc'[q] = proc[q]
  BY <1>1, <1>3, OneMoves
<1>5. Admitted(Signal, proc[Signal], lock) BY <1>1 DEF StoreInv, Discipline
<1>6. Placed(Signal, Clearing) /\ Admitted(Signal, Clearing, lock')
  BY <1>1, <1>2, <1>3, <1>5 DEF Placed, Admitted, Inside, SignalPlaces
<1>7. Discipline' BY <1>1, <1>3, <1>6, DisciplineKept DEF StoreInv
<1>8. TypeOK' BY <1>1, <1>4 DEF StoreInv, TypeOK, Loaded, Empty, Confs
<1>9. DownIdle' BY <1>1 DEF DownIdle
<1>10. WrittenIsThere'
  <2>1. \A q \in Processes : ~Wrote(proc'[q]) BY <1>2, <1>3, <1>4 DEF Wrote, Saving
  <2> QED BY <2>1 DEF WrittenIsThere
<1>11. \A f \in Fields : promised[f] # None => file.text = "whole"
  BY <1>2 DEF StoreInv, HalfSaved
<1>12. HalfSaved' BY <1>1, <1>11 DEF HalfSaved
<1>13. PromisesKept' BY <1>1, <1>11 DEF StoreInv, PromisesKept, Loaded
<1>14. FileAgrees' BY <1>1 DEF FileAgrees, Loaded
<1> QED BY <1>7, <1>8, <1>9, <1>10, <1>12, <1>13, <1>14 DEF StoreInv

\* Nobody runs.
LEMMA AllIdle ==
    ASSUME proc' = [p \in Processes |-> Idle],
           lock' = [writer |-> None, readers |-> {}]
    PROVE  /\ proc' \in [Processes -> Process] /\ lock' \in Locked
           /\ \A q \in Processes : proc'[q] = Idle
           /\ Discipline' /\ DownIdle' /\ WrittenIsThere'
<1>1. \A q \in Processes : proc'[q] = Idle OBVIOUS
<1>2. proc' \in [Processes -> Process] BY IdleProcess
<1>3. lock' \in Locked /\ lock'.writer = None /\ lock'.readers = {} BY DEF Locked
<1>4. None \notin Processes BY ConfigStoreAssumption
<1>5. \A q \in Processes : Admitted(q, Idle, lock')
  BY <1>3, <1>4, IdleProcess DEF Admitted, Inside
<1>6. Discipline' BY <1>1, <1>5, IdleProcess DEF Discipline
<1>7. DownIdle' BY <1>1, IdleProcess DEF DownIdle
<1>8. WrittenIsThere' BY <1>1, IdleProcess DEF WrittenIsThere
<1> QED BY <1>1, <1>2, <1>3, <1>6, <1>7, <1>8

LEMMA CrashKeepsInv ==
    ASSUME StoreInv, Crash
    PROVE  StoreInv'
<1>1. /\ alive' = "down" /\ mem' = Empty /\ latest' = Empty /\ promised' = Kept
      /\ proc' = [p \in Processes |-> Idle] /\ lock' = [writer |-> None, readers |-> {}]
      /\ apart' = FALSE /\ file' = file /\ undone' = undone
  BY DEF Crash
<1>2. TypeOK' BY <1>1, AllIdle DEF StoreInv, TypeOK, Empty, Kept, Confs
<1>3. \A f \in Fields : promised'[f] # None =>
        file.text = "whole" /\ promised'[f] = promised[f]
  BY <1>1 DEF Kept, Empty
<1>4. HalfSaved' /\ PromisesKept'
  BY <1>1, <1>3 DEF StoreInv, PromisesKept, HalfSaved
<1>5. FileAgrees' BY <1>1 DEF FileAgrees
<1> QED BY <1>1, <1>2, <1>4, <1>5, AllIdle DEF StoreInv

LEMMA EditKeepsInv ==
    ASSUME StoreInv, Edit
    PROVE  StoreInv'
<1>1. /\ promised' = Empty /\ apart' = TRUE
      /\ UNCHANGED <<alive, mem, lock, proc, latest, undone>>
  BY DEF Edit
<1>2. file' \in [text : {"whole", "empty", "garbled"}, conf : Confs]
  <2>1. CASE file' = Torn("garbled") BY <2>1 DEF Torn, Empty, Confs
  <2>2. CASE \E f \in Fields : \E v \in Edited(f) : file' = Whole([Loaded EXCEPT ![f] = v])
    <3>0. PICK f \in Fields :
             \E v \in Edited(f) : file' = Whole([Loaded EXCEPT ![f] = v])
      BY <2>2
    <3>1. PICK v \in Edited(f) : file' = Whole([Loaded EXCEPT ![f] = v])
      BY <3>0
    <3>2. v \in Int BY ConfigStoreAssumption DEF Edited, SettingValues
    <3>3. Loaded \in Confs BY DEF Loaded, Empty, Confs, StoreInv, TypeOK
    <3>4. [Loaded EXCEPT ![f] = v] \in Confs BY <3>2, <3>3 DEF Confs
    <3> QED BY <3>1, <3>4 DEF Whole
  <2> QED BY <2>1, <2>2 DEF Edit
<1>3. TypeOK' BY <1>1, <1>2 DEF StoreInv, TypeOK, Empty, Confs
<1>4. Discipline' /\ DownIdle' /\ WrittenIsThere'
  BY <1>1 DEF StoreInv, Discipline, DownIdle, WrittenIsThere, Admitted
<1>5. HalfSaved' /\ PromisesKept' /\ FileAgrees'
  BY <1>1 DEF HalfSaved, PromisesKept, FileAgrees, Empty
<1> QED BY <1>3, <1>4, <1>5 DEF StoreInv

-----------------------------------------------------------------------------

LEMMA InitStore == ASSUME Init PROVE StoreInv
<1>1. /\ proc \in [Processes -> Process] /\ \A q \in Processes : proc[q] = Idle
  BY IdleProcess DEF Init
<1>2. TypeOK BY <1>1 DEF Init, TypeOK, Empty, Torn, Confs, Locked
<1>3. Discipline
  <2>1. None \notin Processes BY ConfigStoreAssumption
  <2> QED BY <1>1, <2>1, IdleProcess DEF Init, Discipline, Admitted, Inside
<1>4. DownIdle /\ WrittenIsThere BY <1>1, IdleProcess DEF DownIdle, WrittenIsThere
<1>5. HalfSaved /\ PromisesKept /\ FileAgrees
  BY DEF Init, HalfSaved, PromisesKept, FileAgrees, Empty
<1> QED BY <1>2, <1>3, <1>4, <1>5 DEF StoreInv

LEMMA StepKeepsInv == ASSUME StoreInv, [Next]_vars PROVE StoreInv'
<1>1. CASE UNCHANGED vars
  BY <1>1 DEF vars, storeVars, historyVars, StoreInv, TypeOK, Discipline, DownIdle,
              WrittenIsThere, HalfSaved, PromisesKept, FileAgrees, SavePending, Admitted
<1>2. ASSUME NEW p \in Clients, Ask(p) PROVE StoreInv'
  BY <1>2, AskKeepsInv
<1>3. ASSUME NEW p \in Processes, Step(p) PROVE StoreInv'
  BY <1>3, ReadingStepKeepsInv, ReadLowerKeepsInv, ReadNestedKeepsInv, LocksKeepsInv,
     WriteKeepsInv, SaveBeginsKeepsInv, SaveEndsKeepsInv, OpenFailsKeepsInv,
     EncodeFailsKeepsInv, Zenon DEF Step
<1>4. CASE Load \/ Clear BY <1>4, LoadKeepsInv, ClearKeepsInv
<1>5. CASE Reload \/ Start \/ Crash \/ Edit
  BY <1>5, ReloadKeepsInv, StartKeepsInv, CrashKeepsInv, EditKeepsInv
<1> QED BY <1>1, <1>2, <1>3, <1>4, <1>5, Zenon DEF Next

LEMMA StoreIsSound == Spec => []StoreInv
<1>1. Init => StoreInv BY InitStore
<1>2. StoreInv /\ [Next]_vars => StoreInv' BY StepKeepsInv
<1> QED BY <1>1, <1>2, PTL DEF Spec

\* What a request was told is stored stays in memory and in the file: the setters, Save,
\* disableUnsupportedConfiguredFeatures and every Load but one take nothing back
\* (pkg/config/file.go).  The one is a reload between a request's setter and its Save,
\* which daemon.go:118 allows: the request is answered and its value is gone.
THEOREM AnswersAreKept == Spec => []PromisesKept
<1>1. StoreInv => PromisesKept BY DEF StoreInv
<1> QED BY <1>1, StoreIsSound, PTL

\* What is in memory gets to the file, or somebody has a save to do: no change is left
\* unsaved by the handlers or by the clearing after a reload (handlers.go, compatibility.go).
THEOREM MemoryReachesFile == Spec => []FileAgrees
<1>1. StoreInv => FileAgrees BY DEF StoreInv
<1> QED BY <1>1, StoreIsSound, PTL

=============================================================================
