-------------------------- MODULE EventStreamProofs --------------------------
(***************************************************************************)
(* The hub never sends on a closed channel, and what reaches the app are   *)
(* whole events in their publisher's order, for any number of publishers,  *)
(* events and connections and any capacities.                              *)
(*                                                                         *)
(* Who has taken the read lock has a number for its event, and who has not *)
(* has no channel left to visit: when the hub is unlocked nobody has.      *)
(*                                                                         *)
(* An event passes the call of Publish, the subscriber's channel, the lines*)
(* of the connection and the client's channel: at any time what is in one  *)
(* precedes, publisher by publisher, what is in the one before (Flows), the*)
(* lines are whole frames up to what the client holds, and at most one     *)
(* connection has lines at all (OneStream).                                *)
(***************************************************************************)
EXTENDS EventStream, SequenceTheorems, TLAPS

PubStates == [event : Nat, left : SUBSET Connections]

HubTyped ==
    /\ published \in Seq(Publishers)
    /\ pub \in [Publishers -> PubStates]
    /\ subs \in SUBSET Connections

\* The read lock is held from the first channel to the last.
VisitsUnderLock == \A p \in Publishers : pub[p].event = None => pub[p].left = {}

HubInv == HubTyped /\ VisitsUnderLock /\ NoSendOnClosed

-----------------------------------------------------------------------------

\* A step of a publisher changes its own call only.
LEMMA OneCallChanges ==
    ASSUME HubInv, NEW p \in Publishers, NEW s \in PubStates,
           pub' = [pub EXCEPT ![p] = s], subs' = subs,
           published' \in Seq(Publishers),
           s.left \subseteq subs, s.event = None => s.left = {}
    PROVE  HubInv'
<1>1. pub \in [Publishers -> PubStates] BY DEF HubInv, HubTyped
<1> HIDE DEF PubStates
<1>2. pub' \in [Publishers -> PubStates] BY <1>1
<1>3. \A q \in Publishers : pub'[q] = IF q = p THEN s ELSE pub[q] BY <1>1
<1>4. HubTyped' BY <1>2 DEF HubInv, HubTyped
<1>5. VisitsUnderLock' BY <1>3 DEF HubInv, VisitsUnderLock
<1>6. NoSendOnClosed' BY <1>3 DEF HubInv, NoSendOnClosed
<1> QED BY <1>4, <1>5, <1>6 DEF HubInv

LEMMA PublisherKeepsInv ==
    ASSUME HubInv, NEW p \in Publishers, PublishStart(p) \/ PublishSend(p) \/ PublishEnd(p)
    PROVE  HubInv'
<1>0. /\ published \in Seq(Publishers) /\ subs \in SUBSET Connections
      /\ pub \in [Publishers -> PubStates]
  BY DEF HubInv, HubTyped
<1>1. CASE PublishStart(p)
  <2> DEFINE s == [event |-> Len(published'), left |-> subs]
  <2>1. published' \in Seq(Publishers) /\ Len(published') \in Nat \ {0}
    BY <1>0, <1>1 DEF PublishStart
  <2>2. s \in PubStates /\ s.left = subs /\ s.event # None
    BY <1>0, <2>1 DEF PubStates, None
  <2>3. pub' = [pub EXCEPT ![p] = s] /\ subs' = subs BY <1>1 DEF PublishStart
  <2> HIDE DEF s
  <2> QED BY <2>1, <2>2, <2>3, OneCallChanges
<1>2. CASE PublishSend(p)
  <2>1. PICK c \in pub[p].left : pub' = [pub EXCEPT ![p].left = @ \ {c}]
    BY <1>2 DEF PublishSend
  <2> DEFINE s == [pub[p] EXCEPT !.left = @ \ {c}]
  <2>2. pub[p] \in PubStates BY <1>0
  <2>3. /\ s \in PubStates /\ s.left = pub[p].left \ {c} /\ s.event = pub[p].event
    BY <2>2 DEF PubStates
  <2>4. pub' = [pub EXCEPT ![p] = s] BY <2>1
  <2>5. subs' = subs /\ published' = published BY <1>2 DEF PublishSend
  <2>6. s.left \subseteq subs /\ (s.event = None => s.left = {})
    BY <2>3 DEF HubInv, NoSendOnClosed, VisitsUnderLock
  <2> HIDE DEF s
  <2> QED BY <1>0, <2>3, <2>4, <2>5, <2>6, OneCallChanges
<1>3. CASE PublishEnd(p)
  <2>1. Idle \in PubStates /\ Idle.left = {} BY DEF Idle, PubStates, None
  <2>2. pub' = [pub EXCEPT ![p] = Idle] /\ subs' = subs /\ published' = published
    BY <1>3 DEF PublishEnd
  <2> QED BY <1>0, <2>1, <2>2, OneCallChanges
<1> QED BY <1>1, <1>2, <1>3

\* Channels come into the hub and go while nobody visits them.
LEMMA SubscriberKeepsInv ==
    ASSUME HubInv, NEW c \in Connections, Subscribe(c) \/ Unsubscribe(c)
    PROVE  HubInv'
<1>1. subs' \in SUBSET Connections /\ pub' = pub /\ published' = published
  BY DEF Subscribe, Unsubscribe, HubInv, HubTyped
<1>2. \A p \in Publishers : pub[p].left = {}
  BY DEF Subscribe, Unsubscribe, Unlocked, HubInv, VisitsUnderLock
<1> QED BY <1>1, <1>2 DEF HubInv, HubTyped, VisitsUnderLock, NoSendOnClosed

LEMMA DeathKeepsInv == HubInv /\ DaemonDies => HubInv'
<1> SUFFICES ASSUME HubInv, DaemonDies PROVE HubInv'
  OBVIOUS
<1>1. Idle \in PubStates /\ Idle.left = {} BY DEF Idle, PubStates, None
<1>2. pub' = [p \in Publishers |-> Idle] /\ subs' = {} /\ published' = published
  BY DEF DaemonDies, clientVars
<1> HIDE DEF Idle, PubStates
<1>3. pub' \in [Publishers -> PubStates] /\ \A p \in Publishers : pub'[p].left = {}
  BY <1>1, <1>2
<1> QED BY <1>2, <1>3 DEF HubInv, HubTyped, VisitsUnderLock, NoSendOnClosed

LEMMA InitHolds == Init => HubInv
<1> SUFFICES ASSUME Init PROVE HubInv
  OBVIOUS
<1>1. Idle \in PubStates /\ Idle.left = {} BY DEF Idle, PubStates, None
<1>2. pub = [p \in Publishers |-> Idle] /\ subs = {} /\ published = <<>> BY DEF Init
<1> HIDE DEF Idle, PubStates
<1>3. pub \in [Publishers -> PubStates] /\ \A p \in Publishers : pub[p].left = {}
  BY <1>1, <1>2
<1> QED BY <1>2, <1>3 DEF HubInv, HubTyped, VisitsUnderLock, NoSendOnClosed

LEMMA StepKeepsInv == HubInv /\ [Next]_vars => HubInv'
<1> SUFFICES ASSUME HubInv, [Next]_vars PROVE HubInv'
  OBVIOUS
<1>1. ASSUME UNCHANGED <<published, pub, subs>> PROVE HubInv'
  BY <1>1 DEF HubInv, HubTyped, VisitsUnderLock, NoSendOnClosed
<1>2. CASE UNCHANGED vars BY <1>1, <1>2 DEF vars
<1>3. ASSUME NEW p \in Publishers, PublishStart(p) \/ PublishStep(p) PROVE HubInv'
  BY <1>3, PublisherKeepsInv DEF PublishStep
<1>4. ASSUME NEW c \in Connections, Subscribe(c) \/ Unsubscribe(c) PROVE HubInv'
  BY <1>4, SubscriberKeepsInv
<1>5. ASSUME NEW c \in Connections,
             HandlerGreets(c) \/ HandlerTakes(c) \/ HandlerPings(c) \/ HandlerDone(c)
               \/ HandlerWrites(c)
      PROVE  HubInv'
  <2>1. UNCHANGED <<published, pub, subs>>
    BY <1>5, Zenon
       DEF HandlerGreets, HandlerTakes, HandlerPings, HandlerDone, HandlerWrites, HandlerBecomes
  <2> QED BY <1>1, <2>1
<1>6. CASE ClientConnects \/ ClientFails \/ ClientRetries \/ ClientReads \/ ClientEnds
             \/ ClientStops
  <2>1. UNCHANGED hubVars
    BY <1>6, Zenon DEF ClientConnects, ClientFails, ClientRetries, ClientReads, ClientEnds,
       ClientStops, ClientGoes
  <2> QED BY <1>1, <2>1 DEF hubVars
<1>7. CASE Receive \/ Cancel \/ DaemonStarts
  <2>1. UNCHANGED hubVars BY <1>7, Zenon DEF Receive, Cancel, DaemonStarts
  <2> QED BY <1>1, <2>1 DEF hubVars
<1>8. CASE DaemonDies BY <1>8, DeathKeepsInv
<1> QED BY <1>2, <1>3, <1>4, <1>5, <1>6, <1>7, <1>8, Zenon DEF Next

\* A publisher never sends on a closed channel (hub.go:23-50): Unsubscribe takes the lock
\* that Publish holds from its first channel to its last.
THEOREM NeverSendsOnClosed == Spec => []NoSendOnClosed
<1>1. HubInv => NoSendOnClosed BY DEF HubInv
<1> QED BY <1>1, InitHolds, StepKeepsInv, PTL DEF Spec

-----------------------------------------------------------------------------
(* Type correctness: the handlers write frames, greetings and heartbeats.  *)

Written == {End} \cup [kind : {"event", "data"}, event : Events]

WiresTyped ==
    \A c \in Connections : wire[c] \in Seq(Written) /\ server[c].lines \in Seq(Written)

Typed == TypeOK /\ WiresTyped

HandlerStates == [at : Places, lines : Seq(Lines)]

LEMMA WrittenLines ==
    /\ Written \subseteq Lines /\ End \in Written /\ <<End>> \in Seq(Written)
    /\ <<>> \in Seq(Written)
    /\ \A e \in Events : Frame(e) \in Seq(Written)
<1>1. Written \subseteq Lines /\ End \in Written
  BY DEF Written, Lines, End, Line, None, Events
<1>2. \A e \in Events : Line("event", e) \in Written /\ Line("data", e) \in Written
  BY DEF Written, Line
<1> HIDE DEF Written
<1> QED BY <1>1, <1>2 DEF Frame

\* A handler moves on.
LEMMA HandlerTyped ==
    ASSUME Typed, NEW c \in Connections, NEW at \in Places, NEW lines \in Seq(Written),
           server' = [server EXCEPT ![c] = Handler(at, lines)]
    PROVE  /\ server' \in [Connections -> HandlerStates]
           /\ \A d \in Connections : server'[d].lines \in Seq(Written)
           /\ \A d \in Connections :
                 server'[d] = IF d = c THEN Handler(at, lines) ELSE server[d]
<1>1. server \in [Connections -> HandlerStates] /\ WiresTyped
  BY DEF Typed, TypeOK, HandlerStates
<1>2. lines \in Seq(Lines)
  BY WrittenLines, SeqMonotonic
<1>3. Handler(at, lines) \in HandlerStates /\ Handler(at, lines).lines = lines
  BY <1>2 DEF Handler, HandlerStates
<1>4. \A d \in Connections :
          server'[d] = IF d = c THEN Handler(at, lines) ELSE server[d]
  BY <1>1
<1> HIDE DEF Handler, HandlerStates
<1>5. server' \in [Connections -> HandlerStates]
  BY <1>1, <1>3
<1> QED BY <1>1, <1>3, <1>4, <1>5 DEF WiresTyped

\* Only the handler's place changes.
LEMMA PlaceBecomes ==
    ASSUME Typed, NEW c \in Connections, NEW at \in Places,
           server' = [server EXCEPT ![c].at = at]
    PROVE  /\ server[c].lines \in Seq(Written)
           /\ server' = [server EXCEPT ![c] = Handler(at, server[c].lines)]
<1>1. server \in [Connections -> HandlerStates] /\ server[c].lines \in Seq(Written)
  BY DEF Typed, TypeOK, HandlerStates, WiresTyped
<1>2. server[c] \in HandlerStates
  BY <1>1
<1>3. [server[c] EXCEPT !.at = at] = Handler(at, server[c].lines)
  BY <1>2 DEF HandlerStates, Handler
<1> QED BY <1>1, <1>3

\* A channel or a wire is written.
LEMMA HubBecomes ==
    ASSUME Typed, NEW c \in Connections, NEW s \in Seq(Events), Len(s) <= HubCapacity,
           hub' = [hub EXCEPT ![c] = s]
    PROVE  /\ hub' \in [Connections -> Seq(Events)]
           /\ \A d \in Connections : Len(hub'[d]) <= HubCapacity
           /\ \A d \in Connections : hub'[d] = IF d = c THEN s ELSE hub[d]
BY DEF Typed, TypeOK

LEMMA WireBecomes ==
    ASSUME Typed, NEW c \in Connections, NEW s \in Seq(Written), Len(s) <= WireCapacity,
           wire' = [wire EXCEPT ![c] = s]
    PROVE  /\ wire' \in [Connections -> Seq(Lines)]
           /\ \A d \in Connections : Len(wire'[d]) <= WireCapacity
           /\ \A d \in Connections : wire'[d] \in Seq(Written)
           /\ \A d \in Connections : wire'[d] = IF d = c THEN s ELSE wire[d]
<1>1. wire \in [Connections -> Seq(Lines)] /\ WiresTyped
  BY DEF Typed, TypeOK
<1>2. s \in Seq(Lines)
  BY WrittenLines, SeqMonotonic
<1>3. \A d \in Connections : wire'[d] = IF d = c THEN s ELSE wire[d]
  BY <1>1
<1> HIDE DEF Written
<1> QED BY <1>1, <1>2, <1>3 DEF WiresTyped, Typed, TypeOK

\* What Publish does to a channel.
LEMMA OfferedChannel ==
    ASSUME NEW s \in Seq(Events), Len(s) <= HubCapacity, NEW e \in Events
    PROVE  /\ Offered(s, e) \in Seq(Events) /\ Len(Offered(s, e)) <= HubCapacity
           /\ Offered(s, e) = s \/ Offered(s, e) = Append(s, e)
BY ConstantsAssumption DEF Offered

LEMMA SendIs ==
    ASSUME Typed, HubInv, NEW p \in Publishers, PublishSend(p)
    PROVE  \E c \in pub[p].left :
              /\ c \in Connections /\ pub[p].event \in Events
              /\ hub' = [hub EXCEPT ![c] = Offered(hub[c], pub[p].event)]
              /\ pub' = [pub EXCEPT ![p] = [event |-> pub[p].event,
                                            left |-> pub[p].left \ {c}]]
              /\ UNCHANGED <<up, published, subs, server, alive, wire, clientVars>>
<1> DEFINE Calls == [event : Events \cup {None}, left : SUBSET Connections]
<1>1. pub \in [Publishers -> Calls] /\ pub[p] \in Calls
    BY DEF Typed, TypeOK
<1>2. PICK c \in pub[p].left :
          /\ hub' = [hub EXCEPT ![c] = Offered(hub[c], pub[p].event)]
          /\ pub' = [pub EXCEPT ![p].left = @ \ {c}]
          /\ UNCHANGED <<up, published, subs, server, alive, wire, clientVars>>
    BY DEF PublishSend
<1>3. [pub[p] EXCEPT !.left = @ \ {c}]
        = [event |-> pub[p].event, left |-> pub[p].left \ {c}]
    BY <1>1
<1>4. c \in Connections /\ pub[p].event \in Events
    BY <1>1, <1>2 DEF HubInv, VisitsUnderLock
<1> QED BY <1>2, <1>3, <1>4

LEMMA PublisherTyped ==
    ASSUME Typed, HubInv, NEW p \in Publishers, PublishStart(p) \/ PublishStep(p)
    PROVE  Typed'
<1> DEFINE Calls == [event : Events \cup {None}, left : SUBSET Connections]
<1>0. /\ pub \in [Publishers -> Calls] /\ pub[p] \in Calls
      /\ published \in Seq(Publishers) /\ Len(published) <= MaxEvents
      /\ subs \in SUBSET Connections
    BY DEF Typed, TypeOK
<1>1. CASE PublishStart(p)
  <2> DEFINE s == [event |-> Len(published'), left |-> subs]
  <2>1. /\ published' \in Seq(Publishers) /\ Len(published') <= MaxEvents
        /\ Len(published') \in Events
      BY <1>0, <1>1, ConstantsAssumption DEF PublishStart, Events
  <2>2. s \in Calls
      BY <1>0, <2>1
  <2>3. pub' = [pub EXCEPT ![p] = s]
      BY <1>1 DEF PublishStart
  <2> HIDE DEF s, Calls
  <2>4. pub' \in [Publishers -> Calls]
      BY <1>0, <2>2, <2>3
  <2>5. UNCHANGED <<up, subs, hub, server, alive, wire, clientVars>>
      BY <1>1 DEF PublishStart
  <2> USE DEF Calls
  <2> QED BY <2>1, <2>4, <2>5 DEF Typed, TypeOK, WiresTyped, clientVars
<1>2. CASE PublishSend(p)
  <2>1. PICK c \in pub[p].left :
              /\ c \in Connections /\ pub[p].event \in Events
              /\ hub' = [hub EXCEPT ![c] = Offered(hub[c], pub[p].event)]
              /\ pub' = [pub EXCEPT ![p] = [event |-> pub[p].event,
                                            left |-> pub[p].left \ {c}]]
              /\ UNCHANGED <<up, published, subs, server, alive, wire, clientVars>>
      BY <1>2, SendIs
  <2> DEFINE s == [event |-> pub[p].event, left |-> pub[p].left \ {c}]
  <2>2. s \in Calls
      BY <1>0, <2>1
  <2>3. /\ Offered(hub[c], pub[p].event) \in Seq(Events)
        /\ Len(Offered(hub[c], pub[p].event)) <= HubCapacity
      BY <2>1, OfferedChannel DEF Typed, TypeOK
  <2>4. pub' = [pub EXCEPT ![p] = s]
      BY <2>1
  <2> HIDE DEF s, Calls
  <2>5. pub' \in [Publishers -> Calls]
      BY <1>0, <2>2, <2>4
  <2>6. hub' \in [Connections -> Seq(Events)]
        /\ \A d \in Connections : Len(hub'[d]) <= HubCapacity
      BY <2>1, <2>3, HubBecomes
  <2> USE DEF Calls
  <2> QED BY <2>1, <2>5, <2>6 DEF Typed, TypeOK, WiresTyped, clientVars
<1>3. CASE PublishEnd(p)
  <2>1. pub' = [pub EXCEPT ![p] = Idle]
        /\ UNCHANGED <<up, published, subs, hub, server, alive, wire, clientVars>>
      BY <1>3 DEF PublishEnd
  <2>2. Idle \in Calls
      BY DEF Idle
  <2> HIDE DEF Calls
  <2>3. pub' \in [Publishers -> Calls]
      BY <1>0, <2>1, <2>2
  <2> USE DEF Calls
  <2> QED BY <2>1, <2>3 DEF Typed, TypeOK, WiresTyped, clientVars
<1> QED BY <1>1, <1>2, <1>3 DEF PublishStep

LEMMA SubscriberTyped ==
    ASSUME Typed, NEW c \in Connections, Subscribe(c) \/ Unsubscribe(c)
    PROVE  Typed'
<1>1. PICK at \in Places :
          /\ server' = [server EXCEPT ![c].at = at]
          /\ hub' = hub \/ hub' = [hub EXCEPT ![c] = <<>>]
          /\ subs' \in SUBSET Connections
          /\ UNCHANGED <<up, published, pub, alive, wire, clientVars>>
  <2>1. subs \in SUBSET Connections /\ "greets" \in Places /\ "gone" \in Places
      BY DEF Typed, TypeOK, Places
  <2> QED BY <2>1 DEF Subscribe, Unsubscribe
<1>2. /\ server' \in [Connections -> HandlerStates]
      /\ \A d \in Connections : server'[d].lines \in Seq(Written)
    BY <1>1, PlaceBecomes, HandlerTyped
<1>3. <<>> \in Seq(Events) /\ Len(<<>>) <= HubCapacity
    BY ConstantsAssumption
<1>4. hub' \in [Connections -> Seq(Events)]
      /\ \A d \in Connections : Len(hub'[d]) <= HubCapacity
    BY <1>1, <1>3, HubBecomes DEF Typed, TypeOK
<1> QED BY <1>1, <1>2, <1>4 DEF Typed, TypeOK, WiresTyped, clientVars, HandlerStates

\* What a handler's step does: it moves on, takes from its channel, writes on the wire.
HandlerStep(c) ==
    HandlerGreets(c) \/ HandlerTakes(c) \/ HandlerPings(c) \/ HandlerDone(c)
        \/ HandlerWrites(c)

LEMMA HandlerStepTyped ==
    ASSUME Typed, NEW c \in Connections, HandlerStep(c)
    PROVE  Typed'
<1>1. ASSUME NEW at \in Places, NEW lines \in Seq(Written), HandlerBecomes(c, at, lines),
             NEW channel \in Seq(Events), Len(channel) <= HubCapacity,
             hub' = hub \/ hub' = [hub EXCEPT ![c] = channel],
             NEW s \in Seq(Written), Len(s) <= WireCapacity,
             wire' = wire \/ wire' = [wire EXCEPT ![c] = s]
      PROVE  Typed'
  <2>1. /\ server' \in [Connections -> HandlerStates]
        /\ \A d \in Connections : server'[d].lines \in Seq(Written)
        /\ UNCHANGED <<up, published, pub, subs, alive, clientVars>>
      BY <1>1, HandlerTyped DEF HandlerBecomes
  <2>2. /\ hub' \in [Connections -> Seq(Events)]
        /\ \A d \in Connections : Len(hub'[d]) <= HubCapacity
      BY <1>1, HubBecomes DEF Typed, TypeOK
  <2>3. /\ wire' \in [Connections -> Seq(Lines)]
        /\ \A d \in Connections : Len(wire'[d]) <= WireCapacity
        /\ \A d \in Connections : wire'[d] \in Seq(Written)
      BY <1>1, WireBecomes DEF Typed, TypeOK, WiresTyped
  <2> QED BY <2>1, <2>2, <2>3 DEF Typed, TypeOK, WiresTyped, clientVars, HandlerStates
<1>2. /\ hub[c] \in Seq(Events) /\ Len(hub[c]) <= HubCapacity
      /\ wire[c] \in Seq(Written) /\ Len(wire[c]) <= WireCapacity
      /\ server[c].lines \in Seq(Written)
      /\ wire \in [Connections -> Seq(Lines)] /\ hub \in [Connections -> Seq(Events)]
    BY DEF Typed, TypeOK, WiresTyped
<1>3. "writes" \in Places /\ "returns" \in Places /\ "selects" \in Places
    BY DEF Places
<1>4. CASE HandlerGreets(c) \/ HandlerPings(c) \/ HandlerDone(c)
  <2>1. /\ \/ HandlerBecomes(c, "writes", <<End>>)
           \/ HandlerBecomes(c, "returns", <<>>)
        /\ UNCHANGED <<hub, wire>>
      BY <1>4, Zenon DEF HandlerGreets, HandlerPings, HandlerDone
  <2> QED BY <1>1, <1>2, <1>3, <2>1, WrittenLines
<1>5. CASE HandlerTakes(c)
  <2>1. /\ hub[c] # <<>> /\ HandlerBecomes(c, "writes", Frame(Head(hub[c])))
        /\ hub' = [hub EXCEPT ![c] = Tail(hub[c])] /\ UNCHANGED wire
      BY <1>5, Zenon DEF HandlerTakes
  <2>2. /\ Tail(hub[c]) \in Seq(Events) /\ Len(Tail(hub[c])) <= HubCapacity
        /\ Head(hub[c]) \in Events
      BY <1>2, <2>1, ConstantsAssumption
  <2>3. Frame(Head(hub[c])) \in Seq(Written)
      BY <2>2, WrittenLines
  <2> QED BY <1>1, <1>2, <1>3, <2>1, <2>2, <2>3
<1>6. CASE HandlerWrites(c)
  <2>1. CASE server[c].lines = <<>>
      BY <1>1, <1>2, <1>3, <1>6, <2>1, WrittenLines DEF HandlerWrites
  <2>2. CASE server[c].lines # <<>>
    <3>1. /\ HandlerBecomes(c, "writes", Tail(server[c].lines)) /\ UNCHANGED hub
          /\ \/ UNCHANGED wire
             \/ /\ Len(wire[c]) < WireCapacity
                /\ wire' = [wire EXCEPT ![c] = Append(wire[c], Head(server[c].lines))]
        BY <1>6, <2>2 DEF HandlerWrites
    <3>2. /\ Tail(server[c].lines) \in Seq(Written) /\ Head(server[c].lines) \in Written
        BY <1>2, <2>2
    <3>3. CASE UNCHANGED wire
        BY <1>1, <1>2, <1>3, <3>1, <3>2, <3>3
    <3>4. CASE /\ Len(wire[c]) < WireCapacity
               /\ wire' = [wire EXCEPT ![c] = Append(wire[c], Head(server[c].lines))]
      <4>1. /\ Append(wire[c], Head(server[c].lines)) \in Seq(Written)
            /\ Len(Append(wire[c], Head(server[c].lines))) <= WireCapacity
          BY <1>2, <3>2, <3>4, ConstantsAssumption
      <4> QED BY <1>1, <1>2, <1>3, <3>1, <3>2, <3>4, <4>1
    <3> QED BY <3>1, <3>3, <3>4
  <2> QED BY <2>1, <2>2
<1> QED BY <1>4, <1>5, <1>6 DEF HandlerStep

ClientStates ==
    [at : {"connects", "retries", "reads", "sleeps", "done"},
     conn : Connections \cup {None}, name : Events \cup {None}, data : Seq(Events)]

\* The client holds at most one connection, all others are empty; a handler has lines
\* only while it writes; one that has not started is nowhere else.
OneStream ==
    /\ alive \subseteq IF client.at = "reads" THEN {client.conn} ELSE {}
    /\ client.at = "reads" => client.conn \in Connections
    /\ \A c \in Connections :
          /\ client.at # "reads" \/ c # client.conn => wire[c] = <<>>
          /\ server[c].at # "writes" => server[c].lines = <<>>
          /\ server[c].at = "none" => c \notin subs /\ hub[c] = <<>>

\* The line the client reads next, and what each kind of line does.
NextLine == Head(wire[client.conn])

TakesName ==
    /\ NextLine.kind = "event" /\ client' = [client EXCEPT !.name = NextLine.event]
    /\ UNCHANGED <<out, lost>>
TakesData ==
    /\ NextLine.kind = "data"
    /\ client' = [client EXCEPT !.data = Append(client.data, NextLine.event)]
    /\ UNCHANGED <<out, lost>>

LEMMA LineRead ==
    ASSUME Typed, OneStream, ClientReads
    PROVE  /\ client.at = "reads" /\ client.conn \in Connections
           /\ wire[client.conn] # <<>> /\ NextLine \in Written
           /\ NextLine.kind # "end" => NextLine.event \in Events
           /\ wire' = [wire EXCEPT ![client.conn] = Tail(wire[client.conn])]
           /\ UNCHANGED <<up, hubVars, server, alive, cancelled, received>>
           /\ TakesName \/ TakesData \/ (NextLine = End /\ FlushFrame)
<1>1. /\ client.at = "reads" /\ client.conn \in Connections
      /\ wire[client.conn] # <<>> /\ wire[client.conn] \in Seq(Written)
    BY DEF ClientReads, OneStream, Typed, WiresTyped
<1>2. NextLine \in Written
    BY <1>1, HeadTailProperties DEF NextLine
<1>3. /\ \/ NextLine = End
         \/ NextLine.kind \in {"event", "data"} /\ NextLine.event \in Events
      /\ End.kind = "end"
    BY <1>2 DEF Written, End, Line
<1>4. TakesName \/ TakesData \/ (NextLine = End /\ FlushFrame)
    BY <1>3 DEF ClientReads, NextLine, TakesName, TakesData
<1>5. /\ wire' = [wire EXCEPT ![client.conn] = Tail(wire[client.conn])]
      /\ UNCHANGED <<up, hubVars, server, alive, cancelled, received>>
    BY Zenon DEF ClientReads
<1> QED BY <1>1, <1>2, <1>3, <1>4, <1>5

\* The frame the client has read and delivers, or has no room for.
Complete == client.name # None /\ client.data # <<>>
Delivery == [name |-> client.name, data |-> client.data]

LEMMA FrameFlushed ==
    ASSUME Typed, FlushFrame
    PROVE  /\ client' = Reading(client.conn, None, <<>>)
           /\ \/ out' = out
              \/ /\ Complete /\ Delivery \in Deliveries
                 /\ Len(out) < ClientCapacity /\ out' = Append(out, Delivery)
           /\ lost' \subseteq Events
<1>1. client \in ClientStates /\ lost \subseteq Events
    BY DEF Typed, TypeOK, ClientStates
<1> QED BY <1>1 DEF FlushFrame, Complete, Delivery, Deliveries, ClientStates

LEMMA ClientReadsTyped ==
    ASSUME Typed, OneStream, ClientReads
    PROVE  Typed'
<1>1. /\ client.at = "reads" /\ client.conn \in Connections
      /\ wire[client.conn] # <<>>
      /\ NextLine.kind # "end" => NextLine.event \in Events
      /\ wire' = [wire EXCEPT ![client.conn] = Tail(wire[client.conn])]
      /\ UNCHANGED <<up, hubVars, server, alive, cancelled, received>>
      /\ TakesName \/ TakesData \/ (NextLine = End /\ FlushFrame)
    BY LineRead
<1>2. /\ client \in ClientStates /\ out \in Seq(Deliveries) /\ Len(out) <= ClientCapacity
      /\ lost \subseteq Events
      /\ wire[client.conn] \in Seq(Written) /\ Len(wire[client.conn]) <= WireCapacity
    BY <1>1 DEF Typed, TypeOK, WiresTyped, ClientStates
<1>3. /\ wire' \in [Connections -> Seq(Lines)]
      /\ \A d \in Connections : Len(wire'[d]) <= WireCapacity
      /\ \A d \in Connections : wire'[d] \in Seq(Written)
  <2>1. /\ Tail(wire[client.conn]) \in Seq(Written)
        /\ Len(Tail(wire[client.conn])) <= WireCapacity
      BY <1>1, <1>2, HeadTailProperties, ConstantsAssumption
  <2> QED BY <1>1, <2>1, WireBecomes
<1>4. /\ client' \in ClientStates /\ out' \in Seq(Deliveries) /\ Len(out') <= ClientCapacity
      /\ lost' \subseteq Events
  <2>1. CASE TakesName
      BY <1>1, <1>2, <2>1 DEF TakesName, ClientStates
  <2>2. CASE TakesData
    <3>1. Append(client.data, NextLine.event) \in Seq(Events)
        BY <1>1, <1>2, <2>2 DEF TakesData, ClientStates
    <3> QED BY <1>2, <2>2, <3>1 DEF TakesData, ClientStates
  <2>3. CASE NextLine = End /\ FlushFrame
    <3>1. /\ client' = Reading(client.conn, None, <<>>) /\ lost' \subseteq Events
          /\ \/ out' = out
             \/ /\ Delivery \in Deliveries /\ Len(out) < ClientCapacity
                /\ out' = Append(out, Delivery)
        BY <2>3, FrameFlushed
    <3>2. client' \in ClientStates
        BY <1>1, <1>2, <3>1 DEF Reading, ClientStates
    <3>3. out' \in Seq(Deliveries) /\ Len(out') <= ClientCapacity
        BY <1>2, <3>1, AppendProperties, ConstantsAssumption
    <3> QED BY <3>1, <3>2, <3>3
  <2> QED BY <1>1, <2>1, <2>2, <2>3
<1> QED BY <1>1, <1>3, <1>4 DEF Typed, TypeOK, WiresTyped, hubVars, ClientStates

ClientLeaves == ClientFails \/ ClientRetries \/ ClientEnds \/ ClientStops

LEMMA Leaves ==
    ASSUME ClientLeaves
    PROVE  \E at \in {"connects", "retries", "sleeps", "done"} :
              ClientGoes(at) /\ UNCHANGED out
BY Zenon DEF ClientLeaves, ClientFails, ClientRetries, ClientEnds, ClientStops

LEMMA ClientTyped ==
    ASSUME Typed, OneStream, ClientConnects \/ ClientLeaves
    PROVE  Typed'
<1>0. /\ client \in ClientStates /\ alive \in SUBSET Connections
      /\ wire \in [Connections -> Seq(Lines)] /\ WiresTyped
      /\ \A c \in Connections : Len(wire[c]) <= WireCapacity
    BY DEF Typed, TypeOK, ClientStates
<1>1. CASE ClientConnects
  <2>1. PICK c \in Connections :
            /\ server' = [server EXCEPT ![c].at = "starts"]
            /\ alive' = alive \cup {c}
            /\ client' = Reading(c, None, <<>>)
      BY <1>1 DEF ClientConnects
  <2>2. UNCHANGED <<up, hubVars, wire, cancelled, out, received, lost>>
      BY <1>1 DEF ClientConnects
  <2>3. "starts" \in Places
      BY DEF Places
  <2>4. /\ server' \in [Connections -> HandlerStates]
        /\ \A d \in Connections : server'[d].lines \in Seq(Written)
      BY <2>1, <2>3, PlaceBecomes, HandlerTyped
  <2>5. client' \in ClientStates /\ alive' \in SUBSET Connections
      BY <1>0, <2>1 DEF Reading, ClientStates
  <2> QED BY <2>2, <2>4, <2>5
          DEF Typed, TypeOK, WiresTyped, hubVars, ClientStates, HandlerStates
<1>2. CASE ClientLeaves
  <2>1. PICK at \in {"connects", "retries", "sleeps", "done"} :
            ClientGoes(at) /\ UNCHANGED out
      BY <1>2, Leaves
  <2>2. client' \in ClientStates /\ alive' \in SUBSET Connections
      BY <1>0, <2>1 DEF ClientGoes, ClientAt, ClientStates
  <2>3. /\ wire' \in [Connections -> Seq(Lines)]
        /\ \A d \in Connections : Len(wire'[d]) <= WireCapacity
        /\ \A d \in Connections : wire'[d] \in Seq(Written)
    <3>1. CASE client.conn = None
        BY <1>0, <2>1, <3>1 DEF ClientGoes, WiresTyped
    <3>2. CASE client.conn # None
      <4>1. /\ client.conn \in Connections
            /\ wire' = [wire EXCEPT ![client.conn] = <<>>]
          BY <1>0, <2>1, <3>2 DEF ClientGoes, ClientStates
      <4>2. <<>> \in Seq(Written) /\ Len(<<>>) <= WireCapacity
          BY WrittenLines, ConstantsAssumption
      <4> QED BY <4>1, <4>2, WireBecomes
    <3> QED BY <3>1, <3>2
  <2>4. UNCHANGED <<up, hubVars, server, cancelled, received, lost, out>>
      BY <2>1 DEF ClientGoes
  <2> QED BY <2>2, <2>3, <2>4 DEF Typed, TypeOK, WiresTyped, hubVars, ClientStates
<1> QED BY <1>1, <1>2

LEMMA LifeTyped ==
    ASSUME Typed, Receive \/ Cancel \/ DaemonDies \/ DaemonStarts \/ UNCHANGED vars
    PROVE  Typed'
<1>1. CASE Receive
  <2>1. received \in Seq(Deliveries) /\ out \in Seq(Deliveries) /\ out # <<>>
        /\ Len(out) <= ClientCapacity
      BY <1>1 DEF Receive, Typed, TypeOK
  <2>2. /\ received' \in Seq(Deliveries) /\ out' \in Seq(Deliveries)
        /\ Len(out') <= ClientCapacity
      BY <1>1, <2>1, HeadTailProperties, AppendProperties, ConstantsAssumption DEF Receive
  <2> QED BY <1>1, <2>2 DEF Receive, Typed, TypeOK, WiresTyped, hubVars
<1>2. CASE Cancel \/ DaemonStarts \/ UNCHANGED vars
    BY <1>2 DEF Cancel, DaemonStarts, vars, Typed, TypeOK, WiresTyped, hubVars, clientVars
<1>3. CASE DaemonDies
  <2> DEFINE Calls == [event : Events \cup {None}, left : SUBSET Connections]
  <2>1. Idle \in Calls
      BY DEF Idle
  <2>2. /\ pub' = [p \in Publishers |-> Idle] /\ subs' = {} /\ alive' = {} /\ up' = FALSE
        /\ hub' = [c \in Connections |-> <<>>]
        /\ server' = [c \in Connections |->
                     IF server[c].at = "none" THEN server[c] ELSE Handler("gone", <<>>)]
        /\ UNCHANGED <<published, wire, clientVars>>
      BY <1>3 DEF DaemonDies
  <2> HIDE DEF Calls
  <2>3. pub' \in [Publishers -> Calls]
      BY <2>1, <2>2
  <2>4. hub' \in [Connections -> Seq(Events)]
        /\ \A c \in Connections : Len(hub'[c]) <= HubCapacity
      BY <2>2, ConstantsAssumption
  <2>5. /\ Handler("gone", <<>>) \in HandlerStates
        /\ Handler("gone", <<>>).lines \in Seq(Written)
      BY DEF Handler, HandlerStates, Places
  <2>6. server \in [Connections -> HandlerStates] /\ WiresTyped
      BY DEF Typed, TypeOK, HandlerStates
  <2> HIDE DEF HandlerStates, Handler
  <2>7. /\ server' \in [Connections -> HandlerStates]
        /\ \A c \in Connections : server'[c].lines \in Seq(Written)
      BY <2>2, <2>5, <2>6 DEF WiresTyped
  <2> USE DEF Calls
  <2> QED BY <2>2, <2>3, <2>4, <2>7 DEF Typed, TypeOK, WiresTyped, clientVars, HandlerStates
<1> QED BY <1>1, <1>2, <1>3

-----------------------------------------------------------------------------
(* The order of events.  Of one publisher's events the earlier have the    *)
(* smaller numbers; pb is the publisher of each event.                     *)

Before(pb, x, y) == pb[x] = pb[y] => x < y
AllBefore(pb, A, B) == \A x \in A, y \in B : Before(pb, x, y)

\* A channel holds events in their order.
InChannel(s) == {s[i] : i \in DOMAIN s}
InOrder(pb, s) == \A i, j \in DOMAIN s : i < j => Before(pb, s[i], s[j])

\* Lines come in whole frames, and the events they carry in their order.
Follows(l, m) ==
    /\ l.kind = "event" => m = Line("data", l.event)
    /\ l.kind = "data" => m = End
    /\ l.kind = "end" => m.kind # "data"
Framed(L) == \A i, j \in DOMAIN L : j = i + 1 => Follows(L[i], L[j])

CarryingLines(L) == {i \in DOMAIN L : L[i].kind # "end"}
Carried(L) == {L[i].event : i \in CarryingLines(L)}
Sorted(pb, L) ==
    \A i, j \in CarryingLines(L) :
        i < j => \/ L[i].kind = "event" /\ j = i + 1
                 \/ Before(pb, L[i].event, L[j].event)

\* What an event passes: the publisher's call (X), the channel of the connection (H), its
\* lines (L), the app's channel (N).
Flows(pb, N, L, H, X) ==
    /\ Framed(L) /\ Sorted(pb, L) /\ InOrder(pb, H)
    /\ N \cup Carried(L) \cup InChannel(H) \cup X \subseteq 1..Len(pb)
    /\ AllBefore(pb, N, Carried(L))
    /\ AllBefore(pb, N \cup Carried(L), InChannel(H))
    /\ AllBefore(pb, N \cup Carried(L) \cup InChannel(H), X)

LEMMA WrittenKinds ==
    \A l \in Written :
        /\ l.kind \in {"event", "data", "end"}
        /\ l.kind = "end" <=> l = End
        /\ l.kind # "end" => l.event \in Events
        /\ l.kind = "data" => l = Line("data", l.event)
BY DEF Written, End, Line, None

\* A publisher joins with the next number.
LEMMA FlowsGrow ==
    ASSUME NEW pb \in Seq(Publishers), NEW p \in Publishers, NEW N, NEW L, NEW H, NEW X,
           NEW Y, Flows(pb, N, L, H, X), Y \subseteq X \cup {Len(pb) + 1}
    PROVE  Flows(Append(pb, p), N, L, H, Y)
<1> DEFINE pc == Append(pb, p)
<1>1. Len(pc) = Len(pb) + 1 /\ Len(pb) \in Nat /\ \A i \in 1..Len(pb) : pc[i] = pb[i]
    BY AppendProperties
<1> HIDE DEF pc
<1>2. \A x, y \in 1..Len(pb) : Before(pb, x, y) => Before(pc, x, y)
    BY <1>1 DEF Before
<1>3. \A x \in 1..Len(pb) : Before(pc, x, Len(pb) + 1)
    BY <1>1 DEF Before
<1>4. N \cup Carried(L) \cup InChannel(H) \cup X \subseteq 1..Len(pb)
    BY DEF Flows
<1>5. Sorted(pc, L)
  <2>1. \A i \in CarryingLines(L) : L[i].event \in 1..Len(pb)
      BY <1>4 DEF Carried
  <2> QED BY <1>2, <2>1 DEF Flows, Sorted
<1>6. InOrder(pc, H)
  <2>1. \A i \in DOMAIN H : H[i] \in 1..Len(pb)
      BY <1>4 DEF InChannel
  <2> QED BY <1>2, <2>1 DEF Flows, InOrder
<1>7. AllBefore(pc, N, Carried(L)) /\ AllBefore(pc, N \cup Carried(L), InChannel(H))
    BY <1>2, <1>4 DEF Flows, AllBefore
<1>8. AllBefore(pc, N \cup Carried(L) \cup InChannel(H), Y)
    BY <1>2, <1>3, <1>4 DEF Flows, AllBefore
<1>9. N \cup Carried(L) \cup InChannel(H) \cup Y \subseteq 1..Len(pc)
    BY <1>1, <1>4
<1> QED BY <1>5, <1>6, <1>7, <1>8, <1>9 DEF Flows, pc

\* Less is on its way.
Less(G, H) == G = H \/ G = <<>> \/ (H # <<>> /\ G = Tail(H))

LEMMA FlowsShrink ==
    ASSUME NEW pb, NEW N, NEW L, NEW H \in Seq(Events), NEW X, NEW Y, NEW G,
           Flows(pb, N, L, H, X), Y \subseteq X, Less(G, H)
    PROVE  Flows(pb, N, L, G, Y)
<1>1. InChannel(G) \subseteq InChannel(H) /\ InOrder(pb, G)
  <2>1. CASE G = H
      BY <2>1 DEF Flows
  <2>2. CASE G = <<>>
      BY <2>2 DEF InChannel, InOrder
  <2>3. CASE H # <<>> /\ G = Tail(H)
    <3>1. \A i \in DOMAIN G : i \in Int /\ i + 1 \in DOMAIN H /\ G[i] = H[i + 1]
        BY <2>3, HeadTailProperties
    <3>2. \A i, j \in DOMAIN G : i < j => i + 1 < j + 1
        BY <3>1
    <3> QED BY <3>1, <3>2 DEF Flows, InChannel, InOrder
  <2> QED BY <2>1, <2>2, <2>3 DEF Less
<1> QED BY <1>1 DEF Flows, AllBefore

\* An event comes from its publisher's call into the channel.
LEMMA FlowsOffer ==
    ASSUME NEW pb, NEW N, NEW L, NEW H \in Seq(Events), NEW X, NEW x \in X, NEW Y,
           x \in Events,
           Flows(pb, N, L, H, X), Y \subseteq X, \A y \in Y : pb[y] # pb[x]
    PROVE  Flows(pb, N, L, Append(H, x), Y)
<1> DEFINE G == Append(H, x)
<1>1. /\ DOMAIN G = 1..(Len(H) + 1) /\ DOMAIN H = 1..Len(H) /\ Len(H) \in Nat
      /\ \A i \in 1..Len(H) : G[i] = H[i]
      /\ G[Len(H) + 1] = x
  <2>1. /\ G \in Seq(Events) /\ Len(G) = Len(H) + 1
        /\ \A i \in 1..Len(H) : G[i] = H[i]
        /\ G[Len(H) + 1] = x
      BY AppendProperties
  <2> HIDE DEF G
  <2>2. DOMAIN G = 1..Len(G) /\ DOMAIN H = 1..Len(H) /\ Len(H) \in Nat
      BY <2>1
  <2> QED BY <2>1, <2>2
<1> HIDE DEF G
<1>2. InChannel(G) = InChannel(H) \cup {x}
  <2>1. \A i \in DOMAIN G : G[i] = x \/ (i \in DOMAIN H /\ G[i] = H[i])
      BY <1>1
  <2>2. Len(H) + 1 \in DOMAIN G /\ \A i \in DOMAIN H : i \in DOMAIN G /\ G[i] = H[i]
      BY <1>1
  <2> QED BY <1>1, <2>1, <2>2 DEF InChannel
<1>3. InOrder(pb, G)
  <2>1. \A i \in DOMAIN H : H[i] \in InChannel(H)
      BY DEF InChannel
  <2>2. \A i \in DOMAIN H : Before(pb, H[i], x)
      BY <2>1 DEF Flows, AllBefore
  <2> QED BY <1>1, <2>2 DEF Flows, InOrder
<1>4. \A y \in Y : Before(pb, x, y)
    BY DEF Before
<1> QED BY <1>2, <1>3, <1>4 DEF Flows, AllBefore, G

\* The client has read a line; the event whose data end there is the app's.
LEMMA FlowsRead ==
    ASSUME NEW pb, NEW N, NEW L \in Seq(Written), NEW F \in Seq(Written), NEW H, NEW X,
           Len(L) = Len(F) + 1, \A i \in 1..Len(F) : F[i] = L[i + 1], F # <<>>,
           Flows(pb, N, L, H, X)
    PROVE  /\ Flows(pb, N, F, H, X)
           /\ L[1].kind = "data" => /\ Flows(pb, N \cup {L[1].event}, F, H, X)
                                    /\ \A x \in N : Before(pb, x, L[1].event)
                                    /\ L[1].event \in 1..Len(pb)
<1>1. /\ DOMAIN L = 1..(Len(F) + 1) /\ DOMAIN F = 1..Len(F) /\ Len(F) \in Nat \ {0}
      /\ \A i \in DOMAIN F : i + 1 \in DOMAIN L /\ F[i] = L[i + 1]
    BY EmptySeq
<1>2. Carried(F) \subseteq Carried(L)
    BY <1>1 DEF Carried, CarryingLines
<1>3. Framed(F)
  <2> SUFFICES ASSUME NEW i \in DOMAIN F, NEW j \in DOMAIN F, j = i + 1
               PROVE  Follows(F[i], F[j])
      BY DEF Framed
  <2>1. i + 1 \in DOMAIN L /\ j + 1 \in DOMAIN L /\ j + 1 = (i + 1) + 1
      BY <1>1
  <2> QED BY <1>1, <2>1 DEF Framed, Flows
<1>4. Sorted(pb, F)
  <2> SUFFICES ASSUME NEW i \in CarryingLines(F), NEW j \in CarryingLines(F), i < j
               PROVE  \/ F[i].kind = "event" /\ j = i + 1
                      \/ Before(pb, F[i].event, F[j].event)
      BY DEF Sorted
  <2>1. /\ i + 1 \in CarryingLines(L) /\ j + 1 \in CarryingLines(L) /\ i + 1 < j + 1
        /\ i \in Nat /\ j \in Nat
        /\ F[i] = L[i + 1] /\ F[j] = L[j + 1]
      BY <1>1 DEF CarryingLines
  <2>2. \/ L[i + 1].kind = "event" /\ j + 1 = (i + 1) + 1
        \/ Before(pb, L[i + 1].event, L[j + 1].event)
      BY <2>1 DEF Flows, Sorted
  <2> QED BY <2>1, <2>2
<1>5. Flows(pb, N, F, H, X)
    BY <1>2, <1>3, <1>4 DEF Flows, AllBefore
<1>6. CASE L[1].kind = "data"
  <2>1. 1 \in CarryingLines(L) /\ L[1].event \in Carried(L)
      BY <1>1, <1>6 DEF CarryingLines, Carried
  <2>2. \A y \in Carried(F) : Before(pb, L[1].event, y)
    <3> TAKE y \in Carried(F)
    <3>1. PICK j \in CarryingLines(F) : y = F[j].event
        BY DEF Carried
    <3>2. j + 1 \in CarryingLines(L) /\ 1 < j + 1 /\ F[j] = L[j + 1]
        BY <1>1 DEF CarryingLines
    <3> QED BY <1>6, <2>1, <3>1, <3>2 DEF Flows, Sorted
  <2> QED BY <1>2, <1>5, <2>1, <2>2 DEF Flows, AllBefore
<1> QED BY <1>5, <1>6

\* The handler writes a blank line, after a whole frame.
LEMMA FlowsPing ==
    ASSUME NEW pb, NEW N, NEW L \in Seq(Written), NEW H, NEW X,
           Flows(pb, N, L, H, X), L # <<>>, L[Len(L)] = End
    PROVE  /\ Flows(pb, N, L \o <<End>>, H, X)
           /\ Len(L \o <<End>>) = Len(L) + 1 /\ (L \o <<End>>)[Len(L) + 1] = End
<1> DEFINE G == L \o <<End>>
<1>1. /\ DOMAIN G = 1..(Len(L) + 1) /\ DOMAIN L = 1..Len(L) /\ Len(L) \in Nat \ {0}
      /\ Len(G) = Len(L) + 1
      /\ \A i \in 1..Len(L) : G[i] = L[i]
      /\ G[Len(L) + 1] = End
    BY ConcatProperties, EmptySeq, WrittenLines
<1> HIDE DEF G
<1>2. End.kind = "end" /\ Follows(End, End)
    BY DEF End, Line, Follows
<1>3. CarryingLines(G) = CarryingLines(L)
    BY <1>1, <1>2 DEF CarryingLines
<1>4. CarryingLines(L) \subseteq 1..Len(L)
    BY <1>1 DEF CarryingLines
<1>5. Carried(G) = Carried(L)
    BY <1>1, <1>3, <1>4 DEF Carried
<1>6. Sorted(pb, G)
    BY <1>1, <1>3, <1>4 DEF Sorted, Flows
<1>7. Framed(G)
    BY <1>1, <1>2 DEF Framed, Flows
<1> QED BY <1>1, <1>5, <1>6, <1>7 DEF Flows, G

\* ... or the frame of the first event in its channel.
LEMMA FlowsTake ==
    ASSUME NEW pb, NEW N, NEW L \in Seq(Written), NEW H \in Seq(Events), NEW X,
           Flows(pb, N, L, H, X), L # <<>>, L[Len(L)] = End, H # <<>>
    PROVE  /\ Flows(pb, N, L \o Frame(Head(H)), Tail(H), X)
           /\ Len(L \o Frame(Head(H))) = Len(L) + 3
           /\ (L \o Frame(Head(H)))[Len(L) + 3] = End
<1> DEFINE e == Head(H)
           G == L \o Frame(e)
           T == Tail(H)
           n == Len(L)
<1>1. /\ e \in Events /\ e = H[1] /\ T \in Seq(Events) /\ Len(H) = Len(T) + 1
      /\ DOMAIN H = 1..Len(H) /\ DOMAIN T = 1..Len(T) /\ Len(T) \in Nat
      /\ \A i \in DOMAIN T : T[i] = H[i + 1]
    BY HeadTailProperties, EmptySeq
<1>2. /\ Frame(e) \in Seq(Written) /\ Len(Frame(e)) = 3
      /\ Frame(e)[1] = Line("event", e) /\ Frame(e)[2] = Line("data", e)
      /\ Frame(e)[3] = End
    BY <1>1, WrittenLines DEF Frame
<1>3. /\ DOMAIN G = 1..(n + 3) /\ DOMAIN L = 1..n /\ n \in Nat \ {0} /\ Len(G) = n + 3
      /\ \A i \in 1..n : G[i] = L[i]
      /\ G[n + 1] = Line("event", e) /\ G[n + 2] = Line("data", e) /\ G[n + 3] = End
  <2> DEFINE M == Frame(e)
  <2>5. M \in Seq(Written) /\ Len(M) = 3
      BY <1>2
  <2> HIDE DEF M
  <2>6. /\ L \o M \in Seq(Written) /\ Len(L \o M) = Len(L) + Len(M)
        /\ \A i \in 1..(Len(L) + Len(M)) :
              (L \o M)[i] = IF i <= Len(L) THEN L[i] ELSE M[i - Len(L)]
      BY <2>5, ConcatProperties
  <2>1. /\ G \in Seq(Written) /\ Len(G) = n + 3
        /\ \A i \in 1..(n + 3) : G[i] = IF i <= n THEN L[i] ELSE Frame(e)[i - n]
      BY <2>5, <2>6 DEF M
  <2>0. n \in Nat \ {0}
      BY EmptySeq
  <2> HIDE DEF G
  <2>2. n \in Nat \ {0} /\ DOMAIN L = 1..n /\ DOMAIN G = 1..Len(G)
      BY <2>0, <2>1
  <2> HIDE DEF n
  <2>3. /\ \A i \in 1..n : G[i] = L[i]
        /\ G[n + 1] = Frame(e)[1] /\ G[n + 2] = Frame(e)[2] /\ G[n + 3] = Frame(e)[3]
      BY <2>1, <2>2
  <2> QED BY <1>2, <2>1, <2>2, <2>3
<1> HIDE DEF e, G, T, n
<1>4. /\ Line("event", e).kind = "event" /\ Line("data", e).kind = "data"
      /\ Line("event", e).event = e /\ Line("data", e).event = e /\ End.kind = "end"
    BY DEF Line, End
<1>5. CarryingLines(G) = CarryingLines(L) \cup {n + 1, n + 2}
    BY <1>3, <1>4 DEF CarryingLines
<1>6. CarryingLines(L) \subseteq 1..n
    BY <1>3 DEF CarryingLines
<1>7. Carried(G) = Carried(L) \cup {e}
  <2>1. \A i \in CarryingLines(L) : G[i] = L[i]
      BY <1>3, <1>6
  <2> QED BY <1>3, <1>4, <1>5, <2>1 DEF Carried
<1>8. e \in InChannel(H) /\ InChannel(T) \subseteq InChannel(H)
    BY <1>1 DEF InChannel
<1>9. Sorted(pb, G)
  <2>1. \A i \in CarryingLines(L) : L[i].event \in Carried(L)
      BY DEF Carried
  <2>2. \A i \in CarryingLines(L) : Before(pb, L[i].event, e)
      BY <1>8, <2>1 DEF Flows, AllBefore
  <2>3. Sorted(pb, L)
      BY DEF Flows
  <2> SUFFICES ASSUME NEW i \in CarryingLines(G), NEW j \in CarryingLines(G), i < j
               PROVE  \/ G[i].kind = "event" /\ j = i + 1
                      \/ Before(pb, G[i].event, G[j].event)
      BY DEF Sorted
  <2>4. CASE i \in CarryingLines(L) /\ j \in CarryingLines(L)
      BY <1>3, <1>6, <2>3, <2>4 DEF Sorted
  <2>5. CASE i \in CarryingLines(L) /\ j \in {n + 1, n + 2}
      BY <1>3, <1>4, <1>6, <2>2, <2>5
  <2>6. CASE i \in {n + 1, n + 2}
      BY <1>3, <1>4, <1>5, <1>6, <2>6
  <2> QED BY <1>5, <2>4, <2>5, <2>6
<1>10. Framed(G)
  <2>1. Follows(End, Line("event", e)) /\ Follows(Line("event", e), Line("data", e))
        /\ Follows(Line("data", e), End)
      BY <1>4 DEF Follows
  <2>2. Framed(L) /\ L[n] = End
      BY DEF Flows, n
  <2> SUFFICES ASSUME NEW i \in DOMAIN G, NEW j \in DOMAIN G, j = i + 1
               PROVE  Follows(G[i], G[j])
      BY DEF Framed
  <2>3. CASE j <= n
      BY <1>3, <2>2, <2>3 DEF Framed
  <2>4. CASE j \in {n + 1, n + 2, n + 3}
      BY <1>3, <2>1, <2>2, <2>4
  <2> QED BY <1>3, <2>3, <2>4
<1>11. InOrder(pb, T) /\ \A y \in InChannel(T) : Before(pb, e, y)
  <2>1. InOrder(pb, H)
      BY DEF Flows
  <2>2. \A i \in DOMAIN T : i + 1 \in DOMAIN H /\ 1 \in DOMAIN H /\ 1 < i + 1
      BY <1>1
  <2>3. \A i \in DOMAIN T : Before(pb, e, T[i])
      BY <1>1, <2>1, <2>2 DEF InOrder
  <2>4. \A i, j \in DOMAIN T : i < j => i + 1 < j + 1
      BY <1>1
  <2> QED BY <1>1, <2>1, <2>2, <2>3, <2>4 DEF InOrder, InChannel
<1>12. /\ AllBefore(pb, N, Carried(G))
       /\ AllBefore(pb, N \cup Carried(G), InChannel(T))
       /\ AllBefore(pb, N \cup Carried(G) \cup InChannel(T), X)
    BY <1>7, <1>8, <1>11 DEF Flows, AllBefore
<1>13. N \cup Carried(G) \cup InChannel(T) \cup X \subseteq 1..Len(pb)
    BY <1>7, <1>8 DEF Flows
<1>14. Flows(pb, N, G, T, X)
    BY <1>9, <1>10, <1>11, <1>12, <1>13 DEF Flows
<1> QED BY <1>3, <1>14 DEF e, G, T, n

\* What was written before the daemon died.
LEMMA FlowsCut ==
    ASSUME NEW pb, NEW N, NEW L \in Seq(Written), NEW K \in Seq(Written), NEW H, NEW X,
           Flows(pb, N, L \o K, H, X)
    PROVE  Flows(pb, N, L, <<>>, {})
<1> DEFINE G == L \o K
<1>1. /\ DOMAIN G = 1..(Len(L) + Len(K)) /\ DOMAIN L = 1..Len(L)
      /\ Len(L) \in Nat /\ Len(K) \in Nat
      /\ \A i \in 1..Len(L) : G[i] = L[i]
    BY ConcatProperties
<1> HIDE DEF G
<1>2. CarryingLines(L) \subseteq CarryingLines(G) /\ DOMAIN L \subseteq DOMAIN G
      /\ \A i \in CarryingLines(L) : G[i] = L[i]
    BY <1>1 DEF CarryingLines
<1>3. Carried(L) \subseteq Carried(G)
    BY <1>2 DEF Carried
<1>4. Sorted(pb, L) /\ Framed(L)
    BY <1>1, <1>2 DEF Flows, Sorted, Framed, G
<1>5. InChannel(<<>>) = {} /\ InOrder(pb, <<>>)
    BY DEF InChannel, InOrder
<1> QED BY <1>3, <1>4, <1>5 DEF Flows, AllBefore, G

\* A new connection, after everything the app has been given.
LEMMA FlowsStart ==
    ASSUME NEW pb, NEW N, N \subseteq 1..Len(pb)
    PROVE  Flows(pb, N, <<End>>, <<>>, {})
<1>1. InChannel(<<>>) = {} /\ InOrder(pb, <<>>) /\ CarryingLines(<<End>>) = {}
    BY DEF InChannel, InOrder, CarryingLines, End, Line
<1>2. Carried(<<End>>) = {} /\ Framed(<<End>>) /\ Sorted(pb, <<End>>)
    BY <1>1 DEF Carried, Framed, Sorted
<1> QED BY <1>1, <1>2 DEF Flows, AllBefore

-----------------------------------------------------------------------------
(* The stream of the client's connection: the last line the client has     *)
(* read, what is on the wire, what its handler has left to write.          *)

Last == IF client.name = None THEN End
        ELSE Line(IF client.data = <<>> THEN "event" ELSE "data", client.name)
ToWrite == IF client.conn \in alive THEN server[client.conn].lines ELSE <<>>
Flow == wire[client.conn] \o ToWrite
Stream == <<Last>> \o Flow

Names == {Delivered[i].name : i \in DOMAIN Delivered}
Coming == {pub[p].event : p \in {q \in Publishers : client.conn \in pub[q].left}}

\* The client has at most the data line of the event it has read.
InHand == client.data \in IF client.name = None THEN {<<>>} ELSE {<<>>, <<client.name>>}

\* A call publishes the event of its number.
CallsInv ==
    \A p \in Publishers :
        pub[p].event # None =>
            pub[p].event \in 1..Len(published) /\ published[pub[p].event] = p

DeliveredInv == EventsArriveWhole /\ Names \subseteq 1..Len(published)

FlowInv ==
    client.at = "reads" =>
        /\ Flows(published, Names, Stream, hub[client.conn], Coming)
        /\ client.conn \in alive => Stream[Len(Stream)] = End

ArriveInv ==
    /\ Typed /\ HubInv /\ OneStream /\ InHand
    /\ CallsInv /\ DeliveredInv /\ FlowInv

-----------------------------------------------------------------------------

\* What a handler does.
HandlerTold(c, lines) ==
    /\ HandlerBecomes(c, "writes", lines) /\ server[c].lines = <<>> /\ UNCHANGED wire
    /\ \/ lines = <<End>> /\ UNCHANGED hub
       \/ /\ hub[c] # <<>> /\ lines = Frame(Head(hub[c]))
          /\ hub' = [hub EXCEPT ![c] = Tail(hub[c])]

HandlerRests(c) ==
    /\ \/ c \notin alive /\ HandlerBecomes(c, "returns", <<>>)
       \/ server[c].lines = <<>> /\ HandlerBecomes(c, "selects", <<>>)
    /\ UNCHANGED <<hub, wire>>

HandlerWritesLine(c) ==
    /\ server[c].lines # <<>> /\ HandlerBecomes(c, "writes", Tail(server[c].lines))
    /\ IF c \in alive
       THEN /\ Len(wire[c]) < WireCapacity
            /\ wire' = [wire EXCEPT ![c] = Append(wire[c], Head(server[c].lines))]
       ELSE UNCHANGED wire
    /\ UNCHANGED hub

LEMMA HandlerDoes ==
    ASSUME OneStream, NEW c \in Connections, HandlerStep(c)
    PROVE  /\ server[c].at \notin {"none", "starts"}
           /\ \/ \E lines : HandlerTold(c, lines)
              \/ HandlerRests(c) \/ HandlerWritesLine(c)
<1>1. server[c].at # "writes" => server[c].lines = <<>>
    BY DEF OneStream
<1>2. CASE HandlerGreets(c)
  <2>1. server[c].at = "greets" /\ UNCHANGED <<hub, wire>>
        /\ \/ HandlerBecomes(c, "writes", <<End>>)
           \/ c \notin alive /\ HandlerBecomes(c, "returns", <<>>)
      BY <1>2, Zenon DEF HandlerGreets
  <2> QED BY <1>1, <2>1 DEF HandlerTold, HandlerRests
<1>3. CASE HandlerPings(c)
  <2>1. server[c].at = "selects" /\ UNCHANGED <<hub, wire>>
        /\ HandlerBecomes(c, "writes", <<End>>)
      BY <1>3, Zenon DEF HandlerPings
  <2> QED BY <1>1, <2>1 DEF HandlerTold
<1>4. CASE HandlerDone(c)
  <2>1. server[c].at = "selects" /\ UNCHANGED <<hub, wire>>
        /\ c \notin alive /\ HandlerBecomes(c, "returns", <<>>)
      BY <1>4, Zenon DEF HandlerDone
  <2> QED BY <2>1 DEF HandlerRests
<1>5. CASE HandlerTakes(c)
  <2>1. /\ server[c].at = "selects" /\ hub[c] # <<>>
        /\ HandlerBecomes(c, "writes", Frame(Head(hub[c])))
        /\ hub' = [hub EXCEPT ![c] = Tail(hub[c])] /\ UNCHANGED wire
      BY <1>5, Zenon DEF HandlerTakes
  <2> QED BY <1>1, <2>1 DEF HandlerTold
<1>6. CASE HandlerWrites(c)
  <2>1. CASE server[c].lines = <<>>
      BY <1>6, <2>1 DEF HandlerWrites, HandlerRests
  <2>2. CASE server[c].lines # <<>>
      BY <1>6, <2>2 DEF HandlerWrites, HandlerWritesLine
  <2> QED BY <1>6, <2>1, <2>2 DEF HandlerWrites
<1> QED BY <1>2, <1>3, <1>4, <1>5, <1>6 DEF HandlerStep

\* One handler moves, on its own connection.
LEMMA OneHandlerMoves ==
    ASSUME Typed, OneStream,
           NEW c \in Connections, NEW at \in Places, NEW lines \in Seq(Written),
           server' = [server EXCEPT ![c] = Handler(at, lines)],
           at # "none", at # "writes" => lines = <<>>,
           \A d \in Connections \ {c} : hub'[d] = hub[d] /\ wire'[d] = wire[d],
           wire'[c] = wire[c] \/ c \in alive,
           subs' \subseteq subs \cup {c},
           UNCHANGED <<client, alive>>
    PROVE  OneStream'
<1>1. \A d \in Connections :
          server'[d] = IF d = c THEN Handler(at, lines) ELSE server[d]
    BY HandlerTyped
<1>2. Handler(at, lines).at = at /\ Handler(at, lines).lines = lines
    BY DEF Handler
<1>3. c \in alive => client.at = "reads" /\ client.conn = c
    BY DEF OneStream
<1> QED BY <1>1, <1>2, <1>3 DEF OneStream

\* Nobody but the client opens or closes its connection.
LEMMA PublisherOneStream ==
    ASSUME Typed, HubInv, OneStream, NEW p \in Publishers, PublishStart(p) \/ PublishStep(p)
    PROVE  OneStream'
<1>1. CASE PublishStart(p) \/ PublishEnd(p)
  <2>1. UNCHANGED <<client, alive, wire, server, subs, hub>>
      BY <1>1 DEF PublishStart, PublishEnd, clientVars
  <2> QED BY <2>1 DEF OneStream
<1>2. CASE PublishSend(p)
  <2>1. PICK c \in pub[p].left :
              /\ c \in Connections
              /\ hub' = [hub EXCEPT ![c] = Offered(hub[c], pub[p].event)]
              /\ UNCHANGED <<subs, server, alive, wire, clientVars>>
      BY <1>2, SendIs
  <2>2. c \in subs
      BY <2>1 DEF HubInv, NoSendOnClosed
  <2>3. \A d \in Connections \ {c} : hub'[d] = hub[d]
      BY <2>1 DEF Typed, TypeOK
  <2> QED BY <2>1, <2>2, <2>3 DEF OneStream, clientVars
<1> QED BY <1>1, <1>2 DEF PublishStep

LEMMA SubscriberOneStream ==
    ASSUME Typed, OneStream, NEW c \in Connections, Subscribe(c) \/ Unsubscribe(c)
    PROVE  OneStream'
<1>1. PICK at \in Places \ {"none", "writes"} : server' = [server EXCEPT ![c].at = at]
  <2>1. {"greets", "gone"} \subseteq Places \ {"none", "writes"}
      BY DEF Places
  <2> QED BY <2>1 DEF Subscribe, Unsubscribe
<1>2. /\ server[c].lines \in Seq(Written)
      /\ server' = [server EXCEPT ![c] = Handler(at, server[c].lines)]
    BY <1>1, PlaceBecomes
<1>3. server[c].lines = <<>>
  <2>1. server[c].at # "writes"
      BY DEF Subscribe, Unsubscribe
  <2> QED BY <2>1 DEF OneStream
<1>4. \A d \in Connections \ {c} : hub'[d] = hub[d]
    BY DEF Subscribe, Unsubscribe, Typed, TypeOK
<1>5. subs' \subseteq subs \cup {c} /\ UNCHANGED <<client, alive, wire>>
    BY DEF Subscribe, Unsubscribe, clientVars
<1> QED BY <1>1, <1>2, <1>3, <1>4, <1>5, OneHandlerMoves

LEMMA HandlerOneStream ==
    ASSUME Typed, OneStream, NEW c \in Connections, HandlerStep(c)
    PROVE  OneStream'
<1>0. /\ server[c].lines \in Seq(Written) /\ hub \in [Connections -> Seq(Events)]
      /\ wire \in [Connections -> Seq(Lines)]
      /\ {"writes", "returns", "selects"} \subseteq Places
    BY DEF Typed, TypeOK, WiresTyped, Places
<1>1. CASE \E lines : HandlerTold(c, lines)
  <2>1. PICK lines : HandlerTold(c, lines)
      BY <1>1
  <2>2. hub[c] # <<>> => Head(hub[c]) \in Events
      BY <1>0, HeadTailProperties
  <2>3. lines \in Seq(Written)
      BY <2>1, <2>2, WrittenLines DEF HandlerTold
  <2>4. /\ \A d \in Connections \ {c} : hub'[d] = hub[d]
        /\ server' = [server EXCEPT ![c] = Handler("writes", lines)]
        /\ UNCHANGED <<wire, client, alive, subs>>
      BY <1>0, <2>1 DEF HandlerTold, HandlerBecomes, clientVars
  <2> QED BY <1>0, <2>3, <2>4, OneHandlerMoves
<1>2. CASE HandlerRests(c)
  <2>1. PICK at \in {"returns", "selects"} :
            HandlerBecomes(c, at, <<>>) /\ UNCHANGED <<hub, wire>>
      BY <1>2 DEF HandlerRests
  <2>2. /\ server' = [server EXCEPT ![c] = Handler(at, <<>>)]
        /\ UNCHANGED <<wire, hub, client, alive, subs>>
      BY <2>1 DEF HandlerBecomes, clientVars
  <2> QED BY <1>0, <2>1, <2>2, WrittenLines, OneHandlerMoves
<1>3. CASE HandlerWritesLine(c)
  <2> DEFINE rest == Tail(server[c].lines)
  <2>1. rest \in Seq(Written)
      BY <1>0, <1>3, HeadTailProperties DEF HandlerWritesLine
  <2>2. /\ \A d \in Connections \ {c} : wire'[d] = wire[d]
        /\ wire'[c] = wire[c] \/ c \in alive
        /\ server' = [server EXCEPT ![c] = Handler("writes", rest)]
        /\ UNCHANGED <<hub, client, alive, subs>>
      BY <1>0, <1>3 DEF HandlerWritesLine, HandlerBecomes, clientVars
  <2> HIDE DEF rest
  <2>3. "writes" \in Places
      BY <1>0
  <2> QED BY <2>1, <2>2, <2>3, OneHandlerMoves
<1> QED BY <1>1, <1>2, <1>3, HandlerDoes

LEMMA ClientOneStream ==
    ASSUME Typed, OneStream, ClientConnects \/ ClientLeaves \/ ClientReads
    PROVE  OneStream'
<1>0. /\ client \in ClientStates /\ wire \in [Connections -> Seq(Lines)]
      /\ server \in [Connections -> HandlerStates]
    BY DEF Typed, TypeOK, ClientStates, HandlerStates
<1>1. CASE ClientConnects
  <2>1. PICK c \in Connections :
            /\ server[c].at = "none"
            /\ server' = [server EXCEPT ![c].at = "starts"]
            /\ alive' = alive \cup {c}
            /\ client' = Reading(c, None, <<>>)
      BY <1>1 DEF ClientConnects
  <2>2. client.at = "connects" /\ UNCHANGED <<hub, subs, wire>>
      BY <1>1 DEF ClientConnects, hubVars
  <2>3. alive' = {c} /\ \A d \in Connections : wire'[d] = <<>>
      BY <2>1, <2>2 DEF OneStream
  <2>4. client'.at = "reads" /\ client'.conn = c
      BY <2>1 DEF Reading
  <2>5. \A d \in Connections \ {c} : server'[d] = server[d]
      BY <1>0, <2>1
  <2>6. server'[c].at = "starts" /\ server'[c].lines = server[c].lines
    <3>1. "starts" \in Places
        BY DEF Places
    <3>2. /\ server[c].lines \in Seq(Written)
          /\ server' = [server EXCEPT ![c] = Handler("starts", server[c].lines)]
        BY <2>1, <3>1, PlaceBecomes
    <3> QED BY <1>0, <3>2 DEF Handler
  <2>7. server[c].lines = <<>>
      BY <2>1 DEF OneStream
  <2> QED BY <2>2, <2>3, <2>4, <2>5, <2>6, <2>7 DEF OneStream
<1>2. CASE ClientLeaves
  <2>1. PICK at \in {"connects", "retries", "sleeps", "done"} : ClientGoes(at)
      BY <1>2, Leaves
  <2>2. client'.at # "reads" /\ UNCHANGED <<hub, subs, server>>
      BY <2>1 DEF ClientGoes, ClientAt, hubVars
  <2>3. alive' = {}
      BY <2>1 DEF ClientGoes, OneStream
  <2>4. \A d \in Connections : wire'[d] = <<>>
      BY <1>0, <2>1 DEF ClientGoes, OneStream, None, Connections
  <2> QED BY <2>2, <2>3, <2>4 DEF OneStream
<1>3. CASE ClientReads
  <2>1. /\ client.at = "reads" /\ client.conn \in Connections
        /\ wire' = [wire EXCEPT ![client.conn] = Tail(wire[client.conn])]
        /\ UNCHANGED <<hubVars, server, alive>>
        /\ TakesName \/ TakesData \/ (NextLine = End /\ FlushFrame)
      BY <1>3, LineRead
  <2>2. client'.at = "reads" /\ client'.conn = client.conn
    <3>1. CASE TakesName \/ TakesData
        BY <1>0, <2>1, <3>1 DEF TakesName, TakesData, ClientStates
    <3>2. CASE FlushFrame
        BY <3>2 DEF FlushFrame, Reading
    <3> QED BY <2>1, <3>1, <3>2
  <2>3. \A d \in Connections \ {client.conn} : wire'[d] = wire[d]
      BY <1>0, <2>1
  <2> QED BY <2>1, <2>2, <2>3 DEF OneStream, hubVars
<1> QED BY <1>1, <1>2, <1>3

LEMMA LifeOneStream ==
    ASSUME Typed, OneStream,
           Receive \/ Cancel \/ DaemonDies \/ DaemonStarts \/ UNCHANGED vars
    PROVE  OneStream'
<1>1. CASE Receive \/ Cancel \/ DaemonStarts \/ UNCHANGED vars
  <2>1. UNCHANGED <<client, alive, wire, server, subs, hub>>
      BY <1>1, Zenon DEF Receive, Cancel, DaemonStarts, vars, clientVars, hubVars
  <2> QED BY <2>1 DEF OneStream
<1>2. CASE DaemonDies
  <2>1. /\ subs' = {} /\ alive' = {} /\ UNCHANGED <<wire, client>>
        /\ \A c \in Connections : hub'[c] = <<>>
        /\ \A c \in Connections :
              server'[c] = IF server[c].at = "none" THEN server[c]
                           ELSE Handler("gone", <<>>)
      BY <1>2 DEF DaemonDies, clientVars
  <2>2. Handler("gone", <<>>).at = "gone" /\ Handler("gone", <<>>).lines = <<>>
      BY DEF Handler
  <2> QED BY <2>1, <2>2 DEF OneStream
<1> QED BY <1>1, <1>2

LEMMA StreamIs ==
    ASSUME Typed, OneStream, InHand, client.at = "reads"
    PROVE  /\ client.conn \in Connections
           /\ Last \in Written /\ wire[client.conn] \in Seq(Written)
           /\ ToWrite \in Seq(Written) /\ Flow \in Seq(Written)
           /\ Stream \in Seq(Written) /\ Stream # <<>>
           /\ Len(Stream) = Len(Flow) + 1 /\ Stream[1] = Last
           /\ \A i \in 1..Len(Flow) : Flow[i] = Stream[i + 1]
<1>1. client.conn \in Connections /\ client \in ClientStates
    BY DEF OneStream, Typed, TypeOK, ClientStates
<1>2. Last \in Written
  <2>1. client.name = None \/ client.name \in Events
      BY <1>1 DEF ClientStates
  <2> QED BY <2>1 DEF Last, Written, Line
<1>3. wire[client.conn] \in Seq(Written) /\ ToWrite \in Seq(Written)
    BY <1>1, WrittenLines DEF Typed, WiresTyped, ToWrite
<1> HIDE DEF Last, Written, ToWrite
<1>4. Flow \in Seq(Written)
    BY <1>3, ConcatProperties DEF Flow
<1> HIDE DEF Flow
<1>5. <<Last>> \in Seq(Written) /\ Len(<<Last>>) = 1 /\ <<Last>>[1] = Last
    BY <1>2
<1>6. /\ Stream \in Seq(Written) /\ Len(Stream) = 1 + Len(Flow)
      /\ \A i \in 1..(1 + Len(Flow)) :
            Stream[i] = IF i <= 1 THEN <<Last>>[i] ELSE Flow[i - 1]
    BY <1>4, <1>5, ConcatProperties DEF Stream
<1>7. Len(Flow) \in Nat
    BY <1>4
<1> HIDE DEF Stream
<1>8. Len(Stream) # 0 /\ Stream[1] = Last
    BY <1>5, <1>6, <1>7
<1>9. \A i \in 1..Len(Flow) : Flow[i] = Stream[i + 1]
    BY <1>6, <1>7
<1>10. Stream # <<>>
    BY <1>8
<1> QED BY <1>1, <1>2, <1>3, <1>4, <1>6, <1>7, <1>8, <1>9, <1>10

LEMMA LinesAssociative ==
    \A s, t, u \in Seq(Written) : s \o (t \o u) = (s \o t) \o u
<1> HIDE DEF Written
<1> QED BY ConcatAssociative

LEMMA PassOn ==
    ASSUME NEW S, NEW s \in Seq(S), NEW t \in Seq(S), t # <<>>
    PROVE  Append(s, Head(t)) \o Tail(t) = s \o t
<1>1. /\ Head(t) \in S /\ Tail(t) \in Seq(S) /\ Head(t) = t[1]
      /\ Len(Tail(t)) = Len(t) - 1 /\ \A i \in 1..Len(Tail(t)) : Tail(t)[i] = t[i + 1]
      /\ Len(t) \in Nat \ {0} /\ Len(s) \in Nat
    BY HeadTailProperties, EmptySeq
<1> DEFINE a == Append(s, Head(t))
           r == Tail(t)
<1>2. /\ a \in Seq(S) /\ Len(a) = Len(s) + 1
      /\ \A i \in 1..Len(s) : a[i] = s[i]
      /\ a[Len(s) + 1] = t[1]
    BY <1>1, AppendProperties
<1> HIDE DEF a, r
<1>3. r \in Seq(S) /\ Len(r) = Len(t) - 1 /\ \A i \in 1..Len(r) : r[i] = t[i + 1]
    BY <1>1 DEF r
<1>4. /\ a \o r \in Seq(S) /\ Len(a \o r) = Len(a) + Len(r)
      /\ \A i \in 1..(Len(a) + Len(r)) :
            (a \o r)[i] = IF i <= Len(a) THEN a[i] ELSE r[i - Len(a)]
    BY <1>2, <1>3, ConcatProperties
<1>5. /\ s \o t \in Seq(S) /\ Len(s \o t) = Len(s) + Len(t)
      /\ \A i \in 1..(Len(s) + Len(t)) :
            (s \o t)[i] = IF i <= Len(s) THEN s[i] ELSE t[i - Len(s)]
    BY ConcatProperties
<1>6. \A i \in 1..Len(s \o t) : (s \o t)[i] = (a \o r)[i]
  <2> SUFFICES ASSUME NEW i \in 1..(Len(s) + Len(t))
               PROVE  (s \o t)[i] = (a \o r)[i]
      BY <1>5
  <2>1. i \in 1..(Len(a) + Len(r)) /\ i \in Int
      BY <1>1, <1>2, <1>3
  <2>2. CASE i <= Len(s)
      BY <1>1, <1>2, <1>4, <1>5, <2>1, <2>2
  <2>3. CASE i = Len(s) + 1
      BY <1>1, <1>2, <1>4, <1>5, <2>1, <2>3
  <2>4. CASE i > Len(s) + 1
      BY <1>1, <1>2, <1>3, <1>4, <1>5, <2>1, <2>4
  <2> QED BY <1>1, <2>1, <2>2, <2>3, <2>4
<1>7. Len(s \o t) = Len(a \o r)
    BY <1>1, <1>2, <1>3, <1>4, <1>5
<1>8. s \o t = a \o r
    BY <1>4, <1>5, <1>6, <1>7, SeqEqual
<1> QED BY <1>8 DEF a, r

LEMMA HeadMoves ==
    ASSUME NEW s \in Seq(Written), NEW t \in Seq(Written), t # <<>>
    PROVE  s \o t = Append(s, Head(t)) \o Tail(t)
<1> HIDE DEF Written
<1> QED BY PassOn

\* The stream is as it was, and at most less is on its way.
LEMMA FlowKept ==
    ASSUME ArriveInv, UNCHANGED <<client, published, received, out>>,
           client.at = "reads" =>
               /\ Flow' = Flow
               /\ client.conn \in alive' => client.conn \in alive
               /\ Less(hub'[client.conn], hub[client.conn])
               /\ Coming' \subseteq Coming
    PROVE  InHand' /\ DeliveredInv' /\ FlowInv'
<1>1. Last' = Last /\ Names' = Names /\ Delivered' = Delivered
    BY DEF Last, Names, Delivered
<1>2. InHand' /\ DeliveredInv'
    BY <1>1 DEF ArriveInv, InHand, DeliveredInv, EventsArriveWhole
<1>3. ASSUME client.at = "reads"
      PROVE  /\ Flows(published, Names, Stream, hub'[client.conn], Coming')
             /\ client.conn \in alive' => Stream[Len(Stream)] = End
             /\ Stream' = Stream
  <2>1. /\ Flows(published, Names, Stream, hub[client.conn], Coming)
        /\ client.conn \in alive => Stream[Len(Stream)] = End
      BY <1>3 DEF ArriveInv, FlowInv
  <2>2. Stream' = Stream
      BY <1>1, <1>3 DEF Stream
  <2>3. hub[client.conn] \in Seq(Events)
      BY <1>3 DEF ArriveInv, OneStream, Typed, TypeOK
  <2>4. Flows(published, Names, Stream, hub'[client.conn], Coming')
      BY <1>3, <2>1, <2>3, FlowsShrink
  <2> QED BY <1>3, <2>1, <2>2, <2>4
<1> QED BY <1>1, <1>2, <1>3 DEF FlowInv

LEMMA CallsKept ==
    ASSUME CallsInv, UNCHANGED <<pub, published>>
    PROVE  CallsInv'
BY DEF CallsInv

\* A handler elsewhere, or one whose connection is broken, writes nothing to the stream.
LEMMA HandlerArrives ==
    ASSUME ArriveInv, NEW c \in Connections, HandlerStep(c)
    PROVE  CallsInv' /\ InHand' /\ DeliveredInv' /\ FlowInv'
<1>0. /\ server[c].lines \in Seq(Written) /\ hub \in [Connections -> Seq(Events)]
      /\ wire \in [Connections -> Seq(Lines)] /\ server \in [Connections -> HandlerStates]
      /\ Typed /\ OneStream /\ InHand
    BY DEF ArriveInv, Typed, TypeOK, WiresTyped, HandlerStates
<1>1. UNCHANGED <<client, published, received, out, pub, alive>>
    BY HandlerDoes, <1>0
       DEF HandlerTold, HandlerRests, HandlerWritesLine, HandlerBecomes, clientVars
<1>2. CallsInv'
    BY <1>1, CallsKept DEF ArriveInv
<1>3. Coming' = Coming
    BY <1>1 DEF Coming
<1>4. ASSUME NEW at, NEW lines, server' = [server EXCEPT ![c] = Handler(at, lines)],
             NEW d \in Connections
      PROVE  server'[d].lines = IF d = c THEN lines ELSE server[d].lines
  <2>1. Handler(at, lines).lines = lines
      BY DEF Handler
  <2> QED BY <1>0, <1>4, <2>1
<1>5. CASE client.at # "reads" \/ client.conn # c \/ c \notin alive
  <2>1. ASSUME client.at = "reads"
        PROVE  Flow' = Flow /\ Less(hub'[client.conn], hub[client.conn])
    <3>1. client.conn \in Connections
        BY <1>0, <2>1 DEF OneStream
    <3>2. wire'[client.conn] = wire[client.conn]
        BY <1>0, <1>5, <2>1, <3>1, HandlerDoes
           DEF HandlerTold, HandlerRests, HandlerWritesLine
    <3>3. Less(hub'[client.conn], hub[client.conn])
        BY <1>0, <3>1, HandlerDoes DEF HandlerTold, HandlerRests, HandlerWritesLine, Less
    <3>4. PICK at, lines : server' = [server EXCEPT ![c] = Handler(at, lines)]
        BY <1>0, HandlerDoes
           DEF HandlerTold, HandlerRests, HandlerWritesLine, HandlerBecomes
    <3>5. ToWrite' = ToWrite
        BY <1>1, <1>4, <1>5, <2>1, <3>1, <3>4 DEF ToWrite
    <3> QED BY <1>1, <3>2, <3>3, <3>5 DEF Flow
  <2> QED BY <1>1, <1>2, <1>3, <2>1, FlowKept
<1>6. CASE client.at = "reads" /\ client.conn = c /\ c \in alive
  <2>0. /\ client'.at = "reads" /\ client'.conn = c /\ c \in alive'
        /\ published' = published
      BY <1>1, <1>6
  <2>1. /\ Flows(published, Names, Stream, hub[c], Coming) /\ Stream[Len(Stream)] = End
        /\ Stream \in Seq(Written) /\ Stream # <<>> /\ Flow \in Seq(Written)
        /\ Last \in Written /\ wire[c] \in Seq(Written)
        /\ hub[c] \in Seq(Events)
      BY <1>0, <1>6, StreamIs DEF ArriveInv, FlowInv
  <2>2. Last' = Last /\ Names' = Names /\ Delivered' = Delivered
      BY <1>1 DEF Last, Names, Delivered
  <2>3. InHand' /\ DeliveredInv'
      BY <1>1, <2>2 DEF ArriveInv, InHand, DeliveredInv, EventsArriveWhole
  <2>4. ASSUME NEW lines, HandlerTold(c, lines)
        PROVE  FlowInv'
    <3>0. /\ lines = <<End>> /\ UNCHANGED hub
          \/ /\ hub[c] # <<>> /\ lines = Frame(Head(hub[c]))
             /\ hub' = [hub EXCEPT ![c] = Tail(hub[c])]
        BY <2>4 DEF HandlerTold
    <3>1. lines \in Seq(Written)
      <4>1. hub[c] # <<>> => Head(hub[c]) \in Events
          BY <2>1, HeadTailProperties
      <4> QED BY <3>0, <4>1, WrittenLines
    <3>2. ToWrite = <<>> /\ ToWrite' = lines /\ wire' = wire
        BY <1>4, <1>6, <2>0, <2>4 DEF HandlerTold, HandlerBecomes, ToWrite
    <3>3. Flow = wire[c] /\ Flow' = wire[c] \o lines
        BY <1>6, <2>0, <2>1, <3>2, ConcatEmptySeq DEF Flow
    <3>4. Stream' = Stream \o lines
      <4> HIDE DEF Last
      <4>1. <<Last>> \in Seq(Written)
          BY <2>1
      <4>2. Stream = <<Last>> \o wire[c] /\ Stream' = <<Last>> \o (wire[c] \o lines)
          BY <2>2, <3>3 DEF Stream
      <4> HIDE DEF Stream, Written
      <4>3. <<Last>> \o (wire[c] \o lines) = (<<Last>> \o wire[c]) \o lines
          BY <2>1, <3>1, <4>1, LinesAssociative, Zenon
      <4> QED BY <4>2, <4>3
    <3>5. CASE lines = <<End>> /\ UNCHANGED hub
      <4>1. /\ Flows(published, Names, Stream', hub'[c], Coming)
            /\ Stream'[Len(Stream')] = End
          BY <2>1, <3>4, <3>5, FlowsPing
      <4> QED BY <1>3, <2>0, <2>2, <4>1 DEF FlowInv
    <3>6. CASE hub[c] # <<>> /\ lines = Frame(Head(hub[c]))
               /\ hub' = [hub EXCEPT ![c] = Tail(hub[c])]
      <4>1. /\ Flows(published, Names, Stream', Tail(hub[c]), Coming)
            /\ Stream'[Len(Stream')] = End
          BY <2>1, <3>4, <3>6, FlowsTake
      <4>2. hub'[c] = Tail(hub[c])
          BY <1>0, <3>6
      <4> QED BY <1>3, <2>0, <2>2, <4>1, <4>2 DEF FlowInv
    <3> QED BY <3>0, <3>5, <3>6
  <2>5. ASSUME HandlerRests(c)
        PROVE  FlowInv'
    <3>1. wire' = wire /\ hub' = hub /\ server[c].lines = <<>>
          /\ server' = [server EXCEPT ![c] = Handler("selects", <<>>)]
        BY <1>6, <2>5 DEF HandlerRests, HandlerBecomes
    <3>2. ToWrite' = ToWrite
      <4>1. server'[c].lines = <<>>
          BY <1>4, <3>1
      <4> QED BY <1>6, <2>0, <3>1, <4>1 DEF ToWrite
    <3>3. Stream' = Stream
        BY <1>6, <2>0, <2>2, <3>1, <3>2 DEF Stream, Flow
    <3> QED BY <1>3, <2>0, <2>1, <2>2, <3>1, <3>3 DEF FlowInv
  <2>6. ASSUME HandlerWritesLine(c)
        PROVE  FlowInv'
    <3> DEFINE lines == server[c].lines
    <3>1. /\ lines # <<>> /\ server' = [server EXCEPT ![c] = Handler("writes", Tail(lines))]
          /\ wire' = [wire EXCEPT ![c] = Append(wire[c], Head(lines))]
          /\ UNCHANGED hub
        BY <1>6, <2>6 DEF HandlerWritesLine, HandlerBecomes
    <3>2. /\ ToWrite = lines /\ ToWrite' = Tail(lines)
          /\ wire'[c] = Append(wire[c], Head(lines))
        BY <1>0, <1>4, <1>6, <2>0, <3>1 DEF ToWrite
    <3>3. wire[c] \o lines = Append(wire[c], Head(lines)) \o Tail(lines)
        BY <1>0, <2>1, <3>1, HeadMoves
    <3>4. Stream' = Stream
        BY <1>6, <2>0, <2>2, <3>2, <3>3 DEF Stream, Flow
    <3> QED BY <1>3, <2>0, <2>1, <2>2, <3>1, <3>4 DEF FlowInv
  <2> QED BY <1>2, <2>3, <2>4, <2>5, <2>6, <1>0, HandlerDoes
<1> QED BY <1>5, <1>6

CallStates == [event : Events \cup {None}, left : SUBSET Connections]

\* Publish takes the next number.
LEMMA StartArrives ==
    ASSUME ArriveInv, NEW p \in Publishers, PublishStart(p)
    PROVE  CallsInv' /\ InHand' /\ DeliveredInv' /\ FlowInv'
<1>0. /\ published \in Seq(Publishers) /\ pub \in [Publishers -> CallStates]
      /\ CallsInv /\ DeliveredInv
    BY DEF ArriveInv, Typed, TypeOK, CallStates
<1> DEFINE n == Len(published) + 1
           s == [event |-> n, left |-> subs]
<1>1. /\ published' = Append(published, p) /\ pub[p].event = None
      /\ UNCHANGED <<subs, hub, server, alive, wire, clientVars>>
    BY DEF PublishStart
<1>2. /\ Len(published') = n /\ n \in Nat /\ published'[n] = p
      /\ \A i \in 1..Len(published) :
            i \in 1..Len(published') /\ published'[i] = published[i]
      /\ n \in 1..Len(published')
    BY <1>0, <1>1, AppendProperties
<1>3. pub' = [pub EXCEPT ![p] = s]
    BY <1>2 DEF PublishStart
<1>4. s.event = n /\ s.left = subs
    OBVIOUS
<1> HIDE DEF s, n
<1>5. \A q \in Publishers : pub'[q] = IF q = p THEN s ELSE pub[q]
    BY <1>0, <1>3
<1>6. CallsInv'
    BY <1>0, <1>2, <1>4, <1>5 DEF CallsInv
<1>7. UNCHANGED <<client, Last, Names, Delivered, Stream>>
    BY <1>1 DEF Last, Names, Delivered, Stream, Flow, ToWrite, clientVars
<1>8. DeliveredInv'
  <2>1. \A i \in DOMAIN Delivered : Delivered[i].name \in 1..Len(published)
      BY <1>0 DEF DeliveredInv, Names
  <2>2. EventsArriveWhole'
      BY <1>0, <1>2, <1>7, <2>1 DEF DeliveredInv, EventsArriveWhole
  <2> QED BY <1>0, <1>2, <1>7, <2>2 DEF DeliveredInv
<1>9. FlowInv'
  <2> SUFFICES ASSUME client.at = "reads" PROVE FlowInv'
      BY <1>7 DEF FlowInv
  <2>1. Coming' \subseteq Coming \cup {Len(published) + 1}
      BY <1>4, <1>5, <1>7 DEF Coming, n
  <2>2. /\ Flows(published, Names, Stream, hub[client.conn], Coming)
        /\ client.conn \in alive => Stream[Len(Stream)] = End
      BY DEF ArriveInv, FlowInv
  <2>3. Flows(published', Names, Stream, hub[client.conn], Coming')
      BY <1>0, <1>1, <2>1, <2>2, FlowsGrow
  <2> QED BY <1>1, <1>7, <2>2, <2>3 DEF FlowInv
<1> QED BY <1>6, <1>7, <1>8, <1>9 DEF ArriveInv, InHand

\* ... sends to one channel after the other.
LEMMA SendArrives ==
    ASSUME ArriveInv, NEW p \in Publishers, PublishSend(p)
    PROVE  CallsInv' /\ InHand' /\ DeliveredInv' /\ FlowInv'
<1>0. /\ pub \in [Publishers -> CallStates] /\ hub \in [Connections -> Seq(Events)]
      /\ \A d \in Connections : Len(hub[d]) <= HubCapacity
      /\ CallsInv /\ DeliveredInv /\ HubInv /\ Typed /\ OneStream
    BY DEF ArriveInv, Typed, TypeOK, CallStates
<1>1. PICK c \in pub[p].left :
          /\ c \in Connections /\ pub[p].event \in Events
          /\ hub' = [hub EXCEPT ![c] = Offered(hub[c], pub[p].event)]
          /\ pub' = [pub EXCEPT ![p] = [event |-> pub[p].event, left |-> pub[p].left \ {c}]]
          /\ UNCHANGED <<up, published, subs, server, alive, wire, clientVars>>
    BY <1>0, SendIs
<1>2. \A q \in Publishers :
          /\ pub'[q].event = pub[q].event
          /\ pub'[q].left = IF q = p THEN pub[q].left \ {c} ELSE pub[q].left
    BY <1>0, <1>1
<1>3. CallsInv'
    BY <1>0, <1>1, <1>2 DEF CallsInv
<1>4. UNCHANGED <<client, Last, Names, Delivered, Stream>>
    BY <1>1 DEF Last, Names, Delivered, Stream, Flow, ToWrite, clientVars
<1>5. DeliveredInv' /\ InHand'
    BY <1>1, <1>4 DEF ArriveInv, DeliveredInv, EventsArriveWhole, InHand
<1>6. FlowInv'
  <2> SUFFICES ASSUME client.at = "reads" PROVE FlowInv'
      BY <1>4 DEF FlowInv
  <2>1. Coming' \subseteq Coming
      BY <1>2, <1>4 DEF Coming
  <2>2. /\ Flows(published, Names, Stream, hub[client.conn], Coming)
        /\ client.conn \in alive => Stream[Len(Stream)] = End
        /\ client.conn \in Connections
      BY <1>0 DEF ArriveInv, FlowInv, OneStream
  <2>3. hub[client.conn] \in Seq(Events)
      BY <1>0, <2>2
  <2>4. Flows(published, Names, Stream, hub[client.conn], Coming')
      BY <2>1, <2>2, <2>3, FlowsShrink DEF Less
  <2>5. CASE hub'[client.conn] = hub[client.conn]
      BY <1>1, <1>4, <2>2, <2>4, <2>5 DEF FlowInv
  <2>6. CASE c = client.conn /\ hub'[c] = Append(hub[c], pub[p].event)
    <3>1. pub[p].event \in Coming
        BY <1>1, <2>6 DEF Coming
    <3>2. ASSUME NEW y \in Coming'
          PROVE  published[y] # published[pub[p].event]
      <4>1. PICK q \in Publishers : y = pub[q].event /\ c \in pub'[q].left
          BY <1>2, <1>4, <2>6 DEF Coming
      <4>2. q # p /\ c \in pub[q].left
          BY <1>2, <4>1
      <4>3. pub[q].event # None /\ pub[p].event # None
          BY <1>0, <1>1, <4>2 DEF HubInv, VisitsUnderLock
      <4> QED BY <1>0, <4>1, <4>2, <4>3 DEF CallsInv
    <3>3. Flows(published, Names, Stream, hub'[c], Coming')
        BY <1>1, <2>1, <2>2, <2>3, <2>6, <3>1, <3>2, FlowsOffer
    <3> QED BY <1>1, <1>4, <2>2, <2>6, <3>3 DEF FlowInv
  <2>7. hub'[c] = Offered(hub[c], pub[p].event)
        /\ (client.conn # c => hub'[client.conn] = hub[client.conn])
      BY <1>0, <1>1, <2>2
  <2> QED BY <1>0, <1>1, <2>5, <2>6, <2>7, OfferedChannel
<1> QED BY <1>3, <1>5, <1>6

\* ... and ends when none is left.
LEMMA EndArrives ==
    ASSUME ArriveInv, NEW p \in Publishers, PublishEnd(p)
    PROVE  CallsInv' /\ InHand' /\ DeliveredInv' /\ FlowInv'
<1>0. pub \in [Publishers -> CallStates] /\ CallsInv
    BY DEF ArriveInv, Typed, TypeOK, CallStates
<1>1. /\ pub' = [pub EXCEPT ![p] = Idle]
      /\ UNCHANGED <<published, hub, server, alive, wire, clientVars>>
    BY DEF PublishEnd
<1>2. \A q \in Publishers : pub'[q] = IF q = p THEN Idle ELSE pub[q]
    BY <1>0, <1>1
<1>3. Idle.event = None /\ Idle.left = {}
    BY DEF Idle
<1>4. CallsInv'
    BY <1>0, <1>1, <1>2, <1>3 DEF CallsInv
<1>5. Coming' \subseteq Coming
    BY <1>1, <1>2, <1>3 DEF Coming, clientVars
<1>6. Flow' = Flow
    BY <1>1 DEF Flow, ToWrite, clientVars
<1> QED BY <1>1, <1>4, <1>5, <1>6, FlowKept DEF Less, clientVars

\* A channel comes into the hub or leaves it, with what it holds.
LEMMA SubscriberArrives ==
    ASSUME ArriveInv, NEW c \in Connections, Subscribe(c) \/ Unsubscribe(c)
    PROVE  CallsInv' /\ InHand' /\ DeliveredInv' /\ FlowInv'
<1>0. /\ hub \in [Connections -> Seq(Events)] /\ server \in [Connections -> HandlerStates]
      /\ Typed /\ OneStream
    BY DEF ArriveInv, Typed, TypeOK, HandlerStates
<1>1. UNCHANGED <<published, pub, alive, wire, client, received, out>>
    BY DEF Subscribe, Unsubscribe, clientVars
<1>2. hub' = hub \/ hub' = [hub EXCEPT ![c] = <<>>]
    BY DEF Subscribe, Unsubscribe
<1>3. \A d \in Connections : server'[d].lines = server[d].lines
  <2>1. PICK at \in Places : server' = [server EXCEPT ![c].at = at]
    <3>1. {"greets", "gone"} \subseteq Places
        BY DEF Places
    <3> QED BY <3>1 DEF Subscribe, Unsubscribe
  <2>2. /\ server[c].lines \in Seq(Written)
        /\ server' = [server EXCEPT ![c] = Handler(at, server[c].lines)]
      BY <1>0, <2>1, PlaceBecomes
  <2>3. Handler(at, server[c].lines).lines = server[c].lines
      BY DEF Handler
  <2> QED BY <1>0, <2>2, <2>3
<1>4. Coming' = Coming
    BY <1>1 DEF Coming
<1>5. ASSUME client.at = "reads"
      PROVE  Flow' = Flow /\ Less(hub'[client.conn], hub[client.conn])
  <2>1. client.conn \in Connections
      BY <1>0, <1>5 DEF OneStream
  <2> QED BY <1>0, <1>1, <1>2, <1>3, <2>1 DEF Flow, ToWrite, Less
<1>6. CallsInv'
    BY <1>1, CallsKept DEF ArriveInv
<1> QED BY <1>1, <1>4, <1>5, <1>6, FlowKept

\* A new stream starts after all the app has been given.
LEMMA ConnectArrives ==
    ASSUME ArriveInv, ClientConnects
    PROVE  CallsInv' /\ InHand' /\ DeliveredInv' /\ FlowInv'
<1>0. /\ Typed /\ OneStream /\ HubInv /\ DeliveredInv /\ client.at = "connects"
      /\ server \in [Connections -> HandlerStates]
    BY DEF ArriveInv, ClientConnects, Typed, TypeOK, HandlerStates
<1>1. PICK c \in Connections :
          /\ server[c].at = "none"
          /\ server' = [server EXCEPT ![c].at = "starts"]
          /\ alive' = alive \cup {c}
          /\ client' = Reading(c, None, <<>>)
    BY DEF ClientConnects
<1>2. UNCHANGED <<published, pub, subs, hub, wire, out, received>>
    BY DEF ClientConnects, hubVars
<1>3. CallsInv' /\ Names' = Names /\ Delivered' = Delivered
    BY <1>2, CallsKept DEF ArriveInv, Names, Delivered
<1>4. client'.conn = c /\ client'.name = None /\ client'.data = <<>>
    BY <1>1 DEF Reading
<1>5. InHand' /\ DeliveredInv' /\ Last' = End
    BY <1>0, <1>2, <1>3, <1>4 DEF InHand, DeliveredInv, EventsArriveWhole, Last
<1>6. /\ wire[c] = <<>> /\ server[c].lines = <<>> /\ c \notin subs /\ hub[c] = <<>>
    BY <1>0, <1>1 DEF OneStream
<1>7. ToWrite' = <<>>
  <2>1. "starts" \in Places
      BY DEF Places
  <2>2. /\ server[c].lines \in Seq(Written)
        /\ server' = [server EXCEPT ![c] = Handler("starts", server[c].lines)]
      BY <1>0, <1>1, <2>1, PlaceBecomes
  <2>3. server'[c].lines = <<>>
      BY <1>0, <1>6, <2>2 DEF Handler
  <2> QED BY <1>4, <2>3 DEF ToWrite
<1>8. Stream' = <<End>>
  <2>1. Flow' = <<>> \o <<>>
      BY <1>2, <1>4, <1>6, <1>7 DEF Flow
  <2>2. <<>> \o <<>> = <<>> /\ <<End>> \o <<>> = <<End>>
      BY ConcatEmptySeq, WrittenLines
  <2> QED BY <1>5, <2>1, <2>2 DEF Stream
<1>9. Coming' = {}
  <2>1. \A p \in Publishers : c \notin pub[p].left
      BY <1>0, <1>6 DEF HubInv, NoSendOnClosed
  <2> QED BY <1>2, <1>4, <2>1 DEF Coming
<1>10. /\ Flows(published, Names, <<End>>, <<>>, {}) /\ <<End>>[Len(<<End>>)] = End
    BY <1>0, FlowsStart DEF DeliveredInv
<1>11. FlowInv'
    BY <1>2, <1>3, <1>4, <1>6, <1>8, <1>9, <1>10 DEF FlowInv
<1> QED BY <1>3, <1>5, <1>11

\* The client gives up its connection, and with it the event in its hand.
LEMMA LeaveArrives ==
    ASSUME ArriveInv, ClientLeaves
    PROVE  CallsInv' /\ InHand' /\ DeliveredInv' /\ FlowInv'
<1>1. PICK at \in {"connects", "retries", "sleeps", "done"} :
          ClientGoes(at) /\ UNCHANGED out
    BY Leaves
<1>2. UNCHANGED <<published, pub, out, received>> /\ client' = ClientAt(at)
    BY <1>1 DEF ClientGoes, hubVars
<1>3. CallsInv' /\ Names' = Names /\ Delivered' = Delivered
    BY <1>2, CallsKept DEF ArriveInv, Names, Delivered
<1>4. client'.at # "reads" /\ client'.name = None /\ client'.data = <<>>
    BY <1>2 DEF ClientAt
<1> QED BY <1>2, <1>3, <1>4
        DEF ArriveInv, InHand, DeliveredInv, EventsArriveWhole, FlowInv

LEMMA LinesConcatenated ==
    \A s, t \in Seq(Written) :
        /\ s \o t \in Seq(Written) /\ Len(s \o t) = Len(s) + Len(t)
        /\ \A i \in 1..(Len(s) + Len(t)) :
              (s \o t)[i] = IF i <= Len(s) THEN s[i] ELSE t[i - Len(s)]
<1> HIDE DEF Written
<1> QED BY ConcatProperties

LEMMA HeadFirst ==
    ASSUME NEW s \in Seq(Written), s # <<>>
    PROVE  s = <<Head(s)>> \o Tail(s)
<1> HIDE DEF Written
<1>1. /\ Head(s) \in Written /\ Tail(s) \in Seq(Written) /\ Head(s) = s[1]
      /\ Len(Tail(s)) = Len(s) - 1 /\ \A i \in 1..Len(Tail(s)) : Tail(s)[i] = s[i + 1]
      /\ Len(s) \in Nat \ {0}
    BY HeadTailProperties, EmptySeq
<1> DEFINE h == <<Head(s)>>
           r == Tail(s)
<1>2. h \in Seq(Written) /\ Len(h) = 1 /\ h[1] = s[1]
    BY <1>1
<1> HIDE DEF h, r
<1>3. r \in Seq(Written) /\ Len(r) = Len(s) - 1 /\ \A i \in 1..Len(r) : r[i] = s[i + 1]
    BY <1>1 DEF r
<1>4. /\ h \o r \in Seq(Written) /\ Len(h \o r) = Len(h) + Len(r)
      /\ \A i \in 1..(Len(h) + Len(r)) :
            (h \o r)[i] = IF i <= Len(h) THEN h[i] ELSE r[i - Len(h)]
    BY <1>2, <1>3, LinesConcatenated, Zenon
<1>5. \A i \in 1..Len(s) : s[i] = (h \o r)[i]
  <2> SUFFICES ASSUME NEW i \in 1..Len(s) PROVE s[i] = (h \o r)[i]
      OBVIOUS
  <2>0. i \in 1..(Len(h) + Len(r)) /\ i \in Int
      BY <1>1, <1>2, <1>3
  <2>1. CASE i = 1
      BY <1>1, <1>2, <1>3, <1>4, <2>0, <2>1
  <2>2. CASE i > 1
    <3>1. (h \o r)[i] = r[i - 1]
        BY <1>2, <1>4, <2>0, <2>2
    <3>2. i - 1 \in 1..Len(r) /\ (i - 1) + 1 = i
        BY <1>1, <1>3, <2>0, <2>2
    <3> QED BY <1>3, <3>1, <3>2
  <2> QED BY <1>1, <2>0, <2>1, <2>2
<1>6. s = h \o r
  <2>1. Len(s) = Len(h \o r)
      BY <1>1, <1>2, <1>3, <1>4
  <2> DEFINE g == h \o r
  <2>2. g \in Seq(Written) /\ Len(s) = Len(g) /\ \A i \in 1..Len(s) : s[i] = g[i]
      BY <1>4, <1>5, <2>1
  <2> HIDE DEF g
  <2>3. s = g
      BY <2>2, SeqEqual
  <2> QED BY <2>3 DEF g
<1> QED BY <1>6 DEF h, r

\* What comes out of the channel later comes later to the app.
LEMMA LaterAppended ==
    ASSUME NEW s \in Seq(Deliveries), NEW t \in Seq(Deliveries), NEW x \in Deliveries
    PROVE  s \o Append(t, x) = Append(s \o t, x)
<1> HIDE DEF Deliveries
<1>1. <<x>> \in Seq(Deliveries) /\ s \o t \in Seq(Deliveries)
    BY ConcatProperties
<1> DEFINE y == <<x>>
<1> HIDE DEF y
<1>2. y \in Seq(Deliveries)
    BY <1>1 DEF y
<1>3. s \o (t \o y) = (s \o t) \o y
    BY <1>2, ConcatAssociative
<1>4. Append(t, x) = t \o y /\ Append(s \o t, x) = (s \o t) \o y
    BY <1>1, AppendIsConcat DEF y
<1> QED BY <1>3, <1>4

\* A line read: the stream is shorter by what the client had read before.
LEMMA LineArrives ==
    ASSUME ArriveInv, ClientReads
    PROVE  /\ client.at = "reads" /\ client'.at = "reads" /\ client'.conn = client.conn
           /\ Follows(Last, NextLine) /\ Last' = NextLine /\ InHand'
           /\ Flow # <<>> /\ Stream' = Flow
<1>0. Typed /\ OneStream /\ InHand /\ client \in ClientStates
    BY DEF ArriveInv, Typed, TypeOK, ClientStates
<1>1. /\ client.at = "reads" /\ client.conn \in Connections
      /\ wire[client.conn] # <<>> /\ NextLine \in Written
      /\ wire' = [wire EXCEPT ![client.conn] = Tail(wire[client.conn])]
      /\ UNCHANGED <<server, alive>>
      /\ TakesName \/ TakesData \/ (NextLine = End /\ FlushFrame)
    BY <1>0, LineRead DEF hubVars
<1>2. /\ wire[client.conn] \in Seq(Written) /\ ToWrite \in Seq(Written)
      /\ Flow \in Seq(Written) /\ Len(Stream) = Len(Flow) + 1 /\ Stream[1] = Last
      /\ Stream \in Seq(Written) /\ Last \in Written
      /\ \A i \in 1..Len(Flow) : Flow[i] = Stream[i + 1]
    BY <1>0, <1>1, StreamIs
<1> DEFINE w == wire[client.conn]
<1>3. /\ Head(w) \in Written /\ Tail(w) \in Seq(Written) /\ Len(w) \in Nat \ {0}
      /\ Head(w) = w[1] /\ NextLine = Head(w)
    BY <1>1, <1>2, HeadTailProperties, EmptySeq DEF NextLine
<1>4. Flow # <<>> /\ Flow[1] = NextLine /\ Len(Flow) \in Nat \ {0}
  <2>1. /\ Len(Flow) = Len(w) + Len(ToWrite) /\ Len(ToWrite) \in Nat
        /\ \A i \in 1..(Len(w) + Len(ToWrite)) :
              Flow[i] = IF i <= Len(w) THEN w[i] ELSE ToWrite[i - Len(w)]
      BY <1>2, ConcatProperties DEF Flow
  <2> QED BY <1>2, <1>3, <2>1
<1>5. Follows(Last, NextLine)
  <2>1. Framed(Stream)
      BY <1>1 DEF ArriveInv, FlowInv, Flows
  <2>2. 1 \in DOMAIN Stream /\ 2 \in DOMAIN Stream /\ 2 = 1 + 1 /\ Stream[2] = NextLine
      BY <1>2, <1>4
  <2> QED BY <1>2, <2>1, <2>2 DEF Framed
<1>6. /\ client'.at = "reads" /\ client'.conn = client.conn
      /\ Last' = NextLine /\ InHand'
  <2>1. /\ Line("event", client.name).kind = "event"
        /\ Line("data", client.name).kind = "data"
        /\ End.kind = "end"
        /\ \A k, e : Line(k, e).event = e /\ Line(k, e).kind = k
      BY DEF Line, End
  <2>2. client.name \in Events \cup {None} /\ None \notin Events
      BY <1>0 DEF ClientStates, None, Events
  <2>3. CASE TakesName
    <3>1. Last.kind = "end"
        BY <1>5, <2>1, <2>3, WrittenKinds, <1>2 DEF Follows, TakesName
    <3>2. client.name = None /\ client.data = <<>>
        BY <1>0, <2>1, <3>1 DEF Last, InHand
    <3>3. /\ client'.at = "reads" /\ client'.conn = client.conn
          /\ client'.name = NextLine.event /\ client'.data = <<>>
        BY <1>0, <1>1, <2>3, <3>2 DEF TakesName, ClientStates
    <3>4. NextLine = Line("event", NextLine.event) /\ NextLine.event # None
        BY <1>1, <2>3 DEF TakesName, Written, Line, End, None, Events
    <3> QED BY <3>3, <3>4 DEF Last, InHand
  <2>4. CASE TakesData
    <3>1. Last.kind = "event"
        BY <1>1, <1>2, <1>5, <2>1, <2>4, WrittenKinds DEF Follows, TakesData
    <3>2. client.name # None /\ client.data = <<>> /\ Last = Line("event", client.name)
        BY <2>1, <3>1 DEF Last
    <3>3. NextLine = Line("data", client.name) /\ NextLine.event = client.name
        BY <1>5, <2>1, <3>1, <3>2 DEF Follows
    <3>4. /\ client'.at = "reads" /\ client'.conn = client.conn
          /\ client'.name = client.name /\ client'.data = Append(<<>>, client.name)
        BY <1>0, <1>1, <2>4, <3>2, <3>3 DEF TakesData, ClientStates
    <3>5. Append(<<>>, client.name) = <<client.name>> /\ <<client.name>> # <<>>
        OBVIOUS
    <3> QED BY <3>2, <3>3, <3>4, <3>5 DEF Last, InHand
  <2>5. CASE NextLine = End /\ FlushFrame
    <3>1. /\ client'.at = "reads" /\ client'.conn = client.conn
          /\ client'.name = None /\ client'.data = <<>>
        BY <2>5 DEF FlushFrame, Reading
    <3> QED BY <2>5, <3>1 DEF Last, InHand
  <2> QED BY <1>1, <2>3, <2>4, <2>5
<1>7. Stream' = Flow
  <2>1. /\ ToWrite' = ToWrite /\ wire'[client.conn] = Tail(w)
      BY <1>0, <1>1, <1>6 DEF ToWrite, Typed, TypeOK
  <2>2. Stream' = <<NextLine>> \o (Tail(w) \o ToWrite)
      BY <1>6, <2>1 DEF Stream, Flow
  <2>3. <<NextLine>> \in Seq(Written) /\ <<NextLine>> # <<>>
      BY <1>1
  <2>6. <<NextLine>> \o (Tail(w) \o ToWrite) = (<<NextLine>> \o Tail(w)) \o ToWrite
    <3> DEFINE h == <<NextLine>>
               r == Tail(w)
    <3>1. h \in Seq(Written) /\ r \in Seq(Written) /\ ToWrite \in Seq(Written)
        BY <1>2, <1>3, <2>3
    <3> HIDE DEF h, r, w, ToWrite, Written
    <3>2. h \o (r \o ToWrite) = (h \o r) \o ToWrite
        BY <3>1, LinesAssociative
    <3> QED BY <3>2 DEF h, r
  <2>4. Stream' = (<<NextLine>> \o Tail(w)) \o ToWrite
      BY <2>2, <2>6
  <2>5. w = <<NextLine>> \o Tail(w)
    <3>1. w \in Seq(Written) /\ w # <<>> /\ NextLine = Head(w)
        BY <1>1, <1>2, <1>3
    <3> HIDE DEF w, Written
    <3>2. w = <<Head(w)>> \o Tail(w)
        BY <3>1, HeadFirst
    <3> QED BY <3>1, <3>2
  <2> QED BY <2>4, <2>5 DEF Flow
<1> QED BY <1>1, <1>4, <1>5, <1>6, <1>7

LEMMA ReadArrives ==
    ASSUME ArriveInv, ClientReads
    PROVE  CallsInv' /\ InHand' /\ DeliveredInv' /\ FlowInv'
<1>0. Typed /\ OneStream /\ InHand /\ DeliveredInv
    BY DEF ArriveInv
<1>1. /\ client.at = "reads" /\ client'.at = "reads" /\ client'.conn = client.conn
      /\ Follows(Last, NextLine) /\ Last' = NextLine /\ InHand'
      /\ Flow # <<>> /\ Stream' = Flow
    BY LineArrives
<1>2. /\ UNCHANGED <<published, pub, hub, alive, received>>
      /\ TakesName \/ TakesData \/ (NextLine = End /\ FlushFrame)
    BY <1>0, LineRead DEF hubVars
<1>3. CallsInv' /\ Coming' = Coming
    BY <1>1, <1>2, CallsKept DEF ArriveInv, Coming
<1>4. /\ Flow \in Seq(Written) /\ Len(Stream) = Len(Flow) + 1 /\ Stream[1] = Last
      /\ Stream \in Seq(Written)
      /\ \A i \in 1..Len(Flow) : Flow[i] = Stream[i + 1]
    BY <1>0, <1>1, StreamIs
<1>5. /\ Flows(published, Names, Stream, hub[client.conn], Coming)
      /\ client.conn \in alive => Stream[Len(Stream)] = End
    BY <1>1 DEF ArriveInv, FlowInv
<1>6. client.conn \in alive' => Stream'[Len(Stream')] = End
    BY <1>1, <1>2, <1>4, <1>5, EmptySeq
<1>7. /\ Flows(published, Names, Flow, hub[client.conn], Coming)
      /\ Last.kind = "data" =>
             /\ Flows(published, Names \cup {Last.event}, Flow, hub[client.conn], Coming)
             /\ \A x \in Names : Before(published, x, Last.event)
             /\ Last.event \in 1..Len(published)
    BY <1>1, <1>4, <1>5, FlowsRead
<1>8. CASE out' = out
  <2>1. Names' = Names /\ Delivered' = Delivered
      BY <1>2, <1>8 DEF Names, Delivered
  <2>2. DeliveredInv'
      BY <1>0, <1>2, <2>1 DEF DeliveredInv, EventsArriveWhole
  <2>3. FlowInv'
      BY <1>1, <1>2, <1>3, <1>6, <1>7, <2>1 DEF FlowInv
  <2> QED BY <1>1, <1>3, <2>2, <2>3
<1>9. CASE Complete /\ Delivery \in Deliveries /\ out' = Append(out, Delivery)
  <2>1. /\ Last = Line("data", client.name) /\ Last.kind = "data"
        /\ Last.event = client.name /\ client.data = <<client.name>>
      BY <1>0, <1>9 DEF Complete, Last, InHand, Line
  <2>2. Delivery.name = Last.event /\ Delivery.data = <<Delivery.name>>
      BY <2>1 DEF Delivery
  <2>3. Delivered' = Append(Delivered, Delivery) /\ Delivered \in Seq(Deliveries)
    <3>1. received \in Seq(Deliveries) /\ out \in Seq(Deliveries)
        BY <1>0 DEF Typed, TypeOK
    <3> QED BY <1>2, <1>9, <3>1, LaterAppended, ConcatProperties DEF Delivered
  <2> DEFINE n == Len(Delivered)
  <2>4. /\ DOMAIN Delivered' = 1..(n + 1) /\ DOMAIN Delivered = 1..n /\ n \in Nat
        /\ \A i \in 1..n : Delivered'[i] = Delivered[i]
        /\ Delivered'[n + 1] = Delivery
    <3>1. /\ Delivered' \in Seq(Deliveries) /\ Len(Delivered') = n + 1
          /\ \A i \in 1..n : Delivered'[i] = Delivered[i]
          /\ Delivered'[n + 1] = Delivery
        BY <1>9, <2>3, AppendProperties
    <3> QED BY <2>3, <3>1
  <2> HIDE DEF n
  <2>5. Names' = Names \cup {Last.event}
    <3>1. \A i \in DOMAIN Delivered' : i \in DOMAIN Delivered \/ i = n + 1
        BY <2>4
    <3>2. \A i \in DOMAIN Delivered : i \in DOMAIN Delivered'
        BY <2>4
    <3>3. n + 1 \in DOMAIN Delivered'
        BY <2>4
    <3> QED BY <2>2, <2>4, <3>1, <3>2, <3>3 DEF Names
  <2>6. EventsArriveWhole'
    <3>1. \A i \in 1..n : Delivered[i].name \in Names
        BY <2>4 DEF Names
    <3>2. \A i \in 1..n : Before(published, Delivered[i].name, Delivery.name)
        BY <1>7, <2>1, <2>2, <3>1
    <3>3. EventsArriveWhole
        BY <1>0 DEF DeliveredInv
    <3>4. \A i \in DOMAIN Delivered' : Delivered'[i].data = <<Delivered'[i].name>>
      <4> SUFFICES ASSUME NEW i \in 1..(n + 1)
                   PROVE  Delivered'[i].data = <<Delivered'[i].name>>
          BY <2>4
      <4>1. CASE i \in 1..n
          BY <2>4, <3>3, <4>1 DEF EventsArriveWhole
      <4>2. CASE i = n + 1
          BY <2>2, <2>4, <4>2
      <4> QED BY <2>4, <4>1, <4>2
    <3>5. \A i, j \in DOMAIN Delivered' :
              i < j /\ published[Delivered'[i].name] = published[Delivered'[j].name]
              => Delivered'[i].name < Delivered'[j].name
      <4> SUFFICES ASSUME NEW i \in 1..(n + 1), NEW j \in 1..(n + 1), i < j,
                          published[Delivered'[i].name] = published[Delivered'[j].name]
                   PROVE  Delivered'[i].name < Delivered'[j].name
          BY <2>4
      <4>1. i \in 1..n
          BY <2>4
      <4>2. CASE j \in 1..n
          BY <2>4, <3>3, <4>1, <4>2 DEF EventsArriveWhole
      <4>3. CASE j = n + 1
          BY <2>4, <3>2, <4>1, <4>3 DEF Before
      <4> QED BY <2>4, <4>2, <4>3
    <3> QED BY <1>2, <3>4, <3>5 DEF EventsArriveWhole
  <2>7. DeliveredInv'
      BY <1>0, <1>2, <1>7, <2>1, <2>5, <2>6 DEF DeliveredInv
  <2>8. FlowInv'
      BY <1>1, <1>2, <1>3, <1>6, <1>7, <2>1, <2>5 DEF FlowInv
  <2> QED BY <1>1, <1>3, <2>7, <2>8
<1>10. \/ out' = out
       \/ Complete /\ Delivery \in Deliveries /\ out' = Append(out, Delivery)
    BY <1>0, <1>2, FrameFlushed DEF TakesName, TakesData
<1> QED BY <1>8, <1>9, <1>10

LEMMA TakenIsDelivered ==
    ASSUME NEW s \in Seq(Deliveries), NEW t \in Seq(Deliveries), t # <<>>
    PROVE  Append(s, Head(t)) \o Tail(t) = s \o t
<1> HIDE DEF Deliveries
<1> QED BY PassOn

\* The app takes what it has been given; the daemon dies with what it has not written.
LEMMA LifeArrives ==
    ASSUME ArriveInv, Receive \/ Cancel \/ DaemonDies \/ DaemonStarts \/ UNCHANGED vars
    PROVE  CallsInv' /\ InHand' /\ DeliveredInv' /\ FlowInv'
<1>0. Typed /\ OneStream /\ InHand /\ DeliveredInv
    BY DEF ArriveInv
<1>1. CASE Receive
  <2>1. received \in Seq(Deliveries) /\ out \in Seq(Deliveries) /\ out # <<>>
      BY <1>0, <1>1 DEF Receive, Typed, TypeOK
  <2>2. Delivered' = Delivered
      BY <1>1, <2>1, TakenIsDelivered DEF Receive, Delivered
  <2>3. UNCHANGED <<published, pub, hub, server, alive, wire, client>>
      BY <1>1 DEF Receive, hubVars
  <2>4. Names' = Names /\ Stream' = Stream /\ Coming' = Coming
      BY <2>2, <2>3 DEF Names, Stream, Flow, ToWrite, Last, Coming
  <2>5. CallsInv' /\ InHand'
      BY <2>3, <1>0, CallsKept DEF ArriveInv, InHand
  <2>6. DeliveredInv'
      BY <1>0, <2>2, <2>3, <2>4 DEF DeliveredInv, EventsArriveWhole
  <2>7. FlowInv'
      BY <2>3, <2>4 DEF ArriveInv, FlowInv
  <2> QED BY <2>5, <2>6, <2>7
<1>2. CASE Cancel \/ DaemonStarts \/ UNCHANGED vars
  <2>1. UNCHANGED <<published, pub, hub, server, alive, wire, client, received, out>>
      BY <1>2, Zenon DEF Cancel, DaemonStarts, vars, hubVars, clientVars
  <2>2. Flow' = Flow /\ Coming' = Coming
      BY <2>1 DEF Flow, ToWrite, Coming
  <2>3. CallsInv'
      BY <2>1, CallsKept DEF ArriveInv
  <2> QED BY <2>1, <2>2, <2>3, FlowKept DEF Less
<1>3. CASE DaemonDies
  <2>1. /\ pub' = [p \in Publishers |-> Idle] /\ alive' = {}
        /\ hub' = [c \in Connections |-> <<>>]
        /\ UNCHANGED <<published, wire, client, received, out>>
      BY <1>3 DEF DaemonDies, clientVars
  <2>2. Idle.event = None /\ Idle.left = {}
      BY DEF Idle
  <2>3. CallsInv' /\ Coming' = {}
      BY <2>1, <2>2 DEF CallsInv, Coming
  <2>4. Names' = Names /\ Delivered' = Delivered /\ Last' = Last
      BY <2>1 DEF Names, Delivered, Last
  <2>5. InHand' /\ DeliveredInv'
      BY <1>0, <2>1, <2>4 DEF InHand, DeliveredInv, EventsArriveWhole
  <2>6. FlowInv'
    <3> SUFFICES ASSUME client.at = "reads" PROVE FlowInv'
        BY <2>1 DEF FlowInv
    <3>1. /\ client.conn \in Connections /\ wire[client.conn] \in Seq(Written)
          /\ ToWrite \in Seq(Written) /\ Last \in Written
        BY <1>0, StreamIs
    <3> DEFINE w == wire[client.conn]
               f == <<Last>>
    <3>2. Stream' = f \o w
      <4>1. Flow' = w \o <<>>
          BY <2>1 DEF Flow, ToWrite
      <4>2. w \o <<>> = w
          BY <3>1, ConcatEmptySeq
      <4> QED BY <2>4, <4>1, <4>2 DEF Stream
    <3>3. f \in Seq(Written)
        BY <3>1
    <3>4. f \o w \in Seq(Written)
        BY <3>1, <3>3, LinesConcatenated, Zenon
    <3>5. Stream = (f \o w) \o ToWrite
      <4>1. Stream = f \o (w \o ToWrite)
          BY DEF Stream, Flow
      <4>2. f \o (w \o ToWrite) = (f \o w) \o ToWrite
          BY <3>1, <3>3, LinesAssociative, Zenon
      <4> QED BY <4>1, <4>2
    <3>6. Flows(published, Names, Stream, hub[client.conn], Coming)
        BY DEF ArriveInv, FlowInv
    <3> HIDE DEF f, w
    <3>7. Flows(published, Names, f \o w, <<>>, {})
        BY <3>1, <3>4, <3>5, <3>6, FlowsCut
    <3> QED BY <2>1, <2>3, <2>4, <3>1, <3>2, <3>7 DEF FlowInv
  <2> QED BY <2>3, <2>5, <2>6
<1> QED BY <1>1, <1>2, <1>3

LEMMA InitArrives == Init => ArriveInv
<1> SUFFICES ASSUME Init PROVE ArriveInv
  OBVIOUS
<1>1. /\ Idle \in CallStates /\ Idle.event = None /\ Idle.left = {}
      /\ Handler("none", <<>>) \in HandlerStates /\ Handler("none", <<>>).lines = <<>>
      /\ Handler("none", <<>>).at = "none"
    BY DEF Idle, CallStates, Handler, HandlerStates, Places
<1>2. /\ ClientAt("connects") \in ClientStates /\ ClientAt("connects").at = "connects"
      /\ ClientAt("connects").name = None /\ ClientAt("connects").data = <<>>
    BY DEF ClientAt, ClientStates
<1>3. /\ pub = [p \in Publishers |-> Idle] /\ subs = {} /\ alive = {}
      /\ hub = [c \in Connections |-> <<>>] /\ wire = [c \in Connections |-> <<>>]
      /\ server = [c \in Connections |-> Handler("none", <<>>)]
      /\ client = ClientAt("connects") /\ up = TRUE /\ cancelled = FALSE
      /\ published = <<>> /\ out = <<>> /\ received = <<>> /\ lost = {}
    BY DEF Init
<1>4. Delivered = <<>>
    BY <1>3, ConcatEmptySeq DEF Delivered
<1>5. DeliveredInv
    BY <1>3, <1>4 DEF DeliveredInv, EventsArriveWhole, Names
<1> HIDE DEF Idle, Handler, ClientAt, CallStates, HandlerStates, ClientStates
<1>6. /\ pub \in [Publishers -> CallStates] /\ server \in [Connections -> HandlerStates]
      /\ hub \in [Connections -> Seq(Events)] /\ wire \in [Connections -> Seq(Lines)]
      /\ client \in ClientStates
    BY <1>1, <1>2, <1>3
<1>7. Typed
  <2>3. /\ \A c \in Connections : hub[c] = <<>> /\ wire[c] = <<>>
        /\ Len(<<>>) = 0 /\ <<>> \in Seq(Publishers) /\ <<>> \in Seq(Deliveries)
        /\ 0 <= MaxEvents /\ 0 <= HubCapacity /\ 0 <= WireCapacity /\ 0 <= ClientCapacity
      BY <1>3, EmptySeq, ConstantsAssumption
  <2>1. TypeOK
      BY <1>3, <1>6, <2>3 DEF TypeOK, CallStates, HandlerStates, ClientStates
  <2>2. WiresTyped
      BY <1>1, <1>3, WrittenLines DEF WiresTyped
  <2> QED BY <2>1, <2>2 DEF Typed
<1>8. OneStream
    BY <1>1, <1>2, <1>3 DEF OneStream
<1>9. CallsInv /\ InHand /\ FlowInv
    BY <1>1, <1>2, <1>3 DEF CallsInv, InHand, FlowInv
<1> QED BY <1>5, <1>7, <1>8, <1>9, InitHolds DEF ArriveInv

LEMMA StepArrives == ArriveInv /\ [Next]_vars => ArriveInv'
<1> SUFFICES ASSUME ArriveInv, [Next]_vars PROVE ArriveInv'
  OBVIOUS
<1>0. Typed /\ HubInv /\ OneStream /\ HubInv'
    BY StepKeepsInv DEF ArriveInv
<1>1. ASSUME Typed' /\ OneStream' /\ CallsInv' /\ InHand' /\ DeliveredInv' /\ FlowInv'
      PROVE  ArriveInv'
    BY <1>0, <1>1 DEF ArriveInv
<1>2. ASSUME NEW p \in Publishers, PublishStart(p) \/ PublishStep(p)
      PROVE  ArriveInv'
  <2>1. Typed' /\ OneStream'
      BY <1>0, <1>2, PublisherTyped, PublisherOneStream
  <2>2. CallsInv' /\ InHand' /\ DeliveredInv' /\ FlowInv'
      BY <1>2, StartArrives, SendArrives, EndArrives DEF PublishStep
  <2> QED BY <1>1, <2>1, <2>2
<1>3. ASSUME NEW c \in Connections, Subscribe(c) \/ Unsubscribe(c)
      PROVE  ArriveInv'
  <2>1. Typed' /\ OneStream'
      BY <1>0, <1>3, SubscriberTyped, SubscriberOneStream
  <2>2. CallsInv' /\ InHand' /\ DeliveredInv' /\ FlowInv'
      BY <1>3, SubscriberArrives
  <2> QED BY <1>1, <2>1, <2>2
<1>4. ASSUME NEW c \in Connections, HandlerStep(c)
      PROVE  ArriveInv'
  <2>1. Typed' /\ OneStream'
      BY <1>0, <1>4, HandlerStepTyped, HandlerOneStream
  <2>2. CallsInv' /\ InHand' /\ DeliveredInv' /\ FlowInv'
      BY <1>4, HandlerArrives
  <2> QED BY <1>1, <2>1, <2>2
<1>5. CASE ClientConnects \/ ClientLeaves \/ ClientReads
  <2>1. Typed' /\ OneStream'
      BY <1>0, <1>5, ClientTyped, ClientReadsTyped, ClientOneStream
  <2>2. CallsInv' /\ InHand' /\ DeliveredInv' /\ FlowInv'
      BY <1>5, ConnectArrives, LeaveArrives, ReadArrives
  <2> QED BY <1>1, <2>1, <2>2
<1>6. CASE Receive \/ Cancel \/ DaemonDies \/ DaemonStarts \/ UNCHANGED vars
  <2>1. Typed' /\ OneStream'
      BY <1>0, <1>6, LifeTyped, LifeOneStream
  <2>2. CallsInv' /\ InHand' /\ DeliveredInv' /\ FlowInv'
      BY <1>6, LifeArrives
  <2> QED BY <1>1, <2>1, <2>2
<1> QED BY <1>2, <1>3, <1>4, <1>5, <1>6, Zenon DEF Next, HandlerStep, ClientLeaves

\* The app gets whole events, each at most once, and those of one publisher in the order
\* of publication, for any number of publishers, events and connections and any
\* capacities: what the client, the wire, the handler, its channel and the calls of
\* Publish hold is always one stream in that order (apis.go:244-303, hub.go:38-50).
THEOREM EventsComeWhole == Spec => []EventsArriveWhole
<1>1. ArriveInv => EventsArriveWhole
    BY DEF ArriveInv, DeliveredInv
<1> QED BY <1>1, InitArrives, StepArrives, PTL DEF Spec

\* The channels keep their bounds, and a frame's lines their form.
THEOREM StreamTypeCorrect == Spec => []TypeOK
<1>1. ArriveInv => TypeOK
    BY DEF ArriveInv, Typed
<1> QED BY <1>1, InitArrives, StepArrives, PTL DEF Spec
=============================================================================
