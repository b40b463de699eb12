---------------------------- MODULE EventStream ----------------------------
(***************************************************************************)
(* Events on their way from the daemon to the app: the hub with its        *)
(* bounded channels (pkg/events/hub.go), the handler of each connection    *)
(* (pkg/daemon/handlers.go, getEventStream), and the client that reads one *)
(* connection after the other (pkg/client/apis.go, SubscribeEvents).       *)
(*                                                                         *)
(* An event is its number in the order of publication.  A frame is three   *)
(* lines, written one by one; comments and the retry interval carry        *)
(* nothing, so a greeting or a heartbeat is the blank line that ends it.   *)
(* There is no clock: a wait ends at some time.                            *)
(***************************************************************************)
EXTENDS Integers, Sequences, FiniteSets

CONSTANTS
    Publishers,     \* goroutines that publish: passes, requests, the scheduler
    MaxEvents,      \* bound: events published
    MaxConnections, \* bound: connections the client makes
    HubCapacity,    \* of a subscriber's channel
    WireCapacity,   \* of a connection, in lines
    ClientCapacity  \* of the client's channel

ASSUME ConstantsAssumption ==
    /\ MaxEvents \in Nat \ {0} /\ MaxConnections \in Nat \ {0}
    /\ HubCapacity \in Nat \ {0} /\ WireCapacity \in Nat \ {0}
    /\ ClientCapacity \in Nat \ {0}

Events == 1..MaxEvents
Connections == 1..MaxConnections

VARIABLES
    up,         \* the daemon runs
    published,  \* the publisher of each event
    pub,        \* the calls of Publish: the event, and the channels left to send it to
    subs,       \* EventHub.subs: the connections whose channels are in the hub
    hub,        \* the subscribers' channels
    server,     \* the handlers: where, and the lines left to write
    alive,      \* the connections that both sides hold open
    wire,       \* the lines on their way
    client,     \* SubscribeEvents: where, on which connection, curName, curData
    cancelled,  \* its ctx is done
    out,        \* the channel it returns
    received,   \* history: what the app has received
    lost        \* history: events the client dropped

vars == <<up, published, pub, subs, hub, server, alive, wire, client, cancelled, out,
          received, lost>>

hubVars == <<published, pub, subs, hub>>
clientVars == <<client, cancelled, out, received, lost>>

-----------------------------------------------------------------------------
(* Lines and places *)

None == 0

Line(kind, e) == [kind |-> kind, event |-> e]
End == Line("end", None)

\* What the handler writes for an event.  Mutant: without the blank line.
FrameWithoutEnd(e) == <<Line("event", e), Line("data", e)>>
Frame(e) == <<Line("event", e), Line("data", e), End>>

Idle == [event |-> None, left |-> {}]
Handler(at, lines) == [at |-> at, lines |-> lines]
Reading(c, name, data) == [at |-> "reads", conn |-> c, name |-> name, data |-> data]
ClientAt(at) == [at |-> at, conn |-> None, name |-> None, data |-> <<>>]

Init ==
    /\ up = TRUE
    /\ published = <<>>
    /\ pub = [p \in Publishers |-> Idle]
    /\ subs = {}
    /\ hub = [c \in Connections |-> <<>>]
    /\ server = [c \in Connections |-> Handler("none", <<>>)]
    /\ alive = {}
    /\ wire = [c \in Connections |-> <<>>]
    /\ client = ClientAt("connects")
    /\ cancelled = FALSE
    /\ out = <<>> /\ received = <<>> /\ lost = {}

-----------------------------------------------------------------------------
(* The hub *)

\* The read lock is held by whoever publishes.
Unlocked == \A p \in Publishers : pub[p].event = None

\* EventHub.Publish takes the read lock and goes through the subscribers.
PublishStart(p) ==
    /\ up /\ pub[p].event = None
    /\ Len(published) < MaxEvents
    /\ published' = Append(published, p)
    /\ pub' = [pub EXCEPT ![p] = [event |-> Len(published'), left |-> subs]]
    /\ UNCHANGED <<up, subs, hub, server, alive, wire, clientVars>>

\* A channel offered an event keeps it if it has room.
Offered(channel, e) == IF Len(channel) < HubCapacity THEN Append(channel, e) ELSE channel

\* One send, which does not block.  Mutant: it does.
PublishSendBlocks(p) ==
    \E c \in pub[p].left :
        /\ Len(hub[c]) < HubCapacity
        /\ hub' = [hub EXCEPT ![c] = Offered(@, pub[p].event)]
        /\ pub' = [pub EXCEPT ![p].left = @ \ {c}]
        /\ UNCHANGED <<up, published, subs, server, alive, wire, clientVars>>

PublishSend(p) ==
    \E c \in pub[p].left :
        /\ hub' = [hub EXCEPT ![c] = Offered(@, pub[p].event)]
        /\ pub' = [pub EXCEPT ![p].left = @ \ {c}]
        /\ UNCHANGED <<up, published, subs, server, alive, wire, clientVars>>

PublishEnd(p) ==
    /\ pub[p].event # None /\ pub[p].left = {}
    /\ pub' = [pub EXCEPT ![p] = Idle]
    /\ UNCHANGED <<up, published, subs, hub, server, alive, wire, clientVars>>

\* EventHub.Subscribe, by the handler of a new connection.
Subscribe(c) ==
    /\ server[c].at = "starts" /\ Unlocked
    /\ subs' = subs \cup {c}
    /\ server' = [server EXCEPT ![c].at = "greets"]
    /\ UNCHANGED <<up, published, pub, hub, alive, wire, clientVars>>

\* EventHub.Unsubscribe removes the channel and closes it.  Mutant: without the lock.
UnsubscribeUnlocked(c) ==
    /\ server[c].at = "returns"
    /\ subs' = subs \ {c} /\ hub' = [hub EXCEPT ![c] = <<>>]
    /\ server' = [server EXCEPT ![c].at = "gone"]
    /\ UNCHANGED <<up, published, pub, alive, wire, clientVars>>

Unsubscribe(c) ==
    /\ server[c].at = "returns" /\ Unlocked
    /\ subs' = subs \ {c} /\ hub' = [hub EXCEPT ![c] = <<>>]
    /\ server' = [server EXCEPT ![c].at = "gone"]
    /\ UNCHANGED <<up, published, pub, alive, wire, clientVars>>

-----------------------------------------------------------------------------
(* The handler, getEventStream *)

HandlerBecomes(c, at, lines) ==
    /\ server' = [server EXCEPT ![c] = Handler(at, lines)]
    /\ UNCHANGED <<up, published, pub, subs, alive, clientVars>>

\* The greeting; a failed write may show at once or not.
HandlerGreets(c) ==
    /\ server[c].at = "greets"
    /\ \/ HandlerBecomes(c, "writes", <<End>>)
       \/ c \notin alive /\ HandlerBecomes(c, "returns", <<>>)
    /\ UNCHANGED <<hub, wire>>

\* The three cases of the select.
HandlerTakes(c) ==
    /\ server[c].at = "selects" /\ hub[c] # <<>>
    /\ HandlerBecomes(c, "writes", Frame(Head(hub[c])))
    /\ hub' = [hub EXCEPT ![c] = Tail(@)]
    /\ UNCHANGED wire

HandlerPings(c) ==
    /\ server[c].at = "selects"
    /\ HandlerBecomes(c, "writes", <<End>>)
    /\ UNCHANGED <<hub, wire>>

\* ... the request's context.
HandlerDone(c) ==
    /\ server[c].at = "selects" /\ c \notin alive
    /\ HandlerBecomes(c, "returns", <<>>)
    /\ UNCHANGED <<hub, wire>>

\* One line: it waits for room, or is lost on a broken connection, errors ignored.
HandlerWrites(c) ==
    /\ server[c].at = "writes"
    /\ IF server[c].lines = <<>>
       THEN HandlerBecomes(c, "selects", <<>>) /\ UNCHANGED wire
       ELSE /\ HandlerBecomes(c, "writes", Tail(server[c].lines))
            /\ IF c \in alive
               THEN /\ Len(wire[c]) < WireCapacity
                    /\ wire' = [wire EXCEPT ![c] = Append(@, Head(server[c].lines))]
               ELSE UNCHANGED wire
    /\ UNCHANGED hub

-----------------------------------------------------------------------------
(* The client, SubscribeEvents *)

\* A request, which starts a handler.
ClientConnects ==
    /\ client.at = "connects" /\ ~cancelled /\ up
    /\ \E c \in Connections :
          /\ server[c].at = "none"
          /\ \A d \in Connections : d < c => server[d].at # "none"
          /\ server' = [server EXCEPT ![c].at = "starts"]
          /\ alive' = alive \cup {c}
          /\ client' = Reading(c, None, <<>>)
    /\ UNCHANGED <<up, hubVars, wire, cancelled, out, received, lost>>

ClientGoes(at) ==
    /\ client' = ClientAt(at)
    /\ alive' = alive \ {client.conn}
    /\ wire' = IF client.conn = None THEN wire ELSE [wire EXCEPT ![client.conn] = <<>>]
    /\ UNCHANGED <<up, hubVars, server, cancelled, received, lost>>

ClientFails ==
    /\ client.at = "connects" /\ ~cancelled
    /\ ClientGoes("retries") /\ UNCHANGED out

\* After a failed request it waits for the retry interval or ctx, after a stream
\* that ended for the interval.
ClientRetries ==
    /\ client.at \in {"retries", "sleeps"}
    /\ ClientGoes("connects") /\ UNCHANGED out

\* flushFrame: a full channel drops the event.  Mutant: and its data stay.
FlushFrameKeeps ==
    IF client.name = None \/ client.data = <<>>
    THEN client' = Reading(client.conn, None, <<>>) /\ UNCHANGED <<out, lost>>
    ELSE IF Len(out) < ClientCapacity
    THEN /\ out' = Append(out, [name |-> client.name, data |-> client.data])
         /\ client' = Reading(client.conn, None, <<>>) /\ UNCHANGED lost
    ELSE /\ lost' = lost \cup {client.name}
         /\ UNCHANGED <<client, out>>

FlushFrame ==
    /\ client' = Reading(client.conn, None, <<>>)
    /\ IF client.name = None \/ client.data = <<>>
       THEN UNCHANGED <<out, lost>>
       ELSE IF Len(out) < ClientCapacity
       THEN /\ out' = Append(out, [name |-> client.name, data |-> client.data])
            /\ UNCHANGED lost
       ELSE lost' = lost \cup {client.name} /\ UNCHANGED out

\* One line.
ClientReads ==
    /\ client.at = "reads" /\ wire[client.conn] # <<>>
    /\ LET line == Head(wire[client.conn]) IN
       CASE line.kind = "event" ->
              /\ client' = [client EXCEPT !.name = line.event]
              /\ UNCHANGED <<out, lost>>
         [] line.kind = "data" ->
              /\ client' = [client EXCEPT !.data = Append(@, line.event)]
              /\ UNCHANGED <<out, lost>>
         [] line.kind = "end" -> FlushFrame
    /\ wire' = [wire EXCEPT ![client.conn] = Tail(@)]
    /\ UNCHANGED <<up, hubVars, server, alive, cancelled, received>>

\* The stream has ended, or its ctx is done while it reads.
ClientEnds ==
    /\ client.at = "reads"
    /\ cancelled \/ (client.conn \notin alive /\ wire[client.conn] = <<>>)
    /\ ClientGoes("sleeps") /\ UNCHANGED out

\* It sees that its ctx is done, and closes its channel.  Mutant: only between two
\* lines.
ClientStopsReading ==
    /\ cancelled /\ client.at = "reads"
    /\ ClientGoes("done") /\ UNCHANGED out

ClientStops ==
    /\ cancelled /\ client.at \in {"connects", "retries", "reads"}
    /\ ClientGoes("done") /\ UNCHANGED out

-----------------------------------------------------------------------------
(* The app and the daemon's life *)

\* The app takes an event from the channel.
Receive ==
    /\ out # <<>>
    /\ received' = Append(received, Head(out)) /\ out' = Tail(out)
    /\ UNCHANGED <<up, hubVars, server, alive, wire, client, cancelled, lost>>

\* The app quits.
Cancel ==
    /\ ~cancelled /\ cancelled' = TRUE
    /\ UNCHANGED <<up, hubVars, server, alive, wire, client, out, received, lost>>

\* The daemon dies, with the handlers and the hub.  What it has written stays readable.
DaemonDies ==
    /\ up /\ up' = FALSE
    /\ pub' = [p \in Publishers |-> Idle]
    /\ subs' = {} /\ hub' = [c \in Connections |-> <<>>]
    /\ server' = [c \in Connections |->
                     IF server[c].at = "none" THEN server[c] ELSE Handler("gone", <<>>)]
    /\ alive' = {}
    /\ UNCHANGED <<published, wire, clientVars>>

DaemonStarts ==
    /\ ~up /\ up' = TRUE
    /\ UNCHANGED <<hubVars, server, alive, wire, clientVars>>

-----------------------------------------------------------------------------
(* Specification *)

PublishStep(p) == PublishSend(p) \/ PublishEnd(p)

Next ==
    \/ \E p \in Publishers : PublishStart(p) \/ PublishStep(p)
    \/ \E c \in Connections :
          \/ Subscribe(c) \/ Unsubscribe(c)
          \/ HandlerGreets(c) \/ HandlerTakes(c) \/ HandlerPings(c) \/ HandlerDone(c)
          \/ HandlerWrites(c)
    \/ ClientConnects \/ ClientFails \/ ClientRetries \/ ClientReads \/ ClientEnds
    \/ ClientStops
    \/ Receive \/ Cancel \/ DaemonDies \/ DaemonStarts

\* Goroutines that can run do; the hub's lock is not refused to one waiter for ever, and
\* a select does not pass over a ready case for ever.
Fairness ==
    /\ \A p \in Publishers : WF_vars(PublishStep(p))
    /\ \A c \in Connections :
          /\ SF_vars(Subscribe(c)) /\ SF_vars(Unsubscribe(c))
          /\ WF_vars(HandlerGreets(c)) /\ WF_vars(HandlerWrites(c))
          /\ SF_vars(HandlerTakes(c)) /\ SF_vars(HandlerDone(c))
    /\ WF_vars(ClientRetries) /\ WF_vars(ClientReads) /\ WF_vars(ClientEnds)
    /\ WF_vars(ClientStops)

Spec == Init /\ [][Next]_vars

FairSpec == Spec /\ Fairness

-----------------------------------------------------------------------------
(* Safety *)

Places == {"none", "starts", "greets", "selects", "writes", "returns", "gone"}
Lines == [kind : {"event", "data", "end"}, event : Events \cup {None}]
Deliveries == [name : Events, data : Seq(Events)]

\* Type invariant, with the channels' bounds.
TypeOK ==
    /\ up \in BOOLEAN /\ cancelled \in BOOLEAN
    /\ published \in Seq(Publishers) /\ Len(published) <= MaxEvents
    /\ pub \in [Publishers -> [event : Events \cup {None}, left : SUBSET Connections]]
    /\ subs \subseteq Connections /\ alive \subseteq Connections
    /\ hub \in [Connections -> Seq(Events)]
    /\ \A c \in Connections : Len(hub[c]) <= HubCapacity
    /\ server \in [Connections -> [at : Places, lines : Seq(Lines)]]
    /\ wire \in [Connections -> Seq(Lines)]
    /\ \A c \in Connections : Len(wire[c]) <= WireCapacity
    /\ client \in [at : {"connects", "retries", "reads", "sleeps", "done"},
                   conn : Connections \cup {None}, name : Events \cup {None},
                   data : Seq(Events)]
    /\ out \in Seq(Deliveries) /\ Len(out) <= ClientCapacity
    /\ received \in Seq(Deliveries)
    /\ lost \subseteq Events

\* A publisher never sends on a channel that has been closed, which would panic
\* (hub.go:23-50): what it has left to visit stays in the hub.
NoSendOnClosed == \A p \in Publishers : pub[p].left \subseteq subs

\* What the app gets are whole events, each at most once and those of one publisher in
\* the order of publication, through dropped events, broken frames and new connections
\* (apis.go:244-303).
Delivered == received \o out
EventsArriveWhole ==
    /\ \A i \in DOMAIN Delivered : Delivered[i].data = <<Delivered[i].name>>
    /\ \A i, j \in DOMAIN Delivered :
          i < j /\ published[Delivered[i].name] = published[Delivered[j].name]
          => Delivered[i].name < Delivered[j].name

-----------------------------------------------------------------------------
(* Liveness *)

\* Publish returns, whether or not anybody reads: the maintain passes that call it hold
\* their locks (hub.go:41-48, calibration.go:355-377).
PublishReturns ==
    \A p \in Publishers : (pub[p].event # None) ~> (pub[p].event = None)

\* A handler whose connection is gone ends, and leaves the hub (handlers.go:627-649).
HandlersEnd ==
    \A c \in Connections :
        (server[c].at # "none" /\ c \notin alive) ~> (server[c].at = "gone" /\ c \notin subs)

\* The client closes its channel when its ctx is done (apis.go:207-208).
ClientCloses == cancelled ~> (client.at = "done")

\* Both ends of a broken stream are cleared away (handlers.go:627-649, apis.go:207-208).
StreamsEnd == HandlersEnd /\ ClientCloses

\* An event in a subscriber's channel reaches the client, unless the connection breaks
\* or the client's channel is full.
QueuedEventsArrive ==
    \A c \in Connections, e \in Events :
        (\E i \in DOMAIN hub[c] : hub[c][i] = e)
        ~> \/ e \in lost
           \/ \E i \in DOMAIN Delivered : Delivered[i].name = e
           \/ c \notin alive
=============================================================================
