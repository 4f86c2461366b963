----------------------------- MODULE AdminReset -----------------------------
(***************************************************************************)
(* The harness actions of src/services/adminService.ts, reset and seed,    *)
(* beside everything they meet: the outcome consumer of module             *)
(* OutcomeStream, which this module extends, and route requests.           *)
(* reset() clears the stores of Redis and Postgres one after the other;    *)
(* the consumer and the requests under way read and write the same stores  *)
(* between its steps, and any step may fail.  A breaker is here a key that *)
(* blocks its channel, as BreakerRules and RoutingProtocol say when.       *)
(***************************************************************************)
EXTENDS OutcomeStream

CONSTANTS
    Channels,
    ChannelOf,      \* the channel of each event
    NodeEnv         \* config.NODE_ENV

ASSUME AdminAssumption ==
    /\ ChannelOf \in [Events -> Channels]
    /\ NodeEnv \in {"development", "test", "production"}

VARIABLES
    table,      \* Postgres: the channels, of every corridor
    decisions,  \* Postgres: there are rows in routing_decisions
    breakers,   \* Redis: the channels with an OPEN or HALF_OPEN breaker:<id>
    probes,     \* Redis: the channels with a probe:<id>
    applying,   \* what each worker has still to do to the breaker
    route,      \* where the request that is given each channel stands
    step,       \* where reset() stands
    listed,     \* the channels it was told
    quiet,      \* history: nothing but the reset is at work since it began
    gone        \* history: the messages that a reset took off the stream

stores == <<table, decisions, breakers, probes>>
admin  == <<step, listed, quiet, gone>>
all    == <<vars, stores, applying, route, admin>>

(***************************************************************************)
(* The consumer.                                                           *)
(***************************************************************************)
Of(w) == ChannelOf[EventOf[current[w]]]

Applying(w, what) == applying' = [applying EXCEPT ![w] = what]

\* knownChannel and route() ask a list in memory, which may be older than the
\* table (ChannelCache says how much): a channel that exists may be missing from
\* it, and one that was deleted may still be there.

\* knownChannel says no, and the outcome is acknowledged unseen.
IgnoreUnknown(w) ==
    /\ pc[w] = "handle" /\ sent[current[w]] = "outcome"
    /\ Goto(w, "ack")
    /\ UNCHANGED <<redis, batch, current, sent, restarts, history, stores,
                   applying, route, admin>>

\* knownChannel says yes, or is not asked.
HandleKnown(w) ==
    /\ Handle(w)
    /\ UNCHANGED <<stores, applying, route, admin>>

\* windows.record; applyToBreaker comes next, and may find nothing to write.
RecordThenApply(w) ==
    /\ RecordOutcome(w)
    /\ \E what \in {"nothing", "write"} : Applying(w, what)
    /\ UNCHANGED <<stores, route, admin>>

\* The snapshot that was read before opens or closes the breaker.
WriteBreaker(w) ==
    /\ applying[w] = "write"
    /\ \/ breakers' = breakers \union {Of(w)} /\ Applying(w, "nothing")
       \/ breakers' = breakers \union {Of(w)} /\ Applying(w, "release")
       \/ breakers' = breakers \ {Of(w)} /\ Applying(w, "release")
    /\ UNCHANGED <<vars, table, decisions, probes, route, admin>>

ReleaseSlot(w) ==
    /\ applying[w] = "release"
    /\ probes' = probes \ {Of(w)}
    /\ Applying(w, "nothing")
    /\ UNCHANGED <<vars, table, decisions, breakers, route, admin>>

\* A failed call or the end of the process also ends what was to be applied.
WorkerStops(w) ==
    /\ HandlingFails(w) \/ Dies(w)
    /\ Applying(w, "nothing")
    /\ UNCHANGED <<stores, route, admin>>

Consume(w) ==
    \/ IgnoreUnknown(w) \/ HandleKnown(w) \/ RecordThenApply(w)
    \/ WriteBreaker(w) \/ ReleaseSlot(w) \/ WorkerStops(w)
    \/ /\ applying[w] = "nothing"
       /\ Ack(w) \/ DeadAdd(w)
       /\ UNCHANGED <<stores, applying, route, admin>>

\* Reading and claiming leave the other stores alone.
Take(w) ==
    /\ \/ w \in Readers /\ Read(w)
       \/ w \in Claimers /\ ClaimStale(w)
    /\ Applying(w, "nothing")
    /\ UNCHANGED <<stores, route, admin>>

(***************************************************************************)
(* A route request, from the read of the stores to the decision log.       *)
(***************************************************************************)
RouteTo(c, place) == route' = [route EXCEPT ![c] = place]

\* A breaker that is stored, or a window with outcomes, may have to be moved.
RouteReads(c) ==
    /\ route[c] = "none"
    /\ \/ RouteTo(c, "log")
       \/ /\ c \in breakers \/ \E e \in Events : ChannelOf[e] = c /\ counted[e] > 0
          /\ RouteTo(c, "write")
    /\ quiet' = FALSE
    /\ UNCHANGED <<vars, stores, applying, step, listed, gone>>

\* refreshBreakers writes OPEN, and another channel is chosen, or HALF_OPEN.
RouteWrites(c) ==
    /\ route[c] = "write"
    /\ breakers' = breakers \union {c}
    /\ RouteTo(c, "none") \/ RouteTo(c, "slot")
    /\ UNCHANGED <<vars, table, decisions, probes, applying, admin>>

RouteTakesSlot(c) ==
    /\ route[c] = "slot"
    /\ probes' = probes \union {c}
    /\ RouteTo(c, IF c \in probes THEN "none" ELSE "log")
    /\ UNCHANGED <<vars, table, decisions, breakers, applying, admin>>

RouteLogs(c) ==
    /\ route[c] = "log"
    /\ decisions' = TRUE
    /\ RouteTo(c, "none")
    /\ UNCHANGED <<vars, table, breakers, probes, applying, admin>>

RouteFails(c) ==
    /\ route[c] # "none"
    /\ RouteTo(c, "none")
    /\ UNCHANGED <<vars, stores, applying, admin>>

Request(c) ==
    \/ RouteReads(c) \/ RouteWrites(c) \/ RouteTakesSlot(c) \/ RouteLogs(c)
    \/ RouteFails(c)

(***************************************************************************)
(* src/services/adminService.ts                                            *)
(***************************************************************************)
notProduction == NodeEnv # "production"

Idle == /\ \A w \in Workers : pc[w] = "idle"
        /\ \A c \in Channels : route[c] = "none"
        /\ pending = <<>> /\ (group = Len(stream) \/ stream = <<>>)

\* One step of reset(), from a place to the next.
Step(from, to) ==
    /\ step = from /\ step' = to
    /\ UNCHANGED <<pc, batch, current, sent, restarts, acked, applying, route>>

Reset ==
    /\ notProduction /\ step = "none"
    /\ step' = "windows"
    /\ quiet' = Idle
    /\ UNCHANGED <<vars, stores, applying, route, listed, gone>>

\* windows.clear: every sw:* key.
ClearWindows ==
    /\ Step("windows", "list")
    /\ counted' = [e \in Events |-> 0]
    /\ UNCHANGED <<redis, forgotten, stores, listed, quiet, gone>>

\* listChannels: the channels of the default corridor, as the replica has them,
\* which may be behind the table.
ListChannels ==
    /\ Step("list", "breakers")
    /\ listed' \in SUBSET Channels
    /\ UNCHANGED <<redis, counted, forgotten, stores, quiet, gone>>

\* BreakerStore.reset: one MULTI for the listed channels.
ResetBreakers ==
    /\ Step("breakers", "decisions")
    /\ breakers' = breakers \ listed /\ probes' = probes \ listed
    /\ UNCHANGED <<redis, counted, forgotten, table, decisions, listed,
                   quiet, gone>>

TruncateDecisions ==
    /\ Step("decisions", "channels")
    /\ decisions' = FALSE
    /\ UNCHANGED <<redis, counted, forgotten, table, breakers, probes, listed, quiet, gone>>

DeleteChannels ==
    /\ Step("channels", "stream")
    /\ table' = {}
    /\ UNCHANGED <<redis, counted, forgotten, decisions, breakers, probes, listed, quiet, gone>>

\* Fault: only the group is removed (XGROUP DESTROY), the entries stay.
DeleteStream_groupOnly ==
    /\ Step("stream", "letters")
    /\ group' = -1 /\ pending' = <<>>
    /\ gone' = gone \union ToSet(stream)
    /\ UNCHANGED <<stream, quiet, processed, dead, counted, forgotten, stores, listed>>

\* DEL takes the group with the stream.  A failure of it is swallowed.
DeleteStream ==
    /\ Step("stream", "letters")
    /\ \/ /\ stream' = <<>> /\ group' = -1 /\ pending' = <<>>
          /\ gone' = gone \union ToSet(stream)
          /\ UNCHANGED quiet
       \/ quiet' = FALSE /\ UNCHANGED <<stream, group, pending, gone>>
    /\ UNCHANGED <<processed, dead, counted, forgotten, stores, listed>>

DeleteLetters ==
    /\ Step("letters", "group")
    /\ \/ dead' = {} /\ UNCHANGED quiet
       \/ quiet' = FALSE /\ UNCHANGED dead
    /\ UNCHANGED <<stream, group, pending, processed, counted, forgotten, stores,
                   listed, gone>>

\* Fault: the group begins at the end of the stream.
MakeGroup_atEnd ==
    /\ Step("group", "processed")
    /\ group' = IF group = -1 THEN Len(stream) ELSE group
    /\ UNCHANGED <<stream, pending, processed, dead, counted, forgotten, stores,
                   listed, quiet, gone>>

\* XGROUP CREATE from the beginning; the consumer may have made it already.
MakeGroup ==
    /\ Step("group", "processed")
    /\ group' = IF group = -1 THEN 0 ELSE group
    /\ UNCHANGED <<stream, pending, processed, dead, counted, forgotten, stores,
                   listed, quiet, gone>>

\* Fault: one SCAN with its COUNT, and not every page.
DeleteProcessed_someKeys ==
    /\ Step("processed", "probes")
    /\ \E S \in SUBSET processed : processed' = S /\ forgotten' = forgotten \union (processed \ S)
    /\ UNCHANGED <<stream, group, pending, dead, counted, stores, listed,
                   quiet, gone>>

\* deleteByPattern: every processed:* key.
DeleteProcessed ==
    /\ Step("processed", "probes")
    /\ processed' = {} /\ forgotten' = forgotten \union processed
    /\ UNCHANGED <<stream, group, pending, dead, counted, stores, listed,
                   quiet, gone>>

\* deleteByPattern: every probe:* key, and the answer.
DeleteProbes ==
    /\ Step("probes", "none")
    /\ probes' = {} /\ listed' = {} /\ quiet' = FALSE
    /\ UNCHANGED <<redis, counted, forgotten, table, decisions, breakers, gone>>

\* A step throws, and the rest is not done.
ResetFails ==
    /\ step \notin {"none", "stream", "letters"}
    /\ step' = "none" /\ listed' = {} /\ quiet' = FALSE
    /\ UNCHANGED <<vars, stores, applying, route, gone>>

ResetSteps ==
    \/ ClearWindows \/ ListChannels \/ ResetBreakers \/ TruncateDecisions
    \/ DeleteChannels \/ DeleteStream \/ DeleteLetters \/ MakeGroup
    \/ DeleteProcessed \/ DeleteProbes

\* One upsert of seed.
Seed(c) ==
    /\ notProduction
    /\ table' = table \union {c} /\ quiet' = FALSE
    /\ UNCHANGED <<vars, decisions, breakers, probes, applying, route, step, listed, gone>>

\* The producer and the time go on.
Produce(m) ==
    /\ Publish(m) /\ quiet' = FALSE
    /\ UNCHANGED <<stores, applying, route, step, listed, gone>>

Time ==
    /\ (\E m \in Messages : GrowIdle(m)) \/ (\E e \in Events : Expire(e))
    /\ UNCHANGED <<stores, applying, route, admin>>

AdminInit ==
    /\ Init
    /\ table \in SUBSET Channels
    /\ decisions = FALSE /\ breakers = {} /\ probes = {}
    /\ applying = [w \in Workers |-> "nothing"]
    /\ route = [c \in Channels |-> "none"]
    /\ step = "none" /\ listed = {}
    /\ quiet = FALSE /\ gone = {}

AdminNext ==
    \/ \E w \in Workers : Take(w) \/ Consume(w)
    \/ \E c \in Channels : Request(c) \/ Seed(c)
    \/ Reset \/ ResetSteps \/ ResetFails
    \/ Time \/ \E m \in Messages : Produce(m)

AdminSpec == AdminInit /\ [][AdminNext]_all

(***************************************************************************)
(* What must hold.                                                         *)
(***************************************************************************)
\* Nothing is left but the empty stream, its group, and the breakers of
\* channels that the reset did not list.
Cleared ==
    /\ table = {} /\ ~decisions
    /\ \A e \in Events : counted[e] = 0
    /\ probes = {}
    /\ stream = <<>> /\ pending = <<>> /\ group = 0
    /\ processed = {} /\ dead = {}

\* A reset that nothing disturbs puts the service back to a known state, also
\* after what late writers left behind when they disturbed an earlier one
\* (adminService.ts: "the order is the point").  What it cannot see is a breaker
\* of a channel that is not on its list: one of another corridor, one the replica
\* does not have yet, or one that such a writer left for a channel no longer in
\* the table.
ResetIsComplete ==
    [][DeleteProbes /\ quiet =>
          Cleared' /\ breakers' \intersect listed = {}]_all

Has(w) == ({current[w]} \union {batch[w][i].message : i \in DOMAIN batch[w]})
             \ {NoMessage}

\* No outcome of before a reset comes after it: once the stream is deleted, a
\* worker works on an entry of it only if it had it in memory already, whatever
\* is claimed, retried or read by the group that is made again.
OldOutcomesStop ==
    [][\A w \in Workers : Has(w)' \intersect gone \subseteq Has(w)]_all

\* Whoever makes the group again, and whatever was published meanwhile, no entry
\* is passed over: one that the group has gone by is pending or acknowledged
\* (adminService.ts: "the consumer would read NOGROUP forever").
NothingIsSkipped ==
    \A i \in 1 .. group : stream[i] \in DOMAIN pending \union acked

=============================================================================
