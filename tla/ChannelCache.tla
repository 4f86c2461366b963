---------------------------- MODULE ChannelCache ----------------------------
(***************************************************************************)
(* The channel registry in Postgres and the list of channels that every    *)
(* instance keeps in memory, from src/repositories/channelRepository.ts,   *)
(* with its two readers: a route request, which asks for its corridor, and *)
(* the outcome handler, which asks for the default one to know a channel   *)
(* (knownChannel in src/server.ts).  The list is read between two awaits:  *)
(* a query that is under way when the cache is cleared fills it again.     *)
(* The readers ask the replica (dbRead), the operators write the primary   *)
(* (db): src/db/pool.ts says that in production they are two databases.    *)
(***************************************************************************)
EXTENDS Integers, Sequences, SequencesExt

CONSTANTS
    Channels, Corridors,
    DefaultCorridor,
    Instances,      \* the processes of the service
    Requests,       \* route requests
    Lookups,        \* knownChannel calls
    Operators,      \* calls that change the registry
    Home,           \* the instance that each of these runs in
    CacheTtl,       \* CACHE_TTL_MS
    MaxLag,         \* how far the replica may be behind: the code sets no bound
    MaxTime, MaxVersions,   \* bounds of the clock and of the changes
    Empty           \* no list in memory

Readers == Requests \union Lookups

ASSUME CacheAssumption ==
    /\ DefaultCorridor \in Corridors
    /\ Home \in [Readers \union Operators -> Instances]
    /\ Requests \intersect Lookups = {}
    /\ CacheTtl \in Nat \ {0}
    /\ MaxLag \in Nat
    /\ MaxTime \in Nat /\ MaxVersions \in Nat

VARIABLES
    now,
    versions,   \* Postgres: what the table has held, with the time each began
    replica,    \* Postgres: how many of them the replica has applied
    cache,      \* the list in the memory of each instance
    pc,         \* where each reader and each operator stands
    since,      \* the time the reader gave
    corridor,   \* the corridor it asks for
    rows        \* what it has read

vars == <<now, versions, replica, cache, pc, since, corridor, rows>>

Row == [id : Channels, corridor : Corridors, enabled : BOOLEAN]

\* The table on the primary.
table == Last(versions).table

\* The rows of corridor k in table T: SELECT ... WHERE corridor = k.
listChannels(T, k) == {r \in T : r.corridor = k}

(***************************************************************************)
(* Readers.                                                                *)
(***************************************************************************)
Fresh(i, t) == cache[i] # Empty /\ t - cache[i].at < CacheTtl

\* listChannelsCached(t, k): the list in memory, whatever its corridor, or a
\* query.
Call(x, k) ==
    /\ pc[x] = "idle"
    /\ corridor' = [corridor EXCEPT ![x] = k]
    /\ since' = [since EXCEPT ![x] = now]
    /\ IF Fresh(Home[x], now)
         THEN /\ rows' = [rows EXCEPT ![x] = cache[Home[x]].rows]
              /\ pc' = [pc EXCEPT ![x] = "answered"]
         ELSE /\ pc' = [pc EXCEPT ![x] = "query"]
              /\ UNCHANGED rows
    /\ UNCHANGED <<now, versions, replica, cache>>

\* A request names any corridor; a lookup means the default one.
RequestList(x) == \E k \in Corridors : Call(x, k)
knownChannel(x) == Call(x, DefaultCorridor)

\* The replica runs the query.
Query(x) ==
    /\ pc[x] = "query"
    /\ rows' = [rows EXCEPT ![x] = listChannels(versions[replica].table, corridor[x])]
    /\ pc' = [pc EXCEPT ![x] = "fill"]
    /\ UNCHANGED <<now, versions, replica, cache, since, corridor>>

\* The query fails and the call throws.
QueryFails(x) ==
    /\ pc[x] = "query"
    /\ pc' = [pc EXCEPT ![x] = "idle"]
    /\ since' = [since EXCEPT ![x] = 0]
    /\ corridor' = [corridor EXCEPT ![x] = DefaultCorridor]
    /\ UNCHANGED <<now, versions, replica, cache, rows>>

\* Fault: the age of the list counts from the end of the query.
Fill_late(x) ==
    /\ pc[x] = "fill"
    /\ cache' = [cache EXCEPT ![Home[x]] = [at |-> now, rows |-> rows[x]]]
    /\ pc' = [pc EXCEPT ![x] = "answered"]
    /\ UNCHANGED <<now, versions, replica, since, corridor, rows>>

\* The answer arrives: it fills the memory and is returned.
Fill(x) ==
    /\ pc[x] = "fill"
    /\ cache' = [cache EXCEPT ![Home[x]] = [at |-> since[x], rows |-> rows[x]]]
    /\ pc' = [pc EXCEPT ![x] = "answered"]
    /\ UNCHANGED <<now, versions, replica, since, corridor, rows>>

\* The reader has used the list.
Return(x) ==
    /\ pc[x] = "answered"
    /\ pc' = [pc EXCEPT ![x] = "idle"]
    /\ rows' = [rows EXCEPT ![x] = {}]
    /\ since' = [since EXCEPT ![x] = 0]
    /\ corridor' = [corridor EXCEPT ![x] = DefaultCorridor]
    /\ UNCHANGED <<now, versions, replica, cache>>

(***************************************************************************)
(* Changes of the registry.  Each is one statement, and then clears the    *)
(* list of its own instance.                                               *)
(***************************************************************************)
Change(o, T) ==
    /\ pc[o] = "idle" /\ Len(versions) < MaxVersions
    /\ versions' = Append(versions, [table |-> T, from |-> now])
    /\ pc' = [pc EXCEPT ![o] = "clear"]
    /\ UNCHANGED <<now, replica, cache, since, corridor, rows>>

setEnabled(o) ==
    \E r \in table, enabled \in BOOLEAN :
        Change(o, (table \ {r}) \union {[r EXCEPT !.enabled = enabled]})

upsertChannel(o) ==
    \E r \in Row : Change(o, {q \in table : q.id # r.id} \union {r})

deleteAllChannels(o) == Change(o, {})

clearChannelCache(o) ==
    /\ pc[o] = "clear"
    /\ cache' = [cache EXCEPT ![Home[o]] = Empty]
    /\ pc' = [pc EXCEPT ![o] = "idle"]
    /\ UNCHANGED <<now, versions, replica, since, corridor, rows>>

\* The replica applies the next change of the primary.
Replicate ==
    /\ replica < Len(versions)
    /\ replica' = replica + 1
    /\ UNCHANGED <<now, versions, cache, pc, since, corridor, rows>>

\* Time passes, and the replica is never more than MaxLag behind.
Tick ==
    /\ now < MaxTime
    /\ \A v \in DOMAIN versions : v > replica => now < versions[v].from + MaxLag
    /\ now' = now + 1
    /\ UNCHANGED <<versions, replica, cache, pc, since, corridor, rows>>

Init ==
    /\ now = 0
    /\ \E T \in {{}, {[id |-> c, corridor |-> DefaultCorridor, enabled |-> TRUE] :
                        c \in Channels}} :
          versions = <<[table |-> T, from |-> 0]>>
    /\ replica = 1
    /\ cache = [i \in Instances |-> Empty]
    /\ pc = [x \in Readers \union Operators |-> "idle"]
    /\ since = [x \in Readers |-> 0]
    /\ corridor = [x \in Readers |-> DefaultCorridor]
    /\ rows = [x \in Readers |-> {}]

Next ==
    \/ \E x \in Requests : RequestList(x)
    \/ \E x \in Lookups : knownChannel(x)
    \/ \E x \in Readers : Query(x) \/ QueryFails(x) \/ Fill(x) \/ Return(x)
    \/ \E o \in Operators :
          setEnabled(o) \/ upsertChannel(o) \/ deleteAllChannels(o)
             \/ clearChannelCache(o)
    \/ Replicate \/ Tick

Spec == Init /\ [][Next]_vars

(***************************************************************************)
(* What must hold.                                                         *)
(***************************************************************************)
\* The tables that were in force at some time after t.
InForceAfter(t) ==
    {versions[v].table : v \in {u \in DOMAIN versions :
        u = Len(versions) \/ versions[u + 1].from > t}}

\* A change is seen CACHE_TTL_MS and the lag of the replica later at the latest,
\* in every instance: a list that is handed out was in the table less than that
\* before it was asked for, although a slow query, or one that meets a replica
\* behind the primary, may put an old list back after the cache was cleared.
StaleAtMostTtlAndLag ==
    \A x \in Readers : pc[x] = "answered" =>
        \E T \in InForceAfter(since[x] - CacheTtl - MaxLag), k \in Corridors :
            rows[x] = listChannels(T, k)
=============================================================================
