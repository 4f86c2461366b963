------------------------------- MODULE Console -------------------------------
(***************************************************************************)
(* A page of the console and the contract status it shows, from            *)
(* console/src/App.tsx, console/src/api.ts, console/src/components/        *)
(* Controls.tsx and src/services/contractStatusService.ts.  The page polls *)
(* both services and asks for the contracts now and then; the service      *)
(* reads them from the broker and remembers the answer for a while.        *)
(* Refreshes overlap, and so do the calls of status(): whatever answers    *)
(* last is kept.  What is shown is modelled by the time it was true.       *)
(***************************************************************************)
EXTENDS Integers, FiniteSets

CONSTANTS
    Parts,          \* the halves of the page: one for each service it polls
    Page, Others,   \* who calls status(): this page, and other readers
    Poll,           \* the interval of the timer, 1 s
    Timeout,        \* REQUEST_TIMEOUT_MS
    AskEvery,       \* the contracts are asked for after more than 15 s
    CacheTtl,       \* CACHE_TTL_MS
    BrokerTimeout,  \* AbortSignal.timeout of both calls of the broker
    MaxTime,        \* bound of the clock
    None

Callers == {Page} \union Others

ASSUME ConsoleAssumption ==
    /\ Page \notin Others /\ None \notin Int
    /\ Poll \in Nat \ {0} /\ Timeout \in Nat /\ AskEvery \in Nat
    /\ CacheTtl \in Nat \ {0} /\ BrokerTimeout \in Nat /\ MaxTime \in Nat
    /\ Timeout + BrokerTimeout <= AskEvery  \* 6 + 2 * 2 <= 15

VARIABLES
    now,
    polled,         \* page: when the timer fired last
    refreshes,      \* page: when the refresh()es under way began
    shown,          \* page: the time that each half tells of
    up,             \* page: switchUp and disbursementUp
    contractsAt,    \* page: when it asked for the contracts
    waiting,        \* page: it waits for their answer
    contracts,      \* page: the answer it shows
    pc,             \* service: where each call of status() stands
    at,             \* service: its `now`, and the checkedAt of its answer
    cache           \* service: the last answer, and its age

page    == <<polled, refreshes, shown, up>>
panel   == <<contractsAt, waiting, contracts>>
service == <<pc, at, cache>>
vars    == <<now, page, panel, service>>

Times == 0 .. MaxTime

TypeOK ==
    /\ now \in Times
    /\ polled \in Times /\ polled <= now /\ now < polled + Poll
    /\ refreshes \subseteq 0 .. now
    /\ \A start \in refreshes : now - start <= Timeout
    /\ shown \in [Parts -> Times \union {None}] /\ up \in [Parts -> BOOLEAN]
    /\ contractsAt \in -(AskEvery + 1) .. now
    /\ waiting \in BOOLEAN
    /\ contracts \in Times \union {None}
    /\ pc \in [Callers -> {"idle", "sent", "reading", "answered"}]
    /\ at \in [Callers -> Times]
    /\ cache = None \/ cache \in [at : Times, checkedAt : Times]

(***************************************************************************)
(* The page.                                                               *)
(***************************************************************************)
Due == now - contractsAt > AskEvery

\* Fault: a half that failed keeps its green dot.
Settled_keepsUp(ok) == [p \in Parts |-> up[p] \/ p \in ok]

\* The dots after a refresh in which the halves ok were answered.
Settled(ok) == [p \in Parts |-> p \in ok]

\* Promise.allSettled: both halves have come to an end, each with all of its
\* answers or without one.  The timer and a button may have begun more than one
\* refresh at that moment, and then the others are still under way.
Settle(start) ==
    /\ start \in refreshes
    /\ refreshes' \in {refreshes, refreshes \ {start}}
    /\ \E ok \in SUBSET Parts, seen \in [Parts -> start .. now] :
          /\ shown' = [p \in Parts |-> IF p \in ok THEN seen[p] ELSE shown[p]]
          /\ up' = Settled(ok)
    /\ IF Due
         THEN /\ contractsAt' = now /\ waiting' = TRUE
              /\ pc' = [pc EXCEPT ![Page] = "sent"]
         ELSE UNCHANGED <<contractsAt, waiting, pc>>
    /\ UNCHANGED <<now, polled, contracts, at, cache>>

\* then(setContracts)
ContractsArrive ==
    /\ waiting /\ pc[Page] = "answered"
    /\ contracts' = at[Page] /\ waiting' = FALSE
    /\ pc' = [pc EXCEPT ![Page] = "idle"]
    /\ at' = [at EXCEPT ![Page] = 0]
    /\ UNCHANGED <<now, page, contractsAt, cache>>

\* Fault: the panel keeps what it showed.
ContractsFail_keep ==
    /\ waiting /\ waiting' = FALSE
    /\ pc' = [pc EXCEPT ![Page] = IF @ = "sent" THEN "idle" ELSE @]
    /\ UNCHANGED <<now, page, contractsAt, contracts, at, cache>>

\* catch(() => setContracts(null)): an error, or the timeout of the request.
ContractsFail ==
    /\ waiting
    /\ contracts' = None /\ waiting' = FALSE
    /\ pc' = [pc EXCEPT ![Page] = IF @ = "sent" THEN "idle" ELSE @]
    /\ UNCHANGED <<now, page, contractsAt, at, cache>>

\* run() of Controls.tsx: the call of a button has succeeded, and onChanged
\* refreshes the page.
Changed ==
    /\ refreshes' = refreshes \union {now}
    /\ UNCHANGED <<now, polled, shown, up, panel, service>>

(***************************************************************************)
(* The service: status() and readBroker().                                 *)
(***************************************************************************)
Goto(c, place, time) ==
    /\ pc' = [pc EXCEPT ![c] = place]
    /\ at' = [at EXCEPT ![c] = time]

Fresh == cache # None /\ now - cache.at < CacheTtl

\* The remembered answer, or the broker.
Status(c) ==
    /\ pc[c] = "sent" \/ (c \in Others /\ pc[c] = "idle")
    /\ IF Fresh THEN Goto(c, "answered", cache.checkedAt) ELSE Goto(c, "reading", now)
    /\ UNCHANGED <<now, page, panel, cache>>

\* Fault: the age of the answer counts from its end.
Remember_late(c) == cache' = [at |-> now, checkedAt |-> at[c]]

Remember(c) == cache' = [at |-> at[c], checkedAt |-> at[c]]

\* The two calls of the broker have come to an end.  One that failed leaves its
\* rows out and makes the answer say so; it is remembered all the same.
ReadBroker(c) ==
    /\ pc[c] = "reading"
    /\ Goto(c, "answered", at[c]) /\ Remember(c)
    /\ UNCHANGED <<now, page, panel>>

\* The answer reaches another reader, or nobody waits for it any more.
Hand(c) ==
    /\ pc[c] = "answered" /\ (c = Page => ~waiting)
    /\ Goto(c, "idle", 0)
    /\ UNCHANGED <<now, page, panel, cache>>

(***************************************************************************)
(* Time.  Timers fire when they are due, so nothing lasts longer than its  *)
(* timeout.                                                                *)
(***************************************************************************)
\* Fault: the requests of a refresh have no timeout.
InTime_hangs ==
    /\ waiting => now - contractsAt < Timeout
    /\ \A c \in Callers : pc[c] = "reading" => now - at[c] < BrokerTimeout

InTime ==
    /\ \A start \in refreshes : now - start < Timeout
    /\ waiting => now - contractsAt < Timeout
    /\ \A c \in Callers : pc[c] = "reading" => now - at[c] < BrokerTimeout

Tick ==
    /\ now < MaxTime /\ InTime
    /\ now' = now + 1
    /\ IF now' = polled + Poll
         THEN polled' = now' /\ refreshes' = refreshes \union {now'}
         ELSE UNCHANGED <<polled, refreshes>>
    /\ UNCHANGED <<shown, up, panel, service>>

Init ==
    /\ now = 0 /\ polled = 0 /\ refreshes = {0}
    /\ shown = [p \in Parts |-> None] /\ up = [p \in Parts |-> TRUE]
    /\ contractsAt = -(AskEvery + 1) /\ waiting = FALSE /\ contracts = None
    /\ pc = [c \in Callers |-> "idle"]
    /\ at = [c \in Callers |-> 0] /\ cache = None

Next ==
    \/ \E start \in refreshes : Settle(start)
    \/ ContractsArrive \/ ContractsFail \/ Changed
    \/ \E c \in Callers : Status(c) \/ ReadBroker(c) \/ Hand(c)
    \/ Tick

Spec == Init /\ [][Next]_vars

(***************************************************************************)
(* What must hold.                                                         *)
(***************************************************************************)
\* While its dot is green, a half of the page tells of a time at most one poll
\* and two timeouts ago, although refreshes overlap and an older answer may
\* replace a newer one (App.tsx: "the poll above keeps the numbers exact").
ShownWhileUp ==
    \A p \in Parts :
        up[p] /\ shown[p] # None => now - shown[p] <= Poll + 2 * Timeout

\* An answer of status() began to be read less than the TTL before it was asked
\* for or afterwards, although the slowest of overlapping calls fills the cache,
\* perhaps with a broker that was away (contractStatusService.ts: CACHE_TTL_MS).
StatusIsFresh ==
    [][\A c \in Callers :
          Status(c) /\ pc'[c] = "answered" =>
              now - at'[c] < CacheTtl]_vars

\* The panel never shows rows older than the TTL, the pause between two
\* questions and the time a refresh and an answer may take.
PanelIsRecent ==
    contracts # None =>
        now - contracts < CacheTtl + AskEvery + Poll + 2 * Timeout
=============================================================================
