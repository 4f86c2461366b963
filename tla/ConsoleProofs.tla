---------------------------- MODULE ConsoleProofs ----------------------------
(***************************************************************************)
(* Proofs about Console: how old what the page shows may be, for every     *)
(* poll, timeout and TTL.  An old answer may replace a newer one, so the   *)
(* invariant does not follow the answers: it says that a refresh which is  *)
(* soon to come, or under way, will replace what is shown now.             *)
(***************************************************************************)
EXTENDS Console, TLAPS

\* A refresh that begins at most a poll after t is under way, or the timer has
\* yet to begin it.
RefreshedFrom(t) == polled <= t \/ \E s \in refreshes : s <= t + Poll

ShownInv ==
    \A p \in Parts : up[p] /\ shown[p] # None => RefreshedFrom(shown[p] + Timeout)

\* What status() remembers is as old as it says.
CacheInv == cache # None => cache.at = cache.checkedAt

\* The page's own question, from the asking to the answer.
QuestionInv ==
    /\ waiting => now - contractsAt <= Timeout
    /\ waiting /\ pc[Page] = "reading" => contractsAt <= at[Page]
    /\ waiting /\ pc[Page] = "answered" => contractsAt < at[Page] + CacheTtl

PanelInv ==
    /\ RefreshedFrom(contractsAt + AskEvery)
    /\ contracts # None /\ ~waiting => contractsAt < contracts + CacheTtl
    /\ contracts # None /\ waiting =>
          contractsAt < contracts + CacheTtl + AskEvery + Poll + Timeout

IInv == TypeOK /\ ShownInv /\ CacheInv /\ QuestionInv /\ PanelInv

(***************************************************************************)
(* Types.                                                                  *)
(***************************************************************************)
LEMMA TypeInit == Init => TypeOK
<1> SUFFICES ASSUME Init PROVE TypeOK
  OBVIOUS
<1> USE ConsoleAssumption DEF Init, Times
<1>1. now \in Times /\ contractsAt \in -(AskEvery + 1) .. now
  OBVIOUS
<1>2. polled \in Times /\ polled <= now /\ now < polled + Poll
  OBVIOUS
<1>3. refreshes \subseteq 0 .. now /\ \A start \in refreshes : now - start <= Timeout
  OBVIOUS
<1>4. shown \in [Parts -> Times \union {None}] /\ up \in [Parts -> BOOLEAN]
  OBVIOUS
<1>5. /\ pc \in [Callers -> {"idle", "sent", "reading", "answered"}]
      /\ at \in [Callers -> Times]
  OBVIOUS
<1> QED
  BY <1>1, <1>2, <1>3, <1>4, <1>5 DEF TypeOK

\* What a step changes keeps its type.
LEMMA TypeStep ==
    ASSUME TypeOK, [Next]_vars
    PROVE  TypeOK'
<1> USE ConsoleAssumption DEF TypeOK, Times
<1>1. Page \in Callers
  BY DEF Callers
<1>2. ASSUME NEW start \in refreshes, Settle(start)
      PROVE  TypeOK'
  <2>1. PICK ok \in SUBSET Parts, seen \in [Parts -> start .. now] :
          /\ shown' = [p \in Parts |-> IF p \in ok THEN seen[p] ELSE shown[p]]
          /\ up' = Settled(ok)
    BY <1>2 DEF Settle
  <2>2. start .. now \subseteq Times
    OBVIOUS
  <2>3. shown' \in [Parts -> Times \union {None}]
    BY <2>1, <2>2
  <2>4. up' \in [Parts -> BOOLEAN]
    BY <2>1 DEF Settled
  <2>5. /\ contractsAt' \in -(AskEvery + 1) .. now
        /\ waiting' \in BOOLEAN
        /\ pc' \in [Callers -> {"idle", "sent", "reading", "answered"}]
    <3>1. CASE Due
      <4>1. contractsAt' = now /\ waiting' = TRUE /\ pc' = [pc EXCEPT ![Page] = "sent"]
        BY <1>2, <3>1 DEF Settle
      <4>2. now \in -(AskEvery + 1) .. now
        OBVIOUS
      <4>3. now' = now
        BY <1>2 DEF Settle
      <4> QED  BY <1>1, <4>1, <4>2, <4>3
    <3>2. CASE ~Due
      BY <1>2, <3>2 DEF Settle
    <3> QED  BY <3>1, <3>2
  <2> QED
    BY <1>2, <2>3, <2>4, <2>5 DEF Settle
<1>3. CASE ContractsArrive
  <2>1. at[Page] \in Times
    BY <1>1
  <2>2. at' \in [Callers -> Times]
    <3>1. at \in [Callers -> Times] /\ 0 \in Times
      OBVIOUS
    <3>2. at' = [at EXCEPT ![Page] = 0]
      BY <1>3 DEF ContractsArrive
    <3> QED  BY <3>1, <3>2
  <2>3. pc' \in [Callers -> {"idle", "sent", "reading", "answered"}]
    BY <1>3 DEF ContractsArrive
  <2> QED  BY <1>3, <2>1, <2>2, <2>3 DEF ContractsArrive, page
<1>4. CASE ContractsFail
  BY <1>1, <1>4 DEF ContractsFail, page
<1>5. CASE Changed
  BY <1>5 DEF Changed, panel, service
<1>6. ASSUME NEW c \in Callers, Status(c)
      PROVE  TypeOK'
  BY <1>6 DEF Status, Fresh, Goto, page, panel
<1>7. ASSUME NEW c \in Callers, ReadBroker(c)
      PROVE  TypeOK'
  BY <1>7 DEF ReadBroker, Remember, Goto, page, panel
<1>8. ASSUME NEW c \in Callers, Hand(c)
      PROVE  TypeOK'
  BY <1>8 DEF Hand, Goto, page, panel
<1>9. CASE Tick
  <2>1. now' \in Times /\ now' = now + 1
    BY <1>9 DEF Tick
  <2>2. polled' \in Times /\ polled' <= now' /\ now' < polled' + Poll
    BY <1>9, <2>1 DEF Tick
  <2>3. /\ refreshes' \subseteq 0 .. now'
        /\ \A start \in refreshes' : now' - start <= Timeout
    <3>1. refreshes' \subseteq refreshes \union {now'}
      BY <1>9, <2>1 DEF Tick
    <3>2. \A start \in refreshes : now - start < Timeout
      BY <1>9 DEF Tick, InTime
    <3>3. \A start \in refreshes : start \in 0 .. now' /\ now' - start <= Timeout
      BY <2>1, <3>2
    <3>4. now' \in 0 .. now' /\ now' - now' <= Timeout
      BY <2>1
    <3> QED  BY <3>1, <3>3, <3>4
  <2>4. contractsAt' \in -(AskEvery + 1) .. now'
    BY <1>9, <2>1 DEF Tick, panel
  <2> QED
    BY <1>9, <2>1, <2>2, <2>3, <2>4 DEF Tick, panel, service
<1>10. CASE UNCHANGED vars
  BY <1>10 DEF vars, page, panel, service
<1> QED
  BY <1>2, <1>3, <1>4, <1>5, <1>6, <1>7, <1>8, <1>9, <1>10 DEF Next

(***************************************************************************)
(* What is shown.                                                          *)
(***************************************************************************)
\* Whatever is t or later stays so for a refresh that begins.
LEMMA RefreshedTick ==
    ASSUME TypeOK, Tick, NEW t \in Int, RefreshedFrom(t)
    PROVE  RefreshedFrom(t)'
<1> USE ConsoleAssumption DEF TypeOK, Times, RefreshedFrom
<1>1. CASE now' = polled + Poll
  <2>1. polled' = now' /\ refreshes' = refreshes \union {now'}
    BY <1>1 DEF Tick
  <2>2. CASE polled <= t
    BY <1>1, <2>1, <2>2
  <2>3. CASE \E s \in refreshes : s <= t + Poll
    BY <2>1, <2>3
  <2> QED  BY <2>2, <2>3
<1>2. CASE now' # polled + Poll
  BY <1>2 DEF Tick
<1> QED  BY <1>1, <1>2

\* A refresh that ends at t has been followed by the timer.
LEMMA RefreshedNow ==
    ASSUME TypeOK, NEW t \in Int, now <= t
    PROVE  RefreshedFrom(t)
BY ConsoleAssumption DEF TypeOK, Times, RefreshedFrom

\* The next answer comes in time.
LEMMA RefreshedSoon ==
    ASSUME TypeOK, NEW t \in Int, RefreshedFrom(t)
    PROVE  now <= t + Poll + Timeout
BY ConsoleAssumption DEF TypeOK, Times, RefreshedFrom

LEMMA ShownStep ==
    ASSUME TypeOK, TypeOK', ShownInv, [Next]_vars
    PROVE  ShownInv'
<1> USE ConsoleAssumption
<1>1. ASSUME NEW start \in refreshes, Settle(start)
      PROVE  ShownInv'
  <2> SUFFICES ASSUME NEW p \in Parts, up'[p], shown'[p] # None
               PROVE  RefreshedFrom(shown[p] + Timeout)'
    BY DEF ShownInv
  <2>1. PICK ok \in SUBSET Parts, seen \in [Parts -> start .. now] :
          /\ shown' = [q \in Parts |-> IF q \in ok THEN seen[q] ELSE shown[q]]
          /\ up' = Settled(ok)
    BY <1>1 DEF Settle
  <2>2. p \in ok
    BY <2>1 DEF Settled
  <2>3. shown'[p] \in start .. now
    BY <2>1, <2>2
  <2>4. now' = now /\ polled' = polled /\ start \in Int /\ now - start <= Timeout
    BY <1>1 DEF Settle, TypeOK
  <2>5. polled' <= shown'[p] + Timeout
    BY <2>3, <2>4 DEF TypeOK, Times
  <2> QED  BY <2>5 DEF RefreshedFrom
<1>2. CASE Changed
  BY <1>2 DEF Changed, ShownInv, RefreshedFrom
<1>3. CASE Tick
  <2> SUFFICES ASSUME NEW p \in Parts, up'[p], shown'[p] # None
               PROVE  RefreshedFrom(shown[p] + Timeout)'
    BY DEF ShownInv
  <2>1. up' = up /\ shown' = shown
    BY <1>3 DEF Tick
  <2>2. shown[p] \in Times /\ RefreshedFrom(shown[p] + Timeout)
    BY <2>1 DEF ShownInv, TypeOK
  <2>3. shown[p] + Timeout \in Int
    BY <2>2 DEF Times
  <2>4. DEFINE t == shown[p] + Timeout
  <2>5. \A u \in Int : RefreshedFrom(u) => (polled' <= u \/ \E s \in refreshes' : s <= u + Poll)
    <3> TAKE u \in Int
    <3> HAVE RefreshedFrom(u)
    <3> QED  BY <1>3, RefreshedTick DEF RefreshedFrom
  <2> QED  BY <2>1, <2>2, <2>3, <2>5 DEF RefreshedFrom
<1>4. CASE UNCHANGED <<polled, refreshes, shown, up>>
  BY <1>4 DEF ShownInv, RefreshedFrom
<1> QED
  BY <1>1, <1>2, <1>3, <1>4
  DEF Next, ContractsArrive, ContractsFail, Status, ReadBroker, Hand, vars, page

(***************************************************************************)
(* The contracts.                                                          *)
(***************************************************************************)
\* An answer is remembered with the time of its own call.
LEMMA CacheStep ==
    ASSUME TypeOK, CacheInv, [Next]_vars
    PROVE  CacheInv'
<1>1. ASSUME NEW c \in Callers, ReadBroker(c)
      PROVE  CacheInv'
  BY <1>1 DEF ReadBroker, Remember, CacheInv
<1>2. CASE UNCHANGED cache
  BY <1>2 DEF CacheInv
<1> QED
  BY <1>1, <1>2 DEF Next, Settle, ContractsArrive, ContractsFail, Changed, Status,
                    Hand, Tick, vars, panel, service

LEMMA QuestionStep ==
    ASSUME TypeOK, TypeOK', CacheInv, QuestionInv, [Next]_vars
    PROVE  QuestionInv'
<1> USE ConsoleAssumption DEF TypeOK, Times, QuestionInv
<1>1. Page \in Callers
  BY DEF Callers
<1>2. ASSUME NEW start \in refreshes, Settle(start)
      PROVE  QuestionInv'
  <2>1. CASE Due
    BY <1>1, <1>2, <2>1 DEF Settle
  <2>2. CASE ~Due
    BY <1>2, <2>2 DEF Settle
  <2> QED  BY <2>1, <2>2
<1>3. CASE ContractsArrive \/ ContractsFail
  BY <1>3 DEF ContractsArrive, ContractsFail
<1>4. CASE Changed
  BY <1>4 DEF Changed, panel, service
<1>5. ASSUME NEW c \in Callers, Status(c)
      PROVE  QuestionInv'
  <2>1. UNCHANGED <<now, contractsAt, waiting>>
    BY <1>5 DEF Status, panel
  <2>2. CASE c # Page
    BY <1>1, <1>5, <2>1, <2>2 DEF Status, Goto
  <2>3. CASE c = Page /\ Fresh
    BY <1>1, <1>5, <2>1, <2>3 DEF Status, Goto, Fresh, CacheInv
  <2>4. CASE c = Page /\ ~Fresh
    BY <1>1, <1>5, <2>1, <2>4 DEF Status, Goto
  <2> QED  BY <2>2, <2>3, <2>4
<1>6. ASSUME NEW c \in Callers, ReadBroker(c)
      PROVE  QuestionInv'
  <2>1. UNCHANGED <<now, contractsAt, waiting>>
    BY <1>6 DEF ReadBroker, panel
  <2>2. pc[c] = "reading" /\ at' = at
    BY <1>6 DEF ReadBroker, Goto
  <2>3. CASE c # Page
    BY <1>1, <1>6, <2>1, <2>2, <2>3 DEF ReadBroker, Goto
  <2>4. CASE c = Page
    <3>1. pc'[Page] = "answered"
      BY <1>1, <1>6, <2>4 DEF ReadBroker, Goto
    <3>2. at[Page] \in Int /\ contractsAt \in Int
      BY <1>1
    <3>3. waiting => contractsAt < at[Page] + CacheTtl
      BY <2>2, <2>4, <3>2
    <3> QED  BY <2>1, <2>2, <3>1, <3>3
  <2> QED  BY <2>3, <2>4
<1>7. ASSUME NEW c \in Callers, Hand(c)
      PROVE  QuestionInv'
  <2>1. UNCHANGED <<now, contractsAt, waiting>>
    BY <1>7 DEF Hand, panel
  <2>2. CASE c # Page
    BY <1>1, <1>7, <2>1, <2>2 DEF Hand, Goto
  <2>3. CASE c = Page
    BY <1>1, <1>7, <2>1, <2>3 DEF Hand, Goto
  <2> QED  BY <2>2, <2>3
<1>8. CASE Tick
  <2>1. UNCHANGED <<contractsAt, waiting, pc, at>> /\ now' = now + 1
    BY <1>8 DEF Tick, panel, service
  <2>2. waiting => now - contractsAt < Timeout
    BY <1>8 DEF Tick, InTime
  <2>3. contractsAt \in Int
    OBVIOUS
  <2> QED  BY <2>1, <2>2, <2>3
<1>9. CASE UNCHANGED vars
  BY <1>9 DEF vars, panel, service
<1> QED
  BY <1>2, <1>3, <1>4, <1>5, <1>6, <1>7, <1>8, <1>9 DEF Next

\* The page asks again in time, and an answer is younger than its question by
\* less than the TTL.
LEMMA PanelStep ==
    ASSUME TypeOK, TypeOK', QuestionInv, PanelInv, [Next]_vars
    PROVE  PanelInv'
<1> USE ConsoleAssumption
<1>1. contractsAt \in Int /\ contractsAt <= now /\ now \in Int
  BY DEF TypeOK, Times
<1>2. Page \in Callers
  BY DEF Callers
<1>3. ASSUME NEW start \in refreshes, Settle(start)
      PROVE  PanelInv'
  <2>1. now' = now /\ polled' = polled /\ contracts' = contracts
    BY <1>3 DEF Settle
  <2>2. contracts # None => contracts \in Int
    BY DEF TypeOK, Times
  <2>3. CASE Due
    <3>1. contractsAt' = now /\ waiting' = TRUE
      BY <1>3, <2>3 DEF Settle
    <3>2. polled' <= contractsAt' + AskEvery
      BY <1>1, <2>1, <3>1 DEF TypeOK, Times
    <3>3. ~waiting
      BY <1>1, <2>3 DEF Due, QuestionInv, TypeOK
    <3>4. now <= contractsAt + AskEvery + Poll + Timeout
      BY <1>1, RefreshedSoon DEF PanelInv
    <3> QED
      BY <1>1, <2>1, <2>2, <3>1, <3>2, <3>3, <3>4 DEF PanelInv, RefreshedFrom
  <2>4. CASE ~Due
    <3>1. contractsAt' = contractsAt /\ waiting' = waiting
      BY <1>3, <2>4 DEF Settle
    <3>2. polled' <= contractsAt' + AskEvery
      BY <1>1, <2>1, <2>4, <3>1 DEF Due, TypeOK, Times
    <3> QED
      BY <2>1, <3>1, <3>2 DEF PanelInv, RefreshedFrom
  <2> QED  BY <2>3, <2>4
<1>4. CASE ContractsArrive
  BY <1>4 DEF ContractsArrive, page, PanelInv, RefreshedFrom, QuestionInv
<1>5. CASE ContractsFail
  BY <1>5 DEF ContractsFail, page, PanelInv, RefreshedFrom
<1>6. CASE Changed
  BY <1>6 DEF Changed, panel, PanelInv, RefreshedFrom
<1>7. CASE Tick
  <2>1. UNCHANGED panel
    BY <1>7 DEF Tick
  <2>2. RefreshedFrom(contractsAt + AskEvery)'
    <3>1. \A u \in Int : RefreshedFrom(u) => (polled' <= u \/ \E s \in refreshes' : s <= u + Poll)
      <4> TAKE u \in Int
      <4> HAVE RefreshedFrom(u)
      <4> QED  BY <1>7, RefreshedTick DEF RefreshedFrom
    <3> QED  BY <1>1, <2>1, <3>1 DEF PanelInv, RefreshedFrom, panel
  <2> QED  BY <2>1, <2>2 DEF PanelInv, panel
<1>8. CASE UNCHANGED <<page, panel>>
  BY <1>8 DEF page, panel, PanelInv, RefreshedFrom
<1> QED
  BY <1>3, <1>4, <1>5, <1>6, <1>7, <1>8
  DEF Next, Status, ReadBroker, Hand, vars

LEMMA Inductive == Spec => []IInv
<1>1. Init => IInv
  <2> SUFFICES ASSUME Init PROVE IInv
    OBVIOUS
  <2>1. TypeOK
    BY TypeInit
  <2>2. ShownInv /\ CacheInv /\ QuestionInv
    BY DEF Init, ShownInv, CacheInv, QuestionInv
  <2>3. RefreshedFrom(contractsAt + AskEvery)
    BY ConsoleAssumption DEF Init, RefreshedFrom
  <2>4. PanelInv
    BY <2>3 DEF Init, PanelInv
  <2> QED  BY <2>1, <2>2, <2>4 DEF IInv
<1>2. IInv /\ [Next]_vars => IInv'
  BY TypeStep, ShownStep, CacheStep, QuestionStep, PanelStep DEF IInv
<1> QED  BY <1>1, <1>2, PTL DEF Spec

(***************************************************************************)
(* Theorems.                                                               *)
(***************************************************************************)
\* The variables of the page and of the service keep their types: no refresh
\* outlives its timeout.
THEOREM TypeCorrect == Spec => []TypeOK
<1>1. IInv => TypeOK
  BY DEF IInv
<1> QED  BY <1>1, Inductive, PTL

\* For any poll and timeout, what stands under a green dot was true at most one
\* poll and two timeouts ago.
THEOREM GreenIsRecent == Spec => []ShownWhileUp
<1>1. IInv => ShownWhileUp
  <2> SUFFICES ASSUME IInv, NEW p \in Parts, up[p], shown[p] # None
               PROVE  now - shown[p] <= Poll + 2 * Timeout
    BY DEF ShownWhileUp
  <2>1. TypeOK /\ RefreshedFrom(shown[p] + Timeout)
    BY DEF IInv, ShownInv
  <2>2. shown[p] \in Int /\ shown[p] + Timeout \in Int /\ now \in Int
    BY <2>1, ConsoleAssumption DEF TypeOK, Times
  <2>3. now <= shown[p] + Timeout + Poll + Timeout
    BY <2>1, <2>2, RefreshedSoon
  <2> QED  BY <2>2, <2>3, ConsoleAssumption
<1> QED  BY <1>1, Inductive, PTL

\* For any TTL and pause, the rows of the contracts are never older than the TTL,
\* the pause, a poll and two timeouts.
THEOREM RowsAreRecent == Spec => []PanelIsRecent
<1>1. IInv => PanelIsRecent
  <2> SUFFICES ASSUME IInv, contracts # None
               PROVE  now - contracts < CacheTtl + AskEvery + Poll + 2 * Timeout
    BY DEF PanelIsRecent
  <2>1. /\ contracts \in Int /\ contractsAt \in Int /\ now \in Int
        /\ contractsAt + AskEvery \in Int
    BY ConsoleAssumption DEF IInv, TypeOK, Times
  <2>2. now <= contractsAt + AskEvery + Poll + Timeout
    BY <2>1, RefreshedSoon DEF IInv, PanelInv
  <2>3. CASE waiting
    BY <2>1, <2>3, ConsoleAssumption DEF IInv, PanelInv, QuestionInv
  <2>4. CASE ~waiting
    BY <2>1, <2>2, <2>4, ConsoleAssumption DEF IInv, PanelInv, TypeOK
  <2> QED  BY <2>3, <2>4 DEF IInv, TypeOK
<1> QED  BY <1>1, Inductive, PTL

\* For any TTL, an answer of status() is younger than the TTL when it is given
\* without a call of the broker.
THEOREM AnswersAreFresh == Spec => StatusIsFresh
<1>1. IInv /\ [Next]_vars =>
        [\A c \in Callers :
            Status(c) /\ pc'[c] = "answered" => now - at'[c] < CacheTtl]_vars
  <2> SUFFICES ASSUME IInv, NEW c \in Callers, Status(c), pc'[c] = "answered"
               PROVE  now - at'[c] < CacheTtl
    OBVIOUS
  <2>1. Fresh
    BY DEF Status, Goto, IInv, TypeOK
  <2>2. at'[c] = cache.checkedAt
    BY <2>1 DEF Status, Goto, IInv, TypeOK
  <2> QED  BY <2>1, <2>2 DEF Fresh, IInv, CacheInv
<1> QED  BY <1>1, Inductive, PTL DEF Spec, StatusIsFresh
=============================================================================
