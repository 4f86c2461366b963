-------------------------- MODULE DeployGateProofs --------------------------
(***************************************************************************)
(* Proofs about DeployGate: what a green gate stands on and is judged by,  *)
(* what a guarded pipeline ships, and what the broker holds to be in       *)
(* production, for any versions of the two services and any rows that      *)
(* disagree.                                                               *)
(***************************************************************************)
EXTENDS DeployGate, TLAPS

\* The pipeline works on the latest version, and only it changes what is live.
OrderInv ==
    /\ version \in Int /\ live \in Int /\ deployed \in Int
    /\ deployed <= live /\ live <= version
    /\ place = "record" => live = version

\* A row of the answer that has no result was unknown when it was given.
AnswerInv == answer.rows \ verified \subseteq answer.unknown

GreenInv ==
    /\ GreenIsVerified
    /\ kind = "guarded" => place # "open"

\* An answer of this pipeline has both contracts of its version, unless there is
\* nothing to compare them with.
BothContracts ==
    kind = "guarded" =>
        \A row \in answer.rows :
            row[3] # None => Contracts \X {version} \X {row[3]} \subseteq answer.rows

\* A version is a number and not None.
LEMMA VersionsAreNumbers ==
    /\ Versions \subseteq Int /\ None \notin Versions
    /\ Others \subseteq Int /\ None \notin Others
<1>1. \A x : 1 .. x \subseteq Int /\ 0 \notin 1 .. x
  OBVIOUS
<1> QED  BY <1>1, GateAssumption DEF None

(***************************************************************************)
(* Versions.                                                               *)
(***************************************************************************)
LEMMA OrderStep ==
    ASSUME OrderInv, [Next]_vars
    PROVE  OrderInv'
<1> USE DEF OrderInv
<1>1. CASE Push
  BY <1>1, VersionsAreNumbers DEF Push, Run
<1>2. CASE ContractChanged
  BY <1>2 DEF ContractChanged, Run
<1>3. CASE AskAlone
  BY <1>3 DEF AskAlone, pact
<1>4. CASE Publish \/ Verify
  BY <1>4 DEF Publish, Verify
<1>5. CASE Ask \/ Poll \/ Judge
  BY <1>5 DEF Ask, Poll, Judge, pact
<1>6. CASE Deploy
  BY <1>6 DEF Deploy, pact
<1>7. CASE RecordDeployment
  BY <1>7 DEF RecordDeployment
<1>8. CASE StepFails
  BY <1>8 DEF StepFails, pact
<1>9. CASE OtherPublishes
  BY <1>9 DEF OtherPublishes
<1>10. ASSUME NEW o \in Others, OtherDeploys(o)
       PROVE  OrderInv'
  BY <1>10 DEF OtherDeploys
<1>11. ASSUME NEW v \in Versions, NEW o \in Others, OtherVerifies(v, o)
       PROVE  OrderInv'
  BY <1>11 DEF OtherVerifies
<1>12. CASE UNCHANGED vars
  BY <1>12 DEF vars, pact
<1> QED
  BY <1>1, <1>2, <1>3, <1>4, <1>5, <1>6, <1>7, <1>8, <1>9, <1>10, <1>11, <1>12
  DEF Next, Pipeline

(***************************************************************************)
(* Answers.                                                                *)
(***************************************************************************)
\* Results are never withdrawn.
LEMMA ResultsStay ==
    ASSUME [Next]_vars
    PROVE  verified \subseteq verified'
BY DEF Next, Push, ContractChanged, Run, AskAlone, Pipeline, Publish, Verify, Ask, Poll,
       Judge, Deploy, RecordDeployment, StepFails, OtherPublishes, OtherDeploys,
       OtherVerifies, vars, pact

\* What the broker tells about version v.
LEMMA MatrixIsTrue ==
    ASSUME NEW v, NEW against
    PROVE  /\ Matrix(v, against).rows \ verified \subseteq Matrix(v, against).unknown
           /\ \A row \in Matrix(v, against).rows : row[3] # None =>
                 Contracts \X {v} \X {row[3]} \subseteq Matrix(v, against).rows
<1> DEFINE other == IF against = "production" THEN otherLive ELSE Latest(others)
<1>1. Matrix(v, against).rows = MatrixRows(v, against)
  BY DEF Matrix
<1>2. MatrixRows(v, against) \in {{}, {<<"event", v, None>>}, Contracts \X {v} \X {other}}
  BY DEF MatrixRows
<1>3. \A row \in Contracts \X {v} \X {other} : row[3] = other
  OBVIOUS
<1>4. <<"event", v, None>>[3] = None
  OBVIOUS
<1>5. \A row \in MatrixRows(v, against) : row[3] # None =>
         Contracts \X {v} \X {row[3]} \subseteq MatrixRows(v, against)
  BY <1>2, <1>3, <1>4
<1> QED  BY <1>1, <1>5 DEF Matrix

\* Steps that neither ask nor start a pipeline keep the answer.
AnswerKept == UNCHANGED <<answer, kind, version>>

LEMMA AnswerStep ==
    ASSUME AnswerInv, BothContracts, [Next]_vars
    PROVE  AnswerInv' /\ BothContracts'
<1>1. verified \subseteq verified'
  BY ResultsStay
<1>2. CASE answer' = [rows |-> {}, unknown |-> {}]
  BY <1>2 DEF AnswerInv, BothContracts
<1>3. ASSUME NEW against, answer' = Matrix(Asked, against),
             UNCHANGED <<verified, kind, version>>
      PROVE  AnswerInv' /\ BothContracts'
  <2>1. AnswerInv'
    BY <1>3, MatrixIsTrue DEF AnswerInv
  <2>2. kind = "guarded" => Asked = version
    BY DEF Asked
  <2>3. BothContracts'
    BY <1>3, <2>2, MatrixIsTrue DEF BothContracts
  <2> QED  BY <2>1, <2>3
<1>4. CASE AnswerKept
  BY <1>1, <1>4 DEF AnswerKept, AnswerInv, BothContracts
<1>5. CASE Push \/ ContractChanged \/ AskAlone
  BY <1>2, <1>5 DEF Push, ContractChanged, Run, AskAlone
<1>6. CASE Ask
  BY <1>3, <1>6 DEF Ask, pact
<1>7. CASE Poll
  BY <1>3, <1>7 DEF Poll, Retry, pact
<1>8. CASE Publish \/ Verify \/ Judge \/ Deploy \/ RecordDeployment \/ StepFails
             \/ OtherPublishes
  BY <1>4, <1>8 DEF AnswerKept, Publish, Verify, Judge, Deploy, RecordDeployment,
                    StepFails, OtherPublishes, gate
<1>9. ASSUME NEW o \in Others, OtherDeploys(o)
      PROVE  AnswerInv' /\ BothContracts'
  BY <1>4, <1>9 DEF AnswerKept, OtherDeploys, gate
<1>10. ASSUME NEW v \in Versions, NEW o \in Others, OtherVerifies(v, o)
       PROVE  AnswerInv' /\ BothContracts'
  BY <1>4, <1>10 DEF AnswerKept, OtherVerifies, gate
<1>11. CASE UNCHANGED vars
  BY <1>4, <1>11 DEF AnswerKept, vars, gate
<1> QED
  BY <1>5, <1>6, <1>7, <1>8, <1>9, <1>10, <1>11 DEF Next, Pipeline

LEMMA GreenStep ==
    ASSUME GreenInv, AnswerInv, [Next]_vars
    PROVE  GreenInv'
<1> USE DEF GreenInv, GreenIsVerified
<1>1. verified \subseteq verified'
  BY ResultsStay
<1>2. CASE Push \/ ContractChanged \/ AskAlone
  BY <1>2 DEF Push, ContractChanged, Run, AskAlone
<1>3. CASE Publish \/ Verify \/ Ask \/ Poll \/ Deploy \/ RecordDeployment \/ StepFails
  BY <1>3 DEF Publish, Verify, Ask, Poll, Deploy, RecordDeployment, StepFails
<1>4. CASE Judge
  BY <1>4 DEF Judge, SaysYes, Deployable, AnswerInv, pact, gate
<1>5. CASE UNCHANGED <<place, kind, answer>>
  BY <1>1, <1>5
<1>6. ASSUME NEW o \in Others, OtherDeploys(o)
      PROVE  GreenInv'
  BY <1>5, <1>6 DEF OtherDeploys, gate
<1>7. ASSUME NEW v \in Versions, NEW o \in Others, OtherVerifies(v, o)
      PROVE  GreenInv'
  BY <1>5, <1>7 DEF OtherVerifies, gate
<1>8. CASE OtherPublishes \/ UNCHANGED vars
  BY <1>5, <1>8 DEF OtherPublishes, vars, gate
<1> QED
  BY <1>2, <1>3, <1>4, <1>6, <1>7, <1>8 DEF Next, Pipeline

IInv == OrderInv /\ AnswerInv /\ BothContracts /\ GreenInv

LEMMA Inductive == Spec => []IInv
<1>1. Init => IInv
  BY DEF Init, IInv, OrderInv, AnswerInv, BothContracts, GreenInv, GreenIsVerified, None
<1>2. IInv /\ [Next]_vars => IInv'
  BY OrderStep, AnswerStep, GreenStep DEF IInv
<1> QED  BY <1>1, <1>2, PTL DEF Spec

(***************************************************************************)
(* Theorems.                                                               *)
(***************************************************************************)
\* For any contracts and versions, a green gate has rows to stand on, unless it
\* is told to do without, and all of them were verified and agreed.
THEOREM GreenStaysVerified == Spec => []GreenIsVerified
<1>1. IInv => GreenIsVerified
  BY DEF IInv, GreenInv
<1> QED  BY <1>1, Inductive, PTL

\* Wherever pipelines are cancelled or fail, the record in the broker never runs
\* ahead of what is live.
THEOREM RecordStaysBehind == Spec => []RecordedWasLive
<1>1. IInv => RecordedWasLive
  BY DEF IInv, OrderInv, RecordedWasLive
<1> QED  BY <1>1, Inductive, PTL

\* A guarded pipeline ships a version that agrees in both contracts with the one
\* it was compared with, when that is still in production.
THEOREM ShippedWasCompared == Spec => ShipsWhatWasCompared
<1>1. IInv /\ [Next]_vars =>
        [live' # live /\ kind = "guarded"
          /\ (\E row \in answer.rows : row[3] = otherLive /\ otherLive # None) =>
             Contracts \X {live'} \X {otherLive} \subseteq verified \ Breaks]_vars
  <2> SUFFICES ASSUME IInv, [Next]_vars, live' # live, kind = "guarded",
                      NEW row \in answer.rows, row[3] = otherLive, otherLive # None
               PROVE  Contracts \X {live'} \X {otherLive} \subseteq verified \ Breaks
    OBVIOUS
  <2>1. Deploy
    BY DEF Next, Push, ContractChanged, Run, AskAlone, Pipeline, Publish, Verify, Ask,
           Poll, Judge, RecordDeployment, StepFails, OtherPublishes, OtherDeploys,
           OtherVerifies, vars
  <2>2. place = "green" /\ live' = version
    BY <2>1 DEF Deploy, IInv, GreenInv
  <2>3. answer.rows \subseteq verified \ Breaks
    BY <2>2 DEF IInv, GreenInv, GreenIsVerified
  <2>4. Contracts \X {version} \X {otherLive} \subseteq answer.rows
    BY DEF IInv, BothContracts
  <2> QED  BY <2>2, <2>3, <2>4
<1> QED  BY <1>1, Inductive, PTL DEF Spec, ShipsWhatWasCompared

(***************************************************************************)
(* Types.                                                                  *)
(***************************************************************************)
\* disbursement-service publishes its versions one after the other.
OthersInv == \E n \in Nat : others = 1 .. n

\* A pipeline that went past its publication has published, one without a broker
\* goes by the gate, and one alone stops at the answer.
PlaceInv ==
    /\ kind = "guarded" /\ place \in {"verify", "ask", "judge", "green", "record"}
          => version \in published
    /\ kind = "guarded" => place # "open"
    /\ place = "publish" => version # None
    /\ kind = "open" => place \in {"idle", "open", "record", "red"}
    /\ kind = "alone" => place \in {"ask", "judge", "green", "red"}

TypeInv == TypeOK /\ OthersInv /\ PlaceInv

\* The latest version is one that was published, and none is later.
LEMMA LatestIsAmong ==
    ASSUME OthersInv, others # {}
    PROVE  /\ Latest(others) \in others
           /\ \A w \in others : w <= Latest(others)
<1>1. PICK n \in Nat : others = 1 .. n
  BY DEF OthersInv
<1>2. n \in others /\ \A w \in others : w <= n
  BY <1>1
<1>3. Latest(others) = CHOOSE v \in others : \A w \in others : w <= v
  BY DEF Latest
<1> QED
  BY <1>2, <1>3

LEMMA LatestIsThere ==
    ASSUME OthersInv
    PROVE  Latest(others) = None <=> others = {}
<1>1. None \notin others
  BY DEF OthersInv, None
<1>2. others = {} => Latest(others) = None
  BY DEF Latest
<1> QED
  BY <1>1, <1>2, LatestIsAmong

\* What the broker answers is made of rows it can have.
LEMMA MatrixType ==
    ASSUME TypeInv, NEW v, NEW against
    PROVE  /\ Matrix(v, against).rows \subseteq Rows
           /\ Matrix(v, against).unknown \subseteq Matrix(v, against).rows
<1> DEFINE other == IF against = "production" THEN otherLive ELSE Latest(others)
<1>1. other \in Others \union {None}
  BY LatestIsThere, LatestIsAmong DEF TypeInv, TypeOK
<1> HIDE DEF other
<1>2. CASE v \in published
  <2>1. v \in Versions
    BY <1>2 DEF TypeInv, TypeOK
  <2>2. <<"event", v, None>> \in Rows /\ Contracts \X {v} \X {other} \subseteq Rows
    BY <1>1, <2>1 DEF Rows, Contracts
  <2>3. MatrixRows(v, against) \in {{<<"event", v, None>>}, Contracts \X {v} \X {other}}
    BY <1>2 DEF MatrixRows, other
  <2> QED
    BY <2>2, <2>3 DEF Matrix
<1>3. CASE v \notin published
  BY <1>3 DEF Matrix, MatrixRows
<1> QED
  BY <1>2, <1>3

\* The rows of an answer compare with the version that production or the main
\* branch has, and with none only if there is none.
LEMMA MatrixCompares ==
    ASSUME OthersInv, others # {}, NEW v, NEW against,
           against = "production" => otherLive # None \/ Matrix(v, against).rows = {}
    PROVE  \A row \in Matrix(v, against).rows : row[3] # None
<1> DEFINE other == IF against = "production" THEN otherLive ELSE Latest(others)
<1>1. other # None \/ Matrix(v, against).rows = {}
  BY LatestIsThere
<1>2. CASE other # None
  <2>1. Matrix(v, against).rows \in {{}, Contracts \X {v} \X {other}}
    BY <1>2 DEF Matrix, MatrixRows
  <2> QED
    BY <1>2, <2>1
<1> QED
  BY <1>1, <1>2

\* Every step keeps the types.
LEMMA TypeStep ==
    ASSUME TypeInv, [Next]_vars
    PROVE  TypeInv'
<1> USE DEF TypeInv, TypeOK
<1>1. ASSUME UNCHANGED <<published, others, deployed, live>>,
             verified' \subseteq Rows, otherLive' \in others \union {None},
             notified' \in BOOLEAN,
             UNCHANGED <<kind, version, gate>>, place' = place
      PROVE  TypeInv'
  BY <1>1 DEF OthersInv, PlaceInv, gate
<1>2. ASSUME NEW v \in Versions, Run(v), notified' \in BOOLEAN
      PROVE  TypeInv'
  <2>1. v # None
    BY VersionsAreNumbers
  <2>2. OthersInv'
    BY <1>2 DEF Run, OthersInv
  <2>3. PlaceInv'
    BY <1>2, <2>1 DEF Run, PlaceInv
  <2>4. TypeOK'
    BY <1>2, GateAssumption DEF Run, Working
  <2> QED
    BY <2>2, <2>3, <2>4
<1>3. CASE Push
  BY <1>2, <1>3 DEF Push
<1>4. CASE ContractChanged
  BY <1>2, <1>4 DEF ContractChanged
<1>5. CASE AskAlone
  BY <1>5, GateAssumption DEF AskAlone, pact, OthersInv, PlaceInv, Working
<1>6. CASE Publish
  <2>1. version \in Versions
    BY <1>6 DEF Publish, PlaceInv
  <2>2. TypeOK'
    BY <1>6, <2>1 DEF Publish, gate, Working
  <2>3. OthersInv' /\ PlaceInv'
    BY <1>6 DEF Publish, OthersInv, PlaceInv
  <2> QED
    BY <2>2, <2>3
<1>7. CASE Verify
  <2>1. version \in Versions
    BY <1>7 DEF Verify, PlaceInv
  <2>2. verified' \subseteq Rows
    BY <1>7, <2>1, LatestIsThere, LatestIsAmong DEF Verify, Rows, Contracts
  <2>3. OthersInv' /\ PlaceInv'
    BY <1>7 DEF Verify, OthersInv, PlaceInv
  <2>4. place' \in Working \union {"red"}
    BY <1>7 DEF Verify, Working
  <2> QED
    BY <1>7, <2>2, <2>3, <2>4 DEF Verify, gate
<1>8. CASE Ask
  <2>1. /\ answer'.rows \subseteq Rows /\ answer'.unknown \subseteq answer'.rows
    BY <1>8, MatrixType DEF Ask
  <2>2. /\ environment' \in {"production", "main"} /\ place' \in Working
        /\ UNCHANGED <<pact, live, kind, version, polls>>
    BY <1>8 DEF Ask, Working
  <2>3. OthersInv' /\ PlaceInv'
    BY <1>8 DEF Ask, pact, OthersInv, PlaceInv
  <2> QED
    BY <2>1, <2>2, <2>3 DEF pact
<1>9. CASE Poll
  <2>1. /\ answer'.rows \subseteq Rows /\ answer'.unknown \subseteq answer'.rows
    BY <1>9, MatrixType DEF Poll, Retry
  <2>2. polls' \in 0 .. MaxPolls
    BY <1>9, GateAssumption DEF Poll, Retry
  <2>3. UNCHANGED <<pact, live, kind, place, version, environment>>
    BY <1>9 DEF Poll
  <2> QED
    BY <2>1, <2>2, <2>3 DEF pact, OthersInv, PlaceInv
<1>10. CASE Judge \/ StepFails
  <2>1. UNCHANGED <<pact, live, kind, version, gate>> /\ place' \in {"green", "red"}
    BY <1>10 DEF Judge, StepFails
  <2>2. PlaceInv'
    BY <1>10, <2>1 DEF Judge, StepFails, PlaceInv, pact
  <2> QED
    BY <2>1, <2>2 DEF pact, gate, OthersInv
<1>11. CASE Deploy
  <2>1. UNCHANGED <<pact, kind, version, gate>> /\ place' = "record" /\ live' = version
    BY <1>11 DEF Deploy
  <2>2. PlaceInv'
    BY <1>11, <2>1 DEF Deploy, PlaceInv, pact
  <2> QED
    BY <2>1, <2>2 DEF pact, gate, OthersInv
<1>12. CASE RecordDeployment
  <2>1. version \in published \/ kind = "open"
    BY <1>12 DEF RecordDeployment, PlaceInv
  <2>2. deployed' \in published \union {None} /\ place' = "idle"
    BY <1>12, <2>1 DEF RecordDeployment
  <2>3. PlaceInv'
    BY <1>12 DEF RecordDeployment, PlaceInv
  <2> QED
    BY <1>12, <2>2, <2>3 DEF RecordDeployment, gate, OthersInv
<1>13. CASE OtherPublishes
  <2>1. PICK n \in Nat : others = 1 .. n
    BY DEF OthersInv
  <2>2. Latest(others) = n
    <3>1. CASE n = 0
      BY <2>1, <3>1, LatestIsThere DEF None
    <3>2. CASE n > 0
      BY <2>1, <3>2, LatestIsAmong
    <3> QED
      BY <3>1, <3>2
  <2>3. others' = 1 .. n + 1
    BY <1>13, <2>1, <2>2 DEF OtherPublishes
  <2>4. OthersInv'
    BY <2>3 DEF OthersInv
  <2>5. others' \subseteq Others /\ others \subseteq others' /\ notified' \in BOOLEAN
    BY <1>13 DEF OtherPublishes
  <2> QED
    BY <1>13, <2>4, <2>5 DEF OtherPublishes, PlaceInv, gate
<1>14. ASSUME NEW o \in Others, OtherDeploys(o)
       PROVE  TypeInv'
  BY <1>1, <1>14 DEF OtherDeploys
<1>15. ASSUME NEW v \in Versions, NEW o \in Others, OtherVerifies(v, o)
       PROVE  TypeInv'
  <2>1. <<"event", v, o>> \in Rows
    BY DEF Rows, Contracts
  <2> QED
    BY <1>1, <1>15, <2>1 DEF OtherVerifies
<1>16. CASE UNCHANGED vars
  BY <1>1, <1>16 DEF vars, pact
<1> QED
  BY <1>3, <1>4, <1>5, <1>6, <1>7, <1>8, <1>9, <1>10, <1>11, <1>12, <1>13, <1>14, <1>15,
     <1>16 DEF Next, Pipeline

\* A gate that judges an answer with rows for production found a version there.
FellBack ==
    place = "judge" /\ environment = "production" /\ answer.rows # {}
        => otherLive # None

LEMMA FellBackStep ==
    ASSUME TypeInv, FellBack, [Next]_vars
    PROVE  FellBack'
<1> USE DEF FellBack
<1>1. CASE Push \/ ContractChanged \/ AskAlone \/ Publish \/ Verify \/ Judge \/ Deploy
             \/ RecordDeployment \/ StepFails
  <2>1. place' # "judge"
    BY <1>1 DEF Push, ContractChanged, Run, AskAlone, Publish, Verify, Judge, Deploy,
       RecordDeployment, StepFails
  <2> QED
    BY <2>1
<1>2. CASE Ask
  BY <1>2 DEF Ask, pact
<1>3. CASE Poll
  <2>1. answer.rows # {}
    BY <1>3 DEF Poll, Waits, TypeInv, TypeOK
  <2> QED
    BY <1>3, <2>1 DEF Poll, pact
<1>4. CASE OtherPublishes \/ UNCHANGED vars
  BY <1>4 DEF OtherPublishes, vars, pact, gate
<1>5. ASSUME NEW o \in Others, OtherDeploys(o)
      PROVE  FellBack'
  <2>1. o # None
    BY VersionsAreNumbers
  <2> QED
    BY <1>5, <2>1 DEF OtherDeploys, gate
<1>6. ASSUME NEW v \in Versions, NEW o \in Others, OtherVerifies(v, o)
      PROVE  FellBack'
  BY <1>6 DEF OtherVerifies, gate
<1> QED
  BY <1>1, <1>2, <1>3, <1>4, <1>5, <1>6 DEF Next, Pipeline

LEMMA GateTypes == Spec => [](TypeInv /\ FellBack)
<1>1. Init => TypeInv /\ FellBack
  <2> SUFFICES ASSUME Init PROVE TypeInv /\ FellBack
    OBVIOUS
  <2>1. OthersInv
    <3>1. others = 1 .. 0
      BY DEF Init
    <3> QED
      BY <3>1 DEF OthersInv
  <2>2. PlaceInv /\ FellBack
    BY DEF Init, PlaceInv, FellBack
  <2>3. TypeOK
    <3>1. polls \in 0 .. MaxPolls
      BY GateAssumption DEF Init
    <3>2. answer.rows \subseteq Rows /\ answer.unknown \subseteq answer.rows
      BY DEF Init
    <3> QED
      BY <3>1, <3>2 DEF Init, TypeOK
  <2> QED
    BY <2>1, <2>2, <2>3 DEF TypeInv
<1>2. TypeInv /\ FellBack /\ [Next]_vars => (TypeInv /\ FellBack)'
  BY TypeStep, FellBackStep
<1> QED
  BY <1>1, <1>2, PTL DEF Spec

\* Whatever is cancelled, refused or deployed on either side, the broker holds
\* only rows and versions there are: what is recorded in production has a
\* published contract, and so has what the other side deployed.
THEOREM TypeCorrect == Spec => []TypeOK
BY GateTypes, PTL DEF TypeInv

\* For any two services, the gate is never decided by an empty production while
\* there is a main branch to compare with, on no retry either.
THEOREM NeverJudgedOnNothing == Spec => JudgedOnSomething
<1> DEFINE OnSomething ==
      place' = "judge" /\ answer' # answer /\ others # {} =>
          \A row \in answer'.rows : row[3] # None
<1>1. ASSUME TypeInv, FellBack, [Next]_vars, place' = "judge", answer' # answer,
             others # {}
      PROVE  \A row \in answer'.rows : row[3] # None
  <2>1. Ask \/ Poll
    BY <1>1 DEF Next, Push, ContractChanged, Run, AskAlone, Pipeline, Publish, Verify,
       Judge, Deploy, RecordDeployment, StepFails, OtherPublishes, OtherDeploys,
       OtherVerifies, vars, gate
  <2>2. answer' = Matrix(Asked, environment)
    BY <2>1 DEF Ask, Poll, Retry
  <2>3. environment = "production" => otherLive # None \/ Matrix(Asked, environment).rows = {}
    <3>1. CASE Ask
      BY <1>1, <2>2, <3>1 DEF Ask
    <3>2. CASE Poll
      BY <1>1, <3>2 DEF Poll, Waits, FellBack, TypeInv, TypeOK
    <3> QED
      BY <2>1, <3>1, <3>2
  <2> QED
    BY <1>1, <2>2, <2>3, MatrixCompares DEF TypeInv
<1>2. TypeInv /\ FellBack /\ [Next]_vars => [OnSomething]_vars
  BY <1>1
<1> QED
  BY <1>2, GateTypes, PTL DEF Spec, JudgedOnSomething
=============================================================================
