----------------------------- MODULE DeployGate -----------------------------
(***************************************************************************)
(* The contract gate of switch-service and the pipeline around it, from    *)
(* ci/contract-gate.sh, .github/workflows/ci.yml, the provider test and    *)
(* the scripts can-i-deploy, pact-publish and record-deployment.  A        *)
(* pipeline publishes the contract of its version, verifies what this      *)
(* service provides, asks the broker, deploys, and records the deployment. *)
(* The Pact Broker and the pipeline of disbursement-service are external:  *)
(* they are here as this repository uses them.  Each of the two services   *)
(* consumes one contract of the other: "http" is provided here and "event" *)
(* there.                                                                  *)
(***************************************************************************)
EXTENDS Integers, FiniteSets

CONSTANTS
    Versions,          \* of switch-service, 1 .. n in the order of the pushes
    Others,            \* of disbursement-service, 1 .. n
    Breaks,            \* the rows <<contract, version, other>> that disagree
    AllowNoContracts,  \* PACT_ALLOW_NO_CONTRACTS
    MaxPolls           \* how often the gate can ask again before its deadline

None == 0
Contracts == {"http", "event"}
Rows == Contracts \X Versions \X (Others \union {None})

ASSUME GateAssumption ==
    /\ Versions = 1 .. Cardinality(Versions)
    /\ Others = 1 .. Cardinality(Others)
    /\ Breaks \subseteq Rows
    /\ AllowNoContracts \in BOOLEAN
    /\ MaxPolls \in Nat

VARIABLES
    published,    \* broker: the versions that have published their contract
    others,       \* broker: the same of disbursement-service
    verified,     \* broker: the rows with a result
    deployed,     \* broker: the version recorded in production, or None
    otherLive,    \* the version of disbursement-service in production, or None
    live,         \* the version of switch-service in production, or None
    notified,     \* the webhook has been called and no pipeline started for it
    kind,         \* "guarded", "open" (no broker configured) or "alone"
    place,        \* where the pipeline stands
    version,      \* the latest commit on main, which the pipeline is for
    environment,  \* what can-i-deploy compares with: "production" or "main"
    answer,       \* the rows of the last answer, and the unknown ones of them
    polls         \* how often it has asked again

pact == <<published, others, verified, deployed, otherLive, notified>>
gate == <<environment, answer, polls>>
vars == <<pact, live, kind, place, version, gate>>

Working == {"publish", "verify", "ask", "judge"}

TypeOK ==
    /\ published \subseteq Versions /\ others \subseteq Others
    /\ verified \subseteq Rows
    /\ deployed \in published \union {None}
    /\ live \in Versions \union {None}
    /\ otherLive \in others \union {None}
    /\ notified \in BOOLEAN
    /\ kind \in {"guarded", "open", "alone"}
    /\ place \in Working \union {"idle", "green", "open", "record", "red"}
    /\ version \in Versions \union {None}
    /\ environment \in {"production", "main"}
    /\ answer.rows \subseteq Rows /\ answer.unknown \subseteq answer.rows
    /\ polls \in 0 .. MaxPolls

(***************************************************************************)
(* The broker.                                                             *)
(***************************************************************************)
Latest(set) == IF set = {} THEN None ELSE CHOOSE v \in set : \A w \in set : w <= v

\* What /matrix has on a version: a row for each contract with the version it
\* is compared with, and none for a version the broker has never seen.
MatrixRows(v, against) ==
    LET other == IF against = "production" THEN otherLive ELSE Latest(others)
    IN  IF v \notin published THEN {}
        ELSE IF other = None THEN {<<"event", v, None>>}
        ELSE Contracts \X {v} \X {other}

Matrix(v, against) ==
    [rows |-> MatrixRows(v, against), unknown |-> MatrixRows(v, against) \ verified]

\* summary.deployable, which is also true when there is no row at all.
Deployable == answer.unknown = {} /\ answer.rows \intersect Breaks = {}

(***************************************************************************)
(* The pipeline.                                                           *)
(***************************************************************************)
Ended == place \in {"idle", "red"} \/ (kind = "alone" /\ place = "green")

\* Fault: the pipeline asks about the commit before.
Asked_parent == IF kind = "alone" THEN version + 1 ELSE IF version > 1 THEN version - 1 ELSE version

\* The version can-i-deploy is asked about: alone, it is one not pushed yet.
Asked == IF kind = "alone" THEN version + 1 ELSE version

\* A pipeline starts on main and compares with production.  The script leaves
\* early when no broker is configured, and its job is green.
Run(v) ==
    /\ kind' \in {"guarded", "open"}
    /\ place' = IF kind' = "open" THEN "open" ELSE "publish"
    /\ version' = v
    /\ environment' = "production" /\ polls' = 0
    /\ answer' = [rows |-> {}, unknown |-> {}]
    /\ UNCHANGED <<published, others, verified, deployed, otherLive, live>>

\* A push, which cancels the pipeline under way wherever it stands.
Push == version + 1 \in Versions /\ Run(version + 1) /\ UNCHANGED notified

\* The webhook tells of a new contract of disbursement-service (README.md; the
\* comment in ci.yml names the other service): the pipeline of the latest commit
\* runs again.
ContractChanged == notified /\ version # None /\ Run(version) /\ notified' = FALSE

\* Between two pipelines somebody runs can-i-deploy alone, on a commit that
\* has published nothing.  It does not wait for what is unknown.
AskAlone ==
    /\ Ended /\ version + 1 \in Versions
    /\ kind' = "alone" /\ place' = "ask"
    /\ environment' \in {"production", "main"} /\ polls' = MaxPolls
    /\ answer' = [rows |-> {}, unknown |-> {}]
    /\ UNCHANGED <<pact, live, version>>

Publish ==
    /\ place = "publish"
    /\ published' = published \union {version}
    /\ place' = "verify"
    /\ UNCHANGED <<others, verified, deployed, otherLive, notified, live, kind,
                   version, gate>>

\* The provider test takes the contract of the main branch of the consumer and
\* publishes the result.  A contract that no version here has kept yet is
\* pending, and then a failure does not fail the test.
Verify ==
    LET other == Latest(others)
        row == <<"http", version, other>>
        kept == \E v \in Versions : <<"http", v, other>> \in verified \ Breaks
    IN  /\ place = "verify"
        /\ verified' = IF other = None THEN verified ELSE verified \union {row}
        /\ place' = IF row \in Breaks /\ kept THEN "red" ELSE "ask"
        /\ UNCHANGED <<published, others, deployed, otherLive, notified, live, kind,
                       version, gate>>

\* can-i-deploy asks; when the broker says that nothing is recorded as deployed
\* in production, it asks again about the main branch.
Ask ==
    /\ place = "ask"
    /\ answer' = Matrix(Asked, environment)
    /\ IF environment = "production" /\ otherLive = None /\ answer'.rows # {}
         THEN environment' = "main" /\ UNCHANGED place
         ELSE place' = "judge" /\ UNCHANGED environment
    /\ UNCHANGED <<pact, live, kind, version, polls>>

\* Fault: the retry asks about the environment again.
Retry_environment ==
    /\ answer' = Matrix(Asked, "production")
    /\ polls' \in polls + 1 .. MaxPolls

\* The same question, some seconds later, until the deadline.
Retry ==
    /\ answer' = Matrix(Asked, environment)
    /\ polls' \in polls + 1 .. MaxPolls

\* Fault: the deadline is forgotten.
Waits_forEver == answer.unknown # {}

Waits == answer.unknown # {} /\ polls < MaxPolls

Poll ==
    /\ place = "judge" /\ Waits
    /\ Retry
    /\ UNCHANGED <<pact, live, kind, place, version, environment>>

\* Fault: an answer without rows is a yes.
SaysYes_noRows == Deployable

\* A matrix with no rows at all is not a pass.
SaysYes == Deployable /\ (answer.rows # {} \/ AllowNoContracts)

Judge ==
    /\ place = "judge" /\ ~Waits
    /\ place' = IF SaysYes THEN "green" ELSE "red"
    /\ UNCHANGED <<pact, live, kind, version, gate>>

\* A call of the broker, the deployment or its record fails, and the job ends.
StepFails ==
    /\ ~Ended
    /\ place' = "red"
    /\ UNCHANGED <<pact, live, kind, version, gate>>

\* Fault: the deployment is recorded first.
Deploy_recorded ==
    /\ kind # "alone" /\ place \in {"green", "open"}
    /\ deployed' = IF kind = "open" THEN deployed ELSE version
    /\ place' = "record"
    /\ UNCHANGED <<published, others, verified, otherLive, notified, live, kind,
                   version, gate>>

\* The deploy job needs the job of the gate.
Deploy ==
    /\ kind # "alone" /\ place \in {"green", "open"}
    /\ live' = version
    /\ place' = "record"
    /\ UNCHANGED <<pact, kind, version, gate>>

\* Fault: it is recorded although no contract was published.
RecordDeployment_always ==
    /\ place = "record"
    /\ deployed' = version
    /\ place' = "idle"
    /\ UNCHANGED <<published, others, verified, otherLive, notified, live, kind,
                   version, gate>>

\* Skipped when no broker is configured.
RecordDeployment ==
    /\ place = "record"
    /\ deployed' = IF kind = "open" THEN deployed ELSE version
    /\ place' = "idle"
    /\ UNCHANGED <<published, others, verified, otherLive, notified, live, kind,
                   version, gate>>

(***************************************************************************)
(* disbursement-service, external.                                         *)
(***************************************************************************)
\* Its main branch publishes a new contract, and the broker calls the webhook.
OtherPublishes ==
    /\ Latest(others) + 1 \in Others
    /\ others' = others \union {Latest(others) + 1}
    /\ notified' = TRUE
    /\ UNCHANGED <<published, verified, deployed, otherLive, live, kind, place,
                   version, gate>>

\* A build of it verifies the event contract of a version of this service.
OtherVerifies(v, o) ==
    /\ v \in published /\ o \in others
    /\ verified' = verified \union {<<"event", v, o>>}
    /\ UNCHANGED <<published, others, deployed, otherLive, notified, live, kind,
                   place, version, gate>>

\* It deploys what its own gate lets through.
OtherDeploys(o) ==
    LET here == IF deployed = None THEN Latest(published) ELSE deployed
    IN  /\ o \in others /\ otherLive < o /\ here # None
        /\ Contracts \X {here} \X {o} \subseteq verified \ Breaks
        /\ otherLive' = o
        /\ UNCHANGED <<published, others, verified, deployed, notified, live, kind,
                       place, version, gate>>

Pipeline ==
    \/ Publish \/ Verify \/ Ask \/ Poll \/ Judge \/ Deploy \/ RecordDeployment

Init ==
    /\ published = {} /\ others = {} /\ verified = {}
    /\ deployed = None /\ otherLive = None /\ live = None
    /\ notified = FALSE
    /\ kind = "guarded" /\ place = "idle" /\ version = None
    /\ environment = "production" /\ polls = 0
    /\ answer = [rows |-> {}, unknown |-> {}]

Next ==
    \/ Push \/ ContractChanged \/ AskAlone \/ Pipeline \/ StepFails
    \/ OtherPublishes
    \/ \E o \in Others : OtherDeploys(o)
    \/ \E v \in Versions, o \in Others : OtherVerifies(v, o)

Spec == Init /\ [][Next]_vars

\* The steps of a pipeline run on: each call of the broker is answered.
FairSpec == Spec /\ WF_vars(Pipeline)

(***************************************************************************)
(* What must hold.                                                         *)
(***************************************************************************)
\* A yes stands on results: at least one row, and each of them verified and
\* agreed (can-i-deploy.mjs: unknown is not a pass, and no rows is not a pass).
GreenIsVerified ==
    place = "green" =>
        /\ answer.rows # {} \/ AllowNoContracts
        /\ answer.rows \subseteq verified \ Breaks

\* The gate is never decided by an empty production while there is a main
\* branch to compare with, nor does a retry forget that it fell back
\* (can-i-deploy.mjs, "THE FIRST DEPLOY" and the comment on useEnvironment).
JudgedOnSomething ==
    [][place' = "judge" /\ answer' # answer /\ others # {} =>
          \A row \in answer'.rows : row[3] # None]_vars

\* What a guarded pipeline ships agrees, in both contracts, with the version of
\* disbursement-service that its gate compared it with, if that is still the one
\* in production: only a deployment of the other side in between, for which this
\* version was not yet there to be seen, can make a pair that nobody verified
\* (ci.yml: "This version is safe to ship").
ShipsWhatWasCompared ==
    [][live' # live /\ kind = "guarded"
          /\ (\E row \in answer.rows : row[3] = otherLive /\ otherLive # None) =>
             Contracts \X {live'} \X {otherLive} \subseteq verified \ Breaks]_vars

\* The broker never holds a later version to be in production than the one
\* that is there (can-i-deploy.mjs: that would be a lie about what is running).
RecordedWasLive == deployed <= live

\* The gate ends: waiting for a verification has a deadline.
GateEnds == place \in Working ~> place \notin Working
=============================================================================
