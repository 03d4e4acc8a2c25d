-------------------------- MODULE GovernanceProofs --------------------------
(* Proofs about Governance, for every set of categories.                   *)
EXTENDS Governance, TLAPS, SequenceTheorems

(* What the steps maintain: an accepted workflow carries the profile of    *)
(* what was declared and found, and passed the intake decision on it.      *)
Inv ==
  /\ mode \in Mode /\ declared \subseteq Category /\ detected \subseteq Category
  /\ stage \in {"submitted", "denied", "received", "awaiting_approval", "completed"}
  /\ Accepted => Executes(IsProhibited("workflow_intake", Classify(declared, detected)), mode)

-----------------------------------------------------------------------------
(* The highest classification that is reached is well defined.             *)
LEMMA ClassificationIsHighest ==
  ASSUME NEW A \in SUBSET Category, NEW B \in SUBSET Category
  PROVE  LET level == Classify(A, B).classification
         IN /\ level \in 0..3
            /\ \A n \in 0..3 : Reaches(Categories(A, B), n) <=> n <= level
<1> DEFINE all == Categories(A, B)
           Highest(n) == /\ Reaches(all, n)
                         /\ \A m \in 0..3 : m > n => ~Reaches(all, m)
<1>1. all \subseteq Category /\ all # {}
  BY DEF Categories, Found, Category
<1>2. \A c \in Category : ClassificationBy(c) \in 0..3
  BY DEF ClassificationBy, Category
<1>3. Reaches(all, 0)
  BY <1>1, <1>2 DEF Reaches
<1>4. \A m, n \in 0..3 : m <= n /\ Reaches(all, n) => Reaches(all, m)
  BY <1>1, <1>2 DEF Reaches
<1> HIDE DEF all
<1>5. \E n \in 0..3 : Highest(n)
  BY <1>3, <1>4
<1>6. Classify(A, B).classification = CHOOSE n \in 0..3 : Highest(n)
  BY DEF Classify, all
<1>7. PICK n \in 0..3 : n = Classify(A, B).classification /\ Highest(n)
  BY <1>5, <1>6
<1>8. \A m \in 0..3 : Reaches(all, m) <=> m <= n
  BY <1>4, <1>7
<1> QED
  BY <1>7, <1>8 DEF all

(* A profile is sensitive exactly when one of its categories is.           *)
LEMMA SensitiveByOne ==
  ASSUME NEW A \in SUBSET Category, NEW B \in SUBSET Category
  PROVE  IsSensitive(Classify(A, B)) <=> Reaches(A \cup B, 2)
<1> DEFINE level == Classify(A, B).classification
<1>1. /\ level \in 0..3
      /\ \A n \in 0..3 : Reaches(Categories(A, B), n) <=> n <= level
  BY ClassificationIsHighest
<1>2. IsSensitive(Classify(A, B)) <=> level >= 2
  BY DEF IsSensitive
<1> HIDE DEF level
<1>3. IsSensitive(Classify(A, B)) <=> Reaches(Categories(A, B), 2)
  BY <1>1, <1>2
<1>4. Reaches(Categories(A, B), 2) <=> Reaches(A \cup B, 2)
  BY DEF Reaches, Categories, Found, ClassificationBy
<1> QED
  BY <1>3, <1>4

(* The default category is not a prohibited one.                           *)
LEMMA ProhibitedByOne ==
  ASSUME NEW A, NEW B, NEW op
  PROVE  IsProhibited(op, Classify(A, B)) <=>
           op = "workflow_intake" /\ (A \cup B) \cap ProhibitedIntake # {}
BY DEF IsProhibited, Classify, Categories, Found, ProhibitedIntake

-----------------------------------------------------------------------------
LEMMA InvInit == Init => Inv
<1> SUFFICES ASSUME Init PROVE Inv
  OBVIOUS
<1>1. declared \subseteq Category /\ detected \subseteq Category
  BY GovernanceAssumption DEF Init
<1> QED
  BY <1>1 DEF Init, Inv, Accepted

LEMMA InvNext == Inv /\ [Next]_vars => Inv'
<1> SUFFICES ASSUME Inv, [Next]_vars PROVE Inv'
  OBVIOUS
<1> DEFINE intake == Classify(declared, detected)
           passed == Executes(IsProhibited("workflow_intake", intake), mode)
<1>1. CASE Create
  <2> HIDE DEF intake
  <2>0. ~LeavesHost("local-api", intake)
    BY DEF LeavesHost, LocalProviders
  <2>1. Decide("workflow_intake", "local-api", intake, mode).executionAllowed <=> passed
    BY <2>0 DEF Decide, Executes
  <2> USE DEF intake
  <2>2. CASE passed
    BY <1>1, <2>1, <2>2 DEF Create, Decides, Inv, Accepted
  <2>3. CASE ~passed
    BY <1>1, <2>1, <2>3 DEF Create, Decides, Inv, Accepted
  <2> QED
    BY <2>2, <2>3
<1>2. CASE Plan
  BY <1>2 DEF Plan, Decides, Inv, Accepted
<1>3. CASE Execute
  BY <1>3 DEF Execute, Decides, Inv, Accepted
<1>4. CASE UNCHANGED vars
  BY <1>4 DEF vars, Inv, Accepted
<1> QED
  BY <1>1, <1>2, <1>3, <1>4 DEF Next

LEMMA InvAlways == Spec => []Inv
BY InvInit, InvNext, PTL DEF Spec

(* AC35-003 for any categories: in enforce mode no workflow that holds     *)
(* credentials or card data, declared or found, is ever stored.            *)
THEOREM NothingProhibitedIsStored == Spec => []ProhibitedIsNotStored
<1>1. Inv => ProhibitedIsNotStored
  <2> SUFFICES ASSUME Inv, mode = "enforce", Accepted
               PROVE  (declared \cup detected) \cap ProhibitedIntake = {}
    BY DEF ProhibitedIsNotStored
  <2>1. ~IsProhibited("workflow_intake", Classify(declared, detected))
    BY DEF Inv, Executes
  <2> QED
    BY <2>1, ProhibitedByOne
<1> QED
  BY <1>1, InvAlways, PTL

(* AC35-004 for any categories: one sensitive category keeps a request     *)
(* from every unapproved provider and brings every control.                *)
THEOREM SensitiveNeverLeaves == Spec => []SensitiveStaysLocal
<1>1. Inv => SensitiveStaysLocal
  <2> SUFFICES ASSUME Inv, NEW op \in Operation, NEW p \in Provider,
                      Reaches(declared \cup detected, 2)
               PROVE  LET decision == Decide(op, p, Classify(declared, detected), mode)
                      IN /\ SensitiveObligations \subseteq decision.obligations
                         /\ p \notin LocalProviders => decision.outcome = "deny"
                         /\ p \notin LocalProviders /\ mode = "enforce"
                              => ~decision.executionAllowed
    BY DEF SensitiveStaysLocal
  <2> DEFINE data == Classify(declared, detected)
  <2>1. IsSensitive(data)
    BY SensitiveByOne DEF Inv
  <2> HIDE DEF data
  <2>2. p \notin LocalProviders => LeavesHost(p, data)
    BY <2>1 DEF LeavesHost
  <2>3. SensitiveObligations \subseteq Decide(op, p, data, mode).obligations
    BY <2>1 DEF Decide
  <2>4. LeavesHost(p, data) => Decide(op, p, data, mode).outcome = "deny"
    BY DEF Decide
  <2>5. LeavesHost(p, data) /\ mode = "enforce"
          => ~Decide(op, p, data, mode).executionAllowed
    BY DEF Decide, Executes
  <2> QED
    BY <2>2, <2>3, <2>4, <2>5 DEF data
<1> QED
  BY <1>1, InvAlways, PTL

(* For any categories, a request that holds more is never processed more   *)
(* freely.                                                                 *)
THEOREM MoreDataNeverFrees == Spec => []MoreDataIsNeverFreer
<1>1. Inv => MoreDataIsNeverFreer
  <2> SUFFICES ASSUME Inv, NEW op \in Operation, NEW p \in Provider,
                      NEW c \in Category
               PROVE  LET less == Decide(op, p, Classify(declared, detected), mode)
                          more == Decide(op, p, Classify(declared \cup {c}, detected), mode)
                      IN /\ more.executionAllowed => less.executionAllowed
                         /\ less.obligations \subseteq more.obligations
                         /\ less.outcome = "deny" => more.outcome = "deny"
    BY DEF MoreDataIsNeverFreer
  <2> DEFINE few  == Classify(declared, detected)
             many == Classify(declared \cup {c}, detected)
  <2>1. IsSensitive(few) => IsSensitive(many)
    <3>1. IsSensitive(few) <=> Reaches(declared \cup detected, 2)
      BY SensitiveByOne DEF Inv
    <3>2. IsSensitive(many) <=> Reaches((declared \cup {c}) \cup detected, 2)
      BY SensitiveByOne DEF Inv
    <3> QED
      BY <3>1, <3>2 DEF Reaches
  <2>2. IsProhibited(op, few) => IsProhibited(op, many)
    BY ProhibitedByOne
  <2> HIDE DEF few, many
  <2>3. LeavesHost(p, few) => LeavesHost(p, many)
    BY <2>1 DEF LeavesHost
  <2>4. Decide(op, p, many, mode).executionAllowed => Decide(op, p, few, mode).executionAllowed
    BY <2>2, <2>3 DEF Decide, Executes
  <2>5. Decide(op, p, few, mode).obligations \subseteq Decide(op, p, many, mode).obligations
    BY <2>1 DEF Decide
  <2>6. Decide(op, p, few, mode).outcome = "deny" => Decide(op, p, many, mode).outcome = "deny"
    BY <2>2, <2>3 DEF Decide
  <2> QED
    BY <2>4, <2>5, <2>6 DEF few, many
<1> QED
  BY <1>1, InvAlways, PTL

-----------------------------------------------------------------------------
(* The decisions of a workflow.  Each is the engine's answer about the     *)
(* profile that intake stored, so they agree on what sensitive data asks   *)
(* for.                                                                    *)

Data      == Classify(declared, detected)
Intake    == Decide("workflow_intake", "local-api", Data, mode)
Planning  == Decide("agent_planning", "deterministic-local", Data, mode)
Execution == Decide("tool_execution", "deterministic-local", Data, mode)

DecisionsInv ==
  /\ Inv
  /\ stage \in {"submitted", "denied"} => profile = NoProfile /\ decisions = <<>>
  /\ Accepted => profile = Data
  /\ stage = "received" => decisions = <<Intake>>
  /\ stage = "awaiting_approval" => decisions = <<Intake, Planning>>
  /\ stage = "completed" => decisions = <<Intake, Planning, Execution>>

(* Later operations are neither intake nor external, and never refused.    *)
LEMMA LaterIsAllowed ==
  ASSUME NEW data, NEW m, NEW op \in {"agent_planning", "tool_execution"}
  PROVE  /\ Decide(op, "deterministic-local", data, m).executionAllowed
         /\ Decide(op, "deterministic-local", data, m).outcome # "deny"
<1>1. ~IsProhibited(op, data) /\ ~LeavesHost("deterministic-local", data)
  BY DEF IsProhibited, LeavesHost, LocalProviders
<1> QED BY <1>1 DEF Decide, Executes

LEMMA DecisionsInit == Init => DecisionsInv
  BY InvInit DEF Init, DecisionsInv, Accepted

LEMMA Appending ==
  ASSUME NEW a, NEW b, NEW c
  PROVE  Append(<<a>>, b) = <<a, b>> /\ Append(<<a, b>>, c) = <<a, b, c>>
<1> DEFINE S == {a, b, c}
<1>1. /\ <<a>> \in Seq(S) /\ <<a, b>> \in Seq(S) /\ <<a, b, c>> \in Seq(S)
      /\ b \in S /\ c \in S
  OBVIOUS
<1>2. Append(<<a>>, b) = <<a, b>>
  <2>1. /\ Append(<<a>>, b) \in Seq(S) /\ Len(Append(<<a>>, b)) = 2
        /\ Append(<<a>>, b)[1] = a /\ Append(<<a>>, b)[2] = b
    BY <1>1, AppendProperties
  <2>2. /\ Len(<<a, b>>) = 2
        /\ \A i \in 1..2 : Append(<<a>>, b)[i] = <<a, b>>[i]
    BY <2>1
  <2> HIDE DEF S
  <2> QED BY <1>1, <2>1, <2>2, SeqEqual, Zenon
<1>3. Append(<<a, b>>, c) = <<a, b, c>>
  <2>1. /\ Append(<<a, b>>, c) \in Seq(S) /\ Len(Append(<<a, b>>, c)) = 3
        /\ Append(<<a, b>>, c)[1] = a /\ Append(<<a, b>>, c)[2] = b
        /\ Append(<<a, b>>, c)[3] = c
    BY <1>1, AppendProperties
  <2>2. /\ Len(<<a, b, c>>) = 3
        /\ \A i \in 1..3 : Append(<<a, b>>, c)[i] = <<a, b, c>>[i]
    BY <2>1
  <2> HIDE DEF S
  <2> QED BY <1>1, <2>1, <2>2, SeqEqual, Zenon
<1> QED BY <1>2, <1>3

LEMMA DecisionsNext == DecisionsInv /\ [Next]_vars => DecisionsInv'
<1> SUFFICES ASSUME DecisionsInv, [Next]_vars PROVE DecisionsInv'
  OBVIOUS
<1>1. Inv'
  BY InvNext DEF DecisionsInv
<1>2. CASE Create
  <2>1. /\ stage = "submitted" /\ decisions = <<>> /\ profile = NoProfile
        /\ mode' = mode /\ declared' = declared /\ detected' = detected
        /\ \/ stage' = "received" /\ profile' = Data /\ decisions' = Append(decisions, Intake)
           \/ stage' = "denied" /\ UNCHANGED <<profile, decisions>>
    BY <1>2 DEF Create, Decides, DecisionsInv, Data, Intake
  <2>2. Data' = Data /\ Intake' = Intake
    BY <2>1 DEF Data, Intake
  <2>3. decisions' = Append(decisions, Intake) => decisions' = <<Intake>>
    BY <2>1
  <2> QED BY <1>1, <2>1, <2>2, <2>3 DEF DecisionsInv, Accepted
<1>3. CASE Plan
  <2>1. /\ stage = "received" /\ decisions = <<Intake>> /\ profile = Data
        /\ mode' = mode /\ declared' = declared /\ detected' = detected
    BY <1>3 DEF Plan, Decides, DecisionsInv, Accepted
  <2>2. Planning.executionAllowed
    BY LaterIsAllowed DEF Planning
  <2>3. /\ stage' = "awaiting_approval" /\ profile' = Data
        /\ decisions' = Append(decisions, Planning)
    BY <1>3, <2>1, <2>2 DEF Plan, Decides, Planning
  <2>4. Data' = Data /\ Intake' = Intake /\ Planning' = Planning
    BY <2>1 DEF Data, Intake, Planning
  <2>5. decisions' = <<Intake, Planning>>
    BY <2>1, <2>3, Appending
  <2> QED BY <1>1, <2>3, <2>4, <2>5 DEF DecisionsInv, Accepted
<1>4. CASE Execute
  <2>1. /\ stage = "awaiting_approval" /\ decisions = <<Intake, Planning>> /\ profile = Data
        /\ mode' = mode /\ declared' = declared /\ detected' = detected
    BY <1>4 DEF Execute, Decides, DecisionsInv, Accepted
  <2>2. Execution.executionAllowed
    BY LaterIsAllowed DEF Execution
  <2>3. /\ stage' = "completed" /\ profile' = Data
        /\ decisions' = Append(decisions, Execution)
    BY <1>4, <2>1, <2>2 DEF Execute, Decides, Execution
  <2>4. Data' = Data /\ Intake' = Intake /\ Planning' = Planning /\ Execution' = Execution
    BY <2>1 DEF Data, Intake, Planning, Execution
  <2>5. decisions' = <<Intake, Planning, Execution>>
    BY <2>1, <2>3, Appending
  <2> QED BY <1>1, <2>3, <2>4, <2>5 DEF DecisionsInv, Accepted
<1>5. CASE UNCHANGED vars
  <2>1. Data' = Data /\ Intake' = Intake /\ Planning' = Planning /\ Execution' = Execution
    BY <1>5 DEF vars, Data, Intake, Planning, Execution
  <2> QED BY <1>1, <1>5, <2>1 DEF vars, DecisionsInv, Accepted
<1> QED BY <1>2, <1>3, <1>4, <1>5 DEF Next

LEMMA DecisionsAlways == Spec => []DecisionsInv
  BY DecisionsInit, DecisionsNext, PTL DEF Spec

(* Intake on a local provider is refused only for what it holds, and a     *)
(* stored workflow was let through, at most by the mode.                   *)
LEMMA IntakeAllowed ==
  ASSUME DecisionsInv, Accepted
  PROVE  /\ Intake.executionAllowed
         /\ IsProhibited("workflow_intake", Data) =>
              Intake.outcome = "deny" /\ mode # "enforce"
<1>1. Executes(IsProhibited("workflow_intake", Data), mode)
  BY DEF DecisionsInv, Inv, Data
<1>2. ~LeavesHost("local-api", Data)
  BY DEF LeavesHost, LocalProviders
<1> QED BY <1>1, <1>2 DEF Intake, Decide, Executes

Decision ==
  [outcome : {"permit", "permit_with_controls", "deny"},
   executionAllowed : {TRUE},
   obligations : SUBSET (BaseObligations \cup SensitiveObligations),
   reasons : (SUBSET {"prohibited at intake", "unapproved provider",
                     "permit", "permit_with_controls"}) \ {{}},
   retention : {30, 90}]

LEMMA DecisionTyped ==
  ASSUME NEW op, NEW provider, NEW data, NEW m,
         Decide(op, provider, data, m).executionAllowed
  PROVE  Decide(op, provider, data, m) \in Decision
<1> DEFINE denied == IsProhibited(op, data) \/ LeavesHost(provider, data)
           obligations == BaseObligations \cup
                            (IF IsSensitive(data) THEN SensitiveObligations ELSE {})
           outcome == IF denied THEN "deny"
                      ELSE IF obligations # BaseObligations THEN "permit_with_controls"
                      ELSE "permit"
           reasons == (IF IsProhibited(op, data) THEN {"prohibited at intake"} ELSE {})
                        \cup (IF LeavesHost(provider, data) THEN {"unapproved provider"} ELSE {})
                        \cup (IF outcome # "deny" THEN {outcome} ELSE {})
           retention == IF IsSensitive(data) THEN 30 ELSE 90
<1>1. Decide(op, provider, data, m) =
        [outcome |-> outcome, executionAllowed |-> Executes(denied, m),
         obligations |-> obligations, reasons |-> reasons, retention |-> retention]
  BY DEF Decide
<1>2. outcome \in {"permit", "permit_with_controls", "deny"} /\ (denied <=> outcome = "deny")
  <2> HIDE DEF denied, obligations
  <2> QED OBVIOUS
<1>3. obligations \in SUBSET (BaseObligations \cup SensitiveObligations)
  OBVIOUS
<1>4. reasons \in (SUBSET {"prohibited at intake", "unapproved provider",
                          "permit", "permit_with_controls"}) \ {{}}
  <2> HIDE DEF outcome
  <2>1. reasons \subseteq {"prohibited at intake", "unapproved provider",
                          "permit", "permit_with_controls"}
    BY <1>2
  <2>2. reasons # {}
    BY <1>2
  <2> HIDE DEF reasons
  <2> QED BY <2>1, <2>2
<1>5. retention \in {30, 90}
  OBVIOUS
<1> HIDE DEF denied, obligations, outcome, reasons, retention
<1>6. PICK allowed \in {TRUE} : Executes(denied, m) = allowed
  <2>1. Executes(denied, m)
    BY <1>1
  <2> QED BY <2>1 DEF Executes
<1>7. Decide(op, provider, data, m) =
        [outcome |-> outcome, executionAllowed |-> allowed,
         obligations |-> obligations, reasons |-> reasons, retention |-> retention]
  BY <1>1, <1>6
<1>8. outcome \in {"permit", "permit_with_controls", "deny"}
  BY <1>2
<1> DEFINE Outcomes    == {"permit", "permit_with_controls", "deny"}
           Obligations == SUBSET (BaseObligations \cup SensitiveObligations)
           Reasons     == (SUBSET {"prohibited at intake", "unapproved provider",
                                  "permit", "permit_with_controls"}) \ {{}}
<1>9. /\ Decision = [outcome : Outcomes, executionAllowed : {TRUE},
                     obligations : Obligations, reasons : Reasons, retention : {30, 90}]
      /\ outcome \in Outcomes /\ obligations \in Obligations /\ reasons \in Reasons
  BY <1>3, <1>4, <1>8 DEF Decision
<1> HIDE DEF Outcomes, Obligations, Reasons
<1> QED BY <1>5, <1>7, <1>9

(* Every variable holds a value of its type; each stored decision let its  *)
(* operation through and gives a reason.                                   *)
THEOREM TypeCorrect == Spec => []TypeOK
<1>1. DecisionsInv => TypeOK
  <2> SUFFICES ASSUME DecisionsInv PROVE TypeOK
    OBVIOUS
  <2>1. declared \in SUBSET Category /\ detected \in SUBSET Category
    BY DEF DecisionsInv, Inv
  <2>2. Data \in [categories : SUBSET Category, classification : 0..3]
    <3>1. Data.classification \in 0..3
      BY <2>1, ClassificationIsHighest DEF Data
    <3>2. Categories(declared, detected) \in SUBSET Category
      BY <2>1 DEF Categories, Found, Category
    <3>3. Data = [categories |-> Categories(declared, detected),
                  classification |-> Data.classification]
      BY DEF Data, Classify
    <3> QED BY <3>1, <3>2, <3>3
  <2>3. profile \in [categories : SUBSET Category, classification : 0..3]
    <3>1. NoProfile \in [categories : SUBSET Category, classification : 0..3]
      BY DEF NoProfile
    <3> QED BY <2>2, <3>1 DEF DecisionsInv, Inv, Accepted
  <2>4. Accepted => Intake \in Decision
    BY IntakeAllowed, DecisionTyped DEF Intake
  <2>5. Planning \in Decision /\ Execution \in Decision
    BY LaterIsAllowed, DecisionTyped DEF Planning, Execution
  <2>6. \A i \in DOMAIN decisions : decisions[i] \in Decision
    BY <2>4, <2>5 DEF DecisionsInv, Inv, Accepted
  <2> QED BY <2>1, <2>3, <2>6 DEF DecisionsInv, Inv, TypeOK, Decision
<1> QED BY <1>1, DecisionsAlways, PTL

(* AC35-005: what the intake decision said stays with the workflow.  A     *)
(* denial that did not block is carried however far it is taken, and no    *)
(* later decision drops an obligation or relaxes the retention: decisions  *)
(* of the baseline engine, for the providers that the service names.       *)
THEOREM IntakeStands == Spec => []IntakeDecisionStands
<1>1. DecisionsInv => IntakeDecisionStands
  <2> SUFFICES ASSUME DecisionsInv PROVE IntakeDecisionStands
    OBVIOUS
  <2>1. ASSUME Accepted, (declared \cup detected) \cap ProhibitedIntake # {}
        PROVE  mode # "enforce" /\ decisions[1].outcome = "deny"
    <3>1. IsProhibited("workflow_intake", Data)
      BY <2>1, ProhibitedByOne DEF Data
    <3>2. decisions[1] = Intake
      BY <2>1 DEF DecisionsInv, Accepted
    <3> QED BY <2>1, <3>1, <3>2, IntakeAllowed
  <2>2. ASSUME NEW op, NEW provider
        PROVE  /\ Decide(op, provider, Data, mode).obligations = Planning.obligations
               /\ Decide(op, provider, Data, mode).retention = Planning.retention
               /\ Planning.retention \in Nat
    BY DEF Planning, Decide
  <2>3. /\ Intake.obligations = Planning.obligations
        /\ Execution.obligations = Planning.obligations
        /\ Intake.retention = Planning.retention
        /\ Execution.retention = Planning.retention /\ Planning.retention \in Nat
    BY <2>2 DEF Intake, Execution
  <2>4. \A i \in DOMAIN decisions : /\ decisions[i].obligations = Planning.obligations
                                    /\ decisions[i].retention = Planning.retention
    BY <2>3 DEF DecisionsInv, Inv, Accepted
  <2> QED BY <2>1, <2>3, <2>4 DEF IntakeDecisionStands
<1> QED BY <1>1, DecisionsAlways, PTL

=============================================================================
