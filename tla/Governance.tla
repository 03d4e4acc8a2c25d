----------------------------- MODULE Governance -----------------------------
(***************************************************************************)
(* governance-core in use: the three points at which the service asks the  *)
(* policy engine about one workflow (create, plan and execute_task in      *)
(* service.py), and the decisions that stay with the workflow.             *)
(***************************************************************************)
EXTENDS DataPolicy, Sequences, FiniteSets

CONSTANTS
  Declared,   \* bound: categories a client declares in this model
  Detected    \* bound: categories found in a request in this model

ASSUME GovernanceAssumption ==
  /\ Declared \subseteq Category
  /\ Detected \subseteq Category \ {"general_content"}  \* it has no pattern

-----------------------------------------------------------------------------
(* One workflow under governance.                                          *)

VARIABLES
  mode,       \* ADR_GOVERNANCE_MODE, fixed for the life of the process
  declared,   \* what the client says the request holds
  detected,   \* what the patterns find in it
  stage,      \* how far the workflow came
  profile,    \* the data profile in the stored processing context
  decisions   \* the workflow's governance decisions

vars == <<mode, declared, detected, stage, profile, decisions>>

NoProfile == [categories |-> {}, classification |-> 0]

Init ==
  /\ mode \in Mode
  /\ declared \in SUBSET Declared
  /\ detected \in SUBSET Detected
  /\ stage = "submitted" /\ profile = NoProfile /\ decisions = <<>>

(* Each operation is decided before it is done; a refusal stores nothing.  *)
(* Mutant: the decision is stored and not looked at.                       *)
DecidesUnchecked(from, operation, provider, data, to, refused) ==
  /\ stage = from /\ stage' = to /\ profile' = data
  /\ decisions' = Append(decisions, Decide(operation, provider, data, mode))
  /\ UNCHANGED <<mode, declared, detected>>

Decides(from, operation, provider, data, to, refused) ==
  LET decision == Decide(operation, provider, data, mode)
  IN /\ stage = from
     /\ IF decision.executionAllowed
          THEN /\ stage' = to /\ profile' = data
               /\ decisions' = Append(decisions, decision)
          ELSE /\ stage' = refused /\ UNCHANGED <<profile, decisions>>
     /\ UNCHANGED <<mode, declared, detected>>

Create ==
  Decides("submitted", "workflow_intake", "local-api",
          Classify(declared, detected), "received", "denied")

(* Mutant: the profile is lost in the copied context.                      *)
PlanUnprofiled ==
  Decides("received", "agent_planning", "deterministic-local",
          Classify({}, {}), "awaiting_approval", "received")

Plan ==
  Decides("received", "agent_planning", "deterministic-local", profile,
          "awaiting_approval", "received")

(* Reached once the proposal is approved, which governance does not see.   *)
Execute ==
  Decides("awaiting_approval", "tool_execution", "deterministic-local",
          profile, "completed", "awaiting_approval")

Next == Create \/ Plan \/ Execute

Spec == Init /\ [][Next]_vars

-----------------------------------------------------------------------------
Accepted == stage \in {"received", "awaiting_approval", "completed"}

(* Every variable holds a value of its type.                               *)
TypeOK ==
  /\ mode \in Mode /\ declared \subseteq Category /\ detected \subseteq Category
  /\ stage \in {"submitted", "denied", "received", "awaiting_approval", "completed"}
  /\ profile \in [categories : SUBSET Category, classification : 0..3]
  /\ \A i \in DOMAIN decisions :
       decisions[i] \in
         [outcome : {"permit", "permit_with_controls", "deny"},
          executionAllowed : {TRUE},
          obligations : SUBSET (BaseObligations \cup SensitiveObligations),
          reasons : (SUBSET {"prohibited at intake", "unapproved provider",
                            "permit", "permit_with_controls"}) \ {{}},
          retention : {30, 90}]

(* AC35-003: in enforce mode a workflow that holds credentials or card     *)
(* data, declared or found, is never stored.                               *)
ProhibitedIsNotStored ==
  mode = "enforce" /\ Accepted => (declared \cup detected) \cap ProhibitedIntake = {}

(* AC35-005 and the context copied from operation to operation: what the   *)
(* intake decision said stays with the workflow.  A denial that did not    *)
(* block is carried however far it is taken, and no later decision drops   *)
(* an obligation or relaxes the retention.                                 *)
IntakeDecisionStands ==
  /\ Accepted /\ (declared \cup detected) \cap ProhibitedIntake # {} =>
       mode # "enforce" /\ decisions[1].outcome = "deny"
  /\ \A i, j \in DOMAIN decisions : i < j =>
       /\ decisions[i].obligations \subseteq decisions[j].obligations
       /\ decisions[j].retention <= decisions[i].retention

(* AC35-004: whatever the operation and whatever else a request holds, one *)
(* category above confidential is enough to keep it from an unapproved     *)
(* provider in enforce mode, and to add the controls.                      *)
SensitiveStaysLocal ==
  \A op \in Operation, p \in Provider :
    LET decision == Decide(op, p, Classify(declared, detected), mode)
    IN Reaches(declared \cup detected, 2) =>
         /\ SensitiveObligations \subseteq decision.obligations
         /\ p \notin LocalProviders => decision.outcome = "deny"
         /\ p \notin LocalProviders /\ mode = "enforce" => ~decision.executionAllowed

(* Declaring or finding one more category never makes processing freer: no *)
(* operation becomes allowed, no obligation disappears.                    *)
MoreDataIsNeverFreer ==
  \A op \in Operation, p \in Provider, c \in Category :
    LET less == Decide(op, p, Classify(declared, detected), mode)
        more == Decide(op, p, Classify(declared \cup {c}, detected), mode)
    IN /\ more.executionAllowed => less.executionAllowed
       /\ less.obligations \subseteq more.obligations
       /\ less.outcome = "deny" => more.outcome = "deny"

=============================================================================
