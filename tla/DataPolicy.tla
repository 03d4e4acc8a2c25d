----------------------------- MODULE DataPolicy -----------------------------
(***************************************************************************)
(* The data classifier and the baseline policy engine of governance-core,  *)
(* as operators: what a request is classified as and what is decided of    *)
(* one operation on it.                                                    *)
(*                                                                         *)
(* Abstractions.  A request is the categories its text is found to hold.   *)
(* Reasons are named, not worded.  Detection basis, decision digest,       *)
(* purpose, tenant and jurisdiction, which no decision depends on, are     *)
(* left out.                                                               *)
(***************************************************************************)
EXTENDS Naturals

Category ==
  {"general_content", "contact_information", "health_information",
   "financial_information", "payment_card_data", "credentials",
   "biometric_information", "childrens_data", "education_records",
   "government_data"}

Mode      == {"observe", "warn", "enforce"}
Operation == {"workflow_intake", "agent_planning", "external_model_inference",
              "knowledge_retrieval", "tool_execution"}
Provider  == {"local-api", "deterministic-local", "public-external-model"}

LocalProviders   == {"local-api", "deterministic-local"}
ProhibitedIntake == {"credentials", "payment_card_data"}

(* internal < confidential < restricted < regulated high impact            *)
ClassificationBy(category) ==
  CASE category = "general_content"     -> 0
    [] category = "contact_information" -> 1
    [] category \in {"payment_card_data", "government_data"} -> 3
    [] OTHER -> 2

-----------------------------------------------------------------------------
(* The classifier: what is declared and what is found count alike.         *)

(* Mutant: what the client declares replaces what was found.               *)
DeclaredFirst(declared, detected) == IF declared # {} THEN declared ELSE detected

Found(declared, detected) == declared \cup detected

Categories(declared, detected) ==
  IF Found(declared, detected) = {} THEN {"general_content"}
                                    ELSE Found(declared, detected)

(* The profile takes the highest classification among its categories.      *)
Reaches(categories, level) ==
  \E c \in categories : ClassificationBy(c) >= level

Classify(declared, detected) ==
  LET all == Categories(declared, detected)
  IN [categories     |-> all,
      classification |-> CHOOSE level \in 0..3 :
                           /\ Reaches(all, level)
                           /\ \A higher \in 0..3 :
                                higher > level => ~Reaches(all, higher)]

-----------------------------------------------------------------------------
(* The policy engine.                                                      *)

(* Mutant: only the highest classification is treated as sensitive.        *)
IsRegulated(profile) == profile.classification = 3
IsSensitive(profile) == profile.classification >= 2

BaseObligations == {"audit_decision", "purpose_limitation"}

SensitiveObligations ==
  {"data_minimization", "redact_before_external_processing",
   "local_processing_only", "no_provider_training",
   "human_approval_for_side_effects", "enhanced_access_logging"}

IsProhibited(operation, profile) ==
  operation = "workflow_intake" /\ profile.categories \cap ProhibitedIntake # {}

LeavesHost(provider, profile) == IsSensitive(profile) /\ provider \notin LocalProviders

(* A denial blocks in enforce mode only.                                   *)
Executes(denied, mode) == ~denied \/ mode # "enforce"

Decide(operation, provider, profile, mode) ==
  LET denied == IsProhibited(operation, profile) \/ LeavesHost(provider, profile)
      obligations == BaseObligations \cup
                       (IF IsSensitive(profile) THEN SensitiveObligations ELSE {})
      outcome ==
        IF denied THEN "deny"
        ELSE IF obligations # BaseObligations THEN "permit_with_controls" ELSE "permit"
  IN [outcome          |-> outcome,
      executionAllowed |-> Executes(denied, mode),
      obligations      |-> obligations,
      reasons          |->
        (IF IsProhibited(operation, profile) THEN {"prohibited at intake"} ELSE {})
          \cup (IF LeavesHost(provider, profile) THEN {"unapproved provider"} ELSE {})
          \cup (IF outcome # "deny" THEN {outcome} ELSE {}),
      retention        |-> IF IsSensitive(profile) THEN 30 ELSE 90]

=============================================================================
