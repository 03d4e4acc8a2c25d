---------------------------- MODULE MCGovernance ----------------------------
(* Instances of Governance small enough for TLC.                            *)
EXTENDS Governance

(* One or two categories of each classification.                           *)
MCDeclared == {"general_content", "contact_information", "health_information",
               "credentials", "payment_card_data"}
MCDetected == {"contact_information", "health_information", "credentials",
               "government_data"}

=============================================================================
