------------------------- MODULE ApplicationErrors -------------------------
(***************************************************************************)
(* The application errors of errors.py: the status each is answered with,  *)
(* and the errors that the code of each operation of service.py, with the  *)
(* adapters it calls, contains.                                            *)
(***************************************************************************)

(* The status each application error is answered with.                     *)
StatusOf ==
  [AuthenticationRequired |-> 401, PermissionDenied |-> 403,
   WorkflowNotFound |-> 404, IdempotencyConflict |-> 409,
   InvalidRequestMetadata |-> 400, InvalidWorkflowState |-> 409,
   DataProcessingDenied |-> 403, ComplianceOverlayUnavailable |-> 422,
   ApprovalExpired |-> 409, NoPendingTask |-> 404,
   PromptInjectionRejected |-> 422, EvaluationGateRejected |-> 422,
   RequestRateExceeded |-> 429]

(* The errors the code of each operation raises somewhere; AnswersAreKnown *)
(* in OutcomeProofs says which of them a caller can meet.                  *)
ErrorsOf ==
  [create   |-> {"PermissionDenied", "ComplianceOverlayUnavailable",
                 "DataProcessingDenied", "IdempotencyConflict"},
   workflow |-> {"WorkflowNotFound"},
   plan     |-> {"WorkflowNotFound", "InvalidWorkflowState", "DataProcessingDenied",
                 "PromptInjectionRejected", "EvaluationGateRejected"},
   approval |-> {"PermissionDenied", "WorkflowNotFound", "InvalidWorkflowState",
                 "IdempotencyConflict", "ApprovalExpired"},
   process  |-> {"PermissionDenied", "NoPendingTask", "WorkflowNotFound", "ApprovalExpired",
                 "InvalidWorkflowState", "IdempotencyConflict", "DataProcessingDenied"}]

=============================================================================
