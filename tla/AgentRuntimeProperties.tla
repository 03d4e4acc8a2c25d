----------------------- MODULE AgentRuntimeProperties -----------------------
(* What the planning graph promises to the service that calls it.          *)
EXTENDS AgentRuntime

Checkpoints ==
  <<"validated", "guarded", "classified", "context_built",
    "knowledge_retrieved", "planned", "evaluated">>

(* Every variable holds a value of its type.                               *)
TypeOK ==
  /\ request \in Requests /\ corpus \in [Documents -> Kinds]
  /\ channels.completed \in Seq(ToSet(Checkpoints))
  /\ channels.category \in Topic \cup {"general", None}
  /\ channels.passages \in Seq(Documents) /\ Len(channels.passages) <= TopK
  /\ channels.citations \cup channels.quarantined \subseteq Documents
  /\ channels.proposal \in
       [steps : SUBSET Documents, structured : BOOLEAN, flagged : BOOLEAN]
         \cup {None}
  /\ node \in {"ready", "validate", "guard_input", "classify",
               "build_context", "retrieve_local_policy", "plan", "evaluate"}
  /\ outcome \in {None, "planned", "PromptInjectionBlocked", "EvaluationGateBlocked"}
  /\ runs \in 0..MaxRuns

(* The checkpoints of the present run are a prefix of the documented path  *)
(* whatever earlier runs left in the checkpointer, and the whole path when *)
(* the run succeeds: the service appends them to the workflow's history.   *)
CheckpointsFollowPath ==
  /\ IsPrefix(channels.completed, Checkpoints)
  /\ outcome = "planned" => channels.completed = Checkpoints

(* AC5-004, AC5-005: whatever a run finds in the channels of an earlier or *)
(* overlapping one, no text with an injection pattern reaches the          *)
(* provider: such a request is rejected before, such a document is neither *)
(* shown nor cited, and is reported when it was selected.                  *)
TaintedStaysOut ==
  LET tainted == {d \in Documents : corpus[d].tainted}
  IN /\ request.injected => shown = None /\ outcome # "planned"
     /\ channels.citations \cap tainted = {}
     /\ shown # None => shown \cap tainted = {}
     /\ node = "plan" =>
          channels.quarantined = Retrieve(channels.category) \cap tainted

(* AC5-003, AC5-006: a plan that succeeds repeats a passage of this run    *)
(* that it also cites; everything it cites is relevant to the request and  *)
(* ahead of any safe document left out for lack of room: more relevant, or *)
(* as relevant (the score is capped, so better matches tie) and of a       *)
(* smaller document id.                                                    *)
PlannedIsGrounded ==
  outcome = "planned" =>
    LET c   == channels
        out == {d \in Documents : ~corpus[d].tainted} \ c.citations
    IN /\ c.proposal.structured /\ ~c.proposal.flagged
       /\ c.proposal.steps \cap c.citations # {}
       /\ c.citations = shown
       /\ \A d \in c.citations : RawScore(d, CategoryOf(request)) > 0
       /\ \A d \in c.citations, e \in out :
            LET gain == Relevance(d, CategoryOf(request)) - Relevance(e, CategoryOf(request))
            IN gain > 0 \/ (gain = 0 /\ d < e)

(* AC5-005, "quarantined and cannot influence the proposal": the local     *)
(* provider's proposal is the one it would make if the quarantined         *)
(* documents were not in the corpus.                                       *)
QuarantineDoesNotInfluence ==
  node = "evaluate" =>
    LET relevant == {d \in Documents : IsSafe(d)
                                        /\ RawScore(d, channels.category) > 0}
    IN channels.proposal.steps =
         {d \in relevant : \A e \in relevant \ {d} : Ranks(channels.category, d, e)}

=============================================================================
