---------------------------- MODULE AgentRuntime ----------------------------
(***************************************************************************)
(* The planning graph (graph.py) with its retriever, guardrails, provider  *)
(* and evaluation gate: how a request becomes a proposal, and what stops   *)
(* it on the way.  The graph of one workflow may be invoked again: after a *)
(* failed run, or by a second planner at any node of the first run.  Every *)
(* invocation has the workflow id as its LangGraph thread id, so it starts *)
(* from the channels another one left in the checkpointer; from then on it *)
(* works on channels of its own.  The model therefore follows the newer    *)
(* run: the older one goes on as if it were alone.                         *)
(*                                                                         *)
(* Abstractions.  A request is the topics its words name and whether an    *)
(* injection pattern occurs in it.  A document is its number, the rank of  *)
(* its id; its text is known by what matters: tags, tokens shared with the *)
(* request and whether a pattern occurs.  A proposal is the set of         *)
(* documents whose text it repeats as a step and two bits.  Complexity,    *)
(* model policy, token metrics and content hashes are left out.            *)
(***************************************************************************)
EXTENDS Naturals, Sequences, FiniteSets, SequencesExt

CONSTANTS
  Requests,    \* requests a workflow may carry
  Documents,   \* 1..n, in the order of the document ids
  Kinds,       \* what the text of a document may be
  Providers,   \* proposal providers behind the port
  TopK,        \* passages a retrieval returns (2 in the code)
  MaxRuns,     \* bound: invocations of the graph
  None

Topic == {"security", "integration", "data"}

ASSUME RuntimeAssumption ==
  /\ \A r \in Requests : r.topics \subseteq Topic /\ r.injected \in BOOLEAN
  /\ \A k \in Kinds : k.overlap \in Nat /\ k.tainted \in BOOLEAN
  /\ Documents \subseteq Nat /\ IsFiniteSet(Documents)
  /\ Providers \subseteq {"deterministic-local", "other"}
  /\ TopK \in Nat /\ MaxRuns \in Nat
  /\ None \notin {"planned", "PromptInjectionBlocked", "EvaluationGateBlocked"}
  /\ \A group \in SUBSET Documents : group # None

VARIABLES
  request,    \* the request of the workflow
  corpus,     \* the documents of the retriever
  channels,   \* the graph's state, kept by the checkpointer between runs
  node,       \* the node the newest run takes next, "ready" when it has ended
  outcome,    \* how it ended
  shown,      \* history: documents handed to the provider, None if not asked
  runs        \* invocations so far

vars == <<request, corpus, channels, node, outcome, shown, runs>>

NoChannels ==
  [completed |-> <<>>, category |-> None, passages |-> <<>>,
   citations |-> {}, quarantined |-> {}, proposal |-> None]

Init ==
  /\ request \in Requests
  /\ corpus \in [Documents -> Kinds]
  /\ channels = NoChannels
  /\ node = "ready" /\ outcome = None /\ shown = None /\ runs = 0

-----------------------------------------------------------------------------
(* The first topic in this order decides the category.                     *)
CategoryOf(r) ==
  CASE "security" \in r.topics -> "security"
    [] "security" \notin r.topics /\ "integration" \in r.topics -> "integration"
    [] r.topics = {"data"} -> "data"
    [] OTHER -> "general"

RawScore(d, category) ==
  corpus[d].overlap + (IF category \in corpus[d].tags THEN 3 ELSE 0)
                    + (IF "general" \in corpus[d].tags THEN 1 ELSE 0)

(* min(1.0, raw / 5) in fifths: better matches than five are ties.         *)
Relevance(d, category) ==
  IF RawScore(d, category) > 5 THEN 5 ELSE RawScore(d, category)

Ranks(c, d, e) ==
  \/ Relevance(d, c) > Relevance(e, c)
  \/ Relevance(d, c) = Relevance(e, c) /\ d < e

Relevant(category) == {d \in Documents : RawScore(d, category) > 0}

Ahead(category, group, d) == {e \in group : Ranks(category, e, d)}

(* Mutant: every relevant document is returned.                            *)
RetrieveAll(category) == Relevant(category)

(* ranked[:top_k], as a set: fewer than TopK relevant documents are ahead. *)
Retrieve(category) ==
  {d \in Relevant(category) :
     Cardinality(Ahead(category, Relevant(category), d)) < TopK}

(* A part of the ranked list, in the order of the list.                    *)
InOrder(category, group) ==
  [k \in 1..Cardinality(group) |->
     CHOOSE d \in group : Cardinality(Ahead(category, group, d)) = k - 1]

(* Mutant: retrieved passages are not scanned.                             *)
AlwaysSafe(d) == TRUE

IsSafe(d) == ~corpus[d].tainted

(* The provider answers from what it is shown: the local one repeats the   *)
(* best passage, another may repeat any of them or none, leave a field     *)
(* empty, or produce text in which a pattern occurs.                       *)
Answers(provider, passages) ==
  IF provider = "deterministic-local"
    THEN [steps : {IF passages = <<>> THEN {} ELSE {passages[1]}},
          structured : {TRUE}, flagged : BOOLEAN]
    ELSE [steps : SUBSET ToSet(passages),
          structured : BOOLEAN, flagged : BOOLEAN]

(* Mutant: a gate that asks for four of its five checks.                   *)
PassesMostly(c) ==
  /\ c.proposal.structured /\ ~c.proposal.flagged
  /\ c.citations # {} /\ c.citations \subseteq ToSet(c.passages)

(* The evaluation gate: all five checks.                                   *)
Passes(c) ==
  /\ c.proposal.structured
  /\ c.citations # {}
  /\ c.citations \subseteq ToSet(c.passages)
  /\ ToSet(c.passages) \cap c.proposal.steps # {}
  /\ ~c.proposal.flagged

-----------------------------------------------------------------------------
(* The nodes, each with its edge to the next.                              *)

(* Mutant: the checkpoints of the previous run are kept.                   *)
KeepsCheckpoints(c) == c

Restarts(c) == [c EXCEPT !.completed = <<>>]

Invoke ==
  /\ runs < MaxRuns
  /\ channels' = Restarts(channels)
  /\ node' = "validate" /\ outcome' = None /\ shown' = None /\ runs' = runs + 1
  /\ UNCHANGED <<request, corpus>>

(* The node ends: it leaves its channels, its checkpoint and the next node. *)
Completes(this, update, checkpoint, next) ==
  /\ node = this
  /\ channels' = [update EXCEPT !.completed = Append(@, checkpoint)]
  /\ node' = next
  /\ UNCHANGED <<request, corpus, runs>>

Fails(error) ==
  /\ node' = "ready" /\ outcome' = error
  /\ UNCHANGED <<request, corpus, channels, shown, runs>>

Validate ==
  Completes("validate", channels, "validated", "guard_input")
  /\ UNCHANGED <<outcome, shown>>

IsBlocked(r) == r.injected

GuardInput ==
  /\ node = "guard_input"
  /\ \/ /\ ~IsBlocked(request)
        /\ Completes("guard_input", channels, "guarded", "classify")
        /\ UNCHANGED <<outcome, shown>>
     \/ /\ IsBlocked(request)
        /\ Fails("PromptInjectionBlocked")

Classify ==
  Completes("classify", [channels EXCEPT !.category = CategoryOf(request)],
            "classified", "build_context")
  /\ UNCHANGED <<outcome, shown>>

BuildContext ==
  Completes("build_context", channels, "context_built", "retrieve_local_policy")
  /\ UNCHANGED <<outcome, shown>>

RetrieveLocalPolicy ==
  LET batch == Retrieve(channels.category)
      safe  == {d \in batch : IsSafe(d)}
  IN /\ Completes("retrieve_local_policy",
                  [channels EXCEPT !.passages    = InOrder(channels.category, safe),
                                   !.citations   = safe,
                                   !.quarantined = batch \ safe],
                  "knowledge_retrieved", "plan")
     /\ UNCHANGED <<outcome, shown>>

Plan ==
  /\ \E provider \in Providers :
       \E proposal \in Answers(provider, channels.passages) :
         Completes("plan", [channels EXCEPT !.proposal = proposal],
                   "planned", "evaluate")
  /\ shown' = ToSet(channels.passages)
  /\ UNCHANGED outcome

Evaluate ==
  /\ node = "evaluate"
  /\ \/ /\ Passes(channels)
        /\ Completes("evaluate", channels, "evaluated", "ready")
        /\ outcome' = "planned"
        /\ UNCHANGED shown
     \/ /\ ~Passes(channels)
        /\ Fails("EvaluationGateBlocked")

Next ==
  Invoke \/ Validate \/ GuardInput \/ Classify \/ BuildContext
    \/ RetrieveLocalPolicy \/ Plan \/ Evaluate

Spec == Init /\ [][Next]_vars

=============================================================================
