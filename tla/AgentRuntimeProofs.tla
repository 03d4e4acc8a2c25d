------------------------ MODULE AgentRuntimeProofs -------------------------
(***************************************************************************)
(* Proofs about the planning graph, for every request, corpus, provider    *)
(* and number of runs: its types, its checkpoints, that no injected text   *)
(* reaches the provider, and that a plan which succeeds is grounded.       *)
(*                                                                         *)
(* The argument.  A position in the ranked list is the number of documents *)
(* ahead; Ranks is a strict total order, so that the positions of a finite *)
(* group are 0..n-1, each taken once (Positions).  This bounds what a      *)
(* retrieval returns and makes InOrder a listing of its group.  The        *)
(* invariant says, node by node, what the run has settled and which        *)
(* channels may still be those of an earlier run.                          *)
(***************************************************************************)
EXTENDS AgentRuntimeProperties, FiniteSetTheorems, FunctionTheorems,
        SequenceTheorems, TLAPS

(* What the ranking needs of the constants.                                *)
LEMMA Given ==
  /\ Documents \subseteq Nat /\ IsFiniteSet(Documents) /\ TopK \in Nat
  /\ \A k \in Kinds : k.overlap \in Nat
BY RuntimeAssumption

LEMMA NoneIsApart ==
  None # "planned" /\ None \notin SUBSET Documents /\ MaxRuns \in Nat
BY RuntimeAssumption

-----------------------------------------------------------------------------
(* The ranking.                                                            *)

Scored == corpus \in [Documents -> Kinds]

LEMMA Scores ==
  ASSUME Scored, NEW category, NEW d \in Documents
  PROVE  /\ RawScore(d, category) \in Nat
         /\ Relevance(d, category) \in Nat
         /\ RawScore(d, category) = 0 => Relevance(d, category) = 0
<1>1. corpus[d].overlap \in Nat
  BY Given DEF Scored
<1>2. RawScore(d, category) \in Nat
  BY <1>1 DEF RawScore
<1> QED BY <1>2 DEF Relevance

LEMMA RanksIsOrder ==
  ASSUME Scored, NEW category, NEW d \in Documents, NEW e \in Documents
  PROVE  /\ ~Ranks(category, d, d)
         /\ d # e => Ranks(category, d, e) \/ Ranks(category, e, d)
         /\ \A f \in Documents :
              Ranks(category, d, e) /\ Ranks(category, e, f) => Ranks(category, d, f)
<1>1. \A f \in Documents : Relevance(f, category) \in Nat /\ f \in Nat
  BY Scores, Given
<1>2. ~Ranks(category, d, d)
  BY <1>1 DEF Ranks
<1>3. ASSUME d # e
      PROVE  Ranks(category, d, e) \/ Ranks(category, e, d)
  <2>1. \/ Relevance(d, category) > Relevance(e, category)
        \/ Relevance(e, category) > Relevance(d, category)
        \/ Relevance(d, category) = Relevance(e, category)
    BY <1>1
  <2>2. d < e \/ e < d
    <3>1. d \in Nat /\ e \in Nat
      BY <1>1
    <3> QED BY <1>3, <3>1
  <2> QED BY <2>1, <2>2 DEF Ranks
<1>4. ASSUME NEW f \in Documents, Ranks(category, d, e), Ranks(category, e, f)
      PROVE  Ranks(category, d, f)
  BY <1>1, <1>4 DEF Ranks
<1> QED BY <1>2, <1>3, <1>4

(* The place of a document in the list of a group, counted from nought.    *)
Place(category, group, d) == Cardinality(Ahead(category, group, d))

(* Whoever ranks before another has a smaller place.                       *)
LEMMA PlacesFollowRank ==
  ASSUME Scored, NEW category, NEW group \in SUBSET Documents,
         NEW d \in group, NEW e \in group, Ranks(category, d, e)
  PROVE  Place(category, group, d) < Place(category, group, e)
<1> DEFINE A == Ahead(category, group, d)
           B == Ahead(category, group, e)
<1>1. A \subseteq B
  BY RanksIsOrder DEF Ahead
<1>2. d \in B /\ d \notin A
  BY RanksIsOrder DEF Ahead
<1>3. IsFiniteSet(B)
  <2>1. IsFiniteSet(Documents) /\ B \in SUBSET Documents
    BY Given DEF Ahead
  <2> HIDE DEF B
  <2> QED BY <2>1, FS_Subset
<1> HIDE DEF A, B
<1>4. /\ IsFiniteSet(A) /\ Cardinality(A) <= Cardinality(B)
      /\ Cardinality(A) # Cardinality(B)
  BY <1>1, <1>2, <1>3, FS_Subset
<1>5. Cardinality(A) \in Nat /\ Cardinality(B) \in Nat
  BY <1>3, <1>4, FS_CardinalityType
<1> QED BY <1>4, <1>5 DEF Place, A, B

LEMMA PlaceIsBounded ==
  ASSUME Scored, NEW category, NEW group \in SUBSET Documents, NEW d \in group
  PROVE  /\ IsFiniteSet(group) /\ Cardinality(group) \in Nat
         /\ Place(category, group, d) \in Nat
         /\ Place(category, group, d) < Cardinality(group)
<1> DEFINE A == Ahead(category, group, d)
<1>1. IsFiniteSet(group) /\ Cardinality(group) \in Nat
  BY Given, FS_Subset, FS_CardinalityType
<1>2. A \subseteq group /\ d \notin A
  BY RanksIsOrder DEF Ahead
<1> HIDE DEF A
<1>3. /\ IsFiniteSet(A) /\ Cardinality(A) <= Cardinality(group)
      /\ Cardinality(A) # Cardinality(group)
  BY <1>1, <1>2, FS_Subset
<1>4. Cardinality(A) \in Nat
  BY <1>3, FS_CardinalityType
<1> QED BY <1>1, <1>3, <1>4 DEF Place, A

(* The places of a group of n documents are 0..n-1, each taken once.       *)
LEMMA Positions ==
  ASSUME Scored, NEW category, NEW group \in SUBSET Documents
  PROVE  /\ Cardinality(group) \in Nat
         /\ \A d, e \in group :
              Place(category, group, d) = Place(category, group, e) => d = e
         /\ \A k \in 1..Cardinality(group) :
              \E d \in group : Place(category, group, d) = k - 1
<1> DEFINE size == Cardinality(group)
           turn == [d \in group |-> Place(category, group, d) + 1]
<1>1. IsFiniteSet(group) /\ size \in Nat
  BY Given, FS_Subset, FS_CardinalityType
<1>2. ASSUME NEW d \in group, NEW e \in group, d # e
      PROVE  Place(category, group, d) # Place(category, group, e)
  <2>1. Ranks(category, d, e) \/ Ranks(category, e, d)
    BY <1>2, RanksIsOrder
  <2>2. Place(category, group, d) \in Nat /\ Place(category, group, e) \in Nat
    BY PlaceIsBounded
  <2>3. \/ Place(category, group, d) < Place(category, group, e)
        \/ Place(category, group, e) < Place(category, group, d)
    BY <2>1, PlacesFollowRank
  <2> QED BY <2>2, <2>3
<1>3. \A d \in group : Place(category, group, d) \in Nat /\ Place(category, group, d) < size
  BY PlaceIsBounded
<1>4. turn \in [group -> 1..size]
  BY <1>1, <1>3
<1>5. turn \in Injection(group, 1..size)
  <2>1. ASSUME NEW d \in group, NEW e \in group, turn[d] = turn[e]
        PROVE  d = e
    BY <1>2, <1>3, <2>1
  <2> QED BY <1>4, <2>1 DEF Injection, IsInjective
<1>6. IsFiniteSet(1..size) /\ Cardinality(1..size) = size
  <2>1. 1 \in Int /\ size \in Int
    BY <1>1
  <2>2. IsFiniteSet(1..size) /\ Cardinality(1..size) = IF 1 > size THEN 0 ELSE size - 1 + 1
    BY <2>1, FS_Interval
  <2> QED BY <1>1, <2>2
<1>7. turn \in Surjection(group, 1..size)
  <2> HIDE DEF turn, size
  <2>1. Cardinality(group) = Cardinality(1..size)
    BY <1>6 DEF size
  <2> QED BY <1>5, <1>6, <2>1, FS_Injection
<1>8. ASSUME NEW k \in 1..size
      PROVE  \E d \in group : Place(category, group, d) = k - 1
  <2>1. PICK d \in group : turn[d] = k
    BY <1>7 DEF Surjection
  <2>2. Place(category, group, d) + 1 = k /\ Place(category, group, d) \in Nat
    BY <1>3, <2>1
  <2>3. Place(category, group, d) = k - 1
    BY <2>2
  <2> QED BY <2>3
<1> QED BY <1>1, <1>2, <1>8

(* InOrder lists its group: every document, and each once.                 *)
LEMMA InOrderLists ==
  ASSUME Scored, NEW category, NEW group \in SUBSET Documents
  PROVE  /\ InOrder(category, group) \in Seq(Documents)
         /\ Len(InOrder(category, group)) = Cardinality(group)
         /\ ToSet(InOrder(category, group)) = group
<1> DEFINE size == Cardinality(group)
           list == InOrder(category, group)
<1>1. size \in Nat
  BY Positions
<1>2. list = [k \in 1..size |-> CHOOSE d \in group : Place(category, group, d) = k - 1]
  BY DEF InOrder, Place
<1> HIDE DEF list, size
<1>3. ASSUME NEW k \in 1..size
      PROVE  list[k] \in group /\ Place(category, group, list[k]) = k - 1
  <2>1. \E d \in group : Place(category, group, d) = k - 1
    BY <1>3, Positions DEF size
  <2>2. list[k] = CHOOSE d \in group : Place(category, group, d) = k - 1
    BY <1>2
  <2> QED BY <2>1, <2>2
<1>4. list \in [1..size -> Documents]
  BY <1>2, <1>3
<1>5. list \in Seq(Documents) /\ Len(list) = size /\ DOMAIN list = 1..size
  BY <1>1, <1>4
<1>6. ASSUME NEW d \in group
      PROVE  \E k \in 1..size : list[k] = d
  <2> DEFINE at == Place(category, group, d)
  <2>1. at \in Nat /\ at < size
    BY PlaceIsBounded DEF size
  <2> HIDE DEF at
  <2>2. at + 1 \in 1..size /\ (at + 1) - 1 = at
    BY <1>1, <2>1
  <2>3. PICK k \in 1..size : k - 1 = at
    BY <2>2
  <2>4. list[k] \in group /\ Place(category, group, list[k]) = Place(category, group, d)
    BY <1>3, <2>3 DEF at
  <2>5. \A e \in group : Place(category, group, e) = Place(category, group, d) => e = d
    BY Positions
  <2> QED BY <2>4, <2>5
<1>7. ToSet(list) = group
  BY <1>3, <1>5, <1>6 DEF ToSet
<1> QED BY <1>5, <1>7 DEF list, size

(* A retrieval returns at most TopK documents, all of them relevant, and   *)
(* whatever relevant document it leaves out ranks behind every one of them.*)
LEMMA RetrievalIsBest ==
  ASSUME Scored, NEW category
  PROVE  /\ Retrieve(category) \subseteq Relevant(category)
         /\ Relevant(category) \subseteq Documents
         /\ Cardinality(Retrieve(category)) <= TopK
         /\ \A d \in Retrieve(category), e \in Relevant(category) \ Retrieve(category) :
              Ranks(category, d, e)
<1>0. TopK \in Nat
  BY Given
<1> DEFINE relevant == Relevant(category)
           kept     == Retrieve(category)
           turn     == [d \in kept |-> Place(category, relevant, d) + 1]
<1>1. relevant \in SUBSET Documents /\ kept \subseteq relevant
  BY DEF Relevant, Retrieve
<1>2. \A d \in relevant : d \in kept <=> Place(category, relevant, d) < TopK
  BY DEF Retrieve, Place
<1> HIDE DEF relevant, kept
<1>3. \A d \in relevant : Place(category, relevant, d) \in Nat
  BY <1>1, PlaceIsBounded
<1>4. turn \in Injection(kept, 1..TopK)
  <2>1. turn \in [kept -> 1..TopK]
    BY <1>0, <1>1, <1>2, <1>3
  <2>2. ASSUME NEW d \in kept, NEW e \in kept, turn[d] = turn[e]
        PROVE  d = e
    <3>1. Place(category, relevant, d) = Place(category, relevant, e)
      BY <1>1, <1>3, <2>2
    <3> QED BY <1>1, <3>1, Positions
  <2> QED BY <2>1, <2>2 DEF Injection, IsInjective
<1>5. IsFiniteSet(1..TopK) /\ Cardinality(1..TopK) = TopK
  <2>1. 1 \in Int /\ TopK \in Int
    BY <1>0
  <2>2. IsFiniteSet(1..TopK) /\ Cardinality(1..TopK) = IF 1 > TopK THEN 0 ELSE TopK - 1 + 1
    BY <2>1, FS_Interval
  <2> QED BY <1>0, <2>2
<1>6. Cardinality(kept) <= TopK
  <2> HIDE DEF turn
  <2> QED BY <1>4, <1>5, FS_Injection
<1>7. ASSUME NEW d \in kept, NEW e \in relevant \ kept
      PROVE  Ranks(category, d, e)
  <2>1. ~(Place(category, relevant, e) < Place(category, relevant, d))
    BY <1>0, <1>1, <1>2, <1>3
  <2>2. ~Ranks(category, e, d)
    BY <1>1, <2>1, PlacesFollowRank
  <2>3. d \in Documents /\ e \in Documents /\ d # e
    BY <1>1
  <2> QED BY <2>2, <2>3, RanksIsOrder
<1> QED BY <1>1, <1>6, <1>7 DEF relevant, kept

-----------------------------------------------------------------------------
(* The invariant.                                                          *)

(* Checkpoints left by the time the run is at each node.                   *)
Position ==
  [validate |-> 0, guard_input |-> 1, classify |-> 2, build_context |-> 3,
   retrieve_local_policy |-> 4, plan |-> 5, evaluate |-> 6]

Path(k) == [i \in 1..k |-> Checkpoints[i]]

Proposals == [steps : SUBSET Documents, structured : BOOLEAN, flagged : BOOLEAN]

Channels ==
  [completed : Seq(ToSet(Checkpoints)), category : Topic \cup {"general", None},
   passages : Seq(Documents), citations : SUBSET Documents,
   quarantined : SUBSET Documents, proposal : Proposals \cup {None}]

Typed ==
  /\ request \in Requests /\ Scored /\ channels \in Channels
  /\ node \in DOMAIN Position \cup {"ready"}
  /\ outcome \in {None, "planned", "PromptInjectionBlocked", "EvaluationGateBlocked"}
  /\ runs \in 0..MaxRuns
  /\ node # "ready" => outcome = None

OnPath ==
  /\ \E k \in 0..7 : channels.completed = Path(k)
  /\ node # "ready" => channels.completed = Path(Position[node])
  /\ outcome = "planned" => channels.completed = Path(7)

(* The request was screened before anything was made of it.                *)
Screened ==
  request.injected =>
    node \in {"ready", "validate", "guard_input"} /\ outcome # "planned" /\ shown = None

(* From here on the category, and then the selection, are this run's.      *)
Chosen ==
  /\ node \in {"build_context", "retrieve_local_policy", "plan", "evaluate"}
       \/ outcome = "planned" =>
     channels.category = CategoryOf(request)
  /\ node \in {"plan", "evaluate"} \/ outcome = "planned" =>
     LET batch == Retrieve(channels.category)
     IN /\ channels.citations = {d \in batch : IsSafe(d)}
        /\ channels.quarantined = batch \ channels.citations

(* Citations, of whatever run, are the safe passages of that run.          *)
Cited ==
  /\ channels.citations = ToSet(channels.passages)
  /\ Len(channels.passages) <= TopK
  /\ \A d \in channels.citations : IsSafe(d)

Asked ==
  /\ shown # None => shown = channels.citations
  /\ node = "evaluate" \/ outcome = "planned" => shown # None
  /\ node \notin {"ready", "evaluate"} => shown = None
  /\ outcome = "planned" => Passes(channels)

PlanInv == Typed /\ OnPath /\ Screened /\ Chosen /\ Cited /\ Asked

-----------------------------------------------------------------------------
(* The path.                                                               *)

LEMMA Stations ==
  /\ Checkpoints \in Seq(ToSet(Checkpoints)) /\ Len(Checkpoints) = 7
  /\ DOMAIN Checkpoints = 1..7
  /\ Checkpoints[1] = "validated" /\ Checkpoints[2] = "guarded"
  /\ Checkpoints[3] = "classified" /\ Checkpoints[4] = "context_built"
  /\ Checkpoints[5] = "knowledge_retrieved" /\ Checkpoints[6] = "planned"
  /\ Checkpoints[7] = "evaluated"
<1>1. /\ Len(Checkpoints) = 7 /\ DOMAIN Checkpoints = 1..7
      /\ Checkpoints[1] = "validated" /\ Checkpoints[2] = "guarded"
      /\ Checkpoints[3] = "classified" /\ Checkpoints[4] = "context_built"
      /\ Checkpoints[5] = "knowledge_retrieved" /\ Checkpoints[6] = "planned"
      /\ Checkpoints[7] = "evaluated"
  BY DEF Checkpoints
<1>3. \A k \in 1..7 : Checkpoints[k] \in ToSet(Checkpoints)
  BY <1>1 DEF ToSet
<1>4. Checkpoints \in Seq(ToSet(Checkpoints))
  <2> DEFINE marks == ToSet(Checkpoints)
  <2> HIDE DEF marks
  <2>1. \A a, b, c, d, e, f, g \in marks : <<a, b, c, d, e, f, g>> \in Seq(marks)
    OBVIOUS
  <2>2. Checkpoints = <<"validated", "guarded", "classified", "context_built",
                       "knowledge_retrieved", "planned", "evaluated">>
    BY DEF Checkpoints
  <2>3. {"validated", "guarded", "classified", "context_built",
         "knowledge_retrieved", "planned", "evaluated"} \subseteq marks
    BY <1>1, <1>3 DEF marks
  <2> QED BY <2>1, <2>2, <2>3 DEF marks
<1> QED BY <1>1, <1>4

LEMMA Starts ==
  ASSUME NEW S, NEW s \in Seq(S), NEW k \in 0..Len(s)
  PROVE  /\ SubSeq(s, 1, k) \in Seq(S) /\ Len(SubSeq(s, 1, k)) = k
         /\ \A i \in 1..k : SubSeq(s, 1, k)[i] = s[i]
<1>1. k \in Int /\ 1 \in Int /\ \A i \in 1..k : s[i] \in S
  OBVIOUS
<1>2. /\ SubSeq(s, 1, k) \in Seq(S)
      /\ Len(SubSeq(s, 1, k)) = IF 1 <= k THEN k - 1 + 1 ELSE 0
      /\ \A i \in 1..(k - 1 + 1) : SubSeq(s, 1, k)[i] = s[1 + i - 1]
  BY <1>1, SubSeqProperties
<1> QED BY <1>2

LEMMA Paths ==
  /\ Path(0) = <<>> /\ Path(7) = Checkpoints
  /\ \A k \in 0..7 : /\ Path(k) \in Seq(ToSet(Checkpoints)) /\ Len(Path(k)) = k
                     /\ IsPrefix(Path(k), Checkpoints)
  /\ \A k \in 0..6 : Append(Path(k), Checkpoints[k + 1]) = Path(k + 1)
<1> DEFINE marks == ToSet(Checkpoints)
<1>1. Checkpoints \in Seq(marks) /\ Len(Checkpoints) = 7
  BY Stations
<1>2. PICK path \in Seq(marks) : path = Checkpoints
  BY <1>1
<1> HIDE DEF marks
<1>10. Len(path) = 7
  BY <1>1, <1>2
<1>11. \A i \in 1..7 : path[i] \in marks
  BY <1>10, SMTT(30)
<1>3. \A k \in 0..7 : Path(k) = [i \in 1..k |-> path[i]]
  BY <1>2 DEF Path
<1>4. ASSUME NEW k \in 0..7
      PROVE  Path(k) \in Seq(marks) /\ Len(Path(k)) = k
  <2>1. k \in Nat /\ \A i \in 1..k : path[i] \in marks
    BY <1>11, SMTT(30)
  <2>2. Path(k) = [i \in 1..k |-> path[i]]
    BY <1>3
  <2>3. Path(k) \in [1..k -> marks]
    BY <2>1, <2>2
  <2> QED BY <2>1, <2>3
<1>5. ASSUME NEW k \in 0..7
      PROVE  /\ SubSeq(Path(k), 1, k) = Path(k)
             /\ SubSeq(path, 1, k) = Path(k)
  <2>1. PICK prefix \in Seq(marks) : prefix = Path(k)
    BY <1>4
  <2>2. Len(prefix) = k /\ \A i \in 1..k : prefix[i] = path[i]
    BY <1>3, <1>4, <2>1
  <2>3. k \in 0..Len(path) /\ k \in 0..Len(prefix)
    BY <1>1, <1>2, <2>2
  <2>4. /\ SubSeq(path, 1, k) \in Seq(marks) /\ Len(SubSeq(path, 1, k)) = k
        /\ \A i \in 1..k : SubSeq(path, 1, k)[i] = path[i]
    BY <2>3, Starts
  <2>5. SubSeq(path, 1, k) = prefix
    BY <2>2, <2>4, SeqEqual
  <2>6. SubSeq(prefix, 1, k) = prefix
    BY <2>2, SubSeqFull
  <2> QED BY <2>1, <2>5, <2>6
<1>6. ASSUME NEW k \in 0..7
      PROVE  IsPrefix(Path(k), Checkpoints)
  <2>1. Len(Path(k)) = k
    BY <1>4
  <2>2. k <= Len(Checkpoints)
    BY <1>1, <1>2
  <2>3. SubSeq(Path(k), 1, k) = SubSeq(Checkpoints, 1, k)
    BY <1>2, <1>5
  <2> QED BY <2>1, <2>2, <2>3 DEF IsPrefix
<1>7. ASSUME NEW k \in 0..6
      PROVE  Append(Path(k), path[k + 1]) = Path(k + 1)
  <2>1. k \in 0..7 /\ k + 1 \in 0..7 /\ path[k + 1] \in marks
    <3>1. k + 1 \in 1..7
      OBVIOUS
    <3> QED BY <1>11, <3>1
  <2>2. PICK mark \in marks : mark = path[k + 1]
    BY <2>1
  <2>3. PICK prefix \in Seq(marks) : prefix = Path(k)
    BY <1>4, <2>1
  <2>4. PICK longer \in Seq(marks) : longer = Path(k + 1)
    BY <1>4, <2>1
  <2>5. Len(prefix) = k /\ \A i \in 1..k : prefix[i] = path[i]
    BY <1>3, <1>4, <2>1, <2>3
  <2>6. Len(longer) = k + 1 /\ \A i \in 1..(k + 1) : longer[i] = path[i]
    BY <1>3, <1>4, <2>1, <2>4
  <2>7. Append(prefix, mark) \in Seq(marks) /\ Len(Append(prefix, mark)) = k + 1
    BY <2>5
  <2>8. \A i \in 1..(k + 1) : Append(prefix, mark)[i] = longer[i]
    BY <2>2, <2>5, <2>6
  <2>9. Append(prefix, mark) = longer
    BY <2>6, <2>7, <2>8, SeqEqual
  <2> QED BY <2>2, <2>3, <2>4, <2>9
<1>8. Path(0) = <<>>
  BY <1>4
<1>9. Path(7) = path
  <2>1. PICK k \in 0..7 : k = 7
    OBVIOUS
  <2>2. PICK prefix \in Seq(marks) : prefix = Path(k)
    BY <1>4
  <2>3. Len(prefix) = k /\ \A i \in 1..k : prefix[i] = path[i]
    BY <1>3, <1>4, <2>2
  <2>4. Len(prefix) = Len(path) /\ \A i \in 1..Len(prefix) : prefix[i] = path[i]
    BY <1>1, <1>2, <2>1, <2>3
  <2>5. prefix = path
    BY <2>4, SeqEqual
  <2> QED BY <2>1, <2>2, <2>5
<1> QED BY <1>2, <1>4, <1>6, <1>7, <1>8, <1>9 DEF marks

-----------------------------------------------------------------------------
(* What a step leaves.                                                     *)

LEMMA SameCorpus ==
  ASSUME corpus' = corpus
  PROVE  /\ Scored <=> Scored'
         /\ \A d : IsSafe(d)' <=> IsSafe(d)
         /\ \A category : Retrieve(category)' = Retrieve(category)
<1>1. \A category : Relevant(category)' = Relevant(category)
  BY DEF Relevant, RawScore
<1>2. \A category, group, d : Ahead(category, group, d)' = Ahead(category, group, d)
  BY DEF Ahead, Ranks, Relevance, RawScore
<1> QED BY <1>1, <1>2 DEF Retrieve, IsSafe, Scored

LEMMA Leaving ==
  ASSUME NEW update \in Channels, NEW this, NEW checkpoint \in ToSet(Checkpoints), NEW next,
         Completes(this, update, checkpoint, next)
  PROVE  /\ node = this /\ node' = next /\ channels' \in Channels
         /\ channels'.completed = Append(update.completed, checkpoint)
         /\ channels'.category = update.category /\ channels'.passages = update.passages
         /\ channels'.citations = update.citations
         /\ channels'.quarantined = update.quarantined
         /\ channels'.proposal = update.proposal
         /\ request' = request /\ corpus' = corpus /\ runs' = runs
<1> DEFINE paths == Seq(ToSet(Checkpoints))
           new   == [update EXCEPT !.completed = Append(@, checkpoint)]
<1>1. /\ node = this /\ node' = next /\ channels' = new
      /\ request' = request /\ corpus' = corpus /\ runs' = runs
  BY DEF Completes
<1>2. update.completed \in paths
  BY DEF Channels
<1>3. Append(update.completed, checkpoint) \in paths
  BY <1>2
<1> HIDE DEF paths
<1>4. new \in Channels
  BY <1>3 DEF Channels, paths
<1>5. /\ new.completed = Append(update.completed, checkpoint)
      /\ new.category = update.category /\ new.passages = update.passages
      /\ new.citations = update.citations /\ new.quarantined = update.quarantined
      /\ new.proposal = update.proposal
  BY DEF Channels
<1> HIDE DEF new
<1> QED BY <1>1, <1>4, <1>5

(* The same for a node that only leaves its checkpoint.                    *)
LEMMA Keeping ==
  ASSUME PlanInv, NEW k \in 1..7, NEW this, NEW next,
         Completes(this, channels, Checkpoints[k], next),
         this \in DOMAIN Position, Position[this] = k - 1
  PROVE  /\ node = this /\ node' = next /\ channels' \in Channels
         /\ channels'.completed = Path(k)
         /\ channels'.category = channels.category /\ channels'.passages = channels.passages
         /\ channels'.citations = channels.citations
         /\ channels'.quarantined = channels.quarantined
         /\ channels'.proposal = channels.proposal
         /\ request' = request /\ corpus' = corpus /\ runs' = runs
<1>1. Checkpoints[k] \in ToSet(Checkpoints)
  BY Stations DEF ToSet
<1>2. channels \in Channels
  BY DEF PlanInv, Typed
<1>3. /\ node = this /\ node' = next /\ channels' \in Channels
      /\ channels'.completed = Append(channels.completed, Checkpoints[k])
      /\ channels'.category = channels.category /\ channels'.passages = channels.passages
      /\ channels'.citations = channels.citations
      /\ channels'.quarantined = channels.quarantined
      /\ channels'.proposal = channels.proposal
      /\ request' = request /\ corpus' = corpus /\ runs' = runs
  BY <1>1, <1>2, Leaving
<1>4. node # "ready" /\ channels.completed = Path(k - 1)
  BY <1>3 DEF PlanInv, OnPath, Position
<1>5. Append(Path(k - 1), Checkpoints[k]) = Path(k)
  <2>1. k - 1 \in 0..6 /\ (k - 1) + 1 = k
    OBVIOUS
  <2> QED BY <2>1, Paths
<1> QED BY <1>3, <1>4, <1>5

LEMMA Positioned ==
  /\ DOMAIN Position = {"validate", "guard_input", "classify", "build_context",
                        "retrieve_local_policy", "plan", "evaluate"}
  /\ Position["validate"] = 0 /\ Position["guard_input"] = 1
  /\ Position["classify"] = 2 /\ Position["build_context"] = 3
  /\ Position["retrieve_local_policy"] = 4 /\ Position["plan"] = 5
  /\ Position["evaluate"] = 6
BY DEF Position

LEMMA StillOnPath ==
  ASSUME NEW k \in 0..7, channels'.completed = Path(k),
         node' # "ready" => Position[node'] = k, outcome' = "planned" => k = 7
  PROVE  OnPath'
BY DEF OnPath, Position, Path, Checkpoints

-----------------------------------------------------------------------------
(* Every step keeps the invariant, one lemma for each.                     *)

LEMMA InitKeeps ==
  ASSUME Init
  PROVE  PlanInv
<1>1. /\ request \in Requests /\ corpus \in [Documents -> Kinds]
      /\ channels = NoChannels /\ node = "ready" /\ outcome = None
      /\ shown = None /\ runs = 0
  BY DEF Init
<1>2. /\ channels.completed = <<>> /\ channels.category = None
      /\ channels.passages = <<>> /\ channels.citations = {}
      /\ channels.quarantined = {} /\ channels.proposal = None
  BY <1>1 DEF NoChannels
<1>3. channels \in Channels
  BY <1>1 DEF Channels, NoChannels
<1>4. Typed
  BY <1>1, <1>3, NoneIsApart DEF Typed, Scored
<1>5. OnPath
  <2>1. channels.completed = Path(0) /\ 0 \in 0..7
    BY <1>2, Paths
  <2> QED BY <1>1, <2>1, NoneIsApart DEF OnPath
<1>6. Screened /\ Chosen
  BY <1>1, NoneIsApart DEF Screened, Chosen
<1>7. Cited
  BY <1>2, Given DEF Cited, ToSet
<1>8. Asked
  BY <1>1, NoneIsApart DEF Asked
<1> QED BY <1>4, <1>5, <1>6, <1>7, <1>8 DEF PlanInv

LEMMA InvokeKeeps ==
  ASSUME PlanInv, Invoke
  PROVE  PlanInv'
<1>1. /\ runs < MaxRuns /\ runs' = runs + 1 /\ channels' = Restarts(channels)
      /\ node' = "validate" /\ outcome' = None /\ shown' = None
      /\ request' = request /\ corpus' = corpus
  BY DEF Invoke
<1>2. channels \in Channels
  BY DEF PlanInv, Typed
<1>3. Restarts(channels) \in Channels
  <2> DEFINE paths == Seq(ToSet(Checkpoints))
  <2>1. <<>> \in paths
    OBVIOUS
  <2> HIDE DEF paths
  <2> QED BY <1>2, <2>1 DEF Channels, Restarts, paths
<1>4. /\ channels'.completed = <<>> /\ channels'.passages = channels.passages
      /\ channels'.citations = channels.citations
      /\ channels'.quarantined = channels.quarantined
  BY <1>1, <1>2 DEF Channels, Restarts
<1>5. Typed'
  BY <1>1, <1>3, Positioned, NoneIsApart DEF PlanInv, Typed, Scored
<1>6. OnPath'
  <2>1. channels'.completed = Path(0) /\ 0 \in 0..7
    BY <1>4, Paths
  <2> QED BY <1>1, <2>1, Positioned, NoneIsApart, StillOnPath
<1>7. Screened' /\ Chosen'
  BY <1>1, NoneIsApart DEF Screened, Chosen
<1>8. Cited'
  BY <1>1, <1>4, SameCorpus DEF PlanInv, Cited
<1>9. Asked'
  BY <1>1, NoneIsApart DEF Asked
<1> QED BY <1>5, <1>6, <1>7, <1>8, <1>9 DEF PlanInv

LEMMA ValidateKeeps ==
  ASSUME PlanInv, Validate
  PROVE  PlanInv'
<1>1. Completes("validate", channels, Checkpoints[1], "guard_input")
      /\ outcome' = outcome /\ shown' = shown
  BY Stations DEF Validate
<1>2. /\ node = "validate" /\ node' = "guard_input" /\ channels' \in Channels
      /\ channels'.completed = Path(1)
      /\ channels'.passages = channels.passages
      /\ channels'.citations = channels.citations
      /\ channels'.quarantined = channels.quarantined
      /\ request' = request /\ corpus' = corpus /\ runs' = runs
  BY <1>1, Keeping, Positioned
<1>3. outcome = None /\ shown = None
  BY <1>2 DEF PlanInv, Typed, Asked
<1>4. Typed'
  BY <1>1, <1>2, <1>3, Positioned, NoneIsApart DEF PlanInv, Typed, Scored
<1>5. OnPath'
  BY <1>1, <1>2, <1>3, Positioned, NoneIsApart, StillOnPath
<1>6. Screened' /\ Chosen'
  BY <1>1, <1>2, <1>3, NoneIsApart DEF Screened, Chosen
<1>7. Cited'
  BY <1>2, SameCorpus DEF PlanInv, Cited
<1>8. Asked'
  BY <1>1, <1>2, <1>3, NoneIsApart DEF Asked
<1> QED BY <1>4, <1>5, <1>6, <1>7, <1>8 DEF PlanInv

LEMMA GuardInputKeeps ==
  ASSUME PlanInv, GuardInput
  PROVE  PlanInv'
<1>1. node = "guard_input" /\ outcome = None /\ shown = None
  BY DEF GuardInput, PlanInv, Typed, Asked
<1>2. CASE /\ ~IsBlocked(request)
           /\ Completes("guard_input", channels, "guarded", "classify")
           /\ outcome' = outcome /\ shown' = shown
  <2>1. Completes("guard_input", channels, Checkpoints[2], "classify")
    BY <1>2, Stations
  <2>2. /\ node' = "classify" /\ channels' \in Channels
        /\ channels'.completed = Path(2)
        /\ channels'.passages = channels.passages
        /\ channels'.citations = channels.citations
        /\ channels'.quarantined = channels.quarantined
        /\ request' = request /\ corpus' = corpus /\ runs' = runs
    BY <2>1, Keeping, Positioned
  <2>3. Typed'
    BY <1>1, <1>2, <2>2, Positioned, NoneIsApart DEF PlanInv, Typed, Scored
  <2>4. OnPath'
    BY <1>1, <1>2, <2>2, Positioned, NoneIsApart, StillOnPath
  <2>5. Screened'
    BY <1>2, <2>2 DEF Screened, IsBlocked
  <2>6. Chosen'
    BY <1>1, <1>2, <2>2, NoneIsApart DEF Chosen
  <2>7. Cited'
    BY <2>2, SameCorpus DEF PlanInv, Cited
  <2>8. Asked'
    BY <1>1, <1>2, <2>2, NoneIsApart DEF Asked
  <2> QED BY <2>3, <2>4, <2>5, <2>6, <2>7, <2>8 DEF PlanInv
<1>3. CASE IsBlocked(request) /\ Fails("PromptInjectionBlocked")
  <2>1. /\ node' = "ready" /\ outcome' = "PromptInjectionBlocked"
        /\ request' = request /\ corpus' = corpus /\ channels' = channels
        /\ shown' = None /\ runs' = runs
    BY <1>1, <1>3 DEF Fails
  <2>2. Typed'
    BY <2>1 DEF PlanInv, Typed, Scored
  <2>3. OnPath'
    <3>1. channels.completed = Path(1)
      BY <1>1, Positioned DEF PlanInv, OnPath
    <3> QED BY <2>1, <3>1, StillOnPath
  <2>4. Screened' /\ Chosen' /\ Asked'
    BY <2>1 DEF Screened, Chosen, Asked
  <2>5. Cited'
    BY <2>1, SameCorpus DEF PlanInv, Cited
  <2> QED BY <2>2, <2>3, <2>4, <2>5 DEF PlanInv
<1> QED BY <1>2, <1>3 DEF GuardInput

LEMMA CategoryIsKnown ==
  ASSUME NEW r \in Requests
  PROVE  CategoryOf(r) \in Topic \cup {"general"}
<1>1. r.topics \subseteq Topic
  BY RuntimeAssumption
<1>2. CASE "security" \in r.topics
  <2>1. CategoryOf(r) = "security"
    BY <1>2 DEF CategoryOf
  <2> QED BY <2>1 DEF Topic
<1>3. CASE "security" \notin r.topics /\ "integration" \in r.topics
  <2>1. CategoryOf(r) = "integration"
    BY <1>3 DEF CategoryOf
  <2> QED BY <2>1 DEF Topic
<1>4. CASE r.topics = {"data"}
  <2>1. CategoryOf(r) = "data"
    BY <1>4 DEF CategoryOf
  <2> QED BY <2>1 DEF Topic
<1>5. CASE /\ "security" \notin r.topics /\ "integration" \notin r.topics
           /\ r.topics # {"data"}
  <2>1. CategoryOf(r) = "general"
    BY <1>5 DEF CategoryOf
  <2> QED BY <2>1
<1> QED BY <1>2, <1>3, <1>4, <1>5

LEMMA ClassifyKeeps ==
  ASSUME PlanInv, Classify
  PROVE  PlanInv'
<1> DEFINE update == [channels EXCEPT !.category = CategoryOf(request)]
<1>1. Completes("classify", update, Checkpoints[3], "build_context")
      /\ outcome' = outcome /\ shown' = shown
  BY Stations DEF Classify
<1>2. channels \in Channels /\ CategoryOf(request) \in Topic \cup {"general", None}
  BY CategoryIsKnown DEF PlanInv, Typed
<1>3. update \in Channels
  BY <1>2 DEF Channels
<1>4. /\ update.completed = channels.completed /\ update.passages = channels.passages
      /\ update.citations = channels.citations
      /\ update.quarantined = channels.quarantined
      /\ update.category = CategoryOf(request)
  BY <1>2 DEF Channels
<1> HIDE DEF update
<1>5. /\ node = "classify" /\ node' = "build_context" /\ channels' \in Channels
      /\ channels'.completed = Append(update.completed, Checkpoints[3])
      /\ channels'.category = update.category
      /\ channels'.passages = update.passages
      /\ channels'.citations = update.citations
      /\ channels'.quarantined = update.quarantined
      /\ request' = request /\ corpus' = corpus /\ runs' = runs
  <2>1. Checkpoints[3] \in ToSet(Checkpoints)
    BY Stations DEF ToSet
  <2> QED BY <1>1, <1>3, <2>1, Leaving
<1>6. outcome = None /\ shown = None /\ ~request.injected
  BY <1>5 DEF PlanInv, Typed, Asked, Screened
<1>7. Typed'
  BY <1>1, <1>5, <1>6, Positioned, NoneIsApart DEF PlanInv, Typed, Scored
<1>8. OnPath'
  <2>1. channels.completed = Path(2)
    BY <1>5, Positioned DEF PlanInv, OnPath
  <2>2. channels'.completed = Path(3)
    BY <1>4, <1>5, <2>1, Paths
  <2> QED BY <1>1, <1>5, <1>6, <2>2, Positioned, NoneIsApart, StillOnPath
<1>9. Screened'
  BY <1>5, <1>6 DEF Screened
<1>10. Chosen'
  BY <1>1, <1>4, <1>5, <1>6, NoneIsApart DEF Chosen, CategoryOf
<1>11. Cited'
  BY <1>4, <1>5, SameCorpus DEF PlanInv, Cited
<1>12. Asked'
  BY <1>1, <1>5, <1>6, NoneIsApart DEF Asked
<1> QED BY <1>7, <1>8, <1>9, <1>10, <1>11, <1>12 DEF PlanInv

LEMMA BuildContextKeeps ==
  ASSUME PlanInv, BuildContext
  PROVE  PlanInv'
<1>1. Completes("build_context", channels, Checkpoints[4], "retrieve_local_policy")
      /\ outcome' = outcome /\ shown' = shown
  BY Stations DEF BuildContext
<1>2. /\ node = "build_context" /\ node' = "retrieve_local_policy"
      /\ channels' \in Channels
      /\ channels'.completed = Path(4)
      /\ channels'.category = channels.category
      /\ channels'.passages = channels.passages
      /\ channels'.citations = channels.citations
      /\ channels'.quarantined = channels.quarantined
      /\ request' = request /\ corpus' = corpus /\ runs' = runs
  BY <1>1, Keeping, Positioned
<1>3. /\ outcome = None /\ shown = None /\ ~request.injected
      /\ channels.category = CategoryOf(request)
  BY <1>2 DEF PlanInv, Typed, Asked, Screened, Chosen
<1>4. Typed'
  BY <1>1, <1>2, <1>3, Positioned, NoneIsApart DEF PlanInv, Typed, Scored
<1>5. OnPath'
  BY <1>1, <1>2, <1>3, Positioned, NoneIsApart, StillOnPath
<1>6. Screened'
  BY <1>2, <1>3 DEF Screened
<1>7. Chosen'
  BY <1>1, <1>2, <1>3, NoneIsApart DEF Chosen, CategoryOf
<1>8. Cited'
  BY <1>2, SameCorpus DEF PlanInv, Cited
<1>9. Asked'
  BY <1>1, <1>2, <1>3, NoneIsApart DEF Asked
<1> QED BY <1>4, <1>5, <1>6, <1>7, <1>8, <1>9 DEF PlanInv

LEMMA RetrieveKeeps ==
  ASSUME PlanInv, RetrieveLocalPolicy
  PROVE  PlanInv'
<1> DEFINE batch  == Retrieve(channels.category)
           safe   == {d \in batch : IsSafe(d)}
           list   == InOrder(channels.category, safe)
           update == [channels EXCEPT !.passages = list, !.citations = safe,
                                      !.quarantined = batch \ safe]
<1>1. /\ Completes("retrieve_local_policy", update, Checkpoints[5], "plan")
      /\ outcome' = outcome /\ shown' = shown
  BY Stations DEF RetrieveLocalPolicy
<1>2. channels \in Channels /\ Scored
  BY DEF PlanInv, Typed
<1>3. batch \subseteq Documents /\ safe \in SUBSET Documents /\ Cardinality(batch) <= TopK
  BY <1>2, RetrievalIsBest
<1>4. /\ list \in Seq(Documents) /\ Len(list) = Cardinality(safe)
      /\ ToSet(list) = safe
  <2> HIDE DEF safe
  <2> QED BY <1>2, <1>3, InOrderLists
<1>5. Cardinality(safe) <= TopK
  <2>1. safe \in SUBSET batch
    OBVIOUS
  <2>2. IsFiniteSet(batch)
    <3> HIDE DEF batch, safe
    <3> QED BY <1>3, Given, FS_Subset
  <2> HIDE DEF batch, safe
  <2>3. /\ Cardinality(safe) <= Cardinality(batch) /\ IsFiniteSet(safe)
    BY <2>1, <2>2, FS_Subset
  <2>4. Cardinality(safe) \in Nat /\ Cardinality(batch) \in Nat
    BY <2>2, <2>3, FS_CardinalityType
  <2> QED BY <1>3, <2>3, <2>4, Given
<1>6. \A d \in safe : IsSafe(d)
  OBVIOUS
<1>7. safe \subseteq batch
  OBVIOUS
<1> HIDE DEF batch, safe, list
<1>8. update \in Channels
  BY <1>2, <1>3, <1>4 DEF Channels
<1>9. /\ update.completed = channels.completed /\ update.passages = list
      /\ update.citations = safe /\ update.quarantined = batch \ safe
      /\ update.category = channels.category
  BY <1>2 DEF Channels
<1> HIDE DEF update
<1>10. /\ node = "retrieve_local_policy" /\ node' = "plan" /\ channels' \in Channels
       /\ channels'.completed = Append(update.completed, Checkpoints[5])
       /\ channels'.category = channels.category /\ channels'.passages = list
       /\ channels'.citations = safe /\ channels'.quarantined = batch \ safe
       /\ request' = request /\ corpus' = corpus /\ runs' = runs
  <2>1. Checkpoints[5] \in ToSet(Checkpoints)
    BY Stations DEF ToSet
  <2> QED BY <1>1, <1>8, <1>9, <2>1, Leaving, ZenonT(40)
<1>11. /\ outcome = None /\ shown = None /\ ~request.injected
       /\ channels.category = CategoryOf(request)
  BY <1>10 DEF PlanInv, Typed, Asked, Screened, Chosen
<1>12. Typed'
  BY <1>1, <1>10, <1>11, Positioned, NoneIsApart DEF PlanInv, Typed, Scored
<1>13. OnPath'
  <2>1. channels.completed = Path(4)
    BY <1>10, Positioned DEF PlanInv, OnPath
  <2>2. channels'.completed = Path(5)
    BY <1>9, <1>10, <2>1, Paths
  <2> QED BY <1>1, <1>10, <1>11, <2>2, Positioned, NoneIsApart, StillOnPath
<1>14. Screened'
  BY <1>10, <1>11 DEF Screened
<1>15. Chosen'
  <2>1. channels'.category = CategoryOf(request')
    BY <1>10, <1>11 DEF CategoryOf
  <2>2. Retrieve(channels.category)' = batch
    BY <1>10, SameCorpus DEF batch
  <2>3. safe = {d \in batch : IsSafe(d)'}
    BY <1>10, SameCorpus DEF safe
  <2> QED BY <1>10, <2>1, <2>2, <2>3 DEF Chosen, CategoryOf
<1>16. Cited'
  BY <1>4, <1>5, <1>6, <1>10, SameCorpus DEF Cited
<1>17. Asked'
  BY <1>1, <1>10, <1>11, NoneIsApart DEF Asked
<1> QED BY <1>12, <1>13, <1>14, <1>15, <1>16, <1>17 DEF PlanInv

LEMMA AnswersAreProposals ==
  ASSUME NEW provider, NEW passages \in Seq(Documents),
         NEW proposal \in Answers(provider, passages)
  PROVE  proposal \in Proposals
<1>1. ToSet(passages) \subseteq Documents
  BY DEF ToSet
<1>2. CASE provider = "deterministic-local"
  <2> DEFINE best == IF passages = <<>> THEN {} ELSE {passages[1]}
  <2>1. best \subseteq Documents
    OBVIOUS
  <2>2. proposal \in [steps : {best}, structured : {TRUE}, flagged : BOOLEAN]
    BY <1>2 DEF Answers
  <2> HIDE DEF best
  <2> QED BY <2>1, <2>2 DEF Proposals
<1>3. CASE provider # "deterministic-local"
  <2>1. proposal \in [steps : SUBSET ToSet(passages), structured : BOOLEAN, flagged : BOOLEAN]
    BY <1>3 DEF Answers
  <2> QED BY <1>1, <2>1 DEF Proposals
<1> QED BY <1>2, <1>3

LEMMA PlanKeeps ==
  ASSUME PlanInv, Plan
  PROVE  PlanInv'
<1>1. PICK provider \in Providers :
        \E proposal \in Answers(provider, channels.passages) :
          Completes("plan", [channels EXCEPT !.proposal = proposal], "planned", "evaluate")
  BY DEF Plan
<1>2. PICK proposal \in Answers(provider, channels.passages) :
        Completes("plan", [channels EXCEPT !.proposal = proposal], "planned", "evaluate")
  BY <1>1
<1> DEFINE update == [channels EXCEPT !.proposal = proposal]
<1>3. Completes("plan", update, Checkpoints[6], "evaluate")
  BY <1>2, Stations
<1>4. outcome' = outcome /\ shown' = ToSet(channels.passages)
  BY DEF Plan
<1>5. channels \in Channels /\ channels.passages \in Seq(Documents)
  BY DEF PlanInv, Typed, Channels
<1>6. proposal \in Proposals
  BY <1>5, AnswersAreProposals
<1>7. update \in Channels
  BY <1>5, <1>6 DEF Channels
<1>8. /\ update.completed = channels.completed /\ update.passages = channels.passages
      /\ update.citations = channels.citations
      /\ update.quarantined = channels.quarantined
      /\ update.category = channels.category
  BY <1>5 DEF Channels
<1> HIDE DEF update
<1>9. /\ node = "plan" /\ node' = "evaluate" /\ channels' \in Channels
      /\ channels'.completed = Append(update.completed, Checkpoints[6])
      /\ channels'.category = channels.category
      /\ channels'.passages = channels.passages
      /\ channels'.citations = channels.citations
      /\ channels'.quarantined = channels.quarantined
      /\ request' = request /\ corpus' = corpus /\ runs' = runs
  <2>1. Checkpoints[6] \in ToSet(Checkpoints)
    BY Stations DEF ToSet
  <2> QED BY <1>3, <1>7, <1>8, <2>1, Leaving
<1>10. /\ outcome = None /\ ~request.injected
       /\ channels.category = CategoryOf(request)
  BY <1>9 DEF PlanInv, Typed, Screened, Chosen
<1>11. Typed'
  BY <1>4, <1>9, <1>10, Positioned, NoneIsApart DEF PlanInv, Typed, Scored
<1>12. OnPath'
  <2>1. channels.completed = Path(5)
    BY <1>9, Positioned DEF PlanInv, OnPath
  <2>2. channels'.completed = Path(6)
    BY <1>8, <1>9, <2>1, Paths
  <2> QED BY <1>4, <1>9, <1>10, <2>2, Positioned, NoneIsApart, StillOnPath
<1>13. Screened'
  BY <1>9, <1>10 DEF Screened
<1>14. Chosen'
  <2>1. channels'.category = CategoryOf(request')
    BY <1>9, <1>10 DEF CategoryOf
  <2>2. /\ channels.citations = {d \in Retrieve(channels.category) : IsSafe(d)}
        /\ channels.quarantined = Retrieve(channels.category) \ channels.citations
    BY <1>9 DEF PlanInv, Chosen
  <2>3. Retrieve(channels.category)' = Retrieve(channels.category)
    BY <1>9, SameCorpus
  <2>4. \A d : IsSafe(d)' <=> IsSafe(d)
    BY <1>9, SameCorpus
  <2> QED BY <1>9, <2>1, <2>2, <2>3, <2>4 DEF Chosen, CategoryOf
<1>15. Cited'
  BY <1>9, SameCorpus DEF PlanInv, Cited
<1>16. Asked'
  <2>1. shown' = channels'.citations
    BY <1>4, <1>9 DEF PlanInv, Cited
  <2>2. shown' # None
    BY <1>9, <2>1, NoneIsApart DEF Channels
  <2> QED BY <1>4, <1>9, <1>10, <2>1, <2>2, NoneIsApart DEF Asked
<1> QED BY <1>11, <1>12, <1>13, <1>14, <1>15, <1>16 DEF PlanInv

LEMMA EvaluateKeeps ==
  ASSUME PlanInv, Evaluate
  PROVE  PlanInv'
<1>1. /\ node = "evaluate" /\ outcome = None /\ shown # None /\ ~request.injected
      /\ shown = channels.citations
      /\ channels.category = CategoryOf(request)
      /\ channels.citations = {d \in Retrieve(channels.category) : IsSafe(d)}
      /\ channels.quarantined = Retrieve(channels.category) \ channels.citations
  BY DEF Evaluate, PlanInv, Typed, Asked, Screened, Chosen
<1>2. CASE /\ Passes(channels)
           /\ Completes("evaluate", channels, "evaluated", "ready")
           /\ outcome' = "planned" /\ shown' = shown
  <2>1. Completes("evaluate", channels, Checkpoints[7], "ready")
    BY <1>2, Stations
  <2>2. /\ node' = "ready" /\ channels' \in Channels
        /\ channels'.completed = Path(7)
        /\ channels'.category = channels.category
        /\ channels'.passages = channels.passages
        /\ channels'.citations = channels.citations
        /\ channels'.quarantined = channels.quarantined
        /\ channels'.proposal = channels.proposal
        /\ request' = request /\ corpus' = corpus /\ runs' = runs
    BY <2>1, Keeping, Positioned
  <2>3. Typed'
    BY <1>2, <2>2 DEF PlanInv, Typed, Scored
  <2>4. OnPath'
    BY <1>2, <2>2, StillOnPath
  <2>5. Screened'
    BY <1>1, <2>2 DEF Screened
  <2>6. Chosen'
    <3>1. channels'.category = CategoryOf(request')
      BY <1>1, <2>2 DEF CategoryOf
    <3>2. Retrieve(channels.category)' = Retrieve(channels.category)
      BY <2>2, SameCorpus
    <3>3. \A d : IsSafe(d)' <=> IsSafe(d)
      BY <2>2, SameCorpus
    <3> QED BY <1>1, <2>2, <3>1, <3>2, <3>3 DEF Chosen, CategoryOf
  <2>7. Cited'
    BY <2>2, SameCorpus DEF PlanInv, Cited
  <2>8. Passes(channels)'
    BY <1>2, <2>2 DEF Passes
  <2>9. Asked'
    BY <1>1, <1>2, <2>2, <2>8 DEF Asked
  <2> QED BY <2>3, <2>4, <2>5, <2>6, <2>7, <2>9 DEF PlanInv
<1>3. CASE ~Passes(channels) /\ Fails("EvaluationGateBlocked")
  <2>1. /\ node' = "ready" /\ outcome' = "EvaluationGateBlocked"
        /\ request' = request /\ corpus' = corpus /\ channels' = channels
        /\ shown' = shown /\ runs' = runs
    BY <1>3 DEF Fails
  <2>2. Typed'
    BY <2>1 DEF PlanInv, Typed, Scored
  <2>3. OnPath'
    <3>1. channels.completed = Path(6)
      BY <1>1, Positioned DEF PlanInv, OnPath
    <3> QED BY <2>1, <3>1, StillOnPath
  <2>4. Screened' /\ Chosen' /\ Asked'
    BY <1>1, <2>1 DEF Screened, Chosen, Asked
  <2>5. Cited'
    BY <2>1, SameCorpus DEF PlanInv, Cited
  <2> QED BY <2>2, <2>3, <2>4, <2>5 DEF PlanInv
<1> QED BY <1>2, <1>3 DEF Evaluate

LEMMA StutterKeeps ==
  ASSUME PlanInv, UNCHANGED vars
  PROVE  PlanInv'
<1>1. /\ request' = request /\ corpus' = corpus /\ channels' = channels
      /\ node' = node /\ outcome' = outcome /\ shown' = shown /\ runs' = runs
  BY DEF vars
<1>2. Typed' /\ OnPath' /\ Screened' /\ Asked'
  BY <1>1 DEF PlanInv, Typed, Scored, OnPath, Screened, Asked, Passes
<1>3. Chosen'
  <2>1. Retrieve(channels.category)' = Retrieve(channels.category)
    BY <1>1, SameCorpus
  <2>2. \A d : IsSafe(d)' <=> IsSafe(d)
    BY <1>1, SameCorpus
  <2> QED BY <1>1, <2>1, <2>2 DEF PlanInv, Chosen, CategoryOf
<1>4. Cited'
  BY <1>1, SameCorpus DEF PlanInv, Cited
<1> QED BY <1>2, <1>3, <1>4 DEF PlanInv

LEMMA StepKeeps ==
  ASSUME PlanInv, [Next]_vars
  PROVE  PlanInv'
<1>1. CASE Invoke               BY <1>1, InvokeKeeps
<1>2. CASE Validate             BY <1>2, ValidateKeeps
<1>3. CASE GuardInput           BY <1>3, GuardInputKeeps
<1>4. CASE Classify             BY <1>4, ClassifyKeeps
<1>5. CASE BuildContext         BY <1>5, BuildContextKeeps
<1>6. CASE RetrieveLocalPolicy  BY <1>6, RetrieveKeeps
<1>7. CASE Plan                 BY <1>7, PlanKeeps
<1>8. CASE Evaluate             BY <1>8, EvaluateKeeps
<1>9. CASE UNCHANGED vars       BY <1>9, StutterKeeps
<1> QED BY <1>1, <1>2, <1>3, <1>4, <1>5, <1>6, <1>7, <1>8, <1>9 DEF Next

(* The invariant of the planning graph, node by node.                      *)
THEOREM PlanningIsSettled == Spec => []PlanInv
<1>1. Init => PlanInv
  BY InitKeeps
<1>2. PlanInv /\ [Next]_vars => PlanInv'
  BY StepKeeps
<1> QED BY <1>1, <1>2, PTL DEF Spec

-----------------------------------------------------------------------------
(* What it gives.                                                          *)

(* Every variable holds a value of its type; no run is handed more than    *)
(* TopK passages, however many documents are relevant.                     *)
THEOREM TypeCorrect == Spec => []TypeOK
<1>1. ASSUME PlanInv PROVE TypeOK
  <2>1. channels \in Channels /\ Typed /\ Cited
    BY <1>1 DEF PlanInv, Typed
  <2>2. /\ channels.completed \in Seq(ToSet(Checkpoints))
        /\ channels.category \in Topic \cup {"general", None}
        /\ channels.passages \in Seq(Documents) /\ Len(channels.passages) <= TopK
        /\ channels.citations \cup channels.quarantined \subseteq Documents
        /\ channels.proposal \in Proposals \cup {None}
    BY <2>1 DEF Channels, Cited
  <2>3. node \in {"ready", "validate", "guard_input", "classify",
                  "build_context", "retrieve_local_policy", "plan", "evaluate"}
    BY <2>1, Positioned DEF Typed
  <2> QED BY <2>1, <2>2, <2>3 DEF TypeOK, Typed, Scored, Proposals
<1> QED BY <1>1, PlanningIsSettled, PTL

(* The checkpoints of a run follow the documented path, whatever earlier   *)
(* or overlapping runs left on the thread, and a success reports them all. *)
THEOREM CheckpointsFollow == Spec => []CheckpointsFollowPath
<1>1. ASSUME PlanInv PROVE CheckpointsFollowPath
  <2>1. PICK k \in 0..7 : channels.completed = Path(k)
    BY <1>1 DEF PlanInv, OnPath
  <2>2. IsPrefix(Path(k), Checkpoints) /\ Path(7) = Checkpoints
    BY Paths
  <2>3. outcome = "planned" => channels.completed = Path(7)
    BY <1>1 DEF PlanInv, OnPath
  <2> QED BY <2>1, <2>2, <2>3 DEF CheckpointsFollowPath
<1> QED BY <1>1, PlanningIsSettled, PTL

(* No text with an injection pattern reaches the provider, for any corpus  *)
(* and any number of runs on the same thread.                              *)
THEOREM TaintedIsKeptOut == Spec => []TaintedStaysOut
<1>1. ASSUME PlanInv PROVE TaintedStaysOut
  <2> DEFINE tainted == {d \in Documents : corpus[d].tainted}
  <2>1. channels.citations \subseteq Documents /\ \A d \in channels.citations : IsSafe(d)
    BY <1>1 DEF PlanInv, Typed, Cited, Channels
  <2>2. channels.citations \cap tainted = {}
    BY <2>1 DEF IsSafe
  <2>3. request.injected => shown = None /\ outcome # "planned"
    BY <1>1 DEF PlanInv, Screened
  <2>4. shown # None => shown \cap tainted = {}
    BY <1>1, <2>2 DEF PlanInv, Asked
  <2>5. ASSUME node = "plan"
        PROVE  channels.quarantined = Retrieve(channels.category) \cap tainted
    <3> DEFINE batch == Retrieve(channels.category)
    <3>1. /\ channels.citations = {d \in batch : IsSafe(d)}
          /\ channels.quarantined = batch \ channels.citations
      BY <1>1, <2>5 DEF PlanInv, Chosen
    <3>2. batch \subseteq Documents
      BY <1>1, RetrievalIsBest DEF PlanInv, Typed
    <3> HIDE DEF batch
    <3>3. channels.quarantined = batch \cap tainted
      BY <3>1, <3>2 DEF IsSafe
    <3> QED BY <3>3 DEF batch
  <2> QED BY <2>2, <2>3, <2>4, <2>5 DEF TaintedStaysOut
<1> QED BY <1>1, PlanningIsSettled, PTL

(* A plan that succeeds passed the gate on what this run retrieved: it     *)
(* repeats a cited passage, and the citations rank ahead of every other    *)
(* safe document of the corpus: more relevant, or as relevant and of a     *)
(* smaller document id.                                                    *)
THEOREM PlansAreGrounded == Spec => []PlannedIsGrounded
<1>1. ASSUME PlanInv, outcome = "planned"
      PROVE  LET c   == channels
                 out == {d \in Documents : ~corpus[d].tainted} \ c.citations
             IN /\ c.proposal.structured /\ ~c.proposal.flagged
                /\ c.proposal.steps \cap c.citations # {}
                /\ c.citations = shown
                /\ \A d \in c.citations : RawScore(d, CategoryOf(request)) > 0
                /\ \A d \in c.citations, e \in out :
                     LET gain == Relevance(d, CategoryOf(request))
                                   - Relevance(e, CategoryOf(request))
                     IN gain > 0 \/ (gain = 0 /\ d < e)
  <2>1. PICK category : category = CategoryOf(request)
    OBVIOUS
  <2>2. /\ Scored /\ Passes(channels) /\ shown = channels.citations
        /\ channels.citations = ToSet(channels.passages)
        /\ channels.citations = {d \in Retrieve(category) : IsSafe(d)}
    BY <1>1, <2>1 DEF PlanInv, Typed, Asked, Cited, Chosen
  <2>3. /\ channels.proposal.structured /\ ~channels.proposal.flagged
        /\ channels.proposal.steps \cap channels.citations # {}
    BY <2>2 DEF Passes
  <2>4. /\ Retrieve(category) \subseteq Relevant(category)
        /\ Relevant(category) \subseteq Documents
    BY <2>2, RetrievalIsBest
  <2>5. ASSUME NEW d \in channels.citations
        PROVE  RawScore(d, category) > 0 /\ d \in Documents
    BY <2>2, <2>4 DEF Relevant
  <2>6. ASSUME NEW d \in channels.citations,
               NEW e \in {f \in Documents : ~corpus[f].tainted} \ channels.citations
        PROVE  LET gain == Relevance(d, category) - Relevance(e, category)
               IN gain > 0 \/ (gain = 0 /\ d < e)
    <3>0. Relevance(d, category) \in Nat /\ Relevance(e, category) \in Nat
      BY <2>2, <2>5, Scores
    <3>1. CASE e \in Relevant(category)
      <4>1. d \in Retrieve(category) /\ e \notin Retrieve(category)
        BY <2>2 DEF IsSafe
      <4>2. Ranks(category, d, e)
        BY <2>2, <3>1, <4>1, RetrievalIsBest
      <4> QED BY <3>0, <4>2 DEF Ranks
    <3>2. CASE e \notin Relevant(category)
      <4>1. RawScore(e, category) \in Nat /\ ~(RawScore(e, category) > 0)
        BY <2>2, <3>2, Scores DEF Relevant
      <4>2. Relevance(e, category) = 0
        BY <2>2, <4>1, Scores
      <4>3. Relevance(d, category) > 0
        BY <2>2, <2>5, Scores DEF Relevance
      <4> QED BY <3>0, <4>2, <4>3
    <3> QED BY <3>1, <3>2
  <2> QED BY <2>1, <2>2, <2>3, <2>5, <2>6
<1>2. PlanInv => PlannedIsGrounded
  BY <1>1 DEF PlannedIsGrounded
<1> QED BY <1>2, PlanningIsSettled, PTL

-----------------------------------------------------------------------------
(* What the service may take for granted: the verdict on a request.        *)

(* The safe passages among those the retriever selects for the request.    *)
SafeBatch == {d \in Retrieve(CategoryOf(request)) : IsSafe(d)}

Judged == node = "evaluate" \/ outcome = "EvaluationGateBlocked"

(* What is known of the proposal before the gate and after it said no.     *)
Gated ==
  /\ Judged =>
       /\ ~request.injected /\ channels.citations = SafeBatch
       /\ \E provider \in Providers :
            channels.proposal \in Answers(provider, channels.passages)
  /\ outcome = "EvaluationGateBlocked" => ~Passes(channels)
  /\ outcome = "PromptInjectionBlocked" => request.injected

LEMMA Sentinel ==
  None \notin {"planned", "PromptInjectionBlocked", "EvaluationGateBlocked"}
BY RuntimeAssumption

(* A run that is still on its way to the gate.                             *)
LEMMA NotYetGated ==
  ASSUME node' # "evaluate", outcome' \in {None, "planned"}
  PROVE  Gated'
BY Sentinel DEF Gated, Judged

(* The batch is that of the request and the corpus, which never change.    *)
LEMMA SameBatch ==
  ASSUME request' = request, corpus' = corpus
  PROVE  SafeBatch' = SafeBatch
<1>1. CategoryOf(request)' = CategoryOf(request)
  BY DEF CategoryOf
<1>2. /\ \A d : IsSafe(d)' <=> IsSafe(d)
      /\ \A category : Retrieve(category)' = Retrieve(category)
  BY SameCorpus
<1>3. Retrieve(CategoryOf(request))' = Retrieve(CategoryOf(request))
  BY <1>1, <1>2
<1> QED BY <1>2, <1>3 DEF SafeBatch

LEMMA GatedPlan ==
  ASSUME PlanInv, Plan
  PROVE  Gated'
<1>1. PICK provider \in Providers :
        \E proposal \in Answers(provider, channels.passages) :
          Completes("plan", [channels EXCEPT !.proposal = proposal], "planned", "evaluate")
  BY DEF Plan
<1>2. PICK proposal \in Answers(provider, channels.passages) :
        Completes("plan", [channels EXCEPT !.proposal = proposal], "planned", "evaluate")
  BY <1>1
<1> DEFINE update == [channels EXCEPT !.proposal = proposal]
<1>3. channels \in Channels /\ channels.passages \in Seq(Documents)
  BY DEF PlanInv, Typed, Channels
<1>4. proposal \in Proposals
  BY <1>3, AnswersAreProposals
<1>5. /\ update \in Channels /\ update.proposal = proposal
      /\ update.passages = channels.passages /\ update.citations = channels.citations
  BY <1>3, <1>4 DEF Channels
<1> HIDE DEF update
<1>6. /\ node = "plan" /\ node' = "evaluate" /\ channels'.proposal = proposal
      /\ channels'.passages = channels.passages
      /\ channels'.citations = channels.citations
      /\ request' = request /\ corpus' = corpus
  <2>1. Completes("plan", update, Checkpoints[6], "evaluate")
    BY <1>2, Stations DEF update
  <2>2. Checkpoints[6] \in ToSet(Checkpoints)
    BY Stations DEF ToSet
  <2> QED BY <1>5, <2>1, <2>2, Leaving
<1>7. /\ outcome = None /\ ~request.injected
      /\ channels.category = CategoryOf(request)
      /\ channels.citations = {d \in Retrieve(channels.category) : IsSafe(d)}
  BY <1>6 DEF PlanInv, Typed, Screened, Chosen
<1>8. outcome' = None
  BY <1>7 DEF Plan
<1>9. channels'.citations = SafeBatch'
  BY <1>6, <1>7, SameBatch DEF SafeBatch
<1>10. channels'.proposal \in Answers(provider, channels'.passages)
  BY <1>6
<1>11. Answers(provider, channels.passages)' = Answers(provider, channels'.passages)
  BY DEF Answers, ToSet
<1> QED BY <1>6, <1>7, <1>8, <1>9, <1>10, <1>11, Sentinel DEF Gated, Judged

LEMMA GatedStep ==
  ASSUME PlanInv, Gated, [Next]_vars
  PROVE  Gated'
<1>1. node # "ready" => outcome = None
  BY DEF PlanInv, Typed
<1>2. CASE Invoke
  BY <1>2, NotYetGated DEF Invoke
<1>3. CASE Validate \/ Classify \/ BuildContext \/ RetrieveLocalPolicy
  BY <1>1, <1>3, NotYetGated
  DEF Validate, Classify, BuildContext, RetrieveLocalPolicy, Completes
<1>4. CASE GuardInput
  <2>1. CASE ~IsBlocked(request) /\ node' = "classify" /\ outcome' = outcome
    BY <1>1, <1>4, <2>1, NotYetGated DEF GuardInput
  <2>2. CASE IsBlocked(request) /\ Fails("PromptInjectionBlocked")
    BY <2>2 DEF Fails, IsBlocked, Gated, Judged
  <2> QED BY <1>4, <2>1, <2>2 DEF GuardInput, Completes
<1>5. CASE Plan
  BY <1>5, GatedPlan
<1>6. CASE Evaluate
  <2>1. CASE node' = "ready" /\ outcome' = "planned"
    BY <2>1, NotYetGated
  <2>2. CASE ~Passes(channels) /\ Fails("EvaluationGateBlocked")
    <3>1. /\ ~request.injected /\ channels.citations = SafeBatch
          /\ \E provider \in Providers :
               channels.proposal \in Answers(provider, channels.passages)
      BY <1>6 DEF Evaluate, Gated, Judged
    <3>2. /\ outcome' = "EvaluationGateBlocked" /\ channels' = channels
          /\ request' = request /\ corpus' = corpus
      BY <2>2 DEF Fails
    <3>3. SafeBatch' = SafeBatch /\ ~Passes(channels)'
      BY <2>2, <3>2, SameBatch DEF Passes
    <3> QED BY <3>1, <3>2, <3>3 DEF Gated
  <2> QED BY <1>6, <2>1, <2>2 DEF Evaluate, Completes
<1>7. CASE UNCHANGED vars
  <2>1. /\ node' = node /\ outcome' = outcome /\ channels' = channels
        /\ request' = request /\ corpus' = corpus
    BY <1>7 DEF vars
  <2>2. SafeBatch' = SafeBatch
    BY <2>1, SameBatch
  <2> QED BY <2>1, <2>2 DEF Gated, Judged, Passes
<1> QED BY <1>2, <1>3, <1>4, <1>5, <1>6, <1>7 DEF Next

(* The local provider fails the gate only for want of a safe passage, or   *)
(* with a pattern in its text.                                             *)
LEMMA LocalPasses ==
  ASSUME PlanInv, ~Passes(channels), channels.citations # {},
         channels.proposal \in Answers("deterministic-local", channels.passages)
  PROVE  channels.proposal.flagged
<1>1. channels.passages \in Seq(Documents) /\ channels.citations = ToSet(channels.passages)
  BY DEF PlanInv, Typed, Channels, Cited
<1>2. channels.passages # <<>> /\ channels.passages[1] \in ToSet(channels.passages)
  BY <1>1 DEF ToSet
<1>3. channels.proposal \in [steps : {{channels.passages[1]}},
                             structured : {TRUE}, flagged : BOOLEAN]
  BY <1>2 DEF Answers
<1>4. /\ channels.proposal.steps = {channels.passages[1]}
      /\ channels.proposal.structured = TRUE
  BY <1>3
<1> QED BY <1>1, <1>2, <1>4 DEF Passes

(* The verdict on a request, however often and by how many planners the    *)
(* graph is run: an injected one is always blocked, no other ever is.  The *)
(* gate is passed only with a safe passage for the request in the corpus,  *)
(* and with the local provider it blocks no request that has one, unless   *)
(* the proposal's own text holds a pattern.  The service takes this for    *)
(* granted where it treats a blocked plan as one more refusal of a         *)
(* workflow that stays as it is: but for the proposal's own text, a plan   *)
(* asked for again ends the same way.                                      *)
VerdictFollowsRequest ==
  /\ outcome = "PromptInjectionBlocked" => request.injected
  /\ outcome \in {"planned", "EvaluationGateBlocked"} => ~request.injected
  /\ outcome = "planned" => SafeBatch # {}
  /\ outcome = "EvaluationGateBlocked" /\ Providers = {"deterministic-local"} =>
       SafeBatch = {} \/ channels.proposal.flagged

THEOREM VerdictIsOfRequest == Spec => []VerdictFollowsRequest
<1>1. Init => Gated
  BY Sentinel, NoneIsApart DEF Init, Gated, Judged
<1>2. PlanInv /\ Gated /\ [Next]_vars => Gated'
  BY GatedStep
<1>3. ASSUME PlanInv, Gated PROVE VerdictFollowsRequest
  <2>1. outcome \in {"planned", "EvaluationGateBlocked"} => ~request.injected
    BY <1>3 DEF PlanInv, Screened, Gated, Judged
  <2>2. ASSUME outcome = "planned" PROVE SafeBatch # {}
    <3>1. /\ channels.category = CategoryOf(request) /\ Passes(channels)
          /\ channels.citations = {d \in Retrieve(channels.category) : IsSafe(d)}
      BY <1>3, <2>2 DEF PlanInv, Chosen, Asked
    <3> QED BY <3>1 DEF SafeBatch, Passes
  <2>3. ASSUME outcome = "EvaluationGateBlocked", Providers = {"deterministic-local"},
               SafeBatch # {}
        PROVE  channels.proposal.flagged
    BY <1>3, <2>3, LocalPasses DEF Gated, Judged
  <2> QED BY <1>3, <2>1, <2>2, <2>3 DEF VerdictFollowsRequest, Gated
<1> QED BY <1>1, <1>2, <1>3, PlanningIsSettled, PTL DEF Spec

=============================================================================
