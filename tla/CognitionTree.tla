--------------------------- MODULE CognitionTree ---------------------------
(***************************************************************************)
(* The cognition tree as a value: the snapshot a materialization carries,  *)
(* the operations a transaction may hold, the gates that judge them        *)
(* against the current snapshot, the transition they perform, and the      *)
(* codec that turns a snapshot into stored bytes and back.                 *)
(*                                                                         *)
(* Everything here is an operator; the state machines are TreeEvolution    *)
(* (one tree) and QivenContext (the gated service).  Text is abstracted:   *)
(* "" is the empty string, any other string is some non-empty text.        *)
(*   - a scope "a:b" is the sequence of its ':'-separated parts, so <<>>   *)
(*     is the empty scope and a scope holds a ':' iff it has two parts;    *)
(*   - a provenanceRef "p,q" is the sequence of its ','-separated parts;   *)
(*   - an optional value is a sequence of length zero or one.              *)
(* Digests are idealised as injective.                                     *)
(***************************************************************************)
EXTENDS Integers, Sequences, FiniteSets, SequencesExt, Graphs

CONSTANTS RootPrincipal,  \* the governance principal of the genesis tree
          MaxRecords      \* max_serialized_records: the reader's list cap

ASSUME MaxRecordsAssumption == MaxRecords \in Nat \ {0}

OperationClass == {"DecisionAcceptance", "MemoryWrite", "ObligationWrite",
                   "StateUpdate", "ConflictWrite", "EvidenceWrite"}

OperationKinds == {"AppendDecision", "SupersedeDecision", "AddMemory", "UpsertObligation",
                   "CloseObligation", "TransitionObligation", "UpdateState", "AddEvidence",
                   "UpsertProfile", "OpenConflict", "ResolveConflict", "AmendViewSpec",
                   "SetNextBoundary"}

ObligationStatus == <<"Open", "Deferred", "Blocked", "Done", "Cancelled", "Superseded">>

MemoryKind == <<"Fact", "Lesson", "Protocol", "Risk", "Invariant", "NegativeKnowledge">>

\* The elements of a sequence that are in a set, in order (SelectSeq with a set in
\* place of a test).
Kept(s, keep) ==
    LET kept[n \in 0..Len(s)] ==
          IF n = 0 THEN <<>>
          ELSE IF s[n] \in keep THEN Append(kept[n - 1], s[n]) ELSE kept[n - 1]
    IN  kept[Len(s)]

\* The first of a sequence of gate answers that is a refusal.
FirstRefusal(answers) ==
    LET refusals == {i \in DOMAIN answers : answers[i] # "None"}
    IN  IF refusals = {} THEN "None" ELSE answers[Min(refusals)]

---------------------------------------------------------------------------
(* The genesis tree. *)

makeDefaultPolicy ==
    [handoff  |-> [c \in OperationClass |->
                     IF c = "DecisionAcceptance" THEN "H2_Review" ELSE "H_None"],
     recovery |-> [StaleBase          |-> "RereadRethink",
                   HandoffMissing     |-> "HaltEscalate",
                   HandoffInvalid     |-> "HaltEscalate",
                   UnattendedMutation |-> "DeferToSupervised",
                   InvariantFailed    |-> "DesignReview",
                   UnverifiedActor    |-> "HaltEscalate",
                   GrantRefused       |-> "FailClosed",
                   GovernanceDenied   |-> "FailClosed",
                   StoreDiverged      |-> "FailClosed",
                   OutcomeUnresolved  |-> "Block",
                   KeyConflict        |-> "FailClosed",
                   ConflictUnresolved |-> "FailClosed"]]

\* No operation changes the policy table, so a tree names the table it carries:
\* the default one, or one without rows.
PolicyTable(tree) ==
    IF tree.policy = "default" THEN makeDefaultPolicy ELSE [handoff |-> <<>>, recovery |-> <<>>]

makeGenesis ==
    [rootPrincipal |-> RootPrincipal, policy |-> "default",
     current |-> "", nextBoundaryRef |-> <<>>,
     decisions |-> <<>>, memory |-> <<>>, obligations |-> <<>>,
     evidence |-> <<>>, conflicts |-> <<>>, profiles |-> <<>>, views |-> <<>>]

recovery_for(tree, reason) ==
    IF reason \in DOMAIN PolicyTable(tree).recovery
    THEN PolicyTable(tree).recovery[reason] ELSE "FailClosed"

---------------------------------------------------------------------------
(* Lookups: the first record that carries an id, as an optional value. *)

findFirst(records, id) ==
    LET at == SelectInSeq(records, LAMBDA r : r.id = id)
    IN  IF at = 0 THEN <<>> ELSE <<records[at]>>

findDecision(tree, id)   == findFirst(tree.decisions, id)
findObligation(tree, id) == findFirst(tree.obligations, id)
findConflict(tree, id)   == findFirst(tree.conflicts, id)
findProfile(tree, id)    == findFirst(tree.profiles, id)

DecisionIds(tree) == {d.id : d \in ToSet(tree.decisions)}

\* x -> y when the decision found for x names y among those it supersedes.
SupersessionGraph(tree) ==
    [node |-> DecisionIds(tree),
     edge |-> {e \in DecisionIds(tree) \X DecisionIds(tree) :
                  Contains(findDecision(tree, e[1])[1].supersedes, e[2])}]

\* The code recurses along supersedes; where that recursion does not end (the
\* chain runs into a cycle) this says whether the target lies on the chain.
reachesDecision(tree, from, target) ==
    \/ from = target
    \/ /\ {from, target} \subseteq DecisionIds(tree)
       /\ ConnectionsIn(SupersessionGraph(tree))[from, target]

---------------------------------------------------------------------------
(* Gate 6: the policy table and the authority-bound H2 review. *)

OpClass(kind) ==
    CASE kind \in {"AppendDecision", "SupersedeDecision"} -> "DecisionAcceptance"
      [] kind = "AddMemory" -> "MemoryWrite"
      [] kind \in {"UpsertObligation", "CloseObligation", "TransitionObligation"}
           -> "ObligationWrite"
      [] kind \in {"UpdateState", "SetNextBoundary"} -> "StateUpdate"
      [] kind \in {"OpenConflict", "ResolveConflict"} -> "ConflictWrite"
      [] kind \in {"AddEvidence", "UpsertProfile", "AmendViewSpec"} -> "EvidenceWrite"

digest_operations(ops) == <<"draft", ops>>

H2Gate(tx, actor, root) ==
    IF \/ tx.h2 = <<>>
       \/ "" \in {tx.h2[1].reviewer, tx.h2[1].reviewerBinding,
                  tx.h2[1].reviewRef, tx.handoffEvidenceRef}
    THEN "HandoffMissing"
    ELSE IF \/ tx.h2[1].reviewerBinding = actor.binding
            \/ tx.h2[1].reviewer # root
            \/ tx.h2[1].reviewedDeltaDigest # digest_operations(tx.operations)
         THEN "HandoffInvalid" ELSE "None"

PolicyGate(tree, tx, actor, root) ==
    LET handoff == PolicyTable(tree).handoff
        answer(op) ==
          IF OpClass(op.kind) \notin DOMAIN handoff THEN "GovernanceDenied"
          ELSE IF handoff[OpClass(op.kind)] = "H2_Review"
               THEN H2Gate(tx, actor, root) ELSE "None"
    IN  FirstRefusal([i \in DOMAIN tx.operations |-> answer(tx.operations[i])])

---------------------------------------------------------------------------
(* Gate 7: an open conflict of intersecting scope blocks the operation. *)

Blocked(tree, op) ==
    /\ op.kind \notin {"OpenConflict", "ResolveConflict"}
    /\ \E c \in ToSet(tree.conflicts) :
          c.status = "Open" /\ c.scope \in {<<>>, op.scope}

ConflictGate(tree, tx) ==
    IF \E op \in ToSet(tx.operations) : Blocked(tree, op)
    THEN "ConflictUnresolved" ELSE "None"

---------------------------------------------------------------------------
(* Gate 8: what each operation requires of the CURRENT snapshot. *)

NonEmpty(texts) == "" \notin texts

\* Mutant: any record found will do.
FindsOpen_Found(found) == found # <<>>

\* Does a lookup by id find an open record?
FindsOpen(found) == found # <<>> /\ found[1].status = "Open"

Refs(op) == Kept(op.provenanceRef, ToSet(op.provenanceRef) \ {""})

\* Mutant: the id of an existing decision is accepted.
AppendDecisionOK_IdReused(tree, op) == op.recordId > 0 /\ NonEmpty({op.title, op.payload})

AppendDecisionOK(tree, op) ==
    op.recordId > 0 /\ NonEmpty({op.title, op.payload}) /\ findDecision(tree, op.recordId) = <<>>

\* Mutant: only the superseded side must still be accepted.
SupersedeDecisionOK_AnySuccessor(tree, op) ==
    /\ findDecision(tree, op.recordId) # <<>> /\ findDecision(tree, op.successorRecordId) # <<>>
    /\ op.recordId # op.successorRecordId
    /\ findDecision(tree, op.recordId)[1].status = "Accepted"
    /\ ~reachesDecision(tree, op.successorRecordId, op.recordId)
    /\ NonEmpty({op.payload})

SupersedeDecisionOK(tree, op) ==
    LET superseded == findDecision(tree, op.recordId)
        successor  == findDecision(tree, op.successorRecordId)
    IN  /\ superseded # <<>> /\ successor # <<>>
        /\ op.recordId # op.successorRecordId
        /\ superseded[1].status = "Accepted" /\ successor[1].status = "Accepted"
        /\ ~reachesDecision(tree, op.successorRecordId, op.recordId)
        /\ NonEmpty({op.payload})

\* Mutant: a transition may lead to Blocked.
TransitionObligationOK_ToBlocked(tree, op) ==
    FindsOpen(findObligation(tree, op.recordId)) /\ NonEmpty({op.payload}) /\ op.aux \in 1..5

\* Mutant: some obligation with the id is open, not the first one.
TransitionObligationOK_AnyOpen(tree, op) ==
    /\ \E o \in ToSet(tree.obligations) : o.id = op.recordId /\ o.status = "Open"
    /\ NonEmpty({op.payload}) /\ op.aux \in {1, 3, 4, 5}

TransitionObligationOK(tree, op) ==
    /\ FindsOpen(findObligation(tree, op.recordId))
    /\ NonEmpty({op.payload})
    /\ op.aux \in {1, 3, 4, 5}
    /\ op.aux = 5 => findObligation(tree, op.successorRecordId) # <<>>

\* Mutant: refs need not resolve in the tree.
AmendViewSpecOK_Dangling(tree, op) ==
    /\ NonEmpty({op.title}) /\ Len(op.scope) >= 2
    /\ ~(op.aux = 0 /\ findFirst(tree.views, op.title) # <<>>)
    /\ Refs(op) # <<>> /\ IsInjective(Refs(op))

AmendViewSpecOK(tree, op) ==
    /\ NonEmpty({op.title}) /\ Len(op.scope) >= 2
    /\ ~(op.aux = 0 /\ findFirst(tree.views, op.title) # <<>>)
    /\ Refs(op) # <<>>
    /\ \A ref \in ToSet(Refs(op)) : findProfile(tree, ref) # <<>>
    /\ IsInjective(Refs(op))

InvariantOK(tree, op) ==
    CASE op.kind = "AppendDecision"       -> AppendDecisionOK(tree, op)
      [] op.kind = "SupersedeDecision"    -> SupersedeDecisionOK(tree, op)
      [] op.kind = "AddMemory"            -> NonEmpty({op.payload}) /\ op.provenanceRef # <<>> /\ op.aux <= 5
      [] op.kind = "UpsertObligation"     -> op.recordId > 0 /\ NonEmpty({op.payload})
      [] op.kind = "CloseObligation"      -> \E o \in ToSet(tree.obligations) :
                                                o.id = op.recordId /\ o.status = "Open"
      [] op.kind = "TransitionObligation" -> TransitionObligationOK(tree, op)
      [] op.kind = "UpdateState"          -> NonEmpty({op.payload})
      [] op.kind = "AddEvidence"          -> NonEmpty({op.title, op.payload})
      [] op.kind = "UpsertProfile"        -> /\ NonEmpty({op.title, op.payload}) /\ op.scope # <<>>
                                             /\ findProfile(tree, op.title) = <<>>
      [] op.kind = "OpenConflict"         -> /\ NonEmpty({op.title, op.payload})
                                             /\ findConflict(tree, op.title) = <<>>
      [] op.kind = "ResolveConflict"      -> /\ FindsOpen(findConflict(tree, op.title))
                                             /\ NonEmpty({op.payload})
      [] op.kind = "AmendViewSpec"        -> AmendViewSpecOK(tree, op)
      [] op.kind = "SetNextBoundary"      -> FindsOpen(findObligation(tree, op.recordId))

InvariantGate(tree, tx) ==
    IF \A op \in ToSet(tx.operations) : InvariantOK(tree, op)
    THEN "None" ELSE "InvariantFailed"

---------------------------------------------------------------------------
(* The transition: operations apply in order, each to the tree the ones    *)
(* before it left behind.                                                  *)

\* Mutant: the successor does not name what it supersedes.
SupersedeDecision_OneSided(decisions, op) ==
    [i \in DOMAIN decisions |->
        IF decisions[i].id = op.recordId
        THEN [decisions[i] EXCEPT !.status = "Superseded",
                                  !.supersededBy = Append(@, op.successorRecordId)]
        ELSE decisions[i]]

\* Mutant: the links move, the status does not.
SupersedeDecision_StatusKept(decisions, op) ==
    [i \in DOMAIN decisions |->
        LET d == decisions[i]
        IN  [d EXCEPT
               !.supersededBy = IF d.id = op.recordId THEN Append(@, op.successorRecordId) ELSE @,
               !.supersedes   = IF d.id = op.successorRecordId THEN Append(@, op.recordId) ELSE @]]

\* Mutant: links are assigned instead of appended.
SupersedeDecision_Overwrites(decisions, op) ==
    [i \in DOMAIN decisions |->
        LET d == decisions[i]
        IN  [d EXCEPT
               !.status       = IF d.id = op.recordId THEN "Superseded" ELSE @,
               !.supersededBy = IF d.id = op.recordId THEN <<op.successorRecordId>> ELSE @,
               !.supersedes   = IF d.id = op.successorRecordId THEN <<op.recordId>> ELSE @]]

SupersedeDecision(decisions, op) ==
    [i \in DOMAIN decisions |->
        LET d == decisions[i]
        IN  [d EXCEPT
               !.status       = IF d.id = op.recordId THEN "Superseded" ELSE @,
               !.supersededBy = IF d.id = op.recordId THEN Append(@, op.successorRecordId) ELSE @,
               !.supersedes   = IF d.id = op.successorRecordId THEN Append(@, op.recordId) ELSE @]]

\* Only the first obligation with the id is marked.
CloseObligation(obligations, op) ==
    LET at == SelectInSeq(obligations, LAMBDA o : o.id = op.recordId)
    IN  IF at = 0 THEN obligations ELSE [obligations EXCEPT ![at].status = "Done"]

\* Every obligation with the id is marked.
TransitionObligation(obligations, op) ==
    [i \in DOMAIN obligations |->
        LET o == obligations[i]
        IN  IF o.id = op.recordId
            THEN [o EXCEPT !.status = ObligationStatus[op.aux + 1],
                           !.completionCriteria = op.payload]
            ELSE o]

ResolveConflict(conflicts, op) ==
    [i \in DOMAIN conflicts |->
        LET c == conflicts[i]
        IN  IF c.id = op.title
            THEN [c EXCEPT !.status = "Resolved", !.resolution = op.payload] ELSE c]

\* The records that operations append.
NewDecision(op, evidenceRef) ==
    [id |-> op.recordId, status |-> "Accepted", title |-> op.title, content |-> op.payload,
     supersedes |-> <<>>, supersededBy |-> <<>>, provenance |-> evidenceRef]

NewMemory(op) ==
    [kind |-> MemoryKind[op.aux + 1], epistemic |-> "Verified", title |-> op.title,
     statement |-> op.payload, provenance |-> op.provenanceRef]

NewObligation(op) ==
    [id |-> op.recordId, status |-> "Open", statement |-> op.payload, completionCriteria |-> ""]

NewConflict(op) ==
    [id |-> op.title, status |-> "Open", scope |-> op.scope, description |-> op.payload,
     resolution |-> ""]

NewView(op) ==
    [id |-> op.title, agent |-> Head(op.scope), human |-> Tail(op.scope),
     summary |-> op.payload, profileRefs |-> Refs(op)]

AmendViewSpec(views, op) ==
    IF op.aux = 1
    THEN Kept(views, {v \in ToSet(views) : v.id # op.title})
    ELSE Append(views, NewView(op))

ApplyOp(tree, op, evidenceRef) ==
    CASE op.kind = "AppendDecision" ->
           [tree EXCEPT !.decisions = Append(@, NewDecision(op, evidenceRef))]
      [] op.kind = "SupersedeDecision" ->
           [tree EXCEPT !.decisions = SupersedeDecision(@, op)]
      [] op.kind = "AddMemory" ->
           [tree EXCEPT !.memory = Append(@, NewMemory(op))]
      [] op.kind = "UpsertObligation" ->
           [tree EXCEPT !.obligations = Append(@, NewObligation(op))]
      [] op.kind = "CloseObligation" ->
           [tree EXCEPT !.obligations = CloseObligation(@, op)]
      [] op.kind = "TransitionObligation" ->
           [tree EXCEPT !.obligations = TransitionObligation(@, op)]
      [] op.kind = "UpdateState" ->
           [tree EXCEPT !.current = op.payload]
      [] op.kind = "AddEvidence" ->
           [tree EXCEPT !.evidence = Append(@, [boundTo |-> op.title, content |-> op.payload])]
      [] op.kind = "UpsertProfile" ->
           [tree EXCEPT !.profiles = Append(@,
              [id |-> op.title, kind |-> op.scope, summary |-> op.payload])]
      [] op.kind = "OpenConflict" ->
           [tree EXCEPT !.conflicts = Append(@, NewConflict(op))]
      [] op.kind = "ResolveConflict" ->
           [tree EXCEPT !.conflicts = ResolveConflict(@, op)]
      [] op.kind = "AmendViewSpec" ->
           [tree EXCEPT !.views = AmendViewSpec(@, op)]
      [] op.kind = "SetNextBoundary" ->
           [tree EXCEPT !.nextBoundaryRef = <<op.recordId>>]

ApplyTx(tree, tx) ==
    LET after[n \in 0..Len(tx.operations)] ==  \* the tree after n operations
          IF n = 0 THEN tree
          ELSE ApplyOp(after[n - 1], tx.operations[n], tx.handoffEvidenceRef)
    IN  after[Len(tx.operations)]

---------------------------------------------------------------------------
(* Gate 9: the boundary of the tree about to be published is open work. *)

BoundaryResolves(tree) ==
    \A ref \in ToSet(tree.nextBoundaryRef) :
       \E o \in ToSet(tree.obligations) : o.id = ref /\ o.status = "Open"

\* Mutant: gate 9 is missing.
CoherenceGate_Open(tree) == "None"

CoherenceGate(tree) == IF BoundaryResolves(tree) THEN "None" ELSE "InvariantFailed"

\* Gates 6 to 9 on a non-empty transaction, in the order the code runs them.
ContentGates(tree, tx, actor, root) ==
    LET before == FirstRefusal(<<PolicyGate(tree, tx, actor, root),
                                 ConflictGate(tree, tx), InvariantGate(tree, tx)>>)
    IN  IF before # "None" THEN before ELSE CoherenceGate(ApplyTx(tree, tx))

---------------------------------------------------------------------------
(* The codec.  Bytes are the version and the fields written, in order.     *)

SupportedVersions == 6..8

WithoutField(record, field) == [f \in DOMAIN record \ {field} |-> record[f]]

WithField(record, field, value) ==
    [f \in DOMAIN record \cup {field} |-> IF f = field THEN value ELSE record[f]]

\* A memory record's epistemic type is not written.
serializeImpl(tree) ==
    [version |-> 8,
     body    |-> [tree EXCEPT !.memory =
                    [i \in DOMAIN tree.memory |-> WithoutField(tree.memory[i], "epistemic")]]]

\* The length of every list the reader counts before it reads it.
CountedLengths(body) ==
    {Len(body.decisions), Len(body.memory), Len(body.obligations), Len(body.evidence),
     Len(body.conflicts), Len(body.profiles), Len(body.views)}
      \cup {Len(d.supersedes) : d \in ToSet(body.decisions)}
      \cup {Len(d.supersededBy) : d \in ToSet(body.decisions)}
      \cup {Len(v.profileRefs) : v \in ToSet(body.views)}

\* The reader's verdict on some bytes: "None", or the typed error it stops with.
DeserializeError(bytes) ==
    IF bytes.version \notin SupportedVersions THEN "BadVersion"
    ELSE IF \E count \in CountedLengths(bytes.body) : count > MaxRecords
         THEN "ResourceAbuse" ELSE "None"

\* Mutant: the kind of a memory record is read and dropped.
deserializeImpl_DefaultKind(bytes) ==
    [bytes.body EXCEPT !.memory =
       [i \in DOMAIN bytes.body.memory |->
           [epistemic |-> "Observation", kind |-> "Fact"] @@ bytes.body.memory[i]]]

\* Mutant: title and statement of a memory record are read in the wrong order.
deserializeImpl_Swapped(bytes) ==
    [bytes.body EXCEPT !.memory =
       [i \in DOMAIN bytes.body.memory |->
           LET m == bytes.body.memory[i]
           IN  [epistemic |-> "Observation", title |-> m.statement, statement |-> m.title] @@ m]]

\* Memory records come back with the default epistemic type.
deserializeImpl(bytes) ==
    [bytes.body EXCEPT !.memory =
       [i \in DOMAIN bytes.body.memory |->
           WithField(bytes.body.memory[i], "epistemic", "Observation")]]

draft_content_id(bytes) == <<"draft", bytes>>

draft_snapshot_digest(bytes) == <<"snap", bytes>>
=============================================================================
