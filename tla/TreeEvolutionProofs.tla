------------------------ MODULE TreeEvolutionProofs ------------------------
(***************************************************************************)
(* What gates 6 to 9 guarantee about the tree, for every set of texts,     *)
(* pool of operations, transaction length and bound on the tree's size.    *)
(* Gate 8 looks at the tree before the transaction, while operations apply *)
(* to what the earlier ones left: for each list there is a relation        *)
(* between the two trees (Follows, Continues, Settles) that every admitted *)
(* operation keeps.                                                        *)
(***************************************************************************)
EXTENDS TreeEvolution, CognitionTreeProofs

\* What an operation leaves of each list, kind by kind.
AppliedToDecisions(t, op, ref) ==
    IF op.kind = "AppendDecision" THEN Append(t.decisions, NewDecision(op, ref))
    ELSE IF op.kind = "SupersedeDecision" THEN SupersedeDecision(t.decisions, op)
    ELSE t.decisions

AppliedToMemory(t, op) ==
    IF op.kind = "AddMemory" THEN Append(t.memory, NewMemory(op)) ELSE t.memory

AppliedToObligations(t, op) ==
    IF op.kind = "UpsertObligation" THEN Append(t.obligations, NewObligation(op))
    ELSE IF op.kind = "CloseObligation" THEN CloseObligation(t.obligations, op)
    ELSE IF op.kind = "TransitionObligation" THEN TransitionObligation(t.obligations, op)
    ELSE t.obligations

AppliedToConflicts(t, op) ==
    IF op.kind = "OpenConflict" THEN Append(t.conflicts, NewConflict(op))
    ELSE IF op.kind = "ResolveConflict" THEN ResolveConflict(t.conflicts, op)
    ELSE t.conflicts

AppliedToProfiles(t, op) ==
    IF op.kind = "UpsertProfile"
    THEN Append(t.profiles, [id |-> op.title, kind |-> op.scope, summary |-> op.payload])
    ELSE t.profiles

AppliedToViews(t, op) ==
    IF op.kind = "AmendViewSpec" THEN AmendViewSpec(t.views, op) ELSE t.views

AppliedToEvidence(t, op) ==
    IF op.kind = "AddEvidence"
    THEN Append(t.evidence, [boundTo |-> op.title, content |-> op.payload])
    ELSE t.evidence

AppliedToBoundary(t, op) ==
    IF op.kind = "SetNextBoundary" THEN <<op.recordId>> ELSE t.nextBoundaryRef

AppliedToCurrent(t, op) == IF op.kind = "UpdateState" THEN op.payload ELSE t.current

\* An operation changes the one list its kind names, and nothing else of the tree.
LEMMA AppliedTree ==
    ASSUME NEW t \in Tree, NEW op \in Operation, NEW ref
    PROVE  ApplyOp(t, op, ref) =
             [rootPrincipal |-> t.rootPrincipal, policy |-> t.policy,
              current |-> AppliedToCurrent(t, op), nextBoundaryRef |-> AppliedToBoundary(t, op),
              decisions |-> AppliedToDecisions(t, op, ref), memory |-> AppliedToMemory(t, op),
              obligations |-> AppliedToObligations(t, op), evidence |-> AppliedToEvidence(t, op),
              conflicts |-> AppliedToConflicts(t, op), profiles |-> AppliedToProfiles(t, op),
              views |-> AppliedToViews(t, op)]
<1>. USE DEF Tree, AppliedToCurrent, AppliedToBoundary, AppliedToDecisions, AppliedToMemory,
             AppliedToObligations, AppliedToEvidence, AppliedToConflicts, AppliedToProfiles,
             AppliedToViews
<1>1. CASE op.kind = "AppendDecision"
  BY <1>1 DEF ApplyOp
<1>2. CASE op.kind = "SupersedeDecision"
  BY <1>2 DEF ApplyOp
<1>3. CASE op.kind = "AddMemory"
  BY <1>3 DEF ApplyOp
<1>4. CASE op.kind = "UpsertObligation"
  BY <1>4 DEF ApplyOp
<1>5. CASE op.kind = "CloseObligation"
  BY <1>5 DEF ApplyOp
<1>6. CASE op.kind = "TransitionObligation"
  BY <1>6 DEF ApplyOp
<1>7. CASE op.kind = "UpdateState"
  BY <1>7 DEF ApplyOp
<1>8. CASE op.kind = "AddEvidence"
  BY <1>8 DEF ApplyOp
<1>9. CASE op.kind = "UpsertProfile"
  BY <1>9 DEF ApplyOp
<1>10. CASE op.kind = "OpenConflict"
  BY <1>10 DEF ApplyOp
<1>11. CASE op.kind = "ResolveConflict"
  BY <1>11 DEF ApplyOp
<1>12. CASE op.kind = "AmendViewSpec"
  BY <1>12 DEF ApplyOp
<1>13. CASE op.kind = "SetNextBoundary"
  BY <1>13 DEF ApplyOp
<1>. QED
  BY <1>1, <1>2, <1>3, <1>4, <1>5, <1>6, <1>7, <1>8, <1>9, <1>10, <1>11, <1>12, <1>13 DEF Operation, OperationKinds

\* The same, field by field.
LEMMA AppliedFields ==
    ASSUME NEW t \in Tree, NEW op \in Operation, NEW ref
    PROVE  /\ ApplyOp(t, op, ref).rootPrincipal = t.rootPrincipal
           /\ ApplyOp(t, op, ref).policy = t.policy
           /\ ApplyOp(t, op, ref).current = AppliedToCurrent(t, op)
           /\ ApplyOp(t, op, ref).nextBoundaryRef = AppliedToBoundary(t, op)
           /\ ApplyOp(t, op, ref).decisions = AppliedToDecisions(t, op, ref)
           /\ ApplyOp(t, op, ref).memory = AppliedToMemory(t, op)
           /\ ApplyOp(t, op, ref).obligations = AppliedToObligations(t, op)
           /\ ApplyOp(t, op, ref).evidence = AppliedToEvidence(t, op)
           /\ ApplyOp(t, op, ref).conflicts = AppliedToConflicts(t, op)
           /\ ApplyOp(t, op, ref).profiles = AppliedToProfiles(t, op)
           /\ ApplyOp(t, op, ref).views = AppliedToViews(t, op)
  BY AppliedTree

---------------------------------------------------------------------------
(* What the transitions do to one record. *)

\* A list rebuilt record by record is a list of the same length.
LEMMA Rebuilt ==
    ASSUME NEW R, NEW s, NEW T, s \in Seq(T), NEW f, DOMAIN f = DOMAIN s,
           f = [i \in DOMAIN f |-> f[i]], \A i \in DOMAIN s : f[i] \in R
    PROVE  f \in Seq(R) /\ Len(f) = Len(s) /\ DOMAIN f = 1..Len(s) /\ DOMAIN s = 1..Len(s)
<1>1. Len(s) \in Nat /\ DOMAIN s = 1..Len(s)
  OBVIOUS
<1>2. f \in [1..Len(s) -> R]
  BY <1>1
<1>. QED  BY <1>1, <1>2, IsASeq

\* The names of the enumerations, as sets.
LEMMA Names ==
    /\ ToSet(ObligationStatus) =
         {"Open", "Deferred", "Blocked", "Done", "Cancelled", "Superseded"}
    /\ ToSet(MemoryKind) =
         {"Fact", "Lesson", "Protocol", "Risk", "Invariant", "NegativeKnowledge"}
    /\ \A aux \in 0..5 : MemoryKind[aux + 1] \in ToSet(MemoryKind)
    /\ \A aux \in {1, 3, 4, 5} :
         ObligationStatus[aux + 1] \in {"Deferred", "Done", "Cancelled", "Superseded"}
<1>1. DOMAIN ObligationStatus = 1..6 /\ DOMAIN MemoryKind = 1..6
  BY DEF ObligationStatus, MemoryKind
<1>2. 1..6 = {1, 2, 3, 4, 5, 6} /\ 0..5 = {0, 1, 2, 3, 4, 5}
  OBVIOUS
<1>3. ToSet(ObligationStatus) =
         {"Open", "Deferred", "Blocked", "Done", "Cancelled", "Superseded"}
  BY <1>1, <1>2 DEF ObligationStatus, ToSet
<1>4. ToSet(MemoryKind) =
         {"Fact", "Lesson", "Protocol", "Risk", "Invariant", "NegativeKnowledge"}
  BY <1>1, <1>2 DEF MemoryKind, ToSet
<1>5. \A aux \in 0..5 : MemoryKind[aux + 1] \in ToSet(MemoryKind)
  BY <1>1 DEF ToSet
<1>6. \A aux \in {1, 3, 4, 5} :
         ObligationStatus[aux + 1] \in {"Deferred", "Done", "Cancelled", "Superseded"}
  BY DEF ObligationStatus
<1>. QED  BY <1>3, <1>4, <1>5, <1>6

\* A supersession changes the status and one link of the superseded decision, and
\* one link of the successor.
LEMMA SupersedeFacts ==
    ASSUME NEW ds \in Seq(DecisionRecord), NEW op,
           op.recordId \in Nat, op.successorRecordId \in Nat
    PROVE  /\ SupersedeDecision(ds, op) \in Seq(DecisionRecord)
           /\ Len(SupersedeDecision(ds, op)) = Len(ds)
           /\ \A i \in 1..Len(ds) :
                LET new == SupersedeDecision(ds, op)[i]
                IN  /\ new.id = ds[i].id /\ new.title = ds[i].title
                    /\ new.content = ds[i].content /\ new.provenance = ds[i].provenance
                    /\ new.status = IF ds[i].id = op.recordId THEN "Superseded" ELSE ds[i].status
                    /\ new.supersededBy = IF ds[i].id = op.recordId
                                          THEN Append(ds[i].supersededBy, op.successorRecordId)
                                          ELSE ds[i].supersededBy
                    /\ new.supersedes = IF ds[i].id = op.successorRecordId
                                        THEN Append(ds[i].supersedes, op.recordId)
                                        ELSE ds[i].supersedes
<1>. DEFINE f == SupersedeDecision(ds, op)
<1>1. DOMAIN f = DOMAIN ds /\ f = [i \in DOMAIN f |-> f[i]]
  BY DEF SupersedeDecision
<1>2. ASSUME NEW i \in DOMAIN ds
      PROVE  /\ f[i] \in DecisionRecord
             /\ f[i].id = ds[i].id /\ f[i].title = ds[i].title
             /\ f[i].content = ds[i].content /\ f[i].provenance = ds[i].provenance
             /\ f[i].status = IF ds[i].id = op.recordId THEN "Superseded" ELSE ds[i].status
             /\ f[i].supersededBy = IF ds[i].id = op.recordId
                                     THEN Append(ds[i].supersededBy, op.successorRecordId)
                                     ELSE ds[i].supersededBy
             /\ f[i].supersedes = IF ds[i].id = op.successorRecordId
                                   THEN Append(ds[i].supersedes, op.recordId)
                                   ELSE ds[i].supersedes
  <2>1. ds[i] \in DecisionRecord
    OBVIOUS
  <2>2. f[i] = [ds[i] EXCEPT
                  !.status = IF ds[i].id = op.recordId THEN "Superseded" ELSE ds[i].status,
                  !.supersededBy = IF ds[i].id = op.recordId
                                   THEN Append(ds[i].supersededBy, op.successorRecordId)
                                   ELSE ds[i].supersededBy,
                  !.supersedes = IF ds[i].id = op.successorRecordId
                                 THEN Append(ds[i].supersedes, op.recordId)
                                 ELSE ds[i].supersedes]
    BY <1>1 DEF SupersedeDecision
  <2>. HIDE DEF f
  <2>3. ds[i].supersedes \in Seq(Nat) /\ ds[i].supersededBy \in Seq(Nat)
    BY <2>1 DEF DecisionRecord
  <2>4. /\ Append(ds[i].supersedes, op.recordId) \in Seq(Nat)
        /\ Append(ds[i].supersededBy, op.successorRecordId) \in Seq(Nat)
    BY <2>3
  <2>. QED  BY <2>1, <2>2, <2>3, <2>4 DEF DecisionRecord
<1>. HIDE DEF f
<1>3. f \in Seq(DecisionRecord) /\ Len(f) = Len(ds) /\ DOMAIN ds = 1..Len(ds)
  BY <1>1, <1>2, Rebuilt
<1>. QED  BY <1>2, <1>3 DEF f

\* A transition marks every obligation with its id and leaves the others alone.
LEMMA TransitionFacts ==
    ASSUME NEW os \in Seq(ObligationRecord), NEW op \in Operation, op.aux \in {1, 3, 4, 5}
    PROVE  /\ TransitionObligation(os, op) \in Seq(ObligationRecord)
           /\ Len(TransitionObligation(os, op)) = Len(os)
           /\ \A i \in 1..Len(os) :
                LET new == TransitionObligation(os, op)[i]
                IN  /\ new.id = os[i].id
                    /\ os[i].id = op.recordId =>
                          new.status \in {"Deferred", "Done", "Cancelled", "Superseded"}
                    /\ os[i].id # op.recordId => new = os[i]
<1>. DEFINE f == TransitionObligation(os, op)
<1>1. DOMAIN f = DOMAIN os /\ f = [i \in DOMAIN f |-> f[i]]
  BY DEF TransitionObligation
<1>2. /\ ObligationStatus[op.aux + 1] \in {"Deferred", "Done", "Cancelled", "Superseded"}
      /\ {"Deferred", "Done", "Cancelled", "Superseded"} \subseteq ToSet(ObligationStatus) \ {"Blocked"}
  BY Names
<1>3. ASSUME NEW i \in DOMAIN os
      PROVE  /\ f[i] \in ObligationRecord /\ f[i].id = os[i].id
             /\ os[i].id = op.recordId =>
                   f[i].status \in {"Deferred", "Done", "Cancelled", "Superseded"}
             /\ os[i].id # op.recordId => f[i] = os[i]
  <2>1. os[i] \in ObligationRecord
    OBVIOUS
  <2>2. f[i] = IF os[i].id = op.recordId
               THEN [os[i] EXCEPT !.status = ObligationStatus[op.aux + 1],
                                  !.completionCriteria = op.payload]
               ELSE os[i]
    BY <1>1 DEF TransitionObligation
  <2>3. op.payload \in Texts
    BY DEF Operation
  <2>. HIDE DEF f
  <2>. QED  BY <2>1, <2>2, <2>3, <1>2 DEF ObligationRecord
<1>. HIDE DEF f
<1>4. f \in Seq(ObligationRecord) /\ Len(f) = Len(os) /\ DOMAIN os = 1..Len(os)
  BY <1>1, <1>3, Rebuilt
<1>. QED  BY <1>3, <1>4 DEF f

MarkedDone(o) == [o EXCEPT !.status = "Done"]

\* n is os with its first obligation of an id, the one at some place, marked.
MarksFirst(os, n, id, at) ==
    /\ os[at].id = id
    /\ \A j \in 1..at - 1 : os[j].id # id
    /\ \A i \in 1..Len(os) :
          /\ n[i].id = os[i].id
          /\ i = at => n[i] = MarkedDone(os[i]) /\ n[i].status = "Done"
          /\ i # at => n[i] = os[i]

\* Closing marks the first obligation with the id, if there is one.
LEMMA CloseFacts ==
    ASSUME NEW os \in Seq(ObligationRecord), NEW op
    PROVE  /\ CloseObligation(os, op) \in Seq(ObligationRecord)
           /\ Len(CloseObligation(os, op)) = Len(os)
           /\ \/ CloseObligation(os, op) = os
              \/ \E at \in 1..Len(os) : MarksFirst(os, CloseObligation(os, op), op.recordId, at)
<1>. DEFINE I == {i \in 1..Len(os) : os[i].id = op.recordId}
            at == SelectInSeq(os, LAMBDA o : o.id = op.recordId)
<1>1. at = IF I # {} THEN Min(I) ELSE 0
  BY DEF SelectInSeq
<1>2. CloseObligation(os, op) = IF at = 0 THEN os ELSE [os EXCEPT ![at].status = "Done"]
  BY DEF CloseObligation
<1>. HIDE DEF at
<1>3. CASE I = {}
  BY <1>1, <1>2, <1>3
<1>4. CASE I # {}
  <2>1. I \subseteq Nat
    OBVIOUS
  <2>2. at \in I /\ \A y \in I : at <= y
    BY <1>1, <1>4, <2>1, MinFacts
  <2>. DEFINE done == [os[at] EXCEPT !.status = "Done"]
  <2>3. os[at] \in ObligationRecord /\ at \in 1..Len(os) /\ os[at].id = op.recordId
    BY <2>2
  <2>4. /\ done \in ObligationRecord /\ done.id = os[at].id /\ done.status = "Done"
        /\ done = MarkedDone(os[at])
    BY <2>3, Names DEF ObligationRecord, MarkedDone
  <2>5. CloseObligation(os, op) = [os EXCEPT ![at] = done]
    BY <1>2, <2>2
  <2>. HIDE DEF done
  <2>6. /\ [os EXCEPT ![at] = done] \in Seq(ObligationRecord)
        /\ Len([os EXCEPT ![at] = done]) = Len(os)
        /\ \A i \in 1..Len(os) : [os EXCEPT ![at] = done][i] = IF i = at THEN done ELSE os[i]
    BY <2>3, <2>4, ExceptSeq
  <2>7. \A j \in 1..at - 1 : os[j].id # op.recordId
    <3>. SUFFICES ASSUME NEW j \in 1..at - 1, os[j].id = op.recordId PROVE FALSE
      OBVIOUS
    <3>1. j \in I
      BY <2>2
    <3>. QED  BY <2>2, <3>1
  <2>8. MarksFirst(os, CloseObligation(os, op), op.recordId, at)
    BY <2>3, <2>4, <2>5, <2>6, <2>7 DEF MarksFirst
  <2>. QED  BY <2>3, <2>5, <2>6, <2>8
<1>. QED  BY <1>3, <1>4

\* A resolution marks every conflict with its id and leaves the others alone.
LEMMA ResolveFacts ==
    ASSUME NEW cs \in Seq(ConflictRecord), NEW op \in Operation
    PROVE  /\ ResolveConflict(cs, op) \in Seq(ConflictRecord)
           /\ Len(ResolveConflict(cs, op)) = Len(cs)
           /\ \A i \in 1..Len(cs) :
                LET new == ResolveConflict(cs, op)[i]
                IN  /\ new.id = cs[i].id
                    /\ cs[i].id = op.title => new.status = "Resolved"
                    /\ cs[i].id # op.title => new = cs[i]
<1>. DEFINE f == ResolveConflict(cs, op)
<1>1. DOMAIN f = DOMAIN cs /\ f = [i \in DOMAIN f |-> f[i]]
  BY DEF ResolveConflict
<1>2. ASSUME NEW i \in DOMAIN cs
      PROVE  /\ f[i] \in ConflictRecord /\ f[i].id = cs[i].id
             /\ cs[i].id = op.title => f[i].status = "Resolved"
             /\ cs[i].id # op.title => f[i] = cs[i]
  <2>1. cs[i] \in ConflictRecord
    OBVIOUS
  <2>2. f[i] = IF cs[i].id = op.title
               THEN [cs[i] EXCEPT !.status = "Resolved", !.resolution = op.payload] ELSE cs[i]
    BY <1>1 DEF ResolveConflict
  <2>3. op.payload \in Texts
    BY DEF Operation
  <2>. HIDE DEF f
  <2>. QED  BY <2>1, <2>2, <2>3 DEF ConflictRecord
<1>. HIDE DEF f
<1>3. f \in Seq(ConflictRecord) /\ Len(f) = Len(cs) /\ DOMAIN cs = 1..Len(cs)
  BY <1>1, <1>2, Rebuilt
<1>. QED  BY <1>2, <1>3 DEF f

\* A new obligation is open and its criteria are empty.
LEMMA NewObligationFacts ==
    ASSUME NEW op \in Operation, op.recordId \in Nat \ {0}
    PROVE  /\ NewObligation(op) \in ObligationRecord
           /\ NewObligation(op).id = op.recordId /\ NewObligation(op).status = "Open"
<1>1. op.payload \in Texts
  BY DEF Operation
<1>2. ASSUME NEW empty \in Texts, NEW o,
             o = [id |-> op.recordId, status |-> "Open", statement |-> op.payload,
                  completionCriteria |-> empty]
      PROVE  o \in ObligationRecord /\ o.id = op.recordId /\ o.status = "Open"
  BY <1>1, <1>2, Names DEF ObligationRecord
<1>3. "" \in Texts
  BY TextAssumption, Zenon
<1>. QED  BY <1>2, <1>3, Zenon DEF NewObligation

\* A new conflict is open and without a resolution.
LEMMA NewConflictFacts ==
    ASSUME NEW op \in Operation
    PROVE  /\ NewConflict(op) \in ConflictRecord
           /\ NewConflict(op).id = op.title /\ NewConflict(op).status = "Open"
<1>1. op.payload \in Texts /\ op.title \in Texts /\ op.scope \in Seq(Texts)
  BY DEF Operation
<1>2. ASSUME NEW empty \in Texts, NEW c,
             c = [id |-> op.title, status |-> "Open", scope |-> op.scope,
                  description |-> op.payload, resolution |-> empty]
      PROVE  c \in ConflictRecord /\ c.id = op.title /\ c.status = "Open"
  BY <1>1, <1>2 DEF ConflictRecord
<1>3. "" \in Texts
  BY TextAssumption, Zenon
<1>. QED  BY <1>2, <1>3, Zenon DEF NewConflict

\* Removing elements from a list, and reading the first of several parts.
LEMMA AmendFacts ==
    ASSUME NEW vs \in Seq(ViewRecord), NEW op \in Operation, Len(op.scope) >= 2
    PROVE  AmendViewSpec(vs, op) \in Seq(ViewRecord)
<1>1. op.scope \in Seq(Texts) /\ op.provenanceRef \in Seq(Texts)
      /\ op.title \in Texts /\ op.payload \in Texts
  BY DEF Operation
<1>2. Head(op.scope) \in Texts /\ Tail(op.scope) \in Seq(Texts)
  <2>1. op.scope # <<>>
    BY <1>1
  <2>. QED  BY <1>1, <2>1, HeadTailProperties
<1>3. Refs(op) \in Seq(Texts)
  BY <1>1, KeptFacts DEF Refs
<1>4. CASE op.aux = 1
  BY <1>4, KeptFacts DEF AmendViewSpec
<1>5. CASE op.aux # 1
  <2>1. NewView(op) \in ViewRecord
    BY <1>1, <1>2, <1>3 DEF ViewRecord, NewView
  <2>. QED  BY <1>5, <2>1 DEF AmendViewSpec
<1>. QED  BY <1>4, <1>5

---------------------------------------------------------------------------
(* Types. *)

\* What gate 8 lets through has ids that the tree can hold.
LEMMA AdmittedIds ==
    ASSUME NEW t \in Tree, NEW op \in Operation, InvariantOK(t, op)
    PROVE  /\ op.kind \in {"AppendDecision", "UpsertObligation", "SetNextBoundary"}
                => op.recordId \in Nat \ {0}
           /\ op.kind = "SupersedeDecision"
                => op.recordId \in Nat \ {0} /\ op.successorRecordId \in Nat \ {0}
<1>1. op.recordId \in Int /\ op.successorRecordId \in Int
  BY DEF Operation
<1>2. t.decisions \in Seq(DecisionRecord) /\ t.obligations \in Seq(ObligationRecord)
  BY DEF Tree
<1>3. ASSUME NEW id, findDecision(t, id) # <<>> PROVE id \in Nat \ {0}
  <2>1. PICK i \in 1..Len(t.decisions) : t.decisions[i].id = id
    BY <1>2, <1>3, FindFirst DEF findDecision
  <2>2. t.decisions[i] \in DecisionRecord
    BY <1>2
  <2>. QED  BY <2>1, <2>2 DEF DecisionRecord
<1>4. ASSUME NEW id, FindsOpen(findObligation(t, id)) PROVE id \in Nat \ {0}
  <2>1. PICK i \in 1..Len(t.obligations) : t.obligations[i].id = id
    BY <1>2, <1>4, FindFirst DEF findObligation, FindsOpen
  <2>2. t.obligations[i] \in ObligationRecord
    BY <1>2
  <2>. QED  BY <2>1, <2>2 DEF ObligationRecord
<1>5. CASE op.kind = "AppendDecision"
  BY <1>5, <1>1 DEF InvariantOK, AppendDecisionOK
<1>6. CASE op.kind = "UpsertObligation"
  BY <1>6, <1>1 DEF InvariantOK
<1>7. CASE op.kind = "SetNextBoundary"
  BY <1>7, <1>4 DEF InvariantOK
<1>8. CASE op.kind = "SupersedeDecision"
  BY <1>8, <1>3 DEF InvariantOK, SupersedeDecisionOK
<1>. QED  BY <1>5, <1>6, <1>7, <1>8

\* An operation that gate 8 admitted against some tree maps trees to trees.
LEMMA OpKeepsTrees ==
    ASSUME NEW before \in Tree, NEW t \in Tree, NEW op \in Operation, NEW ref \in Texts,
           InvariantOK(before, op)
    PROVE  ApplyOp(t, op, ref) \in Tree
<1>1. /\ op.recordId \in Int /\ op.successorRecordId \in Int /\ op.aux \in 0..255
      /\ op.scope \in Seq(Texts) /\ op.title \in Texts /\ op.payload \in Texts
      /\ op.provenanceRef \in Seq(Texts)
  BY DEF Operation
<1>2. /\ t.decisions \in Seq(DecisionRecord) /\ t.memory \in Seq(MemoryRecord)
      /\ t.obligations \in Seq(ObligationRecord) /\ t.evidence \in Seq(EvidenceRecord)
      /\ t.conflicts \in Seq(ConflictRecord) /\ t.profiles \in Seq(ProfileRecord)
      /\ t.views \in Seq(ViewRecord) /\ t.current \in Texts
      /\ t.nextBoundaryRef \in {b \in Seq(Nat \ {0}) : Len(b) <= 1}
      /\ t.rootPrincipal \in {RootPrincipal} /\ t.policy \in {"default"}
  BY DEF Tree
<1>3. AppliedToDecisions(t, op, ref) \in Seq(DecisionRecord)
  <2>1. CASE op.kind = "AppendDecision"
    <3>1. NewDecision(op, ref) \in DecisionRecord
      BY <2>1, <1>1, AdmittedIds DEF DecisionRecord, NewDecision
    <3>. QED  BY <2>1, <3>1, <1>2 DEF AppliedToDecisions
  <2>2. CASE op.kind = "SupersedeDecision"
    BY <2>2, <1>2, AdmittedIds, SupersedeFacts DEF AppliedToDecisions
  <2>. QED  BY <2>1, <2>2, <1>2 DEF AppliedToDecisions
<1>4. AppliedToMemory(t, op) \in Seq(MemoryRecord)
  <2>1. CASE op.kind = "AddMemory"
    <3>1. op.aux \in 0..5
      <4>1. op.aux \in 0..255
        BY <1>1
      <4>2. op.aux <= 5
        BY <2>1 DEF InvariantOK
      <4>. QED  BY <4>1, <4>2
    <3>2. NewMemory(op) \in MemoryRecord
      BY <3>1, <1>1, Names DEF MemoryRecord, NewMemory
    <3>. QED  BY <2>1, <3>2, <1>2 DEF AppliedToMemory
  <2>. QED  BY <2>1, <1>2 DEF AppliedToMemory
<1>5. AppliedToObligations(t, op) \in Seq(ObligationRecord)
  <2>1. CASE op.kind = "UpsertObligation"
    <3>1. NewObligation(op) \in ObligationRecord
      BY <2>1, <1>1, AdmittedIds, NewObligationFacts
    <3>. QED  BY <2>1, <3>1, <1>2 DEF AppliedToObligations
  <2>2. CASE op.kind = "CloseObligation"
    BY <2>2, <1>2, CloseFacts DEF AppliedToObligations
  <2>3. CASE op.kind = "TransitionObligation"
    <3>1. op.aux \in {1, 3, 4, 5}
      BY <2>3 DEF InvariantOK, TransitionObligationOK
    <3>. QED  BY <2>3, <3>1, <1>2, TransitionFacts DEF AppliedToObligations
  <2>. QED  BY <2>1, <2>2, <2>3, <1>2 DEF AppliedToObligations
<1>6. AppliedToEvidence(t, op) \in Seq(EvidenceRecord)
  <2>1. [boundTo |-> op.title, content |-> op.payload] \in EvidenceRecord
    BY <1>1 DEF EvidenceRecord
  <2>. QED  BY <2>1, <1>2 DEF AppliedToEvidence
<1>7. AppliedToConflicts(t, op) \in Seq(ConflictRecord)
  <2>1. NewConflict(op) \in ConflictRecord
    BY <1>1, NewConflictFacts
  <2>. QED  BY <2>1, <1>2, ResolveFacts DEF AppliedToConflicts
<1>8. AppliedToProfiles(t, op) \in Seq(ProfileRecord)
  <2>1. [id |-> op.title, kind |-> op.scope, summary |-> op.payload] \in ProfileRecord
    BY <1>1 DEF ProfileRecord
  <2>. QED  BY <2>1, <1>2 DEF AppliedToProfiles
<1>9. AppliedToViews(t, op) \in Seq(ViewRecord)
  <2>1. op.kind = "AmendViewSpec" => Len(op.scope) >= 2
    BY DEF InvariantOK, AmendViewSpecOK
  <2>. QED  BY <2>1, <1>2, AmendFacts DEF AppliedToViews
<1>10. AppliedToBoundary(t, op) \in {b \in Seq(Nat \ {0}) : Len(b) <= 1}
  <2>1. CASE op.kind = "SetNextBoundary"
    <3>1. op.recordId \in Nat \ {0}
      BY <2>1, AdmittedIds
    <3>2. <<op.recordId>> \in Seq(Nat \ {0}) /\ Len(<<op.recordId>>) = 1
      BY <3>1
    <3>. QED  BY <2>1, <3>2 DEF AppliedToBoundary
  <2>. QED  BY <2>1, <1>2 DEF AppliedToBoundary
<1>11. AppliedToCurrent(t, op) \in Texts
  BY <1>1, <1>2 DEF AppliedToCurrent
<1>12. ASSUME NEW n,
              n = [rootPrincipal |-> t.rootPrincipal, policy |-> t.policy,
                   current |-> AppliedToCurrent(t, op), nextBoundaryRef |-> AppliedToBoundary(t, op),
                   decisions |-> AppliedToDecisions(t, op, ref), memory |-> AppliedToMemory(t, op),
                   obligations |-> AppliedToObligations(t, op),
                   evidence |-> AppliedToEvidence(t, op),
                   conflicts |-> AppliedToConflicts(t, op),
                   profiles |-> AppliedToProfiles(t, op), views |-> AppliedToViews(t, op)]
       PROVE  n \in Tree
  BY <1>2, <1>3, <1>4, <1>5, <1>6, <1>7, <1>8, <1>9, <1>10, <1>11, <1>12 DEF Tree
<1>. QED  BY <1>12, AppliedTree

---------------------------------------------------------------------------
(* Decisions. *)

Ids(ds) == {ds[i].id : i \in 1..Len(ds)}

\* A decision and what became of it: same content, links that only grew.
Grown(old, new) ==
    /\ old.id = new.id /\ old.title = new.title
    /\ old.content = new.content /\ old.provenance = new.provenance
    /\ IsPrefix(old.supersedes, new.supersedes)
    /\ IsPrefix(old.supersededBy, new.supersededBy)
    /\ old.status = "Superseded" => new.status = "Superseded"

\* Links are reciprocal, name decisions in ids only, and go with the status.
WellLinked(ds, ids) ==
    /\ \A i, j \in 1..Len(ds) :
          Contains(ds[i].supersedes, ds[j].id) <=> Contains(ds[j].supersededBy, ds[i].id)
    /\ \A i \in 1..Len(ds) : \A x :
          Contains(ds[i].supersedes, x) \/ Contains(ds[i].supersededBy, x) => x \in ids
    /\ \A i \in 1..Len(ds) : ds[i].status = "Superseded" <=> ds[i].supersededBy # <<>>

\* What a transaction makes of decisions, whatever number of its operations have
\* been applied: they grow, and links name only decisions from before it.
Follows(before, ds) ==
    /\ Len(before) <= Len(ds)
    /\ \A i \in 1..Len(before) : Grown(before[i], ds[i])
    /\ WellLinked(ds, Ids(before))

\* A decision that gate 8 lets in is one the tree before the transaction has not.
LEMMA FollowsAppend ==
    ASSUME NEW before \in Seq(DecisionRecord), NEW ds \in Seq(DecisionRecord),
           Follows(before, ds), NEW d \in DecisionRecord, d.id \notin Ids(before),
           d.supersedes = <<>>, d.supersededBy = <<>>, d.status = "Accepted"
    PROVE  Follows(before, Append(ds, d))
<1>. DEFINE n == Append(ds, d)
            last == Len(ds) + 1
<1>1. /\ n \in Seq(DecisionRecord) /\ Len(n) = last /\ n[last] = d
      /\ \A i \in 1..Len(ds) : n[i] = ds[i]
      /\ Len(ds) \in Nat /\ Len(before) \in Nat
  OBVIOUS
<1>2. \A i \in 1..last : i \in 1..Len(ds) \/ i = last
  BY <1>1
<1>. HIDE DEF n
<1>3. \A x : ~Contains(d.supersedes, x) /\ ~Contains(d.supersededBy, x)
  BY DEF Contains
<1>4. \A i \in 1..Len(ds) :
         ~Contains(ds[i].supersedes, d.id) /\ ~Contains(ds[i].supersededBy, d.id)
  BY DEF Follows, WellLinked
<1>5. \A i, j \in 1..Len(n) :
         Contains(n[i].supersedes, n[j].id) <=> Contains(n[j].supersededBy, n[i].id)
  <2>. SUFFICES ASSUME NEW i \in 1..last, NEW j \in 1..last
                PROVE  Contains(n[i].supersedes, n[j].id) <=> Contains(n[j].supersededBy, n[i].id)
    BY <1>1
  <2>1. CASE i = last
    <3>1. n[i] = d /\ ~Contains(n[i].supersedes, n[j].id)
      BY <2>1, <1>1, <1>3
    <3>2. ~Contains(n[j].supersededBy, d.id)
      BY <1>1, <1>2, <1>3, <1>4
    <3>. QED  BY <3>1, <3>2
  <2>2. CASE j = last /\ i # last
    BY <2>2, <1>1, <1>2, <1>3, <1>4
  <2>3. CASE i # last /\ j # last
    <3>1. i \in 1..Len(ds) /\ j \in 1..Len(ds)
      BY <2>3, <1>2
    <3>. QED  BY <3>1, <1>1 DEF Follows, WellLinked
  <2>. QED  BY <2>1, <2>2, <2>3
<1>6. \A i \in 1..Len(n) : \A x :
         Contains(n[i].supersedes, x) \/ Contains(n[i].supersededBy, x) => x \in Ids(before)
  BY <1>1, <1>2, <1>3 DEF Follows, WellLinked
<1>7. \A i \in 1..Len(n) : n[i].status = "Superseded" <=> n[i].supersededBy # <<>>
  BY <1>1, <1>2 DEF Follows, WellLinked
<1>8. Len(before) <= Len(n) /\ \A i \in 1..Len(before) : Grown(before[i], n[i])
  BY <1>1 DEF Follows
<1>9. Follows(before, n)
  BY <1>5, <1>6, <1>7, <1>8 DEF Follows, WellLinked
<1>. QED  BY <1>9 DEF n

\* A supersession among decisions from before the transaction links both sides.
LEMMA FollowsSupersede ==
    ASSUME NEW before \in Seq(DecisionRecord), NEW ds \in Seq(DecisionRecord),
           Follows(before, ds), NEW op, op.recordId \in Nat, op.successorRecordId \in Nat,
           op.recordId \in Ids(before), op.successorRecordId \in Ids(before)
    PROVE  Follows(before, SupersedeDecision(ds, op))
<1>. DEFINE n == SupersedeDecision(ds, op)
            a == op.recordId
            b == op.successorRecordId
<1>1. /\ n \in Seq(DecisionRecord) /\ Len(n) = Len(ds)
      /\ \A i \in 1..Len(ds) :
           /\ n[i].id = ds[i].id /\ n[i].title = ds[i].title
           /\ n[i].content = ds[i].content /\ n[i].provenance = ds[i].provenance
           /\ n[i].status = IF ds[i].id = a THEN "Superseded" ELSE ds[i].status
           /\ n[i].supersededBy = IF ds[i].id = a THEN Append(ds[i].supersededBy, b)
                                  ELSE ds[i].supersededBy
           /\ n[i].supersedes = IF ds[i].id = b THEN Append(ds[i].supersedes, a)
                                ELSE ds[i].supersedes
  BY SupersedeFacts
<1>2. ASSUME NEW i \in 1..Len(ds)
      PROVE  ds[i].supersedes \in Seq(Nat) /\ ds[i].supersededBy \in Seq(Nat)
  <2>1. ds[i] \in DecisionRecord
    OBVIOUS
  <2>. QED  BY <2>1 DEF DecisionRecord
<1>. HIDE DEF n
<1>3. ASSUME NEW i \in 1..Len(ds)
      PROVE  /\ \A x : Contains(n[i].supersedes, x) <=>
                        Contains(ds[i].supersedes, x) \/ (ds[i].id = b /\ x = a)
             /\ \A x : Contains(n[i].supersededBy, x) <=>
                        Contains(ds[i].supersededBy, x) \/ (ds[i].id = a /\ x = b)
             /\ n[i].supersededBy # <<>> <=> ds[i].supersededBy # <<>> \/ ds[i].id = a
             /\ \A p \in Seq(Nat) : IsPrefix(p, ds[i].supersedes) => IsPrefix(p, n[i].supersedes)
             /\ \A p \in Seq(Nat) : IsPrefix(p, ds[i].supersededBy) => IsPrefix(p, n[i].supersededBy)
  <2>1. /\ \A x : Contains(Append(ds[i].supersedes, a), x)
                     <=> Contains(ds[i].supersedes, x) \/ x = a
        /\ \A p \in Seq(Nat) : IsPrefix(p, ds[i].supersedes)
                     => IsPrefix(p, Append(ds[i].supersedes, a))
    BY <1>2, AppendedLink
  <2>2. /\ \A x : Contains(Append(ds[i].supersededBy, b), x)
                     <=> Contains(ds[i].supersededBy, x) \/ x = b
        /\ Append(ds[i].supersededBy, b) # <<>>
        /\ \A p \in Seq(Nat) : IsPrefix(p, ds[i].supersededBy)
                     => IsPrefix(p, Append(ds[i].supersededBy, b))
    BY <1>2, AppendedLink
  <2>. QED  BY <2>1, <2>2, <1>1
<1>. HIDE DEF a, b
<1>4. ASSUME NEW i \in 1..Len(n), NEW j \in 1..Len(n)
      PROVE  Contains(n[i].supersedes, n[j].id) <=> Contains(n[j].supersededBy, n[i].id)
  <2>1. i \in 1..Len(ds) /\ j \in 1..Len(ds) /\ n[i].id = ds[i].id /\ n[j].id = ds[j].id
    BY <1>1
  <2>2. Contains(n[i].supersedes, ds[j].id)
          <=> Contains(ds[i].supersedes, ds[j].id) \/ (ds[i].id = b /\ ds[j].id = a)
    BY <2>1, <1>3
  <2>3. Contains(n[j].supersededBy, ds[i].id)
          <=> Contains(ds[j].supersededBy, ds[i].id) \/ (ds[j].id = a /\ ds[i].id = b)
    BY <2>1, <1>3
  <2>4. Contains(ds[i].supersedes, ds[j].id) <=> Contains(ds[j].supersededBy, ds[i].id)
    BY <2>1 DEF Follows, WellLinked
  <2>. QED  BY <2>1, <2>2, <2>3, <2>4
<1>5. ASSUME NEW i \in 1..Len(n), NEW x,
             Contains(n[i].supersedes, x) \/ Contains(n[i].supersededBy, x)
      PROVE  x \in Ids(before)
  <2>1. i \in 1..Len(ds)
    BY <1>1
  <2>2. \/ Contains(ds[i].supersedes, x) \/ Contains(ds[i].supersededBy, x)
        \/ x = a \/ x = b
    BY <2>1, <1>3, <1>5
  <2>3. Contains(ds[i].supersedes, x) \/ Contains(ds[i].supersededBy, x) => x \in Ids(before)
    BY <2>1 DEF Follows, WellLinked
  <2>4. a \in Ids(before) /\ b \in Ids(before)
    BY DEF a, b
  <2>. QED  BY <2>2, <2>3, <2>4
<1>6. \A i \in 1..Len(n) : n[i].status = "Superseded" <=> n[i].supersededBy # <<>>
  BY <1>1, <1>3 DEF Follows, WellLinked
<1>7. Len(before) <= Len(n)
  BY <1>1 DEF Follows
<1>8. ASSUME NEW i \in 1..Len(before) PROVE Grown(before[i], n[i])
  <2>1. i \in 1..Len(ds) /\ Grown(before[i], ds[i])
    BY DEF Follows
  <2>2. before[i] \in DecisionRecord
    OBVIOUS
  <2>3. before[i].supersedes \in Seq(Nat) /\ before[i].supersededBy \in Seq(Nat)
    BY <2>2 DEF DecisionRecord
  <2>. QED  BY <2>1, <2>3, <1>1, <1>3 DEF Grown
<1>9. Follows(before, n)
  BY <1>4, <1>5, <1>6, <1>7, <1>8 DEF Follows, WellLinked
<1>. QED  BY <1>9 DEF n

\* An admitted operation of a transaction, applied to what the earlier ones left.
LEMMA FollowsStep ==
    ASSUME NEW before \in Tree, NEW t \in Tree, NEW op \in Operation, NEW ref \in Texts,
           InvariantOK(before, op), Follows(before.decisions, t.decisions)
    PROVE  Follows(before.decisions, ApplyOp(t, op, ref).decisions)
<1>1. before.decisions \in Seq(DecisionRecord) /\ t.decisions \in Seq(DecisionRecord)
  BY DEF Tree
<1>2. ASSUME NEW id, findDecision(before, id) # <<>> PROVE id \in Ids(before.decisions)
  BY <1>1, <1>2, FindFirst DEF findDecision, Ids
<1>3. ASSUME NEW id, findDecision(before, id) = <<>> PROVE id \notin Ids(before.decisions)
  <2>1. \A i \in 1..Len(before.decisions) : before.decisions[i].id # id
    BY <1>1, <1>3, FindNothing DEF findDecision
  <2>. QED  BY <2>1 DEF Ids
<1>4. ApplyOp(t, op, ref).decisions = AppliedToDecisions(t, op, ref)
  BY AppliedFields
<1>5. CASE op.kind = "AppendDecision"
  <2>1. NewDecision(op, ref) \in DecisionRecord
    <3>1. op.title \in Texts /\ op.payload \in Texts
      BY DEF Operation
    <3>2. op.recordId \in Nat \ {0}
      BY <1>5, AdmittedIds
    <3>3. <<>> \in Seq(Nat)
      OBVIOUS
    <3>. QED  BY <3>1, <3>2, <3>3 DEF DecisionRecord, NewDecision
  <2>2. findDecision(before, op.recordId) = <<>>
    BY <1>5 DEF InvariantOK, AppendDecisionOK
  <2>3. /\ NewDecision(op, ref).id = op.recordId /\ NewDecision(op, ref).status = "Accepted"
        /\ NewDecision(op, ref).supersedes = <<>> /\ NewDecision(op, ref).supersededBy = <<>>
    BY DEF NewDecision
  <2>4. NewDecision(op, ref).id \notin Ids(before.decisions)
    BY <1>3, <2>2, <2>3
  <2>5. Follows(before.decisions, Append(t.decisions, NewDecision(op, ref)))
    BY <1>1, <2>1, <2>3, <2>4, FollowsAppend
  <2>. QED  BY <1>4, <1>5, <2>5 DEF AppliedToDecisions
<1>6. CASE op.kind = "SupersedeDecision"
  <2>1. /\ findDecision(before, op.recordId) # <<>>
        /\ findDecision(before, op.successorRecordId) # <<>>
    BY <1>6 DEF InvariantOK, SupersedeDecisionOK
  <2>2. op.recordId \in Nat /\ op.successorRecordId \in Nat
    BY <1>6, AdmittedIds
  <2>3. Follows(before.decisions, SupersedeDecision(t.decisions, op))
    BY <1>1, <1>2, <2>1, <2>2, FollowsSupersede
  <2>. QED  BY <1>4, <1>6, <2>3 DEF AppliedToDecisions
<1>7. CASE op.kind \notin {"AppendDecision", "SupersedeDecision"}
  BY <1>4, <1>7 DEF AppliedToDecisions
<1>. QED  BY <1>5, <1>6, <1>7

---------------------------------------------------------------------------
(* The two actions. *)

\* A commit: the new tree is in every set of trees that has the old one and that
\* the operations gate 8 admits do not lead out of, and gate 9 passed it.
LEMMA CommitInduction ==
    ASSUME NEW ops \in Transactions, TypeOK, Commit(ops), NEW S, tree \in S,
           \A t \in S : \A op \in Operation : \A ref \in Texts :
              InvariantOK(tree, op) => ApplyOp(t, op, ref) \in S
    PROVE  tree' \in S /\ BoundaryResolves(tree') /\ pool' = pool
<1>. DEFINE tx == Reviewed(ops)
<1>1. tx.operations = ops /\ tx.handoffEvidenceRef = "pr"
  BY Zenon DEF Reviewed
<1>2. tx.handoffEvidenceRef \in Texts
  BY <1>1, TextAssumption, Zenon
<1>3. /\ ContentGates(tree, tx, Author, tree.rootPrincipal) = "None"
      /\ tree' = ApplyTx(tree, tx) /\ pool' = pool
  BY Zenon DEF Commit
<1>4. PICK n \in 1..pool.size : ops \in [1..n -> pool.operations]
  BY Zenon DEF Transactions
<1>5. pool.operations \subseteq Operation /\ pool.size \in Nat
  BY EvolutionBounds DEF TypeOK
<1>. HIDE DEF tx
<1>6. ops \in Seq(Operation) /\ Len(ops) \in Nat
  <2>1. n \in Nat /\ ops \in [1..n -> Operation]
    BY <1>4, <1>5
  <2>. QED  BY <2>1, IsASeq
<1>7. \A k \in 1..Len(ops) : ops[k] \in Operation /\ ops[k] \in ToSet(ops)
  BY <1>6 DEF ToSet
<1>8. \A k \in 1..Len(ops) : InvariantOK(tree, ops[k])
  BY <1>1, <1>3, <1>7, AdmittedPasses
<1>9. ApplyTx(tree, tx) \in S
  BY <1>1, <1>2, <1>6, <1>7, <1>8, ApplyTxInduction
<1>10. BoundaryResolves(ApplyTx(tree, tx))
  BY <1>3, AdmittedPasses
<1>. QED  BY <1>3, <1>9, <1>10

\* A reload changes nothing but what the memory records say of themselves.
LEMMA ReloadFacts ==
    ASSUME NEW t \in Tree
    PROVE  LET r == deserializeImpl(serializeImpl(t))
           IN  /\ r \in Tree
               /\ r.decisions = t.decisions /\ r.obligations = t.obligations
               /\ r.conflicts = t.conflicts /\ r.profiles = t.profiles /\ r.views = t.views
               /\ r.nextBoundaryRef = t.nextBoundaryRef /\ r.current = t.current
               /\ r.evidence = t.evidence
               /\ Len(r.memory) = Len(t.memory)
               /\ \A i \in 1..Len(t.memory) :
                     LET new == r.memory[i]
                     IN  /\ new.kind = t.memory[i].kind /\ new.title = t.memory[i].title
                         /\ new.statement = t.memory[i].statement
                         /\ new.epistemic = "Observation"
                         /\ new.provenance = t.memory[i].provenance
<1>. DEFINE bare == [i \in DOMAIN t.memory |-> WithoutField(t.memory[i], "epistemic")]
            full == [i \in DOMAIN bare |-> WithField(bare[i], "epistemic", "Observation")]
            r == deserializeImpl(serializeImpl(t))
<1>1. t.memory \in Seq(MemoryRecord)
  BY DEF Tree
<1>2. DOMAIN bare = DOMAIN t.memory /\ DOMAIN full = DOMAIN t.memory
      /\ full = [i \in DOMAIN full |-> full[i]]
  OBVIOUS
<1>3. ASSUME NEW i \in DOMAIN t.memory
      PROVE  /\ full[i] \in MemoryRecord
             /\ full[i].kind = t.memory[i].kind /\ full[i].title = t.memory[i].title
             /\ full[i].statement = t.memory[i].statement
             /\ full[i].epistemic = "Observation" /\ full[i].provenance = t.memory[i].provenance
  <2>. DEFINE m == t.memory[i]
  <2>1. m \in MemoryRecord
    BY <1>1
  <2>2. full[i] = WithField(WithoutField(m, "epistemic"), "epistemic", "Observation")
    OBVIOUS
  <2>. HIDE DEF m
  <2>. DEFINE Fields == {"kind", "epistemic", "title", "statement", "provenance"}
              b == WithoutField(m, "epistemic")
              w == [f \in Fields |-> IF f = "epistemic" THEN "Observation" ELSE m[f]]
  <2>3. DOMAIN m = Fields
    BY <2>1 DEF MemoryRecord
  <2>4. b = [f \in Fields \ {"epistemic"} |-> m[f]]
    BY <2>3 DEF WithoutField
  <2>5. /\ DOMAIN b \cup {"epistemic"} = Fields
        /\ \A f \in Fields \ {"epistemic"} : b[f] = m[f]
    BY <2>4
  <2>. HIDE DEF b
  <2>6. WithField(b, "epistemic", "Observation") = w
    BY <2>5 DEF WithField
  <2>7. w = [kind |-> m.kind, epistemic |-> "Observation", title |-> m.title,
             statement |-> m.statement, provenance |-> m.provenance]
    OBVIOUS
  <2>8. w \in MemoryRecord /\ w.kind = m.kind /\ w.title = m.title /\ w.statement = m.statement
        /\ w.epistemic = "Observation" /\ w.provenance = m.provenance
    BY <2>1, <2>7 DEF MemoryRecord
  <2>. QED  BY <2>2, <2>6, <2>8 DEF b, m
<1>. HIDE DEF full
<1>4. full \in Seq(MemoryRecord)
  BY <1>1, <1>2, <1>3, Rebuilt
<1>5. r = [t EXCEPT !.memory = full]
  <2>1. serializeImpl(t).body = [t EXCEPT !.memory = bare]
    BY DEF serializeImpl
  <2>2. serializeImpl(t).body.memory = bare
    BY <2>1 DEF Tree
  <2>3. r = [serializeImpl(t).body EXCEPT !.memory = full]
    BY <2>2 DEF deserializeImpl, full
  <2>. QED  BY <2>1, <2>3 DEF Tree
<1>. HIDE DEF r
<1>6. r \in Tree
  BY <1>4, <1>5 DEF Tree
<1>7. /\ r.decisions = t.decisions /\ r.obligations = t.obligations
      /\ r.conflicts = t.conflicts /\ r.profiles = t.profiles /\ r.views = t.views
      /\ r.nextBoundaryRef = t.nextBoundaryRef /\ r.current = t.current /\ r.evidence = t.evidence
  BY <1>5 DEF Tree
<1>8. r.memory = full
  BY <1>5 DEF Tree
<1>9. /\ Len(r.memory) = Len(t.memory) /\ DOMAIN t.memory = 1..Len(t.memory)
      /\ \A i \in 1..Len(t.memory) :
            LET new == r.memory[i]
            IN  /\ new.kind = t.memory[i].kind /\ new.title = t.memory[i].title
                /\ new.statement = t.memory[i].statement
                /\ new.epistemic = "Observation" /\ new.provenance = t.memory[i].provenance
  <2>1. Len(full) = Len(t.memory) /\ DOMAIN t.memory = 1..Len(t.memory)
    BY <1>1, <1>2, <1>3, Rebuilt
  <2>. QED  BY <1>3, <1>8, <2>1
<1>. QED  BY <1>6, <1>7, <1>9 DEF r

---------------------------------------------------------------------------
(* Type correctness. *)

\* The genesis tree is a tree without records.
LEMMA Genesis ==
    /\ makeGenesis \in Tree
    /\ makeGenesis.decisions = <<>> /\ makeGenesis.obligations = <<>>
    /\ makeGenesis.conflicts = <<>> /\ makeGenesis.profiles = <<>>
    /\ makeGenesis.views = <<>> /\ makeGenesis.nextBoundaryRef = <<>>
<1>1. ASSUME NEW empty \in Texts, NEW t,
             t = [rootPrincipal |-> RootPrincipal, policy |-> "default",
                  current |-> empty, nextBoundaryRef |-> <<>>,
                  decisions |-> <<>>, memory |-> <<>>, obligations |-> <<>>,
                  evidence |-> <<>>, conflicts |-> <<>>, profiles |-> <<>>, views |-> <<>>]
      PROVE  /\ t \in Tree
             /\ t.decisions = <<>> /\ t.obligations = <<>>
             /\ t.conflicts = <<>> /\ t.profiles = <<>>
             /\ t.views = <<>> /\ t.nextBoundaryRef = <<>>
  <2>1. <<>> \in Seq(Nat \ {0}) /\ Len(<<>>) <= 1
    OBVIOUS
  <2>. QED  BY <1>1, <2>1 DEF Tree
<1>2. "" \in Texts
  BY TextAssumption, Zenon
<1>. QED  BY <1>1, <1>2, Zenon DEF makeGenesis

\* TypeOK: every reachable tree is a snapshot with the records of cognition.hpp.
THEOREM TypeCorrect == Spec => []TypeOK
<1>1. Init => TypeOK
  BY Genesis, Zenon DEF Init, TypeOK
<1>2. TypeOK /\ [Next]_vars => TypeOK'
  <2>. SUFFICES ASSUME TypeOK, [Next]_vars PROVE TypeOK'
    OBVIOUS
  <2>1. CASE Reload
    BY <2>1, ReloadFacts, Zenon DEF Reload, TypeOK
  <2>2. ASSUME NEW ops \in Transactions, Commit(ops) PROVE TypeOK'
    <3>1. tree \in Tree
      BY DEF TypeOK
    <3>2. \A t \in Tree : \A op \in Operation : \A ref \in Texts :
             InvariantOK(tree, op) => ApplyOp(t, op, ref) \in Tree
      BY <3>1, OpKeepsTrees, Zenon
    <3>3. tree' \in Tree /\ pool' = pool
      BY <2>2, <3>1, <3>2, CommitInduction, Zenon
    <3>. QED  BY <3>3, Zenon DEF TypeOK
  <2>3. CASE UNCHANGED vars
    BY <2>3, Zenon DEF vars, TypeOK
  <2>. QED  BY <2>1, <2>2, <2>3 DEF Next
<1>. QED  BY <1>1, <1>2, PTL DEF Spec

---------------------------------------------------------------------------
(* The history of decisions. *)

\* The links of the tree's decisions are in order, and name decisions of the tree.
LinksInOrder == WellLinked(tree.decisions, Ids(tree.decisions))

\* Decisions in order follow themselves, and what follows is in order.
LEMMA FollowsFacts ==
    ASSUME NEW ds \in Seq(DecisionRecord)
    PROVE  /\ WellLinked(ds, Ids(ds)) => Follows(ds, ds)
           /\ \A before \in Seq(DecisionRecord) :
                 Follows(before, ds) => WellLinked(ds, Ids(ds))
<1>1. \A i \in 1..Len(ds) : Grown(ds[i], ds[i])
  BY DEF Grown, IsPrefix
<1>2. WellLinked(ds, Ids(ds)) => Follows(ds, ds)
  BY <1>1 DEF Follows
<1>3. ASSUME NEW before \in Seq(DecisionRecord), Follows(before, ds)
      PROVE  WellLinked(ds, Ids(ds))
  <2>1. \A i \in 1..Len(before) : i \in 1..Len(ds) /\ before[i].id = ds[i].id
    BY <1>3 DEF Follows, Grown
  <2>2. Ids(before) \subseteq Ids(ds)
    BY <2>1 DEF Ids
  <2>3. WellLinked(ds, Ids(before))
    BY <1>3 DEF Follows
  <2>. QED  BY <2>2, <2>3 DEF WellLinked
<1>. QED  BY <1>2, <1>3

\* A step of the tree leaves decisions that follow the old ones.
LEMMA StepFollows ==
    ASSUME TypeOK, LinksInOrder, [Next]_vars
    PROVE  Follows(tree.decisions, tree'.decisions) /\ tree' \in Tree
<1>1. tree \in Tree /\ tree.decisions \in Seq(DecisionRecord)
  BY Zenon DEF TypeOK, Tree
<1>2. Follows(tree.decisions, tree.decisions)
  BY <1>1, FollowsFacts, Zenon DEF LinksInOrder
<1>3. CASE Reload
  BY <1>1, <1>2, <1>3, ReloadFacts, Zenon DEF Reload
<1>4. ASSUME NEW ops \in Transactions, Commit(ops)
      PROVE  Follows(tree.decisions, tree'.decisions) /\ tree' \in Tree
  <2>. DEFINE S == {t \in Tree : Follows(tree.decisions, t.decisions)}
  <2>1. tree \in S
    BY <1>1, <1>2
  <2>2. ASSUME NEW t \in S, NEW op \in Operation, NEW ref \in Texts, InvariantOK(tree, op)
        PROVE  ApplyOp(t, op, ref) \in S
    BY <1>1, <2>2, OpKeepsTrees, FollowsStep, Zenon
  <2>3. tree' \in S
    <3>. HIDE DEF S
    <3>. QED  BY <1>4, <2>1, <2>2, CommitInduction, Zenon
  <2>. QED  BY <2>3
<1>5. CASE UNCHANGED vars
  BY <1>1, <1>2, <1>5 DEF vars
<1>. QED  BY <1>3, <1>4, <1>5 DEF Next

\* The links of the decisions stay in order, whatever is committed together.
LEMMA LinksStayInOrder == Spec => []LinksInOrder
<1>1. Init => LinksInOrder
  <2>. SUFFICES ASSUME Init PROVE LinksInOrder
    OBVIOUS
  <2>1. tree.decisions = <<>>
    BY Genesis, Zenon DEF Init
  <2>2. Len(tree.decisions) = 0
    BY <2>1
  <2>. QED  BY <2>2 DEF LinksInOrder, WellLinked
<1>2. TypeOK /\ LinksInOrder /\ [Next]_vars => LinksInOrder'
  <2>. SUFFICES ASSUME TypeOK, LinksInOrder, [Next]_vars PROVE LinksInOrder'
    OBVIOUS
  <2>1. Follows(tree.decisions, tree'.decisions) /\ tree' \in Tree
    BY StepFollows
  <2>2. tree.decisions \in Seq(DecisionRecord) /\ tree'.decisions \in Seq(DecisionRecord)
    BY <2>1, Zenon DEF TypeOK, Tree
  <2>. QED  BY <2>1, <2>2, FollowsFacts, Zenon DEF LinksInOrder
<1>. QED  BY <1>1, <1>2, TypeCorrect, PTL DEF Spec

\* ReciprocalSupersession: in every reachable tree the two sides of a supersession
\* name each other.
THEOREM SupersessionIsReciprocal == Spec => []ReciprocalSupersession
<1>1. TypeOK /\ LinksInOrder => ReciprocalSupersession
  <2>. SUFFICES ASSUME TypeOK, LinksInOrder PROVE ReciprocalSupersession
    OBVIOUS
  <2>1. tree.decisions \in Seq(DecisionRecord)
    BY Zenon DEF TypeOK, Tree
  <2>2. \A x \in ToSet(tree.decisions) : \E i \in 1..Len(tree.decisions) : x = tree.decisions[i]
    BY <2>1 DEF ToSet
  <2>. QED  BY <2>2 DEF LinksInOrder, WellLinked, ReciprocalSupersession
<1>. QED  BY <1>1, TypeCorrect, LinksStayInOrder, PTL

\* StatusMatchesHistory: a decision is Superseded exactly when it names a successor.
THEOREM StatusFollowsHistory == Spec => []StatusMatchesHistory
<1>1. TypeOK /\ LinksInOrder => StatusMatchesHistory
  <2>. SUFFICES ASSUME TypeOK, LinksInOrder PROVE StatusMatchesHistory
    OBVIOUS
  <2>1. tree.decisions \in Seq(DecisionRecord)
    BY Zenon DEF TypeOK, Tree
  <2>2. \A x \in ToSet(tree.decisions) : \E i \in 1..Len(tree.decisions) : x = tree.decisions[i]
    BY <2>1 DEF ToSet
  <2>. QED  BY <2>2 DEF LinksInOrder, WellLinked, StatusMatchesHistory
<1>. QED  BY <1>1, TypeCorrect, LinksStayInOrder, PTL

\* HistoryIsKept: no step removes or rewrites a decision, shortens its links or
\* takes it out of Superseded.
THEOREM HistoryStays == Spec => HistoryIsKept
<1>. DEFINE Stays ==
       /\ Len(tree.decisions) <= Len(tree'.decisions)
       /\ \A i \in DOMAIN tree.decisions :
             LET old == tree.decisions[i]
                 new == tree'.decisions[i]
             IN  /\ <<old.id, old.title, old.content, old.provenance>>
                      = <<new.id, new.title, new.content, new.provenance>>
                 /\ IsPrefix(old.supersedes, new.supersedes)
                 /\ IsPrefix(old.supersededBy, new.supersededBy)
                 /\ old.status = "Superseded" => new.status = "Superseded"
<1>1. TypeOK /\ LinksInOrder /\ [Next]_vars => [Stays]_vars
  <2>. SUFFICES ASSUME TypeOK, LinksInOrder, [Next]_vars PROVE Stays
    OBVIOUS
  <2>1. Follows(tree.decisions, tree'.decisions)
    BY StepFollows
  <2>2. DOMAIN tree.decisions = 1..Len(tree.decisions)
    <3>1. tree.decisions \in Seq(DecisionRecord)
      BY Zenon DEF TypeOK, Tree
    <3>. QED  BY <3>1
  <2>. QED  BY <2>1, <2>2 DEF Follows, Grown
<1>. QED  BY <1>1, TypeCorrect, LinksStayInOrder, PTL DEF Spec, HistoryIsKept

---------------------------------------------------------------------------
(* Obligations. *)

Finished == {"Done", "Cancelled", "Superseded"}

\* Of the obligations that share an id, the open ones are the last.
OpenLast(os) ==
    \A i, j \in 1..Len(os) :
       i < j /\ os[i].id = os[j].id /\ os[i].status = "Open" => os[j].status = "Open"

\* What may become of an obligation that was finished before the transaction.
StaysAsFinished(before, i, new) ==
    \/ new = before[i]
    \/ ClosedForAnother(before, i) /\ new = [before[i] EXCEPT !.status = "Done"]

\* What a transaction makes of obligations, whatever number of its operations have
\* been applied: finished ones stay as they were finished.
Continues(before, os) ==
    /\ Len(before) <= Len(os)
    /\ \A i \in 1..Len(before) :
          /\ os[i].id = before[i].id
          /\ before[i].status \in Finished => StaysAsFinished(before, i, os[i])
    /\ OpenLast(os)

\* A new obligation is the last of its id, and open.
LEMMA ContinuesAppend ==
    ASSUME NEW before \in Seq(ObligationRecord), NEW os \in Seq(ObligationRecord),
           Continues(before, os), NEW o \in ObligationRecord, o.status = "Open"
    PROVE  Continues(before, Append(os, o))
<1>. DEFINE n == Append(os, o)
<1>1. /\ Len(n) = Len(os) + 1 /\ n[Len(os) + 1] = o /\ \A i \in 1..Len(os) : n[i] = os[i]
      /\ Len(os) \in Nat /\ Len(before) \in Nat
  OBVIOUS
<1>. HIDE DEF n
<1>2. ASSUME NEW i \in 1..Len(n), NEW j \in 1..Len(n), i < j, n[i].id = n[j].id,
             n[i].status = "Open"
      PROVE  n[j].status = "Open"
  <2>1. CASE j = Len(os) + 1
    BY <2>1, <1>1
  <2>2. CASE j \in 1..Len(os)
    BY <2>2, <1>1, <1>2 DEF Continues, OpenLast
  <2>. QED  BY <2>1, <2>2, <1>1
<1>3. OpenLast(n)
  BY <1>2, Zenon DEF OpenLast
<1>4. Len(before) <= Len(os) /\ Len(before) <= Len(n)
  BY <1>1 DEF Continues
<1>5. ASSUME NEW i \in 1..Len(before)
      PROVE  /\ n[i].id = before[i].id
             /\ before[i].status \in Finished => StaysAsFinished(before, i, n[i])
  <2>1. i \in 1..Len(os) /\ n[i] = os[i]
    BY <1>1, <1>4
  <2>2. /\ os[i].id = before[i].id
        /\ before[i].status \in Finished => StaysAsFinished(before, i, os[i])
    BY Zenon DEF Continues
  <2>. QED  BY <2>1, <2>2, Zenon
<1>6. Continues(before, n)
  BY <1>3, <1>4, <1>5, Zenon DEF Continues
<1>. QED  BY <1>6, Zenon DEF n

\* Closing finishes the first obligation with the id: those after it may be open,
\* and one of them was when that first one had been finished before.
LEMMA ContinuesClose ==
    ASSUME NEW before \in Seq(ObligationRecord), NEW os \in Seq(ObligationRecord),
           Continues(before, os), NEW op,
           \E j \in 1..Len(before) : before[j].id = op.recordId /\ before[j].status = "Open"
    PROVE  Continues(before, CloseObligation(os, op))
<1>. DEFINE n == CloseObligation(os, op)
<1>1. Len(n) = Len(os) /\ Len(os) \in Nat /\ Len(before) \in Nat
  BY CloseFacts
<1>2. \/ n = os
      \/ \E at \in 1..Len(os) : MarksFirst(os, n, op.recordId, at)
  BY CloseFacts
<1>. HIDE DEF n
<1>3. ASSUME NEW at \in 1..Len(os), MarksFirst(os, n, op.recordId, at)
      PROVE  Continues(before, n)
  <2>. USE DEF MarksFirst
  <2>1. ASSUME NEW i \in 1..Len(os), NEW j \in 1..Len(os), i < j, n[i].id = n[j].id,
               n[i].status = "Open"
        PROVE  n[j].status = "Open"
    <3>1. i # at /\ os[i].status = "Open" /\ os[i].id = os[j].id
      BY <1>3, <2>1
    <3>2. j # at
      BY <1>3, <2>1, <3>1
    <3>3. os[j].status = "Open"
      BY <2>1, <3>1 DEF Continues, OpenLast
    <3>. QED  BY <1>3, <3>2, <3>3
  <2>2. OpenLast(n)
    BY <1>1, <2>1 DEF OpenLast
  <2>3. ASSUME NEW i \in 1..Len(before)
        PROVE  /\ n[i].id = before[i].id
               /\ before[i].status \in Finished => StaysAsFinished(before, i, n[i])
    <3>1. /\ i \in 1..Len(os) /\ os[i].id = before[i].id
          /\ before[i].status \in Finished => StaysAsFinished(before, i, os[i])
      BY <1>1 DEF Continues
    <3>2. n[i].id = before[i].id
      BY <3>1, <1>3
    <3>3. CASE i # at
      BY <3>1, <3>2, <3>3, <1>3
    <3>4. ASSUME i = at, before[i].status \in Finished
          PROVE  StaysAsFinished(before, i, n[i])
      <4>1. n[i] = MarkedDone(os[i])
        BY <3>1, <3>4, <1>3, Zenon
      <4>2. before[i] \in ObligationRecord
        OBVIOUS
      <4>3. n[i] = [before[i] EXCEPT !.status = "Done"]
        BY <3>1, <3>4, <4>1, <4>2 DEF StaysAsFinished, ObligationRecord, MarkedDone
      <4>4. ASSUME NEW k \in 1..Len(before), before[k].id = before[i].id PROVE i <= k
        <5>1. os[k].id = before[k].id /\ k \in 1..Len(os)
          BY <1>1 DEF Continues
        <5>2. os[k].id = os[at].id
          BY <3>1, <3>4, <4>4, <5>1
        <5>. QED  BY <1>3, <3>4, <5>1, <5>2
      <4>5. PICK j \in 1..Len(before) :
                 before[j].id = op.recordId /\ before[j].status = "Open"
        OBVIOUS
      <4>6. before[j].id = before[i].id
        BY <1>3, <3>1, <3>4, <4>5
      <4>7. DOMAIN before = 1..Len(before)
        OBVIOUS
      <4>8. ClosedForAnother(before, i)
        BY <4>4, <4>5, <4>6, <4>7, Zenon DEF ClosedForAnother
      <4>. QED  BY <4>3, <4>8, Zenon DEF StaysAsFinished
    <3>. QED  BY <3>2, <3>3, <3>4
  <2>. QED  BY <1>1, <2>2, <2>3 DEF Continues
<1>4. Continues(before, n)
  BY <1>2, <1>3
<1>. QED  BY <1>4 DEF n

\* A transition needs the first obligation with the id to be open, so that all of
\* them are: it overwrites no finished one from before the transaction.
LEMMA ContinuesTransition ==
    ASSUME NEW before \in Tree, OpenLast(before.obligations),
           NEW os \in Seq(ObligationRecord), Continues(before.obligations, os),
           NEW op \in Operation, op.aux \in {1, 3, 4, 5},
           FindsOpen(findObligation(before, op.recordId))
    PROVE  Continues(before.obligations, TransitionObligation(os, op))
<1>. DEFINE n == TransitionObligation(os, op)
            old == before.obligations
<1>1. /\ Len(n) = Len(os) /\ Len(os) \in Nat
      /\ \A i \in 1..Len(os) :
            /\ n[i].id = os[i].id
            /\ os[i].id = op.recordId =>
                  n[i].status \in {"Deferred", "Done", "Cancelled", "Superseded"}
            /\ os[i].id # op.recordId => n[i] = os[i]
  BY TransitionFacts
<1>. HIDE DEF n
<1>2. old \in Seq(ObligationRecord) /\ Len(old) \in Nat
  BY DEF Tree
<1>3. PICK first \in 1..Len(old) :
           /\ old[first].status = "Open" /\ old[first].id = op.recordId
           /\ \A j \in 1..first - 1 : old[j].id # op.recordId
  <2>1. findFirst(old, op.recordId) # <<>> /\ findFirst(old, op.recordId)[1].status = "Open"
    BY DEF FindsOpen, findObligation
  <2>2. PICK i \in 1..Len(old) :
             /\ findFirst(old, op.recordId) = <<old[i]>> /\ old[i].id = op.recordId
             /\ \A j \in 1..i - 1 : old[j].id # op.recordId
    BY <1>2, <2>1, FindFirst, SMTT(30)
  <2>3. <<old[i]>>[1] = old[i]
    OBVIOUS
  <2>. QED  BY <2>1, <2>2, <2>3
<1>4. ASSUME NEW i \in 1..Len(old), old[i].id = op.recordId PROVE old[i].status \notin Finished
  <2>1. ~(i < first)
    BY <1>2, <1>3, <1>4
  <2>2. old[i].status = "Open"
    BY <2>1, <1>2, <1>3, <1>4 DEF OpenLast
  <2>. QED  BY <2>2 DEF Finished
<1>5. ASSUME NEW i \in 1..Len(old)
      PROVE  /\ n[i].id = old[i].id
             /\ old[i].status \in Finished => StaysAsFinished(old, i, n[i])
  <2>1. /\ i \in 1..Len(os) /\ os[i].id = old[i].id
        /\ old[i].status \in Finished => StaysAsFinished(old, i, os[i])
    BY <1>1, <1>2 DEF Continues
  <2>. QED  BY <2>1, <1>1, <1>4
<1>6. ASSUME NEW i \in 1..Len(os), NEW j \in 1..Len(os), i < j, n[i].id = n[j].id,
             n[i].status = "Open"
      PROVE  n[j].status = "Open"
  <2>1. os[i].id # op.recordId /\ os[j].id # op.recordId /\ os[i].id = os[j].id
    BY <1>1, <1>6
  <2>2. n[i] = os[i] /\ n[j] = os[j]
    BY <1>1, <2>1
  <2>. QED  BY <1>6, <2>1, <2>2 DEF Continues, OpenLast
<1>7. Continues(old, n)
  <2>1. Len(old) <= Len(n)
    BY <1>1 DEF Continues
  <2>2. OpenLast(n)
    BY <1>1, <1>6 DEF OpenLast
  <2>. QED  BY <1>5, <2>1, <2>2 DEF Continues
<1>. QED  BY <1>7 DEF n

\* An admitted operation of a transaction, applied to what the earlier ones left.
LEMMA ContinuesStep ==
    ASSUME NEW before \in Tree, NEW t \in Tree, NEW op \in Operation, NEW ref \in Texts,
           InvariantOK(before, op), OpenLast(before.obligations),
           Continues(before.obligations, t.obligations)
    PROVE  Continues(before.obligations, ApplyOp(t, op, ref).obligations)
<1>1. before.obligations \in Seq(ObligationRecord) /\ t.obligations \in Seq(ObligationRecord)
  BY DEF Tree
<1>2. ApplyOp(t, op, ref).obligations = AppliedToObligations(t, op)
  BY AppliedFields
<1>3. CASE op.kind = "UpsertObligation"
  <2>1. NewObligation(op) \in ObligationRecord /\ NewObligation(op).status = "Open"
    BY <1>3, AdmittedIds, NewObligationFacts
  <2>2. Continues(before.obligations, Append(t.obligations, NewObligation(op)))
    BY <1>1, <2>1, ContinuesAppend
  <2>. QED  BY <1>2, <1>3, <2>2 DEF AppliedToObligations
<1>4. CASE op.kind = "CloseObligation"
  <2>1. \E o \in ToSet(before.obligations) : o.id = op.recordId /\ o.status = "Open"
    BY <1>4 DEF InvariantOK
  <2>2. \E j \in 1..Len(before.obligations) :
           before.obligations[j].id = op.recordId /\ before.obligations[j].status = "Open"
    BY <1>1, <2>1 DEF ToSet
  <2>3. Continues(before.obligations, CloseObligation(t.obligations, op))
    BY <1>1, <2>2, ContinuesClose
  <2>. QED  BY <1>2, <1>4, <2>3 DEF AppliedToObligations
<1>5. CASE op.kind = "TransitionObligation"
  <2>1. op.aux \in {1, 3, 4, 5} /\ FindsOpen(findObligation(before, op.recordId))
    BY <1>5 DEF InvariantOK, TransitionObligationOK
  <2>2. Continues(before.obligations, TransitionObligation(t.obligations, op))
    BY <1>1, <2>1, ContinuesTransition
  <2>. QED  BY <1>2, <1>5, <2>2 DEF AppliedToObligations
<1>6. CASE op.kind \notin {"UpsertObligation", "CloseObligation", "TransitionObligation"}
  BY <1>2, <1>6 DEF AppliedToObligations
<1>. QED  BY <1>3, <1>4, <1>5, <1>6

\* A step of the tree continues its obligations.
LEMMA StepContinues ==
    ASSUME TypeOK, OpenLast(tree.obligations), [Next]_vars
    PROVE  Continues(tree.obligations, tree'.obligations)
<1>1. tree \in Tree /\ tree.obligations \in Seq(ObligationRecord)
  BY Zenon DEF TypeOK, Tree
<1>2. Continues(tree.obligations, tree.obligations)
  BY <1>1 DEF Continues, StaysAsFinished
<1>3. CASE Reload
  BY <1>1, <1>2, <1>3, ReloadFacts, Zenon DEF Reload
<1>4. ASSUME NEW ops \in Transactions, Commit(ops)
      PROVE  Continues(tree.obligations, tree'.obligations)
  <2>. DEFINE S == {t \in Tree : Continues(tree.obligations, t.obligations)}
  <2>1. tree \in S
    BY <1>1, <1>2
  <2>2. ASSUME NEW t \in S, NEW op \in Operation, NEW ref \in Texts, InvariantOK(tree, op)
        PROVE  ApplyOp(t, op, ref) \in S
    BY <1>1, <2>2, OpKeepsTrees, ContinuesStep, Zenon
  <2>3. tree' \in S
    <3>. HIDE DEF S
    <3>. QED  BY <1>4, <2>1, <2>2, CommitInduction, Zenon
  <2>. QED  BY <2>3
<1>5. CASE UNCHANGED vars
  BY <1>2, <1>5 DEF vars
<1>. QED  BY <1>3, <1>4, <1>5 DEF Next

\* Open obligations stay the last of their id.
LEMMA OpenStaysLast == Spec => []OpenLast(tree.obligations)
<1>1. Init => OpenLast(tree.obligations)
  <2>. SUFFICES ASSUME Init PROVE OpenLast(tree.obligations)
    OBVIOUS
  <2>1. tree.obligations = <<>>
    BY Genesis, Zenon DEF Init
  <2>2. Len(tree.obligations) = 0
    BY <2>1
  <2>. QED  BY <2>2 DEF OpenLast
<1>2. TypeOK /\ OpenLast(tree.obligations) /\ [Next]_vars => OpenLast(tree.obligations)'
  BY StepContinues, Zenon DEF Continues
<1>. QED  BY <1>1, <1>2, TypeCorrect, PTL DEF Spec

\* TerminalObligationsStay: finished work stays as it was finished, although ids
\* repeat and a transition rewrites every obligation with its id; a close marks the
\* first obligation of its id, finished or not.
THEOREM FinishedWorkStays == Spec => TerminalObligationsStay
<1>. DEFINE Stays ==
       \A i \in DOMAIN tree.obligations :
          LET old == tree.obligations[i]
              new == tree'.obligations[i]
          IN  old.status \in {"Done", "Cancelled", "Superseded"} =>
                 \/ new = old
                 \/ /\ ClosedForAnother(tree.obligations, i)
                    /\ new = [old EXCEPT !.status = "Done"]
<1>1. TypeOK /\ OpenLast(tree.obligations) /\ [Next]_vars => [Stays]_vars
  <2>. SUFFICES ASSUME TypeOK, OpenLast(tree.obligations), [Next]_vars PROVE Stays
    OBVIOUS
  <2>1. Continues(tree.obligations, tree'.obligations)
    BY StepContinues
  <2>2. DOMAIN tree.obligations = 1..Len(tree.obligations)
    <3>1. tree.obligations \in Seq(ObligationRecord)
      BY Zenon DEF TypeOK, Tree
    <3>. QED  BY <3>1
  <2>. QED  BY <2>1, <2>2, Zenon DEF Continues, Finished, StaysAsFinished
<1>. QED  BY <1>1, TypeCorrect, OpenStaysLast, PTL DEF Spec, TerminalObligationsStay

---------------------------------------------------------------------------
(* The boundary: gate 8 looks at the tree before, gate 9 at the tree after. *)

\* Every boundary of t names work that is open in before.
BoundaryWasOpen(before, t) ==
    \A ref \in ToSet(t.nextBoundaryRef) :
       \E i \in 1..Len(before.obligations) :
          before.obligations[i].id = ref /\ before.obligations[i].status = "Open"

\* Gate 9 says so of a tree and itself.
LEMMA BoundaryOfOne ==
    ASSUME NEW t \in Tree
    PROVE  BoundaryResolves(t) <=> BoundaryWasOpen(t, t)
<1>1. DOMAIN t.obligations = 1..Len(t.obligations)
  BY DEF Tree
<1>. DEFINE os == t.obligations
<1>2. ASSUME NEW ref
      PROVE  (\E o \in ToSet(os) : o.id = ref /\ o.status = "Open")
               <=> \E i \in 1..Len(os) : os[i].id = ref /\ os[i].status = "Open"
  BY <1>1 DEF ToSet
<1>. QED  BY <1>2 DEF BoundaryResolves, BoundaryWasOpen

\* Only a binding moves the boundary, and gate 8 lets it through to work that was
\* open before the transaction.
LEMMA BoundaryOperation ==
    ASSUME NEW before \in Tree, NEW t \in Tree, NEW op \in Operation, NEW ref \in Texts,
           InvariantOK(before, op), BoundaryWasOpen(before, t)
    PROVE  BoundaryWasOpen(before, ApplyOp(t, op, ref))
<1>1. ApplyOp(t, op, ref).nextBoundaryRef = AppliedToBoundary(t, op)
  BY AppliedFields
<1>2. CASE op.kind = "SetNextBoundary"
  <2>1. FindsOpen(findObligation(before, op.recordId))
    BY <1>2 DEF InvariantOK
  <2>2. /\ findFirst(before.obligations, op.recordId) # <<>>
        /\ findFirst(before.obligations, op.recordId)[1].status = "Open"
    BY <2>1 DEF FindsOpen, findObligation
  <2>3. before.obligations \in Seq(ObligationRecord)
    BY DEF Tree
  <2>4. PICK i \in 1..Len(before.obligations) :
             /\ findFirst(before.obligations, op.recordId) = <<before.obligations[i]>>
             /\ before.obligations[i].id = op.recordId
    BY <2>2, <2>3, FindFirst
  <2>5. <<before.obligations[i]>>[1] = before.obligations[i]
    OBVIOUS
  <2>6. before.obligations[i].status = "Open"
    BY <2>2, <2>4, <2>5
  <2>7. ToSet(<<op.recordId>>) = {op.recordId}
    BY DEF ToSet
  <2>8. ToSet(ApplyOp(t, op, ref).nextBoundaryRef) = {op.recordId}
    BY <1>1, <1>2, <2>7 DEF AppliedToBoundary
  <2>. QED  BY <2>4, <2>6, <2>8, Zenon DEF BoundaryWasOpen
<1>3. CASE op.kind # "SetNextBoundary"
  BY <1>1, <1>3, Zenon DEF AppliedToBoundary, BoundaryWasOpen
<1>. QED  BY <1>2, <1>3

\* A step leaves the boundary at work that was open before it and is open after it.
LEMMA StepBoundary ==
    ASSUME TypeOK, BoundaryResolves(tree), [Next]_vars
    PROVE  BoundaryWasOpen(tree, tree') /\ BoundaryResolves(tree')
<1>1. tree \in Tree
  BY Zenon DEF TypeOK
<1>2. BoundaryWasOpen(tree, tree)
  BY <1>1, BoundaryOfOne
<1>3. ASSUME tree'.nextBoundaryRef = tree.nextBoundaryRef, tree'.obligations = tree.obligations
      PROVE  BoundaryWasOpen(tree, tree') /\ BoundaryResolves(tree')
  <2>1. BoundaryWasOpen(tree, tree')
    BY <1>2, <1>3 DEF BoundaryWasOpen
  <2>2. BoundaryResolves(tree')
    BY <1>3 DEF BoundaryResolves
  <2>. QED  BY <2>1, <2>2
<1>4. CASE Reload
  <2>1. tree'.nextBoundaryRef = tree.nextBoundaryRef /\ tree'.obligations = tree.obligations
    BY <1>1, <1>4, ReloadFacts, Zenon DEF Reload
  <2>. QED  BY <1>3, <2>1
<1>5. ASSUME NEW ops \in Transactions, Commit(ops)
      PROVE  BoundaryWasOpen(tree, tree') /\ BoundaryResolves(tree')
  <2>. DEFINE S == {t \in Tree : BoundaryWasOpen(tree, t)}
  <2>1. tree \in S
    BY <1>1, <1>2
  <2>2. ASSUME NEW t \in S, NEW op \in Operation, NEW ref \in Texts, InvariantOK(tree, op)
        PROVE  ApplyOp(t, op, ref) \in S
    BY <1>1, <2>2, OpKeepsTrees, BoundaryOperation, Zenon
  <2>3. tree' \in S /\ BoundaryResolves(tree')
    <3>. HIDE DEF S
    <3>. QED  BY <1>5, <2>1, <2>2, CommitInduction, Zenon
  <2>. QED  BY <2>3
<1>6. CASE UNCHANGED vars
  BY <1>3, <1>6, Zenon DEF vars
<1>. QED  BY <1>4, <1>5, <1>6 DEF Next

\* The boundary of every reachable tree is open work.
LEMMA BoundaryStaysOpen == Spec => []BoundaryResolves(tree)
<1>1. Init => BoundaryResolves(tree)
  <2>. SUFFICES ASSUME Init PROVE BoundaryResolves(tree)
    OBVIOUS
  <2>1. tree.nextBoundaryRef = <<>>
    BY Genesis, Zenon DEF Init
  <2>2. DOMAIN tree.nextBoundaryRef = {}
    BY <2>1
  <2>. QED  BY <2>2 DEF BoundaryResolves, ToSet
<1>2. TypeOK /\ BoundaryResolves(tree) /\ [Next]_vars => BoundaryResolves(tree)'
  BY StepBoundary, Zenon
<1>. QED  BY <1>1, <1>2, TypeCorrect, PTL DEF Spec

\* BoundaryIsStandingWork: the boundary a step leaves was open work before it and
\* is open after it; that this is one obligation where ids do not repeat is what
\* Continues says of ids.
THEOREM BoundaryStaysStandingWork == Spec => BoundaryIsStandingWork
<1>. DEFINE Stands ==
       \A ref \in ToSet(tree'.nextBoundaryRef) :
          \E i \in DOMAIN tree.obligations, j \in DOMAIN tree'.obligations :
             /\ tree.obligations[i].id = ref /\ tree.obligations[i].status = "Open"
             /\ tree'.obligations[j].id = ref /\ tree'.obligations[j].status = "Open"
             /\ i = j \/ ~Distinct(tree'.obligations)
<1>1. TypeOK /\ TypeOK' /\ OpenLast(tree.obligations) /\ BoundaryResolves(tree) /\ [Next]_vars
        => [Stands]_vars
  <2>. SUFFICES ASSUME TypeOK, TypeOK', OpenLast(tree.obligations), BoundaryResolves(tree),
                       [Next]_vars,
                       NEW ref \in ToSet(tree'.nextBoundaryRef)
       PROVE  \E i \in DOMAIN tree.obligations, j \in DOMAIN tree'.obligations :
                 /\ tree.obligations[i].id = ref /\ tree.obligations[i].status = "Open"
                 /\ tree'.obligations[j].id = ref /\ tree'.obligations[j].status = "Open"
                 /\ i = j \/ ~Distinct(tree'.obligations)
    BY Zenon
  <2>. DEFINE old == tree.obligations
              new == tree'.obligations
  <2>1. /\ old \in Seq(ObligationRecord) /\ DOMAIN old = 1..Len(old)
        /\ new \in Seq(ObligationRecord) /\ DOMAIN new = 1..Len(new)
    BY DEF TypeOK, Tree
  <2>2. BoundaryWasOpen(tree, tree') /\ BoundaryResolves(tree')
    BY StepBoundary
  <2>3. PICK i \in DOMAIN old : old[i].id = ref /\ old[i].status = "Open"
    BY <2>1, <2>2, Zenon DEF BoundaryWasOpen
  <2>4. PICK j \in DOMAIN new : new[j].id = ref /\ new[j].status = "Open"
    <3>1. PICK o \in ToSet(new) : o.id = ref /\ o.status = "Open"
      BY <2>2, Zenon DEF BoundaryResolves
    <3>. QED  BY <3>1, Zenon DEF ToSet
  <2>5. Continues(old, new)
    BY StepContinues
  <2>6. i \in DOMAIN new /\ new[i].id = old[i].id
    <3>. HIDE DEF old, new
    <3>. QED  BY <2>1, <2>5 DEF Continues
  <2>7. ASSUME Distinct(new) PROVE i = j
    BY <2>3, <2>4, <2>6, <2>7, Zenon DEF Distinct
  <2>. QED  BY <2>3, <2>4, <2>7, Zenon
<1>. QED  BY <1>1, TypeCorrect, OpenStaysLast, BoundaryStaysOpen, PTL
       DEF Spec, BoundaryIsStandingWork

---------------------------------------------------------------------------
(* Conflicts. *)

\* What a transaction makes of conflicts, whatever number of its operations have
\* been applied: those with one id go together, those resolved before it stay as
\* they were, and those it opened are open.
Settles(before, cs) ==
    /\ Len(before) <= Len(cs)
    /\ \A i \in 1..Len(before) :
          /\ cs[i].id = before[i].id
          /\ before[i].status = "Resolved" => cs[i] = before[i]
    /\ \A i, j \in 1..Len(cs) : cs[i].id = cs[j].id => cs[i].status = cs[j].status
    /\ \A i \in 1..Len(cs) : cs[i].id \notin Ids(before) => cs[i].status = "Open"

\* Opening takes an id that no conflict had before the transaction.
LEMMA SettlesAppend ==
    ASSUME NEW before \in Seq(ConflictRecord), NEW cs \in Seq(ConflictRecord),
           Settles(before, cs), NEW c \in ConflictRecord, c.status = "Open",
           c.id \notin Ids(before)
    PROVE  Settles(before, Append(cs, c))
<1>. DEFINE n == Append(cs, c)
<1>1. /\ Len(n) = Len(cs) + 1 /\ n[Len(cs) + 1] = c /\ \A i \in 1..Len(cs) : n[i] = cs[i]
      /\ Len(cs) \in Nat /\ Len(before) \in Nat
  OBVIOUS
<1>. HIDE DEF n
<1>2. \A i \in 1..Len(n) : i \in 1..Len(cs) \/ n[i] = c
  BY <1>1
<1>3. ASSUME NEW i \in 1..Len(n), n[i].id \notin Ids(before) PROVE n[i].status = "Open"
  BY <1>1, <1>2, <1>3 DEF Settles
<1>4. ASSUME NEW i \in 1..Len(n), NEW j \in 1..Len(n), n[i].id = n[j].id
      PROVE  n[i].status = n[j].status
  <2>1. CASE n[i].id \notin Ids(before)
    BY <1>3, <1>4, <2>1
  <2>2. CASE n[i].id \in Ids(before)
    <3>1. i \in 1..Len(cs) /\ j \in 1..Len(cs)
      BY <1>2, <1>4, <2>2
    <3>. QED  BY <3>1, <1>1, <1>4 DEF Settles
  <2>. QED  BY <2>1, <2>2
<1>5. ASSUME NEW i \in 1..Len(before)
      PROVE  n[i].id = before[i].id /\ (before[i].status = "Resolved" => n[i] = before[i])
  BY <1>1 DEF Settles
<1>6. Settles(before, n)
  BY <1>1, <1>3, <1>4, <1>5 DEF Settles
<1>. QED  BY <1>6 DEF n

\* A resolution names a conflict that was open before the transaction.
LEMMA SettlesResolve ==
    ASSUME NEW before \in Seq(ConflictRecord), NEW cs \in Seq(ConflictRecord),
           Settles(before, cs), NEW op \in Operation, op.title \in Ids(before),
           \A i \in 1..Len(before) : before[i].id = op.title => before[i].status = "Open"
    PROVE  Settles(before, ResolveConflict(cs, op))
<1>. DEFINE n == ResolveConflict(cs, op)
<1>1. /\ Len(n) = Len(cs) /\ Len(cs) \in Nat /\ Len(before) \in Nat
      /\ \A i \in 1..Len(cs) :
            /\ n[i].id = cs[i].id
            /\ cs[i].id = op.title => n[i].status = "Resolved"
            /\ cs[i].id # op.title => n[i] = cs[i]
  BY ResolveFacts
<1>. HIDE DEF n
<1>2. ASSUME NEW i \in 1..Len(n), n[i].id \notin Ids(before) PROVE n[i].status = "Open"
  BY <1>1, <1>2 DEF Settles
<1>3. ASSUME NEW i \in 1..Len(n), NEW j \in 1..Len(n), n[i].id = n[j].id
      PROVE  n[i].status = n[j].status
  <2>1. i \in 1..Len(cs) /\ j \in 1..Len(cs) /\ cs[i].id = cs[j].id
    BY <1>1, <1>3
  <2>2. cs[i].status = cs[j].status
    BY <2>1 DEF Settles
  <2>. QED  BY <2>1, <2>2, <1>1
<1>4. ASSUME NEW i \in 1..Len(before)
      PROVE  n[i].id = before[i].id /\ (before[i].status = "Resolved" => n[i] = before[i])
  <2>1. i \in 1..Len(cs) /\ cs[i].id = before[i].id
        /\ (before[i].status = "Resolved" => cs[i] = before[i])
    BY <1>1 DEF Settles
  <2>. QED  BY <2>1, <1>1
<1>5. Settles(before, n)
  BY <1>1, <1>2, <1>3, <1>4 DEF Settles
<1>. QED  BY <1>5 DEF n

\* An admitted operation of a transaction, applied to what the earlier ones left.
LEMMA SettlesStep ==
    ASSUME NEW before \in Tree, NEW t \in Tree, NEW op \in Operation, NEW ref \in Texts,
           InvariantOK(before, op), Settles(before.conflicts, before.conflicts),
           Settles(before.conflicts, t.conflicts)
    PROVE  Settles(before.conflicts, ApplyOp(t, op, ref).conflicts)
<1>. DEFINE old == before.conflicts
<1>1. old \in Seq(ConflictRecord) /\ t.conflicts \in Seq(ConflictRecord)
  BY DEF Tree
<1>2. ApplyOp(t, op, ref).conflicts = AppliedToConflicts(t, op)
  BY AppliedFields
<1>3. CASE op.kind = "OpenConflict"
  <2>1. /\ NewConflict(op) \in ConflictRecord /\ NewConflict(op).status = "Open"
        /\ NewConflict(op).id = op.title
    BY NewConflictFacts
  <2>2. findFirst(old, op.title) = <<>>
    BY <1>3, Zenon DEF InvariantOK, findConflict
  <2>3. NewConflict(op).id \notin Ids(old)
    BY <1>1, <2>1, <2>2, FindNothing DEF Ids
  <2>4. Settles(old, Append(t.conflicts, NewConflict(op)))
    BY <1>1, <2>1, <2>3, SettlesAppend
  <2>. QED  BY <1>2, <1>3, <2>4 DEF AppliedToConflicts
<1>4. CASE op.kind = "ResolveConflict"
  <2>1. findFirst(old, op.title) # <<>> /\ findFirst(old, op.title)[1].status = "Open"
    BY <1>4 DEF InvariantOK, FindsOpen, findConflict
  <2>2. PICK i \in 1..Len(old) : findFirst(old, op.title) = <<old[i]>> /\ old[i].id = op.title
    BY <1>1, <2>1, FindFirst
  <2>3. <<old[i]>>[1] = old[i]
    OBVIOUS
  <2>4. old[i].status = "Open"
    BY <2>1, <2>2, <2>3
  <2>5. op.title \in Ids(old)
    BY <2>2 DEF Ids
  <2>6. \A j \in 1..Len(old) : old[j].id = op.title => old[j].status = "Open"
    BY <2>2, <2>4 DEF Settles
  <2>7. Settles(old, ResolveConflict(t.conflicts, op))
    BY <1>1, <2>5, <2>6, SettlesResolve
  <2>. QED  BY <1>2, <1>4, <2>7 DEF AppliedToConflicts
<1>5. CASE op.kind \notin {"OpenConflict", "ResolveConflict"}
  BY <1>2, <1>5 DEF AppliedToConflicts
<1>. QED  BY <1>3, <1>4, <1>5

\* The conflicts that share an id share a status.
OneStatus ==
    \A i, j \in 1..Len(tree.conflicts) :
       tree.conflicts[i].id = tree.conflicts[j].id
         => tree.conflicts[i].status = tree.conflicts[j].status

\* A step of the tree settles its conflicts.
LEMMA StepSettles ==
    ASSUME TypeOK, OneStatus, [Next]_vars
    PROVE  Settles(tree.conflicts, tree'.conflicts)
<1>1. tree \in Tree /\ tree.conflicts \in Seq(ConflictRecord)
  BY Zenon DEF TypeOK, Tree
<1>2. Settles(tree.conflicts, tree.conflicts)
  BY <1>1 DEF Settles, OneStatus, Ids
<1>3. CASE Reload
  BY <1>1, <1>2, <1>3, ReloadFacts, Zenon DEF Reload
<1>4. ASSUME NEW ops \in Transactions, Commit(ops)
      PROVE  Settles(tree.conflicts, tree'.conflicts)
  <2>. DEFINE S == {t \in Tree : Settles(tree.conflicts, t.conflicts)}
  <2>1. tree \in S
    BY <1>1, <1>2
  <2>2. ASSUME NEW t \in S, NEW op \in Operation, NEW ref \in Texts, InvariantOK(tree, op)
        PROVE  ApplyOp(t, op, ref) \in S
    BY <1>1, <1>2, <2>2, OpKeepsTrees, SettlesStep, Zenon
  <2>3. tree' \in S
    <3>. HIDE DEF S
    <3>. QED  BY <1>4, <2>1, <2>2, CommitInduction, Zenon
  <2>. QED  BY <2>3
<1>5. CASE UNCHANGED vars
  BY <1>2, <1>5 DEF vars
<1>. QED  BY <1>3, <1>4, <1>5 DEF Next

\* Conflicts with one id keep one status.
LEMMA StatusStaysOne == Spec => []OneStatus
<1>1. Init => OneStatus
  <2>. SUFFICES ASSUME Init PROVE OneStatus
    OBVIOUS
  <2>1. tree.conflicts = <<>>
    BY Genesis, Zenon DEF Init
  <2>2. Len(tree.conflicts) = 0
    BY <2>1
  <2>. QED  BY <2>2 DEF OneStatus
<1>2. TypeOK /\ OneStatus /\ [Next]_vars => OneStatus'
  BY StepSettles, Zenon DEF Settles, OneStatus
<1>. QED  BY <1>1, <1>2, TypeCorrect, PTL DEF Spec

\* ResolutionIsPermanent: no transaction reopens a resolved conflict or changes how
\* it was resolved, although a resolution rewrites every conflict with its id.
THEOREM ResolutionStays == Spec => ResolutionIsPermanent
<1>. DEFINE Stays ==
       \A i \in DOMAIN tree.conflicts :
          tree.conflicts[i].status = "Resolved" => tree'.conflicts[i] = tree.conflicts[i]
<1>1. TypeOK /\ OneStatus /\ [Next]_vars => [Stays]_vars
  <2>. SUFFICES ASSUME TypeOK, OneStatus, [Next]_vars PROVE Stays
    OBVIOUS
  <2>1. Settles(tree.conflicts, tree'.conflicts)
    BY StepSettles
  <2>2. DOMAIN tree.conflicts = 1..Len(tree.conflicts)
    <3>1. tree.conflicts \in Seq(ConflictRecord)
      BY Zenon DEF TypeOK, Tree
    <3>. QED  BY <3>1
  <2>. QED  BY <2>1, <2>2 DEF Settles
<1>. QED  BY <1>1, TypeCorrect, StatusStaysOne, PTL DEF Spec, ResolutionIsPermanent

---------------------------------------------------------------------------
(* Transactions of one operation. *)

\* Such a commit is one admitted operation applied to the tree.
LEMMA CommitOfOne ==
    ASSUME NEW ops \in Transactions, TypeOK, Commit(ops), pool.size = 1
    PROVE  \E op \in pool.operations : \E ref \in Texts :
              op \in Operation /\ InvariantOK(tree, op) /\ tree' = ApplyOp(tree, op, ref)
<1>. DEFINE tx == Reviewed(ops)
<1>1. tx.operations = ops /\ tx.handoffEvidenceRef = "pr"
  BY Zenon DEF Reviewed
<1>2. tx.handoffEvidenceRef \in Texts
  BY <1>1, TextAssumption, Zenon
<1>3. /\ ContentGates(tree, tx, Author, tree.rootPrincipal) = "None"
      /\ tree' = ApplyTx(tree, tx)
  BY Zenon DEF Commit
<1>4. PICK n \in 1..pool.size : ops \in [1..n -> pool.operations]
  BY Zenon DEF Transactions
<1>5. pool.operations \subseteq Operation
  BY EvolutionBounds DEF TypeOK
<1>. HIDE DEF tx
<1>6. ops \in Seq(Operation) /\ Len(ops) = 1 /\ ops[1] \in pool.operations
  <2>1. n = 1 /\ n \in Nat
    OBVIOUS
  <2>2. ops \in [1..n -> Operation] /\ ops[1] \in pool.operations
    BY <1>4, <1>5, <2>1
  <2>3. ASSUME NEW k \in Nat, NEW s \in [1..k -> Operation]
        PROVE  s \in Seq(Operation) /\ Len(s) = k
    BY IsASeq
  <2>4. ops \in Seq(Operation) /\ Len(ops) = n
    BY <2>1, <2>2, <2>3, Zenon
  <2>. QED  BY <2>1, <2>2, <2>3, <2>4
<1>7. InvariantOK(tree, ops[1])
  <2>1. ops[1] \in ToSet(ops)
    BY <1>6 DEF ToSet
  <2>. QED  BY <1>1, <1>3, <2>1, AdmittedPasses
<1>8. tree' = ApplyOp(tree, ops[1], tx.handoffEvidenceRef)
  BY <1>1, <1>3, <1>6, ApplyTxOfOne
<1>. QED  BY <1>2, <1>5, <1>6, <1>7, <1>8

\* A record with a new id leaves ids distinct.
LEMMA DistinctAppend ==
    ASSUME NEW R, NEW s \in Seq(R), Distinct(s), NEW r \in R, \A i \in 1..Len(s) : s[i].id # r.id
    PROVE  Distinct(Append(s, r))
<1>. DEFINE n == Append(s, r)
<1>1. /\ DOMAIN n = 1..Len(s) + 1 /\ n[Len(s) + 1] = r /\ \A i \in 1..Len(s) : n[i] = s[i]
      /\ Len(s) \in Nat /\ DOMAIN s = 1..Len(s)
  OBVIOUS
<1>. HIDE DEF n
<1>2. ASSUME NEW i \in DOMAIN n, NEW j \in DOMAIN n, n[i].id = n[j].id PROVE i = j
  <2>1. \A k \in DOMAIN n : k \in 1..Len(s) \/ k = Len(s) + 1
    BY <1>1
  <2>2. CASE i \in 1..Len(s) /\ j \in 1..Len(s)
    BY <2>2, <1>1, <1>2 DEF Distinct
  <2>3. CASE i = Len(s) + 1 /\ j \in 1..Len(s)
    BY <2>3, <1>1, <1>2
  <2>4. CASE i \in 1..Len(s) /\ j = Len(s) + 1
    BY <2>4, <1>1, <1>2
  <2>. QED  BY <2>1, <2>2, <2>3, <2>4
<1>3. Distinct(n)
  BY <1>2 DEF Distinct
<1>. QED  BY <1>3 DEF n

\* Records that keep their ids leave ids distinct.
LEMMA DistinctSame ==
    ASSUME NEW R, NEW s \in Seq(R), Distinct(s), NEW n \in Seq(R), Len(n) = Len(s),
           \A i \in 1..Len(s) : n[i].id = s[i].id
    PROVE  Distinct(n)
<1>1. DOMAIN n = 1..Len(s) /\ DOMAIN s = 1..Len(s)
  OBVIOUS
<1>. QED  BY <1>1 DEF Distinct

\* What is kept of a list leaves ids distinct.
LEMMA DistinctKept ==
    ASSUME NEW R, NEW s \in Seq(R), Distinct(s), NEW keep
    PROVE  Distinct(Kept(s, keep))
<1>. DEFINE n == Kept(s, keep)
<1>1. n \in Seq(R) /\ \E from \in [1..Len(n) -> 1..Len(s)] :
         /\ \A i \in 1..Len(n) : n[i] = s[from[i]] /\ s[from[i]] \in keep
         /\ \A i, j \in 1..Len(n) : i < j => from[i] < from[j]
  BY KeptFacts
<1>. HIDE DEF n
<1>2. PICK from \in [1..Len(n) -> 1..Len(s)] :
         /\ \A i \in 1..Len(n) : n[i] = s[from[i]]
         /\ \A i, j \in 1..Len(n) : i < j => from[i] < from[j]
  BY <1>1
<1>3. DOMAIN n = 1..Len(n) /\ DOMAIN s = 1..Len(s) /\ Len(n) \in Nat /\ Len(s) \in Nat
  BY <1>1
<1>4. ASSUME NEW i \in 1..Len(n), NEW j \in 1..Len(n), n[i].id = n[j].id PROVE i = j
  <2>1. from[i] \in 1..Len(s) /\ from[j] \in 1..Len(s) /\ from[i] = from[j]
    BY <1>2, <1>3, <1>4 DEF Distinct
  <2>2. ~(i < j) /\ ~(j < i)
    BY <1>2, <2>1
  <2>. QED  BY <1>3, <2>2
<1>5. Distinct(n)
  BY <1>3, <1>4 DEF Distinct
<1>. QED  BY <1>5 DEF n

\* The lists with ids, when gate 8 looks at the tree the operation applies to.
DistinctIds(t) == Distinct(t.decisions) /\ Distinct(t.conflicts) /\ Distinct(t.profiles)

\* One admitted operation keeps the ids of decisions, conflicts and profiles
\* distinct, and of views unless it amends one with an aux that gate 8 ignores.
LEMMA DistinctStep ==
    ASSUME NEW t \in Tree, NEW op \in Operation, NEW ref \in Texts, InvariantOK(t, op),
           DistinctIds(t)
    PROVE  /\ DistinctIds(ApplyOp(t, op, ref))
           /\ Distinct(t.views) /\ (op.kind = "AmendViewSpec" => op.aux \in {0, 1})
                => Distinct(ApplyOp(t, op, ref).views)
<1>1. /\ t.decisions \in Seq(DecisionRecord) /\ t.conflicts \in Seq(ConflictRecord)
      /\ t.profiles \in Seq(ProfileRecord) /\ t.views \in Seq(ViewRecord)
  BY DEF Tree
<1>2. /\ op.scope \in Seq(Texts) /\ op.provenanceRef \in Seq(Texts)
      /\ op.title \in Texts /\ op.payload \in Texts
  BY DEF Operation
<1>3. Distinct(AppliedToDecisions(t, op, ref))
  <2>1. CASE op.kind = "AppendDecision"
    <3>1. NewDecision(op, ref) \in DecisionRecord
      BY <1>2, <2>1, AdmittedIds DEF DecisionRecord, NewDecision
    <3>2. findFirst(t.decisions, op.recordId) = <<>>
      BY <2>1 DEF InvariantOK, AppendDecisionOK, findDecision
    <3>3. \A i \in 1..Len(t.decisions) : t.decisions[i].id # NewDecision(op, ref).id
      BY <1>1, <3>2, FindNothing DEF NewDecision
    <3>4. Distinct(Append(t.decisions, NewDecision(op, ref)))
      BY <1>1, <3>1, <3>3, DistinctAppend DEF DistinctIds
    <3>. QED  BY <2>1, <3>4 DEF AppliedToDecisions
  <2>2. CASE op.kind = "SupersedeDecision"
    <3>1. op.recordId \in Nat /\ op.successorRecordId \in Nat
      BY <2>2, AdmittedIds
    <3>2. Distinct(SupersedeDecision(t.decisions, op))
      BY <1>1, <3>1, SupersedeFacts, DistinctSame DEF DistinctIds
    <3>. QED  BY <2>2, <3>2 DEF AppliedToDecisions
  <2>. QED  BY <2>1, <2>2 DEF AppliedToDecisions, DistinctIds
<1>4. Distinct(AppliedToConflicts(t, op))
  <2>1. CASE op.kind = "OpenConflict"
    <3>1. NewConflict(op) \in ConflictRecord /\ NewConflict(op).id = op.title
      BY NewConflictFacts
    <3>2. findFirst(t.conflicts, op.title) = <<>>
      BY <2>1, Zenon DEF InvariantOK, findConflict
    <3>3. \A i \in 1..Len(t.conflicts) : t.conflicts[i].id # NewConflict(op).id
      BY <1>1, <3>1, <3>2, FindNothing
    <3>4. Distinct(Append(t.conflicts, NewConflict(op)))
      BY <1>1, <3>1, <3>3, DistinctAppend DEF DistinctIds
    <3>. QED  BY <2>1, <3>4 DEF AppliedToConflicts
  <2>2. CASE op.kind = "ResolveConflict"
    <3>1. Distinct(ResolveConflict(t.conflicts, op))
      BY <1>1, ResolveFacts, DistinctSame DEF DistinctIds
    <3>. QED  BY <2>2, <3>1 DEF AppliedToConflicts
  <2>. QED  BY <2>1, <2>2 DEF AppliedToConflicts, DistinctIds
<1>5. Distinct(AppliedToProfiles(t, op))
  <2>1. CASE op.kind = "UpsertProfile"
    <3>. DEFINE p == [id |-> op.title, kind |-> op.scope, summary |-> op.payload]
    <3>1. p \in ProfileRecord /\ p.id = op.title
      BY <1>2 DEF ProfileRecord
    <3>2. findFirst(t.profiles, op.title) = <<>>
      BY <2>1, Zenon DEF InvariantOK, findProfile
    <3>3. \A i \in 1..Len(t.profiles) : t.profiles[i].id # p.id
      BY <1>1, <3>1, <3>2, FindNothing
    <3>4. AppliedToProfiles(t, op) = Append(t.profiles, p)
      BY <2>1 DEF AppliedToProfiles
    <3>. HIDE DEF p
    <3>5. Distinct(Append(t.profiles, p))
      BY <1>1, <3>1, <3>3, DistinctAppend DEF DistinctIds
    <3>. QED  BY <3>4, <3>5
  <2>. QED  BY <2>1 DEF AppliedToProfiles, DistinctIds
<1>6. ASSUME Distinct(t.views), op.kind = "AmendViewSpec" => op.aux \in {0, 1}
      PROVE  Distinct(AppliedToViews(t, op))
  <2>1. CASE op.kind = "AmendViewSpec" /\ op.aux = 1
    <3>1. AmendViewSpec(t.views, op) = Kept(t.views, {v \in ToSet(t.views) : v.id # op.title})
      BY <2>1 DEF AmendViewSpec
    <3>2. Distinct(AmendViewSpec(t.views, op))
      BY <1>1, <1>6, <3>1, DistinctKept
    <3>. QED  BY <2>1, <3>2 DEF AppliedToViews
  <2>2. CASE op.kind = "AmendViewSpec" /\ op.aux = 0
    <3>1. Len(op.scope) >= 2 /\ findFirst(t.views, op.title) = <<>>
      BY <2>2, Zenon DEF InvariantOK, AmendViewSpecOK
    <3>2. AmendViewSpec(t.views, op) = Append(t.views, NewView(op)) /\ NewView(op).id = op.title
      BY <2>2 DEF AmendViewSpec, NewView
    <3>3. NewView(op) \in ViewRecord
      <4>1. op.scope # <<>>
        BY <1>2, <3>1
      <4>2. Head(op.scope) \in Texts /\ Tail(op.scope) \in Seq(Texts)
        BY <1>2, <4>1, HeadTailProperties
      <4>3. Refs(op) \in Seq(Texts)
        BY <1>2, KeptFacts DEF Refs
      <4>. QED  BY <1>2, <4>2, <4>3 DEF ViewRecord, NewView
    <3>4. \A i \in 1..Len(t.views) : t.views[i].id # NewView(op).id
      BY <1>1, <3>1, <3>2, FindNothing
    <3>5. Distinct(Append(t.views, NewView(op)))
      BY <1>1, <1>6, <3>3, <3>4, DistinctAppend
    <3>. QED  BY <2>2, <3>2, <3>5 DEF AppliedToViews
  <2>. QED  BY <1>6, <2>1, <2>2 DEF AppliedToViews
<1>7. DistinctIds(ApplyOp(t, op, ref))
  BY <1>3, <1>4, <1>5, AppliedFields DEF DistinctIds
<1>8. ASSUME Distinct(t.views), op.kind = "AmendViewSpec" => op.aux \in {0, 1}
      PROVE  Distinct(ApplyOp(t, op, ref).views)
  BY <1>6, <1>8, AppliedFields
<1>. QED  BY <1>7, <1>8

\* UniqueIdsOneByOne: gate 8 never lets an id be used twice, as long as it sees the
\* tree that each operation applies to.
THEOREM IdsStayUnique == Spec => []UniqueIdsOneByOne
<1>1. Init => UniqueIdsOneByOne
  <2>. SUFFICES ASSUME Init PROVE UniqueIdsOneByOne
    OBVIOUS
  <2>1. tree.decisions = <<>> /\ tree.conflicts = <<>> /\ tree.profiles = <<>> /\ tree.views = <<>>
    BY Genesis, Zenon DEF Init
  <2>2. Distinct(<<>>)
    BY DEF Distinct
  <2>. QED  BY <2>1, <2>2, Zenon DEF UniqueIdsOneByOne
<1>2. TypeOK /\ UniqueIdsOneByOne /\ [Next]_vars => UniqueIdsOneByOne'
  <2>. SUFFICES ASSUME TypeOK, UniqueIdsOneByOne, [Next]_vars PROVE UniqueIdsOneByOne'
    OBVIOUS
  <2>1. tree \in Tree
    BY Zenon DEF TypeOK
  <2>2. CASE Reload
    <3>1. /\ tree'.decisions = tree.decisions /\ tree'.conflicts = tree.conflicts
          /\ tree'.profiles = tree.profiles /\ tree'.views = tree.views /\ pool' = pool
      BY <2>1, <2>2, ReloadFacts, Zenon DEF Reload
    <3>. QED  BY <3>1, Zenon DEF UniqueIdsOneByOne, PlainViews
  <2>3. ASSUME NEW ops \in Transactions, Commit(ops) PROVE UniqueIdsOneByOne'
    <3>1. pool' = pool
      BY <2>3, Zenon DEF Commit
    <3>. SUFFICES ASSUME pool.size = 1
                  PROVE  DistinctIds(tree') /\ (PlainViews => Distinct(tree'.views))
      BY <3>1, Zenon DEF UniqueIdsOneByOne, PlainViews, DistinctIds
    <3>2. PICK op \in pool.operations : \E ref \in Texts :
               op \in Operation /\ InvariantOK(tree, op) /\ tree' = ApplyOp(tree, op, ref)
      BY <2>3, CommitOfOne, Zenon
    <3>3. PICK ref \in Texts :
               op \in Operation /\ InvariantOK(tree, op) /\ tree' = ApplyOp(tree, op, ref)
      BY <3>2
    <3>4. DistinctIds(tree) /\ (PlainViews => Distinct(tree.views))
      BY Zenon DEF UniqueIdsOneByOne, DistinctIds
    <3>5. PlainViews => (op.kind = "AmendViewSpec" => op.aux \in {0, 1})
      BY <3>2, Zenon DEF PlainViews
    <3>. QED  BY <2>1, <3>3, <3>4, <3>5, DistinctStep, Zenon
  <2>4. CASE UNCHANGED vars
    BY <2>4, Zenon DEF vars, UniqueIdsOneByOne, PlainViews
  <2>. QED  BY <2>2, <2>3, <2>4 DEF Next
<1>. QED  BY <1>1, <1>2, TypeCorrect, PTL DEF Spec

---------------------------------------------------------------------------
(* Cycles of supersession. *)

\* A ranking of the decision ids along which every supersession goes down.
Ranks(rank, ds) ==
    /\ rank \in [Ids(ds) -> Nat]
    /\ \A i \in 1..Len(ds) : \A y \in Ids(ds) :
          Contains(ds[i].supersedes, y) => rank[y] < rank[ds[i].id]

\* A new decision supersedes nothing and nothing names it.
LEMMA RanksAppend ==
    ASSUME NEW ds \in Seq(DecisionRecord), WellLinked(ds, Ids(ds)), NEW rank, Ranks(rank, ds),
           NEW d \in DecisionRecord, d.supersedes = <<>>, d.id \notin Ids(ds)
    PROVE  \E higher : Ranks(higher, Append(ds, d))
<1>. DEFINE n == Append(ds, d)
            higher == [x \in Ids(n) |-> IF x = d.id THEN 0 ELSE rank[x]]
<1>1. /\ Len(n) = Len(ds) + 1 /\ n[Len(ds) + 1] = d /\ \A i \in 1..Len(ds) : n[i] = ds[i]
      /\ Len(ds) \in Nat
  OBVIOUS
<1>. HIDE DEF n
<1>2. \A i \in 1..Len(n) : i \in 1..Len(ds) \/ n[i] = d
  BY <1>1
<1>3. \A x \in Ids(n) : x = d.id \/ x \in Ids(ds)
  BY <1>1, <1>2 DEF Ids
<1>4. higher \in [Ids(n) -> Nat]
  BY <1>3 DEF Ranks
<1>5. ASSUME NEW i \in 1..Len(n), NEW y \in Ids(n), Contains(n[i].supersedes, y)
      PROVE  higher[y] < higher[n[i].id]
  <2>1. n[i] # d
    BY <1>5 DEF Contains
  <2>2. i \in 1..Len(ds) /\ n[i] = ds[i]
    BY <1>1, <1>2, <2>1
  <2>3. y \in Ids(ds) /\ ds[i].id \in Ids(ds)
    BY <1>5, <2>2 DEF WellLinked, Ids
  <2>4. rank[y] < rank[ds[i].id]
    BY <1>5, <2>2, <2>3 DEF Ranks
  <2>5. ds[i].id \in Ids(n)
    BY <1>1, <2>2 DEF Ids
  <2>6. higher[y] = rank[y] /\ higher[n[i].id] = rank[ds[i].id]
    BY <2>2, <2>3, <2>5
  <2>. QED  BY <2>4, <2>6
<1>. HIDE DEF higher
<1>6. Ranks(higher, n)
  BY <1>4, <1>5 DEF Ranks
<1>. QED  BY <1>6 DEF n

\* Gate 8 lets b supersede a when b is an accepted decision: nothing supersedes it
\* yet, so that b may rank above everything it now supersedes.
LEMMA RanksSupersede ==
    ASSUME NEW ds \in Seq(DecisionRecord), WellLinked(ds, Ids(ds)), NEW rank, Ranks(rank, ds),
           NEW op, op.recordId \in Nat, op.successorRecordId \in Nat,
           op.recordId \in Ids(ds), op.recordId # op.successorRecordId,
           NEW at \in 1..Len(ds), ds[at].id = op.successorRecordId, ds[at].status = "Accepted"
    PROVE  \E higher : Ranks(higher, SupersedeDecision(ds, op))
<1>. DEFINE n == SupersedeDecision(ds, op)
            a == op.recordId
            b == op.successorRecordId
            higher == [x \in Ids(ds) |-> IF x = b THEN rank[a] + rank[b] + 1 ELSE rank[x]]
<1>1. /\ Len(n) = Len(ds) /\ Len(ds) \in Nat
      /\ \A i \in 1..Len(ds) :
           /\ n[i].id = ds[i].id
           /\ n[i].supersedes = IF ds[i].id = b THEN Append(ds[i].supersedes, a)
                                ELSE ds[i].supersedes
  BY SupersedeFacts
<1>2. ASSUME NEW i \in 1..Len(ds)
      PROVE  \A x : Contains(Append(ds[i].supersedes, a), x)
                      <=> Contains(ds[i].supersedes, x) \/ x = a
  <2>1. ds[i] \in DecisionRecord
    OBVIOUS
  <2>2. ds[i].supersedes \in Seq(Nat)
    BY <2>1 DEF DecisionRecord
  <2>3. \A e \in Nat : \A x : Contains(Append(ds[i].supersedes, e), x)
                                <=> Contains(ds[i].supersedes, x) \/ x = e
    BY <2>2, AppendedLink
  <2>. QED  BY <2>3
<1>3. a \in Ids(ds) /\ b \in Ids(ds) /\ a # b
  BY DEF Ids
<1>. HIDE DEF n, a, b
<1>4. Ids(n) = Ids(ds)
  BY <1>1 DEF Ids
<1>5. \A x \in Ids(ds) : rank[x] \in Nat
  BY DEF Ranks
<1>6. higher \in [Ids(ds) -> Nat]
  BY <1>3, <1>5
<1>7. \A i \in 1..Len(ds) : ~Contains(ds[i].supersedes, b)
  <2>1. ds[at].status # "Superseded"
    OBVIOUS
  <2>2. ds[at].supersededBy = <<>>
    BY <2>1 DEF WellLinked
  <2>3. \A x : ~Contains(ds[at].supersededBy, x)
    BY <2>2 DEF Contains
  <2>. QED  BY <2>3 DEF WellLinked, b
<1>8. ASSUME NEW i \in 1..Len(ds), NEW y \in Ids(ds), Contains(n[i].supersedes, y)
      PROVE  higher[y] < higher[ds[i].id]
  <2>1. ds[i].id \in Ids(ds)
    BY DEF Ids
  <2>2. Contains(ds[i].supersedes, y) \/ (ds[i].id = b /\ y = a)
    BY <1>1, <1>2, <1>8
  <2>3. y # b
    BY <1>3, <1>7, <2>2
  <2>4. higher[y] = rank[y]
    BY <2>3
  <2>5. CASE ds[i].id = b
    <3>1. higher[ds[i].id] = rank[a] + rank[b] + 1
      BY <2>1, <2>5
    <3>2. rank[y] < rank[b] \/ y = a
      BY <2>2, <2>5 DEF Ranks
    <3>3. rank[y] \in Nat /\ rank[a] \in Nat /\ rank[b] \in Nat
      BY <1>3, <1>5
    <3>. HIDE DEF higher
    <3>. QED  BY <2>4, <3>1, <3>2, <3>3
  <2>6. CASE ds[i].id # b
    <3>1. higher[ds[i].id] = rank[ds[i].id]
      BY <2>1, <2>6
    <3>2. rank[y] < rank[ds[i].id]
      BY <2>2, <2>6 DEF Ranks
    <3>. QED  BY <2>4, <3>1, <3>2
  <2>. QED  BY <2>5, <2>6
<1>. HIDE DEF higher
<1>9. Ranks(higher, n)
  BY <1>1, <1>4, <1>6, <1>8 DEF Ranks
<1>. QED  BY <1>9 DEF n

\* One admitted operation keeps a ranking.
LEMMA RanksStep ==
    ASSUME NEW t \in Tree, NEW op \in Operation, NEW ref \in Texts, InvariantOK(t, op),
           WellLinked(t.decisions, Ids(t.decisions)), \E rank : Ranks(rank, t.decisions)
    PROVE  \E rank : Ranks(rank, ApplyOp(t, op, ref).decisions)
<1>. DEFINE ds == t.decisions
<1>1. ds \in Seq(DecisionRecord)
  BY DEF Tree
<1>2. PICK rank : Ranks(rank, ds)
  OBVIOUS
<1>3. ApplyOp(t, op, ref).decisions = AppliedToDecisions(t, op, ref)
  BY AppliedFields
<1>4. CASE op.kind = "AppendDecision"
  <2>1. NewDecision(op, ref) \in DecisionRecord
    <3>1. op.title \in Texts /\ op.payload \in Texts
      BY DEF Operation
    <3>2. op.recordId \in Nat \ {0}
      BY <1>4, AdmittedIds
    <3>3. <<>> \in Seq(Nat)
      OBVIOUS
    <3>. QED  BY <3>1, <3>2, <3>3 DEF DecisionRecord, NewDecision
  <2>2. findFirst(ds, op.recordId) = <<>>
    BY <1>4 DEF InvariantOK, AppendDecisionOK, findDecision
  <2>3. NewDecision(op, ref).id \notin Ids(ds) /\ NewDecision(op, ref).supersedes = <<>>
    BY <1>1, <2>2, FindNothing DEF NewDecision, Ids
  <2>4. \E higher : Ranks(higher, Append(ds, NewDecision(op, ref)))
    BY <1>1, <1>2, <2>1, <2>3, RanksAppend
  <2>. QED  BY <1>3, <1>4, <2>4 DEF AppliedToDecisions
<1>5. CASE op.kind = "SupersedeDecision"
  <2>1. /\ findFirst(ds, op.recordId) # <<>> /\ findFirst(ds, op.successorRecordId) # <<>>
        /\ findFirst(ds, op.successorRecordId)[1].status = "Accepted"
        /\ op.recordId # op.successorRecordId
    BY <1>5 DEF InvariantOK, SupersedeDecisionOK, findDecision
  <2>2. op.recordId \in Nat /\ op.successorRecordId \in Nat
    BY <1>5, AdmittedIds
  <2>3. op.recordId \in Ids(ds)
    BY <1>1, <2>1, FindFirst DEF Ids
  <2>4. PICK at \in 1..Len(ds) :
             /\ findFirst(ds, op.successorRecordId) = <<ds[at]>>
             /\ ds[at].id = op.successorRecordId
    BY <1>1, <2>1, FindFirst
  <2>5. <<ds[at]>>[1] = ds[at]
    OBVIOUS
  <2>6. ds[at].status = "Accepted"
    BY <2>1, <2>4, <2>5
  <2>7. \E higher : Ranks(higher, SupersedeDecision(ds, op))
    BY <1>1, <1>2, <2>1, <2>2, <2>3, <2>4, <2>6, RanksSupersede
  <2>. QED  BY <1>3, <1>5, <2>7 DEF AppliedToDecisions
<1>6. CASE op.kind \notin {"AppendDecision", "SupersedeDecision"}
  BY <1>2, <1>3, <1>6 DEF AppliedToDecisions
<1>. QED  BY <1>4, <1>5, <1>6

RankedOneByOne == pool.size = 1 => \E rank : Ranks(rank, tree.decisions)

\* Among ranked decisions, those of least rank supersede none of the others.
LEMMA RankedIsAcyclic ==
    ASSUME TypeOK, NEW rank, Ranks(rank, tree.decisions)
    PROVE  AcyclicSupersession
<1>. DEFINE ds == tree.decisions
<1>1. ds \in Seq(DecisionRecord)
  BY Zenon DEF TypeOK, Tree
<1>2. DecisionIds(tree) = Ids(ds)
  BY <1>1 DEF DecisionIds, Ids, ToSet
<1>. SUFFICES ASSUME NEW some \in SUBSET Ids(ds), some # {}
              PROVE  \E x \in some : \A y \in some : <<x, y>> \notin SupersessionGraph(tree).edge
  BY <1>2, Zenon DEF AcyclicSupersession
<1>3. \A x \in some : rank[x] \in Nat
  BY DEF Ranks
<1>. DEFINE heights == {rank[x] : x \in some}
<1>4. heights \subseteq Nat /\ heights # {}
  BY <1>3
<1>5. PICK low \in heights : \A h \in heights : low <= h
  <2>. HIDE DEF heights
  <2>. QED  BY <1>4, LeastElement
<1>6. PICK x \in some : rank[x] = low
  OBVIOUS
<1>7. ASSUME NEW y \in some, <<x, y>> \in SupersessionGraph(tree).edge PROVE FALSE
  <2>1. Contains(findDecision(tree, x)[1].supersedes, y)
    BY <1>7 DEF SupersessionGraph
  <2>2. \E i \in 1..Len(ds) : ds[i].id = x
    BY DEF Ids
  <2>3. PICK i \in 1..Len(ds) : findDecision(tree, x) = <<ds[i]>> /\ ds[i].id = x
    <3>1. ASSUME NEW s \in Seq(DecisionRecord), \E i \in 1..Len(s) : s[i].id = x
          PROVE  \E i \in 1..Len(s) : findFirst(s, x) = <<s[i]>> /\ s[i].id = x
      BY <3>1, FindFirst
    <3>. HIDE DEF ds
    <3>2. \E i \in 1..Len(ds) : findFirst(ds, x) = <<ds[i]>> /\ ds[i].id = x
      BY <1>1, <2>2, <3>1, Zenon
    <3>. QED  BY <3>2, Zenon DEF findDecision, ds
  <2>4. <<ds[i]>>[1] = ds[i]
    OBVIOUS
  <2>5. Contains(ds[i].supersedes, y)
    BY <2>1, <2>3, <2>4
  <2>6. rank[y] < rank[x]
    BY <2>3, <2>5 DEF Ranks
  <2>7. low <= rank[y] /\ rank[y] \in Nat /\ rank[x] \in Nat
    BY <1>3, <1>5
  <2>. QED  BY <1>6, <2>6, <2>7
<1>. QED  BY <1>7

\* AcyclicOneByOne: as long as gate 8 sees the tree that each operation applies to,
\* supersession has no cycle.
THEOREM SupersessionIsAcyclic == Spec => []AcyclicOneByOne
<1>1. Init => RankedOneByOne
  <2>. SUFFICES ASSUME Init PROVE RankedOneByOne
    OBVIOUS
  <2>1. tree.decisions = <<>>
    BY Genesis, Zenon DEF Init
  <2>2. Len(tree.decisions) = 0 /\ Ids(tree.decisions) = {}
    BY <2>1 DEF Ids
  <2>3. Ranks([x \in {} |-> x], tree.decisions)
    BY <2>2 DEF Ranks
  <2>. QED  BY <2>3 DEF RankedOneByOne
<1>2. TypeOK /\ LinksInOrder /\ RankedOneByOne /\ [Next]_vars => RankedOneByOne'
  <2>. SUFFICES ASSUME TypeOK, LinksInOrder, RankedOneByOne, [Next]_vars PROVE RankedOneByOne'
    OBVIOUS
  <2>1. tree \in Tree
    BY Zenon DEF TypeOK
  <2>2. CASE Reload
    <3>1. tree'.decisions = tree.decisions /\ pool' = pool
      BY <2>1, <2>2, ReloadFacts, Zenon DEF Reload
    <3>. QED  BY <3>1, Zenon DEF RankedOneByOne
  <2>3. ASSUME NEW ops \in Transactions, Commit(ops) PROVE RankedOneByOne'
    <3>1. pool' = pool
      BY <2>3, Zenon DEF Commit
    <3>. SUFFICES ASSUME pool.size = 1 PROVE \E rank : Ranks(rank, tree'.decisions)
      BY <3>1, Zenon DEF RankedOneByOne
    <3>2. PICK op \in pool.operations : \E ref \in Texts :
               op \in Operation /\ InvariantOK(tree, op) /\ tree' = ApplyOp(tree, op, ref)
      BY <2>3, CommitOfOne, Zenon
    <3>3. PICK ref \in Texts :
               op \in Operation /\ InvariantOK(tree, op) /\ tree' = ApplyOp(tree, op, ref)
      BY <3>2
    <3>4. \E rank : Ranks(rank, tree.decisions)
      BY Zenon DEF RankedOneByOne
    <3>. QED  BY <2>1, <3>3, <3>4, RanksStep, Zenon DEF LinksInOrder
  <2>4. CASE UNCHANGED vars
    BY <2>4, Zenon DEF vars, RankedOneByOne
  <2>. QED  BY <2>2, <2>3, <2>4 DEF Next
<1>3. TypeOK /\ RankedOneByOne => AcyclicOneByOne
  BY RankedIsAcyclic, Zenon DEF RankedOneByOne, AcyclicOneByOne
<1>. QED  BY <1>1, <1>2, <1>3, TypeCorrect, LinksStayInOrder, PTL DEF Spec
=============================================================================
