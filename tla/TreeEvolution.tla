--------------------------- MODULE TreeEvolution ---------------------------
(***************************************************************************)
(* One cognition tree under a long sequence of admitted transactions and   *)
(* reloads: what the write gate's content rules (gates 6 to 9) guarantee   *)
(* about the tree itself, with lease, identity and store left to           *)
(* QivenContext.  Every transaction carries valid review evidence, so a    *)
(* refusal here is always about content.  The operations come from one     *)
(* pool for the life of a tree, so that one run covers several pools.      *)
(***************************************************************************)
EXTENDS CognitionTree

CONSTANTS Texts,         \* what ids in words, titles and contents may be
          Pools,         \* [operations, size]: what transactions are built from, and
                         \* how many operations one may hold
          MaxTreeRecords \* bound: records in the tree, all lists together

\* One operation of a transaction; what its fields mean depends on the kind.
Operation ==
    [kind : OperationKinds, recordId : Int, successorRecordId : Int, aux : 0..255,
     scope : Seq(Texts), title : Texts, payload : Texts, provenanceRef : Seq(Texts)]

ASSUME TextAssumption == {"", "pr"} \subseteq Texts

ASSUME EvolutionBounds ==
    /\ MaxTreeRecords \in Nat
    /\ \A candidates \in Pools :
          candidates.size \in Nat \ {0} /\ candidates.operations \subseteq Operation

VARIABLES tree,
          pool   \* the pool this tree's transactions are built from
vars == <<tree, pool>>

Author == [principal |-> RootPrincipal, binding |-> "author", servingModel |-> "model"]

Reviewed(ops) ==
    [operations |-> ops, handoffEvidenceRef |-> "pr",
     h2 |-> <<[reviewedDeltaDigest |-> digest_operations(ops), reviewer |-> RootPrincipal,
               reviewerBinding |-> "reviewer", reviewRef |-> "audit"]>>]

Transactions == UNION {[1..n -> pool.operations] : n \in 1..pool.size}

RecordCount(t) ==
    Len(t.decisions) + Len(t.memory) + Len(t.obligations) + Len(t.evidence)
      + Len(t.conflicts) + Len(t.profiles) + Len(t.views)

Init == tree = makeGenesis /\ pool \in Pools

\* Gates 6 to 9 admit the transaction and its successor tree is published.
Commit(ops) ==
    /\ ContentGates(tree, Reviewed(ops), Author, tree.rootPrincipal) = "None"
    /\ RecordCount(ApplyTx(tree, Reviewed(ops))) <= MaxTreeRecords
    /\ tree' = ApplyTx(tree, Reviewed(ops))
    /\ UNCHANGED pool

\* A later materialization of the stored bytes replaces the live tree.
Reload ==
    /\ DeserializeError(serializeImpl(tree)) = "None"
    /\ tree' = deserializeImpl(serializeImpl(tree))
    /\ UNCHANGED pool

Next == Reload \/ \E ops \in Transactions : Commit(ops)

Spec == Init /\ [][Next]_vars

---------------------------------------------------------------------------
(* Properties. *)

Distinct(records) == \A i, j \in DOMAIN records : records[i].id = records[j].id => i = j

DecisionRecord ==
    [id : Nat \ {0}, status : {"Accepted", "Superseded"}, title : Texts, content : Texts,
     supersedes : Seq(Nat), supersededBy : Seq(Nat), provenance : Texts]

MemoryRecord ==
    [kind : ToSet(MemoryKind), epistemic : {"Verified", "Observation"}, title : Texts,
     statement : Texts, provenance : Seq(Texts)]

ObligationRecord ==
    [id : Nat \ {0}, status : ToSet(ObligationStatus) \ {"Blocked"}, statement : Texts,
     completionCriteria : Texts]

EvidenceRecord == [boundTo : Texts, content : Texts]

ConflictRecord ==
    [id : Texts, status : {"Open", "Resolved"}, scope : Seq(Texts), description : Texts,
     resolution : Texts]

ProfileRecord == [id : Texts, kind : Seq(Texts), summary : Texts]

ViewRecord ==
    [id : Texts, agent : Texts, human : Seq(Texts), summary : Texts,
     profileRefs : Seq(Texts)]

Tree ==
    [rootPrincipal : {RootPrincipal}, policy : {"default"}, current : Texts,
     nextBoundaryRef : {ref \in Seq(Nat \ {0}) : Len(ref) <= 1},
     decisions : Seq(DecisionRecord), memory : Seq(MemoryRecord),
     obligations : Seq(ObligationRecord),
     evidence : Seq(EvidenceRecord), conflicts : Seq(ConflictRecord),
     profiles : Seq(ProfileRecord), views : Seq(ViewRecord)]

\* The tree is a snapshot with the records of cognition.hpp, which hold only the
\* statuses and kinds that some admitted operation can put there.
TypeOK == tree \in Tree /\ pool \in Pools

\* The two sides of a supersession agree: x names y as superseded exactly when y
\* names x as its successor (the push_back pair of SupersedeDecision), however
\* many supersessions one transaction performs.
ReciprocalSupersession ==
    \A x, y \in ToSet(tree.decisions) :
       Contains(x.supersedes, y.id) <=> Contains(y.supersededBy, x.id)

\* A decision is Superseded exactly when something superseded it.
StatusMatchesHistory ==
    \A d \in ToSet(tree.decisions) : (d.status = "Superseded") <=> (d.supersededBy # <<>>)

\* Supersession has no cycle (the P-36 check in gate 8), so walking it ends: among
\* any decisions there is one that supersedes none of them.
AcyclicSupersession ==
    \A some \in (SUBSET DecisionIds(tree)) \ {{}} :
       \E x \in some : \A y \in some : <<x, y>> \notin SupersessionGraph(tree).edge

\* Gate 8 is right about a single operation: without longer transactions,
\* supersession has no cycle.
AcyclicOneByOne == pool.size = 1 => AcyclicSupersession

\* Views are only added (aux 0) and retired (aux 1).
PlainViews == \A op \in pool.operations : op.kind = "AmendViewSpec" => op.aux \in {0, 1}

\* Likewise, decision, conflict, profile and view ids are never reused; a view id
\* can be by an amendment with another aux, which gate 8 does not look at.
UniqueIdsOneByOne ==
    pool.size = 1 =>
       /\ Distinct(tree.decisions) /\ Distinct(tree.conflicts)
       /\ Distinct(tree.profiles) /\ (PlainViews => Distinct(tree.views))

\* DR-006: an operation blocked by one open conflict is admitted by gate 7 in a
\* transaction that also performs that conflict's resolution.
ResolvingTransactionIsAdmitted ==
    \A op \in pool.operations, res \in pool.operations :
       /\ res.kind = "ResolveConflict"
       /\ InvariantOK(tree, res)
       /\ Blocked(tree, op)
       /\ ~Blocked(ApplyOp(tree, res, ""), op)
       => ConflictGate(tree, Reviewed(<<res, op>>)) = "None"

\* History is not overwritten: no transaction removes or rewrites a decision, its
\* links only grow, and it never leaves Superseded.
HistoryIsKept ==
    [][/\ Len(tree.decisions) <= Len(tree'.decisions)
       /\ \A i \in DOMAIN tree.decisions :
             LET old == tree.decisions[i]
                 new == tree'.decisions[i]
             IN  /\ <<old.id, old.title, old.content, old.provenance>>
                      = <<new.id, new.title, new.content, new.provenance>>
                 /\ IsPrefix(old.supersedes, new.supersedes)
                 /\ IsPrefix(old.supersededBy, new.supersededBy)
                 /\ old.status = "Superseded" => new.status = "Superseded"]_vars

\* The open obligation that a close by id means can be a later one than the first
\* of its id, which is the one that is marked.
ClosedForAnother(obligations, i) ==
    /\ \A k \in DOMAIN obligations : obligations[k].id = obligations[i].id => i <= k
    /\ \E j \in DOMAIN obligations : /\ obligations[j].id = obligations[i].id
                                    /\ obligations[j].status = "Open"

\* Finished work stays as it was finished: an obligation that is Done, Cancelled or
\* Superseded keeps its status, text and criteria, although ids repeat and a
\* transition rewrites every obligation with its id.  The exception is the close of
\* an id whose open work comes after a finished first: that first one becomes Done.
TerminalObligationsStay ==
    [][\A i \in DOMAIN tree.obligations :
          LET old == tree.obligations[i]
              new == tree'.obligations[i]
          IN  old.status \in {"Done", "Cancelled", "Superseded"} =>
                 \/ new = old
                 \/ /\ ClosedForAnother(tree.obligations, i)
                    /\ new = [old EXCEPT !.status = "Done"]]_vars

\* The next boundary is standing work: what a transaction leaves it naming was open
\* before that transaction and is open after it, so no transaction binds the
\* boundary to work that it opens or finishes itself, in any order of upserts,
\* closes, transitions and bindings (gate 8 looks at the tree before, gate 9 at the
\* tree after).  Only where ids repeat can it pass from one obligation to another
\* of the same id.
BoundaryIsStandingWork ==
    [][\A ref \in ToSet(tree'.nextBoundaryRef) :
          \E i \in DOMAIN tree.obligations, j \in DOMAIN tree'.obligations :
             /\ tree.obligations[i].id = ref /\ tree.obligations[i].status = "Open"
             /\ tree'.obligations[j].id = ref /\ tree'.obligations[j].status = "Open"
             /\ i = j \/ ~Distinct(tree'.obligations)]_vars

\* A conflict's resolution is permanent: no later transaction reopens it or
\* changes its resolution text.
ResolutionIsPermanent ==
    [][\A i \in DOMAIN tree.conflicts :
          tree.conflicts[i].status = "Resolved" => tree'.conflicts[i] = tree.conflicts[i]]_vars

\* Epistemic types never collapse: a memory record keeps the type it was stored
\* with, across transactions and reloads (constitution article 8).
EpistemicTypeIsKept ==
    [][\A i \in DOMAIN tree.memory :
          tree'.memory[i].epistemic = tree.memory[i].epistemic]_vars
=============================================================================
