----------------------- MODULE QivenContextRefinement ----------------------
(***************************************************************************)
(* The service implements CanonicalHistory: whatever it does to a store is *)
(* the genesis or an admissible transaction on what the store held, or     *)
(* leaves the store alone.  A write judges and changes the tree its handle *)
(* shows, the abstract history the tree that is read back; the two differ  *)
(* in a field that no gate reads and no operation carries into what is     *)
(* written (Alike), and a transaction keeps them alike.                    *)
(* Two consequences of what the stores hold: every stored tree is governed *)
(* as its genesis was, and an applied verdict names a successor that shows *)
(* the delta it was asked for, also when it answers a replayed key.        *)
(***************************************************************************)
EXTENDS QivenContextSafety, QivenContextHistory, CognitionTreeProofs

---------------------------------------------------------------------------
(* Trees that are written alike. *)

TreeFields == DOMAIN makeGenesis

Bare(records) == [i \in DOMAIN records |-> WithoutField(records[i], "epistemic")]

\* A record with a snapshot's fields, whose memory is a list.
IsTree(t) == t = [f \in TreeFields |-> t[f]] /\ IsSequence(t.memory)

\* Trees that differ in the epistemic types of their memory at most.
Alike(a, b) ==
    /\ IsTree(a) /\ IsTree(b)
    /\ \A f \in TreeFields \ {"memory"} : a[f] = b[f]
    /\ Bare(a.memory) = Bare(b.memory)

\* The fields of a snapshot.
LEMMA Fields ==
    TreeFields = {"rootPrincipal", "policy", "current", "nextBoundaryRef", "decisions",
                  "memory", "obligations", "evidence", "conflicts", "profiles", "views"}
  BY DEF TreeFields, makeGenesis

\* Alike trees are written to the same bytes.
LEMMA AlikeIsWrittenAlike ==
    ASSUME NEW a, NEW b, Alike(a, b)
    PROVE  serializeImpl(a) = serializeImpl(b)
<1>1. [a EXCEPT !.memory = Bare(a.memory)] = [b EXCEPT !.memory = Bare(b.memory)]
  <2>1. /\ a = [f \in TreeFields |-> a[f]] /\ b = [f \in TreeFields |-> b[f]]
        /\ \A f \in TreeFields \ {"memory"} : a[f] = b[f]
        /\ Bare(a.memory) = Bare(b.memory)
    BY DEF Alike, IsTree
  <2>2. DOMAIN a = TreeFields /\ DOMAIN b = TreeFields
    BY <2>1
  <2>. QED  BY <2>1, <2>2
<1>. QED  BY <1>1 DEF serializeImpl, Bare

\* Trees that are written to the same bytes are alike.
LEMMA WrittenAlikeIsAlike ==
    ASSUME NEW a, NEW b, IsTree(a), IsTree(b), serializeImpl(a) = serializeImpl(b)
    PROVE  Alike(a, b)
<1>. DEFINE wa == [a EXCEPT !.memory = Bare(a.memory)]
            wb == [b EXCEPT !.memory = Bare(b.memory)]
<1>1. serializeImpl(a).body = wa /\ serializeImpl(b).body = wb
  BY DEF serializeImpl, Bare
<1>2. DOMAIN a = TreeFields /\ DOMAIN b = TreeFields /\ "memory" \in TreeFields
  BY Fields DEF IsTree
<1>3. /\ \A f \in TreeFields \ {"memory"} : wa[f] = a[f] /\ wb[f] = b[f]
      /\ wa.memory = Bare(a.memory) /\ wb.memory = Bare(b.memory)
  BY <1>2
<1>. HIDE DEF wa, wb
<1>. QED  BY <1>1, <1>3 DEF Alike

\* What is read back from a tree's bytes is a tree like it.
LEMMA ReadBackIsAlike ==
    ASSUME NEW a, IsTree(a)
    PROVE  Alike(a, deserializeImpl(serializeImpl(a)))
<1>. DEFINE body == serializeImpl(a).body
            b == deserializeImpl(serializeImpl(a))
            full == [i \in DOMAIN body.memory |->
                       WithField(body.memory[i], "epistemic", "Observation")]
<1>1. DOMAIN a = TreeFields /\ "memory" \in TreeFields /\ IsSequence(a.memory)
  BY Fields DEF IsTree
<1>2. /\ body = [f \in TreeFields |-> IF f = "memory" THEN Bare(a.memory) ELSE a[f]]
      /\ body.memory = Bare(a.memory)
  BY <1>1 DEF serializeImpl, Bare
<1>3. b = [f \in TreeFields |-> IF f = "memory" THEN full ELSE a[f]]
  <2>. HIDE DEF full
  <2>1. b = [body EXCEPT !.memory = full]
    BY DEF deserializeImpl, full
  <2>. HIDE DEF body, b
  <2>. QED  BY <1>2, <2>1
<1>4. DOMAIN full = 1..Len(a.memory) /\ Len(a.memory) \in Nat /\ DOMAIN a.memory = 1..Len(a.memory)
  <2>1. DOMAIN a.memory = 1..Len(a.memory) /\ Len(a.memory) \in Nat
    BY <1>1, SequenceFacts
  <2>2. DOMAIN Bare(a.memory) = DOMAIN a.memory
    BY DEF Bare
  <2>. HIDE DEF body
  <2>. QED  BY <1>2, <2>1, <2>2
<1>5. IsSequence(full)
  <2>. HIDE DEF full
  <2>. DEFINE n == Len(a.memory)
              f2 == [i \in 1..n |-> full[i]]
  <2>1. full = f2
    BY <1>4 DEF full
  <2>2. \A i \in 1..n : full[i] \in Range(full)
    BY <1>4 DEF Range
  <2>. QED  BY <1>4, <2>1, <2>2 DEF IsSequence
<1>6. Bare(full) = Bare(a.memory)
  <2>. DEFINE m == a.memory
  <2>1. ASSUME NEW i \in DOMAIN m
        PROVE  WithoutField(full[i], "epistemic") = WithoutField(m[i], "epistemic")
    <3>1. full[i] = WithField(WithoutField(m[i], "epistemic"), "epistemic", "Observation")
      BY <1>2, <1>4, <2>1 DEF Bare
    <3>. QED  BY <3>1, FieldDropped
  <2>. HIDE DEF full
  <2>. QED  BY <1>4, <2>1 DEF Bare
<1>7. IsTree(b) /\ b.memory = full /\ \A f \in TreeFields \ {"memory"} : a[f] = b[f]
  <2>. HIDE DEF full, b
  <2>. QED  BY <1>1, <1>3, <1>5 DEF IsTree
<1>. HIDE DEF full, b
<1>8. Alike(a, b)
  BY <1>6, <1>7 DEF Alike
<1>. QED  BY <1>8 DEF b

---------------------------------------------------------------------------
(* Operations and transactions keep trees alike. *)

\* Setting the same field, the memory excepted, to the same value.
LEMMA SettingKeepsAlike ==
    ASSUME NEW a, NEW b, Alike(a, b), NEW f \in TreeFields \ {"memory"}, NEW x
    PROVE  Alike([a EXCEPT ![f] = x], [b EXCEPT ![f] = x])
<1>. DEFINE a2 == [a EXCEPT ![f] = x]
            b2 == [b EXCEPT ![f] = x]
<1>1. DOMAIN a = TreeFields /\ DOMAIN b = TreeFields /\ "memory" \in TreeFields
  BY Fields DEF Alike, IsTree
<1>2. /\ a2 = [g \in TreeFields |-> a2[g]] /\ b2 = [g \in TreeFields |-> b2[g]]
      /\ a2.memory = a.memory /\ b2.memory = b.memory
      /\ \A g \in TreeFields \ {"memory"} : a2[g] = (IF g = f THEN x ELSE a[g])
                                          /\ b2[g] = (IF g = f THEN x ELSE b[g])
  BY <1>1
<1>. HIDE DEF a2, b2
<1>. QED  BY <1>2 DEF Alike, IsTree

\* Remembering the same record.
LEMMA RememberingKeepsAlike ==
    ASSUME NEW a, NEW b, Alike(a, b), NEW m
    PROVE  Alike([a EXCEPT !.memory = Append(@, m)], [b EXCEPT !.memory = Append(@, m)])
<1>. DEFINE a2 == [a EXCEPT !.memory = Append(@, m)]
            b2 == [b EXCEPT !.memory = Append(@, m)]
<1>1. DOMAIN a = TreeFields /\ DOMAIN b = TreeFields /\ "memory" \in TreeFields
  BY Fields DEF Alike, IsTree
<1>2. /\ a2 = [g \in TreeFields |-> a2[g]] /\ b2 = [g \in TreeFields |-> b2[g]]
      /\ a2.memory = Append(a.memory, m) /\ b2.memory = Append(b.memory, m)
      /\ \A g \in TreeFields \ {"memory"} : a2[g] = a[g] /\ b2[g] = b[g]
  BY <1>1
<1>. HIDE DEF a2, b2
<1>3. /\ IsSequence(a.memory) /\ IsSequence(b.memory) /\ Bare(a.memory) = Bare(b.memory)
      /\ DOMAIN a.memory = DOMAIN b.memory
  BY DEF Alike, IsTree, Bare
<1>4. ASSUME NEW s, IsSequence(s)
      PROVE  /\ IsSequence(Append(s, m)) /\ DOMAIN Append(s, m) = 1..Len(s) + 1
             /\ Bare(Append(s, m)) = [i \in 1..Len(s) + 1 |->
                    IF i = Len(s) + 1 THEN WithoutField(m, "epistemic") ELSE Bare(s)[i]]
  <2>1. /\ IsSequence(Append(s, m)) /\ DOMAIN Append(s, m) = 1..Len(s) + 1
        /\ Append(s, m)[Len(s) + 1] = m
        /\ \A i \in 1..Len(s) : Append(s, m)[i] = s[i]
        /\ DOMAIN s = 1..Len(s) /\ Len(s) \in Nat
    BY <1>4, AppendFacts, SequenceFacts
  <2>2. \A i \in 1..Len(s) + 1 : i = Len(s) + 1 \/ i \in 1..Len(s)
    BY <2>1
  <2>. QED  BY <2>1, <2>2 DEF Bare
<1>5. Len(a.memory) = Len(b.memory)
  <2>1. /\ DOMAIN a.memory = 1..Len(a.memory) /\ Len(a.memory) \in Nat
        /\ DOMAIN b.memory = 1..Len(b.memory) /\ Len(b.memory) \in Nat
    BY <1>3, SequenceFacts
  <2>2. ASSUME NEW i \in Nat, NEW j \in Nat, 1..i = 1..j PROVE i <= j
    <3>1. CASE i = 0
      BY <3>1
    <3>2. CASE i # 0
      <4>1. i \in 1..i
        BY <3>2
      <4>. QED  BY <4>1, <2>2
    <3>. QED  BY <3>1, <3>2
  <2>. DEFINE i == Len(a.memory)
              j == Len(b.memory)
  <2>3. i \in Nat /\ j \in Nat /\ 1..i = 1..j
    BY <1>3, <2>1
  <2>. HIDE DEF i, j
  <2>4. i <= j /\ j <= i
    BY <2>2, <2>3
  <2>. QED  BY <2>3, <2>4 DEF i, j
<1>6. Bare(a2.memory) = Bare(b2.memory) /\ IsSequence(a2.memory) /\ IsSequence(b2.memory)
  <2>. DEFINE ma == a.memory
              mb == b.memory
  <2>1. /\ IsSequence(ma) /\ IsSequence(mb) /\ Bare(ma) = Bare(mb) /\ Len(ma) = Len(mb)
        /\ a2.memory = Append(ma, m) /\ b2.memory = Append(mb, m)
    BY <1>2, <1>3, <1>5
  <2>. HIDE DEF ma, mb
  <2>2. IsSequence(Append(ma, m)) /\ IsSequence(Append(mb, m))
    BY <1>4, <2>1
  <2>3. Bare(Append(ma, m)) = [i \in 1..Len(ma) + 1 |->
                    IF i = Len(ma) + 1 THEN WithoutField(m, "epistemic") ELSE Bare(ma)[i]]
    BY <1>4, <2>1
  <2>4. Bare(Append(mb, m)) = [i \in 1..Len(mb) + 1 |->
                    IF i = Len(mb) + 1 THEN WithoutField(m, "epistemic") ELSE Bare(mb)[i]]
    BY <1>4, <2>1
  <2>. QED  BY <2>1, <2>2, <2>3, <2>4
<1>7. Alike(a2, b2)
  BY <1>2, <1>6 DEF Alike, IsTree
<1>. QED  BY <1>7 DEF a2, b2

\* One operation, whatever its kind: what it writes into a field comes from that
\* field, from itself and from the transaction's review evidence.
LEMMA OperationKeepsAlike ==
    ASSUME NEW a, NEW b, Alike(a, b), NEW op, op.kind \in OperationKinds, NEW ref
    PROVE  Alike(ApplyOp(a, op, ref), ApplyOp(b, op, ref))
<1>1. /\ a.decisions = b.decisions /\ a.obligations = b.obligations /\ a.evidence = b.evidence
      /\ a.conflicts = b.conflicts /\ a.profiles = b.profiles /\ a.views = b.views
  BY Fields DEF Alike
<1>2. ASSUME NEW f \in {"current", "nextBoundaryRef", "decisions", "obligations", "evidence",
                        "conflicts", "profiles", "views"}, NEW x,
             ApplyOp(a, op, ref) = [a EXCEPT ![f] = x], ApplyOp(b, op, ref) = [b EXCEPT ![f] = x]
      PROVE  Alike(ApplyOp(a, op, ref), ApplyOp(b, op, ref))
  <2>1. f \in TreeFields \ {"memory"}
    BY Fields
  <2>2. Alike([a EXCEPT ![f] = x], [b EXCEPT ![f] = x])
    BY <2>1, SettingKeepsAlike
  <2>. QED  BY <1>2, <2>2, Zenon
<1>3. CASE op.kind = "AppendDecision"
  BY <1>1, <1>2, <1>3 DEF ApplyOp
<1>4. CASE op.kind = "SupersedeDecision"
  <2>. DEFINE x == SupersedeDecision(a.decisions, op)
  <2>1. ApplyOp(a, op, ref) = [a EXCEPT !.decisions = x]
    BY <1>4 DEF ApplyOp
  <2>2. ApplyOp(b, op, ref) = [b EXCEPT !.decisions = x]
    BY <1>1, <1>4 DEF ApplyOp
  <2>. HIDE DEF x
  <2>. QED  BY <1>2, <2>1, <2>2
<1>5. CASE op.kind = "AddMemory"
  <2>1. /\ ApplyOp(a, op, ref) = [a EXCEPT !.memory = Append(@, NewMemory(op))]
        /\ ApplyOp(b, op, ref) = [b EXCEPT !.memory = Append(@, NewMemory(op))]
    BY <1>5 DEF ApplyOp
  <2>2. Alike([a EXCEPT !.memory = Append(@, NewMemory(op))],
              [b EXCEPT !.memory = Append(@, NewMemory(op))])
    BY RememberingKeepsAlike
  <2>. QED  BY <2>1, <2>2, Zenon
<1>6. CASE op.kind = "UpsertObligation"
  BY <1>1, <1>2, <1>6 DEF ApplyOp
<1>7. CASE op.kind = "CloseObligation"
  BY <1>1, <1>2, <1>7 DEF ApplyOp
<1>8. CASE op.kind = "TransitionObligation"
  BY <1>1, <1>2, <1>8 DEF ApplyOp
<1>9. CASE op.kind = "UpdateState"
  BY <1>1, <1>2, <1>9 DEF ApplyOp
<1>10. CASE op.kind = "AddEvidence"
  BY <1>1, <1>2, <1>10 DEF ApplyOp
<1>11. CASE op.kind = "UpsertProfile"
  BY <1>1, <1>2, <1>11 DEF ApplyOp
<1>12. CASE op.kind = "OpenConflict"
  BY <1>1, <1>2, <1>12 DEF ApplyOp
<1>13. CASE op.kind = "ResolveConflict"
  BY <1>1, <1>2, <1>13 DEF ApplyOp
<1>14. CASE op.kind = "AmendViewSpec"
  BY <1>1, <1>2, <1>14 DEF ApplyOp
<1>15. CASE op.kind = "SetNextBoundary"
  BY <1>1, <1>2, <1>15 DEF ApplyOp
<1>. QED
  BY <1>3, <1>4, <1>5, <1>6, <1>7, <1>8, <1>9, <1>10, <1>11, <1>12, <1>13, <1>14, <1>15
     DEF OperationKinds

\* What a request asks for, whatever it is based on.
SameRequest(tx, other) ==
    /\ tx.operations = other.operations /\ tx.h2 = other.h2
    /\ tx.handoffEvidenceRef = other.handoffEvidenceRef

IsRequest(tx) ==
    /\ Len(tx.operations) \in Nat /\ DOMAIN tx.operations = 1..Len(tx.operations)
    /\ \A i \in DOMAIN tx.operations : tx.operations[i].kind \in OperationKinds

\* One request, to trees that are alike.
LEMMA RequestKeepsAlike ==
    ASSUME NEW a, NEW b, Alike(a, b), NEW tx, NEW other, IsRequest(tx), SameRequest(tx, other)
    PROVE  Alike(ApplyTx(a, tx), ApplyTx(b, other))
<1>. DEFINE ops == tx.operations
            ref == tx.handoffEvidenceRef
            len == Len(ops)
<1>1. /\ len \in Nat /\ \A n \in 1..len : ops[n].kind \in OperationKinds
      /\ other.operations = ops /\ other.handoffEvidenceRef = ref
  BY DEF IsRequest, SameRequest
<1>2. PICK f : /\ f[0] = a /\ f[len] = ApplyTx(a, tx)
               /\ \A n \in 1..len : f[n] = ApplyOp(f[n - 1], ops[n], ref)
  BY <1>1, ApplyTxSteps, SMTT(30)
<1>3. PICK g : /\ g[0] = b /\ g[len] = ApplyTx(b, other)
               /\ \A n \in 1..len : g[n] = ApplyOp(g[n - 1], ops[n], ref)
  BY <1>1, ApplyTxSteps, SMTT(30)
<1>. DEFINE Good == {n \in Nat : n \in 0..len => Alike(f[n], g[n])}
<1>4. 0 \in Good
  BY <1>2, <1>3
<1>5. ASSUME NEW n \in Nat, n \in Good PROVE n + 1 \in Good
  <2>. SUFFICES ASSUME n + 1 \in 0..len PROVE Alike(f[n + 1], g[n + 1])
    OBVIOUS
  <2>1. Alike(f[n], g[n]) /\ n + 1 \in 1..len /\ (n + 1) - 1 = n
    BY <1>1, <1>5
  <2>2. /\ f[n + 1] = ApplyOp(f[n], ops[n + 1], ref) /\ g[n + 1] = ApplyOp(g[n], ops[n + 1], ref)
        /\ ops[n + 1].kind \in OperationKinds
    BY <1>1, <1>2, <1>3, <2>1
  <2>. QED  BY <2>1, <2>2, OperationKeepsAlike
<1>6. len \in Good
  <2>. HIDE DEF Good
  <2>. QED  BY <1>1, <1>4, <1>5, SetInduction
<1>. QED  BY <1>1, <1>2, <1>3, <1>6

---------------------------------------------------------------------------
(* The gates judge trees that are alike the same. *)

\* Lookups and supersession chains do not touch the memory.
LEMMA AlikeLooksUp ==
    ASSUME NEW a, NEW b, Alike(a, b)
    PROVE  /\ PolicyTable(a) = PolicyTable(b)
           /\ a.conflicts = b.conflicts /\ a.obligations = b.obligations
           /\ a.views = b.views /\ a.nextBoundaryRef = b.nextBoundaryRef
           /\ a.rootPrincipal = b.rootPrincipal
           /\ \A id : findDecision(a, id) = findDecision(b, id)
           /\ \A id : findObligation(a, id) = findObligation(b, id)
           /\ \A id : findConflict(a, id) = findConflict(b, id)
           /\ \A id : findProfile(a, id) = findProfile(b, id)
           /\ \A x, y : reachesDecision(a, x, y) <=> reachesDecision(b, x, y)
<1>1. /\ a.decisions = b.decisions /\ a.obligations = b.obligations /\ a.policy = b.policy
      /\ a.conflicts = b.conflicts /\ a.profiles = b.profiles /\ a.views = b.views
      /\ a.nextBoundaryRef = b.nextBoundaryRef /\ a.rootPrincipal = b.rootPrincipal
  BY Fields DEF Alike
<1>2. PolicyTable(a) = PolicyTable(b)
  BY <1>1 DEF PolicyTable
<1>3. \A id : findDecision(a, id) = findDecision(b, id)
  BY <1>1 DEF findDecision
<1>4. /\ \A id : findObligation(a, id) = findObligation(b, id)
      /\ \A id : findConflict(a, id) = findConflict(b, id)
      /\ \A id : findProfile(a, id) = findProfile(b, id)
  BY <1>1 DEF findObligation, findConflict, findProfile
<1>5. DecisionIds(a) = DecisionIds(b)
  BY <1>1 DEF DecisionIds
<1>6. SupersessionGraph(a) = SupersessionGraph(b)
  <2>. DEFINE D == DecisionIds(a)
              edges(t) == {e \in D \X D : Contains(findDecision(t, e[1])[1].supersedes, e[2])}
  <2>1. SupersessionGraph(a) = [node |-> D, edge |-> edges(a)]
    BY DEF SupersessionGraph
  <2>2. SupersessionGraph(b) = [node |-> D, edge |-> edges(b)]
    BY <1>5 DEF SupersessionGraph
  <2>3. \A e : findDecision(a, e[1]) = findDecision(b, e[1])
    BY <1>3
  <2>4. edges(a) = edges(b)
    BY <2>3
  <2>. HIDE DEF edges
  <2>. QED  BY <2>1, <2>2, <2>4
<1>7. \A x, y : reachesDecision(a, x, y) <=> reachesDecision(b, x, y)
  BY <1>5, <1>6, Zenon DEF reachesDecision
<1>. QED  BY <1>1, <1>2, <1>3, <1>4, <1>7

LEMMA InvariantJudgesAlike ==
    ASSUME NEW a, NEW b, Alike(a, b), NEW op, op.kind \in OperationKinds
    PROVE  InvariantOK(a, op) <=> InvariantOK(b, op)
<1>1. CASE op.kind \in {"AppendDecision", "SupersedeDecision"}
  <2>1. AppendDecisionOK(a, op) <=> AppendDecisionOK(b, op)
    BY AlikeLooksUp DEF AppendDecisionOK
  <2>2. SupersedeDecisionOK(a, op) <=> SupersedeDecisionOK(b, op)
    BY AlikeLooksUp DEF SupersedeDecisionOK
  <2>. QED  BY <1>1, <2>1, <2>2 DEF InvariantOK
<1>2. CASE op.kind \in {"AddMemory", "UpsertObligation", "UpdateState", "AddEvidence"}
  BY <1>2 DEF InvariantOK
<1>3. CASE op.kind \in {"CloseObligation", "TransitionObligation", "SetNextBoundary"}
  <2>1. TransitionObligationOK(a, op) <=> TransitionObligationOK(b, op)
    BY AlikeLooksUp DEF TransitionObligationOK
  <2>. QED  BY <1>3, <2>1, AlikeLooksUp DEF InvariantOK
<1>4. CASE op.kind \in {"UpsertProfile", "OpenConflict", "ResolveConflict"}
  BY <1>4, AlikeLooksUp DEF InvariantOK
<1>5. CASE op.kind = "AmendViewSpec"
  <2>1. AmendViewSpecOK(a, op) <=> AmendViewSpecOK(b, op)
    BY AlikeLooksUp DEF AmendViewSpecOK
  <2>. QED  BY <1>5, <2>1 DEF InvariantOK
<1>. QED  BY <1>1, <1>2, <1>3, <1>4, <1>5 DEF OperationKinds

\* The verdict on a request, for the same actor and root principal.
LEMMA GatesJudgeAlike ==
    ASSUME NEW a, NEW b, Alike(a, b), NEW tx, NEW other, IsRequest(tx), SameRequest(tx, other),
           NEW actor, NEW root
    PROVE  ContentGates(a, tx, actor, root) = ContentGates(b, other, actor, root)
<1>1. ToSet(tx.operations) = ToSet(other.operations)
  BY DEF SameRequest
<1>2. \A op \in ToSet(tx.operations) : op.kind \in OperationKinds
  BY DEF IsRequest, ToSet
<1>3. PolicyGate(a, tx, actor, root) = PolicyGate(b, other, actor, root)
  <2>1. H2Gate(tx, actor, root) = H2Gate(other, actor, root)
    BY Zenon DEF SameRequest, H2Gate
  <2>2. PolicyTable(a) = PolicyTable(b) /\ tx.operations = other.operations
    BY AlikeLooksUp DEF SameRequest
  <2>. QED  BY <2>1, <2>2 DEF PolicyGate
<1>4. ConflictGate(a, tx) = ConflictGate(b, other)
  <2>1. \A op : Blocked(a, op) <=> Blocked(b, op)
    BY AlikeLooksUp DEF Blocked
  <2>. QED  BY <1>1, <2>1 DEF ConflictGate
<1>5. InvariantGate(a, tx) = InvariantGate(b, other)
  BY <1>1, <1>2, InvariantJudgesAlike DEF InvariantGate
<1>6. CoherenceGate(ApplyTx(a, tx)) = CoherenceGate(ApplyTx(b, other))
  <2>1. Alike(ApplyTx(a, tx), ApplyTx(b, other))
    BY RequestKeepsAlike
  <2>2. BoundaryResolves(ApplyTx(a, tx)) <=> BoundaryResolves(ApplyTx(b, other))
    BY <2>1, AlikeLooksUp DEF BoundaryResolves
  <2>. QED  BY <2>2 DEF CoherenceGate
<1>. QED  BY <1>3, <1>4, <1>5, <1>6 DEF ContentGates

---------------------------------------------------------------------------
(* What is stored and what is shown are trees. *)

\* The bytes the writer makes of some tree, which are the ones it makes of the tree
\* that is read back from them.
IsWritten(bytes) ==
    IsTree(deserializeImpl(bytes)) /\ serializeImpl(deserializeImpl(bytes)) = bytes

LEMMA WrittenTree ==
    ASSUME NEW a, IsTree(a)
    PROVE  IsWritten(serializeImpl(a))
<1>1. Alike(a, deserializeImpl(serializeImpl(a)))
  BY ReadBackIsAlike
<1>2. serializeImpl(a) = serializeImpl(deserializeImpl(serializeImpl(a)))
  BY <1>1, AlikeIsWrittenAlike
<1>. QED  BY <1>1, <1>2 DEF IsWritten, Alike

LEMMA GenesisIsTree == IsTree(makeGenesis)
<1>1. /\ makeGenesis = [f \in TreeFields |-> makeGenesis[f]]
      /\ makeGenesis.memory = <<>>
  BY Zenon DEF TreeFields, makeGenesis
<1>2. IsSequence(<<>>)
  BY DEF IsSequence
<1>. QED  BY <1>1, <1>2 DEF IsTree

StoredAreTrees ==
    \A s \in StoreIds : \A i \in DOMAIN stores[s].revisions :
       IsWritten(stores[s].revisions[i].bytes)

PromotedAreTrees ==
    \A h \in Handles : mats[h].quarantine = "Promoted" => IsTree(mats[h].state)

HistoryInv == StoredAreTrees /\ PromotedAreTrees

HeadTree(store) == deserializeImpl(HeadBytes(store))

LEMMA StoreHead ==
    ASSUME NEW store, IsSequence(store.revisions), IsChain(store)
    PROVE  /\ store.revisions = <<>> <=> store.head = NoRevision
           /\ store.revisions # <<>> =>
                 /\ Len(store.revisions) \in DOMAIN store.revisions
                 /\ \E base : store.head = <<base, HeadBytes(store)>>
<1>. DEFINE n == Len(store.revisions)
<1>1. n \in Nat /\ DOMAIN store.revisions = 1..n
  BY SequenceFacts
<1>2. CASE store.revisions = <<>>
  <2>1. store.head = NoRevision
    BY <1>2 DEF IsChain, idBefore
  <2>. QED  BY <1>2, <2>1
<1>3. CASE store.revisions # <<>>
  <2>1. n \in 1..n
    BY <1>1, <1>3 DEF IsSequence
  <2>2. store.head = store.revisions[n].id
    BY <1>1, <2>1 DEF IsChain, idBefore
  <2>3. store.revisions[n].id = <<idBefore(store, n), HeadBytes(store)>>
    BY <1>1, <2>1 DEF IsChain, Mint, HeadBytes
  <2>4. store.head # NoRevision
    BY <2>2, <2>3 DEF NoRevision
  <2>. QED  BY <1>1, <1>3, <2>1, <2>2, <2>3, <2>4
<1>. QED  BY <1>2, <1>3

\* What a promoted handle with a storage identity shows is written to the bytes that
\* its revision id binds, and some store holds them.
LEMMA ShownIsHeld ==
    ASSUME TypeOK, StoresAreChains, DurabilityInv, HistoryInv, NEW h \in Handles,
           mats[h].quarantine = "Promoted", mats[h].revision # NoRevision
    PROVE  \E s \in StoreIds : \E base, bytes :
              /\ Holds(stores[s], mats[h].revision, bytes) /\ mats[h].revision = <<base, bytes>>
              /\ Alike(mats[h].state, deserializeImpl(bytes))
<1>1. \A s \in StoreIds : IsChain(stores[s])
  BY DEF StoresAreChains
<1>2. PICK s, bytes : /\ s \in StoreIds /\ Holds(stores[s], mats[h].revision, bytes)
                      /\ serializeImpl(mats[h].state).body = bytes.body
  BY DEF DurabilityInv, Backed
<1>3. PICK i \in DOMAIN stores[s].revisions :
         stores[s].revisions[i].id = mats[h].revision /\ stores[s].revisions[i].bytes = bytes
  BY <1>2 DEF Holds
<1>4. PICK base : mats[h].revision = <<base, bytes>>
  BY <1>1, <1>2, <1>3 DEF IsChain, Mint
<1>5. IsWritten(bytes)
  BY <1>2, <1>3 DEF HistoryInv, StoredAreTrees
<1>6. bytes.version = 8 /\ bytes = [version |-> 8, body |-> bytes.body]
  BY <1>5 DEF IsWritten, serializeImpl
<1>7. serializeImpl(mats[h].state) = [version |-> 8, body |-> bytes.body]
  BY <1>2 DEF serializeImpl
<1>8. IsTree(mats[h].state)
  BY DEF HistoryInv, PromotedAreTrees
<1>9. Alike(mats[h].state, deserializeImpl(bytes))
  BY <1>5, <1>6, <1>7, <1>8, WrittenAlikeIsAlike DEF IsWritten
<1>. QED  BY <1>2, <1>4, <1>9

\* At the head of a store: the very bytes at the head.
LEMMA HeadIsShown ==
    ASSUME TypeOK, StoresAreChains, DurabilityInv, HistoryInv, NEW s \in StoreIds,
           NEW h \in Handles, mats[h].quarantine = "Promoted",
           mats[h].revision = stores[s].head, stores[s].head # NoRevision
    PROVE  Alike(mats[h].state, HeadTree(stores[s]))
<1>1. \A r \in StoreIds : IsSequence(stores[r].revisions) /\ IsChain(stores[r])
  BY DEF TypeOK, StoresOK, StoresAreChains
<1>2. PICK bytes : /\ \E base : mats[h].revision = <<base, bytes>>
                   /\ Alike(mats[h].state, deserializeImpl(bytes))
  BY ShownIsHeld
<1>3. \E base : mats[h].revision = <<base, HeadBytes(stores[s])>>
  BY <1>1, StoreHead
<1>4. bytes = HeadBytes(stores[s])
  BY <1>2, <1>3
<1>. QED  BY <1>2, <1>4 DEF HeadTree

\* The root principal that judges a write is the one of the tree at the head,
\* whether a live handle shows it or it is read from the store.
LEMMA HeadGoverns ==
    ASSUME TypeOK, StoresAreChains, DurabilityInv, HistoryInv, canonical_head_locked # <<>>
    PROVE  canonical_head_locked[1].rootPrincipal = HeadTree(stores[g_store]).rootPrincipal
<1>. DEFINE head == stores[g_store].head
            Shows(h) == mats[h].revision = head /\ mats[h].quarantine = "Promoted"
            at == SelectInSeq(g_live, LAMBDA h : /\ mats[h].revision = head
                                                 /\ mats[h].quarantine = "Promoted")
            I == {i \in 1..Len(g_live) : Shows(g_live[i])}
<1>1. g_store \in StoreIds /\ head # NoRevision
  BY DEF canonical_head_locked, TypeOK, LeaseOK
<1>2. canonical_head_locked =
        IF at # 0 THEN <<mats[g_live[at]].state>>
        ELSE IF DeserializeError(HeadBytes(stores[g_store])) = "None"
             THEN <<HeadTree(stores[g_store])>> ELSE <<>>
  BY <1>1 DEF canonical_head_locked, HeadTree
<1>3. at = IF I # {} THEN Min(I) ELSE 0
  BY DEF SelectInSeq
<1>. HIDE DEF at
<1>4. CASE at # 0
  <2>1. I # {} /\ I \subseteq Nat /\ at = Min(I)
    BY <1>3, <1>4
  <2>2. at \in I
    <3>. HIDE DEF I
    <3>. QED  BY <2>1, MinFacts
  <2>3. g_live[at] \in Handles /\ Shows(g_live[at])
    BY <2>2 DEF TypeOK, HeapOK
  <2>4. Alike(mats[g_live[at]].state, HeadTree(stores[g_store]))
    BY <1>1, <2>3, HeadIsShown
  <2>. QED  BY <1>2, <1>4, <2>4, AlikeLooksUp
<1>5. CASE at = 0
  BY <1>2, <1>5
<1>. QED  BY <1>4, <1>5

---------------------------------------------------------------------------
(* What a step makes of a store. *)

Admits(store, request, actor) ==
    ContentGates(HeadTree(store), request, actor, HeadTree(store).rootPrincipal) = "None"

\* The genesis, an admitted request on the head as read back, or no new revision.
Evolves(old, new) ==
    \/ new.revisions = old.revisions
    \/ /\ old.revisions = <<>>
       /\ \E r : /\ new.revisions = Append(old.revisions, r)
                 /\ r.bytes = serializeImpl(makeGenesis)
    \/ /\ old.revisions # <<>>
       /\ \E request \in Requests, actor \in Actors : \E r :
             /\ Admits(old, request, actor)
             /\ new.revisions = Append(old.revisions, r)
             /\ r.bytes = serializeImpl(ApplyTx(HeadTree(old), request))

StoresEvolve == \A s \in StoreIds : Evolves(stores[s], stores'[s])

HeapOfTrees ==
    \/ mats' = mats
    \/ \E m : /\ mats' = Append(mats, m)
              /\ m.quarantine = "Promoted" => IsTree(m.state)

LEMMA StoresKept ==
    ASSUME UNCHANGED stores
    PROVE  StoresEvolve
  BY DEF StoresEvolve, Evolves

LEMMA OneStoreEvolves ==
    ASSUME TypeOK, NEW s \in StoreIds, NEW store, Evolves(stores[s], store),
           stores' = [stores EXCEPT ![s] = store]
    PROVE  StoresEvolve
<1>1. stores'[s] = store /\ \A t \in StoreIds : t # s => stores'[t] = stores[t]
  BY DEF TypeOK, StoresOK
<1>. QED  BY <1>1 DEF StoresEvolve, Evolves

\* Reading a written tree promotes a tree.
LEMMA ReadIsTree ==
    ASSUME NEW call, NEW bytes, NEW revision, NEW quarantine,
           Materialize(call, bytes, revision, quarantine),
           quarantine = "Promoted" => IsWritten(bytes)
    PROVE  HeapOfTrees
<1>. DEFINE m == [state |-> deserializeImpl(bytes), digest |-> draft_snapshot_digest(bytes),
                  revision |-> revision, epoch |-> g_epoch + 1, quarantine |-> quarantine]
<1>1. mats' = mats \/ mats' = Append(mats, m)
  BY DEF Materialize
<1>2. m.quarantine = "Promoted" => IsTree(m.state)
  BY DEF IsWritten
<1>. HIDE DEF m
<1>. QED  BY <1>1, <1>2 DEF HeapOfTrees

\* A swap on an empty store stores the genesis.
LEMMA GenesisEvolves ==
    ASSUME NEW store, store.revisions = <<>>, NEW base
    PROVE  Evolves(store, compareAndSwap(store, base, serializeImpl(makeGenesis)).store)
<1>. DEFINE bytes == serializeImpl(makeGenesis)
            r == [id |-> Mint(base, bytes), bytes |-> bytes]
            new == compareAndSwap(store, base, bytes).store
<1>1. new.revisions = Append(store.revisions, r)
  BY DEF compareAndSwap, Appended, CommittedAs
<1>2. r.bytes = bytes
  OBVIOUS
<1>. HIDE DEF r, new
<1>3. Evolves(store, new)
  BY <1>1, <1>2 DEF Evolves
<1>. QED  BY <1>3 DEF new

LEMMA BootEvolves ==
    ASSUME TypeOK, StoresAreChains, HistoryInv, NEW revision, create_canonical(revision)
    PROVE  StoresEvolve /\ HeapOfTrees
<1>. DEFINE store == stores[g_store]
            id == IF revision = NoRevision THEN store.head ELSE revision
            found == materialize(store, id)
            bytes == serializeImpl(makeGenesis)
            answers == StoreAnswers(store, NoRevision, bytes, StoreLosses)
<1>1. g_store \in StoreIds /\ IsSequence(store.revisions) /\ IsChain(store)
  BY DEF create_canonical, TypeOK, LeaseOK, StoresOK, StoresAreChains
<1>2. \/ found # <<>> /\ Materialize("create", found[1], id, "Promoted") /\ stores' = stores
      \/ UNCHANGED <<mats, stores>>
      \/ /\ found = <<>> /\ id = NoRevision
         /\ \E answer \in answers :
               /\ stores' = [stores EXCEPT ![g_store] = answer.store]
               /\ mats' = mats \/ Materialize("create", bytes, answer.revision, "Promoted")
  BY DEF create_canonical
<1>. HIDE DEF found, answers, bytes
<1>3. CASE found # <<>> /\ Materialize("create", found[1], id, "Promoted") /\ stores' = stores
  <2>1. Holds(store, id, found[1])
    <3>. HIDE DEF id, store
    <3>. QED  BY <1>3, MaterializedIsHeld DEF found
  <2>2. IsWritten(found[1])
    BY <1>1, <2>1 DEF Holds, HistoryInv, StoredAreTrees
  <2>. QED  BY <1>3, <2>2, ReadIsTree, StoresKept
<1>4. CASE UNCHANGED <<mats, stores>>
  BY <1>4, StoresKept DEF HeapOfTrees
<1>5. ASSUME found = <<>>, id = NoRevision, NEW answer \in answers,
             stores' = [stores EXCEPT ![g_store] = answer.store],
             mats' = mats \/ Materialize("create", bytes, answer.revision, "Promoted")
      PROVE  StoresEvolve /\ HeapOfTrees
  <2>1. store.revisions = <<>>
    BY <1>1, <1>5, StoreHead
  <2>2. Evolves(store, answer.store)
    <3>1. answer.store = store \/ answer.store = compareAndSwap(store, NoRevision, bytes).store
      BY <1>5, AnswerFacts DEF answers
    <3>2. Evolves(store, compareAndSwap(store, NoRevision, bytes).store)
      BY <2>1, GenesisEvolves DEF bytes
    <3>3. CASE answer.store = store
      BY <3>3 DEF Evolves
    <3>. QED  BY <3>1, <3>2, <3>3
  <2>3. IsWritten(bytes)
    BY GenesisIsTree, WrittenTree DEF bytes
  <2>4. StoresEvolve
    BY <1>1, <1>5, <2>2, OneStoreEvolves
  <2>5. HeapOfTrees
    <3>1. CASE mats' = mats
      BY <3>1 DEF HeapOfTrees
    <3>. QED  BY <1>5, <2>3, <3>1, ReadIsTree
  <2>. QED  BY <2>4, <2>5
<1>. QED  BY <1>2, <1>3, <1>4, <1>5

\* The other process's genesis, when the race for it is lost.
LEMMA RaceEvolves ==
    ASSUME TypeOK, create_canonical_raced
    PROVE  StoresEvolve /\ HeapOfTrees
<1>. DEFINE bytes == serializeImpl(makeGenesis)
            raced == compareAndSwap(EmptyStore, NoRevision, bytes)
            late == compareAndSwap(raced.store, NoRevision, bytes)
<1>1. /\ g_store \in StoreIds /\ stores[g_store] = EmptyStore
      /\ stores' = [stores EXCEPT ![g_store] = raced.store]
      /\ Materialize("create", bytes, late.revision, "Promoted")
  BY DEF create_canonical_raced, TypeOK, LeaseOK
<1>2. Evolves(EmptyStore, raced.store)
  BY GenesisEvolves DEF EmptyStore
<1>3. IsWritten(bytes)
  BY GenesisIsTree, WrittenTree
<1>. HIDE DEF bytes, raced, late
<1>. QED  BY <1>1, <1>2, <1>3, OneStoreEvolves, ReadIsTree

LEMMA RequestFacts ==
    ASSUME NEW request \in Requests, NEW base
    PROVE  /\ IsRequest(request) /\ IsRequest(WithBase(request, base))
           /\ SameRequest(WithBase(request, base), request)
<1>1. IsSequence(request.operations)
  BY RequestsAssumption
<1>2. IsRequest(request)
  BY <1>1, SequenceFacts, RequestsAssumption DEF IsRequest
<1>. QED  BY <1>2 DEF IsRequest, SameRequest, WithBase

\* A write that changes the store came through a handle that shows the head, so
\* what its gates admitted there is admitted on the head as read back, and stores
\* what the abstract history would.
LEMMA WriteEvolves ==
    ASSUME TypeOK, StoresAreChains, DurabilityInv, HistoryInv, LeaseIsLatestGrant,
           NEW h \in Handles, NEW request \in Requests, NEW base, NEW g,
           write_to_cognition(h, WithBase(request, base), g)
    PROVE  StoresEvolve /\ HeapOfTrees
<1>. DEFINE tx == WithBase(request, base)
            store == stores[g_store]
            state == mats[h].state
            tree == HeadTree(store)
            bytes == serializeImpl(ApplyTx(state, tx))
<1>1. IsRequest(tx) /\ SameRequest(tx, request) /\ SameRequest(tx, tx)
  BY RequestFacts DEF SameRequest
<1>. HIDE DEF tx
<1>2. \/ UNCHANGED <<mats, stores>>
      \/ /\ WriteGates(h, tx, g) = "None" /\ tx.operations # <<>>
         /\ WriteThrough(h, tx, g)
  BY DEF write_to_cognition, WriteReplay, WriteRefused, WriteNothing, tx
<1>3. CASE UNCHANGED <<mats, stores>>
  BY <1>3, StoresKept DEF HeapOfTrees
<1>4. CASE /\ WriteGates(h, tx, g) = "None" /\ tx.operations # <<>>
           /\ WriteThrough(h, tx, g)
  <2>1. /\ mats[h].quarantine = "Promoted" /\ g_activeGrantId # NoGrant
        /\ g_store # "null" /\ store.head # NoRevision /\ canonical_head_locked # <<>>
    BY <1>4, WritePassed, SessionPassed
  <2>2. ContentGates(state, tx, g_grantActor, canonical_head_locked[1].rootPrincipal) = "None"
    BY <1>4, WritePassed DEF WriteGates
  <2>3. g_store \in StoreIds /\ g_grantActor \in Actors
    BY <2>1 DEF TypeOK, LeaseOK, LeaseIsLatestGrant
  <2>4. IsSequence(store.revisions) /\ IsChain(store) /\ IsTree(state)
    BY <2>1, <2>3 DEF TypeOK, StoresOK, StoresAreChains, HistoryInv, PromotedAreTrees
  <2>5. PICK answer \in StoreAnswers(store, mats[h].revision, bytes, StoreLosses) :
           WriteAnswered(h, tx, g, bytes, answer)
    BY <1>4, SwapIsAnAnswer DEF WriteThrough
  <2>6. Evolves(store, answer.store)
    <3>1. CASE answer.store = store
      BY <3>1 DEF Evolves
    <3>2. CASE answer.store # store
      <4>. DEFINE r == [id |-> Mint(mats[h].revision, bytes), bytes |-> bytes]
      <4>1. /\ answer.store = Appended(store, mats[h].revision, bytes).store
            /\ store.revisions # <<>> /\ mats[h].revision = store.head
        BY <2>1, <2>4, <2>5, <3>2, AnswerAppends, StoreHead
      <4>2. Alike(state, tree)
        BY <2>1, <2>3, <4>1, HeadIsShown
      <4>3. Admits(store, request, g_grantActor)
        <5>1. canonical_head_locked[1].rootPrincipal = tree.rootPrincipal
          BY <2>1, HeadGoverns
        <5>. QED  BY <1>1, <2>2, <4>2, <5>1, GatesJudgeAlike DEF Admits
      <4>4. bytes = serializeImpl(ApplyTx(tree, request))
        <5>1. Alike(ApplyTx(state, tx), ApplyTx(tree, request))
          BY <1>1, <4>2, RequestKeepsAlike
        <5>. QED  BY <5>1, AlikeIsWrittenAlike
      <4>5. answer.store.revisions = Append(store.revisions, r) /\ r.bytes = bytes
        BY <4>1 DEF Appended, CommittedAs
      <4>. HIDE DEF r, bytes, store, tree
      <4>. QED  BY <2>3, <4>1, <4>3, <4>4, <4>5 DEF Evolves, tree
    <3>. QED  BY <3>1, <3>2
  <2>7. StoresEvolve
    <3>1. stores' = [stores EXCEPT ![g_store] = answer.store]
      BY <2>5 DEF WriteAnswered
    <3>. QED  BY <2>3, <2>6, <3>1, OneStoreEvolves
  <2>8. HeapOfTrees
    <3>. DEFINE m == [state |-> ApplyTx(state, tx), digest |-> draft_snapshot_digest(bytes),
                      revision |-> answer.revision, epoch |-> mats[h].epoch,
                      quarantine |-> mats[h].quarantine]
    <3>1. mats' = mats \/ mats' = Append(mats, m)
      BY <2>5 DEF WriteAnswered, PublishSuccessor, Replace
    <3>2. Alike(state, state)
      BY <2>4 DEF Alike
    <3>3. IsTree(ApplyTx(state, tx))
      BY <1>1, <3>2, RequestKeepsAlike DEF Alike
    <3>4. m.state = ApplyTx(state, tx)
      OBVIOUS
    <3>. HIDE DEF m
    <3>. QED  BY <3>1, <3>3, <3>4 DEF HeapOfTrees
  <2>. QED  BY <2>7, <2>8
<1>. QED  BY <1>2, <1>3, <1>4

LEMMA ForeignEvolves ==
    ASSUME TypeOK, StoresAreChains, NEW s \in StoreIds,
           \/ ForeignGenesis(s)
           \/ \E request \in Requests, actor \in Actors : ForeignCommit(s, request, actor)
    PROVE  StoresEvolve /\ HeapOfTrees
<1>. DEFINE store == stores[s]
<1>1. CASE ForeignGenesis(s)
  <2>. DEFINE new == compareAndSwap(store, NoRevision, serializeImpl(makeGenesis)).store
  <2>1. mats' = mats /\ stores' = [stores EXCEPT ![s] = new] /\ store.revisions = <<>>
    BY <1>1 DEF ForeignGenesis, ForeignChange, EmptyStore
  <2>2. Evolves(store, new)
    BY <2>1, GenesisEvolves
  <2>. QED  BY <2>1, <2>2, OneStoreEvolves DEF HeapOfTrees
<1>2. ASSUME NEW request \in Requests, NEW actor \in Actors, ForeignCommit(s, request, actor)
      PROVE  StoresEvolve /\ HeapOfTrees
  <2>. DEFINE bytes == serializeImpl(ApplyTx(HeadTree(store), request))
              r == [id |-> Mint(store.head, bytes), bytes |-> bytes]
              answer == compareAndSwap(store, store.head, bytes)
  <2>1. /\ store.revisions # <<>> /\ Admits(store, request, actor)
        /\ mats' = mats /\ stores' = [stores EXCEPT ![s] = answer.store]
    BY <1>2 DEF ForeignCommit, ForeignChange, Admits, HeadTree
  <2>2. answer.store = store \/ answer.store.revisions = Append(store.revisions, r)
    BY DEF compareAndSwap, Appended, CommittedAs
  <2>3. r.bytes = bytes
    OBVIOUS
  <2>. HIDE DEF r, answer
  <2>4. Evolves(store, answer.store)
    BY <2>1, <2>2, <2>3 DEF Evolves
  <2>. QED  BY <2>1, <2>4, OneStoreEvolves DEF HeapOfTrees
<1>. QED  BY <1>1, <1>2

\* Every step makes of each store what the abstract history may, and what it
\* promotes is a tree.
LEMMA HistoryStep ==
    ASSUME TypeOK, StoresAreChains, DurabilityInv, HistoryInv, LeaseIsLatestGrant, [Next]_vars
    PROVE  StoresEvolve /\ HeapOfTrees
<1>. DEFINE Good == StoresEvolve /\ HeapOfTrees
<1>1. CASE UNCHANGED <<mats, stores>>
  BY <1>1, StoresKept DEF HeapOfTrees
<1>2. ASSUME NEW s, NEW port, NEW h, NEW actor, NEW mode, NEW g,
             \/ attachStore(s) \/ attach_identity_verifier(port) \/ retire_cognition(h)
             \/ acquire_grant(actor, mode) \/ release_grant(g)
      PROVE  UNCHANGED <<mats, stores>>
  BY <1>2 DEF attachStore, attach_identity_verifier, retire_cognition, acquire_grant, release_grant
<1>3. ASSUME NEW r, create_canonical(r) \/ create_canonical_raced PROVE Good
  BY <1>3, BootEvolves, RaceEvolves
<1>4. ASSUME NEW a, create_from_artifact(a) PROVE Good
  <2>1. /\ stores' = stores
        /\ mats' = mats \/ Materialize("create", a.inlineBytes[1], NoRevision, "Isolated")
    BY <1>4 DEF create_from_artifact
  <2>. QED  BY <2>1, StoresKept, ReadIsTree DEF HeapOfTrees
<1>5. ASSUME NEW h \in Handles, NEW actor, verify_restored(h, actor) \/ promote_authority(h, actor)
      PROVE  Good
  <2>. DEFINE m == [state |-> mats[h].state, digest |-> mats[h].digest,
                    revision |-> mats[h].revision, epoch |-> mats[h].epoch,
                    quarantine |-> "Verified"]
  <2>1. mats[h].quarantine # "AuthorityPending"
    BY DEF TypeOK, HeapOK
  <2>2. stores' = stores /\ (mats' = mats \/ mats' = Append(mats, m))
    BY <1>5, <2>1 DEF verify_restored, promote_authority, QuarantineStep, Replace
  <2>3. m.quarantine # "Promoted"
    OBVIOUS
  <2>. HIDE DEF m
  <2>. QED  BY <2>2, <2>3, StoresKept DEF HeapOfTrees
<1>6. ASSUME NEW h \in Handles, NEW request \in Requests, NEW base, NEW g,
             write_to_cognition(h, WithBase(request, base), g)
      PROVE  Good
  BY <1>6, WriteEvolves
<1>7. ASSUME NEW s \in StoreIds,
             \/ ForeignGenesis(s)
             \/ \E request \in Requests, actor \in Actors : ForeignCommit(s, request, actor)
      PROVE  Good
  BY <1>7, ForeignEvolves
<1>8. CASE UNCHANGED vars
  BY <1>1, <1>8 DEF vars, serviceState
<1>9. ASSUME Next PROVE Good
  <2>1. \/ UNCHANGED <<mats, stores>>
        \/ \E r : create_canonical(r)
        \/ create_canonical_raced
        \/ \E a : create_from_artifact(a)
        \/ \E h \in Handles : \E actor : verify_restored(h, actor) \/ promote_authority(h, actor)
        \/ \E h \in Handles, request \in Requests : \E base, g :
              write_to_cognition(h, WithBase(request, base), g)
        \/ \E s \in StoreIds : ForeignGenesis(s)
        \/ \E s \in StoreIds, request \in Requests, actor \in Actors :
              ForeignCommit(s, request, actor)
    BY <1>2, <1>9, Zenon DEF Next
  <2>. QED  BY <1>1, <1>3, <1>4, <1>5, <1>6, <1>7, <2>1, Zenon
<1>. QED  BY <1>1, <1>8, <1>9 DEF vars

---------------------------------------------------------------------------
(* The invariant. *)

\* A revision that a store gains is written by the writer from a tree.
LEMMA GainedIsWritten ==
    ASSUME TypeOK, HistoryInv, NEW s \in StoreIds, NEW new, Evolves(stores[s], new)
    PROVE  \/ new.revisions = stores[s].revisions
           \/ \E r : new.revisions = Append(stores[s].revisions, r) /\ IsWritten(r.bytes)
<1>. DEFINE store == stores[s]
            tree == HeadTree(store)
<1>1. CASE store.revisions = <<>>
  BY <1>1, GenesisIsTree, WrittenTree DEF Evolves
<1>2. ASSUME store.revisions # <<>>, NEW request \in Requests
      PROVE  IsWritten(serializeImpl(ApplyTx(tree, request)))
  <2>1. IsSequence(store.revisions)
    BY DEF TypeOK, StoresOK
  <2>2. Len(store.revisions) \in DOMAIN store.revisions
    BY <1>2, <2>1 DEF IsSequence
  <2>3. Alike(tree, tree)
    BY <2>2 DEF HeadTree, HeadBytes, HistoryInv, StoredAreTrees, IsWritten, Alike
  <2>4. IsRequest(request) /\ SameRequest(request, request)
    BY RequestFacts DEF SameRequest
  <2>5. IsTree(ApplyTx(tree, request))
    BY <2>3, <2>4, RequestKeepsAlike DEF Alike
  <2>. QED  BY <2>5, WrittenTree
<1>. HIDE DEF tree
<1>. QED  BY <1>1, <1>2 DEF Evolves, tree

LEMMA HistoryInductive ==
    /\ TypeOK /\ StoresAreChains /\ DurabilityInv /\ HistoryInv /\ LeaseIsLatestGrant
    /\ [Next]_vars
    => HistoryInv'
<1>. SUFFICES ASSUME TypeOK, StoresAreChains, DurabilityInv, HistoryInv, LeaseIsLatestGrant,
                     [Next]_vars
              PROVE  HistoryInv'
  OBVIOUS
<1>1. StoresEvolve /\ HeapOfTrees
  BY HistoryStep
<1>2. ASSUME NEW s \in StoreIds
      PROVE  \A i \in DOMAIN stores'[s].revisions : IsWritten(stores'[s].revisions[i].bytes)
  <2>1. IsSequence(stores[s].revisions)
    BY DEF TypeOK, StoresOK
  <2>2. CASE stores'[s].revisions = stores[s].revisions
    BY <2>2 DEF HistoryInv, StoredAreTrees
  <2>3. ASSUME NEW r, stores'[s].revisions = Append(stores[s].revisions, r), IsWritten(r.bytes)
        PROVE  \A i \in DOMAIN stores'[s].revisions : IsWritten(stores'[s].revisions[i].bytes)
    <3>. DEFINE n == Len(stores[s].revisions)
    <3>1. /\ DOMAIN stores[s].revisions = 1..n /\ n \in Nat
          /\ DOMAIN stores'[s].revisions = 1..n + 1 /\ stores'[s].revisions[n + 1] = r
          /\ \A i \in 1..n : stores'[s].revisions[i] = stores[s].revisions[i]
      BY <2>1, <2>3, SequenceFacts, AppendFacts
    <3>2. \A i \in 1..n + 1 : i \in 1..n \/ i = n + 1
      BY <3>1
    <3>. QED  BY <2>3, <3>1, <3>2 DEF HistoryInv, StoredAreTrees
  <2>. QED  BY <1>1, <2>2, <2>3, GainedIsWritten DEF StoresEvolve
<1>3. PromotedAreTrees'
  <2>1. CASE mats' = mats
    BY <2>1 DEF HistoryInv, PromotedAreTrees, Handles
  <2>2. ASSUME NEW m, mats' = Append(mats, m), m.quarantine = "Promoted" => IsTree(m.state)
        PROVE  PromotedAreTrees'
    <3>1. /\ Len(mats) \in Nat /\ Handles = 1..Len(mats) /\ Handles' = 1..Len(mats) + 1
          /\ mats'[Len(mats) + 1] = m
          /\ \A h \in Handles : mats'[h] = mats[h]
      BY <2>2, HeapAppended
    <3>2. \A h \in Handles' : h \in Handles \/ h = Len(mats) + 1
      BY <3>1
    <3>. QED  BY <2>2, <3>1, <3>2 DEF HistoryInv, PromotedAreTrees
  <2>3. CASE \E m : /\ mats' = Append(mats, m)
                    /\ m.quarantine = "Promoted" => IsTree(m.state)
    <3>1. PICK m : /\ mats' = Append(mats, m)
                   /\ m.quarantine = "Promoted" => IsTree(m.state)
      BY <2>3
    <3>. QED  BY <2>2, <3>1
  <2>. QED  BY <1>1, <2>1, <2>3 DEF HeapOfTrees
<1>. QED  BY <1>2, <1>3 DEF HistoryInv, StoredAreTrees

\* Whatever is stored was written from a tree, and whatever is promoted is one.
LEMMA HistoryInvariant == Spec => []HistoryInv
<1>1. Init => HistoryInv
  BY DEF Init, HistoryInv, StoredAreTrees, PromotedAreTrees, Handles, EmptyStore
<1>. QED
  BY <1>1, HistoryInductive, DurabilityInvariant, StoresStayChains, LeaseIsSingle,
     TypeCorrect, PTL DEF Spec

---------------------------------------------------------------------------
(* The refinement. *)

\* What a step makes of a store is a step of its history, or leaves it alone.
LEMMA EvolvesIsStep ==
    ASSUME TypeOK, NEW s \in StoreIds, Evolves(stores[s], stores'[s])
    PROVE  [Canonical(s)!Step]_(StoredStates(s))
<1>. DEFINE old == stores[s].revisions
            log == StoredStates(s)
            n == Len(old)
<1>1. n \in Nat /\ DOMAIN old = 1..n /\ IsSequence(old)
  BY SequenceFacts DEF TypeOK, StoresOK
<1>2. /\ log = [i \in 1..n |-> old[i].bytes] /\ Len(log) = n
      /\ log \in Seq({old[i].bytes : i \in 1..n})
  BY <1>1 DEF StoredStates
<1>3. CASE stores'[s].revisions = old
  <2>1. log' = log
    BY <1>3 DEF StoredStates
  <2>. QED  BY <2>1
<1>4. ASSUME NEW r, stores'[s].revisions = Append(old, r)
      PROVE  log' = Append(log, r.bytes) /\ log' # log
  <2>1. /\ DOMAIN Append(old, r) = 1..n + 1 /\ Append(old, r)[n + 1] = r
        /\ \A i \in 1..n : Append(old, r)[i] = old[i]
    BY <1>1, AppendFacts
  <2>2. log' = [i \in 1..n + 1 |-> Append(old, r)[i].bytes]
    BY <1>4, <2>1 DEF StoredStates
  <2>3. DOMAIN log = 1..n /\ DOMAIN log' = 1..n + 1
    BY <1>2, <2>2
  <2>4. /\ DOMAIN Append(log, r.bytes) = 1..n + 1 /\ Append(log, r.bytes)[n + 1] = r.bytes
        /\ \A i \in 1..n : Append(log, r.bytes)[i] = log[i]
    <3>. HIDE DEF log
    <3>. QED  BY <1>1, <1>2
  <2>5. Append(log, r.bytes) = [i \in 1..n + 1 |-> Append(log, r.bytes)[i]]
    <3>. HIDE DEF log
    <3>. QED  BY <1>1, <1>2
  <2>. HIDE DEF log, old
  <2>6. \A i \in 1..n + 1 : Append(old, r)[i].bytes = Append(log, r.bytes)[i]
    <3>1. \A i \in 1..n + 1 : i \in 1..n \/ i = n + 1
      BY <1>1
    <3>2. \A i \in 1..n : log[i] = old[i].bytes
      BY <1>2, Zenon
    <3>. QED  BY <2>1, <2>4, <3>1, <3>2, Zenon
  <2>7. log' # log
    <3>1. n + 1 \in 1..n + 1 /\ n + 1 \notin 1..n
      BY <1>1
    <3>. QED  BY <2>3, <3>1, Zenon
  <2>. QED  BY <2>2, <2>5, <2>6, <2>7, Zenon
<1>5. ASSUME old = <<>>, NEW r, stores'[s].revisions = Append(old, r),
             r.bytes = serializeImpl(makeGenesis)
      PROVE  Canonical(s)!Step
  <2>1. log = <<>>
    BY <1>2, <1>5
  <2>2. log' = <<serializeImpl(makeGenesis)>> /\ log' # log
    BY <1>4, <1>5, <2>1
  <2>. HIDE DEF log
  <2>3. Canonical(s)!Genesis
    BY <2>1, <2>2 DEF Canonical!Genesis, log
  <2>. QED  BY <2>2, <2>3 DEF Canonical!Step, log
<1>6. ASSUME old # <<>>, NEW request \in Requests, NEW actor \in Actors, NEW r,
             Admits(stores[s], request, actor),
             stores'[s].revisions = Append(old, r),
             r.bytes = serializeImpl(ApplyTx(HeadTree(stores[s]), request))
      PROVE  Canonical(s)!Step
  <2>. DEFINE tree == deserializeImpl(log[Len(log)])
  <2>1. n \in 1..n
    BY <1>1, <1>6
  <2>2. log # <<>> /\ log[Len(log)] = HeadBytes(stores[s])
    BY <1>2, <2>1 DEF HeadBytes
  <2>3. tree = HeadTree(stores[s])
    BY <2>2 DEF HeadTree
  <2>4. log' = Append(log, serializeImpl(ApplyTx(tree, request))) /\ log' # log
    BY <1>4, <1>6, <2>3
  <2>5. ContentGates(tree, request, actor, tree.rootPrincipal) = "None"
    BY <1>6, <2>3 DEF Admits
  <2>. HIDE DEF log
  <2>6. Canonical(s)!Advance(request, actor)
    BY <2>2, <2>4, <2>5, Zenon DEF Canonical!Advance, log
  <2>. QED  BY <2>4, <2>6 DEF Canonical!Step, log
<1>. QED  BY <1>3, <1>5, <1>6 DEF Evolves

\* The histories, of all stores at once.
LEMMA StepsOfTheHistories ==
    TypeOK /\ StoresAreChains /\ DurabilityInv /\ HistoryInv /\ LeaseIsLatestGrant /\ [Next]_vars
    => \A s \in StoreIds : [Canonical(s)!Step]_(StoredStates(s))
  BY HistoryStep, EvolvesIsStep DEF StoresEvolve

\* Every store starts empty.
LEMMA EmptyAtFirst ==
    ASSUME NEW s \in StoreIds
    PROVE  Init => Canonical(s)!Start
  BY DEF Init, EmptyStore, StoredStates, Canonical!Start

\* Each store's stored states are one canonical history: the genesis, and then only
\* transactions that the gates admit on the state before, read back from its bytes
\* and judged by its own root principal.  No handle, however stale, no lost
\* acknowledgement, no attached store or identity port and no other process on the
\* store makes the service write anything else.
THEOREM StoreIsCanonicalHistory ==
    ASSUME NEW s \in StoreIds
    PROVE  Spec => Canonical(s)!History
<1>1. TypeOK /\ StoresAreChains /\ DurabilityInv /\ HistoryInv /\ LeaseIsLatestGrant /\ [Next]_vars
      => [Canonical(s)!Step]_(StoredStates(s))
  BY StepsOfTheHistories
<1>2. Init => Canonical(s)!Start
  BY EmptyAtFirst
<1>. QED
  BY <1>1, <1>2, HistoryInvariant, DurabilityInvariant, StoresStayChains, LeaseIsSingle,
     TypeCorrect, PTL DEF Spec, Canonical!History

\* The same of all stores at once, as the runs check it.
THEOREM ServiceImplementsHistory == Spec => ImplementsCanonicalHistory
<1>1. Init => \A s \in StoreIds : Canonical(s)!Start
  BY EmptyAtFirst
<1>2. TypeOK /\ StoresAreChains /\ DurabilityInv /\ HistoryInv /\ LeaseIsLatestGrant /\ [Next]_vars
      => [\A s \in StoreIds : [Canonical(s)!Step]_(StoredStates(s))]_vars
  BY StepsOfTheHistories
<1>. QED
  BY <1>1, <1>2, HistoryInvariant, DurabilityInvariant, StoresStayChains, LeaseIsSingle,
     TypeCorrect, PTL DEF Spec, ImplementsCanonicalHistory

---------------------------------------------------------------------------
(* What every stored tree keeps of the genesis: its root principal, and no *)
(* obligation that blocks.                                                 *)

\* An obligation record that carries a status, and not Blocked: work a session may go on with.
Unblocked(o) == "status" \in DOMAIN o /\ o.status # "Blocked"

AllUnblocked(obligations) ==
    IsSequence(obligations) /\ \A i \in DOMAIN obligations : Unblocked(obligations[i])

\* A tree as the genesis made it in what is_continueable reads of it.
IsGoverned(t) ==
    IsTree(t) /\ t.rootPrincipal = RootPrincipal /\ AllUnblocked(t.obligations)

\* A list of unblocked obligations takes another one.
LEMMA UnblockedAppend ==
    ASSUME NEW s, AllUnblocked(s), NEW o, Unblocked(o)
    PROVE  AllUnblocked(Append(s, o))
<1>. DEFINE n == Len(s)
<1>1. /\ n \in Nat /\ DOMAIN s = 1..n /\ IsSequence(Append(s, o))
      /\ DOMAIN Append(s, o) = 1..n + 1 /\ Append(s, o)[n + 1] = o
      /\ \A i \in 1..n : Append(s, o)[i] = s[i]
  BY AppendFacts, SequenceFacts DEF AllUnblocked
<1>2. \A i \in 1..n + 1 : i \in 1..n \/ i = n + 1
  BY <1>1
<1>. QED  BY <1>1, <1>2 DEF AllUnblocked

\* Rewriting each record of such a list, each into an unblocked one.
LEMMA UnblockedRewritten ==
    ASSUME NEW s, AllUnblocked(s), NEW f, f = [i \in DOMAIN s |-> f[i]],
           \A i \in DOMAIN s : Unblocked(f[i])
    PROVE  AllUnblocked(f)
<1>1. DOMAIN s = 1..Len(s) /\ Len(s) \in Nat /\ DOMAIN f = DOMAIN s
  BY SequenceFacts DEF AllUnblocked
<1>2. \A i \in 1..Len(s) : f[i] \in Range(f)
  BY <1>1 DEF Range
<1>3. f = [i \in 1..Len(s) |-> f[i]]
  BY <1>1
<1>4. f \in Seq(Range(f))
  BY <1>1, <1>2, <1>3
<1>. QED  BY <1>1, <1>4 DEF AllUnblocked, IsSequence

\* Closing the first obligation with an id.
LEMMA CloseKeepsUnblocked ==
    ASSUME NEW s, AllUnblocked(s), NEW op
    PROVE  AllUnblocked(CloseObligation(s, op))
<1>. DEFINE at == SelectInSeq(s, LAMBDA o : o.id = op.recordId)
            x == CloseObligation(s, op)
<1>1. x = IF at = 0 THEN s ELSE [s EXCEPT ![at].status = "Done"]
  BY DEF CloseObligation
<1>. HIDE DEF at, x
<1>2. CASE at = 0
  BY <1>1, <1>2 DEF x
<1>3. CASE at # 0
  <2>. DEFINE y(i) == IF i = at THEN [s[i] EXCEPT !.status = "Done"] ELSE s[i]
  <2>1. x = [i \in DOMAIN s |-> y(i)]
    BY <1>1, <1>3
  <2>2. \A i \in DOMAIN s : Unblocked(y(i))
    BY DEF AllUnblocked, Unblocked
  <2>. HIDE DEF y
  <2>3. x = [i \in DOMAIN s |-> x[i]] /\ \A i \in DOMAIN s : Unblocked(x[i])
    BY <2>1, <2>2
  <2>4. AllUnblocked(x)
    BY <2>3, UnblockedRewritten
  <2>. QED  BY <2>4 DEF x
<1>. QED  BY <1>2, <1>3

\* Gate 8 lets a transition lead to Deferred, Done, Cancelled or Superseded.
LEMMA TransitionKeepsUnblocked ==
    ASSUME NEW s, AllUnblocked(s), NEW op, op.aux \in {1, 3, 4, 5}
    PROVE  AllUnblocked(TransitionObligation(s, op))
<1>. DEFINE y(i) == IF s[i].id = op.recordId
                    THEN [s[i] EXCEPT !.status = ObligationStatus[op.aux + 1],
                                      !.completionCriteria = op.payload]
                    ELSE s[i]
<1>1. TransitionObligation(s, op) = [i \in DOMAIN s |-> y(i)]
  BY DEF TransitionObligation
<1>2. ObligationStatus[op.aux + 1] # "Blocked"
  BY DEF ObligationStatus
<1>3. \A i \in DOMAIN s : Unblocked(y(i))
  BY <1>2 DEF AllUnblocked, Unblocked
<1>. HIDE DEF y
<1>. DEFINE x == TransitionObligation(s, op)
<1>4. x = [i \in DOMAIN s |-> x[i]] /\ \A i \in DOMAIN s : Unblocked(x[i])
  BY <1>1, <1>3
<1>. HIDE DEF x
<1>5. AllUnblocked(x)
  BY <1>4, UnblockedRewritten
<1>. QED  BY <1>5 DEF x

\* Setting a field that governance does not read.
LEMMA SettingKeepsGoverned ==
    ASSUME NEW t, IsGoverned(t), NEW x,
           NEW f \in TreeFields \ {"memory", "rootPrincipal", "obligations"}
    PROVE  IsGoverned([t EXCEPT ![f] = x])
<1>. DEFINE t2 == [t EXCEPT ![f] = x]
<1>1. DOMAIN t = TreeFields /\ {"memory", "rootPrincipal", "obligations"} \subseteq TreeFields
  BY Fields DEF IsGoverned, IsTree
<1>2. /\ t2 = [g \in TreeFields |-> t2[g]] /\ t2.memory = t.memory
      /\ t2.rootPrincipal = t.rootPrincipal /\ t2.obligations = t.obligations
  BY <1>1
<1>. HIDE DEF t2
<1>3. IsGoverned(t2)
  BY <1>2 DEF IsGoverned, IsTree
<1>. QED  BY <1>3 DEF t2

\* Replacing the obligations by unblocked ones.
LEMMA ObligingKeepsGoverned ==
    ASSUME NEW t, IsGoverned(t), NEW x, AllUnblocked(x)
    PROVE  IsGoverned([t EXCEPT !.obligations = x])
<1>. DEFINE t2 == [t EXCEPT !.obligations = x]
<1>1. DOMAIN t = TreeFields /\ {"memory", "rootPrincipal", "obligations"} \subseteq TreeFields
  BY Fields DEF IsGoverned, IsTree
<1>2. /\ t2 = [g \in TreeFields |-> t2[g]] /\ t2.memory = t.memory
      /\ t2.rootPrincipal = t.rootPrincipal /\ t2.obligations = x
  BY <1>1
<1>. HIDE DEF t2
<1>3. IsGoverned(t2)
  BY <1>2 DEF IsGoverned, IsTree
<1>. QED  BY <1>3 DEF t2

\* A memory more.
LEMMA RememberingKeepsGoverned ==
    ASSUME NEW t, IsGoverned(t), NEW m
    PROVE  IsGoverned([t EXCEPT !.memory = Append(@, m)])
<1>. DEFINE t2 == [t EXCEPT !.memory = Append(@, m)]
<1>1. DOMAIN t = TreeFields /\ {"memory", "rootPrincipal", "obligations"} \subseteq TreeFields
  BY Fields DEF IsGoverned, IsTree
<1>2. /\ t2 = [g \in TreeFields |-> t2[g]] /\ t2.memory = Append(t.memory, m)
      /\ t2.rootPrincipal = t.rootPrincipal /\ t2.obligations = t.obligations
  BY <1>1
<1>. HIDE DEF t2
<1>3. IsSequence(Append(t.memory, m))
  BY AppendFacts DEF IsGoverned, IsTree
<1>4. IsGoverned(t2)
  BY <1>2, <1>3 DEF IsGoverned, IsTree
<1>. QED  BY <1>4 DEF t2

\* An operation of the kinds there are, with the transitions that gate 8 allows.
Orderly(op) ==
    /\ op.kind \in OperationKinds
    /\ op.kind = "TransitionObligation" => op.aux \in {1, 3, 4, 5}

\* Operation by operation: a new obligation is Open, closing makes one Done, a transition
\* leads where gate 8 lets it, and no operation touches the root principal.
LEMMA OperationKeepsGoverned ==
    ASSUME NEW t, IsGoverned(t), NEW op, Orderly(op), NEW ref
    PROVE  IsGoverned(ApplyOp(t, op, ref))
<1>1. AllUnblocked(t.obligations)
  BY DEF IsGoverned
<1>2. ASSUME NEW f \in {"current", "nextBoundaryRef", "decisions", "evidence", "conflicts",
                        "profiles", "views"}, NEW x,
             ApplyOp(t, op, ref) = [t EXCEPT ![f] = x]
      PROVE  IsGoverned(ApplyOp(t, op, ref))
  <2>1. f \in TreeFields \ {"memory", "rootPrincipal", "obligations"}
    BY Fields
  <2>2. IsGoverned([t EXCEPT ![f] = x])
    BY <2>1, SettingKeepsGoverned
  <2>. QED  BY <1>2, <2>2, Zenon
<1>3. ASSUME NEW x, AllUnblocked(x), ApplyOp(t, op, ref) = [t EXCEPT !.obligations = x]
      PROVE  IsGoverned(ApplyOp(t, op, ref))
  <2>1. IsGoverned([t EXCEPT !.obligations = x])
    BY <1>3, ObligingKeepsGoverned
  <2>. QED  BY <1>3, <2>1, Zenon
<1>4. CASE op.kind \in {"AppendDecision", "UpdateState", "AddEvidence", "UpsertProfile",
                        "OpenConflict", "ResolveConflict", "AmendViewSpec", "SetNextBoundary"}
  BY <1>2, <1>4 DEF ApplyOp
<1>5. CASE op.kind = "SupersedeDecision"
  <2>. DEFINE x == SupersedeDecision(t.decisions, op)
  <2>1. ApplyOp(t, op, ref) = [t EXCEPT !.decisions = x]
    BY <1>5 DEF ApplyOp
  <2>. HIDE DEF x
  <2>. QED  BY <1>2, <2>1
<1>6. CASE op.kind = "AddMemory"
  <2>1. ApplyOp(t, op, ref) = [t EXCEPT !.memory = Append(@, NewMemory(op))]
    BY <1>6 DEF ApplyOp
  <2>2. IsGoverned([t EXCEPT !.memory = Append(@, NewMemory(op))])
    BY RememberingKeepsGoverned
  <2>. QED  BY <2>1, <2>2, Zenon
<1>7. CASE op.kind = "UpsertObligation"
  <2>. DEFINE x == Append(t.obligations, NewObligation(op))
  <2>1. Unblocked(NewObligation(op))
    BY Zenon DEF Unblocked, NewObligation
  <2>2. AllUnblocked(x)
    BY <1>1, <2>1, UnblockedAppend
  <2>3. ApplyOp(t, op, ref) = [t EXCEPT !.obligations = x]
    BY <1>7 DEF ApplyOp
  <2>. HIDE DEF x
  <2>. QED  BY <1>3, <2>2, <2>3
<1>8. CASE op.kind = "CloseObligation"
  <2>1. AllUnblocked(CloseObligation(t.obligations, op))
    BY <1>1, CloseKeepsUnblocked
  <2>2. ApplyOp(t, op, ref) = [t EXCEPT !.obligations = CloseObligation(t.obligations, op)]
    BY <1>8 DEF ApplyOp
  <2>. QED  BY <1>3, <2>1, <2>2
<1>9. CASE op.kind = "TransitionObligation"
  <2>1. AllUnblocked(TransitionObligation(t.obligations, op))
    BY <1>1, <1>9, TransitionKeepsUnblocked DEF Orderly
  <2>2. ApplyOp(t, op, ref) = [t EXCEPT !.obligations = TransitionObligation(t.obligations, op)]
    BY <1>9 DEF ApplyOp
  <2>. QED  BY <1>3, <2>1, <2>2
<1>. QED  BY <1>4, <1>5, <1>6, <1>7, <1>8, <1>9 DEF Orderly, OperationKinds

\* A transaction of orderly operations, by induction over the operations applied.
LEMMA RequestKeepsGoverned ==
    ASSUME NEW t, IsGoverned(t), NEW tx, IsRequest(tx),
           \A i \in DOMAIN tx.operations : Orderly(tx.operations[i])
    PROVE  IsGoverned(ApplyTx(t, tx))
<1>. DEFINE ops == tx.operations
            ref == tx.handoffEvidenceRef
            len == Len(ops)
<1>1. len \in Nat /\ \A n \in 1..len : Orderly(ops[n])
  BY DEF IsRequest
<1>2. PICK f : /\ f[0] = t /\ f[len] = ApplyTx(t, tx)
               /\ \A n \in 1..len : f[n] = ApplyOp(f[n - 1], ops[n], ref)
  BY <1>1, ApplyTxSteps
<1>. DEFINE Good == {n \in Nat : n \in 0..len => IsGoverned(f[n])}
<1>3. 0 \in Good
  BY <1>2
<1>4. ASSUME NEW n \in Nat, n \in Good PROVE n + 1 \in Good
  <2>. SUFFICES ASSUME n + 1 \in 0..len PROVE IsGoverned(f[n + 1])
    OBVIOUS
  <2>1. IsGoverned(f[n]) /\ n + 1 \in 1..len /\ (n + 1) - 1 = n
    BY <1>1, <1>4
  <2>2. f[n + 1] = ApplyOp(f[n], ops[n + 1], ref) /\ Orderly(ops[n + 1])
    BY <1>1, <1>2, <2>1
  <2>. QED  BY <2>1, <2>2, OperationKeepsGoverned
<1>5. len \in Good
  <2>. HIDE DEF Good
  <2>. QED  BY <1>1, <1>3, <1>4, SetInduction
<1>. QED  BY <1>1, <1>2, <1>5

\* An admitted request is orderly: gate 8 judges each of its operations.
LEMMA AdmittedKeepsGoverned ==
    ASSUME NEW t, IsGoverned(t), NEW tx, IsRequest(tx), NEW actor, NEW root,
           ContentGates(t, tx, actor, root) = "None"
    PROVE  IsGoverned(ApplyTx(t, tx))
<1>1. \A op \in ToSet(tx.operations) : InvariantOK(t, op)
  BY AdmittedPasses
<1>2. ASSUME NEW i \in DOMAIN tx.operations PROVE Orderly(tx.operations[i])
  <2>. DEFINE op == tx.operations[i]
  <2>1. op.kind \in OperationKinds /\ InvariantOK(t, op)
    BY <1>1 DEF IsRequest, ToSet
  <2>2. op.kind = "TransitionObligation" => TransitionObligationOK(t, op)
    BY <2>1 DEF InvariantOK
  <2>. HIDE DEF op
  <2>3. Orderly(op)
    BY <2>1, <2>2 DEF TransitionObligationOK, Orderly
  <2>. QED  BY <2>3 DEF op
<1>. QED  BY <1>2, RequestKeepsGoverned

\* Trees that are written alike are governed alike.
LEMMA AlikeGoverned ==
    ASSUME NEW a, NEW b, Alike(a, b), IsGoverned(a)
    PROVE  IsGoverned(b)
<1>1. a.rootPrincipal = b.rootPrincipal /\ a.obligations = b.obligations
  BY Fields DEF Alike
<1>. QED  BY <1>1 DEF Alike, IsGoverned

\* The genesis carries the root principal it was made for and obliges nobody.
LEMMA GenesisGoverned == IsGoverned(makeGenesis)
<1>1. makeGenesis.rootPrincipal = RootPrincipal /\ makeGenesis.obligations = <<>>
  BY Zenon DEF makeGenesis
<1>2. AllUnblocked(<<>>)
  BY DEF AllUnblocked, IsSequence
<1>. QED  BY <1>1, <1>2, GenesisIsTree DEF IsGoverned

---------------------------------------------------------------------------
\* Two trees alike to a third are alike.
LEMMA AlikeThroughThird ==
    ASSUME NEW a, NEW b, NEW c, Alike(a, b), Alike(c, b)
    PROVE  Alike(a, c)
  BY DEF Alike

\* A revision pins what its handles show, whichever store they come from.
LEMMA SameRevisionIsAlike ==
    ASSUME TypeOK, StoresAreChains, DurabilityInv, HistoryInv,
           NEW h \in Handles, NEW k \in Handles, mats[h].revision = mats[k].revision,
           mats[h].quarantine = "Promoted", mats[h].revision # NoRevision,
           mats[k].quarantine = "Promoted"
    PROVE  Alike(mats[h].state, mats[k].state)
<1>1. PICK base, bytes : /\ mats[h].revision = <<base, bytes>>
                         /\ Alike(mats[h].state, deserializeImpl(bytes))
  BY ShownIsHeld
<1>2. PICK base2, bytes2 : /\ mats[k].revision = <<base2, bytes2>>
                           /\ Alike(mats[k].state, deserializeImpl(bytes2))
  BY ShownIsHeld
<1>3. bytes = bytes2
  <2>1. <<base, bytes>> = <<base2, bytes2>>
    BY <1>1, <1>2, Zenon
  <2>2. <<base, bytes>>[2] = <<base2, bytes2>>[2]
    BY <2>1, Zenon
  <2>. QED  BY <2>2
<1>. QED  BY <1>1, <1>2, <1>3, AlikeThroughThird

---------------------------------------------------------------------------
(* Every revision of every store is governed as its genesis was. *)

StoredAreGoverned ==
    \A s \in StoreIds : \A i \in DOMAIN stores[s].revisions :
       IsGoverned(deserializeImpl(stores[s].revisions[i].bytes))

\* Writing a tree and reading it back.
LEMMA WrittenIsGoverned ==
    ASSUME NEW t, IsGoverned(t)
    PROVE  IsGoverned(deserializeImpl(serializeImpl(t)))
  BY ReadBackIsAlike, AlikeGoverned DEF IsGoverned

\* What a store gains is the genesis, or an admitted transaction on a governed head.
LEMMA GainedIsGoverned ==
    ASSUME TypeOK, StoredAreGoverned, NEW s \in StoreIds, NEW new, Evolves(stores[s], new)
    PROVE  \/ new.revisions = stores[s].revisions
           \/ \E r : /\ new.revisions = Append(stores[s].revisions, r)
                     /\ IsGoverned(deserializeImpl(r.bytes))
<1>. DEFINE store == stores[s]
            tree == HeadTree(store)
<1>1. CASE store.revisions = <<>>
  BY <1>1, GenesisGoverned, WrittenIsGoverned DEF Evolves
<1>2. ASSUME store.revisions # <<>>, NEW request \in Requests, NEW actor,
             Admits(store, request, actor)
      PROVE  IsGoverned(deserializeImpl(serializeImpl(ApplyTx(tree, request))))
  <2>1. IsSequence(store.revisions)
    BY DEF TypeOK, StoresOK
  <2>2. Len(store.revisions) \in DOMAIN store.revisions
    BY <1>2, <2>1 DEF IsSequence
  <2>3. IsGoverned(tree)
    BY <2>2 DEF HeadTree, HeadBytes, StoredAreGoverned
  <2>4. IsRequest(request)
    BY RequestFacts
  <2>5. IsGoverned(ApplyTx(tree, request))
    BY <1>2, <2>3, <2>4, AdmittedKeepsGoverned DEF Admits
  <2>. QED  BY <2>5, WrittenIsGoverned
<1>. HIDE DEF tree
<1>. QED  BY <1>1, <1>2 DEF Evolves, tree

\* And what it already held stays.
LEMMA GovernedStep ==
    ASSUME TypeOK, StoredAreGoverned, StoresEvolve
    PROVE  StoredAreGoverned'
<1>1. ASSUME NEW s \in StoreIds
      PROVE  \A i \in DOMAIN stores'[s].revisions :
                IsGoverned(deserializeImpl(stores'[s].revisions[i].bytes))
  <2>1. IsSequence(stores[s].revisions)
    BY DEF TypeOK, StoresOK
  <2>2. CASE stores'[s].revisions = stores[s].revisions
    BY <2>2 DEF StoredAreGoverned
  <2>3. ASSUME NEW r, stores'[s].revisions = Append(stores[s].revisions, r),
               IsGoverned(deserializeImpl(r.bytes))
        PROVE  \A i \in DOMAIN stores'[s].revisions :
                  IsGoverned(deserializeImpl(stores'[s].revisions[i].bytes))
    <3>. DEFINE n == Len(stores[s].revisions)
    <3>1. /\ DOMAIN stores[s].revisions = 1..n /\ n \in Nat
          /\ DOMAIN stores'[s].revisions = 1..n + 1 /\ stores'[s].revisions[n + 1] = r
          /\ \A i \in 1..n : stores'[s].revisions[i] = stores[s].revisions[i]
      BY <2>1, <2>3, SequenceFacts, AppendFacts
    <3>2. \A i \in 1..n + 1 : i \in 1..n \/ i = n + 1
      BY <3>1
    <3>. QED  BY <2>3, <3>1, <3>2 DEF StoredAreGoverned
  <2>. QED  BY <2>2, <2>3, GainedIsGoverned DEF StoresEvolve
<1>. QED  BY <1>1 DEF StoredAreGoverned

\* No sequence of admitted writes, by this service or another, changes whom a store's
\* trees are governed by, or leaves an obligation Blocked: gate 8 judges every operation.
THEOREM GovernedInvariant == Spec => []StoredAreGoverned
<1>1. Init => StoredAreGoverned
  BY DEF Init, StoredAreGoverned, EmptyStore
<1>2. /\ TypeOK /\ StoresAreChains /\ DurabilityInv /\ HistoryInv /\ LeaseIsLatestGrant
      /\ StoredAreGoverned /\ [Next]_vars
      => StoredAreGoverned'
  BY HistoryStep, GovernedStep
<1>. QED
  BY <1>1, <1>2, HistoryInvariant, DurabilityInvariant, StoresStayChains, LeaseIsSingle,
     TypeCorrect, PTL DEF Spec

\* What a promoted handle shows of a stored revision.
LEMMA ShownIsGoverned ==
    ASSUME TypeOK, StoresAreChains, DurabilityInv, HistoryInv, StoredAreGoverned,
           NEW h \in Handles, mats[h].quarantine = "Promoted", mats[h].revision # NoRevision
    PROVE  IsGoverned(mats[h].state)
<1>1. PICK s, bytes : /\ s \in StoreIds /\ Holds(stores[s], mats[h].revision, bytes)
                      /\ Alike(mats[h].state, deserializeImpl(bytes))
  BY ShownIsHeld
<1>2. IsGoverned(deserializeImpl(bytes))
  BY <1>1 DEF Holds, StoredAreGoverned
<1>3. Alike(deserializeImpl(bytes), mats[h].state)
  BY <1>1 DEF Alike
<1>. QED  BY <1>2, <1>3, AlikeGoverned

---------------------------------------------------------------------------
(* What an applied verdict delivers. *)

\* In a heap, handle k shows what handle h, which has a storage identity, shows with
\* the transaction applied to it.
Delivered(heap, h, tx, k) ==
    /\ h \in DOMAIN heap /\ k \in DOMAIN heap
    /\ heap[h].quarantine = "Promoted"
    /\ heap[h].revision # NoRevision /\ tx.base = heap[h].revision
    /\ heap[k].state = ApplyTx(heap[h].state, tx)

\* The successor of an applied receipt shows the transaction of the request that the
\* receipt's digest stands for, applied to what the request was based on.
ReceiptsDeliver ==
    \A key \in DOMAIN g_receipts :
       g_receipts[key].outcome.outcome = "Applied" =>
          \E h, base : \E request \in Requests :
             /\ g_receipts[key].requestDigest = request_digest_of(WithBase(request, base))
             /\ Delivered(mats, h, WithBase(request, base), g_receipts[key].outcome.successor)

\* A heap that only grows keeps what it delivered.
LEMMA DeliveredStays ==
    ASSUME TypeOK, [Next]_vars, NEW h, NEW tx, NEW k, Delivered(mats, h, tx, k)
    PROVE  Delivered(mats', h, tx, k)
  BY HeapIsImmutable DEF Delivered, Handles

\* Only a write records a receipt.
LEMMA OnlyWritesRecord ==
    ASSUME [Next]_vars
    PROVE  \/ g_receipts' = g_receipts
           \/ \E h \in Handles, request \in Requests : \E base, g :
                 write_to_cognition(h, WithBase(request, base), g)
<1>1. ASSUME NEW s, NEW port, NEW h, NEW actor, NEW mode, NEW g, NEW r, NEW a,
             \/ attachStore(s) \/ attach_identity_verifier(port) \/ retire_cognition(h)
             \/ acquire_grant(actor, mode) \/ release_grant(g) \/ create_canonical(r)
             \/ create_canonical_raced \/ create_from_artifact(a)
             \/ verify_restored(h, actor) \/ promote_authority(h, actor)
      PROVE  g_receipts' = g_receipts
  BY <1>1 DEF attachStore, attach_identity_verifier, retire_cognition, acquire_grant,
              release_grant, create_canonical, create_canonical_raced, create_from_artifact,
              verify_restored, promote_authority, QuarantineStep
<1>2. ASSUME NEW s, NEW request, NEW actor, ForeignGenesis(s) \/ ForeignCommit(s, request, actor)
      PROVE  g_receipts' = g_receipts
  BY <1>2 DEF ForeignGenesis, ForeignCommit, ForeignChange
<1>3. UNCHANGED vars => g_receipts' = g_receipts
  BY DEF vars, serviceState
<1>. QED  BY <1>1, <1>2, <1>3, Zenon DEF Next

\* A write is only committed through a handle that has a storage identity: the head
\* that governs it is not the empty revision.
LEMMA CommittedOnIdentity ==
    ASSUME TypeOK, StoresAreChains, NEW h \in Handles, NEW tx, NEW g,
           WriteGates(h, tx, g) = "None", NEW bytes,
           NEW answer \in StoreAnswers(stores[g_store], mats[h].revision, bytes, StoreLosses),
           answer.kind = "Committed"
    PROVE  mats[h].revision # NoRevision
<1>. DEFINE store == stores[g_store]
<1>1. g_store \in StoreIds /\ store.head # NoRevision
  BY WritePassed, SessionPassed DEF TypeOK, LeaseOK
<1>2. store.revisions # <<>>
  BY <1>1, StoreHead DEF TypeOK, StoresOK, StoresAreChains
<1>3. answer = compareAndSwap(store, mats[h].revision, bytes)
  BY AnswerFacts
<1>. HIDE DEF store
<1>4. mats[h].revision = store.head
  BY <1>2, <1>3 DEF compareAndSwap
<1>. QED  BY <1>1, <1>4

\* A fresh write that is applied publishes the successor that its verdict names.
LEMMA FreshWriteDelivers ==
    ASSUME TypeOK, StoresAreChains, NEW h \in Handles, NEW tx, NEW g, WriteGates(h, tx, g) = "None",
           WriteThrough(h, tx, g)
    PROVE  \/ g_receipts' = g_receipts /\ result'.verdict.outcome # "Applied"
           \/ \E verdict : /\ g_receipts' = Recorded(tx, verdict) /\ result'.verdict = verdict
                           /\ verdict.outcome # "Applied"
           \/ \E verdict : /\ g_receipts' = Recorded(tx, verdict) /\ result'.verdict = verdict
                           /\ Delivered(mats', h, tx, verdict.successor)
<1>. DEFINE bytes == serializeImpl(ApplyTx(mats[h].state, tx))
            applied == Verdict("Applied", "StoreDiverged", Len(mats) + 1)
            unknown == Verdict("OutcomeUnknown", "OutcomeUnresolved", NoHandle)
            refused == Verdict("Refused", "StoreDiverged", NoHandle)
            threw == Verdict("Threw", "None", NoHandle)
<1>1. PICK answer \in StoreAnswers(stores[g_store], mats[h].revision, bytes, StoreLosses) :
         WriteAnswered(h, tx, g, bytes, answer)
  BY DEF WriteThrough
<1>2. mats[h].quarantine = "Promoted" /\ tx.base = mats[h].revision
  BY WritePassed, SessionPassed
<1>3. ASSUME NEW verdict, Return("write", verdict, g) PROVE result'.verdict = verdict
  BY <1>3 DEF Return
<1>4. /\ applied.successor = Len(mats) + 1 /\ unknown.outcome = "OutcomeUnknown"
      /\ refused.outcome = "Refused" /\ threw.outcome = "Threw"
  BY DEF Verdict
<1>5. CASE /\ Return("write", refused, g) \/ Return("write", threw, g)
           /\ g_receipts' = g_receipts
  BY <1>3, <1>4, <1>5
<1>6. CASE Return("write", unknown, g) /\ g_receipts' = Recorded(tx, unknown)
  BY <1>3, <1>4, <1>6
<1>7. CASE /\ answer.kind = "Committed" /\ PublishSuccessor(h, tx, bytes, answer.revision)
           /\ g_receipts' = Recorded(tx, applied) /\ Return("write", applied, g)
  <2>. DEFINE m == [state |-> ApplyTx(mats[h].state, tx), digest |-> draft_snapshot_digest(bytes),
                    revision |-> answer.revision, epoch |-> mats[h].epoch,
                    quarantine |-> mats[h].quarantine]
  <2>1. mats' = Append(mats, m)
    BY <1>7 DEF PublishSuccessor, Replace
  <2>2. m.state = ApplyTx(mats[h].state, tx)
    OBVIOUS
  <2>. HIDE DEF m
  <2>3. /\ Len(mats) \in Nat /\ Handles = 1..Len(mats) /\ Handles' = 1..Len(mats) + 1
        /\ mats'[Len(mats) + 1] = m
        /\ \A k \in Handles : mats'[k] = mats[k]
    BY <2>1, HeapAppended
  <2>4. Delivered(mats', h, tx, Len(mats) + 1)
    <3>1. mats[h].revision # NoRevision
      BY <1>7, CommittedOnIdentity
    <3>. QED  BY <1>2, <2>2, <2>3, <3>1 DEF Delivered, Handles
  <2>. HIDE DEF applied
  <2>. QED  BY <1>3, <1>4, <1>7, <2>4
<1>. HIDE DEF bytes, applied, unknown, refused, threw
<1>. QED  BY <1>1, <1>5, <1>6, <1>7 DEF WriteAnswered, Threw, applied, unknown, refused, threw

\* A receipt is recorded once, with the verdict that published its successor.
LEMMA ReceiptsDeliverStep ==
    TypeOK /\ StoresAreChains /\ ReceiptsDeliver /\ [Next]_vars => ReceiptsDeliver'
<1>. SUFFICES ASSUME TypeOK, StoresAreChains, ReceiptsDeliver, [Next]_vars PROVE ReceiptsDeliver'
  OBVIOUS
<1>1. ASSUME NEW key \in DOMAIN g_receipts, g_receipts[key].outcome.outcome = "Applied"
      PROVE  \E h, base : \E request \in Requests :
                /\ g_receipts[key].requestDigest = request_digest_of(WithBase(request, base))
                /\ Delivered(mats', h, WithBase(request, base), g_receipts[key].outcome.successor)
  BY <1>1, DeliveredStays DEF ReceiptsDeliver
<1>2. CASE g_receipts' = g_receipts
  BY <1>1, <1>2 DEF ReceiptsDeliver
<1>3. ASSUME NEW h \in Handles, NEW request \in Requests, NEW base, NEW g,
             write_to_cognition(h, WithBase(request, base), g), g_receipts' # g_receipts
      PROVE  ReceiptsDeliver'
  <2>. DEFINE tx == WithBase(request, base)
  <2>1. WriteGates(h, tx, g) = "None" /\ WriteThrough(h, tx, g)
    BY <1>3 DEF write_to_cognition, WriteReplay, WriteRefused, WriteNothing
  <2>2. PICK verdict : /\ g_receipts' = Recorded(tx, verdict)
                       /\ verdict.outcome # "Applied" \/ Delivered(mats', h, tx, verdict.successor)
    BY <1>3, <2>1, FreshWriteDelivers
  <2>3. ASSUME NEW key \in DOMAIN g_receipts'
        PROVE  \/ key \in DOMAIN g_receipts /\ g_receipts'[key] = g_receipts[key]
               \/ /\ g_receipts'[key].requestDigest = request_digest_of(tx)
                  /\ g_receipts'[key].outcome = verdict
    BY <2>2, <2>3 DEF Recorded
  <2>. HIDE DEF tx
  <2>4. ASSUME NEW key \in DOMAIN g_receipts', g_receipts'[key].outcome.outcome = "Applied"
        PROVE  \E k, b : \E other \in Requests :
                  /\ g_receipts'[key].requestDigest = request_digest_of(WithBase(other, b))
                  /\ Delivered(mats', k, WithBase(other, b), g_receipts'[key].outcome.successor)
    <3>1. CASE key \in DOMAIN g_receipts /\ g_receipts'[key] = g_receipts[key]
      BY <1>1, <2>4, <3>1
    <3>2. CASE /\ g_receipts'[key].requestDigest = request_digest_of(tx)
               /\ g_receipts'[key].outcome = verdict
      BY <2>2, <2>4, <3>2 DEF tx
    <3>. QED  BY <2>3, <3>1, <3>2
  <2>. QED  BY <2>4, Zenon DEF ReceiptsDeliver
<1>. QED  BY <1>2, <1>3, OnlyWritesRecord

\* The receipts of every reachable state deliver.
LEMMA ReceiptsDeliverInvariant == Spec => []ReceiptsDeliver
<1>1. Init => ReceiptsDeliver
  BY DEF Init, ReceiptsDeliver
<1>. QED  BY <1>1, ReceiptsDeliverStep, StoresStayChains, TypeCorrect, PTL DEF Spec

\* The digest covers every field of the request but the idempotency key: equal digests
\* stand for the same operations, on the same base.
LEMMA SameDigestIsSameRequest ==
    ASSUME NEW tx, NEW other, request_digest_of(tx) = request_digest_of(other)
    PROVE  SameRequest(tx, other) /\ tx.base = other.base
<1>1. request_digest_of(tx)[1] = request_digest_of(other)[1]
      /\ request_digest_of(tx)[2] = request_digest_of(other)[2]
      /\ request_digest_of(tx)[3] = request_digest_of(other)[3]
      /\ request_digest_of(tx)[4] = request_digest_of(other)[4]
  BY Zenon
<1>2. /\ tx.base = other.base /\ digest_operations(tx.operations) = digest_operations(other.operations)
      /\ tx.handoffEvidenceRef = other.handoffEvidenceRef /\ tx.h2 = other.h2
  BY <1>1 DEF request_digest_of
<1>3. digest_operations(tx.operations)[2] = digest_operations(other.operations)[2]
  BY <1>2
<1>. QED  BY <1>2, <1>3 DEF digest_operations, SameRequest

\* An applied verdict of a write, new or replayed or of nothing, names a successor
\* that is written as the delta applied to what the write was based on, which has a
\* storage identity unless there was nothing to write.
LEMMA AppliedDelivers ==
    ASSUME TypeOK, StoresAreChains, DurabilityInv, HistoryInv, ReceiptsDeliver, [Next]_vars,
           NEW h \in Handles, NEW request \in Requests, NEW g, mats[h].quarantine = "Promoted",
           write_to_cognition(h, WithBase(request, mats[h].revision), g),
           result'.verdict.outcome = "Applied"
    PROVE  /\ serializeImpl(mats'[result'.verdict.successor].state)
                = serializeImpl(ApplyTx(mats[h].state, WithBase(request, mats[h].revision)))
           /\ mats[h].revision # NoRevision \/ request.operations = <<>>
<1>. DEFINE tx == WithBase(request, mats[h].revision)
            k == result'.verdict.successor
<1>1. IsRequest(tx) /\ tx.base = mats[h].revision /\ IsTree(mats[h].state)
  BY RequestFacts DEF WithBase, HistoryInv, PromotedAreTrees
<1>2. \A j \in Handles : mats'[j] = mats[j]
  BY HeapIsImmutable
<1>3. CASE HasReceipt(tx) /\ WriteReplay(tx, g)
  <2>. DEFINE receipt == g_receipts[tx.idempotencyKey]
  <2>1. receipt.requestDigest = request_digest_of(tx) /\ result'.verdict = receipt.outcome
    BY <1>3 DEF WriteReplay, Return, Verdict
  <2>2. PICK j, base : \E other \in Requests :
           /\ receipt.requestDigest = request_digest_of(WithBase(other, base))
           /\ Delivered(mats, j, WithBase(other, base), receipt.outcome.successor)
    BY <1>3, <2>1 DEF HasReceipt, ReceiptsDeliver
  <2>3. PICK other \in Requests :
           /\ receipt.requestDigest = request_digest_of(WithBase(other, base))
           /\ Delivered(mats, j, WithBase(other, base), receipt.outcome.successor)
    BY <2>2
  <2>. DEFINE old == WithBase(other, base)
  <2>4. SameRequest(tx, old) /\ tx.base = old.base
    BY <2>1, <2>3, SameDigestIsSameRequest
  <2>5. /\ j \in Handles /\ k \in Handles /\ mats[j].quarantine = "Promoted"
        /\ mats[j].revision = mats[h].revision /\ mats[h].revision # NoRevision
        /\ mats[k].state = ApplyTx(mats[j].state, old)
    BY <1>1, <2>1, <2>3, <2>4 DEF Delivered, Handles
  <2>. HIDE DEF old, tx, k
  <2>6. Alike(mats[h].state, mats[j].state)
    BY <2>5, SameRevisionIsAlike
  <2>7. Alike(ApplyTx(mats[h].state, tx), ApplyTx(mats[j].state, old))
    BY <1>1, <2>4, <2>6, RequestKeepsAlike
  <2>8. serializeImpl(mats'[k].state) = serializeImpl(ApplyTx(mats[h].state, tx))
    BY <1>2, <2>5, <2>7, AlikeIsWrittenAlike
  <2>. QED  BY <2>5, <2>8 DEF k, tx
<1>4. CASE tx.operations = <<>> /\ WriteNothing(h, g)
  <2>1. k = h
    BY <1>4 DEF WriteNothing, Return, Verdict
  <2>2. Len(tx.operations) = 0
    BY <1>4
  <2>3. ApplyTx(mats[h].state, tx) = mats[h].state
    BY <2>2, ApplyTxSteps
  <2>4. request.operations = <<>>
    BY <1>4 DEF WithBase
  <2>. QED  BY <1>2, <2>1, <2>3, <2>4
<1>5. CASE WriteGates(h, tx, g) = "None" /\ WriteThrough(h, tx, g)
  <2>1. Delivered(mats', h, tx, k)
    BY <1>5, FreshWriteDelivers
  <2>2. mats[h].revision # NoRevision
    BY <1>2, <2>1 DEF Delivered
  <2>. QED  BY <1>2, <2>1, <2>2 DEF Delivered
<1>6. ASSUME NEW reason, WriteRefused(reason, g) PROVE FALSE
  BY <1>6 DEF WriteRefused, Return, Verdict
<1>. QED  BY <1>3, <1>4, <1>5, <1>6 DEF write_to_cognition
=============================================================================
