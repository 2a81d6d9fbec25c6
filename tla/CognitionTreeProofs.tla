------------------------ MODULE CognitionTreeProofs ------------------------
(***************************************************************************)
(* Lemmas about the operators of CognitionTree. The library's induction    *)
(* theorems take an operator as a parameter, which the provers cannot      *)
(* instantiate, so induction is stated here for sets (SetInduction) and    *)
(* derived from the well-foundedness of finite sets. It gives the          *)
(* recursions of ApplyTx and Kept (each shown to be well defined first),   *)
(* and from there the induction over the operations of a transaction that  *)
(* the proofs about TreeEvolution rest on.                                 *)
(***************************************************************************)
EXTENDS CognitionTree, FiniteSetTheorems, SequenceTheorems, TLAPS

\* Every non-empty set of naturals has a least element: the intervals 0..n are
\* finite sets, and finite sets are well-founded under inclusion.
LEMMA LeastElement ==
    ASSUME NEW T, T \subseteq Nat, T # {}
    PROVE  \E x \in T : \A y \in T : x <= y
<1>. DEFINE Below == {0..n : n \in T}
<1>1. Below \subseteq FiniteSubsetsOf(Nat)
  <2>1. \A n \in T : 0..n \subseteq Nat /\ IsFiniteSet(0..n)
    BY FS_Interval
  <2>. QED  BY <2>1 DEF FiniteSubsetsOf
<1>2. Below # {}
  OBVIOUS
<1>3. IsWellFoundedOn(StrictSubsetOrdering(Nat), FiniteSubsetsOf(Nat))
  BY FS_StrictSubsetOrderingWellFounded
<1>4. PICK b \in Below : \A c \in Below : <<c, b>> \notin StrictSubsetOrdering(Nat)
  <2>. HIDE DEF Below
  <2>. QED  BY <1>1, <1>2, <1>3, WFMin
<1>5. PICK x \in T : b = 0..x
  OBVIOUS
<1>6. ASSUME NEW y \in T, y < x PROVE FALSE
  <2>1. 0..y \subseteq 0..x /\ 0..y # 0..x /\ 0..y \in SUBSET Nat /\ 0..x \in SUBSET Nat
    <3>1. x \in 0..x /\ x \notin 0..y
      BY <1>6
    <3>. QED  BY <1>6, <3>1
  <2>2. <<0..y, 0..x>> \in StrictSubsetOrdering(Nat)
    BY <2>1 DEF StrictSubsetOrdering
  <2>. QED  BY <2>2, <1>4, <1>5
<1>. QED  BY <1>6

\* Induction over the naturals, for a set in place of a predicate.
LEMMA SetInduction ==
    ASSUME NEW S, 0 \in S, \A n \in Nat : n \in S => n + 1 \in S
    PROVE  Nat \subseteq S
<1>. SUFFICES ASSUME Nat \ S # {} PROVE FALSE
  OBVIOUS
<1>1. PICK x \in Nat \ S : \A y \in Nat \ S : x <= y
  BY LeastElement
<1>2. x # 0 /\ x - 1 \in Nat /\ x - 1 \notin Nat \ S
  BY <1>1
<1>. QED  BY <1>2

\* g goes from base through len steps, each a function, within S.
Walks(g, S, base, step, len) ==
    /\ g[0] = base /\ \A n \in 0..len : g[n] \in S
    /\ \A n \in 1..len : g[n] = step[n][g[n - 1]]

\* Taking one step after the other, each a function on S, is well defined and stays
\* in S.
LEMMA StepsExist ==
    ASSUME NEW S, NEW base \in S, NEW len \in Nat, NEW step,
           \A n \in 1..len : \A x \in S : step[n][x] \in S
    PROVE  \E g : Walks(g, S, base, step, len)
<1>. DEFINE Good == {k \in Nat : k <= len => \E g : Walks(g, S, base, step, k)}
<1>1. 0 \in Good
  <2>1. Walks([n \in 0..0 |-> base], S, base, step, 0)
    BY DEF Walks
  <2>. QED  BY <2>1
<1>2. ASSUME NEW k \in Nat, k \in Good PROVE k + 1 \in Good
  <2>. SUFFICES ASSUME k + 1 <= len PROVE \E g : Walks(g, S, base, step, k + 1)
    OBVIOUS
  <2>1. PICK g : Walks(g, S, base, step, k)
    BY <1>2
  <2>. DEFINE h == [n \in 0..k + 1 |-> IF n = k + 1 THEN step[k + 1][g[k]] ELSE g[n]]
  <2>2. k + 1 \in 1..len /\ g[k] \in S
    BY <2>1 DEF Walks
  <2>3. step[k + 1][g[k]] \in S
    BY <2>2
  <2>4. h[0] = base /\ \A n \in 0..k + 1 : h[n] \in S
    BY <2>1, <2>3 DEF Walks
  <2>5. ASSUME NEW n \in 1..k + 1 PROVE h[n] = step[n][h[n - 1]]
    <3>1. CASE n = k + 1
      BY <3>1
    <3>2. CASE n \in 1..k
      <4>1. h[n] = g[n] /\ h[n - 1] = g[n - 1]
        BY <3>2
      <4>. QED  BY <2>1, <3>2, <4>1 DEF Walks
    <3>. QED  BY <3>1, <3>2
  <2>. HIDE DEF h
  <2>. QED  BY <2>4, <2>5 DEF Walks
<1>3. len \in Good
  <2>. HIDE DEF Good
  <2>. QED  BY <1>1, <1>2, SetInduction
<1>. QED  BY <1>3

\* g holds the trees that the first len of the operations leave behind, one after
\* the other.
AreAfter(g, tree, ops, ref, len) ==
    g = [n \in 0..len |-> IF n = 0 THEN tree ELSE ApplyOp(g[n - 1], ops[n], ref)]

\* Those trees exist as a function: the recursion of ApplyTx is well defined.
LEMMA AfterExists ==
    ASSUME NEW tree, NEW ops, NEW ref, NEW len \in Nat
    PROVE  \E g : AreAfter(g, tree, ops, ref, len)
<1>. DEFINE Fits(g, k) == g = [n \in 0..k |->
                                 IF n = 0 THEN tree ELSE ApplyOp(g[n - 1], ops[n], ref)]
            S == {k \in Nat : \E g : Fits(g, k)}
<1>1. 0 \in S
  <2>1. Fits([n \in 0..0 |-> tree], 0)
    OBVIOUS
  <2>. QED  BY <2>1
<1>2. ASSUME NEW k \in Nat, k \in S PROVE k + 1 \in S
  <2>1. PICK g : Fits(g, k)
    BY <1>2
  <2>. DEFINE h == [n \in 0..k + 1 |-> IF n = k + 1 THEN ApplyOp(g[k], ops[k + 1], ref) ELSE g[n]]
  <2>2. h[0] = tree
    BY <2>1
  <2>3. h[k + 1] = ApplyOp(h[k], ops[k + 1], ref)
    OBVIOUS
  <2>4. ASSUME NEW n \in 1..k PROVE h[n] = ApplyOp(h[n - 1], ops[n], ref)
    BY <2>1
  <2>5. h = [n \in 0..k + 1 |-> IF n = 0 THEN tree ELSE ApplyOp(h[n - 1], ops[n], ref)]
    <3>1. \A n \in 0..k + 1 : n = 0 \/ n = k + 1 \/ n \in 1..k
      OBVIOUS
    <3>2. h = [n \in 0..k + 1 |-> h[n]]
      OBVIOUS
    <3>. HIDE DEF h
    <3>3. \A n \in 0..k + 1 : h[n] = IF n = 0 THEN tree ELSE ApplyOp(h[n - 1], ops[n], ref)
      <4>. SUFFICES ASSUME NEW n \in 0..k + 1
                    PROVE  h[n] = IF n = 0 THEN tree ELSE ApplyOp(h[n - 1], ops[n], ref)
        OBVIOUS
      <4>1. CASE n = 0
        BY <4>1, <2>2
      <4>2. CASE n = k + 1
        BY <4>2, <2>3
      <4>3. CASE n \in 1..k
        BY <4>3, <2>4
      <4>. QED  BY <3>1, <4>1, <4>2, <4>3
    <3>. QED  BY <3>2, <3>3
  <2>. HIDE DEF h
  <2>. QED  BY <2>5
<1>. HIDE DEF S
<1>3. len \in S
  BY <1>1, <1>2, SetInduction
<1>. QED  BY <1>3 DEF S, AreAfter

\* A transaction goes through one tree after each of its operations.
LEMMA ApplyTxSteps ==
    ASSUME NEW tree, NEW tx, Len(tx.operations) \in Nat
    PROVE  \E after :
              /\ after[0] = tree
              /\ \A n \in 1..Len(tx.operations) :
                    after[n] = ApplyOp(after[n - 1], tx.operations[n], tx.handoffEvidenceRef)
              /\ after[Len(tx.operations)] = ApplyTx(tree, tx)
<1>. DEFINE len == Len(tx.operations)
            ops == tx.operations
            ref == tx.handoffEvidenceRef
            after == CHOOSE g : g = [n \in 0..len |->
                        IF n = 0 THEN tree ELSE ApplyOp(g[n - 1], ops[n], ref)]
<1>1. after = [n \in 0..len |-> IF n = 0 THEN tree ELSE ApplyOp(after[n - 1], ops[n], ref)]
  <2>1. \E g : AreAfter(g, tree, ops, ref, len)
    BY AfterExists
  <2>. QED  BY <2>1 DEF AreAfter
<1>2. after[len] = ApplyTx(tree, tx)
  BY DEF ApplyTx
<1>. HIDE DEF after
<1>3. after[0] = tree
  BY <1>1
<1>4. ASSUME NEW n \in 1..len PROVE after[n] = ApplyOp(after[n - 1], ops[n], ref)
  <2>1. n \in 0..len /\ n # 0
    OBVIOUS
  <2>. QED  BY <1>1, <2>1
<1>. QED  BY <1>2, <1>3, <1>4

\* A set of trees that each operation of a transaction stays in, whatever tree of
\* the set the operations before it left behind, is not left by the transaction.
LEMMA ApplyTxInduction ==
    ASSUME NEW S, NEW tree \in S, NEW tx, Len(tx.operations) \in Nat,
           \A n \in 1..Len(tx.operations) : \A t \in S :
              ApplyOp(t, tx.operations[n], tx.handoffEvidenceRef) \in S
    PROVE  ApplyTx(tree, tx) \in S
<1>. DEFINE len == Len(tx.operations)
<1>1. PICK after :
         /\ after[0] = tree
         /\ \A n \in 1..len : after[n] = ApplyOp(after[n - 1], tx.operations[n],
                                                tx.handoffEvidenceRef)
         /\ after[len] = ApplyTx(tree, tx)
  BY ApplyTxSteps
<1>. DEFINE Good == {n \in Nat : n \in 0..len => after[n] \in S}
<1>2. 0 \in Good
  BY <1>1
<1>3. ASSUME NEW n \in Nat, n \in Good PROVE n + 1 \in Good
  <2>. SUFFICES ASSUME n + 1 \in 0..len PROVE after[n + 1] \in S
    OBVIOUS
  <2>1. after[n] \in S /\ n + 1 \in 1..len /\ (n + 1) - 1 = n
    BY <1>3
  <2>. QED  BY <1>1, <2>1
<1>4. len \in Good
  <2>. HIDE DEF Good
  <2>. QED  BY <1>2, <1>3, SetInduction
<1>. QED  BY <1>1, <1>4

\* A transaction of one operation is that operation.
LEMMA ApplyTxOfOne ==
    ASSUME NEW tree, NEW tx, Len(tx.operations) = 1
    PROVE  ApplyTx(tree, tx) = ApplyOp(tree, tx.operations[1], tx.handoffEvidenceRef)
<1>1. PICK after :
         /\ after[0] = tree
         /\ \A n \in 1..Len(tx.operations) :
               after[n] = ApplyOp(after[n - 1], tx.operations[n], tx.handoffEvidenceRef)
         /\ after[Len(tx.operations)] = ApplyTx(tree, tx)
  BY ApplyTxSteps
<1>. QED  BY <1>1

\* The minimum of a non-empty set of naturals is in it and below all of it.
LEMMA MinFacts ==
    ASSUME NEW T, T \subseteq Nat, T # {}
    PROVE  Min(T) \in T /\ \A y \in T : Min(T) <= y
<1>1. \E x \in T : \A y \in T : x <= y
  BY LeastElement
<1>. QED  BY <1>1 DEF Min

\* A lookup answers nothing if no record has the id, and else the first that has.
LEMMA FindFirst ==
    ASSUME NEW R, NEW records \in Seq(R), NEW id
    PROVE  \/ /\ findFirst(records, id) = <<>>
              /\ \A i \in 1..Len(records) : records[i].id # id
           \/ \E i \in 1..Len(records) :
                 /\ findFirst(records, id) = <<records[i]>>
                 /\ records[i].id = id
                 /\ \A j \in 1..i - 1 : records[j].id # id
<1>. DEFINE I == {i \in 1..Len(records) : records[i].id = id}
            at == SelectInSeq(records, LAMBDA r : r.id = id)
<1>1. at = IF I # {} THEN Min(I) ELSE 0
  BY DEF SelectInSeq
<1>2. findFirst(records, id) = IF at = 0 THEN <<>> ELSE <<records[at]>>
  BY DEF findFirst
<1>. HIDE DEF at
<1>3. CASE I = {}
  BY <1>1, <1>2, <1>3
<1>4. CASE I # {}
  <2>1. I \subseteq Nat
    OBVIOUS
  <2>2. at \in I /\ \A y \in I : at <= y
    BY <1>1, <1>4, <2>1, MinFacts
  <2>3. findFirst(records, id) = <<records[at]>>
    BY <2>2, <1>2
  <2>4. \A j \in 1..at - 1 : records[j].id # id
    <3>. SUFFICES ASSUME NEW j \in 1..at - 1, records[j].id = id PROVE FALSE
      OBVIOUS
    <3>1. j \in I
      BY <2>2
    <3>. QED  BY <2>2, <3>1
  <2>. QED  BY <2>2, <2>3, <2>4
<1>. QED  BY <1>3, <1>4

\* A lookup that answers nothing: no record has the id.
LEMMA FindNothing ==
    ASSUME NEW R, NEW records \in Seq(R), NEW id, findFirst(records, id) = <<>>
    PROVE  \A i \in 1..Len(records) : records[i].id # id
<1>1. ASSUME NEW i \in 1..Len(records), findFirst(records, id) = <<records[i]>> PROVE FALSE
  <2>1. Len(<<records[i]>>) = 1 /\ Len(<<>>) = 0
    OBVIOUS
  <2>. QED  BY <1>1, <2>1
<1>. QED  BY <1>1, FindFirst, ZenonT(30)

\* kept holds what is kept of the first n elements, for every n up to len.
AreKept(kept, s, keep, len) ==
    kept = [n \in 0..len |->
              IF n = 0 THEN <<>>
              ELSE IF s[n] \in keep THEN Append(kept[n - 1], s[n]) ELSE kept[n - 1]]

\* The recursion of Kept is well defined.
LEMMA KeptExists ==
    ASSUME NEW s, NEW keep, NEW len \in Nat
    PROVE  \E kept : AreKept(kept, s, keep, len)
<1>. DEFINE Step(g, n) == IF n = 0 THEN <<>>
                          ELSE IF s[n] \in keep THEN Append(g[n - 1], s[n]) ELSE g[n - 1]
            Fits(g, k) == g = [n \in 0..k |-> Step(g, n)]
            S == {k \in Nat : \E g : Fits(g, k)}
<1>1. 0 \in S
  <2>1. Fits([n \in 0..0 |-> <<>>], 0)
    OBVIOUS
  <2>. QED  BY <2>1
<1>2. ASSUME NEW k \in Nat, k \in S PROVE k + 1 \in S
  <2>1. PICK g : Fits(g, k)
    BY <1>2
  <2>. DEFINE h == [n \in 0..k + 1 |-> IF n = k + 1 THEN Step(g, k + 1) ELSE g[n]]
  <2>2. ASSUME NEW n \in 0..k + 1 PROVE h[n] = Step(h, n)
    <3>1. CASE n = 0
      BY <3>1, <2>1
    <3>2. CASE n = k + 1
      BY <3>2
    <3>3. CASE n \in 1..k
      <4>1. h[n] = g[n] /\ h[n - 1] = g[n - 1] /\ n # 0
        BY <3>3
      <4>2. g[n] = Step(g, n)
        <5>1. n \in 0..k
          BY <3>3
        <5>2. g = [m \in 0..k |-> Step(g, m)]
          BY <2>1
        <5>. HIDE DEF Step
        <5>. QED  BY <5>1, <5>2
      <4>. HIDE DEF h
      <4>. QED  BY <4>1, <4>2
    <3>. QED  BY <3>1, <3>2, <3>3
  <2>3. DOMAIN h = 0..k + 1 /\ h = [n \in DOMAIN h |-> h[n]]
    OBVIOUS
  <2>. HIDE DEF h, Step
  <2>4. Fits(h, k + 1)
    BY <2>2, <2>3
  <2>. QED  BY <2>4
<1>. HIDE DEF S
<1>3. len \in S
  BY <1>1, <1>2, SetInduction
<1>. QED  BY <1>3 DEF S, AreKept

\* What is kept of a sequence is a sequence of its elements that are in the set, in
\* the order they have there.
LEMMA KeptFacts ==
    ASSUME NEW R, NEW s \in Seq(R), NEW keep
    PROVE  /\ Kept(s, keep) \in Seq(R)
           /\ \E from \in [1..Len(Kept(s, keep)) -> 1..Len(s)] :
                /\ \A i \in 1..Len(Kept(s, keep)) :
                      Kept(s, keep)[i] = s[from[i]] /\ s[from[i]] \in keep
                /\ \A i, j \in 1..Len(Kept(s, keep)) : i < j => from[i] < from[j]
<1>. DEFINE len == Len(s)
            kept == CHOOSE g : AreKept(g, s, keep, len)
            Embeds(k, n) ==
              \E from \in [1..Len(k) -> 1..n] :
                 /\ \A i \in 1..Len(k) : k[i] = s[from[i]] /\ s[from[i]] \in keep
                 /\ \A i, j \in 1..Len(k) : i < j => from[i] < from[j]
            Good == {n \in Nat : n \in 0..len => kept[n] \in Seq(R) /\ Embeds(kept[n], n)}
<1>1. len \in Nat
  OBVIOUS
<1>2. AreKept(kept, s, keep, len)
  BY <1>1, KeptExists
<1>3. Kept(s, keep) = kept[len]
  BY DEF Kept, AreKept
<1>. HIDE DEF kept
<1>4. kept[0] = <<>>
  BY <1>1, <1>2 DEF AreKept
<1>5. ASSUME NEW n \in 0..len, n + 1 \in 0..len
      PROVE  kept[n + 1] = IF s[n + 1] \in keep THEN Append(kept[n], s[n + 1]) ELSE kept[n]
  <2>1. (n + 1) - 1 = n /\ n + 1 # 0
    BY <1>1
  <2>. QED  BY <2>1, <1>5, <1>2 DEF AreKept
<1>6. 0 \in Good
  <2>1. kept[0] \in Seq(R) /\ Len(kept[0]) = 0
    BY <1>4
  <2>2. Embeds(kept[0], 0)
    <3>1. [i \in 1..0 |-> i] \in [1..Len(kept[0]) -> 1..0]
      BY <2>1
    <3>. QED  BY <2>1, <3>1
  <2>. QED  BY <2>1, <2>2
<1>7. ASSUME NEW n \in Nat, n \in Good PROVE n + 1 \in Good
  <2>. SUFFICES ASSUME n + 1 \in 0..len
                PROVE  kept[n + 1] \in Seq(R) /\ Embeds(kept[n + 1], n + 1)
    OBVIOUS
  <2>1. n \in 0..len /\ kept[n] \in Seq(R) /\ Embeds(kept[n], n)
    BY <1>7
  <2>. DEFINE k == kept[n]
  <2>. HIDE DEF k
  <2>2. k \in Seq(R) /\ Len(k) \in Nat
    BY <2>1 DEF k
  <2>3. PICK from \in [1..Len(k) -> 1..n] :
             /\ \A i \in 1..Len(k) : k[i] = s[from[i]] /\ s[from[i]] \in keep
             /\ \A i, j \in 1..Len(k) : i < j => from[i] < from[j]
    BY <2>1 DEF k
  <2>4. CASE s[n + 1] \notin keep
    <3>1. kept[n + 1] = k
      BY <2>1, <2>4, <1>5 DEF k
    <3>2. from \in [1..Len(k) -> 1..n + 1]
      BY <2>3
    <3>. QED  BY <3>1, <3>2, <2>2, <2>3
  <2>5. CASE s[n + 1] \in keep
    <3>1. kept[n + 1] = Append(k, s[n + 1])
      BY <2>1, <2>5, <1>5 DEF k
    <3>2. s[n + 1] \in R
      BY <2>1
    <3>. DEFINE a == Append(k, s[n + 1])
                f == [i \in 1..Len(k) + 1 |-> IF i = Len(k) + 1 THEN n + 1 ELSE from[i]]
    <3>3. /\ a \in Seq(R) /\ Len(a) = Len(k) + 1 /\ a[Len(k) + 1] = s[n + 1]
          /\ \A i \in 1..Len(k) : a[i] = k[i]
      BY <2>2, <3>2
    <3>4. f \in [1..Len(k) + 1 -> 1..n + 1]
      BY <2>2, <2>3
    <3>5. \A i \in 1..Len(k) + 1 : a[i] = s[f[i]] /\ s[f[i]] \in keep
      BY <2>2, <2>3, <2>5, <3>3
    <3>6. ASSUME NEW i \in 1..Len(k) + 1, NEW j \in 1..Len(k) + 1, i < j PROVE f[i] < f[j]
      <4>1. i \in 1..Len(k) /\ f[i] = from[i] /\ from[i] \in 1..n
        BY <2>2, <2>3, <3>6
      <4>2. CASE j = Len(k) + 1
        BY <4>1, <4>2
      <4>3. CASE j \in 1..Len(k)
        <5>1. f[j] = from[j]
          BY <2>2, <4>3
        <5>. QED  BY <2>3, <3>6, <4>1, <4>3, <5>1
      <4>. QED  BY <2>2, <4>2, <4>3
    <3>. HIDE DEF a, f
    <3>7. Embeds(a, n + 1)
      BY <3>3, <3>4, <3>5, <3>6
    <3>8. kept[n + 1] = a
      BY <3>1 DEF a
    <3>. HIDE DEF Embeds
    <3>. QED  BY <3>3, <3>7, <3>8
  <2>. QED  BY <2>4, <2>5
<1>8. len \in Good
  <2>. HIDE DEF Good
  <2>. QED  BY <1>1, <1>6, <1>7, SetInduction
<1>9. kept[len] \in Seq(R) /\ Embeds(kept[len], len)
  BY <1>1, <1>8
<1>. QED  BY <1>3, <1>9

---------------------------------------------------------------------------
(* The gates. *)

\* Three gates that refuse nothing together refuse nothing each: the first refusal,
\* were there one, would be among them.
LEMMA NoneOfThree ==
    ASSUME NEW a, NEW b, NEW c, FirstRefusal(<<a, b, c>>) = "None"
    PROVE  a = "None" /\ b = "None" /\ c = "None"
<1>. DEFINE answers == <<a, b, c>>
            refusals == {i \in DOMAIN answers : answers[i] # "None"}
<1>1. DOMAIN answers = 1..3 /\ answers[1] = a /\ answers[2] = b /\ answers[3] = c
  OBVIOUS
<1>2. refusals = {}
  <2>. SUFFICES ASSUME refusals # {} PROVE FALSE
    OBVIOUS
  <2>1. refusals \subseteq Nat
    BY <1>1
  <2>2. Min(refusals) \in refusals
    <3>. HIDE DEF refusals
    <3>. QED  BY <2>1, MinFacts
  <2>. QED  BY <2>2 DEF FirstRefusal
<1>. QED  BY <1>1, <1>2

\* What gates 6 to 9 admit passed each of them.
LEMMA AdmittedPasses ==
    ASSUME NEW tree, NEW tx, NEW actor, NEW root, ContentGates(tree, tx, actor, root) = "None"
    PROVE  /\ \A op \in ToSet(tx.operations) : ~Blocked(tree, op) /\ InvariantOK(tree, op)
           /\ BoundaryResolves(ApplyTx(tree, tx))
<1>1. /\ FirstRefusal(<<PolicyGate(tree, tx, actor, root), ConflictGate(tree, tx),
                        InvariantGate(tree, tx)>>) = "None"
      /\ CoherenceGate(ApplyTx(tree, tx)) = "None"
  BY DEF ContentGates
<1>2. ConflictGate(tree, tx) = "None" /\ InvariantGate(tree, tx) = "None"
  BY <1>1, NoneOfThree
<1>3. \A op \in ToSet(tx.operations) : ~Blocked(tree, op)
  BY <1>2 DEF ConflictGate
<1>4. \A op \in ToSet(tx.operations) : InvariantOK(tree, op)
  BY <1>2 DEF InvariantGate
<1>5. BoundaryResolves(ApplyTx(tree, tx))
  BY <1>1 DEF CoherenceGate
<1>. QED  BY <1>3, <1>4, <1>5

---------------------------------------------------------------------------
(* Links. *)

\* Appending to a list adds one element to it and keeps its prefixes.
LEMMA AppendedLink ==
    ASSUME NEW S, NEW s \in Seq(S), NEW e \in S
    PROVE  /\ \A x : Contains(Append(s, e), x) <=> Contains(s, x) \/ x = e
           /\ Append(s, e) # <<>>
           /\ \A p \in Seq(S) : IsPrefix(p, s) => IsPrefix(p, Append(s, e))
<1>. DEFINE a == Append(s, e)
<1>1. /\ a \in Seq(S) /\ Len(a) = Len(s) + 1 /\ a[Len(s) + 1] = e
      /\ \A i \in 1..Len(s) : a[i] = s[i]
      /\ Len(s) \in Nat
  OBVIOUS
<1>. HIDE DEF a
<1>2. ASSUME NEW x PROVE Contains(a, x) <=> Contains(s, x) \/ x = e
  BY <1>1 DEF Contains
<1>3. a # <<>>
  BY <1>1
<1>4. ASSUME NEW p \in Seq(S), IsPrefix(p, s) PROVE IsPrefix(p, a)
  <2>1. Len(p) \in Nat /\ Len(p) <= Len(s) /\ SubSeq(p, 1, Len(p)) = SubSeq(s, 1, Len(p))
    BY <1>4 DEF IsPrefix
  <2>2. SubSeq(a, 1, Len(p)) = SubSeq(s, 1, Len(p))
    <3>1. /\ SubSeq(s, 1, Len(p)) \in Seq(S) /\ Len(SubSeq(s, 1, Len(p))) = Len(p)
          /\ \A i \in 1..Len(p) : SubSeq(s, 1, Len(p))[i] = s[i]
      BY <2>1, <1>1
    <3>2. /\ SubSeq(a, 1, Len(p)) \in Seq(S) /\ Len(SubSeq(a, 1, Len(p))) = Len(p)
          /\ \A i \in 1..Len(p) : SubSeq(a, 1, Len(p))[i] = a[i]
      BY <2>1, <1>1
    <3>. QED  BY <3>1, <3>2, <1>1, <2>1, SeqEqual
  <2>. QED  BY <2>1, <2>2, <1>1 DEF IsPrefix
<1>. QED  BY <1>2, <1>3, <1>4 DEF a
=============================================================================
