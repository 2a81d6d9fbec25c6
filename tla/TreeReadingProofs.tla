------------------------- MODULE TreeReadingProofs --------------------------
(***************************************************************************)
(* What the readers of a tree can rely on, for every policy, intent and    *)
(* budget.  Memory and profiles only grow, so that what an earlier tree    *)
(* answers a later one does; a packet is determined by the rules that      *)
(* apply to an intent, taken as a set; and a reader sees of a memory       *)
(* record only what is written to the store.                               *)
(***************************************************************************)
EXTENDS TreeReading, TreeEvolutionProofs

---------------------------------------------------------------------------
(* What is kept of a sequence. *)

\* Kept goes through what is kept of ever longer prefixes.
LEMMA KeptSteps ==
    ASSUME NEW s, NEW keep, Len(s) \in Nat
    PROVE  \E kept :
              /\ kept[0] = <<>>
              /\ \A n \in 1..Len(s) :
                    kept[n] = IF s[n] \in keep THEN Append(kept[n - 1], s[n]) ELSE kept[n - 1]
              /\ kept[Len(s)] = Kept(s, keep)
<1>. DEFINE len == Len(s)
            kept == CHOOSE g : AreKept(g, s, keep, len)
<1>1. AreKept(kept, s, keep, len)
  BY KeptExists
<1>2. Kept(s, keep) = kept[len]
  BY DEF Kept, AreKept
<1>. HIDE DEF kept
<1>3. kept[0] = <<>>
  BY <1>1 DEF AreKept
<1>4. ASSUME NEW n \in 1..len
      PROVE  kept[n] = IF s[n] \in keep THEN Append(kept[n - 1], s[n]) ELSE kept[n - 1]
  <2>1. n \in 0..len /\ n # 0
    OBVIOUS
  <2>. QED  BY <1>1, <2>1 DEF AreKept
<1>. QED  BY <1>2, <1>3, <1>4

\* What is kept are the elements that are in the set.
LEMMA KeptAll ==
    ASSUME NEW R, NEW s \in Seq(R), NEW keep
    PROVE  /\ Kept(s, keep) \in Seq(R)
           /\ ToSet(Kept(s, keep)) = ToSet(s) \cap keep
<1>. DEFINE len == Len(s)
            Elements(q) == {q[i] : i \in 1..Len(q)}
            First(n) == {s[i] : i \in 1..n}
<1>1. len \in Nat /\ DOMAIN s = 1..len
  OBVIOUS
<1>2. PICK kept :
         /\ kept[0] = <<>>
         /\ \A n \in 1..len :
               kept[n] = IF s[n] \in keep THEN Append(kept[n - 1], s[n]) ELSE kept[n - 1]
         /\ kept[len] = Kept(s, keep)
  BY <1>1, KeptSteps
<1>. DEFINE Holds(n) == kept[n] \in Seq(R) /\ Elements(kept[n]) = First(n) \cap keep
            Good == {n \in Nat : n \in 0..len => Holds(n)}
<1>3. 0 \in Good
  <2>1. kept[0] \in Seq(R) /\ Len(kept[0]) = 0
    BY <1>2
  <2>. QED  BY <2>1
<1>4. ASSUME NEW n \in Nat, n \in Good PROVE n + 1 \in Good
  <2>. SUFFICES ASSUME n + 1 \in 0..len PROVE Holds(n + 1)
    <3>. HIDE DEF Holds
    <3>. QED  OBVIOUS
  <2>. DEFINE k == kept[n]
              e == s[n + 1]
  <2>1. k \in Seq(R) /\ Elements(k) = First(n) \cap keep /\ e \in R
    <3>1. Holds(n)
      <4>. HIDE DEF Holds
      <4>. QED  BY <1>1, <1>4
    <3>2. e \in R
      BY <1>1
    <3>. HIDE DEF Elements, First
    <3>. QED  BY <3>1, <3>2
  <2>2. kept[n + 1] = IF e \in keep THEN Append(k, e) ELSE k
    <3>1. n + 1 \in 1..len /\ (n + 1) - 1 = n
      BY <1>1
    <3>. QED  BY <1>2, <3>1
  <2>3. First(n + 1) = First(n) \cup {e}
    <3>1. 1..n + 1 = (1..n) \cup {n + 1}
      OBVIOUS
    <3>. QED  BY <3>1
  <2>. HIDE DEF k, e, First
  <2>4. Append(k, e) \in Seq(R) /\ Elements(Append(k, e)) = Elements(k) \cup {e}
    <3>1. /\ Append(k, e) \in Seq(R) /\ Len(Append(k, e)) = Len(k) + 1 /\ Len(k) \in Nat
          /\ Append(k, e)[Len(k) + 1] = e /\ \A i \in 1..Len(k) : Append(k, e)[i] = k[i]
      BY <2>1
    <3>2. 1..Len(k) + 1 = (1..Len(k)) \cup {Len(k) + 1}
      BY <3>1
    <3>. QED  BY <3>1, <3>2
  <2>. HIDE DEF Elements
  <2>. QED  BY <2>1, <2>2, <2>3, <2>4
<1>5. len \in Good
  <2>. HIDE DEF Good
  <2>. QED  BY <1>1, <1>3, <1>4, SetInduction
<1>6. Kept(s, keep) \in Seq(R) /\ Elements(Kept(s, keep)) = First(len) \cap keep
  <2>1. Holds(len)
    <3>. HIDE DEF Holds
    <3>. QED  BY <1>1, <1>5
  <2>. HIDE DEF Elements, First
  <2>. QED  BY <1>2, <2>1
<1>7. DOMAIN Kept(s, keep) = 1..Len(Kept(s, keep))
  BY <1>6
<1>. QED  BY <1>1, <1>6, <1>7 DEF ToSet

\* Two sequences that are kept at the same places and related there stay related.
LEMMA KeptAlike ==
    ASSUME NEW R, NEW s \in Seq(R), NEW t \in Seq(R), Len(s) = Len(t),
           NEW keep, NEW keepT, NEW Rel,
           \A i \in 1..Len(s) : /\ s[i] \in keep <=> t[i] \in keepT
                                /\ <<s[i], t[i]>> \in Rel
    PROVE  /\ Len(Kept(s, keep)) = Len(Kept(t, keepT))
           /\ \A i \in 1..Len(Kept(s, keep)) : <<Kept(s, keep)[i], Kept(t, keepT)[i]>> \in Rel
<1>. DEFINE len == Len(s)
            Alike(a, b) == /\ a \in Seq(R) /\ b \in Seq(R) /\ Len(a) = Len(b)
                           /\ \A i \in 1..Len(a) : <<a[i], b[i]>> \in Rel
<1>1. len \in Nat /\ Len(t) = len
  OBVIOUS
<1>2. PICK f :
         /\ f[0] = <<>>
         /\ \A n \in 1..len : f[n] = IF s[n] \in keep THEN Append(f[n - 1], s[n]) ELSE f[n - 1]
         /\ f[len] = Kept(s, keep)
  BY <1>1, KeptSteps
<1>3. PICK g :
         /\ g[0] = <<>>
         /\ \A n \in 1..len : g[n] = IF t[n] \in keepT THEN Append(g[n - 1], t[n]) ELSE g[n - 1]
         /\ g[len] = Kept(t, keepT)
  BY <1>1, KeptSteps
<1>. DEFINE Good == {n \in Nat : n \in 0..len => Alike(f[n], g[n])}
<1>4. 0 \in Good
  <2>1. f[0] \in Seq(R) /\ g[0] \in Seq(R) /\ Len(f[0]) = 0 /\ Len(g[0]) = 0
    BY <1>2, <1>3
  <2>. QED  BY <2>1
<1>5. ASSUME NEW n \in Nat, n \in Good PROVE n + 1 \in Good
  <2>. SUFFICES ASSUME n + 1 \in 0..len PROVE Alike(f[n + 1], g[n + 1])
    OBVIOUS
  <2>. DEFINE a == f[n]  b == g[n]  d == s[n + 1]  e == t[n + 1]
  <2>1. Alike(a, b)
    BY <1>1, <1>5
  <2>2. n + 1 \in 1..len /\ (n + 1) - 1 = n
    BY <1>1
  <2>3. d \in R /\ e \in R /\ (d \in keep <=> e \in keepT) /\ <<d, e>> \in Rel
    BY <1>1, <2>2
  <2>4. /\ f[n + 1] = IF d \in keep THEN Append(a, d) ELSE a
        /\ g[n + 1] = IF e \in keepT THEN Append(b, e) ELSE b
    BY <1>2, <1>3, <2>2
  <2>. HIDE DEF a, b, d, e
  <2>5. Alike(Append(a, d), Append(b, e))
    <3>1. /\ Len(a) \in Nat /\ Len(b) = Len(a) /\ a \in Seq(R) /\ b \in Seq(R)
          /\ \A i \in 1..Len(a) : <<a[i], b[i]>> \in Rel
      BY <2>1
    <3>2. /\ Append(a, d) \in Seq(R) /\ Len(Append(a, d)) = Len(a) + 1
          /\ Append(a, d)[Len(a) + 1] = d /\ \A i \in 1..Len(a) : Append(a, d)[i] = a[i]
      BY <2>3, <3>1
    <3>3. /\ Append(b, e) \in Seq(R) /\ Len(Append(b, e)) = Len(a) + 1
          /\ Append(b, e)[Len(a) + 1] = e /\ \A i \in 1..Len(a) : Append(b, e)[i] = b[i]
      BY <2>3, <3>1
    <3>4. \A i \in 1..Len(a) + 1 : i = Len(a) + 1 \/ i \in 1..Len(a)
      BY <3>1
    <3>5. ASSUME NEW i \in 1..Len(a) + 1 PROVE <<Append(a, d)[i], Append(b, e)[i]>> \in Rel
      <4>1. CASE i = Len(a) + 1
        BY <2>3, <3>2, <3>3, <4>1
      <4>2. CASE i \in 1..Len(a)
        BY <3>1, <3>2, <3>3, <4>2
      <4>. QED  BY <3>4, <4>1, <4>2
    <3>. QED  BY <3>2, <3>3, <3>5
  <2>. HIDE DEF Alike
  <2>. QED  BY <2>1, <2>3, <2>4, <2>5
<1>6. len \in Good
  <2>. HIDE DEF Good
  <2>. QED  BY <1>1, <1>4, <1>5, SetInduction
<1>7. Alike(Kept(s, keep), Kept(t, keepT))
  BY <1>1, <1>2, <1>3, <1>6
<1>. QED  BY <1>7

\* What is kept and what is not make up the sequence.
LEMMA KeptParts ==
    ASSUME NEW R, NEW s \in Seq(R), NEW keep, NEW rest,
           \A i \in 1..Len(s) : s[i] \in rest <=> s[i] \notin keep
    PROVE  Len(Kept(s, keep)) + Len(Kept(s, rest)) = Len(s)
<1>. DEFINE len == Len(s)
<1>1. len \in Nat
  OBVIOUS
<1>2. PICK f :
         /\ f[0] = <<>>
         /\ \A n \in 1..len : f[n] = IF s[n] \in keep THEN Append(f[n - 1], s[n]) ELSE f[n - 1]
         /\ f[len] = Kept(s, keep)
  BY <1>1, KeptSteps
<1>3. PICK g :
         /\ g[0] = <<>>
         /\ \A n \in 1..len : g[n] = IF s[n] \in rest THEN Append(g[n - 1], s[n]) ELSE g[n - 1]
         /\ g[len] = Kept(s, rest)
  BY <1>1, KeptSteps
<1>. DEFINE Parts(n) == f[n] \in Seq(R) /\ g[n] \in Seq(R) /\ Len(f[n]) + Len(g[n]) = n
            Good == {n \in Nat : n \in 0..len => Parts(n)}
<1>4. 0 \in Good
  <2>1. f[0] \in Seq(R) /\ g[0] \in Seq(R) /\ Len(f[0]) = 0 /\ Len(g[0]) = 0
    BY <1>2, <1>3
  <2>2. Parts(0)
    BY <2>1
  <2>. HIDE DEF Parts
  <2>. QED  BY <2>2
<1>5. ASSUME NEW n \in Nat, n \in Good PROVE n + 1 \in Good
  <2>. SUFFICES ASSUME n + 1 \in 0..len PROVE Parts(n + 1)
    <3>. HIDE DEF Parts
    <3>. QED  OBVIOUS
  <2>. DEFINE a == f[n]  b == g[n]  e == s[n + 1]
  <2>1. a \in Seq(R) /\ b \in Seq(R) /\ Len(a) + Len(b) = n
    <3>1. Parts(n)
      <4>. HIDE DEF Parts
      <4>. QED  BY <1>1, <1>5
    <3>. QED  BY <3>1
  <2>2. n + 1 \in 1..len /\ (n + 1) - 1 = n
    BY <1>1
  <2>3. e \in R /\ (e \in rest <=> e \notin keep)
    BY <1>1, <2>2
  <2>4. /\ f[n + 1] = IF e \in keep THEN Append(a, e) ELSE a
        /\ g[n + 1] = IF e \in rest THEN Append(b, e) ELSE b
    BY <1>2, <1>3, <2>2
  <2>. HIDE DEF a, b, e
  <2>5. /\ Append(a, e) \in Seq(R) /\ Len(Append(a, e)) = Len(a) + 1
        /\ Append(b, e) \in Seq(R) /\ Len(Append(b, e)) = Len(b) + 1
        /\ Len(a) \in Nat /\ Len(b) \in Nat
    BY <2>1, <2>3
  <2>6. CASE e \in keep
    <3>1. f[n + 1] = Append(a, e) /\ g[n + 1] = b
      BY <2>3, <2>4, <2>6
    <3>. QED  BY <2>1, <2>5, <3>1
  <2>7. CASE e \notin keep
    <3>1. f[n + 1] = a /\ g[n + 1] = Append(b, e)
      BY <2>3, <2>4, <2>7
    <3>. QED  BY <2>1, <2>5, <3>1
  <2>. QED  BY <2>6, <2>7
<1>6. len \in Good
  <2>. HIDE DEF Good
  <2>. QED  BY <1>1, <1>4, <1>5, SetInduction
<1>7. Parts(len)
  <2>. HIDE DEF Parts
  <2>. QED  BY <1>1, <1>6
<1>. QED  BY <1>2, <1>3, <1>7

---------------------------------------------------------------------------
(* What a tree gains. *)

\* Every memory record and every profile of the older tree is in the newer one, at
\* its place: the reader's fields of the former, all of the latter.
Gains(old, new) ==
    /\ Len(old.memory) <= Len(new.memory)
    /\ \A i \in 1..Len(old.memory) :
          /\ new.memory[i].kind = old.memory[i].kind
          /\ new.memory[i].title = old.memory[i].title
          /\ new.memory[i].statement = old.memory[i].statement
    /\ Len(old.profiles) <= Len(new.profiles)
    /\ \A i \in 1..Len(old.profiles) : new.profiles[i] = old.profiles[i]

LEMMA Appended ==
    ASSUME NEW R, NEW s \in Seq(R), NEW e
    PROVE  /\ Len(Append(s, e)) = Len(s) + 1 /\ Append(s, e)[Len(s) + 1] = e
           /\ \A i \in 1..Len(s) : Append(s, e)[i] = s[i]
<1>1. s \in Seq(R \cup {e}) /\ e \in R \cup {e}
  OBVIOUS
<1>2. ASSUME NEW S, s \in Seq(S), e \in S
      PROVE  /\ Len(Append(s, e)) = Len(s) + 1 /\ Append(s, e)[Len(s) + 1] = e
             /\ \A i \in 1..Len(s) : Append(s, e)[i] = s[i]
  BY <1>2
<1>. QED  BY <1>1, <1>2

LEMMA GainsStep ==
    ASSUME NEW before \in Tree, NEW t \in Tree, NEW op \in Operation, NEW ref,
           Gains(before, t)
    PROVE  Gains(before, ApplyOp(t, op, ref))
<1>. DEFINE n == ApplyOp(t, op, ref)
            p == [id |-> op.title, kind |-> op.scope, summary |-> op.payload]
<1>1. n.memory = AppliedToMemory(t, op) /\ n.profiles = AppliedToProfiles(t, op)
  BY AppliedFields
<1>. HIDE DEF n, p
<1>2. /\ t.memory \in Seq(MemoryRecord) /\ t.profiles \in Seq(ProfileRecord)
      /\ before.memory \in Seq(MemoryRecord) /\ before.profiles \in Seq(ProfileRecord)
  BY Zenon DEF Tree
<1>3. Len(t.memory) <= Len(n.memory) /\ \A i \in 1..Len(t.memory) : n.memory[i] = t.memory[i]
  <2>1. CASE op.kind = "AddMemory"
    <3>1. n.memory = Append(t.memory, NewMemory(op))
      BY <1>1, <2>1 DEF AppliedToMemory
    <3>. QED  BY <1>2, <3>1, Appended
  <2>2. CASE op.kind # "AddMemory"
    BY <1>1, <1>2, <2>2 DEF AppliedToMemory
  <2>. QED  BY <2>1, <2>2
<1>4. /\ Len(t.profiles) <= Len(n.profiles)
      /\ \A i \in 1..Len(t.profiles) : n.profiles[i] = t.profiles[i]
  <2>1. CASE op.kind = "UpsertProfile"
    <3>1. n.profiles = Append(t.profiles, p)
      BY <1>1, <2>1 DEF AppliedToProfiles, p
    <3>. QED  BY <1>2, <3>1, Appended
  <2>2. CASE op.kind # "UpsertProfile"
    BY <1>1, <1>2, <2>2 DEF AppliedToProfiles
  <2>. QED  BY <2>1, <2>2
<1>5. /\ Len(before.memory) \in Nat /\ Len(t.memory) \in Nat
      /\ Len(before.profiles) \in Nat /\ Len(t.profiles) \in Nat
  BY <1>2
<1>6. /\ Len(before.memory) <= Len(t.memory) /\ Len(before.profiles) <= Len(t.profiles)
      /\ 1..Len(before.memory) \subseteq 1..Len(t.memory)
      /\ 1..Len(before.profiles) \subseteq 1..Len(t.profiles)
  BY <1>5 DEF Gains
<1>7. Len(n.memory) \in Nat /\ Len(n.profiles) \in Nat
  <2>1. n.memory = t.memory \/ n.memory = Append(t.memory, NewMemory(op))
    BY <1>1, Zenon DEF AppliedToMemory
  <2>2. n.profiles = t.profiles \/ n.profiles = Append(t.profiles, p)
    BY <1>1, Zenon DEF AppliedToProfiles, p
  <2>. QED  BY <1>2, <1>5, <2>1, <2>2, Appended
<1>8. Len(before.memory) <= Len(n.memory) /\ Len(before.profiles) <= Len(n.profiles)
  BY <1>3, <1>4, <1>5, <1>6, <1>7
<1>9. Gains(before, n)
  BY <1>3, <1>4, <1>6, <1>8 DEF Gains
<1>. QED  BY <1>9 DEF n

---------------------------------------------------------------------------
(* Views. *)

\* Every view names some profile, none twice, and only profiles of the tree.
ViewsResolve(t) ==
    \A i \in 1..Len(t.views) :
       /\ t.views[i].profileRefs # <<>> /\ IsInjective(t.views[i].profileRefs)
       /\ \A ref \in ToSet(t.views[i].profileRefs) :
             \E j \in 1..Len(t.profiles) : t.profiles[j].id = ref

\* Gate 8 looks for a view's profiles in the tree before the transaction: they are
\* still there when the view is added, and a retirement only takes views away.
LEMMA ViewsStep ==
    ASSUME NEW before \in Tree, NEW t \in Tree, NEW op \in Operation, NEW ref \in Texts,
           InvariantOK(before, op), Gains(before, t), ViewsResolve(t)
    PROVE  ViewsResolve(ApplyOp(t, op, ref))
<1>. DEFINE n == ApplyOp(t, op, ref)
            Fine(v, profiles) ==
              /\ v.profileRefs # <<>> /\ IsInjective(v.profileRefs)
              /\ \A r \in ToSet(v.profileRefs) : \E j \in 1..Len(profiles) : profiles[j].id = r
<1>1. n.views = AppliedToViews(t, op)
  BY AppliedFields
<1>2. Gains(t, n)
  <2>1. Gains(t, t)
    <3>1. t.memory \in Seq(MemoryRecord) /\ t.profiles \in Seq(ProfileRecord)
      BY Zenon DEF Tree
    <3>2. Len(t.memory) <= Len(t.memory) /\ Len(t.profiles) <= Len(t.profiles)
      BY <3>1
    <3>. QED  BY <3>2 DEF Gains
  <2>. QED  BY <2>1, GainsStep
<1>. HIDE DEF n
<1>3. t.views \in Seq(ViewRecord) /\ before.profiles \in Seq(ProfileRecord)
  BY Zenon DEF Tree
<1>4. /\ 1..Len(t.profiles) \subseteq 1..Len(n.profiles)
      /\ 1..Len(before.profiles) \subseteq 1..Len(t.profiles)
  <2>1. /\ t.profiles \in Seq(ProfileRecord) /\ n.profiles \in Seq(ProfileRecord)
    <3>1. n \in Tree
      BY OpKeepsTrees DEF n
    <3>. QED  BY <3>1, Zenon DEF Tree
  <2>2. Len(t.profiles) \in Nat /\ Len(n.profiles) \in Nat /\ Len(before.profiles) \in Nat
    BY <1>3, <2>1
  <2>. QED  BY <1>2, <2>2 DEF Gains
<1>5. \A i \in 1..Len(t.views) : Fine(t.views[i], n.profiles)
  BY <1>2, <1>4, ZenonT(30) DEF Gains, ViewsResolve
<1>6. \A i \in 1..Len(n.views) : Fine(n.views[i], n.profiles)
  <2>. SUFFICES ASSUME NEW i \in 1..Len(n.views) PROVE Fine(n.views[i], n.profiles)
    OBVIOUS
  <2>. HIDE DEF Fine
  <2>1. CASE op.kind # "AmendViewSpec"
    BY <1>1, <1>5, <2>1 DEF AppliedToViews
  <2>2. CASE op.kind = "AmendViewSpec" /\ op.aux = 1
    <3>1. n.views = Kept(t.views, {v \in ToSet(t.views) : v.id # op.title})
      BY <1>1, <2>2 DEF AppliedToViews, AmendViewSpec
    <3>2. PICK k \in 1..Len(t.views) : n.views[i] = t.views[k]
      <4>1. n.views \in Seq(ViewRecord) /\ ToSet(n.views) \subseteq ToSet(t.views)
        BY <1>3, <3>1, KeptAll
      <4>2. n.views[i] \in ToSet(n.views)
        BY <4>1 DEF ToSet
      <4>3. n.views[i] \in ToSet(t.views) /\ DOMAIN t.views = 1..Len(t.views)
        BY <1>3, <4>1, <4>2
      <4>. QED  BY <4>3 DEF ToSet
    <3>. QED  BY <1>5, <3>2
  <2>3. CASE op.kind = "AmendViewSpec" /\ op.aux # 1
    <3>1. n.views = Append(t.views, NewView(op)) /\ NewView(op).profileRefs = Refs(op)
      BY <1>1, <2>3 DEF AppliedToViews, AmendViewSpec, NewView
    <3>2. AmendViewSpecOK(before, op)
      BY <2>3 DEF InvariantOK
    <3>3. /\ Refs(op) # <<>> /\ IsInjective(Refs(op))
          /\ \A r \in ToSet(Refs(op)) : findProfile(before, r) # <<>>
      BY <3>2, Zenon DEF AmendViewSpecOK
    <3>4. ASSUME NEW r \in ToSet(Refs(op))
          PROVE  \E j \in 1..Len(n.profiles) : n.profiles[j].id = r
      <4>1. findFirst(before.profiles, r) # <<>>
        BY <3>3, Zenon DEF findProfile
      <4>2. PICK j \in 1..Len(before.profiles) : before.profiles[j].id = r
        BY <1>3, <4>1, FindFirst
      <4>3. n.profiles[j] = before.profiles[j]
        BY <1>2, <1>4 DEF Gains
      <4>. QED  BY <1>4, <4>2, <4>3
    <3>5. Fine(NewView(op), n.profiles)
      BY <3>1, <3>3, <3>4, Zenon DEF Fine
    <3>6. \/ i \in 1..Len(t.views) /\ n.views[i] = t.views[i]
          \/ n.views[i] = NewView(op)
      <4>1. /\ Len(n.views) = Len(t.views) + 1 /\ n.views[Len(t.views) + 1] = NewView(op)
            /\ \A k \in 1..Len(t.views) : n.views[k] = t.views[k]
        BY <1>3, <3>1, Appended
      <4>2. Len(t.views) \in Nat
        BY <1>3
      <4>. QED  BY <4>1, <4>2
    <3>. QED  BY <1>5, <3>5, <3>6
  <2>. QED  BY <2>1, <2>2, <2>3
<1>7. ViewsResolve(n)
  BY <1>6 DEF ViewsResolve
<1>. QED  BY <1>7 DEF n

\* No step takes a memory record or a profile away, or leaves a view without them.
LEMMA StepGains ==
    ASSUME TypeOK, [Next]_vars
    PROVE  /\ Gains(tree, tree') /\ tree' \in Tree
           /\ ViewsResolve(tree) => ViewsResolve(tree')
<1>1. tree \in Tree
  BY Zenon DEF TypeOK
<1>2. Gains(tree, tree)
  <2>1. tree.memory \in Seq(MemoryRecord) /\ tree.profiles \in Seq(ProfileRecord)
    BY <1>1, Zenon DEF Tree
  <2>2. Len(tree.memory) <= Len(tree.memory) /\ Len(tree.profiles) <= Len(tree.profiles)
    BY <2>1
  <2>. QED  BY <2>2 DEF Gains
<1>3. CASE Reload
  <2>1. tree' = deserializeImpl(serializeImpl(tree))
    BY <1>3, Zenon DEF Reload
  <2>2. /\ tree' \in Tree /\ tree'.profiles = tree.profiles /\ tree'.views = tree.views
        /\ Len(tree'.memory) = Len(tree.memory)
        /\ \A i \in 1..Len(tree.memory) :
              /\ tree'.memory[i].kind = tree.memory[i].kind
              /\ tree'.memory[i].title = tree.memory[i].title
              /\ tree'.memory[i].statement = tree.memory[i].statement
    BY <1>1, <2>1, ReloadFacts, Zenon
  <2>. QED  BY <1>2, <2>2 DEF Gains, ViewsResolve
<1>4. ASSUME NEW ops \in Transactions, Commit(ops)
      PROVE  /\ Gains(tree, tree') /\ tree' \in Tree
             /\ ViewsResolve(tree) => ViewsResolve(tree')
  <2>. DEFINE S == {t \in Tree : Gains(tree, t) /\ (ViewsResolve(tree) => ViewsResolve(t))}
  <2>1. tree \in S
    BY <1>1, <1>2
  <2>2. ASSUME NEW t \in S, NEW op \in Operation, NEW ref \in Texts, InvariantOK(tree, op)
        PROVE  ApplyOp(t, op, ref) \in S
    BY <1>1, <2>2, OpKeepsTrees, GainsStep, ViewsStep, Zenon
  <2>3. tree' \in S
    <3>. HIDE DEF S
    <3>. QED  BY <1>4, <2>1, <2>2, CommitInduction, Zenon
  <2>. QED  BY <2>3
<1>5. CASE UNCHANGED vars
  BY <1>1, <1>2, <1>5 DEF vars
<1>. QED  BY <1>3, <1>4, <1>5 DEF Next

LEMMA ViewsStayResolved == Spec => []ViewsResolve(tree)
<1>1. Init => ViewsResolve(tree)
  <2>. SUFFICES ASSUME Init PROVE ViewsResolve(tree)
    OBVIOUS
  <2>1. tree.views = <<>>
    BY Genesis, Zenon DEF Init
  <2>2. Len(tree.views) = 0
    BY <2>1
  <2>. QED  BY <2>2 DEF ViewsResolve
<1>2. TypeOK /\ ViewsResolve(tree) /\ [Next]_vars => ViewsResolve(tree)'
  BY StepGains, Zenon
<1>. QED  BY <1>1, <1>2, TypeCorrect, PTL DEF Spec

\* StoredViewsResolve: whatever order profiles and views are written and retired
\* in, resolve_view never fails on a view the tree stores, and no view names a
\* profile twice.
THEOREM ViewsAlwaysResolve == Spec => []StoredViewsResolve
<1>1. TypeOK /\ ViewsResolve(tree) => StoredViewsResolve
  <2>. SUFFICES ASSUME TypeOK, ViewsResolve(tree), NEW v \in ToSet(tree.views)
                PROVE  resolve_view(tree, v.id).kind = "None" /\ IsInjective(v.profileRefs)
    BY Zenon DEF StoredViewsResolve
  <2>1. tree.views \in Seq(ViewRecord) /\ tree.profiles \in Seq(ProfileRecord)
    BY Zenon DEF TypeOK, Tree
  <2>2. PICK k \in 1..Len(tree.views) : v = tree.views[k]
    BY <2>1 DEF ToSet
  <2>3. PICK i \in 1..Len(tree.views) : findFirst(tree.views, v.id) = <<tree.views[i]>>
    BY <2>1, <2>2, FindFirst
  <2>. DEFINE w == tree.views[i]
  <2>4. w.profileRefs # <<>>
    BY DEF ViewsResolve
  <2>5. ASSUME NEW ref \in ToSet(w.profileRefs) PROVE findProfile(tree, ref) # <<>>
    <3>1. PICK j \in 1..Len(tree.profiles) : tree.profiles[j].id = ref
      BY DEF ViewsResolve
    <3>2. findFirst(tree.profiles, ref) # <<>>
      BY <2>1, <3>1, FindNothing
    <3>. QED  BY <3>2, Zenon DEF findProfile
  <2>6. findFirst(tree.views, v.id)[1] = w /\ findFirst(tree.views, v.id) # <<>>
    BY <2>3
  <2>. HIDE DEF w
  <2>7. resolve_view(tree, v.id).kind = "None"
    BY <2>4, <2>5, <2>6 DEF resolve_view
  <2>. QED  BY <2>2, <2>7 DEF ViewsResolve
<1>. QED  BY <1>1, TypeCorrect, ViewsStayResolved, PTL

---------------------------------------------------------------------------
(* The floors of a bundle. *)

\* FloorsShowWhatBlocks: the conflicts a bundle shows are all that gate 7 judges by,
\* and the boundary it shows is there; it is open where ids do not repeat, since
\* what the reader finds under the id is then what gate 9 found open.
THEOREM FloorsShowBlocks == Spec => []FloorsShowWhatBlocks
<1>1. TypeOK /\ BoundaryResolves(tree) => FloorsShowWhatBlocks
  <2>. SUFFICES ASSUME TypeOK, BoundaryResolves(tree) PROVE FloorsShowWhatBlocks
    OBVIOUS
  <2>. DEFINE floors(budget) == build_bundle(tree, budget).mandatoryInputs
  <2>1. ASSUME NEW budget PROVE floors(budget) = MandatoryInputs(tree)
    BY DEF build_bundle
  <2>2. ASSUME NEW op, Blocked(tree, op)
        PROVE  \E c \in ToSet(tree.conflicts) :
                  /\ c.scope \in {<<>>, op.scope}
                  /\ [id |-> c.id, description |-> c.description]
                        \in MandatoryInputs(tree).conflicts
    <3>1. PICK c \in ToSet(tree.conflicts) : c.status = "Open" /\ c.scope \in {<<>>, op.scope}
      BY <2>2, Zenon DEF Blocked
    <3>2. [id |-> c.id, description |-> c.description] \in OpenConflicts(tree)
      BY <3>1 DEF OpenConflicts
    <3>3. MandatoryInputs(tree).conflicts = OpenConflicts(tree)
      BY DEF MandatoryInputs
    <3>. QED  BY <3>1, <3>2, <3>3
  <2>3. ASSUME NEW ref \in ToSet(tree.nextBoundaryRef)
        PROVE  /\ MandatoryInputs(tree).boundary # <<>>
               /\ Distinct(tree.obligations) => FindsOpen(findObligation(tree, ref))
    <3>1. tree.obligations \in Seq(ObligationRecord)
      BY Zenon DEF TypeOK, Tree
    <3>2. tree.nextBoundaryRef # <<>> /\ tree.nextBoundaryRef[1] = ref
      <4>1. tree.nextBoundaryRef \in Seq(Nat \ {0}) /\ Len(tree.nextBoundaryRef) <= 1
        BY Zenon DEF TypeOK, Tree
      <4>2. PICK i \in DOMAIN tree.nextBoundaryRef : ref = tree.nextBoundaryRef[i]
        BY DEF ToSet
      <4>. QED  BY <4>1, <4>2
    <3>3. PICK k \in 1..Len(tree.obligations) :
               tree.obligations[k].id = ref /\ tree.obligations[k].status = "Open"
      <4>1. PICK o \in ToSet(tree.obligations) : o.id = ref /\ o.status = "Open"
        BY Zenon DEF BoundaryResolves
      <4>2. DOMAIN tree.obligations = 1..Len(tree.obligations)
        BY <3>1
      <4>. QED  BY <4>1, <4>2 DEF ToSet
    <3>4. PICK i \in 1..Len(tree.obligations) :
               /\ findFirst(tree.obligations, ref) = <<tree.obligations[i]>>
               /\ tree.obligations[i].id = ref
      BY <3>1, <3>3, FindFirst
    <3>. DEFINE found == <<tree.obligations[i]>>
    <3>5. findObligation(tree, ref) = found
      BY <3>4, Zenon DEF findObligation
    <3>6. MandatoryInputs(tree).boundary = [j \in DOMAIN found |-> found[j].statement]
      <4>. HIDE DEF found
      <4>. QED  BY <3>2, <3>5 DEF MandatoryInputs
    <3>7. 1 \in DOMAIN MandatoryInputs(tree).boundary
      BY <3>6
    <3>8. ASSUME Distinct(tree.obligations) PROVE FindsOpen(findObligation(tree, ref))
      <4>1. i = k
        BY <3>1, <3>3, <3>4, <3>8 DEF Distinct
      <4>2. found # <<>> /\ found[1] = tree.obligations[i]
        OBVIOUS
      <4>. HIDE DEF found
      <4>. QED  BY <3>3, <3>5, <4>1, <4>2 DEF FindsOpen
    <3>. QED  BY <3>7, <3>8
  <2>. HIDE DEF floors
  <2>. QED  BY <2>1, <2>2, <2>3, Zenon DEF FloorsShowWhatBlocks, floors
<1>. QED  BY <1>1, TypeCorrect, BoundaryStaysOpen, PTL

---------------------------------------------------------------------------
(* Bundles. *)

\* g adds up the estimates of the first len candidates.
Adds(g, s, len) ==
    /\ g[0] = 0 /\ \A n \in 0..len : g[n] \in Nat
    /\ \A n \in 1..len : g[n] = g[n - 1] + Estimate(s[n].summary)

\* Cost adds up the estimates of ever longer prefixes.
LEMMA CostSteps ==
    ASSUME NEW R, \A r \in R : Estimate(r.summary) \in Nat, NEW s \in Seq(R)
    PROVE  \E g : Adds(g, s, Len(s)) /\ g[Len(s)] = Cost(s)
<1>. DEFINE len == Len(s)
            step == [n \in 1..len |-> [sum \in Nat |-> sum + Estimate(s[n].summary)]]
            Sums(g) == g = [n \in 0..len |->
                              IF n = 0 THEN 0 ELSE g[n - 1] + Estimate(s[n].summary)]
            cost == CHOOSE g : Sums(g)
<1>1. len \in Nat /\ \A n \in 1..len : Estimate(s[n].summary) \in Nat
  BY SMT
<1>2. \A n \in 1..len : \A x \in Nat : step[n][x] \in Nat
  BY <1>1
<1>3. PICK g : Walks(g, Nat, 0, step, len)
  <2>. HIDE DEF step
  <2>. QED  BY <1>1, <1>2, StepsExist
<1>4. ASSUME NEW n \in 1..len PROVE g[n] = g[n - 1] + Estimate(s[n].summary)
  <2>1. g[n - 1] \in Nat /\ g[n] = step[n][g[n - 1]]
    <3>1. n - 1 \in 0..len
      BY <1>1
    <3>. HIDE DEF step
    <3>. QED  BY <1>3, <3>1 DEF Walks
  <2>. QED  BY <2>1
<1>. DEFINE h == [n \in 0..len |-> g[n]]
<1>5. Sums(h)
  <2>1. \A n \in 0..len : h[n] = IF n = 0 THEN 0 ELSE h[n - 1] + Estimate(s[n].summary)
    <3>. SUFFICES ASSUME NEW n \in 0..len
                  PROVE  h[n] = IF n = 0 THEN 0 ELSE h[n - 1] + Estimate(s[n].summary)
      OBVIOUS
    <3>1. CASE n = 0
      BY <1>1, <1>3, <3>1 DEF Walks
    <3>2. CASE n # 0
      <4>1. n \in 1..len /\ n - 1 \in 0..len
        BY <1>1, <3>2
      <4>. QED  BY <1>4, <3>2, <4>1
    <3>. QED  BY <3>1, <3>2
  <2>. HIDE DEF h
  <2>2. h = [n \in 0..len |-> h[n]]
    BY DEF h
  <2>. QED  BY <2>1, <2>2
<1>6. Sums(cost)
  <2>. HIDE DEF Sums
  <2>. QED  BY <1>5
<1>7. Cost(s) = cost[len]
  BY DEF Cost
<1>. HIDE DEF cost
<1>8. cost[0] = 0 /\ \A n \in 1..len : cost[n] = cost[n - 1] + Estimate(s[n].summary)
  <2>1. 0 \in 0..len /\ \A n \in 1..len : n \in 0..len /\ n # 0
    BY <1>1
  <2>2. cost = [n \in 0..len |-> IF n = 0 THEN 0 ELSE cost[n - 1] + Estimate(s[n].summary)]
    BY <1>6
  <2>3. \A n \in 0..len : cost[n] = IF n = 0 THEN 0 ELSE cost[n - 1] + Estimate(s[n].summary)
    BY <2>2
  <2>. QED  BY <2>1, <2>3
<1>. DEFINE Good == {n \in Nat : n \in 0..len => cost[n] \in Nat}
<1>9. \A n \in 0..len : cost[n] \in Nat
  <2>1. 0 \in Good
    BY <1>8
  <2>2. ASSUME NEW n \in Nat, n \in Good PROVE n + 1 \in Good
    <3>. SUFFICES ASSUME n + 1 \in 0..len PROVE cost[n + 1] \in Nat
      OBVIOUS
    <3>1. cost[n] \in Nat /\ n + 1 \in 1..len /\ (n + 1) - 1 = n
      BY <2>2
    <3>. QED  BY <1>1, <1>8, <3>1
  <2>3. Nat \subseteq Good
    <3>. HIDE DEF Good
    <3>. QED  BY <2>1, <2>2, SetInduction
  <2>. QED  BY <2>3
<1>. QED  BY <1>7, <1>8, <1>9 DEF Adds

\* One more candidate costs its estimate more.
LEMMA CostAppend ==
    ASSUME NEW R, \A r \in R : Estimate(r.summary) \in Nat, NEW s \in Seq(R), NEW e \in R
    PROVE  Cost(s) \in Nat /\ Cost(Append(s, e)) = Cost(s) + Estimate(e.summary)
<1>. DEFINE t == Append(s, e)
            len == Len(s)
<1>1. /\ t \in Seq(R) /\ len \in Nat /\ Len(t) = len + 1 /\ t[len + 1] = e
      /\ \A n \in 1..len : t[n] = s[n]
  OBVIOUS
<1>2. PICK f : Adds(f, s, len) /\ f[len] = Cost(s)
  BY CostSteps
<1>3. PICK g : Adds(g, t, len + 1) /\ g[len + 1] = Cost(t)
  <2>. HIDE DEF t
  <2>. QED  BY <1>1, CostSteps
<1>. HIDE DEF t
<1>. DEFINE Same == {n \in Nat : n \in 0..len => f[n] = g[n]}
<1>4. 0 \in Same
  BY <1>2, <1>3 DEF Adds
<1>5. ASSUME NEW n \in Nat, n \in Same PROVE n + 1 \in Same
  <2>. SUFFICES ASSUME n + 1 \in 0..len PROVE f[n + 1] = g[n + 1]
    OBVIOUS
  <2>1. f[n] = g[n] /\ n + 1 \in 1..len /\ n + 1 \in 1..len + 1 /\ (n + 1) - 1 = n
    BY <1>5
  <2>. QED  BY <1>1, <1>2, <1>3, <2>1 DEF Adds
<1>6. f[len] = g[len]
  <2>1. len \in Same
    <3>. HIDE DEF Same
    <3>. QED  BY <1>1, <1>4, <1>5, SetInduction
  <2>. QED  BY <2>1, <1>1
<1>7. g[len + 1] = g[len] + Estimate(e.summary)
  <2>1. len + 1 \in 1..len + 1 /\ (len + 1) - 1 = len
    BY <1>1
  <2>. QED  BY <1>1, <1>3, <2>1 DEF Adds
<1>8. f[len] \in Nat
  BY <1>1, <1>2 DEF Adds
<1>. QED  BY <1>2, <1>3, <1>6, <1>7, <1>8 DEF t

\* The elements of a sequence.
Members(q) == {q[i] : i \in 1..Len(q)}

\* What has been chosen of the first n that are listed, within a budget.
Explains(c, R, listed, n, budget) ==
    /\ c.candidates \in Seq(R) /\ c.omissions \in Seq(R)
    /\ Len(c.candidates) + Len(c.omissions) = n
    /\ \A i \in 1..n : listed[i] \in Members(c.candidates) \cup Members(c.omissions)
    /\ c.used \in Nat /\ c.used = Cost(c.candidates) /\ c.used <= budget
    /\ \A o \in Members(c.omissions) : c.used + Estimate(o.summary) > budget

\* Appending adds an element.
LEMMA AppendElement ==
    ASSUME NEW R, NEW s \in Seq(R), NEW e \in R
    PROVE  /\ Append(s, e) \in Seq(R) /\ Len(Append(s, e)) = Len(s) + 1
           /\ Members(Append(s, e)) = Members(s) \cup {e}
<1>. DEFINE t == Append(s, e)
<1>1. /\ t \in Seq(R) /\ Len(s) \in Nat /\ Len(t) = Len(s) + 1 /\ t[Len(s) + 1] = e
      /\ \A n \in 1..Len(s) : t[n] = s[n]
  OBVIOUS
<1>. HIDE DEF t
<1>2. Members(t) = Members(s) \cup {e}
  <2>1. 1..Len(t) = (1..Len(s)) \cup {Len(s) + 1}
    BY <1>1
  <2>. QED  BY <1>1, <2>1 DEF Members
<1>. QED  BY <1>1, <1>2 DEF t

\* Each candidate is taken or explained, whatever was chosen before it.
LEMMA SelectExplains ==
    ASSUME NEW R, \A r \in R : Estimate(r.summary) \in Nat, NEW listed, NEW budget \in Nat,
           NEW n \in Nat, NEW c, Explains(c, R, listed, n, budget), listed[n + 1] \in R,
           c = [candidates |-> c.candidates, omissions |-> c.omissions, used |-> c.used]
    PROVE  /\ Explains(Select(c, listed[n + 1], budget), R, listed, n + 1, budget)
           /\ Select(c, listed[n + 1], budget) \in
                 [candidates : Seq(R), omissions : Seq(R), used : Nat]
<1>. DEFINE e == listed[n + 1]
            d == Select(c, e, budget)
<1>1. /\ c.candidates \in Seq(R) /\ c.omissions \in Seq(R)
      /\ Len(c.candidates) \in Nat /\ Len(c.omissions) \in Nat
      /\ Len(c.candidates) + Len(c.omissions) = n
      /\ c.used \in Nat /\ c.used = Cost(c.candidates) /\ c.used <= budget
      /\ Estimate(e.summary) \in Nat
  BY DEF Explains
<1>2. \A i \in 1..n : listed[i] \in Members(c.candidates) \cup Members(c.omissions)
  BY DEF Explains
<1>3. \A o \in Members(c.omissions) : c.used + Estimate(o.summary) > budget
  BY DEF Explains
<1>4. \A i \in 1..n + 1 : i \in 1..n \/ i = n + 1
  OBVIOUS
<1>5. CASE Fits(c, e, budget)
  <2>. DEFINE more == Append(c.candidates, e)
  <2>1. /\ d = [candidates |-> more, omissions |-> c.omissions,
                used |-> c.used + Estimate(e.summary)]
    BY <1>5 DEF Select, Taken
  <2>2. /\ more \in Seq(R) /\ Len(more) = Len(c.candidates) + 1
        /\ Members(more) = Members(c.candidates) \cup {e}
    BY <1>1, AppendElement
  <2>3. Cost(more) = c.used + Estimate(e.summary)
    BY <1>1, CostAppend
  <2>4. c.used + Estimate(e.summary) <= budget
    BY <1>5 DEF Fits
  <2>. HIDE DEF more, d
  <2>5. /\ d.candidates = more /\ d.omissions = c.omissions
        /\ d.used = c.used + Estimate(e.summary)
    BY <2>1
  <2>. HIDE DEF e
  <2>6. \A i \in 1..n + 1 : listed[i] \in Members(d.candidates) \cup Members(d.omissions)
    BY <1>2, <1>4, <2>2, <2>5 DEF e
  <2>7. \A o \in Members(d.omissions) : d.used + Estimate(o.summary) > budget
    <3>. SUFFICES ASSUME NEW o \in Members(c.omissions)
                  PROVE  c.used + Estimate(e.summary) + Estimate(o.summary) > budget
      BY <2>5
    <3>1. o \in R
      BY <1>1 DEF Members
    <3>. QED  BY <1>1, <1>3, <3>1
  <2>8. /\ d.candidates \in Seq(R) /\ d.omissions \in Seq(R) /\ d.used \in Nat
        /\ Len(d.candidates) + Len(d.omissions) = n + 1
        /\ d.used = Cost(d.candidates) /\ d.used <= budget
    <3>1. d.candidates \in Seq(R) /\ d.omissions \in Seq(R)
      BY <1>1, <2>2, <2>5
    <3>2. Len(d.candidates) + Len(d.omissions) = n + 1
      <4>1. Len(d.candidates) = Len(c.candidates) + 1 /\ Len(d.omissions) = Len(c.omissions)
        BY <2>2, <2>5, Zenon
      <4>2. Len(c.candidates) \in Nat /\ Len(c.omissions) \in Nat
        BY <1>1
      <4>. QED  BY <1>1, <4>1, <4>2
    <3>3. d.used = Cost(d.candidates)
      BY <2>3, <2>5, Zenon
    <3>4. d.used \in Nat /\ d.used <= budget
      <4>1. c.used \in Nat /\ Estimate(e.summary) \in Nat
        BY <1>1, Zenon
      <4>. QED  BY <2>4, <2>5, <4>1
    <3>. QED  BY <3>1, <3>2, <3>3, <3>4
  <2>9. Explains(d, R, listed, n + 1, budget)
    BY <2>6, <2>7, <2>8 DEF Explains
  <2>10. d \in [candidates : Seq(R), omissions : Seq(R), used : Nat]
    BY <1>1, <2>1, <2>2
  <2>. QED  BY <2>9, <2>10 DEF d, e
<1>6. CASE ~Fits(c, e, budget)
  <2>. DEFINE more == Append(c.omissions, e)
  <2>1. d = [candidates |-> c.candidates, omissions |-> more, used |-> c.used]
    BY <1>6 DEF Select
  <2>2. /\ more \in Seq(R) /\ Len(more) = Len(c.omissions) + 1
        /\ Members(more) = Members(c.omissions) \cup {e}
    BY <1>1, AppendElement
  <2>3. c.used + Estimate(e.summary) > budget
    BY <1>1, <1>6 DEF Fits
  <2>. HIDE DEF more, d
  <2>4. d.candidates = c.candidates /\ d.omissions = more /\ d.used = c.used
    BY <2>1
  <2>. HIDE DEF e
  <2>5. \A i \in 1..n + 1 : listed[i] \in Members(d.candidates) \cup Members(d.omissions)
    BY <1>2, <1>4, <2>2, <2>4 DEF e
  <2>6. \A o \in Members(d.omissions) : d.used + Estimate(o.summary) > budget
    BY <1>3, <2>2, <2>3, <2>4
  <2>7. /\ d.candidates \in Seq(R) /\ d.omissions \in Seq(R) /\ d.used \in Nat
        /\ Len(d.candidates) + Len(d.omissions) = n + 1
        /\ d.used = Cost(d.candidates) /\ d.used <= budget
    BY <1>1, <2>2, <2>4
  <2>8. Explains(d, R, listed, n + 1, budget)
    BY <2>5, <2>6, <2>7 DEF Explains
  <2>9. d \in [candidates : Seq(R), omissions : Seq(R), used : Nat]
    BY <1>1, <2>1, <2>2
  <2>. QED  BY <2>8, <2>9 DEF d, e
<1>. QED  BY <1>5, <1>6

\* A budget accounts for all that is listed.
LEMMA ChosenExplains ==
    ASSUME NEW R, \A r \in R : Estimate(r.summary) \in Nat, NEW listed \in Seq(R),
           NEW budget \in Nat
    PROVE  Explains(Chosen(listed, budget), R, listed, Len(listed), budget)
<1>. DEFINE len == Len(listed)
            Splits == [candidates : Seq(R), omissions : Seq(R), used : Nat]
            After(n, c) == Select(c, listed[n], budget)
            step == [n \in 1..len |->
                       [c \in Splits |-> IF After(n, c) \in Splits THEN After(n, c) ELSE c]]
            Chooses(g) == g = [n \in 0..len |->
                                 IF n = 0 THEN NothingChosen
                                 ELSE Select(g[n - 1], listed[n], budget)]
            chosen == CHOOSE g : Chooses(g)
<1>1. len \in Nat /\ \A n \in 1..len : listed[n] \in R
  BY SMT
<1>2. /\ NothingChosen \in Splits /\ Cost(NothingChosen.candidates) = 0
      /\ Len(NothingChosen.candidates) = 0 /\ Len(NothingChosen.omissions) = 0
      /\ NothingChosen.used = 0
  <2>1. <<>> \in Seq(R) /\ Len(<<>>) = 0
    OBVIOUS
  <2>2. PICK g : Adds(g, <<>>, Len(<<>>)) /\ g[Len(<<>>)] = Cost(<<>>)
    BY <2>1, CostSteps
  <2>3. Cost(<<>>) = 0
    BY <2>1, <2>2 DEF Adds
  <2>4. NothingChosen.candidates = <<>> /\ NothingChosen.omissions = <<>>
        /\ NothingChosen.used = 0
    BY DEF NothingChosen
  <2>5. NothingChosen \in Splits
    BY <2>1 DEF NothingChosen
  <2>. QED  BY <2>1, <2>3, <2>4, <2>5
<1>3. Explains(NothingChosen, R, listed, 0, budget)
  BY <1>2 DEF Explains, Members
<1>4. ASSUME NEW n \in 1..len, NEW c \in Splits, Explains(c, R, listed, n - 1, budget)
      PROVE  After(n, c) \in Splits /\ Explains(After(n, c), R, listed, n, budget)
  <2>1. n - 1 \in Nat /\ (n - 1) + 1 = n
    BY <1>1
  <2>2. listed[(n - 1) + 1] \in R
    BY <1>1, <2>1
  <2>3. c = [candidates |-> c.candidates, omissions |-> c.omissions, used |-> c.used]
    OBVIOUS
  <2>4. /\ Explains(Select(c, listed[(n - 1) + 1], budget), R, listed, (n - 1) + 1, budget)
        /\ Select(c, listed[(n - 1) + 1], budget) \in Splits
    BY <1>4, <2>1, <2>2, <2>3, SelectExplains
  <2>. QED  BY <2>1, <2>4
<1>. HIDE DEF Splits
<1>5. PICK g : Walks(g, Splits, NothingChosen, step, len)
  <2>1. \A n \in 1..len : \A c \in Splits : step[n][c] \in Splits
    <3>. HIDE DEF After
    <3>. QED  OBVIOUS
  <2>. HIDE DEF step
  <2>. QED  BY <1>1, <1>2, <2>1, StepsExist
<1>6. ASSUME NEW n \in 1..len, Explains(g[n - 1], R, listed, n - 1, budget)
      PROVE  g[n] = After(n, g[n - 1]) /\ Explains(g[n], R, listed, n, budget)
  <2>1. g[n - 1] \in Splits /\ g[n] = step[n][g[n - 1]]
    <3>1. n - 1 \in 0..len
      BY <1>1
    <3>. HIDE DEF step
    <3>. QED  BY <1>5, <3>1 DEF Walks
  <2>. HIDE DEF After
  <2>2. After(n, g[n - 1]) \in Splits /\ Explains(After(n, g[n - 1]), R, listed, n, budget)
    BY <1>4, <1>6, <2>1
  <2>3. g[n] = After(n, g[n - 1])
    BY <2>1, <2>2
  <2>. QED  BY <2>2, <2>3
<1>. DEFINE Good == {n \in Nat : n \in 0..len => Explains(g[n], R, listed, n, budget)}
<1>7. ASSUME NEW n \in 0..len PROVE Explains(g[n], R, listed, n, budget)
  <2>1. 0 \in Good
    BY <1>3, <1>5 DEF Walks
  <2>2. ASSUME NEW k \in Nat, k \in Good PROVE k + 1 \in Good
    <3>. SUFFICES ASSUME k + 1 \in 0..len PROVE Explains(g[k + 1], R, listed, k + 1, budget)
      OBVIOUS
    <3>1. Explains(g[k], R, listed, k, budget) /\ k + 1 \in 1..len /\ (k + 1) - 1 = k
      BY <2>2
    <3>. QED  BY <1>6, <3>1
  <2>3. Nat \subseteq Good
    <3>. HIDE DEF Good
    <3>. QED  BY <2>1, <2>2, SetInduction
  <2>. QED  BY <1>1, <2>3
<1>. DEFINE h == [n \in 0..len |-> g[n]]
<1>8. Chooses(h)
  <2>1. \A n \in 0..len : h[n] = IF n = 0 THEN NothingChosen
                                  ELSE Select(h[n - 1], listed[n], budget)
    <3>. SUFFICES ASSUME NEW n \in 0..len
                  PROVE  h[n] = IF n = 0 THEN NothingChosen
                                ELSE Select(h[n - 1], listed[n], budget)
      OBVIOUS
    <3>1. CASE n = 0
      BY <1>1, <1>5, <3>1 DEF Walks
    <3>2. CASE n # 0
      <4>1. n \in 1..len /\ n - 1 \in 0..len
        BY <1>1, <3>2
      <4>2. g[n] = Select(g[n - 1], listed[n], budget)
        BY <1>6, <1>7, <4>1
      <4>. QED  BY <3>2, <4>1, <4>2
    <3>. QED  BY <3>1, <3>2
  <2>. HIDE DEF h
  <2>2. h = [n \in 0..len |-> h[n]]
    BY DEF h
  <2>. QED  BY <2>1, <2>2
<1>9. Chooses(chosen)
  <2>. HIDE DEF Chooses
  <2>. QED  BY <1>8
<1>10. Chosen(listed, budget) = chosen[len]
  BY DEF Chosen
<1>. HIDE DEF chosen
<1>11. /\ chosen[0] = NothingChosen
       /\ \A n \in 1..len : chosen[n] = Select(chosen[n - 1], listed[n], budget)
  <2>1. 0 \in 0..len /\ \A n \in 1..len : n \in 0..len /\ n # 0
    BY <1>1
  <2>2. chosen = [n \in 0..len |-> IF n = 0 THEN NothingChosen
                                   ELSE Select(chosen[n - 1], listed[n], budget)]
    BY <1>9
  <2>3. \A n \in 0..len : chosen[n] = IF n = 0 THEN NothingChosen
                                       ELSE Select(chosen[n - 1], listed[n], budget)
    BY <2>2
  <2>. QED  BY <2>1, <2>3
<1>. DEFINE Same == {n \in Nat : n \in 0..len => chosen[n] = g[n]}
<1>12. chosen[len] = g[len]
  <2>1. 0 \in Same
    BY <1>5, <1>11 DEF Walks
  <2>2. ASSUME NEW n \in Nat, n \in Same PROVE n + 1 \in Same
    <3>. SUFFICES ASSUME n + 1 \in 0..len PROVE chosen[n + 1] = g[n + 1]
      OBVIOUS
    <3>1. chosen[n] = g[n] /\ n \in 0..len /\ n + 1 \in 1..len /\ (n + 1) - 1 = n
      BY <2>2
    <3>2. g[n + 1] = Select(g[n], listed[n + 1], budget)
      BY <1>6, <1>7, <3>1
    <3>. QED  BY <1>11, <3>1, <3>2
  <2>3. len \in Same
    <3>. HIDE DEF Same
    <3>. QED  BY <1>1, <2>1, <2>2, SetInduction
  <2>. QED  BY <1>1, <2>3
<1>. QED  BY <1>1, <1>7, <1>10, <1>12

\* What is listed of a decision and of a memory record.
OfDecision(d) == [kind |-> "decision", id |-> d.id,
                  summary |-> (IF d.status = "Accepted" THEN "accepted: " ELSE "lifecycle: ")
                                 \o d.title]

OfMemory(m) == [kind |-> "memory", id |-> m.title, summary |-> m.statement]

Items == {OfDecision(d) : d \in DecisionRecord} \cup {OfMemory(m) : m \in MemoryRecord}

LEMMA ItemsHaveACost == \A r \in Items : Estimate(r.summary) \in Nat
<1>. SUFFICES ASSUME NEW r \in Items PROVE Estimate(r.summary) \in Nat
  OBVIOUS
<1>1. Len(r.summary) \in Nat
  <2>1. ASSUME NEW d \in DecisionRecord, r = OfDecision(d) PROVE Len(r.summary) \in Nat
    <3>1. d.title \in Texts
      BY DEF DecisionRecord
    <3>2. r.summary = "accepted: " \o d.title \/ r.summary = "lifecycle: " \o d.title
      BY <2>1, Zenon DEF OfDecision
    <3>. QED  BY <3>1, <3>2, BudgetAssumption, Zenon
  <2>2. ASSUME NEW m \in MemoryRecord, r = OfMemory(m) PROVE Len(r.summary) \in Nat
    <3>1. m.statement \in Texts /\ r.summary = m.statement
      BY <2>2 DEF MemoryRecord, OfMemory
    <3>. QED  BY <3>1, BudgetAssumption, Zenon
  <2>. QED  BY <2>1, <2>2, Zenon DEF Items
<1>2. ASSUME NEW n \in Nat PROVE (n + 3) \div 4 \in Nat
  OBVIOUS
<1>. QED  BY <1>1, <1>2, Zenon DEF Estimate

\* The decisions come first, then what is not a floor.
LEMMA ListedAll ==
    ASSUME NEW t \in Tree
    PROVE  /\ Listed(t) \in Seq(Items)
           /\ Len(Listed(t)) = Len(t.decisions)
                + Len(Kept(t.memory, {m \in ToSet(t.memory) : ~IsFloor(m)}))
           /\ \A i \in 1..Len(t.decisions) : /\ Listed(t)[i].kind = "decision"
                                            /\ Listed(t)[i].id = t.decisions[i].id
<1>. DEFINE memory == Kept(t.memory, {m \in ToSet(t.memory) : ~IsFloor(m)})
            ofDecisions == [i \in DOMAIN t.decisions |-> OfDecision(t.decisions[i])]
            ofMemory == [i \in DOMAIN memory |-> OfMemory(memory[i])]
<1>1. t.decisions \in Seq(DecisionRecord) /\ memory \in Seq(MemoryRecord)
  <2>1. t.decisions \in Seq(DecisionRecord) /\ t.memory \in Seq(MemoryRecord)
    BY Zenon DEF Tree
  <2>. QED  BY <2>1, KeptAll
<1>2. Listed(t) = ofDecisions \o ofMemory
  BY Zenon DEF Listed, OfDecision, OfMemory
<1>. HIDE DEF memory
<1>3. /\ ofDecisions \in Seq(Items) /\ Len(ofDecisions) = Len(t.decisions)
      /\ \A i \in 1..Len(t.decisions) : ofDecisions[i] = OfDecision(t.decisions[i])
  <2>1. \A d \in DecisionRecord : OfDecision(d) \in Items
    BY Zenon DEF Items
  <2>. QED  BY <1>1, <2>1
<1>4. ofMemory \in Seq(Items) /\ Len(ofMemory) = Len(memory)
  <2>1. \A m \in MemoryRecord : OfMemory(m) \in Items
    BY Zenon DEF Items
  <2>. QED  BY <1>1, <2>1
<1>. HIDE DEF ofDecisions, ofMemory
<1>5. /\ ofDecisions \o ofMemory \in Seq(Items)
      /\ Len(ofDecisions \o ofMemory) = Len(t.decisions) + Len(memory)
      /\ \A i \in 1..Len(t.decisions) : (ofDecisions \o ofMemory)[i] = ofDecisions[i]
  BY <1>3, <1>4
<1>6. \A i \in 1..Len(t.decisions) : /\ ofDecisions[i].kind = "decision"
                                     /\ ofDecisions[i].id = t.decisions[i].id
  <2>1. \A d : OfDecision(d).kind = "decision" /\ OfDecision(d).id = d.id
    BY Zenon DEF OfDecision
  <2>. QED  BY <1>3, <2>1
<1>. QED  BY <1>2, <1>5, <1>6 DEF memory

\* BundleAccountsForAll: at any budget, what build_bundle lists is taken or explained
\* one by one, so nothing is lost or shown twice; the sum it keeps is the cost of
\* what it took and never passes the budget; and the sum only grows, so that what
\* did not fit when it was looked at does not fit in the end (DR-007).
THEOREM BundlesAccount == Spec => []BundleAccountsForAll
<1>1. TypeOK => BundleAccountsForAll
  <2>. SUFFICES ASSUME TypeOK, NEW budget \in Budgets
                PROVE  LET bundle == build_bundle(tree, budget)
                           used   == Cost(bundle.candidates)
                       IN  /\ Len(bundle.candidates) + Len(bundle.omissions)
                                + Len(bundle.mandatoryInputs.negative)
                                = Len(tree.decisions) + Len(tree.memory)
                           /\ \A d \in ToSet(tree.decisions) :
                                 \E c \in ToSet(bundle.candidates \o bundle.omissions) :
                                    c.kind = "decision" /\ c.id = d.id
                           /\ used <= TokenBudget(budget)
                           /\ \A c \in ToSet(bundle.omissions) :
                                 used + Estimate(c.summary) > TokenBudget(budget)
    BY DEF BundleAccountsForAll
  <2>. DEFINE listed == Listed(tree)
              limit == TokenBudget(budget)
              chosen == Chosen(listed, limit)
              bundle == build_bundle(tree, budget)
              floors == Kept(tree.memory, {m \in ToSet(tree.memory) : IsFloor(m)})
              others == Kept(tree.memory, {m \in ToSet(tree.memory) : ~IsFloor(m)})
  <2>1. tree \in Tree /\ tree.decisions \in Seq(DecisionRecord) /\ tree.memory \in Seq(MemoryRecord)
    BY Zenon DEF TypeOK, Tree
  <2>2. limit \in Nat
    <3>1. budget \in Nat
      BY BudgetAssumption, Zenon
    <3>. QED  BY <3>1 DEF TokenBudget
  <2>3. /\ bundle.candidates = chosen.candidates /\ bundle.omissions = chosen.omissions
        /\ bundle.mandatoryInputs = MandatoryInputs(tree)
    BY DEF build_bundle
  <2>4. /\ listed \in Seq(Items) /\ Len(listed) = Len(tree.decisions) + Len(others)
        /\ \A i \in 1..Len(tree.decisions) : /\ listed[i].kind = "decision"
                                             /\ listed[i].id = tree.decisions[i].id
    BY <2>1, ListedAll
  <2>. HIDE DEF listed, limit
  <2>5. Explains(chosen, Items, listed, Len(listed), limit)
    BY <2>2, <2>4, ItemsHaveACost, ChosenExplains
  <2>. HIDE DEF chosen, bundle
  <2>6. /\ chosen.candidates \in Seq(Items) /\ chosen.omissions \in Seq(Items)
        /\ Len(chosen.candidates) + Len(chosen.omissions) = Len(listed)
        /\ \A i \in 1..Len(listed) :
              listed[i] \in Members(chosen.candidates) \cup Members(chosen.omissions)
        /\ chosen.used = Cost(chosen.candidates) /\ chosen.used <= limit
        /\ \A o \in Members(chosen.omissions) : chosen.used + Estimate(o.summary) > limit
    BY <2>5 DEF Explains
  <2>7. Len(bundle.mandatoryInputs.negative) = Len(floors)
    <3>1. floors \in Seq(MemoryRecord)
      BY <2>1, KeptAll
    <3>2. MandatoryInputs(tree).negative = [i \in DOMAIN floors |-> floors[i].statement]
      BY DEF MandatoryInputs
    <3>. HIDE DEF floors
    <3>3. Len([i \in DOMAIN floors |-> floors[i].statement]) = Len(floors)
      BY <3>1
    <3>. QED  BY <2>3, <3>2, <3>3
  <2>8. Len(floors) + Len(others) = Len(tree.memory)
    <3>1. \A i \in 1..Len(tree.memory) : tree.memory[i] \in ToSet(tree.memory)
      BY <2>1 DEF ToSet
    <3>. QED  BY <2>1, <3>1, KeptParts
  <2>9. Len(bundle.candidates) + Len(bundle.omissions) + Len(bundle.mandatoryInputs.negative)
          = Len(tree.decisions) + Len(tree.memory)
    <3>1. /\ Len(floors) \in Nat /\ Len(others) \in Nat /\ Len(tree.decisions) \in Nat
          /\ Len(tree.memory) \in Nat
          /\ Len(chosen.candidates) \in Nat /\ Len(chosen.omissions) \in Nat
      <4>1. floors \in Seq(MemoryRecord) /\ others \in Seq(MemoryRecord)
        BY <2>1, KeptAll
      <4>. HIDE DEF floors, others
      <4>. QED  BY <2>1, <2>6, <4>1
    <3>. HIDE DEF floors, others
    <3>2. Len(bundle.candidates) + Len(bundle.omissions) = Len(tree.decisions) + Len(others)
      BY <2>3, <2>4, <2>6, Zenon
    <3>3. Len(bundle.candidates) \in Nat /\ Len(bundle.omissions) \in Nat
      BY <2>3, <3>1, Zenon
    <3>. DEFINE a == Len(bundle.candidates)  b == Len(bundle.omissions)
                c == Len(bundle.mandatoryInputs.negative)  d == Len(tree.decisions)
                k == Len(others)  m == Len(tree.memory)
    <3>4. a + b = d + k /\ c + k = m
      BY <2>7, <2>8, <3>2, Zenon
    <3>5. /\ a \in Nat /\ b \in Nat /\ c \in Nat
          /\ d \in Nat /\ k \in Nat /\ m \in Nat
      BY <2>7, <3>1, <3>3, Zenon
    <3>. HIDE DEF a, b, c, d, k, m
    <3>6. a + b + c = d + m
      BY <3>4, <3>5
    <3>. QED  BY <3>6 DEF a, b, c, d, m
  <2>10. ASSUME NEW s \in Seq(Items), NEW u \in Seq(Items)
         PROVE  /\ ToSet(u) = Members(u)
                /\ ToSet(s \o u) = Members(s) \cup Members(u)
    <3>1. DOMAIN u = 1..Len(u) /\ Len(s) \in Nat /\ Len(u) \in Nat
      OBVIOUS
    <3>2. /\ DOMAIN (s \o u) = 1..Len(s) + Len(u)
          /\ \A i \in 1..Len(s) : (s \o u)[i] = s[i]
          /\ \A i \in 1..Len(u) : (s \o u)[Len(s) + i] = u[i]
      OBVIOUS
    <3>3. ASSUME NEW x \in ToSet(s \o u) PROVE x \in Members(s) \cup Members(u)
      <4>1. PICK i \in 1..Len(s) + Len(u) : x = (s \o u)[i]
        BY <3>2 DEF ToSet
      <4>2. CASE i \in 1..Len(s)
        BY <3>2, <4>1, <4>2 DEF Members
      <4>3. CASE i \notin 1..Len(s)
        <5>1. i - Len(s) \in 1..Len(u) /\ Len(s) + (i - Len(s)) = i
          BY <3>1, <4>3
        <5>2. x = u[i - Len(s)]
          BY <3>2, <4>1, <5>1
        <5>. QED  BY <5>1, <5>2 DEF Members
      <4>. QED  BY <4>2, <4>3
    <3>4. ASSUME NEW x \in Members(s) \cup Members(u) PROVE x \in ToSet(s \o u)
      <4>1. CASE x \in Members(s)
        <5>1. PICK i \in 1..Len(s) : x = s[i]
          BY <4>1 DEF Members
        <5>2. i \in 1..Len(s) + Len(u)
          BY <3>1
        <5>. QED  BY <3>2, <5>1, <5>2 DEF ToSet
      <4>2. CASE x \in Members(u)
        <5>1. PICK i \in 1..Len(u) : x = u[i]
          BY <4>2 DEF Members
        <5>2. Len(s) + i \in 1..Len(s) + Len(u)
          BY <3>1
        <5>. QED  BY <3>2, <5>1, <5>2 DEF ToSet
      <4>. QED  BY <4>1, <4>2
    <3>5. ToSet(u) = Members(u)
      BY <3>1 DEF ToSet, Members
    <3>. QED  BY <3>3, <3>4, <3>5
  <2>11. ASSUME NEW d \in ToSet(tree.decisions)
         PROVE  \E c \in ToSet(bundle.candidates \o bundle.omissions) :
                   c.kind = "decision" /\ c.id = d.id
    <3>1. PICK i \in 1..Len(tree.decisions) : d = tree.decisions[i]
      BY <2>1 DEF ToSet
    <3>2. i \in 1..Len(listed)
      <4>1. Len(others) \in Nat /\ Len(tree.decisions) \in Nat
        <5>1. others \in Seq(MemoryRecord)
          BY <2>1, KeptAll
        <5>. HIDE DEF others
        <5>. QED  BY <2>1, <5>1
      <4>. HIDE DEF others
      <4>. QED  BY <2>4, <4>1
    <3>3. listed[i] \in ToSet(bundle.candidates \o bundle.omissions)
      BY <2>3, <2>6, <2>10, <3>2
    <3>4. listed[i].kind = "decision" /\ listed[i].id = d.id
      BY <2>4, <3>1
    <3>. QED  BY <3>3, <3>4
  <2>12. ToSet(bundle.omissions) = Members(chosen.omissions)
    BY <2>3, <2>6, <2>10
  <2>. QED  BY <2>3, <2>6, <2>9, <2>11, <2>12 DEF bundle, limit
<1>. QED  BY <1>1, TypeCorrect, PTL

---------------------------------------------------------------------------
(* Packets.  A packet is determined by the rules that apply, as a set.     *)

Applying(policy, intent) == {r \in ToSet(policy.rules) : Applies(r, intent)}

Requirement(rule) ==
    [kind |-> rule.requirement, subject |-> rule.subject, blocking |-> rule.blocking,
     boundary |-> rule.boundary, status |-> "Pending", evidence |-> {}]

Prepared(t, intent, rule) == Resolved(t, intent, Requirement(rule))

\* What the tree answers a recall with.
Found(t, intent, rule) ==
    IF rule.requirement = "MandatoryRecall" THEN Recalled(t, rule.subject)
    ELSE UNION {find_related_records(t, f) : f \in ToSet(intent.priorFailure)}

MarkedOne(p, subjects) ==
    IF p.subject \in subjects THEN mark_satisfied(p, <<"evidence">>) ELSE p

Requirements(t, policy, intent, subjects) ==
    {MarkedOne(Prepared(t, intent, r), subjects) : r \in Applying(policy, intent)}

LEMMA PreparedFacts ==
    ASSUME NEW t, NEW intent, NEW rule
    PROVE  LET p == Prepared(t, intent, rule)
           IN  /\ p.subject = rule.subject /\ p.blocking = rule.blocking
               /\ p.boundary = rule.boundary
               /\ p.status = IF rule.requirement \notin {"MandatoryRecall", "InspectKnownPit"}
                             THEN "Pending"
                             ELSE IF Found(t, intent, rule) # {} THEN "Satisfied"
                             ELSE IF rule.blocking THEN "Failed" ELSE "Pending"
<1>. DEFINE q == Requirement(rule)
            found == IF q.kind = "MandatoryRecall" THEN Recalled(t, q.subject)
                     ELSE UNION {find_related_records(t, f) : f \in ToSet(intent.priorFailure)}
            status == IF found # {} THEN "Satisfied"
                      ELSE IF q.blocking THEN "Failed" ELSE q.status
            p == Prepared(t, intent, rule)
<1>1. /\ q.kind = rule.requirement /\ q.subject = rule.subject /\ q.blocking = rule.blocking
      /\ q.boundary = rule.boundary /\ q.status = "Pending"
  BY DEF Requirement
<1>2. found = Found(t, intent, rule)
  BY <1>1, Zenon DEF Found
<1>3. p = IF q.kind \notin {"MandatoryRecall", "InspectKnownPit"} THEN q
          ELSE [q EXCEPT !.evidence = found, !.status = status]
  BY Zenon DEF Prepared, Resolved
<1>4. [q EXCEPT !.evidence = found, !.status = status] =
         [kind |-> q.kind, subject |-> q.subject, blocking |-> q.blocking,
          boundary |-> q.boundary, status |-> status, evidence |-> found]
  <2>1. DOMAIN q = {"kind", "subject", "blocking", "boundary", "status", "evidence"}
    BY DEF Requirement
  <2>. HIDE DEF q, found, status
  <2>2. [q EXCEPT !.evidence = found, !.status = status] =
          [x \in DOMAIN q |-> IF x = "status" THEN status
                              ELSE IF x = "evidence" THEN found ELSE q[x]]
    BY <2>1
  <2>. QED  BY <2>1, <2>2
<1>. HIDE DEF q, found, p
<1>. QED  BY <1>1, <1>2, <1>3, <1>4 DEF p

LEMMA MarkedFacts ==
    ASSUME NEW t, NEW intent, NEW rule, NEW subjects
    PROVE  LET p == Prepared(t, intent, rule)
               n == MarkedOne(p, subjects)
           IN  /\ n.blocking = p.blocking /\ n.boundary = p.boundary
               /\ n.status = IF p.subject \in subjects THEN "Satisfied" ELSE p.status
<1>. DEFINE q == Requirement(rule)
            p == Prepared(t, intent, rule)
<1>1. \E kind, subject, blocking, boundary, status, evidence :
         p = [kind |-> kind, subject |-> subject, blocking |-> blocking,
              boundary |-> boundary, status |-> status, evidence |-> evidence]
  <2>1. \E status, evidence : p = q \/ p = [q EXCEPT !.evidence = evidence, !.status = status]
    BY Zenon DEF Prepared, Resolved
  <2>. HIDE DEF p
  <2>. QED  BY <2>1 DEF Requirement
<1>. HIDE DEF p
<1>2. /\ mark_satisfied(p, <<"evidence">>).blocking = p.blocking
      /\ mark_satisfied(p, <<"evidence">>).boundary = p.boundary
      /\ mark_satisfied(p, <<"evidence">>).status = "Satisfied"
  BY <1>1 DEF mark_satisfied
<1>. QED  BY <1>2 DEF MarkedOne, p

LEMMA PacketFacts ==
    ASSUME NEW t, NEW intent, NEW policy, policy.rules \in Seq(InvocationRule), NEW subjects
    PROVE  /\ Marked(Packet(t, policy, intent), subjects).failure = Packet(t, policy, intent).failure
           /\ ~policy.present => Packet(t, policy, intent).failure = "InvocationPolicyMissing"
           /\ policy.present =>
                 (Packet(t, policy, intent).failure = "None" <=>
                    \A r \in Applying(policy, intent) : Prepared(t, intent, r).status # "Failed")
           /\ policy.present =>
                 ToSet(Marked(Packet(t, policy, intent), subjects).requirements)
                   = Requirements(t, policy, intent, subjects)
<1>. DEFINE rules == Kept(policy.rules, {r \in ToSet(policy.rules) : Applies(r, intent)})
            derived == derive_requirements(policy, intent)
            prepared == [i \in DOMAIN derived |-> Resolved(t, intent, derived[i])]
            replaced(q) == [i \in DOMAIN q |-> MarkedOne(q[i], subjects)]
            marks == replaced(prepared)
            all == Applying(policy, intent)
            g == [r \in all |-> Prepared(t, intent, r)]
            m == [r \in all |-> MarkedOne(g[r], subjects)]
            packet == Packet(t, policy, intent)
            marked == Marked(packet, subjects)
<1>1. ToSet(rules) = all
  <2>1. ToSet(rules) = ToSet(policy.rules) \cap {r \in ToSet(policy.rules) : Applies(r, intent)}
    BY KeptAll
  <2>. HIDE DEF rules
  <2>. QED  BY <2>1 DEF Applying
<1>2. derived = [i \in DOMAIN rules |-> Requirement(rules[i])]
  BY Zenon DEF derive_requirements, Requirement
<1>. HIDE DEF rules, derived
<1>3. prepared = [i \in DOMAIN rules |-> g[rules[i]]]
  <2>1. DOMAIN derived = DOMAIN rules /\ \A i \in DOMAIN rules : derived[i] = Requirement(rules[i])
    BY <1>2
  <2>2. \A i \in DOMAIN rules : rules[i] \in all
    BY <1>1 DEF ToSet
  <2>. QED  BY <2>1, <2>2 DEF Prepared
<1>. HIDE DEF g, prepared, all
<1>4. marks = [i \in DOMAIN rules |-> m[rules[i]]]
  <2>1. DOMAIN prepared = DOMAIN rules /\ \A i \in DOMAIN rules : prepared[i] = g[rules[i]]
    BY <1>3
  <2>2. \A i \in DOMAIN rules : rules[i] \in all
    BY <1>1 DEF ToSet
  <2>. QED  BY <2>1, <2>2
<1>5. ToSet(prepared) = {g[r] : r \in all} /\ ToSet(marks) = {m[r] : r \in all}
  <2>1. DOMAIN prepared = DOMAIN rules /\ \A i \in DOMAIN rules : prepared[i] = g[rules[i]]
    BY <1>3
  <2>2. DOMAIN marks = DOMAIN rules /\ \A i \in DOMAIN rules : marks[i] = m[rules[i]]
    <3>. HIDE DEF marks, m
    <3>. QED  BY <1>4
  <2>. HIDE DEF marks, m
  <2>. QED  BY <1>1, <2>1, <2>2 DEF ToSet
<1>6. \A r \in all : /\ g[r] = Prepared(t, intent, r)
                      /\ m[r] = MarkedOne(Prepared(t, intent, r), subjects)
  BY DEF g
<1>. HIDE DEF m, marks
<1>7. packet = IF ~policy.present
               THEN [failure |-> "InvocationPolicyMissing", requirements |-> <<>>]
               ELSE [failure |-> IF \E q \in ToSet(prepared) : q.status = "Failed"
                                 THEN "RequiredRecallMissing" ELSE "None",
                     requirements |-> prepared]
  BY Zenon DEF Packet, build_preparation_packet, prepared, derived
<1>8. \E f, q : packet = [failure |-> f, requirements |-> q]
  BY <1>7, Zenon
<1>9. marked = [packet EXCEPT !.requirements = replaced(packet.requirements)]
  BY Zenon DEF Marked, MarkedOne
<1>. HIDE DEF replaced, packet, marked
<1>10. marked.failure = packet.failure /\ marked.requirements = replaced(packet.requirements)
  BY <1>8, <1>9
<1>11. ASSUME policy.present
       PROVE  /\ packet.failure = IF \E r \in all : g[r].status = "Failed"
                                  THEN "RequiredRecallMissing" ELSE "None"
              /\ ToSet(marked.requirements) = {m[r] : r \in all}
  <2>1. packet = [failure |-> IF \E q \in ToSet(prepared) : q.status = "Failed"
                             THEN "RequiredRecallMissing" ELSE "None",
                  requirements |-> prepared]
    BY <1>7, <1>11, Zenon
  <2>2. packet.requirements = prepared
    BY <2>1
  <2>3. ToSet(marked.requirements) = ToSet(marks)
    BY <1>10, <2>2, Zenon DEF marks
  <2>4. packet.failure = IF \E q \in ToSet(prepared) : q.status = "Failed"
                         THEN "RequiredRecallMissing" ELSE "None"
    BY <2>1
  <2>5. (\E q \in ToSet(prepared) : q.status = "Failed") <=> (\E r \in all : g[r].status = "Failed")
    BY <1>5
  <2>. QED  BY <1>5, <2>3, <2>4, <2>5, Zenon
<1>12. ~policy.present => packet.failure = "InvocationPolicyMissing"
  BY <1>7
<1>13. policy.present =>
         ToSet(marked.requirements) = Requirements(t, policy, intent, subjects)
  <2>1. Requirements(t, policy, intent, subjects) = {m[r] : r \in all}
    BY <1>6 DEF Requirements, all
  <2>. QED  BY <1>11, <2>1, Zenon
<1>14. policy.present =>
         (packet.failure = "None" <=> \A r \in all : Prepared(t, intent, r).status # "Failed")
  BY <1>6, <1>11
<1>. QED  BY <1>10, <1>12, <1>13, <1>14, Zenon DEF all, packet, marked

\* The rule's requirement still gates after some subjects were marked.
StillGates(t, intent, rule, subjects) ==
    rule.blocking /\ MarkedOne(Prepared(t, intent, rule), subjects).status # "Satisfied"

\* When a packet is ready, rule by rule.
LEMMA Ready ==
    ASSUME NEW t, NEW intent, NEW policy, policy.rules \in Seq(InvocationRule), NEW subjects
    PROVE  LET marked == Marked(Packet(t, policy, intent), subjects)
               recalled == \A r \in Applying(policy, intent) :
                              Prepared(t, intent, r).status # "Failed"
           IN  /\ ready_for_judgment(marked) <=>
                     /\ policy.present /\ recalled
                     /\ \A r \in Applying(policy, intent) :
                           StillGates(t, intent, r, subjects) => r.boundary # "BeforeJudgment"
               /\ ready_for_execution(marked) <=>
                     /\ policy.present /\ recalled
                     /\ \A r \in Applying(policy, intent) : ~StillGates(t, intent, r, subjects)
<1>. DEFINE packet == Packet(t, policy, intent)
            marked == Marked(packet, subjects)
            all == Applying(policy, intent)
            one(r) == MarkedOne(Prepared(t, intent, r), subjects)
            recalled == \A r \in all : Prepared(t, intent, r).status # "Failed"
<1>1. /\ marked.failure = packet.failure
      /\ ~policy.present => packet.failure = "InvocationPolicyMissing"
      /\ policy.present => (packet.failure = "None" <=> recalled)
      /\ policy.present => ToSet(marked.requirements) = {one(r) : r \in all}
  <2>1. marked.failure = packet.failure
    BY PacketFacts
  <2>2. ~policy.present => packet.failure = "InvocationPolicyMissing"
    BY PacketFacts
  <2>3. policy.present => (packet.failure = "None" <=> recalled)
    BY PacketFacts
  <2>4. policy.present =>
          ToSet(marked.requirements) = Requirements(t, policy, intent, subjects)
    BY PacketFacts
  <2>5. Requirements(t, policy, intent, subjects) = {one(r) : r \in all}
    BY Zenon DEF Requirements
  <2>. HIDE DEF packet, marked, all, one, recalled
  <2>. QED  BY <2>1, <2>2, <2>3, <2>4, <2>5
<1>2. \A r : one(r).blocking = r.blocking /\ one(r).boundary = r.boundary
  BY PreparedFacts, MarkedFacts
<1>. HIDE DEF packet, marked, all
<1>3. marked.failure = "None" <=> policy.present /\ recalled
  <2>. HIDE DEF recalled
  <2>. QED  BY <1>1
<1>4. ASSUME policy.present
      PROVE  \A p \in ToSet(marked.requirements) : \E r \in all : p = one(r)
  BY <1>1, <1>4
<1>5. ASSUME policy.present, NEW r \in all PROVE one(r) \in ToSet(marked.requirements)
  BY <1>1, <1>5
<1>6. \A r : Gates(one(r)) <=> StillGates(t, intent, r, subjects)
  BY <1>2, Zenon DEF Gates, StillGates
<1>. HIDE DEF one, recalled
<1>7. ready_for_judgment(marked) <=>
         /\ policy.present /\ recalled
         /\ \A r \in all : StillGates(t, intent, r, subjects) => r.boundary # "BeforeJudgment"
  BY <1>2, <1>3, <1>4, <1>5, <1>6, Zenon DEF ready_for_judgment
<1>8. ready_for_execution(marked) <=>
         /\ policy.present /\ recalled
         /\ \A r \in all : ~StillGates(t, intent, r, subjects)
  BY <1>3, <1>4, <1>5, <1>6, Zenon DEF ready_for_execution
<1>. QED  BY <1>7, <1>8, Zenon DEF marked, packet, recalled, all

LEMMA PolicyFacts ==
    ASSUME NEW policy \in Policies
    PROVE  /\ policy.rules \in Seq(InvocationRule) /\ policy.present \in BOOLEAN
           /\ DOMAIN policy.rules = 1..Len(policy.rules)
           /\ ToSet(policy.rules) \subseteq InvocationRule
<1>1. policy.rules \in Seq(InvocationRule) /\ policy.present \in BOOLEAN
  BY PolicyAssumption DEF InvocationPolicy
<1>2. DOMAIN policy.rules = 1..Len(policy.rules)
  BY <1>1
<1>. QED  BY <1>1, <1>2 DEF ToSet

\* ExecutableMeansRecalled: marking satisfies requirements but does not undo the
\* packet's failure, so what is ready for execution has a policy and an answer of
\* the tree to every blocking recall.
THEOREM ExecutableIsRecalled == Spec => []ExecutableMeansRecalled
<1>1. ExecutableMeansRecalled
  <2>. SUFFICES ASSUME NEW policy \in Policies, NEW intent \in Intents,
                       ready_for_execution(Marked(Packet(tree, policy, intent),
                                                  Subjects(policy, intent)))
                PROVE  /\ policy.present
                       /\ \A rule \in {r \in ToSet(policy.rules) : r.blocking /\ Applies(r, intent)} :
                             /\ rule.requirement = "MandatoryRecall" => Recalled(tree, rule.subject) # {}
                             /\ rule.requirement = "InspectKnownPit" =>
                                   \E f \in ToSet(intent.priorFailure) :
                                      find_related_records(tree, f) # {}
    BY Zenon DEF ExecutableMeansRecalled
  <2>1. policy.rules \in Seq(InvocationRule)
    BY PolicyFacts
  <2>2. /\ policy.present
        /\ \A r \in Applying(policy, intent) : Prepared(tree, intent, r).status # "Failed"
    BY <2>1, Ready, Zenon
  <2>3. ASSUME NEW rule \in ToSet(policy.rules), rule.blocking, Applies(rule, intent),
               rule.requirement \in {"MandatoryRecall", "InspectKnownPit"}
        PROVE  Found(tree, intent, rule) # {}
    <3>1. rule \in Applying(policy, intent)
      BY <2>3 DEF Applying
    <3>2. Prepared(tree, intent, rule).status # "Failed"
      BY <2>2, <3>1
    <3>. QED  BY <2>3, <3>2, PreparedFacts
  <2>4. ASSUME NEW rule \in ToSet(policy.rules), rule.blocking, Applies(rule, intent)
        PROVE  /\ rule.requirement = "MandatoryRecall" => Recalled(tree, rule.subject) # {}
               /\ rule.requirement = "InspectKnownPit" =>
                     \E f \in ToSet(intent.priorFailure) : find_related_records(tree, f) # {}
    <3>1. CASE rule.requirement = "MandatoryRecall"
      BY <2>3, <2>4, <3>1 DEF Found
    <3>2. CASE rule.requirement = "InspectKnownPit"
      <4>1. UNION {find_related_records(tree, f) : f \in ToSet(intent.priorFailure)} # {}
        BY <2>3, <2>4, <3>2 DEF Found
      <4>. QED  BY <3>2, <4>1
    <3>. QED  BY <3>1, <3>2
  <2>. QED  BY <2>2, <2>4
<1>. QED  BY <1>1, PTL

---------------------------------------------------------------------------
(* Older formats. *)

Older(rule) == [rule EXCEPT !.claimClass = <<>>, !.boundary = "BeforeJudgment"]

\* A rule read from version 7 demands what it did, of more claims and earlier.
LEMMA OlderRule ==
    ASSUME NEW r \in InvocationRule
    PROVE  /\ Older(r) \in InvocationRule
           /\ Older(r).claimClass = <<>> /\ Older(r).boundary = "BeforeJudgment"
           /\ Older(r).action = r.action /\ Older(r).requirement = r.requirement
           /\ Older(r).subject = r.subject /\ Older(r).blocking = r.blocking
<1>. DEFINE Fields == {"action", "claimClass", "requirement", "boundary", "subject", "blocking"}
            o == [x \in Fields |-> IF x = "boundary" THEN "BeforeJudgment"
                                  ELSE IF x = "claimClass" THEN <<>> ELSE r[x]]
<1>1. DOMAIN r = Fields
  BY DEF InvocationRule
<1>2. Older(r) = o
  BY <1>1 DEF Older
<1>3. o = [action |-> r.action, claimClass |-> <<>>, requirement |-> r.requirement,
           boundary |-> "BeforeJudgment", subject |-> r.subject, blocking |-> r.blocking]
  OBVIOUS
<1>4. "BeforeJudgment" \in ToSet(RequirementBoundary)
  <2>1. RequirementBoundary[1] = "BeforeJudgment" /\ 1 \in DOMAIN RequirementBoundary
    BY DEF RequirementBoundary
  <2>. QED  BY <2>1 DEF ToSet
<1>5. o \in InvocationRule
  BY <1>3, <1>4 DEF InvocationRule
<1>. HIDE DEF o
<1>. QED  BY <1>2, <1>3, <1>5

\* What it demands is met or not as before.
LEMMA OlderGates ==
    ASSUME NEW t, NEW intent, NEW r \in InvocationRule, NEW subjects
    PROVE  /\ Prepared(t, intent, Older(r)).status = Prepared(t, intent, r).status
           /\ StillGates(t, intent, Older(r), subjects) <=> StillGates(t, intent, r, subjects)
<1>1. Found(t, intent, Older(r)) = Found(t, intent, r)
  BY OlderRule DEF Found
<1>. DEFINE p == Prepared(t, intent, r)
            q == Prepared(t, intent, Older(r))
<1>2. p.status = IF r.requirement \notin {"MandatoryRecall", "InspectKnownPit"} THEN "Pending"
                 ELSE IF Found(t, intent, r) # {} THEN "Satisfied"
                 ELSE IF r.blocking THEN "Failed" ELSE "Pending"
  BY PreparedFacts
<1>3. q.status = IF Older(r).requirement \notin {"MandatoryRecall", "InspectKnownPit"} THEN "Pending"
                 ELSE IF Found(t, intent, Older(r)) # {} THEN "Satisfied"
                 ELSE IF Older(r).blocking THEN "Failed" ELSE "Pending"
  BY PreparedFacts
<1>4. p.subject = r.subject /\ q.subject = Older(r).subject
  BY PreparedFacts
<1>. HIDE DEF p, q
<1>5. /\ Older(r).requirement = r.requirement /\ Older(r).blocking = r.blocking
      /\ Older(r).subject = r.subject
  BY OlderRule
<1>6. q.status = p.status
  BY <1>1, <1>2, <1>3, <1>5, Zenon
<1>7. q.subject = p.subject
  BY <1>4, <1>5, Zenon
<1>8. /\ MarkedOne(p, subjects).status = IF p.subject \in subjects THEN "Satisfied" ELSE p.status
      /\ MarkedOne(q, subjects).status = IF q.subject \in subjects THEN "Satisfied" ELSE q.status
  BY MarkedFacts DEF p, q
<1>9. MarkedOne(p, subjects).status = MarkedOne(q, subjects).status
  BY <1>6, <1>7, <1>8
<1>. QED  BY <1>5, <1>6, <1>9, Zenon DEF StillGates, p, q

\* OlderFormatsNeverWeaken: a version 6 policy is missing, and every rule that
\* applies has a version 7 reading that applies too and gates judgment when it gates.
THEOREM OlderNeverWeakens == Spec => []OlderFormatsNeverWeaken
<1>1. OlderFormatsNeverWeaken
  <2>. SUFFICES ASSUME NEW policy \in Policies, policy.present, NEW intent \in Intents,
                       NEW version \in SupportedVersions \ {8}, NEW subjects,
                       NEW older, older = ReadInvocation(version, policy)
                PROVE  /\ ready_for_judgment(Marked(Packet(tree, older, intent), subjects))
                             => ready_for_judgment(Marked(Packet(tree, policy, intent), subjects))
                       /\ ready_for_execution(Marked(Packet(tree, older, intent), subjects))
                             => ready_for_execution(Marked(Packet(tree, policy, intent), subjects))
    BY Zenon DEF OlderFormatsNeverWeaken
  <2>1. policy.rules \in Seq(InvocationRule) /\ DOMAIN policy.rules = 1..Len(policy.rules)
    BY PolicyFacts
  <2>2. version = 6 \/ version = 7
    BY DEF SupportedVersions
  <2>3. CASE version = 6
    <3>1. older = [present |-> FALSE, rules |-> <<>>]
      BY <2>3 DEF ReadInvocation
    <3>2. older.present = FALSE /\ older.rules \in Seq(InvocationRule)
      BY <3>1
    <3>. QED  BY <3>2, Ready, Zenon
  <2>4. CASE version = 7
    <3>. DEFINE rules == [i \in DOMAIN policy.rules |-> Older(policy.rules[i])]
    <3>1. older = [present |-> policy.rules # <<>>, rules |-> rules]
      BY <2>4 DEF ReadInvocation, Older
    <3>2. DOMAIN rules = DOMAIN policy.rules /\ rules = [i \in DOMAIN rules |-> rules[i]]
          /\ \A i \in DOMAIN policy.rules : rules[i] = Older(policy.rules[i])
      OBVIOUS
    <3>3. \A i \in DOMAIN policy.rules : policy.rules[i] \in InvocationRule
      BY <2>1
    <3>4. rules \in Seq(InvocationRule)
      <4>1. \A i \in DOMAIN policy.rules : rules[i] \in InvocationRule
        BY <3>2, <3>3, OlderRule
      <4>. HIDE DEF rules
      <4>. QED  BY <2>1, <3>2, <4>1, Rebuilt
    <3>. HIDE DEF rules
    <3>5. older.rules = rules
      BY <3>1
    <3>6. ASSUME NEW r \in Applying(policy, intent)
          PROVE  /\ r \in InvocationRule /\ Older(r) \in Applying(older, intent)
                 /\ Older(r).boundary = "BeforeJudgment"
      <4>1. PICK i \in DOMAIN policy.rules : r = policy.rules[i]
        BY DEF Applying, ToSet
      <4>2. r \in InvocationRule
        BY <3>3, <4>1
      <4>3. Older(r) \in ToSet(older.rules)
        BY <3>2, <3>5, <4>1 DEF ToSet
      <4>4. Applies(Older(r), intent)
        <5>1. r.action = intent.kind
          BY DEF Applying, Applies
        <5>. QED  BY <4>2, <5>1, OlderRule DEF Applies
      <4>. QED  BY <4>2, <4>3, <4>4, OlderRule DEF Applying
    <3>7. ready_for_judgment(Marked(Packet(tree, older, intent), subjects))
            => /\ \A r \in Applying(policy, intent) : Prepared(tree, intent, r).status # "Failed"
               /\ \A r \in Applying(policy, intent) : ~StillGates(tree, intent, r, subjects)
      <4>. SUFFICES ASSUME ready_for_judgment(Marked(Packet(tree, older, intent), subjects)),
                           NEW r \in Applying(policy, intent)
                    PROVE  /\ Prepared(tree, intent, r).status # "Failed"
                           /\ ~StillGates(tree, intent, r, subjects)
        OBVIOUS
      <4>1. /\ \A o \in Applying(older, intent) : Prepared(tree, intent, o).status # "Failed"
            /\ \A o \in Applying(older, intent) :
                  StillGates(tree, intent, o, subjects) => o.boundary # "BeforeJudgment"
        BY <3>4, <3>5, Ready, Zenon
      <4>2. /\ Prepared(tree, intent, Older(r)).status = Prepared(tree, intent, r).status
            /\ StillGates(tree, intent, Older(r), subjects)
                 <=> StillGates(tree, intent, r, subjects)
        BY <3>6, OlderGates, Zenon
      <4>3. Older(r) \in Applying(older, intent) /\ Older(r).boundary = "BeforeJudgment"
        BY <3>6, Zenon
      <4>. QED  BY <4>1, <4>2, <4>3
    <3>8. ready_for_execution(Marked(Packet(tree, older, intent), subjects))
            => /\ \A r \in Applying(policy, intent) : Prepared(tree, intent, r).status # "Failed"
               /\ \A r \in Applying(policy, intent) : ~StillGates(tree, intent, r, subjects)
      <4>. SUFFICES ASSUME ready_for_execution(Marked(Packet(tree, older, intent), subjects)),
                           NEW r \in Applying(policy, intent)
                    PROVE  /\ Prepared(tree, intent, r).status # "Failed"
                           /\ ~StillGates(tree, intent, r, subjects)
        OBVIOUS
      <4>1. /\ \A o \in Applying(older, intent) : Prepared(tree, intent, o).status # "Failed"
            /\ \A o \in Applying(older, intent) : ~StillGates(tree, intent, o, subjects)
        BY <3>4, <3>5, Ready, Zenon
      <4>2. /\ Prepared(tree, intent, Older(r)).status = Prepared(tree, intent, r).status
            /\ StillGates(tree, intent, Older(r), subjects)
                 <=> StillGates(tree, intent, r, subjects)
        BY <3>6, OlderGates, Zenon
      <4>3. Older(r) \in Applying(older, intent) /\ Older(r).boundary = "BeforeJudgment"
        BY <3>6, Zenon
      <4>. QED  BY <4>1, <4>2, <4>3
    <3>. QED  BY <2>1, <3>7, <3>8, Ready, Zenon
  <2>. QED  BY <2>2, <2>3, <2>4
<1>. QED  BY <1>1, PTL

---------------------------------------------------------------------------
(* Recalls over steps. *)

\* What an older tree finds a newer one finds.
LEMMA FoundGrows ==
    ASSUME NEW s \in Tree, NEW t \in Tree, Gains(s, t), NEW intent, NEW rule,
           Found(s, intent, rule) # {}
    PROVE  Found(t, intent, rule) # {}
<1>1. /\ s.memory \in Seq(MemoryRecord) /\ t.memory \in Seq(MemoryRecord)
      /\ s.profiles \in Seq(ProfileRecord) /\ t.profiles \in Seq(ProfileRecord)
  BY Zenon DEF Tree
<1>2. /\ DOMAIN s.memory = 1..Len(s.memory) /\ DOMAIN t.memory = 1..Len(t.memory)
      /\ DOMAIN s.profiles = 1..Len(s.profiles) /\ DOMAIN t.profiles = 1..Len(t.profiles)
      /\ 1..Len(s.memory) \subseteq 1..Len(t.memory)
      /\ 1..Len(s.profiles) \subseteq 1..Len(t.profiles)
  <2>1. /\ Len(s.memory) \in Nat /\ Len(t.memory) \in Nat
        /\ Len(s.profiles) \in Nat /\ Len(t.profiles) \in Nat
    BY <1>1
  <2>. QED  BY <1>1, <2>1 DEF Gains
<1>3. ASSUME NEW m \in ToSet(s.memory)
      PROVE  \E n \in ToSet(t.memory) :
                n.kind = m.kind /\ n.title = m.title /\ n.statement = m.statement
  <2>1. PICK i \in 1..Len(s.memory) : m = s.memory[i]
    BY <1>2 DEF ToSet
  <2>2. t.memory[i] \in ToSet(t.memory)
    BY <1>2 DEF ToSet
  <2>. QED  BY <2>1, <2>2 DEF Gains
<1>4. ToSet(s.profiles) \subseteq ToSet(t.profiles)
  BY <1>2 DEF ToSet, Gains
<1>5. ASSUME NEW x \in Recalled(s, rule.subject) PROVE Recalled(t, rule.subject) # {}
  <2>1. CASE \E m \in ToSet(s.memory) : m.title = rule.subject
    <3>1. PICK n \in ToSet(t.memory) : n.title = rule.subject
      BY <1>3, <2>1
    <3>2. <<n.title, n.statement>> \in Recalled(t, rule.subject)
      BY <3>1 DEF Recalled
    <3>. QED  BY <3>2
  <2>2. CASE \E r \in ToSet(s.profiles) : r.id = rule.subject
    <3>1. PICK r \in ToSet(t.profiles) : r.id = rule.subject
      BY <1>4, <2>2
    <3>2. <<r.id, r.summary>> \in Recalled(t, rule.subject)
      BY <3>1 DEF Recalled
    <3>. QED  BY <3>2
  <2>. QED  BY <1>5, <2>1, <2>2 DEF Recalled
<1>6. ASSUME NEW f, NEW x \in find_related_records(s, f) PROVE find_related_records(t, f) # {}
  <2>1. PICK m \in ToSet(s.memory) :
             /\ m.kind \in {"Risk", "Lesson"}
             /\ Mentions(m, f.tool) \/ Mentions(m, f.category)
    BY <1>6 DEF find_related_records
  <2>2. PICK n \in ToSet(t.memory) :
             n.kind = m.kind /\ n.title = m.title /\ n.statement = m.statement
    BY <1>3
  <2>3. \A word : Mentions(m, word) => Mentions(n, word)
    BY <2>2, Zenon DEF Mentions
  <2>4. /\ n.kind \in {"Risk", "Lesson"}
        /\ Mentions(n, f.tool) \/ Mentions(n, f.category)
    BY <2>1, <2>2, <2>3, Zenon
  <2>5. <<n.title, n.statement>> \in find_related_records(t, f)
    BY <2>4 DEF find_related_records
  <2>. QED  BY <2>5
<1>7. CASE rule.requirement = "MandatoryRecall"
  BY <1>5, <1>7 DEF Found
<1>8. CASE rule.requirement # "MandatoryRecall"
  <2>1. UNION {find_related_records(s, f) : f \in ToSet(intent.priorFailure)} # {}
    BY <1>8 DEF Found
  <2>2. PICK f \in ToSet(intent.priorFailure) : find_related_records(s, f) # {}
    BY <2>1
  <2>3. find_related_records(t, f) # {}
    BY <1>6, <2>2
  <2>4. UNION {find_related_records(t, h) : h \in ToSet(intent.priorFailure)} # {}
    BY <2>2, <2>3
  <2>. QED  BY <1>8, <2>4 DEF Found
<1>. QED  BY <1>7, <1>8

LEMMA PacketGrows ==
    ASSUME NEW s \in Tree, NEW t \in Tree, Gains(s, t), NEW policy \in Policies, NEW intent,
           Packet(s, policy, intent).failure = "None"
    PROVE  Packet(t, policy, intent).failure = "None"
<1>1. policy.rules \in Seq(InvocationRule)
  BY PolicyFacts
<1>2. policy.present
  <2>1. ~policy.present => Packet(s, policy, intent).failure = "InvocationPolicyMissing"
    BY <1>1, PacketFacts
  <2>. QED  BY <2>1
<1>3. \A r \in Applying(policy, intent) : Prepared(s, intent, r).status # "Failed"
  BY <1>1, <1>2, PacketFacts
<1>4. ASSUME NEW r \in Applying(policy, intent) PROVE Prepared(t, intent, r).status # "Failed"
  <2>1. Prepared(s, intent, r).status # "Failed"
    BY <1>3
  <2>2. Found(s, intent, r) # {} => Found(t, intent, r) # {}
    BY FoundGrows
  <2>. QED  BY <2>1, <2>2, PreparedFacts
<1>. QED  BY <1>1, <1>2, <1>4, PacketFacts

\* RecallOnlyGrows: no transaction or restore takes away what answers a recall, so an
\* action whose recalls were answered is answered ever after.
THEOREM RecallGrows == Spec => RecallOnlyGrows
<1>. DEFINE Grows ==
       \A policy \in Policies, intent \in Intents :
          Packet(tree, policy, intent).failure = "None"
             => Packet(tree', policy, intent).failure = "None"
<1>1. TypeOK /\ [Next]_vars => [Grows]_vars
  <2>. SUFFICES ASSUME TypeOK, [Next]_vars PROVE Grows
    OBVIOUS
  <2>1. tree \in Tree /\ tree' \in Tree /\ Gains(tree, tree')
    BY StepGains, Zenon DEF TypeOK
  <2>. QED  BY <2>1, PacketGrows, Zenon
<1>. QED  BY <1>1, TypeCorrect, PTL DEF Spec, RecallOnlyGrows

---------------------------------------------------------------------------
(* Reading a restored tree. *)

\* Two trees that differ in nothing but the memory fields no reader looks at.
ReadsAlike(s, t) ==
    /\ s.decisions = t.decisions /\ s.obligations = t.obligations
    /\ s.conflicts = t.conflicts /\ s.profiles = t.profiles
    /\ s.nextBoundaryRef = t.nextBoundaryRef
    /\ Len(s.memory) = Len(t.memory)
    /\ \A i \in 1..Len(s.memory) :
          /\ s.memory[i].kind = t.memory[i].kind /\ s.memory[i].title = t.memory[i].title
          /\ s.memory[i].statement = t.memory[i].statement

\* The parts of a bundle, from the lists they are taken from.
ShownBoundary(refs, obligations) ==
    LET boundary == IF refs = <<>> THEN <<>> ELSE findFirst(obligations, refs[1])
    IN  [i \in DOMAIN boundary |-> boundary[i].statement]

ShownConflicts(conflicts) ==
    {[id |-> c.id, description |-> c.description] :
       c \in {k \in ToSet(conflicts) : k.status = "Open"}}

Statements(memory) == [i \in DOMAIN memory |-> memory[i].statement]

ListedDecisions(decisions) ==
    LET decision(d) == [kind |-> "decision", id |-> d.id,
                        summary |-> (IF d.status = "Accepted" THEN "accepted: " ELSE "lifecycle: ")
                                       \o d.title]
    IN  [i \in DOMAIN decisions |-> decision(decisions[i])]

ListedMemory(memory) ==
    [i \in DOMAIN memory |->
       [kind |-> "memory", id |-> memory[i].title, summary |-> memory[i].statement]]

FloorsOf(memory) == Kept(memory, {m \in ToSet(memory) : IsFloor(m)})

OthersOf(memory) == Kept(memory, {m \in ToSet(memory) : ~IsFloor(m)})

LEMMA BundleParts ==
    ASSUME NEW t
    PROVE  /\ MandatoryInputs(t) =
                 [boundary  |-> ShownBoundary(t.nextBoundaryRef, t.obligations),
                  conflicts |-> ShownConflicts(t.conflicts),
                  negative  |-> Statements(FloorsOf(t.memory))]
           /\ Listed(t) = ListedDecisions(t.decisions) \o ListedMemory(OthersOf(t.memory))
<1>1. OpenConflicts(t) = ShownConflicts(t.conflicts)
  BY Zenon DEF OpenConflicts, ShownConflicts
<1>2. MandatoryInputs(t) =
        [boundary  |-> ShownBoundary(t.nextBoundaryRef, t.obligations),
         conflicts |-> OpenConflicts(t),
         negative  |-> Statements(FloorsOf(t.memory))]
  BY Zenon DEF MandatoryInputs, ShownBoundary, Statements, FloorsOf, findObligation
<1>3. Listed(t) = ListedDecisions(t.decisions) \o ListedMemory(OthersOf(t.memory))
  BY Zenon DEF Listed, ListedDecisions, ListedMemory, OthersOf
<1>. QED  BY <1>1, <1>2, <1>3, Zenon

\* Memory that reads alike is kept at the same places and shown the same.
LEMMA MemoryAlike ==
    ASSUME NEW s \in Seq(MemoryRecord), NEW t \in Seq(MemoryRecord), Len(s) = Len(t),
           \A i \in 1..Len(s) : /\ s[i].kind = t[i].kind /\ s[i].title = t[i].title
                                /\ s[i].statement = t[i].statement
    PROVE  /\ Statements(FloorsOf(s)) = Statements(FloorsOf(t))
           /\ ListedMemory(OthersOf(s)) = ListedMemory(OthersOf(t))
<1>. DEFINE Rel == {p \in MemoryRecord \X MemoryRecord :
                      p[1].title = p[2].title /\ p[1].statement = p[2].statement}
<1>1. \A i \in 1..Len(s) : /\ s[i] \in ToSet(s) /\ t[i] \in ToSet(t)
                           /\ IsFloor(s[i]) <=> IsFloor(t[i])
                           /\ <<s[i], t[i]>> \in Rel
  <2>. SUFFICES ASSUME NEW i \in 1..Len(s)
                PROVE  /\ s[i] \in ToSet(s) /\ t[i] \in ToSet(t)
                       /\ IsFloor(s[i]) <=> IsFloor(t[i])
                       /\ <<s[i], t[i]>> \in Rel
    OBVIOUS
  <2>1. DOMAIN s = 1..Len(s) /\ DOMAIN t = 1..Len(s)
    OBVIOUS
  <2>2. s[i] \in ToSet(s) /\ t[i] \in ToSet(t)
    BY <2>1 DEF ToSet
  <2>3. IsFloor(s[i]) <=> IsFloor(t[i])
    BY DEF IsFloor
  <2>4. s[i] \in MemoryRecord /\ t[i] \in MemoryRecord
    BY <2>1
  <2>. QED  BY <2>2, <2>3, <2>4
<1>2. ASSUME NEW a, NEW b, <<a, b>> \in Rel PROVE a.title = b.title /\ a.statement = b.statement
  BY <1>2
<1>. HIDE DEF Rel
<1>3. ASSUME NEW keep, NEW keepT, NEW k, NEW n, k = Kept(s, keep), n = Kept(t, keepT),
             \A i \in 1..Len(s) : s[i] \in keep <=> t[i] \in keepT
      PROVE  /\ DOMAIN k = DOMAIN n
             /\ \A i \in DOMAIN k : k[i].title = n[i].title /\ k[i].statement = n[i].statement
  <2>1. Len(k) = Len(n) /\ \A i \in 1..Len(k) : <<k[i], n[i]>> \in Rel
    <3>1. /\ Len(Kept(s, keep)) = Len(Kept(t, keepT))
          /\ \A i \in 1..Len(Kept(s, keep)) : <<Kept(s, keep)[i], Kept(t, keepT)[i]>> \in Rel
      BY <1>1, <1>3, KeptAlike
    <3>. QED  BY <1>3, <3>1, Zenon
  <2>2. k \in Seq(MemoryRecord) /\ n \in Seq(MemoryRecord)
    BY <1>3, KeptAll
  <2>3. DOMAIN k = 1..Len(k) /\ DOMAIN n = 1..Len(n)
    BY <2>2
  <2>. QED  BY <1>2, <2>1, <2>3
<1>4. Statements(FloorsOf(s)) = Statements(FloorsOf(t))
  <2>. DEFINE k == FloorsOf(s)
              n == FloorsOf(t)
  <2>1. /\ DOMAIN k = DOMAIN n
        /\ \A i \in DOMAIN k : k[i].title = n[i].title /\ k[i].statement = n[i].statement
    <3>. DEFINE keep == {m \in ToSet(s) : IsFloor(m)}
                keepT == {m \in ToSet(t) : IsFloor(m)}
    <3>1. \A i \in 1..Len(s) : s[i] \in keep <=> t[i] \in keepT
      BY <1>1
    <3>2. k = Kept(s, keep) /\ n = Kept(t, keepT)
      BY Zenon DEF FloorsOf
    <3>. HIDE DEF keep, keepT, k, n
    <3>. QED  BY <1>3, <3>1, <3>2
  <2>. HIDE DEF k, n
  <2>2. [i \in DOMAIN k |-> k[i].statement] = [i \in DOMAIN n |-> n[i].statement]
    BY <2>1
  <2>. QED  BY <2>2, Zenon DEF Statements, k, n
<1>5. ListedMemory(OthersOf(s)) = ListedMemory(OthersOf(t))
  <2>. DEFINE k == OthersOf(s)
              n == OthersOf(t)
  <2>1. /\ DOMAIN k = DOMAIN n
        /\ \A i \in DOMAIN k : k[i].title = n[i].title /\ k[i].statement = n[i].statement
    <3>. DEFINE keep == {m \in ToSet(s) : ~IsFloor(m)}
                keepT == {m \in ToSet(t) : ~IsFloor(m)}
    <3>1. \A i \in 1..Len(s) : s[i] \in keep <=> t[i] \in keepT
      BY <1>1
    <3>2. k = Kept(s, keep) /\ n = Kept(t, keepT)
      BY Zenon DEF OthersOf
    <3>. HIDE DEF keep, keepT, k, n
    <3>. QED  BY <1>3, <3>1, <3>2
  <2>. HIDE DEF k, n
  <2>2. [i \in DOMAIN k |-> [kind |-> "memory", id |-> k[i].title, summary |-> k[i].statement]]
          = [i \in DOMAIN n |-> [kind |-> "memory", id |-> n[i].title, summary |-> n[i].statement]]
    BY <2>1
  <2>. QED  BY <2>2, Zenon DEF ListedMemory, k, n
<1>. QED  BY <1>4, <1>5

LEMMA BundlesAlike ==
    ASSUME NEW s \in Tree, NEW t \in Tree, ReadsAlike(s, t), NEW budget
    PROVE  build_bundle(s, budget) = build_bundle(t, budget)
<1>1. s.memory \in Seq(MemoryRecord) /\ t.memory \in Seq(MemoryRecord)
  BY Zenon DEF Tree
<1>2. /\ Statements(FloorsOf(s.memory)) = Statements(FloorsOf(t.memory))
      /\ ListedMemory(OthersOf(s.memory)) = ListedMemory(OthersOf(t.memory))
  BY <1>1, MemoryAlike DEF ReadsAlike
<1>3. MandatoryInputs(s) = MandatoryInputs(t) /\ Listed(s) = Listed(t)
  <2>1. /\ s.nextBoundaryRef = t.nextBoundaryRef /\ s.obligations = t.obligations
        /\ s.conflicts = t.conflicts /\ s.decisions = t.decisions
    BY Zenon DEF ReadsAlike
  <2>2. ShownBoundary(s.nextBoundaryRef, s.obligations)
          = ShownBoundary(t.nextBoundaryRef, t.obligations)
    BY <2>1, Zenon
  <2>3. ShownConflicts(s.conflicts) = ShownConflicts(t.conflicts)
    BY <2>1, Zenon
  <2>4. ListedDecisions(s.decisions) = ListedDecisions(t.decisions)
    BY <2>1, Zenon
  <2>. QED  BY <1>2, <2>2, <2>3, <2>4, BundleParts, Zenon
<1>4. ProtectedConstraints(s) = ProtectedConstraints(t)
  <2>1. s.policy = t.policy
    BY DEF Tree
  <2>2. PolicyTable(s) = PolicyTable(t)
    BY <2>1, Zenon DEF PolicyTable
  <2>. QED  BY <2>2, Zenon DEF ProtectedConstraints
<1>5. s.obligations = t.obligations
  BY Zenon DEF ReadsAlike
<1>. DEFINE Bundle(inputs, constraints, chosen, obligations) ==
              [mandatoryInputs      |-> inputs,
               protectedConstraints |-> constraints,
               candidates           |-> chosen.candidates,
               omissions            |-> chosen.omissions,
               obligations          |-> [i \in DOMAIN obligations |->
                                           [id |-> obligations[i].id,
                                            evaluation |-> Evaluation(obligations[i].status)]]]
<1>6. /\ build_bundle(s, budget)
           = Bundle(MandatoryInputs(s), ProtectedConstraints(s),
                    Chosen(Listed(s), TokenBudget(budget)), s.obligations)
      /\ build_bundle(t, budget)
           = Bundle(MandatoryInputs(t), ProtectedConstraints(t),
                    Chosen(Listed(t), TokenBudget(budget)), t.obligations)
  BY Zenon DEF build_bundle
<1>. HIDE DEF Bundle
<1>. QED  BY <1>3, <1>4, <1>5, <1>6, Zenon

LEMMA PacketsAlike ==
    ASSUME NEW s \in Tree, NEW t \in Tree, ReadsAlike(s, t), NEW policy, NEW intent
    PROVE  Packet(s, policy, intent) = Packet(t, policy, intent)
<1>1. s.memory \in Seq(MemoryRecord) /\ t.memory \in Seq(MemoryRecord) /\ s.profiles = t.profiles
  BY Zenon DEF Tree, ReadsAlike
<1>2. DOMAIN s.memory = 1..Len(s.memory) /\ DOMAIN t.memory = 1..Len(s.memory)
  BY <1>1 DEF ReadsAlike
<1>3. \A i \in DOMAIN s.memory :
         /\ s.memory[i].kind = t.memory[i].kind /\ s.memory[i].title = t.memory[i].title
         /\ s.memory[i].statement = t.memory[i].statement
  BY <1>2 DEF ReadsAlike
<1>4. \A i \in DOMAIN s.memory : \A word :
         Mentions(s.memory[i], word) <=> Mentions(t.memory[i], word)
  BY <1>3, Zenon DEF Mentions
<1>5. ASSUME NEW subject PROVE Recalled(s, subject) = Recalled(t, subject)
  <2>. DEFINE Pairs(memory) ==
         {<<m.title, m.statement>> : m \in {r \in ToSet(memory) : r.title = subject}}
              At(m, x) == m.title = subject /\ x = <<m.title, m.statement>>
  <2>1. \A memory : \A x : x \in Pairs(memory) <=> \E i \in DOMAIN memory : At(memory[i], x)
    BY DEF ToSet
  <2>2. \A i \in DOMAIN s.memory : \A x : At(s.memory[i], x) <=> At(t.memory[i], x)
    BY <1>3
  <2>. HIDE DEF Pairs, At
  <2>3. Pairs(s.memory) \subseteq Pairs(t.memory) /\ Pairs(t.memory) \subseteq Pairs(s.memory)
    BY <1>2, <2>1, <2>2
  <2>4. Pairs(s.memory) = Pairs(t.memory)
    BY <2>3, Zenon
  <2>. QED  BY <1>1, <2>4, Zenon DEF Recalled, Pairs
<1>6. ASSUME NEW f PROVE find_related_records(s, f) = find_related_records(t, f)
  <2>. DEFINE Related(m) == /\ m.kind \in {"Risk", "Lesson"}
                            /\ Mentions(m, f.tool) \/ Mentions(m, f.category)
              Pairs(memory) == {<<m.title, m.statement>> : m \in {r \in ToSet(memory) : Related(r)}}
              At(m, x) == Related(m) /\ x = <<m.title, m.statement>>
  <2>1. \A i \in DOMAIN s.memory : Related(s.memory[i]) <=> Related(t.memory[i])
    BY <1>3, <1>4
  <2>. HIDE DEF Related
  <2>2. \A memory : \A x : x \in Pairs(memory) <=> \E i \in DOMAIN memory : At(memory[i], x)
    BY DEF ToSet
  <2>3. \A i \in DOMAIN s.memory : \A x : At(s.memory[i], x) <=> At(t.memory[i], x)
    BY <1>3, <2>1
  <2>. HIDE DEF Pairs, At
  <2>4. Pairs(s.memory) \subseteq Pairs(t.memory) /\ Pairs(t.memory) \subseteq Pairs(s.memory)
    BY <1>2, <2>2, <2>3
  <2>5. Pairs(s.memory) = Pairs(t.memory)
    BY <2>4, Zenon
  <2>. QED  BY <2>5, Zenon DEF find_related_records, Pairs, Related
<1>7. ASSUME NEW p PROVE Resolved(s, intent, p) = Resolved(t, intent, p)
  <2>. DEFINE related(u) == UNION {find_related_records(u, f) : f \in ToSet(intent.priorFailure)}
  <2>1. {find_related_records(s, f) : f \in ToSet(intent.priorFailure)}
          = {find_related_records(t, f) : f \in ToSet(intent.priorFailure)}
    BY <1>6
  <2>2. related(s) = related(t)
    BY <2>1, Zenon
  <2>3. Recalled(s, p.subject) = Recalled(t, p.subject)
    BY <1>5
  <2>. DEFINE Answered(q, found) ==
         IF q.kind \notin {"MandatoryRecall", "InspectKnownPit"} THEN q
         ELSE [q EXCEPT !.evidence = found,
                        !.status = IF found # {} THEN "Satisfied"
                                   ELSE IF q.blocking THEN "Failed" ELSE @]
              found(u) == IF p.kind = "MandatoryRecall" THEN Recalled(u, p.subject) ELSE related(u)
  <2>4. Resolved(s, intent, p) = Answered(p, found(s)) /\ Resolved(t, intent, p) = Answered(p, found(t))
    BY Zenon DEF Resolved
  <2>5. found(s) = found(t)
    <3>. HIDE DEF related
    <3>. QED  BY <2>2, <2>3, Zenon
  <2>. HIDE DEF Answered, found
  <2>. QED  BY <2>4, <2>5, Zenon
<1>. DEFINE derived == derive_requirements(policy, intent)
            prepared(u) == [i \in DOMAIN derived |-> Resolved(u, intent, derived[i])]
            Built(q) == IF ~policy.present
                        THEN [failure |-> "InvocationPolicyMissing", requirements |-> <<>>]
                        ELSE [failure |-> IF \E p \in ToSet(q) : p.status = "Failed"
                                          THEN "RequiredRecallMissing" ELSE "None",
                              requirements |-> q]
<1>8. prepared(s) = prepared(t)
  <2>. HIDE DEF derived
  <2>. QED  BY <1>7
<1>9. Packet(s, policy, intent) = Built(prepared(s)) /\ Packet(t, policy, intent) = Built(prepared(t))
  BY Zenon DEF Packet, build_preparation_packet
<1>. HIDE DEF prepared, Built
<1>. QED  BY <1>8, <1>9, Zenon

\* RestoreKeepsReading: the epistemic type of memory records is all a restored tree
\* loses, and neither bundles nor packets look at it.
THEOREM RestoreReadsAlike == Spec => []RestoreKeepsReading
<1>1. TypeOK => RestoreKeepsReading
  <2>. SUFFICES ASSUME TypeOK PROVE RestoreKeepsReading
    OBVIOUS
  <2>1. tree \in Tree
    BY Zenon DEF TypeOK
  <2>2. Restored(tree) \in Tree /\ ReadsAlike(Restored(tree), tree)
    <3>. DEFINE r == deserializeImpl(serializeImpl(tree))
    <3>1. /\ r \in Tree
          /\ r.decisions = tree.decisions /\ r.obligations = tree.obligations
          /\ r.conflicts = tree.conflicts /\ r.profiles = tree.profiles
          /\ r.nextBoundaryRef = tree.nextBoundaryRef
          /\ Len(r.memory) = Len(tree.memory)
          /\ \A i \in 1..Len(tree.memory) :
                /\ r.memory[i].kind = tree.memory[i].kind
                /\ r.memory[i].title = tree.memory[i].title
                /\ r.memory[i].statement = tree.memory[i].statement
      BY <2>1, ReloadFacts, Zenon
    <3>2. Restored(tree) = r
      BY Zenon DEF Restored
    <3>. HIDE DEF r
    <3>. QED  BY <3>1, <3>2 DEF ReadsAlike
  <2>3. \A budget \in Budgets : build_bundle(Restored(tree), budget) = build_bundle(tree, budget)
    BY <2>1, <2>2, BundlesAlike
  <2>4. \A policy \in Policies, intent \in Intents :
           Packet(Restored(tree), policy, intent) = Packet(tree, policy, intent)
    BY <2>1, <2>2, PacketsAlike
  <2>. QED  BY <2>3, <2>4, Zenon DEF RestoreKeepsReading
<1>. QED  BY <1>1, TypeCorrect, PTL

---------------------------------------------------------------------------
(* Retries. *)

\* What is kept of a message.
Stable(a) == Kept(a, {word \in ToSet(a) : word.digits < 4 /\ ~word.temporary})

\* g drops the noise of the first len words of a.
Drops(g, W, a, len) ==
    /\ g[0] = <<>> /\ \A n \in 0..len : g[n] \in Seq(W)
    /\ \A n \in 1..len : g[n] = IF Noise(a[n]) THEN g[n - 1] ELSE Append(g[n - 1], a[n])

LEMMA StableSteps ==
    ASSUME NEW W, W \subseteq Word, NEW a \in Seq(W)
    PROVE  \E g : Drops(g, W, a, Len(a)) /\ g[Len(a)] = Stable(a)
<1>. DEFINE len == Len(a)
            keep == {word \in ToSet(a) : word.digits < 4 /\ ~word.temporary}
<1>1. len \in Nat
  OBVIOUS
<1>2. PICK f :
         /\ f[0] = <<>>
         /\ \A n \in 1..len : f[n] = IF a[n] \in keep THEN Append(f[n - 1], a[n]) ELSE f[n - 1]
         /\ f[len] = Kept(a, keep)
  <2>. HIDE DEF keep
  <2>. QED  BY <1>1, KeptSteps
<1>3. ASSUME NEW n \in 1..len PROVE a[n] \in W /\ (a[n] \in keep <=> ~Noise(a[n]))
  <2>1. a[n] \in W /\ a[n] \in ToSet(a)
    BY DEF ToSet
  <2>2. a[n].digits \in Nat
    BY <2>1 DEF Word
  <2>3. a[n].digits < 4 <=> ~(a[n].digits >= 4)
    BY <2>2
  <2>. QED  BY <2>1, <2>3, Zenon DEF Noise
<1>. HIDE DEF keep
<1>. DEFINE Good == {n \in Nat : n \in 0..len => f[n] \in Seq(W)}
<1>4. \A n \in 0..len : f[n] \in Seq(W)
  <2>1. 0 \in Good
    <3>1. <<>> \in Seq(W)
      OBVIOUS
    <3>. QED  BY <1>2, <3>1
  <2>2. ASSUME NEW n \in Nat, n \in Good PROVE n + 1 \in Good
    <3>. SUFFICES ASSUME n + 1 \in 0..len PROVE f[n + 1] \in Seq(W)
      OBVIOUS
    <3>1. f[n] \in Seq(W) /\ n + 1 \in 1..len /\ (n + 1) - 1 = n
      BY <2>2
    <3>2. f[n + 1] = Append(f[n], a[n + 1]) \/ f[n + 1] = f[n]
      BY <1>2, <3>1
    <3>3. Append(f[n], a[n + 1]) \in Seq(W)
      BY <1>3, <3>1, AppendProperties
    <3>. QED  BY <3>1, <3>2, <3>3
  <2>3. Nat \subseteq Good
    <3>. HIDE DEF Good
    <3>. QED  BY <2>1, <2>2, SetInduction
  <2>. QED  BY <2>3
<1>5. \A n \in 1..len : f[n] = IF Noise(a[n]) THEN f[n - 1] ELSE Append(f[n - 1], a[n])
  BY <1>2, <1>3
<1>. QED  BY <1>2, <1>4, <1>5 DEF Drops, Stable, keep

\* Noise at the end is dropped.
LEMMA DropsNoise ==
    ASSUME NEW W, NEW b \in Seq(W), NEW g, Drops(g, W, b, Len(b)),
           NEW j \in 0..Len(b), NEW k \in 0..Len(b), j <= k,
           \A n \in j + 1..k : Noise(b[n])
    PROVE  g[j] = g[k]
<1>. DEFINE Good == {n \in Nat : n <= k - j => g[j] = g[j + n]}
<1>1. Len(b) \in Nat
  OBVIOUS
<1>2. 0 \in Good
  OBVIOUS
<1>3. ASSUME NEW n \in Nat, n \in Good PROVE n + 1 \in Good
  <2>. SUFFICES ASSUME n + 1 <= k - j PROVE g[j] = g[j + (n + 1)]
    OBVIOUS
  <2>1. g[j] = g[j + n]
    BY <1>3
  <2>. DEFINE m == j + (n + 1)
  <2>2. m \in 1..Len(b) /\ m \in j + 1..k /\ m - 1 = j + n
    BY <1>1
  <2>. HIDE DEF m
  <2>3. g[m] = g[m - 1]
    BY <2>2 DEF Drops
  <2>. QED  BY <2>1, <2>2, <2>3 DEF m
<1>4. k - j \in Good /\ j + (k - j) = k
  <2>1. k - j \in Nat /\ j + (k - j) = k
    BY <1>1
  <2>. HIDE DEF Good
  <2>. QED  BY <1>2, <1>3, <2>1, SetInduction
<1>. QED  BY <1>4

\* What is left of a prefix ends in its last word that is not noise.
LEMMA LastStable ==
    ASSUME NEW W, NEW b \in Seq(W), NEW g, Drops(g, W, b, Len(b)),
           NEW k \in 0..Len(b), g[k] # <<>>
    PROVE  \E j \in 1..k : ~Noise(b[j]) /\ \A n \in j + 1..k : Noise(b[n])
<1>. DEFINE Ends(m) == \E j \in 1..m : ~Noise(b[j]) /\ \A n \in j + 1..m : Noise(b[n])
            Good == {m \in Nat : m <= k /\ g[m] # <<>> => Ends(m)}
<1>1. Len(b) \in Nat
  OBVIOUS
<1>2. 0 \in Good
  BY DEF Drops
<1>3. ASSUME NEW m \in Nat, m \in Good PROVE m + 1 \in Good
  <2>. SUFFICES ASSUME m + 1 <= k, g[m + 1] # <<>> PROVE Ends(m + 1)
    OBVIOUS
  <2>1. m + 1 \in 1..Len(b) /\ (m + 1) - 1 = m
    BY <1>1
  <2>2. CASE ~Noise(b[m + 1])
    <3>1. m + 1 \in 1..m + 1 /\ \A n \in (m + 1) + 1..m + 1 : Noise(b[n])
      OBVIOUS
    <3>. QED  BY <2>2, <3>1
  <2>3. CASE Noise(b[m + 1])
    <3>1. g[m] # <<>>
      BY <2>1, <2>3 DEF Drops
    <3>2. Ends(m)
      <4>. HIDE DEF Ends
      <4>. QED  BY <1>1, <1>3, <3>1
    <3>3. PICK j \in 1..m : ~Noise(b[j]) /\ \A n \in j + 1..m : Noise(b[n])
      BY <3>2
    <3>4. j \in 1..m + 1 /\ \A n \in j + 1..m + 1 : n \in j + 1..m \/ n = m + 1
      OBVIOUS
    <3>. QED  BY <2>3, <3>3, <3>4
  <2>. QED  BY <2>2, <2>3
<1>4. k \in Good
  <2>. HIDE DEF Good
  <2>. QED  BY <1>1, <1>2, <1>3, SetInduction
<1>. QED  BY <1>4

\* The prefixes of b of which the same is left as of i words of a.
Row(f, g, b, i) == {k \in 0..Len(b) : f[i] = g[k]}

\* They are the ones that align with i words.
LEMMA AlignedRow ==
    ASSUME NEW W, NEW a \in Seq(W), NEW b \in Seq(W), NEW f, Drops(f, W, a, Len(a)),
           NEW g, Drops(g, W, b, Len(b)), NEW i \in 1..Len(a)
    PROVE  WithNoise(b, WithWord(b, a[i], Row(f, g, b, i - 1))) = Row(f, g, b, i)
<1>. DEFINE before == Row(f, g, b, i - 1)
            with == WithWord(b, a[i], before)
<1>1. Len(a) \in Nat /\ Len(b) \in Nat /\ i - 1 \in 0..Len(a)
  OBVIOUS
<1>2. /\ a[i] \in W /\ f[i - 1] \in Seq(W)
      /\ f[i] = IF Noise(a[i]) THEN f[i - 1] ELSE Append(f[i - 1], a[i])
  <2>1. a[i] \in W
    OBVIOUS
  <2>. QED  BY <1>1, <2>1 DEF Drops
<1>3. ASSUME NEW j \in 1..Len(b)
      PROVE  /\ b[j] \in W /\ j - 1 \in 0..Len(b) /\ g[j - 1] \in Seq(W)
             /\ g[j] = IF Noise(b[j]) THEN g[j - 1] ELSE Append(g[j - 1], b[j])
  <2>1. j - 1 \in 0..Len(b)
    BY <1>1
  <2>. QED  BY <2>1 DEF Drops
<1>4. ASSUME NEW j \in with PROVE j \in 0..Len(b) /\ f[i] = g[j]
  <2>1. CASE Noise(a[i]) /\ j \in before
    BY <1>2, <2>1 DEF Row
  <2>2. CASE j \in 1..Len(b) /\ b[j] = a[i] /\ j - 1 \in before
    <3>1. f[i - 1] = g[j - 1]
      BY <2>2 DEF Row
    <3>2. g[j] = IF Noise(b[j]) THEN g[j - 1] ELSE Append(g[j - 1], b[j])
      BY <1>3, <2>2
    <3>3. j \in 0..Len(b)
      BY <1>1, <2>2
    <3>. QED  BY <1>2, <2>2, <3>1, <3>2, <3>3
  <2>. QED  BY <2>1, <2>2 DEF WithWord
<1>5. ASSUME NEW k \in WithNoise(b, with) PROVE k \in 0..Len(b) /\ f[i] = g[k]
  <2>1. PICK j \in with : j <= k /\ \A n \in j + 1..k : Noise(b[n])
    BY DEF WithNoise
  <2>2. k \in 0..Len(b)
    BY DEF WithNoise
  <2>3. j \in 0..Len(b) /\ f[i] = g[j]
    <3>. HIDE DEF with
    <3>. QED  BY <1>4
  <2>4. g[j] = g[k]
    BY <2>1, <2>2, <2>3, DropsNoise
  <2>. QED  BY <2>2, <2>3, <2>4
<1>6. ASSUME NEW k \in 0..Len(b), f[i] = g[k] PROVE k \in WithNoise(b, with)
  <2>1. ASSUME NEW j \in with, j \in 0..k, \A n \in j + 1..k : Noise(b[n])
        PROVE  k \in WithNoise(b, with)
    <3>. HIDE DEF with
    <3>. QED  BY <2>1 DEF WithNoise
  <2>2. CASE Noise(a[i])
    <3>1. k \in before
      BY <1>2, <1>6, <2>2 DEF Row
    <3>2. k \in with
      BY <2>2, <3>1 DEF WithWord
    <3>3. k \in 0..k /\ \A n \in k + 1..k : Noise(b[n])
      BY <1>1
    <3>. HIDE DEF with
    <3>. QED  BY <2>1, <3>2, <3>3
  <2>3. CASE ~Noise(a[i])
    <3>1. f[i] = Append(f[i - 1], a[i])
      BY <1>2, <2>3
    <3>2. g[k] # <<>>
      BY <1>2, <1>6, <3>1, AppendProperties
    <3>3. PICK j \in 1..k : ~Noise(b[j]) /\ \A n \in j + 1..k : Noise(b[n])
      BY <3>2, LastStable
    <3>4. j \in 1..Len(b) /\ j \in 0..k /\ j \in 0..Len(b) /\ j <= k
      BY <1>1
    <3>5. g[j] = g[k]
      BY <3>3, <3>4, DropsNoise
    <3>6. g[j] = Append(g[j - 1], b[j]) /\ g[j - 1] \in Seq(W) /\ b[j] \in W
      BY <1>3, <3>3, <3>4
    <3>7. Append(f[i - 1], a[i]) = Append(g[j - 1], b[j])
      BY <1>6, <3>1, <3>5, <3>6
    <3>8. f[i - 1] = g[j - 1] /\ a[i] = b[j]
      <4>. DEFINE s == f[i - 1]  t == g[j - 1]  x == a[i]  y == b[j]
      <4>1. /\ s \in Seq(W) /\ t \in Seq(W) /\ x \in W /\ y \in W
            /\ Append(s, x) = Append(t, y)
        BY <1>2, <3>6, <3>7
      <4>. HIDE DEF s, t, x, y
      <4>2. s = t /\ x = y
        BY <4>1, AppendInjective
      <4>. QED  BY <4>2 DEF s, t, x, y
    <3>9. j - 1 \in before
      BY <1>3, <3>4, <3>8 DEF Row
    <3>10. j \in with
      BY <3>4, <3>8, <3>9 DEF WithWord
    <3>. HIDE DEF with
    <3>. QED  BY <2>1, <3>3, <3>4, <3>10
  <2>. QED  BY <2>2, <2>3
<1>7. WithNoise(b, with) \subseteq 0..Len(b)
  BY DEF WithNoise
<1>. HIDE DEF with
<1>8. WithNoise(b, with) = {k \in 0..Len(b) : f[i] = g[k]}
  BY <1>5, <1>6, <1>7
<1>. QED  BY <1>8 DEF with, Row

\* Two messages align up to noise exactly when the same is left of both.
LEMMA AlignedIsStable ==
    ASSUME NEW W, W \subseteq Word, NEW a \in Seq(W), NEW b \in Seq(W)
    PROVE  SameUpToNoise(a, b) <=> Stable(a) = Stable(b)
<1>. DEFINE len == Len(a)
            Aligns(h) == h = [i \in 0..len |->
                                WithNoise(b, IF i = 0 THEN {0} ELSE WithWord(b, a[i], h[i - 1]))]
            aligned == CHOOSE h : Aligns(h)
<1>1. len \in Nat /\ Len(b) \in Nat
  OBVIOUS
<1>2. PICK f : Drops(f, W, a, len) /\ f[len] = Stable(a)
  BY StableSteps
<1>3. PICK g : Drops(g, W, b, Len(b)) /\ g[Len(b)] = Stable(b)
  BY StableSteps
<1>. DEFINE row == [i \in 0..len |-> Row(f, g, b, i)]
<1>4. WithNoise(b, {0}) = Row(f, g, b, 0)
  <2>1. f[0] = <<>> /\ g[0] = <<>>
    BY <1>2, <1>3 DEF Drops
  <2>2. ASSUME NEW k \in WithNoise(b, {0}) PROVE k \in 0..Len(b) /\ g[k] = <<>>
    <3>1. k \in 0..Len(b) /\ \A n \in 0 + 1..k : Noise(b[n])
      BY <2>2 DEF WithNoise
    <3>2. g[0] = g[k]
      BY <1>1, <1>3, <3>1, DropsNoise
    <3>. QED  BY <2>1, <3>1, <3>2
  <2>3. ASSUME NEW k \in 0..Len(b), g[k] = <<>> PROVE k \in WithNoise(b, {0})
    <3>1. ASSUME NEW n \in 1..k PROVE Noise(b[n])
      <4>. SUFFICES ASSUME ~Noise(b[n]) PROVE FALSE
        OBVIOUS
      <4>. DEFINE Good == {m \in Nat : m <= k - n => g[n + m] # <<>>}
      <4>1. 0 \in Good
        <5>1. g[n] = Append(g[n - 1], b[n])
          <6>1. n \in 1..Len(b)
            BY <1>1
          <6>. QED  BY <1>3, <6>1 DEF Drops
        <5>2. n - 1 \in 0..Len(b) /\ b[n] \in W
          BY <1>1
        <5>3. g[n - 1] \in Seq(W)
          BY <1>3, <5>2 DEF Drops
        <5>. QED  BY <5>1, <5>2, <5>3, AppendProperties
      <4>2. ASSUME NEW m \in Nat, m \in Good PROVE m + 1 \in Good
        <5>. SUFFICES ASSUME m + 1 <= k - n PROVE g[n + (m + 1)] # <<>>
          OBVIOUS
        <5>. DEFINE p == n + (m + 1)
        <5>1. p \in 1..Len(b) /\ p - 1 = n + m /\ p - 1 \in 0..Len(b)
          BY <1>1
        <5>2. g[p - 1] # <<>>
          BY <4>2, <5>1
        <5>. HIDE DEF p
        <5>3. /\ g[p] = IF Noise(b[p]) THEN g[p - 1] ELSE Append(g[p - 1], b[p])
              /\ g[p - 1] \in Seq(W) /\ b[p] \in W
          BY <1>3, <5>1 DEF Drops
        <5>4. Append(g[p - 1], b[p]) # <<>>
          BY <5>3, AppendProperties, SMTT(30)
        <5>5. g[p] # <<>>
          BY <5>2, <5>3, <5>4
        <5>. QED  BY <5>5 DEF p
      <4>3. k - n \in Good /\ n + (k - n) = k
        <5>1. k - n \in Nat /\ n + (k - n) = k
          BY <1>1
        <5>. HIDE DEF Good
        <5>. QED  BY <4>1, <4>2, <5>1, SetInduction
      <4>. QED  BY <2>3, <4>3
    <3>. QED  BY <1>1, <3>1 DEF WithNoise
  <2>4. WithNoise(b, {0}) \subseteq 0..Len(b)
    BY DEF WithNoise
  <2>. QED  BY <2>1, <2>2, <2>3, <2>4 DEF Row
<1>5. ASSUME NEW i \in 1..len
      PROVE  WithNoise(b, WithWord(b, a[i], Row(f, g, b, i - 1))) = Row(f, g, b, i)
  BY <1>2, <1>3, AlignedRow
<1>6. Aligns(row)
  <2>1. \A i \in 0..len : row[i] = WithNoise(b, IF i = 0 THEN {0} ELSE WithWord(b, a[i], row[i - 1]))
    <3>. SUFFICES ASSUME NEW i \in 0..len
                  PROVE  row[i] = WithNoise(b, IF i = 0 THEN {0}
                                               ELSE WithWord(b, a[i], row[i - 1]))
      OBVIOUS
    <3>1. CASE i = 0
      BY <1>4, <3>1
    <3>2. CASE i # 0
      <4>1. i \in 1..len /\ i - 1 \in 0..len
        BY <1>1, <3>2
      <4>2. row[i - 1] = Row(f, g, b, i - 1)
        BY <4>1
      <4>. QED  BY <1>5, <3>2, <4>1, <4>2
    <3>. QED  BY <3>1, <3>2
  <2>. HIDE DEF row
  <2>2. row = [i \in 0..len |-> row[i]]
    BY DEF row
  <2>. QED  BY <2>1, <2>2
<1>7. Aligns(aligned)
  <2>. HIDE DEF Aligns
  <2>. QED  BY <1>6
<1>8. SameUpToNoise(a, b) <=> Len(b) \in aligned[len]
  BY DEF SameUpToNoise
<1>. HIDE DEF aligned
<1>9. \A i \in 0..len : aligned[i] = WithNoise(b, IF i = 0 THEN {0}
                                                  ELSE WithWord(b, a[i], aligned[i - 1]))
  BY <1>7
<1>. DEFINE Good == {i \in Nat : i \in 0..len => aligned[i] = Row(f, g, b, i)}
<1>10. 0 \in Good
  BY <1>1, <1>4, <1>9
<1>11. ASSUME NEW i \in Nat, i \in Good PROVE i + 1 \in Good
  <2>. SUFFICES ASSUME i + 1 \in 0..len
                PROVE  aligned[i + 1] = Row(f, g, b, i + 1)
    OBVIOUS
  <2>1. i \in 0..len /\ i + 1 \in 1..len /\ i + 1 # 0 /\ (i + 1) - 1 = i
    OBVIOUS
  <2>2. aligned[i] = Row(f, g, b, i)
    BY <1>11, <2>1
  <2>3. aligned[i + 1] = WithNoise(b, WithWord(b, a[i + 1], aligned[i]))
    BY <1>9, <2>1
  <2>. QED  BY <1>5, <2>1, <2>2, <2>3
<1>12. aligned[len] = Row(f, g, b, len)
  <2>1. len \in Good
    <3>. HIDE DEF Good
    <3>. QED  BY <1>1, <1>10, <1>11, SetInduction
  <2>. QED  BY <1>1, <2>1
<1>. QED  BY <1>1, <1>2, <1>3, <1>8, <1>12 DEF Row

\* Signatures compare what is left of two messages, as long as texts tell words apart.
LEMMA SignaturesCompare ==
    ASSUME NEW W, \A v, w \in W : v.text = w.text => v = w,
           NEW a \in Seq(W), NEW b \in Seq(W)
    PROVE  normalize_failure_text(a) = normalize_failure_text(b) <=> Stable(a) = Stable(b)
<1>. DEFINE s == Stable(a)
            t == Stable(b)
            texts(q) == [i \in DOMAIN q |-> q[i].text]
<1>1. normalize_failure_text(a) = texts(s) /\ normalize_failure_text(b) = texts(t)
  BY Zenon DEF normalize_failure_text, Stable
<1>2. s \in Seq(W) /\ t \in Seq(W)
  BY KeptAll DEF Stable
<1>. HIDE DEF s, t
<1>3. ASSUME texts(s) = texts(t) PROVE s = t
  <2>1. DOMAIN texts(s) = DOMAIN s /\ DOMAIN texts(t) = DOMAIN t
    OBVIOUS
  <2>2. DOMAIN s = DOMAIN t
    BY <1>3, <2>1, Zenon
  <2>3. DOMAIN s = 1..Len(s) /\ DOMAIN t = 1..Len(t) /\ Len(s) \in Nat /\ Len(t) \in Nat
    BY <1>2
  <2>4. Len(s) = Len(t)
    <3>. DEFINE n == Len(s)  m == Len(t)
    <3>1. n \in Nat /\ m \in Nat /\ 1..n = 1..m
      BY <2>2, <2>3
    <3>. HIDE DEF n, m
    <3>2. (n = 0 \/ n \in 1..m) /\ (m = 0 \/ m \in 1..n)
      BY <3>1
    <3>3. n = m
      BY <3>1, <3>2
    <3>. QED  BY <3>3 DEF n, m
  <2>5. ASSUME NEW i \in 1..Len(s) PROVE s[i] = t[i]
    <3>1. s[i] \in W /\ t[i] \in W
      BY <1>2, <2>4
    <3>2. texts(s)[i] = s[i].text /\ texts(t)[i] = t[i].text
      BY <2>2, <2>3
    <3>. QED  BY <1>3, <3>1, <3>2, Zenon
  <2>. QED  BY <1>2, <2>4, <2>5
<1>. QED  BY <1>1, <1>3, Zenon DEF s, t

\* The words of a message are words of the failures.
LEMMA MessagesOfWords ==
    ASSUME NEW f \in Failures
    PROVE  f.stableMessage \in Seq(Words) /\ Words \subseteq Word
<1>1. \A g \in Failures : g.stableMessage \in Seq(Word)
  <2>. SUFFICES ASSUME NEW g \in Failures PROVE g.stableMessage \in Seq(Word)
    OBVIOUS
  <2>1. PICK intent \in Intents : g \in ToSet(intent.priorFailure)
    BY Zenon DEF Failures
  <2>2. intent.priorFailure \in Seq(FailureFingerprint)
    BY <2>1, FailureAssumption, Zenon
  <2>3. g \in FailureFingerprint
    BY <2>1, <2>2 DEF ToSet
  <2>. QED  BY <2>3, Zenon DEF FailureFingerprint
<1>2. ToSet(f.stableMessage) \subseteq Words
  BY Zenon DEF Words
<1>3. f.stableMessage \in Seq(Words)
  <2>. DEFINE m == f.stableMessage
  <2>1. m \in Seq(Word)
    BY <1>1
  <2>2. ToSet(m) \subseteq Words
    BY <1>2
  <2>. HIDE DEF m
  <2>. QED  BY <2>1, <2>2 DEF ToSet, m
<1>4. Words \subseteq Word
  <2>. SUFFICES ASSUME NEW w \in Words PROVE w \in Word
    OBVIOUS
  <2>1. PICK g \in Failures : w \in ToSet(g.stableMessage)
    BY Zenon DEF Words
  <2>. DEFINE m == g.stableMessage
  <2>2. m \in Seq(Word) /\ w \in ToSet(m)
    BY <1>1, <2>1
  <2>. HIDE DEF m
  <2>. QED  BY <2>2 DEF ToSet
<1>. QED  BY <1>3, <1>4

\* BlindRetryIsRefused: without new evidence retry_permitted answers exactly whether
\* the tool, the operation or the failure differs, where two failures are the same
\* if their messages align up to noise (V4-R3).
THEOREM BlindRetriesRefused == Spec => []BlindRetryIsRefused
<1>. DEFINE failures(candidate, prior) ==
              IF candidate.priorFailure = <<>> THEN {prior} ELSE ToSet(candidate.priorFailure)
            same(candidate, prior) ==
              /\ candidate.tool = prior.tool /\ candidate.operation = prior.operation
              /\ \A f \in failures(candidate, prior) :
                    SameUpToNoise(f.stableMessage, prior.stableMessage)
<1>1. ASSUME NEW candidate \in Intents, NEW prior \in Failures
      PROVE  retry_permitted(prior, candidate, FALSE) <=> ~same(candidate, prior)
  <2>. DEFINE failure == IF candidate.priorFailure = <<>> THEN prior
                         ELSE candidate.priorFailure[1]
  <2>1. failure \in Failures /\ failures(candidate, prior) = {failure}
    <3>1. CASE candidate.priorFailure = <<>>
      BY <3>1, Zenon
    <3>2. CASE candidate.priorFailure # <<>>
      <4>. DEFINE q == candidate.priorFailure
      <4>1. q \in Seq(FailureFingerprint) /\ Len(q) <= 1
        BY FailureAssumption, Zenon
      <4>2. ToSet(q) = {q[1]}
        <5>. HIDE DEF q
        <5>. QED  BY <3>2, <4>1 DEF ToSet, q
      <4>3. q[1] \in Failures
        BY <4>2, Zenon DEF Failures
      <4>. QED  BY <3>2, <4>2, <4>3, Zenon
    <3>. QED  BY <3>1, <3>2, Zenon
  <2>2. /\ failure.stableMessage \in Seq(Words) /\ prior.stableMessage \in Seq(Words)
        /\ Words \subseteq Word
    <3>. HIDE DEF failure
    <3>. QED  BY <2>1, MessagesOfWords
  <2>3. SameUpToNoise(failure.stableMessage, prior.stableMessage)
          <=> normalize_failure_text(failure.stableMessage)
                = normalize_failure_text(prior.stableMessage)
    <3>. DEFINE a == failure.stableMessage  b == prior.stableMessage
    <3>1. a \in Seq(Words) /\ b \in Seq(Words) /\ Words \subseteq Word
      BY <2>2, Zenon
    <3>2. \A v, w \in Words : v.text = w.text => v = w
      BY FailureAssumption, Zenon
    <3>. HIDE DEF a, b
    <3>3. SameUpToNoise(a, b) <=> Stable(a) = Stable(b)
      BY <3>1, AlignedIsStable
    <3>4. normalize_failure_text(a) = normalize_failure_text(b) <=> Stable(a) = Stable(b)
      BY <3>1, <3>2, SignaturesCompare
    <3>. QED  BY <3>3, <3>4, Zenon DEF a, b
  <2>4. same(candidate, prior) <=>
          /\ candidate.tool = prior.tool /\ candidate.operation = prior.operation
          /\ SameUpToNoise(failure.stableMessage, prior.stableMessage)
    <3>. HIDE DEF failure
    <3>. QED  BY <2>1, Zenon
  <2>5. retry_permitted(prior, candidate, FALSE) <=>
          \/ <<candidate.tool, candidate.operation>> # <<prior.tool, prior.operation>>
          \/ normalize_failure_text(failure.stableMessage)
               # normalize_failure_text(prior.stableMessage)
    BY Zenon DEF retry_permitted
  <2>6. <<candidate.tool, candidate.operation>> = <<prior.tool, prior.operation>>
          <=> candidate.tool = prior.tool /\ candidate.operation = prior.operation
    OBVIOUS
  <2>. HIDE DEF failure, same
  <2>. QED  BY <2>3, <2>4, <2>5, <2>6, Zenon
<1>2. BlindRetryIsRefused
  BY <1>1, Zenon DEF BlindRetryIsRefused
<1>. QED  BY <1>2, PTL

---------------------------------------------------------------------------
(* Declared invocations. *)

\* ConstructedIsAccepted: for every declared contract and every intent, what
\* construct_invocation builds passes validate_invocation of the same contract
\* unless a subject is asked for and not named, and of no other contract of fixed
\* words.
THEOREM ConstructedAccepted == ConstructedIsAccepted
<1>. SUFFICES ASSUME NEW contract \in Contracts, NEW intent \in Intents
              PROVE  LET argv == construct_invocation(contract, intent)
                     IN  /\ validate_invocation(contract, argv)
                              <=> (Contains(contract.argvTemplate, "{subject}")
                                     => intent.concepts # <<>> /\ Head(intent.concepts) # "")
                         /\ \A other \in Contracts :
                               /\ validate_invocation(other, argv)
                               /\ \A i \in DOMAIN argv : ~is_placeholder(contract.argvTemplate[i])
                                                           /\ ~is_placeholder(other.argvTemplate[i])
                               => other.argvTemplate = contract.argvTemplate
  BY Zenon DEF ConstructedIsAccepted
<1>. DEFINE template == contract.argvTemplate
            argv == construct_invocation(contract, intent)
            Filled(word) == Substituted(contract, intent, word)
            named == intent.concepts # <<>> /\ Head(intent.concepts) # ""
<1>1. /\ \A c \in Contracts : c.argvTemplate \in Seq(STRING)
      /\ contract.tool # "" /\ contract.operation # ""
  BY ContractAssumption, Zenon
<1>2. argv = [i \in DOMAIN template |-> Filled(template[i])]
  BY Zenon DEF construct_invocation
<1>3. ASSUME NEW word
      PROVE  /\ ~is_placeholder(word) => Filled(word) = word
             /\ is_placeholder(word) => (Filled(word) # "" <=> (word = "{subject}" => named))
  <2>1. CASE word = "{operation}"
    <3>1. Filled(word) = OrElse(intent.operation, contract.operation) /\ word # "{subject}"
      BY <2>1, Zenon DEF Substituted
    <3>2. Filled(word) # ""
      BY <1>1, <3>1, Zenon DEF OrElse
    <3>. QED  BY <2>1, <3>1, <3>2, Zenon DEF is_placeholder
  <2>2. CASE word = "{tool}"
    <3>1. Filled(word) = OrElse(intent.tool, contract.tool) /\ word # "{subject}"
      BY <2>2, Zenon DEF Substituted
    <3>2. Filled(word) # ""
      BY <1>1, <3>1, Zenon DEF OrElse
    <3>. QED  BY <2>2, <3>1, <3>2, Zenon DEF is_placeholder
  <2>3. CASE word = "{subject}"
    <3>1. Filled(word) = IF intent.concepts = <<>> THEN "" ELSE Head(intent.concepts)
      BY <2>3, Zenon DEF Substituted
    <3>. QED  BY <2>3, <3>1, Zenon DEF is_placeholder
  <2>4. CASE word \notin {"{operation}", "{tool}", "{subject}"}
    <3>1. Filled(word) = word /\ word # "{subject}"
      BY <2>4, Zenon DEF Substituted
    <3>2. is_placeholder(word) => word = "{unknown}"
      BY <2>4, Zenon DEF is_placeholder
    <3>3. "{unknown}" # ""
      BY Zenon
    <3>. QED  BY <3>1, <3>2, <3>3, Zenon
  <2>. QED  BY <2>1, <2>2, <2>3, <2>4, Zenon
<1>4. template \in Seq(STRING)
  BY <1>1, Zenon
<1>. HIDE DEF Filled, template
<1>5. /\ Len(argv) = Len(template) /\ DOMAIN argv = 1..Len(template)
      /\ DOMAIN template = 1..Len(template)
      /\ \A i \in 1..Len(template) : argv[i] = Filled(template[i])
  BY <1>2, <1>4
<1>. HIDE DEF argv, named
<1>6. validate_invocation(contract, argv) <=> (Contains(template, "{subject}") => named)
  <2>1. validate_invocation(contract, argv) <=>
          \A i \in 1..Len(template) : IF is_placeholder(template[i]) THEN argv[i] # ""
                                      ELSE argv[i] = template[i]
    BY <1>5, Zenon DEF validate_invocation, template
  <2>2. ASSUME NEW i \in 1..Len(template)
        PROVE  (IF is_placeholder(template[i]) THEN argv[i] # "" ELSE argv[i] = template[i])
                 <=> (template[i] = "{subject}" => named)
    <3>1. argv[i] = Filled(template[i])
      BY <1>5, Zenon
    <3>2. ~is_placeholder(template[i]) => template[i] # "{subject}"
      BY Zenon DEF is_placeholder
    <3>. QED  BY <1>3, <3>1, <3>2, Zenon
  <2>3. Contains(template, "{subject}") <=> \E i \in 1..Len(template) : template[i] = "{subject}"
    BY Zenon DEF Contains
  <2>. QED  BY <2>1, <2>2, <2>3, Zenon
<1>7. ASSUME NEW other \in Contracts, validate_invocation(other, argv),
             \A i \in DOMAIN argv : ~is_placeholder(template[i])
                                      /\ ~is_placeholder(other.argvTemplate[i])
      PROVE  other.argvTemplate = template
  <2>. DEFINE others == other.argvTemplate
  <2>1. others \in Seq(STRING)
    BY <1>1, Zenon
  <2>2. Len(argv) = Len(others) /\ \A i \in DOMAIN argv : argv[i] = others[i]
    BY <1>7, Zenon DEF validate_invocation
  <2>3. \A i \in 1..Len(template) : argv[i] = template[i]
    BY <1>3, <1>5, <1>7, Zenon
  <2>. HIDE DEF others
  <2>4. others = template
    BY <1>4, <1>5, <2>1, <2>2, <2>3
  <2>. QED  BY <2>4 DEF others
<1>. QED  BY <1>6, <1>7, Zenon DEF argv, named, template
=============================================================================
