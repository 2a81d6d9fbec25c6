------------------------- MODULE QivenContextProofs ------------------------
(***************************************************************************)
(* What the service guarantees for any actors, requests, artifacts and     *)
(* stores, with and without a second process on the stores and lost        *)
(* acknowledgements.                                                       *)
(***************************************************************************)
EXTENDS QivenContext, SequenceTheorems, TLAPS

---------------------------------------------------------------------------
(* Lemmas on sequences and on the gate operators. *)

LEMMA SequenceFacts ==
    ASSUME NEW s, IsSequence(s)
    PROVE  /\ Len(s) \in Nat
           /\ DOMAIN s = 1..Len(s)
  BY DEF IsSequence

LEMMA AppendFacts ==
    ASSUME NEW s, IsSequence(s), NEW e
    PROVE  /\ IsSequence(Append(s, e))
           /\ Len(Append(s, e)) = Len(s) + 1
           /\ DOMAIN Append(s, e) = 1..Len(s) + 1
           /\ Append(s, e)[Len(s) + 1] = e
           /\ \A i \in 1..Len(s) : Append(s, e)[i] = s[i]
<1> DEFINE t == Append(s, e)
           S == Range(s) \cup {e}
<1>1. s \in Seq(S) /\ e \in S
  BY DEF IsSequence
<1>2. /\ t \in Seq(S) /\ Len(t) = Len(s) + 1 /\ t[Len(s) + 1] = e
      /\ DOMAIN t = 1..Len(s) + 1
      /\ \A i \in 1..Len(s) : t[i] = s[i]
  BY <1>1
<1>3. t \in Seq(Range(t))
  BY <1>2 DEF Range
<1>. QED
  BY <1>2, <1>3 DEF IsSequence

\* Six gates that refuse nothing each pass: the first refusal, were there one,
\* would be among them.
LEMMA NoRefusal ==
    ASSUME NEW answers, DOMAIN answers = 1..6, FirstRefusal(answers) = "None"
    PROVE  \A i \in 1..6 : answers[i] = "None"
<1> DEFINE refusals == {i \in DOMAIN answers : answers[i] # "None"}
<1>1. SUFFICES ASSUME refusals # {} PROVE FALSE
  OBVIOUS
<1>2. PICK k \in refusals : \A i \in refusals : k <= i
  <2>1. CASE 1 \in refusals
    BY <2>1
  <2>2. CASE 1 \notin refusals /\ 2 \in refusals
    BY <2>2
  <2>3. CASE refusals \cap 1..2 = {} /\ 3 \in refusals
    BY <2>3
  <2>4. CASE refusals \cap 1..3 = {} /\ 4 \in refusals
    BY <2>4
  <2>5. CASE refusals \cap 1..4 = {} /\ 5 \in refusals
    BY <2>5
  <2>6. CASE refusals \cap 1..5 = {}
    BY <1>1, <2>6
  <2>. QED
    BY <2>1, <2>2, <2>3, <2>4, <2>5, <2>6
<1>3. Min(refusals) \in refusals
  BY <1>2 DEF Min
<1>. QED
  BY <1>1, <1>3 DEF FirstRefusal

\* A write that passes the session gates comes through a live promoted handle, on
\* the handle's own revision, with the active grant of a verified actor.
LEMMA SessionPassed ==
    ASSUME NEW h, NEW tx, NEW g, SessionGates(h, tx, g) = "None"
    PROVE  /\ Contains(g_live, h)
           /\ mats[h].quarantine = "Promoted"
           /\ g = g_activeGrantId /\ g_activeGrantId # NoGrant
           /\ tx.operations # <<>> => ModeOf(g) # "Unattended"
           /\ tx.base = mats[h].revision
           /\ g_store # "null" /\ stores[g_store].head # NoRevision
           /\ canonical_head_locked # <<>>
<1> DEFINE gates == <<
       Gate(~Contains(g_live, h), "StaleBase"),
       Gate(mats[h].quarantine # "Promoted", "GovernanceDenied"),
       Gate(g_activeGrantId = NoGrant \/ g_activeGrantId # g, "GrantRefused"),
       Gate(~Verifies(g_identity, g_grantActor), "UnverifiedActor"),
       Gate(ModeOf(g) = "Unattended" /\ tx.operations # <<>>, "UnattendedMutation"),
       Gate(tx.base # mats[h].revision, "StaleBase")>>
<1>1. \A i \in 1..6 : gates[i] = "None"
  <2>1. DOMAIN gates = 1..6
    OBVIOUS
  <2>2. FirstRefusal(gates) = "None"
    BY DEF SessionGates
  <2>. QED
    BY <2>1, <2>2, NoRefusal
<1>2. /\ gates[1] = "None" /\ gates[2] = "None" /\ gates[3] = "None"
      /\ gates[4] = "None" /\ gates[5] = "None" /\ gates[6] = "None"
  BY <1>1
<1>3. Verifies(g_identity, g_grantActor)
  BY <1>2 DEF Gate
<1>4. g_store # "null" /\ stores[g_store].head # NoRevision
  BY <1>3 DEF Verifies, canonical_head_locked
<1>5. canonical_head_locked # <<>>
  BY <1>3 DEF Verifies
<1>. QED
  BY <1>2, <1>4, <1>5 DEF Gate

LEMMA WritePassed ==
    ASSUME NEW h, NEW tx, NEW g, WriteGates(h, tx, g) = "None"
    PROVE  SessionGates(h, tx, g) = "None"
  BY DEF WriteGates

---------------------------------------------------------------------------
(* Type correctness. *)

LEMMA InitType == Init => TypeOK
<1> SUFFICES ASSUME Init PROVE TypeOK
  OBVIOUS
<1>1. HeapOK
  <2>1. IsSequence(mats) /\ IsSequence(commits) /\ Handles = {}
    BY DEF Init, IsSequence, Handles
  <2>. QED
    BY <2>1 DEF Init, HeapOK
<1>2. StoresOK
  <2>1. stores = [s \in StoreIds |-> EmptyStore]
    BY DEF Init
  <2>2. IsSequence(EmptyStore.revisions)
    BY DEF EmptyStore, IsSequence
  <2>. QED
    BY <2>1, <2>2 DEF Range, StoresOK
<1>. QED
  BY <1>1, <1>2 DEF Init, TypeOK, LeaseOK, GrantIds, NoGrant

\* Minting a materialization keeps the heap, the handles and the receipts typed.
LEMMA MintType ==
    ASSUME HeapOK, NEW m, mats' = Append(mats, m),
           g_epoch' \in Nat, g_epoch <= g_epoch', m.epoch \in 1..g_epoch',
           m.quarantine \in {"Isolated", "Verified", "Promoted"}
    PROVE  /\ IsSequence(mats')
           /\ Handles = 1..Len(mats) /\ Len(mats) \in Nat
           /\ Handles' = 1..Len(mats) + 1 /\ Handles \subseteq Handles'
           /\ Len(mats) + 1 \in Handles' /\ Len(mats) + 1 \notin Handles
           /\ mats'[Len(mats) + 1] = m /\ \A h \in Handles : mats'[h] = mats[h]
           /\ \A h \in Handles' :
                 /\ mats'[h].epoch \in 1..g_epoch'
                 /\ mats'[h].quarantine \in {"Isolated", "Verified", "Promoted"}
<1>1. IsSequence(mats) /\ Handles = 1..Len(mats) /\ Len(mats) \in Nat
  BY SequenceFacts DEF HeapOK, Handles
<1>2. /\ IsSequence(mats') /\ Handles' = 1..Len(mats) + 1
      /\ mats'[Len(mats) + 1] = m
      /\ \A h \in 1..Len(mats) : mats'[h] = mats[h]
  BY <1>1, AppendFacts DEF Handles
<1>3. ASSUME NEW h \in Handles'
      PROVE  /\ mats'[h].epoch \in 1..g_epoch'
             /\ mats'[h].quarantine \in {"Isolated", "Verified", "Promoted"}
  <2>1. CASE h = Len(mats) + 1
    BY <1>2, <2>1
  <2>2. CASE h \in 1..Len(mats)
    BY <1>1, <1>2, <2>2 DEF HeapOK
  <2>. QED
    BY <1>1, <1>2, <2>1, <2>2
<1>. QED
  BY <1>1, <1>2, <1>3

\* A compare-and-swap, and any answer the port allows, leaves a well-formed store.
LEMMA StoreType ==
    ASSUME NEW store, IsSequence(store.revisions), NEW base, NEW bytes,
           NEW answer \in StoreAnswers(store, base, bytes, StoreLosses)
    PROVE  IsSequence(answer.store.revisions)
<1>1. IsSequence(Append(store.revisions, [id |-> Mint(base, bytes), bytes |-> bytes]))
  BY AppendFacts
<1>2. IsSequence(compareAndSwap(store, base, bytes).store.revisions)
  BY <1>1 DEF compareAndSwap, Appended, CommittedAs
<1>. QED
  BY <1>2 DEF StoreAnswers

LEMMA SwapIsAnAnswer ==
    ASSUME NEW store, NEW base, NEW bytes
    PROVE  compareAndSwap(store, base, bytes) \in StoreAnswers(store, base, bytes, StoreLosses)
  BY DEF StoreAnswers

\* An answer is the compare-and-swap's own, or none, whether it landed or not.
LEMMA AnswerFacts ==
    ASSUME NEW store, NEW base, NEW bytes,
           NEW answer \in StoreAnswers(store, base, bytes, StoreLosses)
    PROVE  \/ answer = compareAndSwap(store, base, bytes)
           \/ /\ answer.kind \in {"OutcomeUnknown", "Threw"} /\ answer.kind \in StoreLosses
              /\ answer.revision = NoRevision
              /\ answer.store \in {store, compareAndSwap(store, base, bytes).store}
  BY ServiceAssumption DEF StoreAnswers, Losses

LEMMA OneStoreChanged ==
    ASSUME StoresOK, NEW s \in StoreIds, NEW store, IsSequence(store.revisions),
           stores' = [stores EXCEPT ![s] = store]
    PROVE  StoresOK'
  BY DEF StoresOK, Range

LEMMA StoresUnchangedType ==
    ASSUME StoresOK, UNCHANGED stores
    PROVE  StoresOK'
  BY DEF StoresOK, Range

LEMMA LeaseUnchangedType ==
    ASSUME LeaseOK, UNCHANGED <<g_store, g_identity, grants, g_activeGrantId, g_grantActor>>
    PROVE  LeaseOK'
  BY DEF LeaseOK, GrantIds

LEMMA HeapUnchangedType ==
    ASSUME HeapOK, UNCHANGED <<mats, g_live, g_epoch, g_receipts, commits>>
    PROVE  HeapOK'
  BY DEF HeapOK, Handles

\* A source that materializes, and one that does not, keep the heap typed.
LEMMA MaterializeType ==
    ASSUME HeapOK, NEW call, NEW bytes, NEW revision, NEW quarantine \in {"Isolated", "Promoted"},
           Materialize(call, bytes, revision, quarantine), UNCHANGED <<g_receipts, commits>>
    PROVE  HeapOK'
<1> DEFINE m == [state |-> deserializeImpl(bytes), digest |-> draft_snapshot_digest(bytes),
                 revision |-> revision, epoch |-> g_epoch + 1, quarantine |-> quarantine]
<1>1. CASE DeserializeError(bytes) # "None"
  BY <1>1, HeapUnchangedType DEF Materialize
<1>2. CASE DeserializeError(bytes) = "None"
  <2>1. /\ mats' = Append(mats, m) /\ g_epoch' = g_epoch + 1
        /\ g_live' = Append(g_live, Len(mats) + 1)
    BY <1>2 DEF Materialize
  <2>2. g_epoch' \in Nat /\ g_epoch <= g_epoch' /\ m.epoch \in 1..g_epoch'
    BY <2>1 DEF HeapOK
  <2>3. /\ IsSequence(mats') /\ Handles \subseteq Handles' /\ Len(mats) + 1 \in Handles'
        /\ \A h \in Handles' : /\ mats'[h].epoch \in 1..g_epoch'
                               /\ mats'[h].quarantine \in {"Isolated", "Verified", "Promoted"}
    BY <2>1, <2>2, MintType
  <2>4. g_live' \in Seq(Handles')
    BY <2>1, <2>3 DEF HeapOK
  <2>. QED
    BY <2>2, <2>3, <2>4 DEF HeapOK
<1>. QED
  BY <1>1, <1>2

\* Replacing an entry by a copy of its lineage keeps the heap and registry typed.
LEMMA ReplaceType ==
    ASSUME HeapOK, NEW h \in Handles, NEW m, Replace(h, m), UNCHANGED g_epoch,
           m.epoch = mats[h].epoch, m.quarantine \in {"Isolated", "Verified", "Promoted"}
    PROVE  /\ IsSequence(mats') /\ g_epoch' \in Nat
           /\ \A k \in Handles' : /\ mats'[k].epoch \in 1..g_epoch'
                                  /\ mats'[k].quarantine \in {"Isolated", "Verified", "Promoted"}
           /\ g_live' \in Seq(Handles')
           /\ Handles \subseteq Handles' /\ Len(mats) + 1 \in Handles'
<1>1. mats' = Append(mats, m) /\ g_epoch' \in Nat /\ g_epoch <= g_epoch' /\ m.epoch \in 1..g_epoch'
  BY DEF Replace, HeapOK
<1>2. /\ IsSequence(mats') /\ Handles \subseteq Handles' /\ Len(mats) + 1 \in Handles'
      /\ \A k \in Handles' : /\ mats'[k].epoch \in 1..g_epoch'
                             /\ mats'[k].quarantine \in {"Isolated", "Verified", "Promoted"}
  BY <1>1, MintType
<1>3. g_live' \in Seq(Handles')
  <2>1. g_live' = [i \in 1..Len(g_live) |-> IF g_live[i] = h THEN Len(mats) + 1 ELSE g_live[i]]
    BY DEF Replace, ReplaceAll
  <2>2. g_live \in Seq(Handles)
    BY DEF HeapOK
  <2>. QED
    BY <1>2, <2>1, <2>2
<1>. QED
  BY <1>1, <1>2, <1>3

LEMMA CreateCanonicalType ==
    ASSUME TypeOK, NEW revision, create_canonical(revision)
    PROVE  TypeOK'
<1> DEFINE store == stores[g_store]
           answers == StoreAnswers(store, NoRevision, serializeImpl(makeGenesis), StoreLosses)
<1>1. LeaseOK'
  BY LeaseUnchangedType DEF TypeOK, create_canonical
<1>2. g_store \in StoreIds
  BY DEF create_canonical, TypeOK, LeaseOK
<1>3. HeapOK'
  <2>1. HeapOK /\ UNCHANGED <<g_receipts, commits>>
    BY DEF TypeOK, create_canonical
  <2>2. \/ \E call, bytes, rev : Materialize(call, bytes, rev, "Promoted")
        \/ UNCHANGED <<mats, g_live, g_epoch>>
    BY DEF create_canonical
  <2>. QED
    BY <2>1, <2>2, MaterializeType, HeapUnchangedType
<1>4. StoresOK'
  <2>1. StoresOK /\ \A answer \in answers : IsSequence(answer.store.revisions)
    BY <1>2, StoreType DEF TypeOK, StoresOK
  <2>2. \/ UNCHANGED stores
        \/ \E answer \in answers : stores' = [stores EXCEPT ![g_store] = answer.store]
    BY DEF create_canonical
  <2>. HIDE DEF answers
  <2>. QED
    BY <1>2, <2>1, <2>2, OneStoreChanged, StoresUnchangedType
<1>. QED
  BY <1>1, <1>3, <1>4 DEF TypeOK

LEMMA CreateRacedType ==
    ASSUME TypeOK, create_canonical_raced
    PROVE  TypeOK'
<1> DEFINE swap == compareAndSwap(EmptyStore, NoRevision, serializeImpl(makeGenesis))
<1>1. LeaseOK'
  BY LeaseUnchangedType DEF TypeOK, create_canonical_raced
<1>2. g_store \in StoreIds
  BY DEF create_canonical_raced, TypeOK, LeaseOK
<1>3. HeapOK'
  <2>1. HeapOK /\ UNCHANGED <<g_receipts, commits>>
    BY DEF TypeOK, create_canonical_raced
  <2>2. \E call, bytes, rev : Materialize(call, bytes, rev, "Promoted")
    BY DEF create_canonical_raced
  <2>. QED
    BY <2>1, <2>2, MaterializeType
<1>4. StoresOK'
  <2>1. IsSequence(EmptyStore.revisions)
    BY DEF EmptyStore, IsSequence
  <2>2. StoresOK /\ IsSequence(swap.store.revisions)
    BY <2>1, StoreType, SwapIsAnAnswer DEF TypeOK
  <2>3. stores' = [stores EXCEPT ![g_store] = swap.store]
    BY DEF create_canonical_raced
  <2>. QED
    BY <1>2, <2>2, <2>3, OneStoreChanged
<1>. QED
  BY <1>1, <1>3, <1>4 DEF TypeOK

LEMMA CreateFromArtifactType ==
    ASSUME TypeOK, NEW artifact, create_from_artifact(artifact)
    PROVE  TypeOK'
<1>1. HeapOK /\ UNCHANGED <<g_receipts, commits>>
  BY DEF TypeOK, create_from_artifact
<1>2. \/ \E call, bytes, rev : Materialize(call, bytes, rev, "Isolated")
      \/ UNCHANGED <<mats, g_live, g_epoch>>
  BY DEF create_from_artifact
<1>3. HeapOK'
  BY <1>1, <1>2, MaterializeType, HeapUnchangedType
<1>4. LeaseOK' /\ StoresOK'
  BY LeaseUnchangedType, StoresUnchangedType DEF TypeOK, create_from_artifact
<1>. QED
  BY <1>3, <1>4 DEF TypeOK

\* Removing an element of a sequence leaves a sequence over the same set.
LEMMA RemovalType ==
    ASSUME NEW S, NEW s \in Seq(S), NEW i \in DOMAIN s
    PROVE  RemoveAt(s, i) \in Seq(S)
<1>1. SubSeq(s, 1, i - 1) \in Seq(S)
  BY SubSeqProperties
<1>2. SubSeq(s, i + 1, Len(s)) \in Seq(S)
  BY SubSeqProperties
<1>. QED
  BY <1>1, <1>2 DEF RemoveAt

LEMMA RetireType ==
    ASSUME TypeOK, NEW h \in Handles, retire_cognition(h)
    PROVE  TypeOK'
<1>1. UNCHANGED <<mats, g_epoch, g_receipts, commits>> /\ g_live \in Seq(Handles)
  BY DEF retire_cognition, TypeOK, HeapOK
<1>2. g_live' \in Seq(Handles)
  <2>1. UNCHANGED g_live \/ \E i \in DOMAIN g_live : g_live' = RemoveAt(g_live, i)
    BY DEF retire_cognition
  <2>. QED
    BY <1>1, <2>1, RemovalType
<1>3. HeapOK'
  BY <1>1, <1>2 DEF TypeOK, HeapOK, Handles
<1>4. LeaseOK' /\ StoresOK'
  BY LeaseUnchangedType, StoresUnchangedType DEF TypeOK, retire_cognition
<1>. QED
  BY <1>3, <1>4 DEF TypeOK

LEMMA QuarantineType ==
    ASSUME TypeOK, NEW call, NEW h \in Handles, NEW actor, NEW from,
           NEW to \in {"Verified", "Promoted"}, QuarantineStep(call, h, actor, from, to)
    PROVE  TypeOK'
<1> DEFINE m == [state |-> mats[h].state, digest |-> mats[h].digest,
                 revision |-> mats[h].revision, epoch |-> mats[h].epoch, quarantine |-> to]
<1>1. HeapOK /\ UNCHANGED <<g_epoch, g_receipts, commits>>
  BY DEF QuarantineStep, TypeOK
<1>2. HeapOK'
  <2>1. CASE UNCHANGED <<mats, g_live>>
    BY <1>1, <2>1, HeapUnchangedType
  <2>2. CASE Replace(h, m)
    <3>1. m.epoch = mats[h].epoch /\ m.quarantine \in {"Isolated", "Verified", "Promoted"}
      OBVIOUS
    <3>2. /\ IsSequence(mats') /\ g_epoch' \in Nat
          /\ \A k \in Handles' : /\ mats'[k].epoch \in 1..g_epoch'
                                 /\ mats'[k].quarantine \in {"Isolated", "Verified", "Promoted"}
          /\ g_live' \in Seq(Handles') /\ Handles \subseteq Handles'
      BY <1>1, <2>2, <3>1, ReplaceType
    <3>. QED
      BY <1>1, <3>2 DEF HeapOK
  <2>. QED
    BY <2>1, <2>2 DEF QuarantineStep
<1>3. StoresOK'
  BY StoresUnchangedType DEF QuarantineStep, TypeOK
<1>4. LeaseOK'
  <2>1. /\ LeaseOK /\ UNCHANGED <<g_store, grants, g_activeGrantId, g_grantActor>>
        /\ g_identity' \in {g_identity, "root"}
    BY DEF QuarantineStep, EnsureVerifier, TypeOK
  <2>. QED
    BY <2>1 DEF LeaseOK, GrantIds
<1>. QED
  BY <1>2, <1>3, <1>4 DEF TypeOK

\* Facts on the sequence of grants.
LEMMA GrantFacts ==
    ASSUME LeaseOK
    PROVE  Len(grants) \in Nat /\ DOMAIN grants = 1..Len(grants)
  BY DEF LeaseOK

LEMMA AcquireType ==
    ASSUME TypeOK, NEW actor \in Actors, NEW mode \in Modes, acquire_grant(actor, mode)
    PROVE  TypeOK'
<1>1. HeapOK' /\ StoresOK'
  BY HeapUnchangedType, StoresUnchangedType DEF TypeOK, acquire_grant
<1>2. LeaseOK'
  <2> DEFINE g == [mode |-> mode, epoch |-> g_epoch, principal |-> actor.principal]
             G == [mode : Modes, epoch : Nat, principal : {a.principal : a \in Actors}]
  <2>1. g_store' = g_store /\ g_identity' \in {g_identity, "root"}
    BY DEF acquire_grant, EnsureVerifier
  <2>2. CASE UNCHANGED <<grants, g_activeGrantId, g_grantActor>>
    BY <2>1, <2>2 DEF TypeOK, LeaseOK, GrantIds
  <2>3. CASE /\ grants' = Append(grants, g) /\ g_activeGrantId' = Len(grants) + 1
             /\ g_grantActor' = actor
    <3>1. g \in G
      BY DEF TypeOK, HeapOK
    <3>2. grants \in Seq(G)
      BY DEF TypeOK, LeaseOK
    <3>3. grants' \in Seq(G) /\ DOMAIN grants' = 1..Len(grants) + 1 /\ Len(grants) \in Nat
      BY <2>3, <3>1, <3>2
    <3>4. g_activeGrantId' \in DOMAIN grants'
      BY <2>3, <3>3
    <3>. QED
      BY <2>1, <2>3, <3>3, <3>4 DEF TypeOK, LeaseOK, GrantIds
  <2>. QED
    BY <2>2, <2>3 DEF acquire_grant
<1>. QED
  BY <1>1, <1>2 DEF TypeOK

LEMMA ReleaseType ==
    ASSUME TypeOK, NEW g, release_grant(g)
    PROVE  TypeOK'
<1>1. HeapOK' /\ StoresOK'
  BY HeapUnchangedType, StoresUnchangedType DEF TypeOK, release_grant
<1>2. LeaseOK'
  BY DEF TypeOK, LeaseOK, GrantIds, release_grant
<1>. QED
  BY <1>1, <1>2 DEF TypeOK

LEMMA ForeignType ==
    ASSUME TypeOK, NEW s \in StoreIds, NEW base, NEW bytes,
           ForeignChange(s, compareAndSwap(stores[s], base, bytes))
    PROVE  TypeOK'
<1>1. HeapOK' /\ LeaseOK'
  BY HeapUnchangedType, LeaseUnchangedType DEF TypeOK, ForeignChange
<1>2. StoresOK'
  <2>1. StoresOK /\ IsSequence(compareAndSwap(stores[s], base, bytes).store.revisions)
    BY StoreType, SwapIsAnAnswer DEF TypeOK, StoresOK
  <2>. QED
    BY <2>1, OneStoreChanged DEF ForeignChange
<1>. QED
  BY <1>1, <1>2 DEF TypeOK

\* What a write may do: nothing but answer, or, past every session gate and with
\* a key that has no receipt, take one of the answers the store's port allows.
LEMMA WriteShape ==
    ASSUME TypeOK, NEW h \in Handles, NEW tx, NEW g, write_to_cognition(h, tx, g)
    PROVE  /\ UNCHANGED <<g_epoch, g_store, g_identity, grants, g_activeGrantId, g_grantActor>>
           /\ \/ UNCHANGED <<mats, g_live, stores, g_receipts, commits>>
              \/ /\ ~HasReceipt(tx) /\ tx.operations # <<>>
                 /\ Contains(g_live, h) /\ mats[h].quarantine = "Promoted"
                 /\ g = g_activeGrantId /\ g_activeGrantId # NoGrant
                 /\ ModeOf(g) # "Unattended"
                 /\ g_store \in StoreIds /\ stores[g_store].head # NoRevision
                 /\ \E bytes : \E answer \in StoreAnswers(stores[g_store], mats[h].revision, bytes, StoreLosses) :
                       WriteAnswered(h, tx, g, bytes, answer)
<1>1. UNCHANGED <<g_epoch, g_store, g_identity, grants, g_activeGrantId, g_grantActor>>
  BY DEF write_to_cognition
<1>2. CASE \/ WriteReplay(tx, g) \/ WriteNothing(h, g)
           \/ \E refusal : WriteRefused(refusal, g)
  BY <1>1, <1>2 DEF WriteReplay, WriteNothing, WriteRefused
<1>3. CASE /\ ~HasReceipt(tx) /\ WriteGates(h, tx, g) = "None" /\ tx.operations # <<>>
           /\ WriteThrough(h, tx, g)
  <2>1. SessionGates(h, tx, g) = "None"
    BY <1>3, WritePassed
  <2>2. /\ Contains(g_live, h) /\ mats[h].quarantine = "Promoted"
        /\ g = g_activeGrantId /\ g_activeGrantId # NoGrant
        /\ ModeOf(g) # "Unattended"
        /\ g_store # "null" /\ stores[g_store].head # NoRevision
    BY <1>3, <2>1, SessionPassed
  <2>3. g_store \in StoreIds
    BY <2>2 DEF TypeOK, LeaseOK
  <2>4. \E bytes : \E answer \in StoreAnswers(stores[g_store], mats[h].revision, bytes, StoreLosses) :
           WriteAnswered(h, tx, g, bytes, answer)
    BY <1>3, SwapIsAnAnswer DEF WriteThrough
  <2>. QED
    BY <1>1, <1>3, <2>2, <2>3, <2>4
<1>. QED
  BY <1>2, <1>3 DEF write_to_cognition

\* Recording an outcome keeps every receipt of another key, and the receipt of
\* the key itself, if there is a key, carries the outcome.
LEMMA RecordedFacts ==
    ASSUME NEW tx, NEW verdict, g_receipts' = Recorded(tx, verdict)
    PROVE  /\ DOMAIN g_receipts \subseteq DOMAIN g_receipts'
           /\ tx.idempotencyKey # "" =>
                 /\ tx.idempotencyKey \in DOMAIN g_receipts'
                 /\ g_receipts'[tx.idempotencyKey].outcome = verdict
           /\ \A k \in DOMAIN g_receipts' :
                 \/ /\ k \in DOMAIN g_receipts /\ g_receipts'[k] = g_receipts[k]
                    /\ k # tx.idempotencyKey \/ k = ""
                 \/ /\ k = tx.idempotencyKey /\ k # ""
                    /\ g_receipts'[k].outcome = verdict
  BY DEF Recorded

\* One successful or failed answer of the store.
LEMMA AnsweredType ==
    ASSUME TypeOK, NEW h \in Handles, NEW tx, NEW g, NEW bytes, g_store \in StoreIds,
           mats[h].quarantine = "Promoted",
           NEW answer \in StoreAnswers(stores[g_store], mats[h].revision, bytes, StoreLosses),
           WriteAnswered(h, tx, g, bytes, answer),
           UNCHANGED <<g_epoch, g_store, g_identity, grants, g_activeGrantId, g_grantActor>>
    PROVE  TypeOK'
<1> DEFINE applied == Verdict("Applied", "StoreDiverged", Len(mats) + 1)
           unknown == Verdict("OutcomeUnknown", "OutcomeUnresolved", NoHandle)
           m == [state |-> ApplyTx(mats[h].state, tx), digest |-> draft_snapshot_digest(bytes),
                 revision |-> answer.revision, epoch |-> mats[h].epoch,
                 quarantine |-> mats[h].quarantine]
<1>1. HeapOK /\ StoresOK /\ LeaseOK
  BY DEF TypeOK
<1>2. StoresOK'
  <2>1. IsSequence(answer.store.revisions)
    BY <1>1, StoreType DEF StoresOK
  <2>2. stores' = [stores EXCEPT ![g_store] = answer.store]
    BY DEF WriteAnswered
  <2>. QED
    BY <1>1, <2>1, <2>2, OneStoreChanged
<1>3. IsSequence(commits')
  <2>1. IsSequence(commits)
    BY <1>1 DEF HeapOK
  <2>2. commits' = commits \/ \E c : commits' = Append(commits, c)
    BY DEF WriteAnswered
  <2>3. CASE commits' = commits
    BY <2>1, <2>3
  <2>4. CASE \E c : commits' = Append(commits, c)
    <3>1. PICK c : commits' = Append(commits, c)
      BY <2>4
    <3>2. IsSequence(Append(commits, c))
      BY <2>1, AppendFacts
    <3>. QED
      BY <3>1, <3>2 DEF IsSequence
  <2>. QED
    BY <2>2, <2>3, <2>4
<1>4. HeapOK'
  <2>1. CASE UNCHANGED <<mats, g_live, g_receipts>>
    BY <1>1, <1>3, <2>1 DEF HeapOK, Handles
  <2>2. CASE UNCHANGED <<mats, g_live>> /\ g_receipts' = Recorded(tx, unknown)
    <3>1. ASSUME NEW k \in DOMAIN g_receipts'
          PROVE  /\ g_receipts'[k].outcome.outcome \in {"Applied", "OutcomeUnknown"}
                 /\ g_receipts'[k].outcome.outcome = "Applied" => g_receipts'[k].outcome.successor \in Handles'
      <4>1. unknown.outcome = "OutcomeUnknown" /\ unknown.successor = NoHandle
        BY DEF Verdict
      <4>2. Handles' = Handles
        BY <2>2 DEF Handles
      <4>3. g_receipts'[k].outcome = unknown \/ (k \in DOMAIN g_receipts /\ g_receipts'[k] = g_receipts[k])
        BY <2>2, RecordedFacts, ZenonT(30)
      <4>. QED
        BY <1>1, <4>1, <4>2, <4>3 DEF HeapOK
    <3>. QED
      BY <1>1, <1>3, <2>2, <3>1 DEF HeapOK, Handles
  <2>3. CASE PublishSuccessor(h, tx, bytes, answer.revision) /\ g_receipts' = Recorded(tx, applied)
    <3>1. Replace(h, m)
      BY <2>3 DEF PublishSuccessor
    <3>2. m.epoch = mats[h].epoch /\ m.quarantine \in {"Isolated", "Verified", "Promoted"}
      OBVIOUS
    <3>3. /\ IsSequence(mats') /\ g_epoch' \in Nat
          /\ \A k \in Handles' : /\ mats'[k].epoch \in 1..g_epoch'
                                 /\ mats'[k].quarantine \in {"Isolated", "Verified", "Promoted"}
          /\ g_live' \in Seq(Handles')
          /\ Handles \subseteq Handles' /\ Len(mats) + 1 \in Handles'
      BY <1>1, <3>1, <3>2, ReplaceType
    <3>4. ASSUME NEW k \in DOMAIN g_receipts'
          PROVE  /\ g_receipts'[k].outcome.outcome \in {"Applied", "OutcomeUnknown"}
                 /\ g_receipts'[k].outcome.outcome = "Applied" => g_receipts'[k].outcome.successor \in Handles'
      <4>1. applied.outcome = "Applied" /\ applied.successor = Len(mats) + 1
        BY DEF Verdict
      <4>2. g_receipts'[k].outcome = applied \/ (k \in DOMAIN g_receipts /\ g_receipts'[k] = g_receipts[k])
        BY <2>3, RecordedFacts, ZenonT(30)
      <4>. QED
        BY <1>1, <3>3, <4>1, <4>2 DEF HeapOK
    <3>. QED
      BY <1>3, <3>3, <3>4 DEF HeapOK
  <2>. QED
    BY <2>1, <2>2, <2>3 DEF WriteAnswered
<1>. QED
  BY <1>1, <1>2, <1>4, LeaseUnchangedType DEF TypeOK

LEMMA WriteType ==
    ASSUME TypeOK, NEW h \in Handles, NEW tx, NEW g, write_to_cognition(h, tx, g)
    PROVE  TypeOK'
<1>1. CASE UNCHANGED <<mats, g_live, g_epoch, stores, g_receipts, commits>>
  <2>1. UNCHANGED <<g_store, g_identity, grants, g_activeGrantId, g_grantActor>>
    BY WriteShape
  <2>. QED
    BY <1>1, <2>1, HeapUnchangedType, StoresUnchangedType, LeaseUnchangedType DEF TypeOK
<1>2. CASE /\ g_store \in StoreIds /\ mats[h].quarantine = "Promoted"
           /\ \E bytes : \E answer \in StoreAnswers(stores[g_store], mats[h].revision, bytes, StoreLosses) :
                 WriteAnswered(h, tx, g, bytes, answer)
  BY <1>2, WriteShape, AnsweredType
<1>. QED
  BY <1>1, <1>2, WriteShape

LEMMA StutterType == TypeOK /\ UNCHANGED vars => TypeOK'
  BY HeapUnchangedType, StoresUnchangedType, LeaseUnchangedType DEF TypeOK, vars, serviceState

LEMMA NextType == TypeOK /\ Next => TypeOK'
<1> SUFFICES ASSUME TypeOK, Next PROVE TypeOK'
  OBVIOUS
<1>1. ASSUME NEW s \in StoreIds \cup {"null"}, attachStore(s) PROVE TypeOK'
  <2>1. HeapOK' /\ StoresOK'
    BY <1>1, HeapUnchangedType, StoresUnchangedType DEF TypeOK, attachStore
  <2>2. LeaseOK'
    BY <1>1 DEF TypeOK, LeaseOK, GrantIds, attachStore
  <2>. QED
    BY <2>1, <2>2 DEF TypeOK
<1>2. ASSUME NEW port \in Ports, attach_identity_verifier(port) PROVE TypeOK'
  <2>1. HeapOK' /\ StoresOK'
    BY <1>2, HeapUnchangedType, StoresUnchangedType DEF TypeOK, attach_identity_verifier
  <2>2. LeaseOK'
    BY <1>2, ServiceAssumption DEF TypeOK, LeaseOK, GrantIds, attach_identity_verifier
  <2>. QED
    BY <2>1, <2>2 DEF TypeOK
<1>3. ASSUME NEW r \in RevisionsSeen \cup {NoRevision}, create_canonical(r) PROVE TypeOK'
  BY <1>3, CreateCanonicalType
<1>4. ASSUME create_canonical_raced PROVE TypeOK'
  BY <1>4, CreateRacedType
<1>5. ASSUME NEW a \in Artifacts, create_from_artifact(a) PROVE TypeOK'
  BY <1>5, CreateFromArtifactType
<1>6. ASSUME NEW h \in Handles, retire_cognition(h) PROVE TypeOK'
  BY <1>6, RetireType
<1>7. ASSUME NEW h \in Handles, NEW actor \in Actors, verify_restored(h, actor) PROVE TypeOK'
  BY <1>7, QuarantineType DEF verify_restored
<1>8. ASSUME NEW h \in Handles, NEW actor \in Actors, promote_authority(h, actor) PROVE TypeOK'
  BY <1>8, QuarantineType DEF promote_authority
<1>9. ASSUME NEW actor \in Actors, NEW mode \in Modes, acquire_grant(actor, mode) PROVE TypeOK'
  BY <1>9, AcquireType
<1>10. ASSUME NEW g \in GrantIds, release_grant(g) PROVE TypeOK'
  BY <1>10, ReleaseType
<1>11. ASSUME NEW h \in Handles, NEW request \in Requests, NEW base \in RevisionsSeen,
              NEW g \in GrantIds, write_to_cognition(h, WithBase(request, base), g)
       PROVE  TypeOK'
  BY <1>11, WriteType
<1>12. ASSUME NEW s \in StoreIds, ForeignGenesis(s) PROVE TypeOK'
  BY <1>12, ForeignType DEF ForeignGenesis
<1>13. ASSUME NEW s \in StoreIds, NEW request \in Requests, NEW actor \in Actors,
              ForeignCommit(s, request, actor)
       PROVE  TypeOK'
  BY <1>13, ForeignType DEF ForeignCommit
<1>. QED
  BY <1>1, <1>2, <1>3, <1>4, <1>5, <1>6, <1>7, <1>8, <1>9, <1>10, <1>11, <1>12, <1>13 DEF Next

\* In every reachable state the registry, the lease and the receipts hold only
\* what the service minted: no dangling handle or grant, and no materialization is
\* ever in a quarantine state other than Isolated, Verified or Promoted.
THEOREM TypeCorrect == Spec => []TypeOK
<1>1. Init => TypeOK
  BY InitType
<1>2. TypeOK /\ [Next]_vars => TypeOK'
  BY NextType, StutterType
<1>. QED
  BY <1>1, <1>2, PTL DEF Spec
=============================================================================
