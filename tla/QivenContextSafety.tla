-------------------------- MODULE QivenContextSafety ------------------------
(***************************************************************************)
(* The safety properties of the service, proved from TypeOK.  Three lemmas *)
(* say what a step may do to the lease, to the heap with the registry, and *)
(* to the receipts with the commits; each property needs one or two.  The  *)
(* last part is about what survives a restart.                             *)
(***************************************************************************)
EXTENDS QivenContextProofs

---------------------------------------------------------------------------
(* What a step may do. *)

Acquired(actor, mode) ==
    /\ g_activeGrantId = NoGrant
    /\ grants' = Append(grants, [mode |-> mode, epoch |-> g_epoch, principal |-> actor.principal])
    /\ g_activeGrantId' = Len(grants) + 1
    /\ g_grantActor' = actor /\ actor # NoActor

Released(g) ==
    /\ g_activeGrantId = g /\ grants' = grants
    /\ g_activeGrantId' = NoGrant /\ g_grantActor' = NoActor
    /\ result'.call = "release" /\ result'.grant = g

\* The lease is left alone, taken by a new grant when it is free, or released by
\* the grant that holds it.
LEMMA LeaseStep ==
    ASSUME TypeOK, [Next]_vars
    PROVE  \/ UNCHANGED <<grants, g_activeGrantId, g_grantActor>>
           \/ \E actor, mode : Acquired(actor, mode)
           \/ \E g : Released(g)
<1> DEFINE AsBefore == UNCHANGED <<grants, g_activeGrantId, g_grantActor>>
<1>1. CASE UNCHANGED vars
  BY <1>1 DEF vars, serviceState
<1>2. ASSUME NEW s, NEW port, attachStore(s) \/ attach_identity_verifier(port) PROVE AsBefore
  BY <1>2 DEF attachStore, attach_identity_verifier
<1>3. ASSUME NEW r, NEW a, create_canonical(r) \/ create_canonical_raced \/ create_from_artifact(a)
      PROVE  AsBefore
  BY <1>3 DEF create_canonical, create_canonical_raced, create_from_artifact
<1>4. ASSUME NEW h, NEW actor,
             retire_cognition(h) \/ verify_restored(h, actor) \/ promote_authority(h, actor)
      PROVE  AsBefore
  BY <1>4 DEF retire_cognition, verify_restored, promote_authority, QuarantineStep
<1>5. ASSUME NEW actor, NEW mode, acquire_grant(actor, mode) PROVE AsBefore \/ Acquired(actor, mode)
  <2>1. CASE Verifies(g_identity', actor) /\ g_activeGrantId = NoGrant
    <3>1. actor.principal # ""
      BY <2>1 DEF Verifies, RootPrincipalVerifier
    <3>2. actor # NoActor
      <4>1. NoActor.principal = ""
        BY DEF NoActor
      <4>. QED
        BY <3>1, <4>1
    <3>. QED
      BY <1>5, <2>1, <3>2 DEF acquire_grant, Acquired
  <2>2. CASE ~(Verifies(g_identity', actor) /\ g_activeGrantId = NoGrant)
    BY <1>5, <2>2 DEF acquire_grant
  <2>. QED
    BY <2>1, <2>2
<1>6. ASSUME NEW g, release_grant(g) PROVE AsBefore \/ Released(g)
  BY <1>6 DEF release_grant, Released, Return
<1>7. ASSUME NEW h, NEW tx, NEW g, write_to_cognition(h, tx, g) PROVE AsBefore
  BY <1>7 DEF write_to_cognition
<1>8. ASSUME NEW s, NEW request, NEW actor, ForeignGenesis(s) \/ ForeignCommit(s, request, actor)
      PROVE  AsBefore
  BY <1>8 DEF ForeignGenesis, ForeignCommit, ForeignChange
<1>. QED
  BY <1>1, <1>2, <1>3, <1>4, <1>5, <1>6, <1>7, <1>8 DEF Next

Minted(m) ==
    /\ g_epoch' = g_epoch + 1 /\ mats' = Append(mats, m)
    /\ g_live' = Append(g_live, Len(mats) + 1)
    /\ m.epoch = g_epoch + 1
    /\ \/ m.quarantine = "Promoted"
       \/ m.quarantine = "Isolated" /\ m.revision = NoRevision

Replaced(h, m) ==
    /\ Replace(h, m) /\ UNCHANGED g_epoch /\ m.epoch = mats[h].epoch
    /\ \/ mats[h].quarantine = "Promoted" /\ m.quarantine = "Promoted"
       \/ /\ mats[h].quarantine = "Isolated" /\ m.quarantine = "Verified"
          /\ m.revision = mats[h].revision

LEMMA MaterializeStep ==
    ASSUME NEW call, NEW bytes, NEW revision, NEW quarantine,
           Materialize(call, bytes, revision, quarantine),
           quarantine = "Promoted" \/ (quarantine = "Isolated" /\ revision = NoRevision)
    PROVE  UNCHANGED <<mats, g_live, g_epoch>> \/ \E m : Minted(m)
<1> DEFINE m == [state |-> deserializeImpl(bytes), digest |-> draft_snapshot_digest(bytes),
                 revision |-> revision, epoch |-> g_epoch + 1, quarantine |-> quarantine]
<1>1. CASE DeserializeError(bytes) # "None"
  BY <1>1 DEF Materialize
<1>2. CASE DeserializeError(bytes) = "None"
  <2>1. Minted(m)
    BY <1>2 DEF Materialize, Minted
  <2>. QED
    BY <2>1
<1>. QED
  BY <1>1, <1>2

\* promote_authority changes nothing here: AuthorityPending is never reached.
LEMMA QuarantineStepHeap ==
    ASSUME TypeOK, NEW h \in Handles, NEW actor,
           verify_restored(h, actor) \/ promote_authority(h, actor)
    PROVE  UNCHANGED <<mats, g_live, g_epoch>> \/ \E m : Replaced(h, m)
<1>1. CASE promote_authority(h, actor)
  <2>1. mats[h].quarantine # "AuthorityPending"
    BY DEF TypeOK, HeapOK
  <2>. QED
    BY <1>1, <2>1 DEF promote_authority, QuarantineStep
<1>2. CASE verify_restored(h, actor)
  <2> DEFINE m == [state |-> mats[h].state, digest |-> mats[h].digest,
                   revision |-> mats[h].revision, epoch |-> mats[h].epoch,
                   quarantine |-> "Verified"]
  <2>1. CASE UNCHANGED <<mats, g_live>>
    BY <1>2, <2>1 DEF verify_restored, QuarantineStep
  <2>2. CASE Replace(h, m) /\ mats[h].quarantine = "Isolated"
    <3>1. Replaced(h, m)
      BY <1>2, <2>2 DEF verify_restored, QuarantineStep, Replaced
    <3>. QED
      BY <3>1
  <2>. QED
    BY <1>2, <2>1, <2>2 DEF verify_restored, QuarantineStep
<1>. QED
  BY <1>1, <1>2

\* The heap only grows: by a materialization of a fresh lineage, or by one that
\* takes over the entry and the lineage of a handle.
LEMMA HeapStep ==
    ASSUME TypeOK, [Next]_vars
    PROVE  \/ UNCHANGED <<mats, g_live, g_epoch>>
           \/ \E m : Minted(m)
           \/ \E h \in Handles : \E m : Replaced(h, m)
           \/ \E i \in DOMAIN g_live : g_live' = RemoveAt(g_live, i) /\ UNCHANGED <<mats, g_epoch>>
<1> DEFINE AsBefore == UNCHANGED <<mats, g_live, g_epoch>>
<1>1. CASE UNCHANGED vars
  BY <1>1 DEF vars, serviceState
<1>2. ASSUME NEW s, NEW port, attachStore(s) \/ attach_identity_verifier(port) PROVE AsBefore
  BY <1>2 DEF attachStore, attach_identity_verifier
<1>3. ASSUME NEW r, NEW a, create_canonical(r) \/ create_canonical_raced \/ create_from_artifact(a)
      PROVE  AsBefore \/ \E m : Minted(m)
  <2>1. \/ AsBefore
        \/ \E call, bytes, revision : \/ Materialize(call, bytes, revision, "Promoted")
                                      \/ Materialize(call, bytes, NoRevision, "Isolated")
    BY <1>3 DEF create_canonical, create_canonical_raced, create_from_artifact
  <2>. QED
    BY <2>1, MaterializeStep
<1>4. ASSUME NEW h, retire_cognition(h)
      PROVE  AsBefore \/ \E i \in DOMAIN g_live : g_live' = RemoveAt(g_live, i) /\ UNCHANGED <<mats, g_epoch>>
  BY <1>4 DEF retire_cognition
<1>5. ASSUME NEW h \in Handles, NEW actor, verify_restored(h, actor) \/ promote_authority(h, actor)
      PROVE  AsBefore \/ \E m : Replaced(h, m)
  BY <1>5, QuarantineStepHeap
<1>6. ASSUME NEW actor, NEW mode, NEW g, acquire_grant(actor, mode) \/ release_grant(g)
      PROVE  AsBefore
  BY <1>6 DEF acquire_grant, release_grant
<1>7. ASSUME NEW h \in Handles, NEW tx, NEW g, write_to_cognition(h, tx, g)
      PROVE  AsBefore \/ \E m : Replaced(h, m)
  <2>1. CASE UNCHANGED <<mats, g_live>>
    BY <1>7, <2>1 DEF write_to_cognition
  <2>2. CASE mats[h].quarantine = "Promoted" /\ \E bytes, revision : PublishSuccessor(h, tx, bytes, revision)
    <3>1. PICK bytes, revision : PublishSuccessor(h, tx, bytes, revision)
      BY <2>2
    <3> DEFINE m == [state |-> ApplyTx(mats[h].state, tx), digest |-> draft_snapshot_digest(bytes),
                     revision |-> revision, epoch |-> mats[h].epoch,
                     quarantine |-> mats[h].quarantine]
    <3>2. Replace(h, m) /\ UNCHANGED g_epoch
      BY <1>7, <3>1 DEF PublishSuccessor, write_to_cognition
    <3>3. Replaced(h, m)
      BY <2>2, <3>2 DEF Replaced
    <3>. QED
      BY <3>3
  <2>. QED
    BY <1>7, <2>1, <2>2, WriteShape DEF WriteAnswered
<1>8. ASSUME NEW s, NEW request, NEW actor, ForeignGenesis(s) \/ ForeignCommit(s, request, actor)
      PROVE  AsBefore
  BY <1>8 DEF ForeignGenesis, ForeignCommit, ForeignChange
<1>. QED
  BY <1>1, <1>2, <1>3, <1>4, <1>5, <1>6, <1>7, <1>8 DEF Next

Written(h, tx, g, bytes, answer) ==
    /\ ~HasReceipt(tx)
    /\ g = g_activeGrantId /\ g_activeGrantId # NoGrant /\ ModeOf(g) # "Unattended"
    /\ UNCHANGED grants
    /\ g_store \in StoreIds /\ stores[g_store].head # NoRevision
    /\ answer \in StoreAnswers(stores[g_store], mats[h].revision, bytes, StoreLosses)
    /\ WriteAnswered(h, tx, g, bytes, answer)

\* Receipts and commits change only in a write that holds the lease and whose key
\* has no receipt yet.
LEMMA CommitStep ==
    ASSUME TypeOK, [Next]_vars
    PROVE  \/ UNCHANGED <<g_receipts, commits>>
           \/ \E h \in Handles : \E tx, g, bytes, answer : Written(h, tx, g, bytes, answer)
<1> DEFINE AsBefore == UNCHANGED <<g_receipts, commits>>
<1>1. CASE UNCHANGED vars
  BY <1>1 DEF vars, serviceState
<1>2. ASSUME NEW s, NEW port, NEW r, NEW a,
             \/ attachStore(s) \/ attach_identity_verifier(port)
             \/ create_canonical(r) \/ create_canonical_raced \/ create_from_artifact(a)
      PROVE  AsBefore
  BY <1>2 DEF attachStore, attach_identity_verifier, create_canonical, create_canonical_raced,
              create_from_artifact
<1>3. ASSUME NEW h, NEW actor, NEW mode, NEW g,
             \/ retire_cognition(h) \/ verify_restored(h, actor) \/ promote_authority(h, actor)
             \/ acquire_grant(actor, mode) \/ release_grant(g)
      PROVE  AsBefore
  BY <1>3 DEF retire_cognition, verify_restored, promote_authority, QuarantineStep,
              acquire_grant, release_grant
<1>4. ASSUME NEW h \in Handles, NEW tx, NEW g, write_to_cognition(h, tx, g)
      PROVE  AsBefore \/ \E bytes, answer : Written(h, tx, g, bytes, answer)
  BY <1>4, WriteShape DEF Written
<1>5. ASSUME NEW s, NEW request, NEW actor, ForeignGenesis(s) \/ ForeignCommit(s, request, actor)
      PROVE  AsBefore
  BY <1>5 DEF ForeignGenesis, ForeignCommit, ForeignChange
<1>. QED
  BY <1>1, <1>2, <1>3, <1>4, <1>5 DEF Next

\* A receipt is only ever added, for a key that has none.
LEMMA ReceiptStep ==
    ASSUME TypeOK, [Next]_vars
    PROVE  \/ g_receipts' = g_receipts
           \/ \E tx, verdict : ~HasReceipt(tx) /\ g_receipts' = Recorded(tx, verdict)
<1>1. ASSUME NEW h, NEW tx, NEW g, NEW bytes, NEW answer, Written(h, tx, g, bytes, answer),
             g_receipts' # g_receipts
      PROVE  ~HasReceipt(tx) /\ \E verdict : g_receipts' = Recorded(tx, verdict)
  <2>1. ~HasReceipt(tx) /\ WriteAnswered(h, tx, g, bytes, answer)
    BY <1>1 DEF Written
  <2>2. \/ g_receipts' = Recorded(tx, Verdict("OutcomeUnknown", "OutcomeUnresolved", NoHandle))
        \/ g_receipts' = Recorded(tx, Verdict("Applied", "StoreDiverged", Len(mats) + 1))
    BY <1>1, <2>1 DEF WriteAnswered
  <2>. QED
    BY <2>1, <2>2
<1>. QED
  BY <1>1, CommitStep

LEMMA ReceiptsGrow ==
    ASSUME TypeOK, [Next]_vars
    PROVE  \A k \in DOMAIN g_receipts : k \in DOMAIN g_receipts' /\ g_receipts'[k] = g_receipts[k]
<1>1. ASSUME NEW tx, NEW verdict, ~HasReceipt(tx), g_receipts' = Recorded(tx, verdict),
             NEW k \in DOMAIN g_receipts
      PROVE  k \in DOMAIN g_receipts' /\ g_receipts'[k] = g_receipts[k]
  <2>1. k # tx.idempotencyKey \/ tx.idempotencyKey = ""
    BY <1>1 DEF HasReceipt
  <2>. QED
    BY <1>1, <2>1 DEF Recorded
<1>. QED
  BY <1>1, ReceiptStep

\* The answer of a store that answers: refused, at the head already, or appended.
LEMMA SwapCases ==
    ASSUME NEW store, NEW base, NEW bytes
    PROVE  LET swap == compareAndSwap(store, base, bytes)
           IN  \/ swap.kind = "CompareFailed" /\ swap.store = store
               \/ swap.kind = "Committed" /\ swap.store = store /\ swap.revision = store.head
               \/ /\ swap.kind = "Committed" /\ swap.store = Appended(store, base, bytes).store
                  /\ swap.revision = swap.store.head
                  /\ base = store.head \/ store.revisions = <<>>
<1>1. CASE compareAndSwap(store, base, bytes) = Appended(store, base, bytes)
           /\ (base = store.head \/ store.revisions = <<>>)
  BY <1>1 DEF Appended, CommittedAs
<1>2. CASE compareAndSwap(store, base, bytes) = CommittedAs(store, store.head)
  BY <1>2 DEF CommittedAs
<1>3. CASE compareAndSwap(store, base, bytes)
             = [kind |-> "CompareFailed", revision |-> NoRevision, store |-> store]
  BY <1>3
<1>. QED
  BY <1>1, <1>2, <1>3 DEF compareAndSwap

\* What the answers of a store have in common.
LEMMA FailedLeavesStore ==
    ASSUME NEW store, NEW base, NEW bytes, NEW answer \in StoreAnswers(store, base, bytes, StoreLosses),
           answer.kind = "CompareFailed"
    PROVE  answer.store = store
<1>1. CASE answer = compareAndSwap(store, base, bytes)
  BY <1>1, SwapCases
<1>2. CASE answer.kind \in {"OutcomeUnknown", "Threw"}
  BY <1>2
<1>. QED
  BY <1>1, <1>2, AnswerFacts

LEMMA CommittedNamesHead ==
    ASSUME NEW store, NEW base, NEW bytes, NEW answer \in StoreAnswers(store, base, bytes, StoreLosses),
           answer.kind = "Committed", answer.store # store
    PROVE  answer.revision = answer.store.head
<1>1. CASE answer = compareAndSwap(store, base, bytes)
  BY <1>1, SwapCases
<1>2. CASE answer.kind \in {"OutcomeUnknown", "Threw"}
  BY <1>2
<1>. QED
  BY <1>1, <1>2, AnswerFacts

LEMMA AnswerAppends ==
    ASSUME NEW store, NEW base, NEW bytes, NEW answer \in StoreAnswers(store, base, bytes, StoreLosses),
           answer.store # store
    PROVE  /\ answer.store = Appended(store, base, bytes).store
           /\ base = store.head \/ store.revisions = <<>>
<1>1. answer.store = compareAndSwap(store, base, bytes).store
  BY AnswerFacts
<1>. QED
  BY <1>1, SwapCases

---------------------------------------------------------------------------
(* The lease. *)

LEMMA LeaseInductive == TypeOK /\ LeaseIsLatestGrant /\ [Next]_vars => LeaseIsLatestGrant'
<1> SUFFICES ASSUME TypeOK, LeaseIsLatestGrant, [Next]_vars PROVE LeaseIsLatestGrant'
  OBVIOUS
<1>1. CASE UNCHANGED <<grants, g_activeGrantId, g_grantActor>>
  BY <1>1 DEF LeaseIsLatestGrant
<1>2. ASSUME NEW actor, NEW mode, Acquired(actor, mode) PROVE LeaseIsLatestGrant'
  <2>1. Len(grants) \in Nat /\ Len(grants') = Len(grants) + 1
    BY <1>2 DEF TypeOK, LeaseOK, Acquired
  <2>. QED
    BY <1>2, <2>1 DEF Acquired, LeaseIsLatestGrant, NoGrant
<1>3. ASSUME NEW g, Released(g) PROVE LeaseIsLatestGrant'
  BY <1>3 DEF Released, LeaseIsLatestGrant
<1>. QED
  BY <1>1, <1>2, <1>3, LeaseStep

\* There is one lease at a time and only the grant minted last can hold it, for
\* any number of competing flows; the recorded actor lives exactly as long.
THEOREM LeaseIsSingle == Spec => []LeaseIsLatestGrant
<1>1. Init => LeaseIsLatestGrant
  BY DEF Init, LeaseIsLatestGrant
<1>. QED
  BY <1>1, LeaseInductive, TypeCorrect, PTL DEF Spec

\* No step ends a lease but the release by the grant that holds it.
THEOREM LeaseEnds == Spec => LeaseEndsWithItsGrant
<1>1. TypeOK /\ [Next]_vars =>
        (g_activeGrantId # NoGrant /\ g_activeGrantId' # g_activeGrantId
           => /\ g_activeGrantId' = NoGrant
              /\ result'.call = "release" /\ result'.grant = g_activeGrantId)
  BY LeaseStep DEF Acquired, Released
<1>. QED
  BY <1>1, TypeCorrect, PTL DEF Spec, LeaseEndsWithItsGrant

LEMMA FencingInductive ==
    TypeOK /\ LeaseIsLatestGrant /\ CommitsAreFenced /\ [Next]_vars => CommitsAreFenced'
<1> SUFFICES ASSUME TypeOK, LeaseIsLatestGrant, CommitsAreFenced, [Next]_vars
             PROVE  CommitsAreFenced'
  OBVIOUS
<1>1. /\ IsSequence(commits) /\ Len(commits) \in Nat /\ DOMAIN commits = 1..Len(commits)
      /\ Len(grants) \in Nat /\ DOMAIN grants = 1..Len(grants)
  BY SequenceFacts, GrantFacts DEF TypeOK, HeapOK
<1>2. DOMAIN grants \subseteq DOMAIN grants' /\ \A g \in DOMAIN grants : grants'[g] = grants[g]
  <2>1. grants' = grants \/ \E actor, mode : Acquired(actor, mode)
    BY LeaseStep DEF Released
  <2>2. ASSUME NEW actor, NEW mode, Acquired(actor, mode)
        PROVE  DOMAIN grants \subseteq DOMAIN grants' /\ \A g \in DOMAIN grants : grants'[g] = grants[g]
    BY <2>2 DEF Acquired, TypeOK, LeaseOK
  <2>. QED
    BY <2>1, <2>2
<1>3. CASE commits' = commits
  BY <1>2, <1>3 DEF CommitsAreFenced
<1>4. ASSUME NEW h, NEW tx, NEW g, NEW bytes, NEW answer, Written(h, tx, g, bytes, answer),
             commits' # commits
      PROVE  CommitsAreFenced'
  <2>1. PICK c : commits' = Append(commits, c) /\ c.grant = g
    BY <1>4 DEF Written, WriteAnswered
  <2>2. /\ DOMAIN commits' = 1..Len(commits) + 1
        /\ commits'[Len(commits) + 1] = c
        /\ \A i \in 1..Len(commits) : commits'[i] = commits[i]
    BY <1>1, <2>1, AppendFacts
  <2>3. g = Len(grants) /\ g \in DOMAIN grants /\ grants[g].mode # "Unattended" /\ grants' = grants
    BY <1>1, <1>4 DEF Written, LeaseIsLatestGrant, ModeOf, NoGrant, TypeOK, LeaseOK, GrantIds
  <2>4. \A i \in DOMAIN commits' : /\ commits'[i].grant \in DOMAIN grants'
                                   /\ grants'[commits'[i].grant].mode # "Unattended"
    BY <1>1, <2>1, <2>2, <2>3 DEF CommitsAreFenced
  <2>5. ASSUME NEW i \in DOMAIN commits', NEW j \in DOMAIN commits', i <= j
        PROVE  commits'[i].grant <= commits'[j].grant
    <3>1. CASE j \in 1..Len(commits)
      BY <1>1, <2>2, <2>5, <3>1 DEF CommitsAreFenced
    <3>2. CASE j = Len(commits) + 1
      BY <1>1, <2>1, <2>2, <2>3, <2>4, <3>2
    <3>. QED
      BY <1>1, <2>2, <3>1, <3>2
  <2>. QED
    BY <2>4, <2>5 DEF CommitsAreFenced
<1>. QED
  BY <1>3, <1>4, CommitStep

\* Fencing, for any number of flows, stores and lost acknowledgements: commits land
\* in the order their grants were minted and none under an unattended grant.
THEOREM Fencing == Spec => []CommitsAreFenced
<1>1. Init => CommitsAreFenced
  BY DEF Init, CommitsAreFenced
<1>. QED
  BY <1>1, FencingInductive, LeaseIsSingle, TypeCorrect, PTL DEF Spec

---------------------------------------------------------------------------
(* Keys and receipts. *)

\* The outcome recorded for a key is final, even for a lost acknowledgement, a
\* retry with another request and a change of store.
THEOREM ReceiptsStay == Spec => ReceiptsAreFinal
<1>1. TypeOK /\ [Next]_vars =>
        \A k \in DOMAIN g_receipts : k \in DOMAIN g_receipts' /\ g_receipts'[k] = g_receipts[k]
  BY ReceiptsGrow
<1>. QED
  BY <1>1, TypeCorrect, PTL DEF Spec, ReceiptsAreFinal

KeyInv == KeyCommitsAtMostOnce /\ ReceiptCoversCommit

\* What the heap holds under a handle never changes.
LEMMA HeapIsImmutable ==
    ASSUME TypeOK, [Next]_vars
    PROVE  \A h \in Handles : h \in Handles' /\ mats'[h] = mats[h]
<1>1. IsSequence(mats) /\ Handles = 1..Len(mats) /\ Len(mats) \in Nat
  BY SequenceFacts DEF TypeOK, HeapOK, Handles
<1>2. mats' = mats \/ \E m : mats' = Append(mats, m)
  BY HeapStep DEF Minted, Replaced, Replace
<1>3. CASE mats' = mats
  BY <1>3 DEF Handles
<1>4. ASSUME NEW m, mats' = Append(mats, m)
      PROVE  \A h \in Handles : h \in Handles' /\ mats'[h] = mats[h]
  <2>1. DOMAIN mats' = 1..Len(mats) + 1 /\ \A i \in 1..Len(mats) : mats'[i] = mats[i]
    BY <1>1, <1>4, AppendFacts
  <2>. QED
    BY <1>1, <2>1 DEF Handles
<1>. QED
  BY <1>2, <1>3, <1>4

\* A write that lands a commit, and is answered, records a receipt that covers it.
LEMMA LandedCommit ==
    ASSUME NEW h, NEW tx, NEW g, NEW bytes, NEW answer,
           Written(h, tx, g, bytes, answer), commits' # commits
    PROVE  /\ answer.store # stores[g_store]
           /\ commits' = Append(commits, [store |-> g_store, revision |-> answer.store.head,
                                          key |-> tx.idempotencyKey, grant |-> g,
                                          answered |-> answer.kind # "Threw"])
  BY DEF Written, WriteAnswered

LEMMA LandedIsCovered ==
    ASSUME TypeOK, NEW h \in Handles, NEW tx, NEW g, NEW bytes, NEW answer,
           Written(h, tx, g, bytes, answer), commits' # commits, tx.idempotencyKey # "",
           answer.kind # "Threw"
    PROVE  /\ tx.idempotencyKey \in DOMAIN g_receipts'
           /\ g_receipts'[tx.idempotencyKey].outcome.outcome = "Applied" =>
                mats'[g_receipts'[tx.idempotencyKey].outcome.successor].revision = answer.store.head
<1> DEFINE unknown == Verdict("OutcomeUnknown", "OutcomeUnresolved", NoHandle)
           applied == Verdict("Applied", "StoreDiverged", Len(mats) + 1)
           m == [state |-> ApplyTx(mats[h].state, tx), digest |-> draft_snapshot_digest(bytes),
                 revision |-> answer.revision, epoch |-> mats[h].epoch,
                 quarantine |-> mats[h].quarantine]
<1>1. /\ answer.store # stores[g_store]
      /\ answer \in StoreAnswers(stores[g_store], mats[h].revision, bytes, StoreLosses)
      /\ WriteAnswered(h, tx, g, bytes, answer)
  BY LandedCommit DEF Written
<1>2. answer.kind # "CompareFailed"
  BY <1>1, FailedLeavesStore
<1>3. \/ g_receipts' = Recorded(tx, unknown)
      \/ /\ g_receipts' = Recorded(tx, applied) /\ answer.kind = "Committed"
         /\ mats' = Append(mats, m)
  BY <1>1, <1>2 DEF WriteAnswered, PublishSuccessor, Replace
<1>4. CASE g_receipts' = Recorded(tx, unknown)
  <2>1. unknown.outcome = "OutcomeUnknown"
    BY DEF Verdict
  <2>2. /\ tx.idempotencyKey \in DOMAIN g_receipts'
        /\ g_receipts'[tx.idempotencyKey].outcome = unknown
    BY <1>4, RecordedFacts
  <2>. QED
    BY <2>1, <2>2
<1>5. CASE /\ g_receipts' = Recorded(tx, applied) /\ answer.kind = "Committed"
           /\ mats' = Append(mats, m)
  <2>1. applied.successor = Len(mats) + 1
    BY DEF Verdict
  <2>2. answer.revision = answer.store.head
    BY <1>1, <1>5, CommittedNamesHead
  <2>3. IsSequence(mats)
    BY DEF TypeOK, HeapOK
  <2>4. Append(mats, m)[Len(mats) + 1] = m
    BY <2>3, AppendFacts
  <2>5. mats'[Len(mats) + 1].revision = answer.store.head
    <3>1. mats'[Len(mats) + 1] = m
      BY <1>5, <2>4
    <3>2. m.revision = answer.revision
      OBVIOUS
    <3>. QED
      BY <2>2, <3>1, <3>2
  <2>6. /\ tx.idempotencyKey \in DOMAIN g_receipts'
        /\ g_receipts'[tx.idempotencyKey].outcome = applied
    BY <1>5, RecordedFacts
  <2>. QED
    BY <2>1, <2>5, <2>6
<1>. QED
  BY <1>3, <1>4, <1>5

LEMMA KeyInductive == TypeOK /\ KeyInv /\ [Next]_vars => KeyInv'
<1> SUFFICES ASSUME TypeOK, KeyInv, [Next]_vars PROVE KeyInv'
  OBVIOUS
<1>1. IsSequence(commits) /\ Len(commits) \in Nat /\ DOMAIN commits = 1..Len(commits)
  BY SequenceFacts DEF TypeOK, HeapOK
\* What covered a commit still covers it, whatever receipts are added.
<1>2. ASSUME NEW i \in DOMAIN commits, Keyed(i),
             \A k \in DOMAIN g_receipts : k \in DOMAIN g_receipts' /\ g_receipts'[k] = g_receipts[k]
      PROVE  /\ commits[i].key \in DOMAIN g_receipts'
             /\ LET verdict == g_receipts'[commits[i].key].outcome
                IN  verdict.outcome = "Applied" =>
                      mats'[verdict.successor].revision = commits[i].revision
  <2>1. commits[i].key \in DOMAIN g_receipts
    BY <1>2 DEF KeyInv, ReceiptCoversCommit, Keyed
  <2>2. g_receipts'[commits[i].key] = g_receipts[commits[i].key]
    BY <1>2, <2>1
  <2>3. g_receipts[commits[i].key].outcome.outcome = "Applied" =>
           g_receipts[commits[i].key].outcome.successor \in Handles
    BY <2>1 DEF TypeOK, HeapOK
  <2>. QED
    BY <1>2, <2>1, <2>2, <2>3, HeapIsImmutable DEF KeyInv, ReceiptCoversCommit, Keyed
<1>3. \A k \in DOMAIN g_receipts : k \in DOMAIN g_receipts' /\ g_receipts'[k] = g_receipts[k]
  BY ReceiptsGrow
<1>4. CASE commits' = commits
  BY <1>2, <1>3, <1>4 DEF KeyInv, KeyCommitsAtMostOnce, ReceiptCoversCommit, Keyed
<1>5. ASSUME NEW h \in Handles, NEW tx, NEW g, NEW bytes, NEW answer,
             Written(h, tx, g, bytes, answer), commits' # commits
      PROVE  KeyInv'
  <2> DEFINE c == [store |-> g_store, revision |-> answer.store.head,
                   key |-> tx.idempotencyKey, grant |-> g, answered |-> answer.kind # "Threw"]
  <2>1. /\ commits' = Append(commits, c)
        /\ c.key = tx.idempotencyKey /\ c.revision = answer.store.head
        /\ c.answered <=> answer.kind # "Threw"
    BY <1>5, LandedCommit
  <2>2. /\ DOMAIN commits' = 1..Len(commits) + 1
        /\ commits'[Len(commits) + 1] = c
        /\ \A i \in 1..Len(commits) : commits'[i] = commits[i] /\ Keyed(i)' = Keyed(i)
    BY <1>1, <2>1, AppendFacts DEF Keyed
  <2>3. \A i \in DOMAIN commits : Keyed(i) => commits[i].key # tx.idempotencyKey
    BY <1>5 DEF Written, HasReceipt, KeyInv, ReceiptCoversCommit, Keyed
  <2>4. KeyCommitsAtMostOnce'
    <3>1. ASSUME NEW i \in DOMAIN commits', NEW j \in DOMAIN commits',
                 Keyed(i)', Keyed(j)', commits'[i].key = commits'[j].key
          PROVE  i = j
      <4>1. CASE i \in 1..Len(commits) /\ j \in 1..Len(commits)
        BY <1>1, <2>2, <3>1, <4>1 DEF KeyInv, KeyCommitsAtMostOnce
      <4>2. CASE i = Len(commits) + 1 /\ j \in 1..Len(commits)
        BY <1>1, <2>1, <2>2, <2>3, <3>1, <4>2
      <4>3. CASE j = Len(commits) + 1 /\ i \in 1..Len(commits)
        BY <1>1, <2>1, <2>2, <2>3, <3>1, <4>3
      <4>. QED
        BY <1>1, <2>2, <4>1, <4>2, <4>3
    <3>. QED
      BY <3>1 DEF KeyCommitsAtMostOnce
  <2>5. ReceiptCoversCommit'
    <3>1. ASSUME NEW i \in DOMAIN commits', Keyed(i)'
          PROVE  /\ commits'[i].key \in DOMAIN g_receipts'
                 /\ LET verdict == g_receipts'[commits'[i].key].outcome
                    IN  verdict.outcome = "Applied" =>
                          mats'[verdict.successor].revision = commits'[i].revision
      <4>1. CASE i \in 1..Len(commits)
        BY <1>1, <1>2, <1>3, <2>2, <3>1, <4>1
      <4>2. CASE i = Len(commits) + 1
        <5>1. /\ commits'[i].key = tx.idempotencyKey /\ commits'[i].revision = answer.store.head
              /\ tx.idempotencyKey # "" /\ answer.kind # "Threw"
          BY <2>1, <2>2, <3>1, <4>2 DEF Keyed
        <5>2. /\ tx.idempotencyKey \in DOMAIN g_receipts'
              /\ g_receipts'[tx.idempotencyKey].outcome.outcome = "Applied" =>
                   mats'[g_receipts'[tx.idempotencyKey].outcome.successor].revision
                     = answer.store.head
          BY <1>5, <3>1, <5>1, LandedIsCovered
        <5>. QED
          BY <5>1, <5>2
      <4>. QED
        BY <2>2, <4>1, <4>2, <1>1
    <3>. QED
      BY <3>1 DEF ReceiptCoversCommit
  <2>. QED
    BY <2>4, <2>5 DEF KeyInv
<1>. QED
  BY <1>4, <1>5, CommitStep

LEMMA KeyInvariant == Spec => []KeyInv
<1>1. Init => KeyInv
  BY DEF Init, KeyInv, KeyCommitsAtMostOnce, ReceiptCoversCommit
<1>. QED
  BY <1>1, KeyInductive, TypeCorrect, PTL DEF Spec

\* DR-011: no idempotency key ever commits twice, to any of the stores.
THEOREM KeysCommitOnce == Spec => []KeyCommitsAtMostOnce
<1>1. KeyInv => KeyCommitsAtMostOnce
  BY DEF KeyInv
<1>. QED
  BY <1>1, KeyInvariant, PTL

\* A keyed commit that landed is never reported as anything but applied at its own
\* revision, or unknown.
THEOREM ReceiptsTellTheTruth == Spec => []ReceiptCoversCommit
<1>1. KeyInv => ReceiptCoversCommit
  BY DEF KeyInv
<1>. QED
  BY <1>1, KeyInvariant, PTL

---------------------------------------------------------------------------
(* Quarantine and lineage. *)

\* The heap a minting or replacing step leaves: one materialization more.
LEMMA HeapAppended ==
    ASSUME TypeOK, NEW m, mats' = Append(mats, m)
    PROVE  /\ Len(mats) \in Nat /\ Handles = 1..Len(mats) /\ Handles' = 1..Len(mats) + 1
           /\ mats'[Len(mats) + 1] = m
           /\ \A h \in Handles : mats'[h] = mats[h]
<1>1. IsSequence(mats) /\ Handles = 1..Len(mats) /\ Len(mats) \in Nat
  BY SequenceFacts DEF TypeOK, HeapOK, Handles
<1>. QED
  BY <1>1, AppendFacts DEF Handles

LEMMA RestoreInductive == TypeOK /\ RestoreIsNotAuthority /\ [Next]_vars => RestoreIsNotAuthority'
<1> SUFFICES ASSUME TypeOK, RestoreIsNotAuthority, [Next]_vars PROVE RestoreIsNotAuthority'
  OBVIOUS
<1>1. CASE mats' = mats
  BY <1>1 DEF RestoreIsNotAuthority, Handles
\* A fresh lineage has only the materialization just minted.
<1>2. ASSUME NEW m, Minted(m) PROVE RestoreIsNotAuthority'
  <2>1. /\ Len(mats) \in Nat /\ Handles = 1..Len(mats) /\ Handles' = 1..Len(mats) + 1
        /\ mats'[Len(mats) + 1] = m
        /\ \A h \in Handles : mats'[h] = mats[h]
    BY <1>2, HeapAppended DEF Minted
  <2>2. g_epoch \in Nat /\ \A h \in Handles : mats'[h].epoch # m.epoch
    <3>1. g_epoch \in Nat /\ \A h \in Handles : mats[h].epoch \in 1..g_epoch
      BY DEF TypeOK, HeapOK
    <3>2. m.epoch = g_epoch + 1
      BY <1>2 DEF Minted
    <3>3. \A h \in Handles : mats[h].epoch # m.epoch
      BY <3>1, <3>2
    <3>. QED
      BY <2>1, <3>1, <3>3
  <2>. QED
    BY <1>2, <2>1, <2>2 DEF Minted, RestoreIsNotAuthority
\* A copy is promoted exactly when what it takes over is.
<1>3. ASSUME NEW h \in Handles, NEW m, Replaced(h, m) PROVE RestoreIsNotAuthority'
  <2>1. /\ Len(mats) \in Nat /\ Handles = 1..Len(mats) /\ Handles' = 1..Len(mats) + 1
        /\ mats'[Len(mats) + 1] = m
        /\ \A k \in Handles : mats'[k] = mats[k]
    BY <1>3, HeapAppended DEF Replaced, Replace
  <2>2. m.epoch = mats[h].epoch /\ ((m.quarantine = "Promoted") <=> (mats[h].quarantine = "Promoted"))
    BY <1>3 DEF Replaced
  <2>3. m.quarantine # "Promoted" => m.revision = NoRevision
    BY <1>3 DEF Replaced, RestoreIsNotAuthority
  <2>4. \A k \in Handles : mats[k].epoch = m.epoch =>
           /\ (mats[k].quarantine = "Promoted") <=> (m.quarantine = "Promoted")
           /\ mats[k].quarantine # "Promoted" => mats[k].revision = NoRevision
    BY <2>2 DEF RestoreIsNotAuthority
  <2>. QED
    BY <2>1, <2>3, <2>4 DEF RestoreIsNotAuthority
<1>. QED
  BY <1>1, <1>2, <1>3, HeapStep

\* Whatever is done with restored artifacts, copies and identity ports, no lineage
\* that starts isolated ever reaches authority or a storage identity.
THEOREM RestoreStaysWithoutAuthority == Spec => []RestoreIsNotAuthority
<1>1. Init => RestoreIsNotAuthority
  BY DEF Init, RestoreIsNotAuthority, Handles
<1>. QED
  BY <1>1, RestoreInductive, TypeCorrect, PTL DEF Spec

LEMMA RemovalFacts ==
    ASSUME NEW S, NEW s \in Seq(S), NEW i \in DOMAIN s
    PROVE  /\ DOMAIN RemoveAt(s, i) = 1..Len(s) - 1
           /\ \A j \in 1..Len(s) - 1 : RemoveAt(s, i)[j] = IF j < i THEN s[j] ELSE s[j + 1]
<1> DEFINE front == SubSeq(s, 1, i - 1)
           back == SubSeq(s, i + 1, Len(s))
<1>1. i \in 1..Len(s) /\ Len(s) \in Nat
  OBVIOUS
<1>2. /\ front \in Seq(S) /\ Len(front) = i - 1
      /\ \A j \in 1..i - 1 : front[j] = s[j]
  BY <1>1, SubSeqProperties
<1>3. /\ back \in Seq(S) /\ Len(back) = Len(s) - i
      /\ \A j \in 1..Len(s) - i : back[j] = s[i + j]
  BY <1>1, SubSeqProperties
<1> HIDE DEF front, back
<1>4. /\ front \o back \in Seq(S) /\ Len(front \o back) = Len(s) - 1
      /\ \A j \in 1..Len(s) - 1 :
            (front \o back)[j] = IF j <= i - 1 THEN front[j] ELSE back[j - (i - 1)]
  BY <1>1, <1>2, <1>3, SMTT(30)
<1>5. ASSUME NEW j \in 1..Len(s) - 1
      PROVE  (front \o back)[j] = IF j < i THEN s[j] ELSE s[j + 1]
  <2>1. CASE j < i
    BY <1>1, <1>2, <1>4, <2>1
  <2>2. CASE ~(j < i)
    <3>1. j - (i - 1) \in 1..Len(s) - i /\ i + (j - (i - 1)) = j + 1
      BY <1>1, <2>2
    <3>2. back[j - (i - 1)] = s[j + 1]
      BY <1>3, <3>1
    <3>3. ~(j <= i - 1)
      BY <1>1, <2>2
    <3>4. (front \o back)[j] = back[j - (i - 1)]
      BY <1>4, <3>3
    <3>. QED
      BY <2>2, <3>2, <3>4
  <2>. QED
    BY <2>1, <2>2
<1>6. RemoveAt(s, i) = front \o back
  BY DEF RemoveAt, front, back
<1>. QED
  BY <1>1, <1>4, <1>5, <1>6

LEMMA LineageInductive == TypeOK /\ OneLiveEntryPerLineage /\ [Next]_vars => OneLiveEntryPerLineage'
<1> SUFFICES ASSUME TypeOK, OneLiveEntryPerLineage, [Next]_vars PROVE OneLiveEntryPerLineage'
  OBVIOUS
<1> DEFINE E(i) == mats[g_live[i]].epoch
<1>1. /\ g_live \in Seq(Handles) /\ Len(g_live) \in Nat /\ DOMAIN g_live = 1..Len(g_live)
      /\ \A i \in 1..Len(g_live) : g_live[i] \in Handles
  BY DEF TypeOK, HeapOK
<1>2. CASE UNCHANGED <<mats, g_live>>
  BY <1>2 DEF OneLiveEntryPerLineage
\* The new entry's epoch is above every epoch drawn before.
<1>3. ASSUME NEW m, Minted(m) PROVE OneLiveEntryPerLineage'
  <2>1. /\ Len(mats) \in Nat /\ Handles = 1..Len(mats)
        /\ mats'[Len(mats) + 1] = m
        /\ \A h \in Handles : mats'[h] = mats[h]
    BY <1>3, HeapAppended DEF Minted
  <2>2. /\ DOMAIN g_live' = 1..Len(g_live) + 1
        /\ g_live'[Len(g_live) + 1] = Len(mats) + 1
        /\ \A i \in 1..Len(g_live) : g_live'[i] = g_live[i]
    <3>1. g_live' = Append(g_live, Len(mats) + 1)
      BY <1>3 DEF Minted
    <3>2. g_live \in Seq(Handles \cup {Len(mats) + 1}) /\ Len(mats) + 1 \in Handles \cup {Len(mats) + 1}
      BY <1>1
    <3>. QED
      BY <3>1, <3>2
  <2>3. \A h \in Handles : mats[h].epoch # m.epoch
    BY <1>3 DEF Minted, TypeOK, HeapOK
  <2>4. \A i \in 1..Len(g_live) : mats'[g_live'[i]].epoch = E(i) /\ E(i) # m.epoch
    BY <1>1, <2>1, <2>2, <2>3
  <2>5. mats'[g_live'[Len(g_live) + 1]].epoch = m.epoch
    BY <2>1, <2>2
  <2>6. \A i, j \in 1..Len(g_live) : E(i) = E(j) => i = j
    BY <1>1 DEF OneLiveEntryPerLineage
  <2> HIDE DEF E
  <2>7. ASSUME NEW i \in 1..Len(g_live) + 1, NEW j \in 1..Len(g_live) + 1,
               mats'[g_live'[i]].epoch = mats'[g_live'[j]].epoch
        PROVE  i = j
    BY <1>1, <2>4, <2>5, <2>6, <2>7
  <2>. QED
    BY <2>2, <2>7 DEF OneLiveEntryPerLineage
\* The entry that takes over keeps its place and its epoch.
<1>4. ASSUME NEW h \in Handles, NEW m, Replaced(h, m) PROVE OneLiveEntryPerLineage'
  <2>1. /\ Len(mats) \in Nat /\ Handles = 1..Len(mats)
        /\ mats'[Len(mats) + 1] = m
        /\ \A k \in Handles : mats'[k] = mats[k]
    BY <1>4, HeapAppended DEF Replaced, Replace
  <2>2. g_live' = [i \in 1..Len(g_live) |-> IF g_live[i] = h THEN Len(mats) + 1 ELSE g_live[i]]
    BY <1>4 DEF Replaced, Replace, ReplaceAll
  <2>3. m.epoch = mats[h].epoch
    BY <1>4 DEF Replaced
  <2>4. DOMAIN g_live' = 1..Len(g_live) /\ \A i \in 1..Len(g_live) : mats'[g_live'[i]].epoch = E(i)
    BY <1>1, <2>1, <2>2, <2>3
  <2>. QED
    BY <1>1, <2>4 DEF OneLiveEntryPerLineage
<1>5. ASSUME NEW i \in DOMAIN g_live, g_live' = RemoveAt(g_live, i), UNCHANGED mats
      PROVE  OneLiveEntryPerLineage'
  <2>1. /\ DOMAIN g_live' = 1..Len(g_live) - 1
        /\ \A j \in 1..Len(g_live) - 1 : g_live'[j] = IF j < i THEN g_live[j] ELSE g_live[j + 1]
    BY <1>1, <1>5, RemovalFacts
  <2>2. ASSUME NEW j \in DOMAIN g_live', NEW k \in DOMAIN g_live',
               mats'[g_live'[j]].epoch = mats'[g_live'[k]].epoch
        PROVE  j = k
    <3> DEFINE at(n) == IF n < i THEN n ELSE n + 1
    <3>1. /\ at(j) \in DOMAIN g_live /\ at(k) \in DOMAIN g_live
          /\ g_live'[j] = g_live[at(j)] /\ g_live'[k] = g_live[at(k)]
      BY <1>1, <2>1
    <3>2. at(j) = at(k)
      BY <1>5, <2>2, <3>1 DEF OneLiveEntryPerLineage
    <3>. QED
      BY <1>1, <2>1, <3>2
  <2>. QED
    BY <2>2 DEF OneLiveEntryPerLineage
<1>. QED
  BY <1>2, <1>3, <1>4, <1>5, HeapStep

\* Two live entries never carry the same fencing epoch, for any number of sources,
\* commits, quarantine steps and retirements.
THEOREM OneEntryPerLineage == Spec => []OneLiveEntryPerLineage
<1>1. Init => OneLiveEntryPerLineage
  BY DEF Init, OneLiveEntryPerLineage
<1>. QED
  BY <1>1, LineageInductive, TypeCorrect, PTL DEF Spec

---------------------------------------------------------------------------
(* The stores. *)

\* An empty store is committed to on no base: a write needs a head to have one.
AppendedTo(s) ==
    \E base, bytes :
       /\ stores' = [stores EXCEPT ![s] = Appended(stores[s], base, bytes).store]
       /\ \/ base = stores[s].head
          \/ stores[s].revisions = <<>> /\ (base = NoRevision \/ stores[s].head # NoRevision)

LEMMA SwapAppends ==
    ASSUME TypeOK, NEW s \in StoreIds, NEW base, NEW bytes,
           NEW answer \in StoreAnswers(stores[s], base, bytes, StoreLosses),
           stores' = [stores EXCEPT ![s] = answer.store],
           base = stores[s].head \/ base = NoRevision \/ stores[s].head # NoRevision
    PROVE  stores' = stores \/ AppendedTo(s)
<1>1. CASE answer.store = stores[s]
  <2>1. stores \in [StoreIds -> Range(stores)]
    BY DEF TypeOK, StoresOK
  <2>. QED
    BY <1>1, <2>1
<1>2. CASE answer.store # stores[s]
  <2>1. /\ answer.store = Appended(stores[s], base, bytes).store
        /\ base = stores[s].head \/ stores[s].revisions = <<>>
    BY <1>2, AnswerAppends
  <2>. QED
    BY <2>1 DEF AppendedTo
<1>. QED
  BY <1>1, <1>2

\* A store only ever grows by one revision, on its head.
LEMMA StoreStep ==
    ASSUME TypeOK, [Next]_vars
    PROVE  stores' = stores \/ \E s \in StoreIds : AppendedTo(s)
<1> DEFINE Grown == stores' = stores \/ \E s \in StoreIds : AppendedTo(s)
           genesis == serializeImpl(makeGenesis)
<1>1. CASE UNCHANGED vars
  BY <1>1 DEF vars, serviceState
<1>2. ASSUME NEW s, NEW port, NEW a,
             attachStore(s) \/ attach_identity_verifier(port) \/ create_from_artifact(a)
      PROVE  Grown
  BY <1>2 DEF attachStore, attach_identity_verifier, create_from_artifact
<1>3. ASSUME NEW r, create_canonical(r) PROVE Grown
  <2>1. g_store \in StoreIds
    BY <1>3 DEF create_canonical, TypeOK, LeaseOK
  <2>2. CASE stores' = stores
    BY <2>2
  <2>3. ASSUME NEW answer \in StoreAnswers(stores[g_store], NoRevision, genesis, StoreLosses),
               stores' = [stores EXCEPT ![g_store] = answer.store]
        PROVE  Grown
    <3>1. stores' = stores \/ AppendedTo(g_store)
      BY <2>1, <2>3, SwapAppends, Zenon
    <3>. QED  BY <2>1, <3>1, Zenon
  <2>. QED
    BY <1>3, <2>2, <2>3, Zenon DEF create_canonical
<1>4. ASSUME create_canonical_raced PROVE Grown
  <2>1. g_store \in StoreIds /\ stores[g_store] = EmptyStore
    BY <1>4 DEF create_canonical_raced, TypeOK, LeaseOK
  <2>2. stores' = [stores EXCEPT ![g_store] = compareAndSwap(stores[g_store], NoRevision, genesis).store]
    BY <1>4, <2>1 DEF create_canonical_raced
  <2>. QED
    BY <2>1, <2>2, SwapAppends, SwapIsAnAnswer, ZenonT(30)
<1>5. ASSUME NEW h, NEW actor, NEW mode, NEW g,
             \/ retire_cognition(h) \/ verify_restored(h, actor) \/ promote_authority(h, actor)
             \/ acquire_grant(actor, mode) \/ release_grant(g)
      PROVE  Grown
  BY <1>5 DEF retire_cognition, verify_restored, promote_authority, QuarantineStep,
              acquire_grant, release_grant
<1>6. ASSUME NEW h \in Handles, NEW tx, NEW g, write_to_cognition(h, tx, g) PROVE Grown
  <2>1. CASE stores' = stores
    BY <2>1
  <2>2. CASE /\ g_store \in StoreIds /\ stores[g_store].head # NoRevision
             /\ \E bytes : \E answer \in StoreAnswers(stores[g_store], mats[h].revision, bytes, StoreLosses) :
                   WriteAnswered(h, tx, g, bytes, answer)
    <3>1. PICK bytes : \E answer \in StoreAnswers(stores[g_store], mats[h].revision, bytes, StoreLosses) :
                          WriteAnswered(h, tx, g, bytes, answer)
      BY <2>2
    <3>2. PICK answer \in StoreAnswers(stores[g_store], mats[h].revision, bytes, StoreLosses) :
                  WriteAnswered(h, tx, g, bytes, answer)
      BY <3>1
    <3>3. stores' = [stores EXCEPT ![g_store] = answer.store]
      BY <3>2 DEF WriteAnswered
    <3>. QED
      BY <2>2, <3>2, <3>3, SwapAppends
  <2>. QED
    BY <1>6, <2>1, <2>2, WriteShape
<1>7. ASSUME NEW s \in StoreIds, ForeignGenesis(s) PROVE Grown
  BY <1>7, SwapAppends, SwapIsAnAnswer, ZenonT(30) DEF ForeignGenesis, ForeignChange
<1>8. ASSUME NEW s \in StoreIds, NEW request, NEW actor, ForeignCommit(s, request, actor) PROVE Grown
  BY <1>8, SwapAppends, SwapIsAnAnswer, ZenonT(30) DEF ForeignCommit, ForeignChange
<1>. QED
  BY <1>1, <1>2, <1>3, <1>4, <1>5, <1>6, <1>7, <1>8 DEF Next

\* A revision on the head keeps a store a chain: were its id an earlier one, so
\* would be the ids before the two, down to the first, whose base is no revision.
LEMMA ChainGrows ==
    ASSUME NEW store, IsSequence(store.revisions), IsChain(store), NEW bytes
    PROVE  IsChain(Appended(store, store.head, bytes).store)
<1> DEFINE r == [id |-> Mint(store.head, bytes), bytes |-> bytes]
           old == store.revisions
           n == Len(old)
           new == Append(old, r)
           grown == Appended(store, store.head, bytes).store
<1>1. /\ n \in Nat /\ DOMAIN old = 1..n /\ DOMAIN new = 1..n + 1 /\ Len(new) = n + 1
      /\ new[n + 1] = r /\ \A i \in 1..n : new[i] = old[i]
  BY SequenceFacts, AppendFacts
<1>2. grown.revisions = new /\ grown.head = r.id
  BY DEF Appended, CommittedAs
<1>3. /\ \A i \in 1..n : old[i].id = Mint(idBefore(store, i), old[i].bytes)
      /\ store.head = idBefore(store, n + 1)
      /\ \A i, j \in 1..n : old[i].id = old[j].id => i = j
  BY <1>1 DEF IsChain
<1>4. \A i \in 1..n + 1 : idBefore(grown, i) = idBefore(store, i)
  BY <1>1, <1>2 DEF idBefore
<1>5. idBefore(grown, n + 2) = r.id
  BY <1>1, <1>2 DEF idBefore
<1>6. \A i \in 1..n + 1 : new[i].id = Mint(idBefore(grown, i), new[i].bytes)
  BY <1>1, <1>3, <1>4
<1>7. ASSUME NEW i \in 1..n PROVE old[i].id # r.id
  <2>1. SUFFICES ASSUME old[i].id = r.id PROVE FALSE
    OBVIOUS
  <2>2. idBefore(store, i) = idBefore(store, n + 1)
    BY <1>3, <2>1 DEF Mint
  <2>3. n > 0 /\ idBefore(store, n + 1) = old[n].id
    BY <1>1 DEF idBefore
  <2>4. CASE i = 1
    <3>1. old[n].id = NoRevision
      BY <2>2, <2>3, <2>4 DEF idBefore
    <3>2. old[n].id = Mint(idBefore(store, n), old[n].bytes)
      BY <1>1, <1>3, <2>3
    <3>. QED
      BY <3>1, <3>2 DEF Mint, NoRevision
  <2>5. CASE i # 1
    <3>1. old[i - 1].id = old[n].id
      BY <2>2, <2>3, <2>5 DEF idBefore
    <3>. QED
      BY <1>1, <1>3, <2>3, <2>5, <3>1
  <2>. QED
    BY <2>4, <2>5
<1>8. \A i, j \in 1..n + 1 : new[i].id = new[j].id => i = j
  BY <1>1, <1>3, <1>7
<1>9. DOMAIN grown.revisions = 1..n + 1 /\ Len(grown.revisions) + 1 = n + 2
  BY <1>1, <1>2
<1>10. /\ \A i \in DOMAIN grown.revisions :
            grown.revisions[i].id = Mint(idBefore(grown, i), grown.revisions[i].bytes)
       /\ \A i, j \in DOMAIN grown.revisions :
            grown.revisions[i].id = grown.revisions[j].id => i = j
  BY <1>2, <1>6, <1>8, <1>9
<1>11. grown.head = idBefore(grown, Len(grown.revisions) + 1)
  BY <1>2, <1>5, <1>9
<1> HIDE DEF grown
<1>12. IsChain(grown)
  BY <1>10, <1>11 DEF IsChain
<1>. QED
  BY <1>12 DEF grown

LEMMA ChainsInductive == TypeOK /\ StoresAreChains /\ [Next]_vars => StoresAreChains'
<1> SUFFICES ASSUME TypeOK, StoresAreChains, [Next]_vars PROVE StoresAreChains'
  OBVIOUS
<1>1. CASE stores' = stores
  BY <1>1 DEF StoresAreChains, IsChain, idBefore
<1>2. ASSUME NEW s \in StoreIds, AppendedTo(s) PROVE StoresAreChains'
  <2>1. PICK base, bytes :
           /\ stores' = [stores EXCEPT ![s] = Appended(stores[s], base, bytes).store]
           /\ \/ base = stores[s].head
              \/ stores[s].revisions = <<>> /\ (base = NoRevision \/ stores[s].head # NoRevision)
    BY <1>2 DEF AppendedTo
  <2>2. IsChain(stores[s]) /\ IsSequence(stores[s].revisions)
    BY DEF StoresAreChains, TypeOK, StoresOK
  <2>3. base = stores[s].head
    <3>1. stores[s].revisions = <<>> => stores[s].head = NoRevision
      BY <2>2 DEF IsChain, idBefore
    <3>. QED
      BY <2>1, <3>1
  <2>4. IsChain(Appended(stores[s], stores[s].head, bytes).store)
    BY <2>2, ChainGrows
  <2>5. \A t \in StoreIds : IsChain(stores'[t])
    <3>1. stores \in [StoreIds -> Range(stores)]
      BY DEF TypeOK, StoresOK
    <3>. QED
      BY <2>1, <2>3, <2>4, <3>1 DEF StoresAreChains
  <2>. QED
    BY <2>5 DEF StoresAreChains
<1>. QED
  BY <1>1, <1>2, StoreStep

\* Every store the service and other processes write is one linear chain: no
\* fork, no lost update, no revision id used twice.
THEOREM StoresStayChains == Spec => []StoresAreChains
<1>1. Init => StoresAreChains
  BY DEF Init, StoresAreChains, IsChain, EmptyStore, idBefore
<1>. QED
  BY <1>1, ChainsInductive, TypeCorrect, PTL DEF Spec

---------------------------------------------------------------------------
(* Durability: what the process shows of a promoted materialization is     *)
(* what a restart would read back.  The stored bytes are canonical:        *)
(* reading and writing them again changes nothing, although a tree is not  *)
(* what it is read back as.  Whatever is minted as promoted is tied to     *)
(* bytes some store holds, and stores lose nothing they hold.              *)

IsCanonical(bytes) == serializeImpl(deserializeImpl(bytes)).body = bytes.body

\* The field that is not written comes back with a default; dropping it again
\* gives what was written.
LEMMA FieldDropped ==
    ASSUME NEW record, NEW value, NEW field
    PROVE  WithoutField(WithField(WithoutField(record, field), field, value), field)
             = WithoutField(record, field)
<1> DEFINE bare == WithoutField(record, field)
           full == WithField(bare, field, value)
<1>1. bare = [f \in DOMAIN record \ {field} |-> record[f]]
  BY DEF WithoutField
<1>2. DOMAIN bare = DOMAIN record \ {field}
  BY <1>1
<1>3. DOMAIN full \ {field} = DOMAIN bare /\ \A f \in DOMAIN bare : full[f] = bare[f]
  BY <1>2 DEF WithField
<1>4. WithoutField(full, field) = [f \in DOMAIN bare |-> bare[f]]
  BY <1>3 DEF WithoutField
<1>5. [f \in DOMAIN bare |-> bare[f]] = bare
  BY <1>1, <1>2
<1>. QED
  BY <1>4, <1>5

\* What the writer writes is canonical, whatever the tree.
LEMMA WrittenIsCanonical ==
    ASSUME NEW tree
    PROVE  IsCanonical(serializeImpl(tree))
<1> DEFINE bare(records) == [i \in DOMAIN records |-> WithoutField(records[i], "epistemic")]
           full(records) == [i \in DOMAIN records |-> WithField(records[i], "epistemic", "Observation")]
           body == serializeImpl(tree).body
           back == deserializeImpl(serializeImpl(tree))
<1>1. body = [tree EXCEPT !.memory = bare(tree.memory)]
  BY DEF serializeImpl
<1>2. back = [body EXCEPT !.memory = full(body.memory)]
  BY DEF deserializeImpl
<1>3. serializeImpl(back).body = [back EXCEPT !.memory = bare(back.memory)]
  BY DEF serializeImpl
<1>4. bare(full(bare(tree.memory))) = bare(tree.memory)
  <2>1. \A i \in DOMAIN tree.memory : bare(full(bare(tree.memory)))[i] = bare(tree.memory)[i]
    BY FieldDropped
  <2>. QED
    BY <2>1
<1> HIDE DEF bare, full, body, back
<1>5. CASE "memory" \in DOMAIN tree
  <2>1. body.memory = bare(tree.memory)
    BY <1>1, <1>5
  <2>2. DOMAIN body = DOMAIN tree /\ DOMAIN back = DOMAIN tree
    BY <1>1, <1>2
  <2>3. back.memory = full(body.memory)
    BY <1>2, <1>5, <2>2
  <2>4. bare(back.memory) = body.memory
    BY <1>4, <2>1, <2>3
  <2>5. [back EXCEPT !.memory = body.memory] = body
    BY <1>1, <1>2, <2>2
  <2>. QED
    BY <1>3, <2>4, <2>5 DEF IsCanonical, body, back
<1>6. CASE "memory" \notin DOMAIN tree
  <2>1. /\ body = [x \in DOMAIN tree |-> tree[x]] /\ back = [x \in DOMAIN body |-> body[x]]
        /\ serializeImpl(back).body = [x \in DOMAIN back |-> back[x]]
    BY <1>1, <1>2, <1>3, <1>6
  <2>. QED
    BY <2>1 DEF IsCanonical, body, back
<1>. QED
  BY <1>5, <1>6

---------------------------------------------------------------------------
(* The stores. *)

Holds(store, revision, bytes) ==
    \E i \in DOMAIN store.revisions :
       store.revisions[i].id = revision /\ store.revisions[i].bytes = bytes

\* By at most one revision, of canonical bytes.
GrownInto(old, new) ==
    \/ new = old
    \/ \E r : new.revisions = Append(old.revisions, r) /\ IsCanonical(r.bytes)

LEMMA AnswerGrows ==
    ASSUME NEW store, NEW base, NEW bytes, NEW answer \in StoreAnswers(store, base, bytes, StoreLosses),
           IsCanonical(bytes)
    PROVE  GrownInto(store, answer.store)
<1> DEFINE r == [id |-> Mint(base, bytes), bytes |-> bytes]
<1>1. CASE answer.store = store
  BY <1>1 DEF GrownInto
<1>2. CASE answer.store # store
  <2>1. answer.store = Appended(store, base, bytes).store
    BY <1>2, AnswerAppends
  <2>2. answer.store.revisions = Append(store.revisions, r)
    BY <2>1 DEF Appended, CommittedAs
  <2>3. r.bytes = bytes
    OBVIOUS
  <2>. QED
    BY <2>2, <2>3 DEF GrownInto
<1>. QED
  BY <1>1, <1>2

\* In a chain a revision is found by its id.
LEMMA HeldIsMaterialized ==
    ASSUME NEW store, IsChain(store), NEW revision, NEW bytes, Holds(store, revision, bytes)
    PROVE  materialize(store, revision) = <<bytes>>
<1>1. PICK i \in DOMAIN store.revisions :
         store.revisions[i].id = revision /\ store.revisions[i].bytes = bytes
  BY DEF Holds
<1>2. \A j \in DOMAIN store.revisions : store.revisions[j].id = revision => j = i
  BY <1>1 DEF IsChain
<1>3. (CHOOSE j \in DOMAIN store.revisions : store.revisions[j].id = revision) = i
  BY <1>1, <1>2
<1>. QED
  BY <1>1, <1>3 DEF materialize, verify

LEMMA MaterializedIsHeld ==
    ASSUME NEW store, NEW revision, materialize(store, revision) # <<>>
    PROVE  Holds(store, revision, materialize(store, revision)[1])
<1> DEFINE i == CHOOSE j \in DOMAIN store.revisions : store.revisions[j].id = revision
<1>1. verify(store, revision)
  BY DEF materialize
<1>2. i \in DOMAIN store.revisions /\ store.revisions[i].id = revision
  BY <1>1 DEF verify
<1>3. materialize(store, revision)[1] = store.revisions[i].bytes
  BY <1>1 DEF materialize
<1> HIDE DEF i
<1>. QED
  BY <1>2, <1>3 DEF Holds

\* What is reported as committed is held under the revision reported, also when
\* the bytes were at the head already.
LEMMA CommittedIsHeld ==
    ASSUME NEW store, IsSequence(store.revisions), IsChain(store), NEW base, NEW bytes,
           NEW answer \in StoreAnswers(store, base, bytes, StoreLosses), answer.kind = "Committed"
    PROVE  Holds(answer.store, answer.revision, bytes)
<1> DEFINE r == [id |-> Mint(base, bytes), bytes |-> bytes]
           n == Len(store.revisions)
<1>1. n \in Nat /\ DOMAIN store.revisions = 1..n
  BY SequenceFacts
<1>2. answer = compareAndSwap(store, base, bytes)
  BY AnswerFacts
<1>3. CASE answer = Appended(store, base, bytes)
  <2>1. answer.store.revisions = Append(store.revisions, r) /\ answer.revision = r.id
    BY <1>3 DEF Appended, CommittedAs
  <2>2. n + 1 \in DOMAIN Append(store.revisions, r) /\ Append(store.revisions, r)[n + 1] = r
    BY <1>1, AppendFacts
  <2>3. r.bytes = bytes
    OBVIOUS
  <2>. QED
    BY <2>1, <2>2, <2>3 DEF Holds
<1>4. CASE /\ store.revisions # <<>> /\ HeadBytes(store) = bytes
           /\ answer = CommittedAs(store, store.head)
  <2>1. answer.store = store /\ answer.revision = store.head
    BY <1>4 DEF CommittedAs
  <2>2. n > 0
    BY <1>1, <1>4 DEF IsSequence
  <2>3. store.head = store.revisions[n].id
    BY <1>1, <2>2 DEF IsChain, idBefore
  <2>. QED
    BY <1>1, <1>4, <2>1, <2>2, <2>3 DEF Holds, HeadBytes
<1>. QED
  BY <1>2, <1>3, <1>4 DEF compareAndSwap

LEMMA HeldIsKept ==
    ASSUME NEW old, NEW new, IsSequence(old.revisions), GrownInto(old, new),
           NEW revision, NEW bytes, Holds(old, revision, bytes)
    PROVE  Holds(new, revision, bytes)
<1>1. CASE new = old
  BY <1>1
<1>2. ASSUME NEW r, new.revisions = Append(old.revisions, r) PROVE Holds(new, revision, bytes)
  <2>1. /\ DOMAIN old.revisions = 1..Len(old.revisions) /\ Len(old.revisions) \in Nat
        /\ DOMAIN new.revisions = 1..Len(old.revisions) + 1
        /\ \A i \in 1..Len(old.revisions) : new.revisions[i] = old.revisions[i]
    BY <1>2, SequenceFacts, AppendFacts
  <2>. QED
    BY <2>1 DEF Holds
<1>. QED
  BY <1>1, <1>2 DEF GrownInto

---------------------------------------------------------------------------
(* What a step mints and stores. *)

\* A promoted materialization with a storage identity shows what is held under it.
Backed(m, contents) ==
    m.quarantine = "Promoted" /\ m.revision # NoRevision =>
       \E s \in StoreIds : \E bytes :
          /\ Holds(contents[s], m.revision, bytes)
          /\ serializeImpl(m.state).body = bytes.body
          /\ m.digest = draft_snapshot_digest(bytes)

StoredAreCanonical ==
    \A s \in StoreIds : \A i \in DOMAIN stores[s].revisions :
       IsCanonical(stores[s].revisions[i].bytes)

DurabilityInv == StoredAreCanonical /\ \A h \in Handles : Backed(mats[h], stores)

StoresGrow == \A s \in StoreIds : GrownInto(stores[s], stores'[s])

HeapBacked == mats' = mats \/ \E m : mats' = Append(mats, m) /\ Backed(m, stores')

LEMMA OneStoreGrows ==
    ASSUME TypeOK, NEW s \in StoreIds, NEW store, GrownInto(stores[s], store),
           stores' = [stores EXCEPT ![s] = store]
    PROVE  StoresGrow /\ stores'[s] = store
<1>1. stores'[s] = store /\ \A t \in StoreIds : t # s => stores'[t] = stores[t]
  BY DEF TypeOK, StoresOK
<1>. QED
  BY <1>1 DEF StoresGrow, GrownInto

\* A tree read from canonical bytes is backed wherever they are held.
LEMMA ReadIsBacked ==
    ASSUME NEW call, NEW bytes, NEW revision, NEW quarantine,
           Materialize(call, bytes, revision, quarantine), IsCanonical(bytes),
           quarantine = "Promoted" /\ revision # NoRevision =>
              \E s \in StoreIds : Holds(stores'[s], revision, bytes)
    PROVE  HeapBacked
<1> DEFINE m == [state |-> deserializeImpl(bytes), digest |-> draft_snapshot_digest(bytes),
                 revision |-> revision, epoch |-> g_epoch + 1, quarantine |-> quarantine]
<1>1. mats' = mats \/ mats' = Append(mats, m)
  BY DEF Materialize
<1>2. Backed(m, stores')
  BY DEF Backed, IsCanonical
<1>. QED
  BY <1>1, <1>2 DEF HeapBacked

\* An artifact is read without authority, whatever its bytes.
LEMMA IsolatedIsBacked ==
    ASSUME NEW call, NEW bytes, NEW revision, Materialize(call, bytes, revision, "Isolated")
    PROVE  HeapBacked
<1> DEFINE m == [state |-> deserializeImpl(bytes), digest |-> draft_snapshot_digest(bytes),
                 revision |-> revision, epoch |-> g_epoch + 1, quarantine |-> "Isolated"]
<1>1. mats' = mats \/ mats' = Append(mats, m)
  BY DEF Materialize
<1>2. Backed(m, stores')
  BY DEF Backed
<1>. QED
  BY <1>1, <1>2 DEF HeapBacked

LEMMA BootIsBacked ==
    ASSUME TypeOK, StoresAreChains, DurabilityInv, NEW revision, create_canonical(revision)
    PROVE  StoresGrow /\ HeapBacked
<1> DEFINE store == stores[g_store]
           id == IF revision = NoRevision THEN store.head ELSE revision
           found == materialize(store, id)
           bytes == serializeImpl(makeGenesis)
           answers == StoreAnswers(store, NoRevision, bytes, StoreLosses)
<1>1. /\ g_store \in StoreIds /\ IsSequence(store.revisions) /\ IsChain(store)
      /\ stores \in [StoreIds -> Range(stores)]
  BY DEF create_canonical, TypeOK, LeaseOK, StoresOK, StoresAreChains
<1>2. \/ found # <<>> /\ Materialize("create", found[1], id, "Promoted") /\ stores' = stores
      \/ UNCHANGED <<mats, stores>>
      \/ \E answer \in answers :
            /\ stores' = [stores EXCEPT ![g_store] = answer.store]
            /\ mats' = mats \/ Materialize("create", bytes, answer.revision, "Promoted")
  BY DEF create_canonical
<1> HIDE DEF store, id, found, bytes, answers
<1>3. CASE found # <<>> /\ Materialize("create", found[1], id, "Promoted") /\ stores' = stores
  <2>1. Holds(store, id, found[1])
    BY <1>3, MaterializedIsHeld DEF found
  <2>2. IsCanonical(found[1])
    BY <1>1, <2>1 DEF Holds, DurabilityInv, StoredAreCanonical, store
  <2>3. \E s \in StoreIds : Holds(stores'[s], id, found[1])
    BY <1>1, <1>3, <2>1 DEF store
  <2>4. HeapBacked
    BY <1>3, <2>2, <2>3, ReadIsBacked
  <2>. QED
    BY <1>3, <2>4 DEF StoresGrow, GrownInto
<1>4. CASE UNCHANGED <<mats, stores>>
  BY <1>4 DEF StoresGrow, GrownInto, HeapBacked
<1>5. ASSUME NEW answer \in answers,
             stores' = [stores EXCEPT ![g_store] = answer.store],
             mats' = mats \/ Materialize("create", bytes, answer.revision, "Promoted")
      PROVE  StoresGrow /\ HeapBacked
  <2>1. answer \in StoreAnswers(store, NoRevision, bytes, StoreLosses)
    BY <1>5 DEF answers
  <2>2. IsCanonical(bytes)
    BY WrittenIsCanonical DEF bytes
  <2>3. GrownInto(store, answer.store)
    BY <2>1, <2>2, AnswerGrows
  <2>4. StoresGrow /\ stores'[g_store] = answer.store
    BY <1>1, <1>5, <2>3, OneStoreGrows DEF store
  <2>5. answer.revision # NoRevision => answer.kind = "Committed"
    <3>1. CASE answer = compareAndSwap(store, NoRevision, bytes)
      BY <3>1 DEF compareAndSwap, Appended, CommittedAs
    <3>2. CASE answer.revision = NoRevision
      BY <3>2
    <3>. QED
      BY <2>1, <3>1, <3>2, AnswerFacts
  <2>6. answer.revision # NoRevision => Holds(stores'[g_store], answer.revision, bytes)
    BY <1>1, <2>1, <2>4, <2>5, CommittedIsHeld
  <2>7. HeapBacked
    <3>1. CASE mats' = mats
      BY <3>1 DEF HeapBacked
    <3>2. CASE Materialize("create", bytes, answer.revision, "Promoted")
      BY <1>1, <2>2, <2>6, <3>2, ReadIsBacked
    <3>. QED
      BY <1>5, <3>1, <3>2
  <2>. QED
    BY <2>4, <2>7
<1>. QED
  BY <1>2, <1>3, <1>4, <1>5

\* A lost race leaves no storage identity, so nothing has to back it.
LEMMA RaceIsBacked ==
    ASSUME TypeOK, StoresAreChains, create_canonical_raced
    PROVE  StoresGrow /\ HeapBacked
<1> DEFINE bytes == serializeImpl(makeGenesis)
           raced == compareAndSwap(EmptyStore, NoRevision, bytes).store
           late == compareAndSwap(raced, NoRevision, bytes)
<1>1. /\ g_store \in StoreIds /\ stores[g_store] = EmptyStore
      /\ stores' = [stores EXCEPT ![g_store] = raced]
      /\ Materialize("create", bytes, late.revision, "Promoted")
  BY DEF create_canonical_raced, TypeOK, LeaseOK
<1>2. raced = [revisions |-> <<[id |-> Mint(NoRevision, bytes), bytes |-> bytes]>>,
               head |-> Mint(NoRevision, bytes)]
  BY DEF compareAndSwap, EmptyStore, Appended, CommittedAs
<1>3. late.revision = NoRevision
  <2>1. raced.revisions # <<>> /\ raced.head # NoRevision
    BY <1>2 DEF Mint, NoRevision
  <2> HIDE DEF raced
  <2>. QED
    BY <2>1 DEF compareAndSwap
<1>4. IsCanonical(bytes)
  BY WrittenIsCanonical
<1>5. GrownInto(stores[g_store], raced)
  <2>1. compareAndSwap(EmptyStore, NoRevision, bytes) \in StoreAnswers(EmptyStore, NoRevision, bytes, StoreLosses)
    BY SwapIsAnAnswer
  <2>. QED
    BY <1>1, <1>4, <2>1, AnswerGrows
<1> HIDE DEF bytes, raced, late
<1>. QED
  BY <1>1, <1>3, <1>4, <1>5, OneStoreGrows, ReadIsBacked

LEMMA QuarantineIsBacked ==
    ASSUME TypeOK, NEW h \in Handles, NEW actor,
           verify_restored(h, actor) \/ promote_authority(h, actor)
    PROVE  StoresGrow /\ HeapBacked
<1>1. stores' = stores
  BY DEF verify_restored, promote_authority, QuarantineStep
<1>2. mats' = mats \/ \E m : mats' = Append(mats, m) /\ m.quarantine = "Verified"
  <2>1. CASE promote_authority(h, actor)
    <3>1. mats[h].quarantine # "AuthorityPending"
      BY DEF TypeOK, HeapOK
    <3>. QED
      BY <2>1, <3>1 DEF promote_authority, QuarantineStep
  <2>2. CASE verify_restored(h, actor)
    <3> DEFINE m == [state |-> mats[h].state, digest |-> mats[h].digest,
                     revision |-> mats[h].revision, epoch |-> mats[h].epoch,
                     quarantine |-> "Verified"]
    <3>1. mats' = mats \/ mats' = Append(mats, m)
      BY <2>2 DEF verify_restored, QuarantineStep, Replace
    <3>2. m.quarantine = "Verified"
      OBVIOUS
    <3>. QED
      BY <3>1, <3>2
  <2>. QED
    BY <2>1, <2>2
<1>. QED
  BY <1>1, <1>2 DEF StoresGrow, GrownInto, HeapBacked, Backed

\* A write that reaches the store hands it the bytes of the tree it publishes.
LEMMA WriteThroughShape ==
    ASSUME TypeOK, NEW h \in Handles, NEW tx, NEW g, write_to_cognition(h, tx, g)
    PROVE  \/ UNCHANGED <<mats, stores>>
           \/ /\ g_store \in StoreIds
              /\ LET bytes == serializeImpl(ApplyTx(mats[h].state, tx))
                 IN  \E answer \in StoreAnswers(stores[g_store], mats[h].revision, bytes, StoreLosses) :
                        WriteAnswered(h, tx, g, bytes, answer)
<1>1. UNCHANGED <<mats, stores>> \/ g_store \in StoreIds
  BY WriteShape
<1>2. UNCHANGED <<mats, stores>> \/ WriteThrough(h, tx, g)
  BY DEF write_to_cognition, WriteReplay, WriteRefused, WriteNothing
<1>. QED
  BY <1>1, <1>2, SwapIsAnAnswer DEF WriteThrough

LEMMA WriteIsBacked ==
    ASSUME TypeOK, StoresAreChains, NEW h \in Handles, NEW tx, NEW g, write_to_cognition(h, tx, g)
    PROVE  StoresGrow /\ HeapBacked
<1> DEFINE tree == ApplyTx(mats[h].state, tx)
           bytes == serializeImpl(tree)
           store == stores[g_store]
<1>1. CASE UNCHANGED <<mats, stores>>
  BY <1>1 DEF StoresGrow, GrownInto, HeapBacked
<1>2. CASE /\ g_store \in StoreIds
           /\ \E answer \in StoreAnswers(store, mats[h].revision, bytes, StoreLosses) :
                 WriteAnswered(h, tx, g, bytes, answer)
  <2>1. PICK answer \in StoreAnswers(store, mats[h].revision, bytes, StoreLosses) :
                WriteAnswered(h, tx, g, bytes, answer)
    BY <1>2
  <2> DEFINE m == [state |-> tree, digest |-> draft_snapshot_digest(bytes),
                   revision |-> answer.revision, epoch |-> mats[h].epoch,
                   quarantine |-> mats[h].quarantine]
  <2>2. IsSequence(store.revisions) /\ IsChain(store)
    BY <1>2 DEF TypeOK, StoresOK, StoresAreChains
  <2>3. GrownInto(store, answer.store)
    <3> HIDE DEF bytes, store
    <3>1. IsCanonical(bytes)
      BY WrittenIsCanonical DEF bytes
    <3>. QED
      BY <3>1, AnswerGrows
  <2>4. StoresGrow /\ stores'[g_store] = answer.store
    <3>1. stores' = [stores EXCEPT ![g_store] = answer.store]
      BY <2>1 DEF WriteAnswered
    <3>. QED
      BY <1>2, <2>3, <3>1, OneStoreGrows
  <2>5. mats' = mats \/ (mats' = Append(mats, m) /\ answer.kind = "Committed")
    BY <2>1 DEF WriteAnswered, PublishSuccessor, Replace
  <2>6. CASE mats' = Append(mats, m) /\ answer.kind = "Committed"
    <3>1. Holds(stores'[g_store], answer.revision, bytes)
      <4> HIDE DEF bytes, store
      <4>. QED
        BY <2>2, <2>4, <2>6, CommittedIsHeld
    <3>2. /\ m.revision = answer.revision /\ m.digest = draft_snapshot_digest(bytes)
          /\ serializeImpl(m.state).body = bytes.body
      OBVIOUS
    <3> HIDE DEF m, bytes
    <3>3. Backed(m, stores')
      BY <1>2, <3>1, <3>2 DEF Backed
    <3>. QED
      BY <2>4, <2>6, <3>3 DEF HeapBacked
  <2>. QED
    BY <2>4, <2>5, <2>6 DEF HeapBacked
<1>. QED
  BY <1>1, <1>2, WriteThroughShape

LEMMA ForeignIsBacked ==
    ASSUME TypeOK, NEW s \in StoreIds, NEW request, NEW actor,
           ForeignGenesis(s) \/ ForeignCommit(s, request, actor)
    PROVE  StoresGrow /\ HeapBacked
<1>1. PICK base, tree : ForeignChange(s, compareAndSwap(stores[s], base, serializeImpl(tree)))
  BY DEF ForeignGenesis, ForeignCommit
<1> DEFINE bytes == serializeImpl(tree)
           answer == compareAndSwap(stores[s], base, bytes)
<1>2. mats' = mats /\ stores' = [stores EXCEPT ![s] = answer.store]
  BY <1>1 DEF ForeignChange
<1>3. answer \in StoreAnswers(stores[s], base, bytes, StoreLosses) /\ IsCanonical(bytes)
  BY SwapIsAnAnswer, WrittenIsCanonical
<1> HIDE DEF bytes, answer
<1>4. GrownInto(stores[s], answer.store)
  BY <1>3, AnswerGrows
<1>. QED
  BY <1>2, <1>4, OneStoreGrows DEF HeapBacked

\* Every step adds at most a canonical revision to a store, and what it mints is
\* backed by the stores it leaves.
LEMMA DurableStep ==
    ASSUME TypeOK, StoresAreChains, DurabilityInv, [Next]_vars
    PROVE  StoresGrow /\ HeapBacked
<1> DEFINE Good == StoresGrow /\ HeapBacked
<1>1. CASE UNCHANGED <<mats, stores>>
  BY <1>1 DEF StoresGrow, GrownInto, HeapBacked
<1>2. ASSUME NEW s, NEW port, NEW h, NEW actor, NEW mode, NEW g,
             \/ attachStore(s) \/ attach_identity_verifier(port) \/ retire_cognition(h)
             \/ acquire_grant(actor, mode) \/ release_grant(g)
      PROVE  UNCHANGED <<mats, stores>>
  BY <1>2 DEF attachStore, attach_identity_verifier, retire_cognition, acquire_grant, release_grant
<1>3. ASSUME NEW r, create_canonical(r) \/ create_canonical_raced PROVE Good
  BY <1>3, BootIsBacked, RaceIsBacked
<1>4. ASSUME NEW a, create_from_artifact(a) PROVE Good
  <2>1. /\ stores' = stores
        /\ mats' = mats \/ Materialize("create", a.inlineBytes[1], NoRevision, "Isolated")
    BY <1>4 DEF create_from_artifact
  <2>. QED
    BY <2>1, IsolatedIsBacked DEF StoresGrow, GrownInto, HeapBacked
<1>5. ASSUME NEW h \in Handles, NEW actor, verify_restored(h, actor) \/ promote_authority(h, actor)
      PROVE  Good
  BY <1>5, QuarantineIsBacked
<1>6. ASSUME NEW h \in Handles, NEW tx, NEW g, write_to_cognition(h, tx, g) PROVE Good
  BY <1>6, WriteIsBacked
<1>7. ASSUME NEW s \in StoreIds, NEW request, NEW actor,
             ForeignGenesis(s) \/ ForeignCommit(s, request, actor)
      PROVE  Good
  BY <1>7, ForeignIsBacked
<1>8. CASE UNCHANGED vars
  BY <1>1, <1>8 DEF vars, serviceState
<1>. QED
  BY <1>1, <1>2, <1>3, <1>4, <1>5, <1>6, <1>7, <1>8 DEF Next

---------------------------------------------------------------------------
(* The invariant. *)

LEMMA DurabilityInductive ==
    TypeOK /\ StoresAreChains /\ DurabilityInv /\ [Next]_vars => DurabilityInv'
<1> SUFFICES ASSUME TypeOK, StoresAreChains, DurabilityInv, [Next]_vars PROVE DurabilityInv'
  OBVIOUS
<1>1. StoresGrow /\ HeapBacked
  BY DurableStep
<1>2. ASSUME NEW s \in StoreIds
      PROVE  \A i \in DOMAIN stores'[s].revisions : IsCanonical(stores'[s].revisions[i].bytes)
  <2>1. IsSequence(stores[s].revisions)
    BY DEF TypeOK, StoresOK
  <2>2. CASE stores'[s] = stores[s]
    BY <2>2 DEF DurabilityInv, StoredAreCanonical
  <2>3. ASSUME NEW r, stores'[s].revisions = Append(stores[s].revisions, r), IsCanonical(r.bytes)
        PROVE  \A i \in DOMAIN stores'[s].revisions : IsCanonical(stores'[s].revisions[i].bytes)
    <3> DEFINE n == Len(stores[s].revisions)
    <3>1. /\ DOMAIN stores[s].revisions = 1..n /\ n \in Nat
          /\ DOMAIN stores'[s].revisions = 1..n + 1 /\ stores'[s].revisions[n + 1] = r
          /\ \A i \in 1..n : stores'[s].revisions[i] = stores[s].revisions[i]
      BY <2>1, <2>3, SequenceFacts, AppendFacts
    <3>2. \A i \in 1..n + 1 : i \in 1..n \/ i = n + 1
      BY <3>1
    <3>. QED
      BY <2>3, <3>1, <3>2 DEF DurabilityInv, StoredAreCanonical
  <2>. QED
    BY <1>1, <2>2, <2>3 DEF StoresGrow, GrownInto
<1>3. ASSUME NEW m, Backed(m, stores) PROVE Backed(m, stores')
  <2>1. SUFFICES ASSUME m.quarantine = "Promoted", m.revision # NoRevision
                 PROVE  \E s \in StoreIds : \E bytes :
                           /\ Holds(stores'[s], m.revision, bytes)
                           /\ serializeImpl(m.state).body = bytes.body
                           /\ m.digest = draft_snapshot_digest(bytes)
    BY DEF Backed
  <2>2. PICK s \in StoreIds : \E bytes :
                /\ Holds(stores[s], m.revision, bytes)
                /\ serializeImpl(m.state).body = bytes.body
                /\ m.digest = draft_snapshot_digest(bytes)
    BY <1>3, <2>1 DEF Backed
  <2>3. IsSequence(stores[s].revisions) /\ GrownInto(stores[s], stores'[s])
    BY <1>1 DEF TypeOK, StoresOK, StoresGrow
  <2>. QED
    BY <2>2, <2>3, HeldIsKept
<1>4. \A h \in Handles' : Backed(mats'[h], stores')
  <2>1. CASE mats' = mats
    BY <1>3, <2>1 DEF DurabilityInv, Handles
  <2>2. ASSUME NEW m, mats' = Append(mats, m), Backed(m, stores')
        PROVE  \A h \in Handles' : Backed(mats'[h], stores')
    <3>1. /\ Len(mats) \in Nat /\ Handles = 1..Len(mats) /\ Handles' = 1..Len(mats) + 1
          /\ mats'[Len(mats) + 1] = m
          /\ \A h \in Handles : mats'[h] = mats[h]
      BY <2>2, HeapAppended
    <3>2. \A h \in Handles' : h \in Handles \/ h = Len(mats) + 1
      BY <3>1
    <3>3. \A h \in Handles : Backed(mats[h], stores')
      BY <1>3 DEF DurabilityInv
    <3>. QED
      BY <2>2, <3>1, <3>2, <3>3
  <2>. QED
    BY <1>1, <2>1, <2>2 DEF HeapBacked
<1>. QED
  BY <1>2, <1>4 DEF DurabilityInv, StoredAreCanonical

LEMMA DurabilityInvariant == Spec => []DurabilityInv
<1>1. Init => DurabilityInv
  BY DEF Init, DurabilityInv, StoredAreCanonical, Handles, EmptyStore
<1>. QED
  BY <1>1, DurabilityInductive, StoresStayChains, TypeCorrect, PTL DEF Spec

\* Whatever a process shows of a promoted materialization, some store holds under
\* its revision, with its digest: a crash loses nothing the service has promoted,
\* whichever stores were attached, whatever acknowledgements were lost.
THEOREM PromotedStaysDurable == Spec => []PromotedIsDurable
<1>1. StoresAreChains /\ DurabilityInv => PromotedIsDurable
  <2> SUFFICES ASSUME StoresAreChains, DurabilityInv, NEW h \in Handles,
                      mats[h].quarantine = "Promoted", mats[h].revision # NoRevision
               PROVE  \E s \in StoreIds :
                        LET stored == materialize(stores[s], mats[h].revision)
                        IN  /\ stored # <<>>
                            /\ serializeImpl(mats[h].state).body = stored[1].body
                            /\ mats[h].digest = draft_snapshot_digest(stored[1])
    BY DEF PromotedIsDurable
  <2>1. PICK s \in StoreIds : \E bytes :
                /\ Holds(stores[s], mats[h].revision, bytes)
                /\ serializeImpl(mats[h].state).body = bytes.body
                /\ mats[h].digest = draft_snapshot_digest(bytes)
    BY DEF DurabilityInv, Backed
  <2>2. PICK bytes : /\ Holds(stores[s], mats[h].revision, bytes)
                     /\ serializeImpl(mats[h].state).body = bytes.body
                     /\ mats[h].digest = draft_snapshot_digest(bytes)
    BY <2>1
  <2>3. materialize(stores[s], mats[h].revision) = <<bytes>>
    BY <2>2, HeldIsMaterialized DEF StoresAreChains
  <2>. QED
    BY <2>2, <2>3
<1>. QED
  BY <1>1, DurabilityInvariant, StoresStayChains, PTL
=============================================================================
