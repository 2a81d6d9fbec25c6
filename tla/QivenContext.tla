---------------------------- MODULE QivenContext ---------------------------
(***************************************************************************)
(* The gated service: a process-wide registry of live materializations, a  *)
(* single-writer lease, idempotency receipts, an identity port and an      *)
(* attached store.  Every operation below runs under g_admission in the    *)
(* code, so it is one action; participants call them in any order, with    *)
(* any handle or grant they were ever given, however stale.                *)
(*                                                                         *)
(* Materializations are immutable shared objects: mats is the heap of all  *)
(* ever minted and a handle is an index into it.  A GrantId is the         *)
(* generation counter; NoGrant is the empty id, which a moved-from grant   *)
(* also carries.  Stores may be shared with another process (Foreign...).  *)
(***************************************************************************)
EXTENDS CognitionTree, MemoryStore

CONSTANTS Actors,        \* the actors that ask for a grant
          Requests,      \* transactions as submitted, without their base
          Artifacts,     \* handoff artifacts offered for restore
          StoreIds,      \* the stores that can be attached
          Ports,         \* the identity ports that can be attached
          SharedStore,   \* TRUE when another process also writes the stores
          StoreLosses,   \* how a swap can fail to answer; {} when it never does
          MaxHandles,    \* bound: materializations minted
          MaxGrants,     \* bound: grants minted
          MaxRevisions   \* bound: revisions per store

ASSUME ServiceAssumption ==
    /\ SharedStore \in BOOLEAN /\ StoreLosses \subseteq Losses
    /\ MaxHandles \in Nat /\ MaxGrants \in Nat /\ MaxRevisions \in Nat
    /\ "null" \notin StoreIds /\ Ports \subseteq {"root", "revoked"}

IsSequence(s) == s \in Seq(Range(s))

\* What is submitted is a list of operations of the kinds there are.
ASSUME RequestsAssumption ==
    \A request \in Requests :
       /\ IsSequence(request.operations)
       /\ \A i \in DOMAIN request.operations : request.operations[i].kind \in OperationKinds

VARIABLES mats,            \* every Materialization minted, a handle is an index
          g_live,          \* registry: handles, in registration order
          g_epoch,
          g_store,         \* attached store, or "null"
          stores,          \* contents of every store
          g_identity,      \* attached verifier, or "null"
          grants,          \* every ExecutionGrant minted, by generation
          g_activeGrantId,
          g_grantActor,
          g_receipts,      \* idempotency key -> [requestDigest, outcome]
          result,          \* history: what the last call returned
          commits          \* history: the service's own commits that landed

\* No action reads result, so TLC may identify states that differ only there.
serviceState == <<mats, g_live, g_epoch, g_store, stores, g_identity, grants,
                  g_activeGrantId, g_grantActor, g_receipts, commits>>

vars == <<serviceState, result>>

NoGrant == 0
NoActor == [principal |-> "", binding |-> "", servingModel |-> ""]
NoHandle == 0
Modes == {"SupervisedForeground", "Unattended"}

\* A Verdict, and the other calls' success or failure in the same shape.
Verdict(outcome, reason, successor) ==
    [outcome |-> outcome, reason |-> reason, successor |-> successor]

Return(call, verdict, grant) == result' = [call |-> call, verdict |-> verdict, grant |-> grant]

Failed(call, reason) == Return(call, Verdict("Refused", reason, NoHandle), NoGrant)

Init ==
    /\ mats = <<>> /\ g_live = <<>> /\ g_epoch = 0
    /\ g_store = "null" /\ stores = [s \in StoreIds |-> EmptyStore]
    /\ g_identity = "null"
    /\ grants = <<>> /\ g_activeGrantId = NoGrant /\ g_grantActor = NoActor
    /\ g_receipts = <<>>
    /\ result = [call |-> "none", verdict |-> Verdict("Refused", "None", NoHandle), grant |-> NoGrant]
    /\ commits = <<>>

---------------------------------------------------------------------------
(* Governance and identity. *)

\* The tree at the attached store's head, as an optional value: the first live
\* promoted materialization at the head, or the head read back from the store.
canonical_head_locked ==
    IF g_store = "null" \/ stores[g_store].head = NoRevision THEN <<>>
    ELSE LET head == stores[g_store].head
             at   == SelectInSeq(g_live, LAMBDA h : /\ mats[h].revision = head
                                                    /\ mats[h].quarantine = "Promoted")
             bytes == HeadBytes(stores[g_store])
         IN  IF at # 0 THEN <<mats[g_live[at]].state>>
             ELSE IF DeserializeError(bytes) = "None" THEN <<deserializeImpl(bytes)>> ELSE <<>>

RootPrincipalVerifier(actor, governance) ==
    /\ "" \notin {actor.principal, actor.binding, actor.servingModel}
    /\ actor.principal = governance.rootPrincipal

\* "revoked" stands for an identity provider that no longer vouches for anyone.
Verifies(port, actor) ==
    /\ port = "root"
    /\ canonical_head_locked # <<>>
    /\ RootPrincipalVerifier(actor, canonical_head_locked[1])

\* Acquire, verify_restored and promote_authority install the default verifier.
EnsureVerifier == g_identity' = IF g_identity = "null" THEN "root" ELSE g_identity

attach_identity_verifier(port) ==
    /\ g_identity' = port
    /\ Return("attach_identity_verifier", Verdict("Applied", "None", NoHandle), NoGrant)
    /\ UNCHANGED <<mats, g_live, g_epoch, g_store, stores, grants, g_activeGrantId,
                   g_grantActor, g_receipts, commits>>

attachStore(s) ==
    /\ g_store' = s
    /\ Return("attachStore", Verdict("Applied", "None", NoHandle), NoGrant)
    /\ UNCHANGED <<mats, g_live, g_epoch, stores, g_identity, grants, g_activeGrantId,
                   g_grantActor, g_receipts, commits>>

---------------------------------------------------------------------------
(* Materializing and retiring. *)

\* Mutant: the fencing epoch is handed out without advancing the counter.
Materialize_EpochKept(call, bytes, revision, quarantine) ==
    IF DeserializeError(bytes) # "None"
    THEN /\ Failed(call, DeserializeError(bytes))
         /\ UNCHANGED <<mats, g_live, g_epoch>>
    ELSE /\ g_epoch' = g_epoch
         /\ mats' = Append(mats, [state |-> deserializeImpl(bytes),
                                  digest |-> draft_snapshot_digest(bytes),
                                  revision |-> revision, epoch |-> g_epoch + 1,
                                  quarantine |-> quarantine])
         /\ g_live' = Append(g_live, Len(mats) + 1)
         /\ Return(call, Verdict("Applied", "None", Len(mats) + 1), NoGrant)

Materialize(call, bytes, revision, quarantine) ==
    IF DeserializeError(bytes) # "None"
    THEN /\ Failed(call, DeserializeError(bytes))
         /\ UNCHANGED <<mats, g_live, g_epoch>>
    ELSE /\ g_epoch' = g_epoch + 1
         /\ mats' = Append(mats, [state |-> deserializeImpl(bytes),
                                  digest |-> draft_snapshot_digest(bytes),
                                  revision |-> revision, epoch |-> g_epoch + 1,
                                  quarantine |-> quarantine])
         /\ g_live' = Append(g_live, Len(mats) + 1)
         /\ Return(call, Verdict("Applied", "None", Len(mats) + 1), NoGrant)

\* Out of a call the store threw in: nothing but the store can have changed.
Threw(call, g) == Return(call, Verdict("Threw", "None", NoHandle), g)

\* CanonicalRemote: boot at a revision, at the head, or at a new genesis.  The
\* assertion that the genesis was committed is compiled out, so a lost
\* acknowledgement leaves the materialization without a revision.
create_canonical(revision) ==
    LET store == stores[g_store]
        id    == IF revision = NoRevision THEN store.head ELSE revision
        found == materialize(store, id)
        genesis == serializeImpl(makeGenesis)
    IN  /\ g_store # "null" /\ Len(mats) < MaxHandles
        /\ \/ /\ found # <<>>
              /\ Materialize("create", found[1], id, "Promoted")
              /\ UNCHANGED stores
           \/ /\ found = <<>> /\ id # NoRevision
              /\ Failed("create", "Truncated")
              /\ UNCHANGED <<mats, g_live, g_epoch, stores>>
           \/ /\ found = <<>> /\ id = NoRevision
              /\ \E answer \in StoreAnswers(store, NoRevision, genesis, StoreLosses) :
                    /\ stores' = [stores EXCEPT ![g_store] = answer.store]
                    /\ IF answer.kind = "Threw"
                       THEN Threw("create", NoGrant) /\ UNCHANGED <<mats, g_live, g_epoch>>
                       ELSE Materialize("create", genesis, answer.revision, "Promoted")
        /\ UNCHANGED <<g_store, g_identity, grants, g_activeGrantId, g_grantActor,
                       g_receipts, commits>>

\* The genesis path when another process creates the genesis between this one's
\* look at the head and its compare-and-swap: the swap fails, and again the
\* receipt's empty revision is used, as it is when that answer is lost.
create_canonical_raced ==
    LET genesis == serializeImpl(makeGenesis)
        raced   == compareAndSwap(EmptyStore, NoRevision, genesis).store
    IN  /\ SharedStore /\ g_store # "null" /\ Len(mats) < MaxHandles
        /\ stores[g_store] = EmptyStore
        /\ stores' = [stores EXCEPT ![g_store] = raced]
        /\ Materialize("create", genesis, compareAndSwap(raced, NoRevision, genesis).revision,
                       "Promoted")
        /\ UNCHANGED <<g_store, g_identity, grants, g_activeGrantId, g_grantActor,
                       g_receipts, commits>>

\* HandoffArtifact: restored from its bytes alone, never with authority.
create_from_artifact(artifact) ==
    /\ Len(mats) < MaxHandles
    /\ IF artifact.expectedDigest # <<>>
          /\ artifact.expectedDigest[1] # draft_content_id(artifact.inlineBytes)
       THEN Failed("create", "DigestMismatch") /\ UNCHANGED <<mats, g_live, g_epoch>>
       ELSE IF artifact.inlineBytes = <<>>
       THEN Failed("create", "Truncated") /\ UNCHANGED <<mats, g_live, g_epoch>>
       ELSE Materialize("create", artifact.inlineBytes[1], NoRevision, "Isolated")
    /\ UNCHANGED <<g_store, stores, g_identity, grants, g_activeGrantId, g_grantActor,
                   g_receipts, commits>>

retire_cognition(h) ==
    /\ IF Contains(g_live, h)
       THEN /\ \E i \in DOMAIN g_live : g_live[i] = h /\ g_live' = RemoveAt(g_live, i)
            /\ Return("retire", Verdict("Applied", "None", h), NoGrant)
       ELSE Failed("retire", "None") /\ UNCHANGED g_live
    /\ UNCHANGED <<mats, g_epoch, g_store, stores, g_identity, grants, g_activeGrantId,
                   g_grantActor, g_receipts, commits>>

---------------------------------------------------------------------------
(* Quarantine. *)

\* Mutant: the minted materialization is registered beside the entry it succeeds.
Replace_Beside(h, minted) ==
    /\ mats' = Append(mats, minted)
    /\ g_live' = Append(g_live, Len(mats) + 1)

\* The registry entry of a handle now names the materialization minted last.
Replace(h, minted) ==
    /\ mats' = Append(mats, minted)
    /\ g_live' = ReplaceAll(g_live, h, Len(mats) + 1)

\* A governed step of a restored materialization from one quarantine state to
\* the next: a copy is minted and takes the entry's place.
QuarantineStep(call, h, actor, from, to) ==
    /\ Len(mats) < MaxHandles
    /\ EnsureVerifier
    /\ IF Verifies(g_identity', actor) /\ Contains(g_live, h) /\ mats[h].quarantine = from
       THEN /\ Replace(h, [state |-> mats[h].state, digest |-> mats[h].digest,
                           revision |-> mats[h].revision, epoch |-> mats[h].epoch,
                           quarantine |-> to])
            /\ Return(call, Verdict("Applied", "None", Len(mats) + 1), NoGrant)
       ELSE Failed(call, "None") /\ UNCHANGED <<mats, g_live>>
    /\ UNCHANGED <<g_epoch, g_store, stores, grants, g_activeGrantId, g_grantActor,
                   g_receipts, commits>>

verify_restored(h, actor) == QuarantineStep("verify_restored", h, actor, "Isolated", "Verified")

\* Mutant: verification alone is enough to be promoted.
promote_authority_Verified(h, actor) ==
    QuarantineStep("promote_authority", h, actor, "Verified", "Promoted")

promote_authority(h, actor) ==
    QuarantineStep("promote_authority", h, actor, "AuthorityPending", "Promoted")

---------------------------------------------------------------------------
(* The lease. *)

acquire_grant(actor, mode) ==
    /\ Len(grants) < MaxGrants
    /\ IF g_activeGrantId # NoGrant
       THEN Failed("acquire", "None") /\ UNCHANGED <<grants, g_activeGrantId, g_grantActor, g_identity>>
       ELSE /\ EnsureVerifier
            /\ IF Verifies(g_identity', actor)
               THEN /\ grants' = Append(grants, [mode |-> mode, epoch |-> g_epoch,
                                                 principal |-> actor.principal])
                    /\ g_activeGrantId' = Len(grants) + 1
                    /\ g_grantActor' = actor
                    /\ Return("acquire", Verdict("Applied", "None", NoHandle), Len(grants) + 1)
               ELSE Failed("acquire", "None") /\ UNCHANGED <<grants, g_activeGrantId, g_grantActor>>
    /\ UNCHANGED <<mats, g_live, g_epoch, g_store, stores, g_receipts, commits>>

\* Mutant: any grant ends the active lease.
release_grant_Any(g) ==
    /\ g_activeGrantId' = NoGrant /\ g_grantActor' = NoActor
    /\ Return("release", Verdict("Applied", "None", NoHandle), g)
    /\ UNCHANGED <<mats, g_live, g_epoch, g_store, stores, g_identity, grants, g_receipts, commits>>

\* Mutant: the recorded actor outlives the lease.
release_grant_ActorKept(g) ==
    /\ g_activeGrantId' = IF g_activeGrantId = g THEN NoGrant ELSE g_activeGrantId
    /\ Return("release", Verdict("Applied", "None", NoHandle), g)
    /\ UNCHANGED <<mats, g_live, g_epoch, g_store, stores, g_identity, grants, g_grantActor,
                   g_receipts, commits>>

release_grant(g) ==
    /\ IF g_activeGrantId = g
       THEN g_activeGrantId' = NoGrant /\ g_grantActor' = NoActor
       ELSE UNCHANGED <<g_activeGrantId, g_grantActor>>
    /\ Return("release", Verdict("Applied", "None", NoHandle), g)
    /\ UNCHANGED <<mats, g_live, g_epoch, g_store, stores, g_identity, grants, g_receipts, commits>>

---------------------------------------------------------------------------
(* The gated write. *)

ModeOf(g) == IF g = NoGrant THEN "SupervisedForeground" ELSE grants[g].mode

request_digest_of(tx) == <<tx.base, digest_operations(tx.operations), tx.handoffEvidenceRef, tx.h2>>

\* Mutant: a key reused for another request is taken for a new one.
HasReceipt_SameRequest(tx) ==
    /\ tx.idempotencyKey # "" /\ tx.idempotencyKey \in DOMAIN g_receipts
    /\ g_receipts[tx.idempotencyKey].requestDigest = request_digest_of(tx)

HasReceipt(tx) == tx.idempotencyKey # "" /\ tx.idempotencyKey \in DOMAIN g_receipts

Gate(refuses, reason) == IF refuses THEN reason ELSE "None"

\* Mutant: any minted grant passes while some lease is active.
SessionGates_AnyGrant(h, tx, g) ==
    FirstRefusal(<<
       Gate(~Contains(g_live, h), "StaleBase"),
       Gate(mats[h].quarantine # "Promoted", "GovernanceDenied"),
       Gate(g_activeGrantId = NoGrant, "GrantRefused"),
       Gate(~Verifies(g_identity, g_grantActor), "UnverifiedActor"),
       Gate(ModeOf(g) = "Unattended" /\ tx.operations # <<>>, "UnattendedMutation"),
       Gate(tx.base # mats[h].revision, "StaleBase")>>)

\* The gates on who writes through which handle, in the order the code runs them.
SessionGates(h, tx, g) ==
    FirstRefusal(<<
       Gate(~Contains(g_live, h), "StaleBase"),
       Gate(mats[h].quarantine # "Promoted", "GovernanceDenied"),
       Gate(g_activeGrantId = NoGrant \/ g_activeGrantId # g, "GrantRefused"),
       Gate(~Verifies(g_identity, g_grantActor), "UnverifiedActor"),
       Gate(ModeOf(g) = "Unattended" /\ tx.operations # <<>>, "UnattendedMutation"),
       Gate(tx.base # mats[h].revision, "StaleBase")>>)

\* Mutant: the content gates are skipped.
WriteGates_SessionOnly(h, tx, g) == SessionGates(h, tx, g)

WriteGates(h, tx, g) ==
    IF SessionGates(h, tx, g) # "None" THEN SessionGates(h, tx, g)
    ELSE IF tx.operations = <<>> THEN "None"
    ELSE ContentGates(mats[h].state, tx, g_grantActor, canonical_head_locked[1].rootPrincipal)

\* Mutant: a lost acknowledgement leaves no receipt.
Recorded_AppliedOnly(tx, verdict) ==
    IF tx.idempotencyKey = "" \/ verdict.outcome = "OutcomeUnknown" THEN g_receipts
    ELSE [k \in DOMAIN g_receipts \cup {tx.idempotencyKey} |->
            IF k = tx.idempotencyKey
            THEN [requestDigest |-> request_digest_of(tx), outcome |-> verdict]
            ELSE g_receipts[k]]

Recorded(tx, verdict) ==
    IF tx.idempotencyKey = "" THEN g_receipts
    ELSE [k \in DOMAIN g_receipts \cup {tx.idempotencyKey} |->
            IF k = tx.idempotencyKey
            THEN [requestDigest |-> request_digest_of(tx), outcome |-> verdict]
            ELSE g_receipts[k]]

\* Mutant: the receipt answers for any request under its key.
WriteReplay_AnyRequest(tx, g) ==
    /\ Return("write", g_receipts[tx.idempotencyKey].outcome, g)
    /\ UNCHANGED <<mats, g_live, stores, g_receipts, commits>>

\* The key was used before: the recorded outcome, or a refusal when the request differs.
WriteReplay(tx, g) ==
    LET receipt == g_receipts[tx.idempotencyKey]
    IN  /\ IF receipt.requestDigest = request_digest_of(tx)
           THEN Return("write", receipt.outcome, g)
           ELSE Return("write", Verdict("Refused", "KeyConflict", NoHandle), g)
        /\ UNCHANGED <<mats, g_live, stores, g_receipts, commits>>

WriteRefused(reason, g) ==
    /\ Return("write", Verdict("Refused", reason, NoHandle), g)
    /\ UNCHANGED <<mats, g_live, stores, g_receipts, commits>>

\* An ordinary turn: nothing to store, no receipt.
WriteNothing(h, g) ==
    /\ Return("write", Verdict("Applied", "StoreDiverged", h), g)
    /\ UNCHANGED <<mats, g_live, stores, g_receipts, commits>>

\* Mutant: the successor keeps its predecessor's revision.
PublishSuccessor_OldRevision(h, tx, bytes, revision) ==
    Replace(h, [state |-> ApplyTx(mats[h].state, tx), digest |-> draft_snapshot_digest(bytes),
                revision |-> mats[h].revision, epoch |-> mats[h].epoch,
                quarantine |-> mats[h].quarantine])

\* Mutant: the successor keeps its predecessor's digest.
PublishSuccessor_OldDigest(h, tx, bytes, revision) ==
    Replace(h, [state |-> ApplyTx(mats[h].state, tx), digest |-> mats[h].digest,
                revision |-> revision, epoch |-> mats[h].epoch,
                quarantine |-> mats[h].quarantine])

\* Mutant: the successor is left without a revision.
PublishSuccessor_NoRevision(h, tx, bytes, revision) ==
    Replace(h, [state |-> ApplyTx(mats[h].state, tx), digest |-> draft_snapshot_digest(bytes),
                revision |-> NoRevision, epoch |-> mats[h].epoch,
                quarantine |-> mats[h].quarantine])

\* The successor materialization takes the entry's place and lineage.
PublishSuccessor(h, tx, bytes, revision) ==
    Replace(h, [state |-> ApplyTx(mats[h].state, tx), digest |-> draft_snapshot_digest(bytes),
                revision |-> revision, epoch |-> mats[h].epoch,
                quarantine |-> mats[h].quarantine])

\* Gate 10: what the store's answer makes of the write.
WriteAnswered(h, tx, g, bytes, answer) ==
    LET applied == Verdict("Applied", "StoreDiverged", Len(mats) + 1)
        unknown == Verdict("OutcomeUnknown", "OutcomeUnresolved", NoHandle)
    IN  /\ stores' = [stores EXCEPT ![g_store] = answer.store]
        /\ commits' = IF answer.store = stores[g_store] THEN commits
                      ELSE Append(commits, [store |-> g_store, revision |-> answer.store.head,
                                            key |-> tx.idempotencyKey, grant |-> g,
                                            answered |-> answer.kind # "Threw"])
        /\ \/ /\ answer.kind = "CompareFailed"
              /\ Return("write", Verdict("Refused", "StoreDiverged", NoHandle), g)
              /\ UNCHANGED <<mats, g_live, g_receipts>>
           \/ /\ answer.kind = "OutcomeUnknown"
              /\ g_receipts' = Recorded(tx, unknown)
              /\ Return("write", unknown, g)
              /\ UNCHANGED <<mats, g_live>>
           \/ /\ answer.kind = "Threw"
              /\ Threw("write", g)
              /\ UNCHANGED <<mats, g_live, g_receipts>>
           \/ /\ answer.kind = "Committed"
              /\ PublishSuccessor(h, tx, bytes, answer.revision)
              /\ g_receipts' = Recorded(tx, applied)
              /\ Return("write", applied, g)

WriteThrough(h, tx, g) ==
    LET bytes == serializeImpl(ApplyTx(mats[h].state, tx))
        base  == mats[h].revision
    IN  /\ Len(mats) < MaxHandles /\ Len(stores[g_store].revisions) < MaxRevisions
        /\ \E answer \in StoreAnswers(stores[g_store], base, bytes, StoreLosses) :
              WriteAnswered(h, tx, g, bytes, answer)

WithBase(request, base) ==
    [operations |-> request.operations, handoffEvidenceRef |-> request.handoffEvidenceRef,
     h2 |-> request.h2, idempotencyKey |-> request.idempotencyKey, base |-> base]

write_to_cognition(h, tx, g) ==
    /\ LET refusal == WriteGates(h, tx, g)
       IN  \/ HasReceipt(tx) /\ WriteReplay(tx, g)
           \/ ~HasReceipt(tx) /\ refusal # "None" /\ WriteRefused(refusal, g)
           \/ ~HasReceipt(tx) /\ refusal = "None" /\ tx.operations = <<>> /\ WriteNothing(h, g)
           \/ ~HasReceipt(tx) /\ refusal = "None" /\ tx.operations # <<>> /\ WriteThrough(h, tx, g)
    /\ UNCHANGED <<g_epoch, g_store, g_identity, grants, g_activeGrantId, g_grantActor>>

---------------------------------------------------------------------------
(* Another process that runs the same service on a shared store. *)

ForeignChange(s, answer) ==
    /\ stores' = [stores EXCEPT ![s] = answer.store]
    /\ UNCHANGED <<mats, g_live, g_epoch, g_store, g_identity, grants, g_activeGrantId,
                   g_grantActor, g_receipts, result, commits>>

ForeignGenesis(s) ==
    /\ SharedStore /\ stores[s] = EmptyStore
    /\ ForeignChange(s, compareAndSwap(stores[s], NoRevision, serializeImpl(makeGenesis)))

ForeignCommit(s, request, actor) ==
    /\ SharedStore /\ stores[s].revisions # <<>>
    /\ request.operations # <<>>
    /\ Len(stores[s].revisions) < MaxRevisions
    /\ DeserializeError(HeadBytes(stores[s])) = "None"
    /\ LET tree == deserializeImpl(HeadBytes(stores[s]))
       IN  /\ ContentGates(tree, request, actor, tree.rootPrincipal) = "None"
           /\ ForeignChange(s, compareAndSwap(stores[s], stores[s].head,
                                              serializeImpl(ApplyTx(tree, request))))

---------------------------------------------------------------------------

Handles == DOMAIN mats
GrantIds == {NoGrant} \cup DOMAIN grants
RevisionsSeen == {mats[h].revision : h \in Handles}

Next ==
    \/ \E s \in StoreIds \cup {"null"} : attachStore(s)
    \/ \E port \in Ports : attach_identity_verifier(port)
    \/ \E r \in RevisionsSeen \cup {NoRevision} : create_canonical(r)
    \/ create_canonical_raced
    \/ \E a \in Artifacts : create_from_artifact(a)
    \/ \E h \in Handles : retire_cognition(h)
    \/ \E h \in Handles, actor \in Actors : verify_restored(h, actor)
    \/ \E h \in Handles, actor \in Actors : promote_authority(h, actor)
    \/ \E actor \in Actors, mode \in Modes : acquire_grant(actor, mode)
    \/ \E g \in GrantIds : release_grant(g)
    \/ \E h \in Handles, request \in Requests, base \in RevisionsSeen, g \in GrantIds :
          write_to_cognition(h, WithBase(request, base), g)
    \/ \E s \in StoreIds : ForeignGenesis(s)
    \/ \E s \in StoreIds, request \in Requests, actor \in Actors : ForeignCommit(s, request, actor)

Spec == Init /\ [][Next]_vars

---------------------------------------------------------------------------
(* Properties. *)

HeapOK ==
    /\ IsSequence(mats) /\ IsSequence(commits) /\ g_epoch \in Nat
    /\ \A h \in Handles : /\ mats[h].epoch \in 1..g_epoch
                          /\ mats[h].quarantine \in {"Isolated", "Verified", "Promoted"}
    /\ g_live \in Seq(Handles)
    /\ \A k \in DOMAIN g_receipts :
          /\ g_receipts[k].outcome.outcome \in {"Applied", "OutcomeUnknown"}
          /\ g_receipts[k].outcome.outcome = "Applied" => g_receipts[k].outcome.successor \in Handles

StoresOK ==
    /\ stores \in [StoreIds -> Range(stores)]
    /\ \A s \in StoreIds : IsSequence(stores[s].revisions)

LeaseOK ==
    /\ g_store \in StoreIds \cup {"null"}
    /\ g_identity \in {"null", "root", "revoked"}
    /\ grants \in Seq([mode : Modes, epoch : Nat, principal : {a.principal : a \in Actors}])
    /\ g_activeGrantId \in GrantIds
    /\ g_grantActor \in Actors \cup {NoActor}

\* The heap, the registry, the lease and the receipts only hold what the service
\* mints: handles and grants that exist, quarantine states that are reachable
\* (AuthorityPending is not), epochs already drawn.
TypeOK == HeapOK /\ StoresOK /\ LeaseOK

\* Fencing: commits land in the order their grants were minted, so once a newer
\* grant has committed no older one ever commits again, and no commit belongs to
\* an unattended grant (gates 1 and 4 of write_to_cognition).
CommitsAreFenced ==
    /\ \A i \in DOMAIN commits : /\ commits[i].grant \in DOMAIN grants
                                 /\ grants[commits[i].grant].mode # "Unattended"
    /\ \A i, j \in DOMAIN commits : i <= j => commits[i].grant <= commits[j].grant

\* Only the grant minted last can be the active lease, and the actor recorded
\* for it is there exactly while it is active.
LeaseIsLatestGrant ==
    /\ g_activeGrantId \in {NoGrant, Len(grants)}
    /\ (g_activeGrantId = NoGrant) <=> (g_grantActor = NoActor)

\* A lease ends only when the grant that holds it is released: releasing a stale
\* or moved-from grant leaves a competing flow's lease alone.
LeaseEndsWithItsGrant ==
    [][g_activeGrantId # NoGrant /\ g_activeGrantId' # g_activeGrantId
         => /\ g_activeGrantId' = NoGrant
            /\ result'.call = "release" /\ result'.grant = g_activeGrantId]_vars

\* The commits whose key has to be remembered.  One whose swap threw after it
\* landed leaves no receipt, and its key can commit again from the new head.
Keyed(i) == commits[i].key # "" /\ commits[i].answered

\* An idempotency key commits at most once, over lost acknowledgements, retries
\* from a newer base and changes of the attached store (DR-011), the commits of
\* swaps that threw apart.
KeyCommitsAtMostOnce ==
    \A i, j \in DOMAIN commits :
       Keyed(i) /\ Keyed(j) /\ commits[i].key = commits[j].key => i = j

\* A keyed commit that landed is covered by its key's receipt, and the receipt
\* never calls it a rollback: it is unknown, or applied with a successor pinned at
\* the very revision that landed.
ReceiptCoversCommit ==
    \A i \in DOMAIN commits :
       Keyed(i) =>
         /\ commits[i].key \in DOMAIN g_receipts
         /\ LET verdict == g_receipts[commits[i].key].outcome
            IN  verdict.outcome = "Applied" =>
                  mats[verdict.successor].revision = commits[i].revision

\* The outcome a key resolves to never changes.
ReceiptsAreFinal ==
    [][\A k \in DOMAIN g_receipts :
          k \in DOMAIN g_receipts' /\ g_receipts'[k] = g_receipts[k]]_vars

\* Live entries never share a lineage: a commit or a quarantine step replaces its
\* entry, so each epoch has at most one current materialization.
OneLiveEntryPerLineage ==
    \A i, j \in DOMAIN g_live : mats[g_live[i]].epoch = mats[g_live[j]].epoch => i = j

\* Restore is not authority: what descends from a restored artifact never becomes
\* authoritative and never gains a storage identity (S10-R2).
RestoreIsNotAuthority ==
    \A h, k \in Handles :
       mats[h].epoch = mats[k].epoch =>
          /\ (mats[h].quarantine = "Promoted") <=> (mats[k].quarantine = "Promoted")
          /\ mats[h].quarantine # "Promoted" => mats[h].revision = NoRevision

\* A promoted materialization with a storage identity shows exactly what some
\* store holds under that revision, up to what the codec writes, with its digest.
PromotedIsDurable ==
    \A h \in Handles :
       mats[h].quarantine = "Promoted" /\ mats[h].revision # NoRevision =>
          \E s \in StoreIds :
             LET stored == materialize(stores[s], mats[h].revision)
             IN  /\ stored # <<>>
                 /\ serializeImpl(mats[h].state).body = stored[1].body
                 /\ mats[h].digest = draft_snapshot_digest(stored[1])

\* What revision i was committed on; that of the next one is the head.
idBefore(store, i) == IF i = 1 THEN NoRevision ELSE store.revisions[i - 1].id

IsChain(store) ==
    /\ \A i \in DOMAIN store.revisions :
          store.revisions[i].id = Mint(idBefore(store, i), store.revisions[i].bytes)
    /\ store.head = idBefore(store, Len(store.revisions) + 1)
    /\ \A i, j \in DOMAIN store.revisions :
          store.revisions[i].id = store.revisions[j].id => i = j

\* Each store is one linear chain: a revision's id binds it to the revision
\* before it, the head is the last one, and no id occurs twice.
StoresAreChains == \A s \in StoreIds : IsChain(stores[s])

\* persistence.hpp: the lease gate comes before idempotency resolution, so a write
\* answered Applied was presented with the active lease.
AppliedHeldTheLease ==
    [][result'.call = "write" /\ result'.verdict.outcome = "Applied"
         => g_activeGrantId # NoGrant /\ result'.grant = g_activeGrantId]_vars

\* Only a quarantined artifact has no storage identity.
PromotedHasStorageIdentity ==
    \A h \in Handles : mats[h].quarantine = "Promoted" => mats[h].revision # NoRevision
=============================================================================
