--------------------------- MODULE MCQivenContext --------------------------
(***************************************************************************)
(* Instances of QivenContext for TLC: the root principal and a stranger,     *)
(* requests with and without keys and review evidence, and artifacts sound *)
(* and damaged.                                                            *)
(***************************************************************************)
EXTENDS QivenContextHistory

Owner == [principal |-> "root", binding |-> "b1", servingModel |-> "m"]
Stranger == [principal |-> "guest", binding |-> "b3", servingModel |-> "m"]

OneActor == {Owner}
TwoActors == {Owner, Stranger}

Op(kind) == [kind |-> kind, recordId |-> 0, successorRecordId |-> 0, aux |-> 0,
             scope |-> <<>>, title |-> "", payload |-> "text", provenanceRef |-> <<>>]

SetState(text) == <<[Op("UpdateState") EXCEPT !.payload = text]>>
Remember == <<[Op("AddMemory") EXCEPT !.provenanceRef = <<"src">>]>>
Decide == <<[Op("AppendDecision") EXCEPT !.recordId = 1, !.title = "title"]>>

Request(ops, key) ==
    [operations |-> ops, handoffEvidenceRef |-> "", h2 |-> <<>>, idempotencyKey |-> key]

ReviewedBy(binding, ops, delta) ==
    [operations |-> ops, handoffEvidenceRef |-> "pr", idempotencyKey |-> "",
     h2 |-> <<[reviewedDeltaDigest |-> digest_operations(delta), reviewer |-> "root",
               reviewerBinding |-> binding, reviewRef |-> "audit"]>>]

\* Two keyed requests that share a key, an unkeyed one and an ordinary turn.
KeyRequests == {Request(SetState("a"), "k"), Request(SetState("b"), "k"),
                Request(SetState("b"), ""), Request(<<>>, "")}

\* A keyed request, which can be replayed under any grant, and an unkeyed one.
LeaseRequests == {Request(SetState("a"), "k"), Request(SetState("b"), "")}

\* Memory, and a decision reviewed by another binding and by the writer's own.
ReviewRequests == {Request(Remember, ""), ReviewedBy("b2", Decide, Decide),
                   ReviewedBy("b1", Decide, Decide)}

QuietRequests == {Request(SetState("a"), ""), Request(<<>>, "")}

GenesisBytes == serializeImpl(makeGenesis)

SoundArtifact == [inlineBytes |-> <<GenesisBytes>>,
                  expectedDigest |-> <<draft_content_id(<<GenesisBytes>>)>>]
\* The attachable stores are alike; which is which is forgotten.
StoreSymmetry == Permutations(StoreIds)

NoArtifacts == {}
SomeArtifacts ==
    {SoundArtifact,
     [SoundArtifact EXCEPT !.inlineBytes = <<[GenesisBytes EXCEPT !.version = 7]>>],
     [inlineBytes |-> <<[GenesisBytes EXCEPT !.version = 5]>>, expectedDigest |-> <<>>],
     [inlineBytes |-> <<>>, expectedDigest |-> <<>>]}
=============================================================================
