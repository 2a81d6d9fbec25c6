---------------------------- MODULE MCWorkCycle ----------------------------
(***************************************************************************)
(* Instances of WorkCycle for TLC: two sessions of one owner, requests     *)
(* that share a key, an unreviewed decision and the ordinary turn.         *)
(***************************************************************************)
EXTENDS WorkCycle

Owner == [principal |-> "root", binding |-> "b1", servingModel |-> "m"]
OneActor == {Owner}
OwnerOfAll == [s \in Sessions |-> Owner]

UpdateState(text) ==
    <<[kind |-> "UpdateState", recordId |-> 0, successorRecordId |-> 0, aux |-> 0,
       scope |-> <<>>, title |-> "", payload |-> text, provenanceRef |-> <<>>]>>

Request(ops, key) ==
    [operations |-> ops, handoffEvidenceRef |-> "", h2 |-> <<>>, idempotencyKey |-> key]

CycleRequests == {Request(UpdateState("a"), "k"), Request(UpdateState("b"), "k"),
                  Request(UpdateState("b"), ""), Request(<<>>, "")}
NoArtifacts == {}
=============================================================================
