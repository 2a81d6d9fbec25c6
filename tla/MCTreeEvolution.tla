-------------------------- MODULE MCTreeEvolution --------------------------
(***************************************************************************)
(* Instances of TreeEvolution for TLC: pools of operations, well formed    *)
(* and malformed, from which transactions are built.                       *)
(***************************************************************************)
EXTENDS TreeEvolution

AnyText == STRING

Op(kind) == [kind |-> kind, recordId |-> 0, successorRecordId |-> 0, aux |-> 0,
             scope |-> <<>>, title |-> "", payload |-> "text", provenanceRef |-> <<>>]

\* Three decisions and every supersession among them, one without a rationale.
DecisionOps ==
    {[Op("AppendDecision") EXCEPT !.recordId = i, !.title = "title"] : i \in 0..3}
      \cup {[Op("SupersedeDecision") EXCEPT !.recordId = i, !.successorRecordId = j] :
               i, j \in 1..3}
      \cup {[Op("SupersedeDecision") EXCEPT !.recordId = 1, !.successorRecordId = 2,
                                            !.payload = ""]}

\* Obligations with ids that repeat, their transitions and the boundary.
ObligationOps ==
    {[Op("UpsertObligation") EXCEPT !.recordId = i] : i \in 0..2}
      \cup {[Op("CloseObligation") EXCEPT !.recordId = i] : i \in 1..2}
      \cup {[Op("TransitionObligation") EXCEPT !.recordId = 1, !.successorRecordId = 2,
                                               !.aux = a] : a \in 0..6}
      \cup {[Op("SetNextBoundary") EXCEPT !.recordId = i] : i \in 1..2}

\* Conflicts (global and scoped), profiles, views, state, evidence and memory.
\* A view's refs may be dangling, duplicated or no ref at all.
RecordOps ==
    {[Op("OpenConflict") EXCEPT !.title = "global"],
     [Op("OpenConflict") EXCEPT !.title = "scoped", !.scope = <<"s">>],
     [Op("ResolveConflict") EXCEPT !.title = "global"],
     [Op("ResolveConflict") EXCEPT !.title = "scoped"],
     [Op("ResolveConflict") EXCEPT !.title = "scoped", !.payload = "other text"],
     [Op("UpdateState") EXCEPT !.scope = <<"s">>],
     Op("UpdateState"),
     [Op("UpdateState") EXCEPT !.payload = ""],
     [Op("UpsertProfile") EXCEPT !.title = "p", !.scope = <<"human">>],
     [Op("UpsertProfile") EXCEPT !.title = "q", !.scope = <<"agent">>],
     [Op("UpsertProfile") EXCEPT !.title = "q"],
     [Op("AddEvidence") EXCEPT !.title = "e"],
     [Op("AddMemory") EXCEPT !.provenanceRef = <<"src">>, !.aux = 5],
     [Op("AddMemory") EXCEPT !.provenanceRef = <<"src">>, !.aux = 6],
     Op("AddMemory")}
      \cup {[Op("AmendViewSpec") EXCEPT !.title = "v", !.scope = <<"agent", "human">>,
                                        !.aux = a, !.provenanceRef = refs] :
              a \in 0..1, refs \in {<<>>, <<"p">>, <<"p", "q">>, <<"p", "", "p">>}}

MemoryOps == {[Op("AddMemory") EXCEPT !.provenanceRef = <<"src">>], Op("UpdateState")}

Pool(operations, size) == [operations |-> operations, size |-> size]

AllPools ==
    {Pool(DecisionOps, 2), Pool(ObligationOps, 2), Pool(RecordOps, 2),
     Pool(DecisionOps \cup RecordOps, 1)}
DecisionPool == {Pool(DecisionOps, 2)}
RecordPool == {Pool(RecordOps, 1)}
MemoryPool == {Pool(MemoryOps, 1)}
=============================================================================
