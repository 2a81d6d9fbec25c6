------------------------ MODULE QivenContextHistory ------------------------
(***************************************************************************)
(* The service as an implementation of CanonicalHistory: what each store   *)
(* holds is one canonical history.  The mapping forgets everything but the *)
(* stored bytes.                                                           *)
(***************************************************************************)
EXTENDS QivenContext

StoredStates(s) == [i \in DOMAIN stores[s].revisions |-> stores[s].revisions[i].bytes]

Canonical(s) == INSTANCE CanonicalHistory
                   WITH log         <- StoredStates(s),
                        GenesisTree <- makeGenesis,
                        Written     <- serializeImpl,
                        ReadBack    <- deserializeImpl,
                        Gates       <- ContentGates,
                        Applied     <- ApplyTx

\* Refinement: whatever participants do with stale handles, stale grants, lost
\* acknowledgements and a second process on the same store, the stored states of
\* each store are one append-only history of admissible transitions.  This is
\* Canonical(s)!History for every store s, with the quantifier moved inwards to
\* where TLC evaluates it.
ImplementsCanonicalHistory ==
    /\ \A s \in StoreIds : Canonical(s)!Start
    /\ [][\A s \in StoreIds : [Canonical(s)!Step]_(StoredStates(s))]_vars
=============================================================================
