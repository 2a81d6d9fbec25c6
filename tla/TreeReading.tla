---------------------------- MODULE TreeReading ----------------------------
(***************************************************************************)
(* What the readers of a tree can rely on while it evolves: participants   *)
(* through the read plane, actions through the control plane.  The state   *)
(* machine is TreeEvolution's; this module adds what the readers ask.      *)
(***************************************************************************)
EXTENDS TreeEvolution, ReadPlane, ControlPlane

CONSTANTS Budgets,    \* the token budgets bundles are asked for
          Policies,   \* the invocation policies a tree may carry
          Intents,    \* the actions participants propose
          Contracts   \* the declared tool invocations

ASSUME PolicyAssumption == Policies \subseteq InvocationPolicy

\* Budgets are counts, and texts are strings: they have a length, also with a
\* label in front of them.
ASSUME BudgetAssumption ==
    /\ Budgets \subseteq Nat
    /\ \A text \in Texts :
          /\ Len(text) \in Nat
          /\ \A label \in {"accepted: ", "lifecycle: "} : Len(label \o text) \in Nat

Packet(t, policy, intent) == build_preparation_packet(t, policy, intent)

\* A packet with the requirements on some subjects marked as satisfied.
Marked(packet, subjects) ==
    [packet EXCEPT !.requirements =
       [i \in DOMAIN packet.requirements |->
          LET p == packet.requirements[i]
          IN  IF p.subject \in subjects THEN mark_satisfied(p, <<"evidence">>) ELSE p]]

Subjects(policy, intent) == {p.subject : p \in ToSet(derive_requirements(policy, intent))}

Restored(t) == deserializeImpl(serializeImpl(t))

---------------------------------------------------------------------------
(* The read plane. *)

\* The tokens some candidates take.
Cost(candidates) ==
    LET cost[n \in 0..Len(candidates)] ==
          IF n = 0 THEN 0 ELSE cost[n - 1] + Estimate(candidates[n].summary)
    IN  cost[Len(candidates)]

\* The view resolution of a committed tree never fails on a stored view, whatever
\* order profiles and views were written in (gate 8 and resolve_view agree).
StoredViewsResolve ==
    \A v \in ToSet(tree.views) :
       /\ resolve_view(tree, v.id).kind = "None"
       /\ IsInjective(v.profileRefs)

\* Nothing disappears from a bundle: every decision and every memory record is
\* shown or explained once, or is a floor; the candidates stay within the budget,
\* and what was left out does not fit what is left of it (DR-007).
BundleAccountsForAll ==
    \A budget \in Budgets :
       LET bundle == build_bundle(tree, budget)
           used   == Cost(bundle.candidates)
       IN  /\ Len(bundle.candidates) + Len(bundle.omissions)
                + Len(bundle.mandatoryInputs.negative) = Len(tree.decisions) + Len(tree.memory)
           /\ \A d \in ToSet(tree.decisions) :
                 \E c \in ToSet(bundle.candidates \o bundle.omissions) :
                    c.kind = "decision" /\ c.id = d.id
           /\ used <= TokenBudget(budget)
           /\ \A c \in ToSet(bundle.omissions) : used + Estimate(c.summary) > TokenBudget(budget)

\* A participant who reads the floors sees what would stop its write: whatever
\* gate 7 blocks is blocked by a conflict that is shown, at any budget, and the
\* boundary shown is open work as long as obligation ids do not repeat (with
\* repeated ids the bundle may show a closed obligation, but never nothing).
FloorsShowWhatBlocks ==
    \A budget \in Budgets :
       LET floors == build_bundle(tree, budget).mandatoryInputs
       IN  /\ \A op \in {o \in pool.operations : Blocked(tree, o)} :
                 \E c \in ToSet(tree.conflicts) :
                    /\ c.scope \in {<<>>, op.scope}
                    /\ [id |-> c.id, description |-> c.description] \in floors.conflicts
           /\ \A ref \in ToSet(tree.nextBoundaryRef) :
                 /\ floors.boundary # <<>>
                 /\ Distinct(tree.obligations) => FindsOpen(findObligation(tree, ref))

\* Activation and reading depend on the stored bytes only: a restored tree gives
\* every participant the same bundle and every action the same packet.
RestoreKeepsReading ==
    /\ \A budget \in Budgets : build_bundle(Restored(tree), budget) = build_bundle(tree, budget)
    /\ \A policy \in Policies, intent \in Intents :
          Packet(Restored(tree), policy, intent) = Packet(tree, policy, intent)

---------------------------------------------------------------------------
(* The control plane. *)

\* Marking satisfies what a mechanism outside the tree has to do, but waives
\* nothing the tree has to answer: an action that is ready for execution, whatever
\* was marked, has a policy, and every blocking recall of it finds a record.
ExecutableMeansRecalled ==
    \A policy \in Policies, intent \in Intents :
       ready_for_execution(Marked(Packet(tree, policy, intent), Subjects(policy, intent))) =>
          /\ policy.present
          /\ \A rule \in {r \in ToSet(policy.rules) : r.blocking /\ Applies(r, intent)} :
                /\ rule.requirement = "MandatoryRecall" => Recalled(tree, rule.subject) # {}
                /\ rule.requirement = "InspectKnownPit" =>
                      \E f \in ToSet(intent.priorFailure) : find_related_records(tree, f) # {}

\* A policy that comes from an older format never lets through what the policy it
\* was written from would stop, whatever was marked: lost claim classes, boundaries
\* and presence are read as demanding more.
OlderFormatsNeverWeaken ==
    \A policy \in {p \in Policies : p.present}, intent \in Intents, version \in SupportedVersions \ {8} :
       \A subjects \in SUBSET Subjects(policy, intent) :
          LET older == Marked(Packet(tree, ReadInvocation(version, policy), intent), subjects)
              newer == Marked(Packet(tree, policy, intent), subjects)
          IN  /\ ready_for_judgment(older) => ready_for_judgment(newer)
              /\ ready_for_execution(older) => ready_for_execution(newer)

\* Cognition is only gained: an action whose recalls a tree answers is answered by
\* every later tree, over transactions and restores.
RecallOnlyGrows ==
    [][\A policy \in Policies, intent \in Intents :
          Packet(tree, policy, intent).failure = "None"
             => Packet(tree', policy, intent).failure = "None"]_vars

---------------------------------------------------------------------------
(* Retries and tools, against reference definitions.  The contract check   *)
(* is about no state: the instance assumes it and TLC evaluates it.        *)

Noise(word) == word.digits >= 4 \/ word.temporary

\* The prefixes of b that continue one of some prefixes with nothing but noise.
WithNoise(b, prefixes) ==
    {k \in 0..Len(b) : \E j \in prefixes : j <= k /\ \A n \in j + 1..k : Noise(b[n])}

\* The prefixes of b that align with one word more: it is noise, or the next word.
WithWord(b, word, prefixes) ==
    (IF Noise(word) THEN prefixes ELSE {})
      \cup {j \in 1..Len(b) : b[j] = word /\ j - 1 \in prefixes}

\* Two messages are the same up to noise: they align word by word when noise may
\* be skipped on either side.
SameUpToNoise(a, b) ==
    LET aligned[i \in 0..Len(a)] ==  \* the prefixes of b that align with i words of a
          WithNoise(b, IF i = 0 THEN {0} ELSE WithWord(b, a[i], aligned[i - 1]))
    IN  Len(b) \in aligned[Len(a)]

Failures == UNION {ToSet(intent.priorFailure) : intent \in Intents}

Words == UNION {ToSet(failure.stableMessage) : failure \in Failures}

\* An action carries at most one failure, and what a word looks like depends on
\* its text alone.
ASSUME FailureAssumption ==
    /\ \A intent \in Intents :
          intent.priorFailure \in Seq(FailureFingerprint) /\ Len(intent.priorFailure) <= 1
    /\ \A v, w \in Words : v.text = w.text => v = w

\* An action whose pits were recalled may retry a failure without new evidence only
\* if it is another operation or fails differently, and noise in the messages makes
\* no difference to that (V4-R3).
BlindRetryIsRefused ==
    \A policy \in Policies, candidate \in Intents, prior \in Failures :
       LET failures == IF candidate.priorFailure = <<>> THEN {prior} ELSE ToSet(candidate.priorFailure)
           same     == /\ candidate.tool = prior.tool /\ candidate.operation = prior.operation
                       /\ \A f \in failures : SameUpToNoise(f.stableMessage, prior.stableMessage)
       IN  candidate.kind = "RetryFailure" /\ ready_for_execution(Packet(tree, policy, candidate)) =>
              (retry_permitted(prior, candidate, FALSE) <=> ~same)

\* A contract is declared with its tool and its operation.
ASSUME ContractAssumption ==
    \A contract \in Contracts :
       contract.argvTemplate \in Seq(STRING) /\ "" \notin {contract.tool, contract.operation}

\* The invocation a contract constructs is accepted by that contract, unless it
\* asks for a subject the intent does not name, and by no contract that has
\* another fixed word in some place.
ConstructedIsAccepted ==
    \A contract \in Contracts, intent \in Intents :
       LET argv == construct_invocation(contract, intent)
       IN  /\ validate_invocation(contract, argv)
                <=> (Contains(contract.argvTemplate, "{subject}")
                       => intent.concepts # <<>> /\ Head(intent.concepts) # "")
           /\ \A other \in Contracts :
                 /\ validate_invocation(other, argv)
                 /\ \A i \in DOMAIN argv : ~is_placeholder(contract.argvTemplate[i])
                                             /\ ~is_placeholder(other.argvTemplate[i])
                 => other.argvTemplate = contract.argvTemplate
=============================================================================
