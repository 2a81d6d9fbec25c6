---------------------------- MODULE ControlPlane ----------------------------
(***************************************************************************)
(* The control plane: what an action's policy rules demand before it is    *)
(* judged and before it is executed, which of the demands the tree meets,  *)
(* when a failed action may be retried, and how the declared invocation of *)
(* a tool is built and checked.  Pure functions of a tree, a policy and an *)
(* intent; no operation changes the policy a tree carries, so it is a      *)
(* parameter here.                                                         *)
(*                                                                         *)
(* Text is compared, never searched: a record mentions a word when its     *)
(* title or its statement is that word.  A packet's mandatory context and  *)
(* known pits are the evidence of its requirements, and its discretionary  *)
(* needs are carried and never read.                                       *)
(***************************************************************************)
EXTENDS CognitionTree

\* The enumerations of a policy, in the order of their declarations.
ActionKind       == <<"BeginTask", "EnterDomain", "CreateCppSymbol", "IntroducePrimitive",
                      "ModifyArchitecture", "ModifyPublicAPI", "InvokeTool", "RetryFailure",
                      "MakeCanonicalClaim", "MakeLiveClaim", "ModifyReferencedContract", "Commit",
                      "Publish", "AcceptCandidate">>
ClaimClass       == <<"LocalRecall", "CanonicalFact", "LiveFact", "EvidenceInterpretation",
                      "Judgment">>
RequirementKind  == <<"MandatoryRecall", "SearchLowerLayer", "VerifyCanonical", "VerifyLive",
                      "InspectToolContract", "InspectKnownPit", "RunMechanicalCheck",
                      "RequestReview", "AskHuman">>
RequirementBoundary == <<"BeforeJudgment", "BeforeExecution">>

\* A rule without a claim class is about every claim.
InvocationRule ==
    [action : ToSet(ActionKind), claimClass : {<<>>} \cup {<<c>> : c \in ToSet(ClaimClass)},
     requirement : ToSet(RequirementKind), boundary : ToSet(RequirementBoundary),
     subject : STRING, blocking : BOOLEAN]

InvocationPolicy == [present : BOOLEAN, rules : Seq(InvocationRule)]

Rule(action, requirement, boundary, subject) ==
    [action |-> action, claimClass |-> <<>>, requirement |-> requirement,
     boundary |-> boundary, subject |-> subject, blocking |-> TRUE]

\* The subjects nothing looks up are shortened.
default_invocation_policy ==
    [present |-> TRUE,
     rules |-> <<
       Rule("CreateCppSymbol", "MandatoryRecall", "BeforeJudgment", "naming policy"),
       Rule("IntroducePrimitive", "SearchLowerLayer", "BeforeJudgment", "eligible lower layers"),
       Rule("InvokeTool", "InspectToolContract", "BeforeExecution", "declared tool argv contract"),
       Rule("RetryFailure", "InspectKnownPit", "BeforeJudgment", "failure fingerprint"),
       Rule("MakeCanonicalClaim", "VerifyCanonical", "BeforeJudgment", "canonical record"),
       Rule("MakeLiveClaim", "VerifyLive", "BeforeJudgment", "live source"),
       Rule("ModifyReferencedContract", "MandatoryRecall", "BeforeJudgment", "reference integrity sweep (P-52)"),
       Rule("Commit", "RunMechanicalCheck", "BeforeExecution", "attribution lint"),
       Rule("Publish", "RunMechanicalCheck", "BeforeExecution", "gate receipt"),
       Rule("Publish", "RequestReview", "BeforeExecution", "H2 exact-delta review"),
       Rule("AcceptCandidate", "RequestReview", "BeforeExecution", "content-bound H2 evidence")>>]

\* Mutant: a version 7 rule without a boundary gates execution only.
ReadInvocation_Late(version, policy) ==
    CASE version = 8 -> policy
      [] version = 7 -> [present |-> policy.rules # <<>>,
                         rules   |-> [i \in DOMAIN policy.rules |->
                                        [policy.rules[i] EXCEPT !.claimClass = <<>>,
                                                                !.boundary = "BeforeExecution"]]]
      [] version = 6 -> [present |-> FALSE, rules |-> <<>>]

\* What is read of a policy that was written in an older format: version 7 knew
\* neither claim classes, boundaries nor an empty policy, version 6 no policy.
ReadInvocation(version, policy) ==
    CASE version = 8 -> policy
      [] version = 7 -> [present |-> policy.rules # <<>>,
                         rules   |-> [i \in DOMAIN policy.rules |->
                                        [policy.rules[i] EXCEPT !.claimClass = <<>>,
                                                                !.boundary = "BeforeJudgment"]]]
      [] version = 6 -> [present |-> FALSE, rules |-> <<>>]

---------------------------------------------------------------------------
(* The preparation packet. *)

Applies(rule, intent) ==
    rule.action = intent.kind /\ rule.claimClass \in {<<>>, <<intent.claimClass>>}

derive_requirements(policy, intent) ==
    LET rules == Kept(policy.rules, {rule \in ToSet(policy.rules) : Applies(rule, intent)})
    IN  [i \in DOMAIN rules |->
           [kind |-> rules[i].requirement, subject |-> rules[i].subject,
            blocking |-> rules[i].blocking, boundary |-> rules[i].boundary,
            status |-> "Pending", evidence |-> {}]]

\* The records an exact key recalls.
Recalled(tree, subject) ==
    {<<m.title, m.statement>> : m \in {r \in ToSet(tree.memory) : r.title = subject}}
      \cup {<<p.id, p.summary>> : p \in {r \in ToSet(tree.profiles) : r.id = subject}}

\* An empty selector matches nothing.
Mentions(record, word) == word # "" /\ word \in {record.title, record.statement}

\* Risks and lessons that mention the failed tool or the failure's category.
find_related_records(tree, fingerprint) ==
    {<<m.title, m.statement>> : m \in {r \in ToSet(tree.memory) :
        /\ r.kind \in {"Risk", "Lesson"}
        /\ Mentions(r, fingerprint.tool) \/ Mentions(r, fingerprint.category)}}

\* The recall requirements are resolved against the tree; what they do not find
\* fails when it blocks.  All others wait for a mechanism outside the tree.
Resolved(tree, intent, prepared) ==
    LET found == IF prepared.kind = "MandatoryRecall" THEN Recalled(tree, prepared.subject)
                 ELSE UNION {find_related_records(tree, f) : f \in ToSet(intent.priorFailure)}
    IN  IF prepared.kind \notin {"MandatoryRecall", "InspectKnownPit"} THEN prepared
        ELSE [prepared EXCEPT !.evidence = found,
                              !.status = IF found # {} THEN "Satisfied"
                                         ELSE IF prepared.blocking THEN "Failed" ELSE @]

\* Mutant: a recall that fails only shows in its requirement.
build_preparation_packet_NoFailure(tree, policy, intent) ==
    LET derived == derive_requirements(policy, intent)
    IN  IF ~policy.present THEN [failure |-> "InvocationPolicyMissing", requirements |-> <<>>]
        ELSE [failure |-> "None",
              requirements |-> [i \in DOMAIN derived |-> Resolved(tree, intent, derived[i])]]

build_preparation_packet(tree, policy, intent) ==
    LET derived  == derive_requirements(policy, intent)
        prepared == [i \in DOMAIN derived |-> Resolved(tree, intent, derived[i])]
    IN  IF ~policy.present THEN [failure |-> "InvocationPolicyMissing", requirements |-> <<>>]
        ELSE [failure |-> IF \E p \in ToSet(prepared) : p.status = "Failed"
                          THEN "RequiredRecallMissing" ELSE "None",
              requirements |-> prepared]

mark_satisfied(prepared, evidence) ==
    [prepared EXCEPT !.status = "Satisfied", !.evidence = @ \cup {evidence}]

Gates(prepared) == prepared.blocking /\ prepared.status # "Satisfied"

ready_for_judgment(packet) ==
    /\ packet.failure = "None"
    /\ ~\E p \in ToSet(packet.requirements) : Gates(p) /\ p.boundary = "BeforeJudgment"

ready_for_execution(packet) ==
    packet.failure = "None" /\ ~\E p \in ToSet(packet.requirements) : Gates(p)

---------------------------------------------------------------------------
(* Failures and retries.  A message is a sequence of words, each with its  *)
(* text, its number of digits and whether it names a temporary path.       *)

Word == [text : STRING, digits : Nat, temporary : BOOLEAN]

FailureFingerprint ==
    [operation : STRING, tool : STRING, category : STRING, stableMessage : Seq(Word)]

\* Mutant: only the first word may be noise.
normalize_failure_text_Leading(message) ==
    LET Noise(word) == word.digits >= 4 \/ word.temporary
        kept == IF message # <<>> /\ Noise(message[1]) THEN Tail(message) ELSE message
    IN  [i \in DOMAIN kept |-> kept[i].text]

normalize_failure_text(message) ==
    LET kept == Kept(message, {word \in ToSet(message) : word.digits < 4 /\ ~word.temporary})
    IN  [i \in DOMAIN kept |-> kept[i].text]

\* A retry that carries no failure of its own stands for the prior one.
retry_permitted(prior, candidate, hasNewEvidence) ==
    LET failure == IF candidate.priorFailure = <<>> THEN prior ELSE candidate.priorFailure[1]
    IN  \/ hasNewEvidence
        \/ <<candidate.tool, candidate.operation>> # <<prior.tool, prior.operation>>
        \/ normalize_failure_text(failure.stableMessage)
             # normalize_failure_text(prior.stableMessage)

---------------------------------------------------------------------------
(* Declared tool invocations: a template of fixed words and placeholders.  *)

is_placeholder(word) == word \in {"{operation}", "{tool}", "{subject}", "{unknown}"}

OrElse(text, default) == IF text = "" THEN default ELSE text

\* A placeholder the builder does not know stays as it is.
Substituted(contract, intent, word) ==
    CASE word = "{operation}" -> OrElse(intent.operation, contract.operation)
      [] word = "{tool}"      -> OrElse(intent.tool, contract.tool)
      [] word = "{subject}"   -> IF intent.concepts = <<>> THEN "" ELSE Head(intent.concepts)
      [] OTHER                -> word

construct_invocation(contract, intent) ==
    [i \in DOMAIN contract.argvTemplate |->
        Substituted(contract, intent, contract.argvTemplate[i])]

validate_invocation(contract, argv) ==
    /\ Len(argv) = Len(contract.argvTemplate)
    /\ \A i \in DOMAIN argv :
          IF is_placeholder(contract.argvTemplate[i]) THEN argv[i] # ""
          ELSE argv[i] = contract.argvTemplate[i]
=============================================================================
