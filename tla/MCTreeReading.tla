--------------------------- MODULE MCTreeReading ---------------------------
(***************************************************************************)
(* Instances of TreeStorage for TLC: the pools of MCTreeEvolution and one  *)
(* of records that recalls look for, read under several policies.          *)
(***************************************************************************)
EXTENDS MCTreeEvolution, TreeStorage

\* Recalled by title or profile id, pits and what only looks like one.
RecallOps ==
    {[Op("AddMemory") EXCEPT !.provenanceRef = <<"src">>, !.title = t, !.aux = a] :
        t \in {"naming policy", "gate"}, a \in {0, 3}}
      \cup {[Op("AddMemory") EXCEPT !.provenanceRef = <<"src">>, !.payload = "gate", !.aux = 1],
            [Op("UpsertProfile") EXCEPT !.title = "reference integrity sweep (P-52)",
                                        !.scope = <<"workflow">>],
            [Op("AppendDecision") EXCEPT !.recordId = 1, !.title = "title"],
            [Op("AppendDecision") EXCEPT !.recordId = 2, !.title = "title"],
            [Op("SupersedeDecision") EXCEPT !.recordId = 1, !.successorRecordId = 2]}

ReadingPools == AllPools \cup {Pool(RecallOps, 1)}

\* The texts that operations of these pools bring.
UsedTexts ==
    {"", "pr"} \cup UNION {{op.title, op.payload} \cup ToSet(op.scope) \cup ToSet(op.provenanceRef) :
                            op \in UNION {p.operations : p \in ReadingPools}}

SmallBudgets == {0, 4, 6}

ScopedPolicy ==
    [present |-> TRUE,
     rules |-> <<[Rule("CreateCppSymbol", "MandatoryRecall", "BeforeExecution", "gate")
                    EXCEPT !.claimClass = <<"LiveFact">>],
                 [Rule("CreateCppSymbol", "MandatoryRecall", "BeforeJudgment", "naming policy")
                    EXCEPT !.blocking = FALSE],
                 Rule("CreateCppSymbol", "VerifyLive", "BeforeExecution", "live source")>>]
SomePolicies ==
    {default_invocation_policy, ScopedPolicy,
     [present |-> TRUE, rules |-> <<>>], [present |-> FALSE, rules |-> <<>>]}

PlainWord(text) == [text |-> text, digits |-> 0, temporary |-> FALSE]
Stamp == [text |-> "20260920T1415", digits |-> 12, temporary |-> FALSE]
TempPath == [text |-> "tmp/x", digits |-> 0, temporary |-> TRUE]
Failure(tool, category, message) ==
    [operation |-> "gate", tool |-> tool, category |-> category, stableMessage |-> message]

Intent(kind) ==
    [kind |-> kind, claimClass |-> "LocalRecall", concepts |-> <<"local">>, tool |-> "qiven",
     operation |-> "gate", priorFailure |-> <<>>]
SomeIntents ==
    {Intent(kind) : kind \in {"BeginTask", "IntroducePrimitive", "ModifyReferencedContract",
                              "Publish", "RetryFailure"}}
      \cup {[Intent("CreateCppSymbol") EXCEPT !.claimClass = c] : c \in {"LocalRecall", "LiveFact"}}
      \cup {[Intent("InvokeTool") EXCEPT !.tool = "", !.concepts = <<>>],
            [Intent("InvokeTool") EXCEPT !.operation = ""]}
      \cup {[Intent("RetryFailure") EXCEPT !.priorFailure = <<f>>] :
              f \in {Failure("qiven", "gate", <<PlainWord("failed"), Stamp>>),
                     Failure("qiven", "", <<Stamp, PlainWord("failed"), TempPath>>),
                     Failure("gate", "", <<PlainWord("failed"), PlainWord("late")>>),
                     Failure("", "", <<TempPath>>)}}

\* The real gate contract, one that takes everything from the intent and one with
\* a placeholder the builder does not know.
SomeContracts ==
    {[tool |-> "qiven", operation |-> "gate", argvTemplate |-> template] :
        template \in {<<"python", "gate", "{subject}">>, <<"{tool}", "{operation}">>,
                      <<"python", "{operation}", "{unknown}">>, <<"python", "gate", "--all">>}}

ASSUME DeclaredInvocations == ConstructedIsAccepted
=============================================================================
