--------------------------- MODULE SnapshotCodec ---------------------------
(***************************************************************************)
(* The codec field by field.  serializeImpl and deserializeImpl are two    *)
(* separate walks over a snapshot, in a format without field names.  Here  *)
(* Put... is what the first writes of a value, and Read... what the second *)
(* finds at a position of some bytes, whatever bytes these are.  What the  *)
(* rest of the project uses of the codec (serializeImpl and                *)
(* deserializeImpl of CognitionTree) is checked against the two.           *)
(*                                                                         *)
(* Bytes are a sequence of cells, each a scalar as wide as the code writes *)
(* it: one byte, a four-byte count, an eight-byte id, or a text with its   *)
(* length.  Cutting into a cell is cutting before it, because the reader   *)
(* asks for the whole scalar first.  Reading a cell at another width would *)
(* yield garbage; the model says "Misread", which must not happen to what  *)
(* the writer wrote.                                                       *)
(***************************************************************************)
EXTENDS ControlPlane

\* The enumerations that ControlPlane does not name, in the order of their declarations.
Lifecycle        == <<"Proposed", "Accepted", "Superseded", "Rejected">>
SourceKind       == <<"UserStatement", "ChatSession", "GitCommit", "Audit",
                      "RepositoryFile", "CiRun">>
MemoryStatus     == <<"Active", "Superseded">>
TriggerKind      == <<"OnTouch", "Before", "After", "OnChange", "OnDate", "Manual">>
ConflictStatus   == <<"Open", "Resolved">>
WorkflowLayer    == <<"CanonicalLaw", "CapabilityProcedure", "RoleChoreography",
                      "EnvironmentErgonomics">>
OperationClasses == <<"DecisionAcceptance", "MemoryWrite", "ObligationWrite", "StateUpdate",
                      "ConflictWrite", "EvidenceWrite">>
Handoff          == <<"H_None", "H1_Execution", "H2_Review", "H3_Authority", "H4_RecoveryPresence">>
RefusalReason    == <<"GrantRefused", "UnverifiedActor", "StaleBase", "HandoffMissing",
                      "HandoffInvalid", "UnattendedMutation", "InvariantFailed",
                      "GovernanceDenied", "StoreDiverged", "OutcomeUnresolved", "KeyConflict",
                      "ConflictUnresolved">>
RecoveryAction   == <<"RereadRethink", "HaltEscalate", "DeferToSupervised", "DesignReview",
                      "FailClosed", "Block">>
Role             == <<"Owner", "Brother", "Worker">>
CapabilityClass  == <<"None", "LocalSupervised", "HostBrokered">>

---------------------------------------------------------------------------
(* Writing: the cells of what is written, in the order of the writer. *)

Cell(width, value) == [width |-> width, value |-> value]

PutText(value)   == <<Cell("text", value)>>
PutNumber(value) == <<Cell("u64", value)>>
PutFlag(value)   == <<Cell("u8", IF value THEN 1 ELSE 0)>>

\* An enumerator is written as its place in the declaration, from zero.
PutEnum(names, value) == <<Cell("u8", SelectInSeq(names, LAMBDA n : n = value) - 1)>>

PutOptional(parts) == <<Cell("u8", Len(parts))>> \o FlattenSeq(parts)

PutList(parts) == <<Cell("u32", Len(parts))>> \o FlattenSeq(parts)

PutTexts(texts) == PutList([i \in DOMAIN texts |-> PutText(texts[i])])

PutNumbers(numbers) == PutList([i \in DOMAIN numbers |-> PutNumber(numbers[i])])

PutEnums(names, values) == PutList([i \in DOMAIN values |-> PutEnum(names, values[i])])

PutHandoff(row) == FlattenSeq(<<PutEnum(OperationClasses, row.opClass),
                                PutEnum(Handoff, row.required), PutFlag(row.rootPrincipalOnly)>>)

PutRecovery(row) == FlattenSeq(<<PutEnum(RefusalReason, row.reason),
                                 PutEnum(RecoveryAction, row.action)>>)

PutSource(source) == FlattenSeq(<<PutEnum(SourceKind, source.kind),
                                  PutText(source.reference), PutText(source.note)>>)

PutProvenance(sources) == PutList([i \in DOMAIN sources |-> PutSource(sources[i])])

PutDecision(d) ==
    FlattenSeq(<<PutNumber(d.id), PutEnum(Lifecycle, d.status), PutText(d.title),
                 PutText(d.content), PutNumbers(d.supersedes), PutNumbers(d.supersededBy),
                 PutProvenance(d.provenance)>>)

\* A memory record's epistemic type and an obligation's trigger value.
NotWritten == <<>>

PutMemory(m) ==
    FlattenSeq(<<PutEnum(MemoryKind, m.kind), PutEnum(MemoryStatus, m.status), PutText(m.title),
                 PutText(m.statement), PutProvenance(m.provenance), NotWritten>>)

PutObligation(o) ==
    FlattenSeq(<<PutEnum(ObligationStatus, o.status), PutEnum(TriggerKind, o.trigger),
                 PutNumber(o.id), PutText(o.statement), PutText(o.completionCriteria),
                 NotWritten>>)

PutEvidence(e) == FlattenSeq(<<PutText(e.boundTo), PutText(e.content)>>)

PutConflict(c) ==
    FlattenSeq(<<PutText(c.id), PutEnum(ConflictStatus, c.status), PutText(c.scope),
                 PutText(c.description), PutText(c.resolution)>>)

PutProfile(p) ==
    FlattenSeq(<<PutText(p.id), PutText(p.kind), PutText(p.summary),
                 PutEnum(WorkflowLayer, p.layer)>>)

PutView(v) ==
    FlattenSeq(<<PutText(v.id), PutText(v.agent), PutText(v.human), PutText(v.summary),
                 PutTexts(v.profileRefs)>>)

\* What a format has since some version.
Since(first, version, part) == IF version >= first THEN part ELSE <<>>

PutRule(version, r) ==
    FlattenSeq(<<PutEnum(ActionKind, r.action),
                 Since(8, version, PutOptional([i \in DOMAIN r.claimClass |->
                                                  PutEnum(ClaimClass, r.claimClass[i])])),
                 PutEnum(RequirementKind, r.requirement),
                 Since(8, version, PutEnum(RequirementBoundary, r.boundary)),
                 PutText(r.subject), PutFlag(r.blocking)>>)

PutRole(r) ==
    FlattenSeq(<<PutEnum(Role, r.id), PutEnums(OperationClasses, r.authorities),
                 PutTexts(r.duties), PutFlag(r.reviewGradeReasoning),
                 PutEnum(CapabilityClass, r.execution), PutFlag(r.identityPortVerified),
                 PutProvenance(r.provenance)>>)

\* Version 8 is what this program writes.  The older ones are as their successors
\* describe them: 7 had policy rules only, 6 had no policy.
PutSnapshot(version, s) ==
    FlattenSeq(<<PutText(s.rootPrincipal), PutTexts(s.articles),
                 PutList([i \in DOMAIN s.handoff |-> PutHandoff(s.handoff[i])]),
                 PutList([i \in DOMAIN s.recovery |-> PutRecovery(s.recovery[i])]),
                 PutText(s.objective), PutText(s.current), PutText(s.checkpointRef),
                 PutText(s.candidateRef), PutText(s.nextBoundaryRef), PutText(s.repositories),
                 PutText(s.roadmap),
                 PutList([i \in DOMAIN s.decisions |-> PutDecision(s.decisions[i])]),
                 PutList([i \in DOMAIN s.memory |-> PutMemory(s.memory[i])]),
                 PutList([i \in DOMAIN s.obligations |-> PutObligation(s.obligations[i])]),
                 PutList([i \in DOMAIN s.evidence |-> PutEvidence(s.evidence[i])]),
                 PutList([i \in DOMAIN s.conflicts |-> PutConflict(s.conflicts[i])]),
                 PutList([i \in DOMAIN s.profiles |-> PutProfile(s.profiles[i])]),
                 PutList([i \in DOMAIN s.views |-> PutView(s.views[i])]),
                 Since(8, version, PutFlag(s.present)),
                 Since(7, version, PutList([i \in DOMAIN s.rules |-> PutRule(version, s.rules[i])])),
                 PutList([i \in DOMAIN s.roles |-> PutRole(s.roles[i])])>>)

\* The bytes of a snapshot, as a program of some version writes them.
Bytes(version, snapshot) == <<Cell("u8", version)>> \o PutSnapshot(version, snapshot)

---------------------------------------------------------------------------
(* Reading.  A reader of some kind of value is a function from a position  *)
(* in the bytes to what it reads there: the value and the position after   *)
(* it, or the first error it meets, after which nothing more is read.      *)

Positions(bytes) == 1..Len(bytes) + 1

Got(at, value) == [at |-> at, value |-> value, error |-> "None"]

Refused(error) == [at |-> 0, value |-> <<>>, error |-> error]

Failing(read) == read.error # "None"

Take(width, bytes, at) ==
    IF at > Len(bytes) THEN Refused("Truncated")
    ELSE IF bytes[at].width # width THEN Refused("Misread")
    ELSE Got(at + 1, bytes[at].value)

ReadText(bytes)   == [at \in Positions(bytes) |-> Take("text", bytes, at)]
ReadNumber(bytes) == [at \in Positions(bytes) |-> Take("u64", bytes, at)]

ReadFlag(bytes) ==
    [at \in Positions(bytes) |->
       LET raw == Take("u8", bytes, at)
       IN  IF Failing(raw) THEN raw ELSE Got(raw.at, raw.value # 0)]

\* Mutant: an unknown enumerator is read as the first one.
enumValue_Defaulted(bytes, names, limit) ==
    [at \in Positions(bytes) |->
       LET raw == Take("u8", bytes, at)
       IN  IF Failing(raw) THEN raw
           ELSE Got(raw.at, names[IF raw.value > limit THEN 1 ELSE raw.value + 1])]

\* The limit is the largest value the reader takes for an enumerator.
enumValue(bytes, names, limit) ==
    [at \in Positions(bytes) |->
       LET raw == Take("u8", bytes, at)
       IN  IF Failing(raw) THEN raw
           ELSE IF raw.value > limit THEN Refused("BadEnum")
           ELSE Got(raw.at, names[raw.value + 1])]

cappedCount(bytes, at) ==
    LET count == Take("u32", bytes, at)
    IN  IF ~Failing(count) /\ count.value > MaxRecords THEN Refused("ResourceAbuse") ELSE count

\* One value for every reader, each read where the one before it ended.
ReadAll(readers, start) ==
    LET read[n \in 0..Len(readers)] ==  \* after n readers
          LET sofar == read[n - 1]
              next  == readers[n][sofar.at]
          IN  IF n = 0 THEN Got(start, <<>>)
              ELSE IF Failing(sofar) THEN sofar
              ELSE IF Failing(next) THEN next
              ELSE Got(next.at, Append(sofar.value, next.value))
    IN  read[Len(readers)]

ReadOptional(bytes, item) ==
    [at \in Positions(bytes) |->
       LET present == ReadFlag(bytes)[at]
       IN  IF Failing(present) THEN present
           ELSE ReadAll(IF present.value THEN <<item>> ELSE <<>>, present.at)]

ReadList(bytes, item) ==
    [at \in Positions(bytes) |->
       LET count == cappedCount(bytes, at)
       IN  IF Failing(count) THEN count
           ELSE ReadAll([i \in 1..count.value |-> item], count.at)]

\* A record from the readers of its fields, named, in their order.
ReadRecord(bytes, fields) ==
    LET place(name) == CHOOSE i \in DOMAIN fields : fields[i][1] = name
    IN  [at \in Positions(bytes) |->
           LET read == ReadAll([i \in DOMAIN fields |-> fields[i][2]], at)
           IN  IF Failing(read) THEN read
               ELSE Got(read.at, [name \in {fields[i][1] : i \in DOMAIN fields} |->
                                    read.value[place(name)]])]

\* A field that is in no format, or not yet in the one that is read, keeps the
\* value it is declared with.
Declared(bytes, value) == [at \in Positions(bytes) |-> Got(at, value)]

ReadSince(first, version, bytes, item, value) ==
    IF version >= first THEN item ELSE Declared(bytes, value)

ReadTexts(bytes) == ReadList(bytes, ReadText(bytes))

ReadNumbers(bytes) == ReadList(bytes, ReadNumber(bytes))

ReadHandoff(bytes) ==
    ReadRecord(bytes, << <<"opClass", enumValue(bytes, OperationClasses, 5)>>,
                         <<"required", enumValue(bytes, Handoff, 4)>>,
                         <<"rootPrincipalOnly", ReadFlag(bytes)>> >>)

ReadRecovery(bytes) ==
    ReadRecord(bytes, << <<"reason", enumValue(bytes, RefusalReason, 11)>>,
                         <<"action", enumValue(bytes, RecoveryAction, 5)>> >>)

ReadSource(bytes) ==
    ReadRecord(bytes, << <<"kind", enumValue(bytes, SourceKind, 5)>>,
                         <<"reference", ReadText(bytes)>>, <<"note", ReadText(bytes)>> >>)

ReadProvenance(bytes) == ReadList(bytes, ReadSource(bytes))

\* Mutant: the two sides of a supersession are read in the wrong order.
ReadDecision_SidesSwapped(bytes) ==
    ReadRecord(bytes, << <<"id", ReadNumber(bytes)>>, <<"status", enumValue(bytes, Lifecycle, 3)>>,
                         <<"title", ReadText(bytes)>>, <<"content", ReadText(bytes)>>,
                         <<"supersededBy", ReadNumbers(bytes)>>,
                         <<"supersedes", ReadNumbers(bytes)>>,
                         <<"provenance", ReadProvenance(bytes)>> >>)

ReadDecision(bytes) ==
    ReadRecord(bytes, << <<"id", ReadNumber(bytes)>>, <<"status", enumValue(bytes, Lifecycle, 3)>>,
                         <<"title", ReadText(bytes)>>, <<"content", ReadText(bytes)>>,
                         <<"supersedes", ReadNumbers(bytes)>>,
                         <<"supersededBy", ReadNumbers(bytes)>>,
                         <<"provenance", ReadProvenance(bytes)>> >>)

ReadMemory(bytes) ==
    ReadRecord(bytes, << <<"kind", enumValue(bytes, MemoryKind, 5)>>,
                         <<"status", enumValue(bytes, MemoryStatus, 1)>>,
                         <<"title", ReadText(bytes)>>, <<"statement", ReadText(bytes)>>,
                         <<"provenance", ReadProvenance(bytes)>>,
                         <<"epistemic", Declared(bytes, "Observation")>> >>)

ReadObligation(bytes) ==
    ReadRecord(bytes, << <<"status", enumValue(bytes, ObligationStatus, 5)>>,
                         <<"trigger", enumValue(bytes, TriggerKind, 5)>>,
                         <<"id", ReadNumber(bytes)>>, <<"statement", ReadText(bytes)>>,
                         <<"completionCriteria", ReadText(bytes)>>,
                         <<"triggerValue", Declared(bytes, "")>> >>)

ReadEvidence(bytes) ==
    ReadRecord(bytes, << <<"boundTo", ReadText(bytes)>>, <<"content", ReadText(bytes)>> >>)

ReadConflict(bytes) ==
    ReadRecord(bytes, << <<"id", ReadText(bytes)>>,
                         <<"status", enumValue(bytes, ConflictStatus, 1)>>,
                         <<"scope", ReadText(bytes)>>, <<"description", ReadText(bytes)>>,
                         <<"resolution", ReadText(bytes)>> >>)

ReadProfile(bytes) ==
    ReadRecord(bytes, << <<"id", ReadText(bytes)>>, <<"kind", ReadText(bytes)>>,
                         <<"summary", ReadText(bytes)>>,
                         <<"layer", enumValue(bytes, WorkflowLayer, 3)>> >>)

ReadView(bytes) ==
    ReadRecord(bytes, << <<"id", ReadText(bytes)>>, <<"agent", ReadText(bytes)>>,
                         <<"human", ReadText(bytes)>>, <<"summary", ReadText(bytes)>>,
                         <<"profileRefs", ReadTexts(bytes)>> >>)

ReadRule(version, bytes) ==
    ReadRecord(bytes,
       << <<"action", enumValue(bytes, ActionKind, 13)>>,
          <<"claimClass", ReadSince(8, version, bytes,
                             ReadOptional(bytes, enumValue(bytes, ClaimClass, 4)), <<>>)>>,
          <<"requirement", enumValue(bytes, RequirementKind, 8)>>,
          <<"boundary", ReadSince(8, version, bytes,
                           enumValue(bytes, RequirementBoundary, 1), "BeforeJudgment")>>,
          <<"subject", ReadText(bytes)>>, <<"blocking", ReadFlag(bytes)>> >>)

ReadRole(bytes) ==
    ReadRecord(bytes, << <<"id", enumValue(bytes, Role, 2)>>,
                         <<"authorities", ReadList(bytes, enumValue(bytes, OperationClasses, 5))>>,
                         <<"duties", ReadTexts(bytes)>>,
                         <<"reviewGradeReasoning", ReadFlag(bytes)>>,
                         <<"execution", enumValue(bytes, CapabilityClass, 2)>>,
                         <<"identityPortVerified", ReadFlag(bytes)>>,
                         <<"provenance", ReadProvenance(bytes)>> >>)

ReadBody(version, bytes) ==
    ReadRecord(bytes,
       << <<"rootPrincipal", ReadText(bytes)>>, <<"articles", ReadTexts(bytes)>>,
          <<"handoff", ReadList(bytes, ReadHandoff(bytes))>>,
          <<"recovery", ReadList(bytes, ReadRecovery(bytes))>>,
          <<"objective", ReadText(bytes)>>, <<"current", ReadText(bytes)>>,
          <<"checkpointRef", ReadText(bytes)>>, <<"candidateRef", ReadText(bytes)>>,
          <<"nextBoundaryRef", ReadText(bytes)>>, <<"repositories", ReadText(bytes)>>,
          <<"roadmap", ReadText(bytes)>>,
          <<"decisions", ReadList(bytes, ReadDecision(bytes))>>,
          <<"memory", ReadList(bytes, ReadMemory(bytes))>>,
          <<"obligations", ReadList(bytes, ReadObligation(bytes))>>,
          <<"evidence", ReadList(bytes, ReadEvidence(bytes))>>,
          <<"conflicts", ReadList(bytes, ReadConflict(bytes))>>,
          <<"profiles", ReadList(bytes, ReadProfile(bytes))>>,
          <<"views", ReadList(bytes, ReadView(bytes))>>,
          <<"present", ReadSince(8, version, bytes, ReadFlag(bytes), FALSE)>>,
          <<"rules", ReadSince(7, version, bytes,
                        ReadList(bytes, ReadRule(version, bytes)), <<>>)>>,
          <<"roles", ReadList(bytes, ReadRole(bytes))>> >>)

\* Mutant: what follows the snapshot is not looked at.
AtEnd_Ignored(bytes, read) == read

\* What is left of the bytes after the snapshot is refused as well.
AtEnd(bytes, read) ==
    IF ~Failing(read) /\ read.at <= Len(bytes) THEN Refused("Truncated") ELSE read

\* The snapshot in some bytes, or the typed error and no snapshot.  A version 7
\* snapshot says that a policy is present by having rules.
ReadSnapshot(bytes) ==
    LET version == Take("u8", bytes, 1)
        read    == IF Failing(version) THEN version
                   ELSE IF version.value \notin SupportedVersions THEN Refused("BadVersion")
                   ELSE AtEnd(bytes, ReadBody(version.value, bytes)[version.at])
    IN  IF Failing(read) THEN [error |-> read.error, snapshot |-> <<>>]
        ELSE [error    |-> "None",
              snapshot |-> <<IF version.value = 7
                             THEN [read.value EXCEPT !.present = read.value.rules # <<>>]
                             ELSE read.value>>]

---------------------------------------------------------------------------
(* The snapshot of a tree: what CognitionTree leaves out because nothing   *)
(* changes or looks at it, and the rest in the shape it is written in.     *)

Source(kind, reference) == <<[kind |-> kind, reference |-> reference, note |-> ""]>>

HandoffRows(table) ==
    LET classes == Kept(OperationClasses, DOMAIN table.handoff)
    IN  [i \in DOMAIN classes |-> [opClass |-> classes[i], required |-> table.handoff[classes[i]],
                                   rootPrincipalOnly |-> FALSE]]

RecoveryRows(table) ==
    LET reasons == Kept(RefusalReason, DOMAIN table.recovery)
    IN  [i \in DOMAIN reasons |-> [reason |-> reasons[i], action |-> table.recovery[reasons[i]]]]

RoleOf(id, authorities, duties, reasoning, execution, identity) ==
    [id |-> id, authorities |-> authorities, duties |-> duties, reviewGradeReasoning |-> reasoning,
     execution |-> execution, identityPortVerified |-> identity,
     provenance |-> Source("RepositoryFile", "collaboration/operating-contract.md")]

default_role_specs ==
    <<RoleOf("Owner", OperationClasses,
             <<"ratify and supersede", "accept checkpoints", "delegate">>, FALSE, "None", TRUE),
      RoleOf("Brother", OperationClasses,
             <<"architecture and review", "disclosure duty", "escalate">>, TRUE, "None", FALSE),
      RoleOf("Worker", <<"StateUpdate", "EvidenceWrite">>, <<"no push without authorization">>,
             FALSE, "LocalSupervised", FALSE)>>

WholeDecision(d) == [d EXCEPT !.provenance = Source("UserStatement", @)]

WholeMemory(m) ==
    [kind |-> m.kind, epistemic |-> m.epistemic, status |-> "Active", title |-> m.title,
     statement |-> m.statement, provenance |-> Source("UserStatement", m.provenance)]

WholeObligation(o) ==
    [id |-> o.id, status |-> o.status, statement |-> o.statement, trigger |-> "Manual",
     triggerValue |-> "", completionCriteria |-> o.completionCriteria]

WholeProfile(p) ==
    [id |-> p.id, kind |-> p.kind, summary |-> p.summary, layer |-> "EnvironmentErgonomics"]

\* Two articles stand for the eighteen; texts stand for themselves.
Snapshot(tree, policy, roles) ==
    [rootPrincipal |-> tree.rootPrincipal,
     articles |-> <<"history is not overwritten", "provenance is required">>,
     handoff |-> HandoffRows(PolicyTable(tree)), recovery |-> RecoveryRows(PolicyTable(tree)),
     objective |-> "kernel design", current |-> tree.current, checkpointRef |-> "",
     candidateRef |-> "not-created", nextBoundaryRef |-> tree.nextBoundaryRef,
     repositories |-> "", roadmap |-> "",
     decisions |-> [i \in DOMAIN tree.decisions |-> WholeDecision(tree.decisions[i])],
     memory |-> [i \in DOMAIN tree.memory |-> WholeMemory(tree.memory[i])],
     obligations |-> [i \in DOMAIN tree.obligations |-> WholeObligation(tree.obligations[i])],
     evidence |-> tree.evidence, conflicts |-> tree.conflicts,
     profiles |-> [i \in DOMAIN tree.profiles |-> WholeProfile(tree.profiles[i])],
     views |-> tree.views, present |-> policy.present, rules |-> policy.rules, roles |-> roles]
=============================================================================
