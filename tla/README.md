# Verification of the qiven context draft

The program is a reference implementation of a *gated project memory*: a pure value tree
(the cognition), a service through which participants read and write it under a
single-writer lease, and a store with compare-and-swap that keeps its revisions. This
directory models the tree, its gates and its readers, the service, and the sessions that
work on it in TLA+, checks small instances with TLC, and proves with TLAPS, for all values
of the parameters, the safety of the tree, of its readers, of the service and of its sessions,
and that the service implements the history of a canonical store.

Paths below are relative to the repository root; `persistence.cpp` is
`src/persistence.cpp`, and the headers are under `include/qiven/context/`.

## 1. Inventory

| Component | State | Operations | Interacts with |
| --- | --- | --- | --- |
| Cognition tree (`cognition.hpp`, gates and transition in `persistence.cpp` 703-835, 1226-1640) | a `Snapshot`: governance, policy table, state view, decisions, memory, obligations, evidence, conflicts, profiles, views | 13 operation kinds inside a transaction | judged and applied by the service's write |
| Codec (`persistence.cpp` 30-701) | none; a reader's position and first error while it runs | `serializeImpl`, `deserializeImpl` over the checked `Reader` | between tree and store, and for handoff artifacts |
| Store port and `MemoryStore` (`persistence.hpp` 58-104, `persistence.cpp` 897-949) | list of revisions, head | `compareAndSwap`, `materialize`, `verify`, `head` | shared by all processes attached to it |
| `GitStore` | none | every method throws | - |
| Service `QivenContext` (`persistence.cpp` 998-1746, 1948-2004) | live registry, epoch, attached store, identity port, active grant and its actor, receipts; all static and guarded by one mutex `g_admission` | `attachStore`, `attach_identity_verifier`, `create_cognition`, `retire_cognition`, `verify_restored`, `promote_authority`, `acquire_grant`, `release_grant`, `write_to_cognition` | tree, codec, store, identity port |
| Read plane (`persistence.cpp` 1748-1946, 2006-2044) | none | `resolve_view`, `build_bundle`, `RenderBundle`, `is_continueable` | pinned handles |
| Work cycle (`runtime.cpp`, `runtime.hpp` 574-701) | the session: bound handle, checkpoint, parked deltas; the locals of a running turn | `LLM::work` = acquire, read, think, write, release, recovery | service |
| Control plane (`runtime.hpp` 75-572) | none | requirements, preparation packet, tool contracts, retry rule | reads the tree |
| Role registry, designations | constant tables | none | read by nothing |
| Demonstration programs, Python tooling | - | - | not modelled |

**What is hard.** All service calls are serialised by `g_admission`, so there is no
interleaving inside a call; but any participant may hold any handle or grant it was ever
given, however stale, and call in any order. A store's acknowledgement can be lost, or its swap
throw, with the commit landed or not. Another process may move the store's head between two of our calls,
and between our look at the head and our genesis swap. The attached store and the identity
port can be exchanged while a lease is active. Inside one write, several operations are
judged against the tree *before* the transaction and applied one after the other. Trees
are published in memory and read back later from bytes that do not hold every field.

**What makes each part correct.** Tree: supersession reciprocal, acyclic and never
rewritten; ids unique; finished work and resolutions permanent; the boundary is standing work,
never what its own transaction opens or finishes; views resolve; what is written can be read
back. Store: one hash-linked history. Service: fenced commits, one lease, at most one commit
per key with a truthful and final receipt, no authority for restored artifacts, one live tree
per lineage, and altogether an append-only history of admissible transitions. Read plane: nothing is hidden without a word
and what would stop a write is always shown. Control plane: an action that is let through
was answered, by this tree and by every later one. Work cycle: each turn holds the lease
from its start, ends, and gives the lease back; what it reports applied is applied to what
it thought on; what is unknown is recorded as such. The hazards, each at its line, are in `PROJECT.json`.

## 2. Modules

| Module | Models |
| --- | --- |
| `CognitionTree` | the tree as a value: genesis, policy table, gates 6-9, `ApplyOp` / `ApplyTx`, and what the codec keeps of it. Operators only |
| `TreeEvolution` | one tree under admitted transactions of several operations (`Commit`) and reloads through the codec (`Reload`) |
| `MemoryStore` | the store as operators on a value `[revisions, head]`; `StoreAnswers` adds to the answer of a swap the `losses` it may have: a lost acknowledgement or an exception |
| `QivenContext` | the service: one action per state-changing call; composes `CognitionTree` and `MemoryStore` |
| `CanonicalHistory` | the abstract specification of a canonical store: genesis, then one admissible transaction after the other |
| `WorkCycle` | sessions that run `LLM::work`; composes any number of them with `QivenContext` |
| `ReadPlane` | `resolve_view` and `build_bundle`. Operators only |
| `ControlPlane` | invocation policy, preparation packet, retry rule, tool contracts. Operators only |
| `SnapshotCodec` | the codec field by field: the writer's and the reader's walk, versions 6 to 8, the checked reader. Operators only |
| `TreeReading` | `TreeEvolution`'s tree as its readers see it; composes it with `ReadPlane` and `ControlPlane` |
| `TreeStorage` | `TreeReading`'s trees on their way to bytes and back; composes it with `SnapshotCodec` |
| `QivenContextHistory` | the service as an implementation of `CanonicalHistory`: the refinement mapping |
| `MCTreeEvolution`, `MCTreeReading`, `MCQivenContext`, `MCWorkCycle` | constants for TLC |
| `CognitionTreeProofs` | lemmas about the tree's operators: transactions as a fold, what each kind of operation writes |
| `TreeEvolutionProofs`, `TreeReadingProofs` | theorems about the tree and its readers |
| `TreeStorageProofs` | theorems about the codec: what was written is read back, what is read was written so |
| `QivenContextProofs`, `QivenContextSafety`, `QivenContextRefinement` | theorems about the service |
| `WorkCycleProofs` | theorems about the sessions |

### Correspondence

`QivenContext` keeps the names of the code's statics. `mats` is the heap of every
`Materialization` ever minted (they are immutable, so a handle is an index), `g_live` the
registry in order of registration, `grants` every `ExecutionGrant` minted, `0` the empty
`GrantId` that a moved-from grant also carries, `stores` the contents of all stores that can
be attached. Two history variables serve the properties: `commits` records the service's own
commits that landed, `result` what the last call returned. No action reads `result`, so the
TLC configurations leave it out of the state's identity (`VIEW serviceState`); action
properties about `result'` are evaluated on every step all the same.

`create_cognition` is three actions: `create_canonical` (a given revision, the head, or a
new genesis), `create_from_artifact`, and `create_canonical_raced`, the genesis path when
another process creates the genesis between the look at the head and the swap (the
result of the swap is only asserted, and the assertion is compiled out in Release builds).
The genesis swap goes through the same port as a write. Its acknowledgement can be lost, which
leaves a promoted handle without a revision, or it can throw, which mints nothing; the genesis
has landed in either case or it has not. `StoreLosses` is what a run lets the store do.
`write_to_cognition` runs its gates in the order of the *code*: key, handle, lease,
identity, unattended, base, empty transaction, then 6 to 10. `ForeignGenesis` and
`ForeignCommit` are the same program in another process on a shared store, whose commits
pass the same content gates and swap.

`WorkCycle` keeps, per session, the `LLM`'s members `llm[s]` (handle, checkpoint, parked
deltas) and its running turn `turn[s]`: the locals of `work()` that survive from one service
call to the next (the pinned handle, the grant, the proposed transaction, the verdict).
A turn is cut where it calls the service, because that is where the lock is taken and given
up: `Work` is everything up to the grant or the refusal of it, `Think` the read and the
generator, `Write` the gated write, `Conclude` the release and what the turn makes of its
verdict. `release_grant` and the conclusion are one step since the conclusion touches only
the session's own members. `Throw` is an exception of the generator, or of the write before its
swap: nothing in `work()` catches, the grant is a local, and the lease stays; the service's
state is unchanged, because the swap is the write's first effect. A store that throws out of the
swap itself, landed or not, is an outcome of `Write`, after which the turn unwinds in the same
way (`Unwound`); such a commit is neither published nor remembered by a receipt, and `commits`
notes that it was not `answered`. `leaked` is a history variable that remembers the grants of
turns that threw. `Attach`, `Boot` and `Rebind` are what the programs do between
turns. A service call not made by a turn or by the host (retirement, restored artifacts,
promotion) is in `QivenContext` only. `is_continueable` is evaluated between calls.

`ReadPlane` and `ControlPlane` are pure functions; `TreeReading` asks them about every tree
that `TreeEvolution` reaches, for several budgets, policies and intents.

`CanonicalHistory` knows nothing of trees: the genesis, what is written of a tree, what is read
back, the gates and the transition are its parameters. `QivenContextHistory` maps a store to it
by the bytes of the revisions it holds, and gives it the operators of `CognitionTree`.

The codec is modelled twice. `serializeImpl` and `deserializeImpl` of `CognitionTree` say
what survives of a tree (everything but an epistemic type) and are what the other modules
and the proofs use; `SnapshotCodec` has the two walks of the code. What the first writes of a
record is `PutDecision`, `PutMemory`, ..., a sequence of cells; what the second makes of some
bytes is `ReadDecision`, `ReadMemory`, ..., for each position the value that starts there and
the position after it, or the first error (`Take`, `enumValue`, `cappedCount` are the methods of
`Reader`, `ReadAll` its `ok()` discipline). `StoredBytesReadBack` of `TreeStorage` checks that the
two walks do together what `CognitionTree` says, for every tree of the run; `CutIsRefused` and
`DamageIsRefused` look at bytes that nobody wrote. What is written in versions 6 and 7 is what
the predecessors of this program must have written to be read as the reader reads it; this
program writes version 8 only.

### Abstractions

- Text: `Texts` is the set of all texts, any set that holds `""` and the provenance `"pr"`
  (TLC: `STRING`, or where properties speak of every text the ones the run uses); `""` is
  empty, anything else is some non-empty text; a scope is the sequence of its `:`-separated
  parts, a list of refs the sequence of its `,`-separated parts.
- Digests and revision ids are injective: FNV-1a is replaced by the value itself.
- No operation changes the policy table, so a tree names its table; roles, invocation rules
  and constitution text are constant too and are left out of the tree.
- Bytes are a sequence of cells, one scalar or text each, tagged with the width it is written
  in. A cut inside a scalar is a cut before it. Reading a cell at another width is the
  reader's error "Misread", where the code would read on in garbage.
- `reachesDecision` is reachability in the supersession graph. The code's recursion does
  not return when the chain runs into a cycle; the model answers as if it had.
- `create_canonical` requires an attached store, which the code asserts.
- The identity port is the default root-principal verifier or `"revoked"`, a provider that
  vouches for nobody any more.
- `CompressedStream` throws before it changes anything and has no action.
- The generator is opaque: it proposes any of a set of requests, or throws. Sessions relay
  in `SupervisedForeground` mode, the client's default and the only one the programs use.
- A next action of the checkpoint is named by the recovery it announces; the turn budget's
  annotation of it is wording that nothing reads and is left out.
- A bundle's rendering, and the floors and constraints that every tree carries alike, are
  left out. Token estimates are taken over the lengths of the abstract texts, which
  `BudgetAssumption` says are numbers.
- Text search is equality: a record mentions a word when its title or statement is that
  word. A failure message is a sequence of words, each with its digits and whether it names
  a temporary path, which is all that normalisation looks at; `FailureAssumption` says that an
  action carries at most one failure and that this depends on the word's text alone.
- Tool contracts are declared with a tool and an operation (`ContractAssumption`), as the
  one the repository declares is (`tests/tool_and_retry.cpp:28`); `StorageAssumption` says that
  a list of the size of the policy table is within the reader's cap, a hundred thousand in the
  code.
- Requests are typed by `RequestsAssumption`: a request has some sequence of operations of the
  thirteen kinds, whose optional fields hold at most one value.
- The invocation policy, which no operation changes, is a parameter of the packet and not
  part of the tree; `PolicyAssumption` says that a policy is a list of rules over the code's
  enumerations; `ReadInvocation` is what the reader makes of it in each supported format.

## 3. Runs

Bounds are `MaxHandles`, `MaxGrants`, `MaxRevisions` (service), `MaxTreeRecords` and
a pool's `size` (tree) and the pools of operations, requests and artifacts in the MC
modules. The tree runs check deadlock; the service runs do not, because nothing obliges
anyone to call the service and the bounds end every behaviour.

| Run | Shows | Why the bounds suffice |
| --- | --- | --- |
| `TreeAdmitted` | supersession links reciprocal, statuses follow them, history never rewritten; the boundary is bound to work open before and after the transaction, finished work stays as it finished; stored views resolve, resolutions permanent; with single-operation transactions also acyclic supersession and unique ids. Readers: a bundle accounts for every record at any budget and shows what would block a write; a restored tree reads the same; an executable action was recalled, older formats never weaken a policy, recall only grows, blind retries are refused, constructed invocations validate. Codec: the reader takes every field the writer put where it put it, in three versions; cut, extended and corrupted artifacts restore nothing, and nothing that was not stored | five pools, each a life of the tree: (1) 4 decisions on 3 ids, every pair of supersessions in one transaction, ids repeat; (2) 4 obligations on 2 ids, so the first and a later record of an id differ in status, all 7 values of `aux`; (3) global and scoped conflicts, dangling and duplicated refs, every remaining kind, two per transaction; (4) all decision and record operations one by one; (5) records that recalls look for and records that only look like them. Budgets: the default, one below and one above a record; policies: the built-in one, scoped and unblocking rules, an empty one, none. Bytes: all policies, versions and the three default roles for trees of at most one record, one policy and the current version for larger ones, since a tree's layout does not depend on them; damage at every position of trees of at most one record, `MaxRecords` being the cap on any list (12, the number of recovery rows) |
| `ContextLease` | fencing, one lease, lease ends with its grant | 2 grants, 2 actors, 3 handles, a keyed and an unkeyed request, swaps that throw: a stale grant meets a newer commit, also one that nobody was told of |
| `ContextKeys` | at most one commit per key, truthful and final receipts, durability of what is promoted, stores are chains when they are exchanged | 2 stores, 3 revisions, two requests that share a key, lost acknowledgements, of a genesis too: a retry from a newer base and on another store. Nothing tells the two stores apart but what they hold, so exchanging their names is a symmetry |
| `ContextShared` | stores are chains, refinement of `CanonicalHistory` | a second process, reviewed and self-reviewed decisions, 3 revisions |
| `ContextQuarantine` | restore is not authority, one live tree per lineage | 4 handles: restore, verification, a canonical tree and a commit in one behaviour; 4 artifacts (sound, damaged, old version, empty), revoked port |
| `WorkCycle` | a turn holds the lease, gaps match receipts, what is bound can be worked on, an applied delta is visible, the head moves only under thought, the lease comes back | 2 sessions that may share a handle, 2 grants, 4 handles, 3 revisions, lost acknowledgements, swaps and generators that throw, two requests of one key: a session resumes on a superseded handle, replays a key or finds an unknown one |

Each property of these runs is broken by a mutant of a mapped definition
(`PROJECT.json`); the mutated forms stand before the definitions they change.
`ConstructedIsAccepted` is about no state; `MCTreeReading` assumes it and TLC evaluates it
over the declared contracts and intents when the run starts.

The remaining runs each show a disagreement between the code and what the repository says:

| Run | Counterexample |
| --- | --- |
| `TreeCycle` | `[supersede 1 by 2, supersede 2 by 1]` in one transaction closes a cycle; two appends of one id in one transaction reuse it for the same reason |
| `TreeResolve` | the resolving transaction of DR-006 is refused |
| `TreeEpistemic` | a verified memory record is read back as an observation |
| `ContextLeaseOrder` | a replayed key is answered Applied to a caller without the lease |
| `ContextGenesisRace` | a promoted handle without a storage identity, after another process created the genesis first; a lost acknowledgement of the genesis, which the passing runs contain, leads there as well |
| `CycleUnknown` | a session whose last commit outcome is unknown takes its next turn and commits on the tree the unknown commit was based on |

More limits of the code have no run of their own:

- An obligation id can be reused, and the boundary's lookup then finds the first, possibly
  finished, obligation although another one is open.
- A view id is refused as a duplicate only when `aux` is 0, and only `aux` 1 retires a
  view; any other `aux` appends a second view with the id, which resolution never finds.
- `resolve_view` looks for empty and dangling refs but not for repeated ones, which its
  diagnostic names; gate 8 keeps them out of stored views, so the two agree on those.
- No gate bounds a list, while the reader refuses lists beyond 100000 records, so a head can
  become unreadable.
- A finished obligation can turn Done: a close marks the first obligation of its id, also when
  the open one it means comes later, and that one stays open. `TerminalObligationsStay` allows
  this one change (`ClosedForAnother`) and no other.
- After a lost genesis acknowledgement the session is bound to a handle without a revision. It
  cannot be continued, and no turn on it is applied, also when the genesis landed.
- A swap that throws after its commit landed leaves no receipt, so a retry of its key can commit
  again from the new head.
- Receipts live in the process and a restart forgets them (DR-011 says so).
- A delta is parked only when recovery says reread. Refused for any other reason it is
  not kept; `docs/architecture/process-model.md:27` says "refused: per-reason mandated
  action; deltas park, never vanish", which may be read either way.
- `StoreDiverged` is answered fail closed, so a session bound behind the store's head stays
  there until its host rebinds it.
- A placeholder that construction does not know stays in the invocation verbatim, and
  validation accepts it.
- The registry of roles is empty in genesis, no operation adds one, and nothing reads
  `effective_authorities`.

**Fairness.** `WorkCycle` assumes weak fairness of each running turn (`TurnsRun`) and
nothing else. The code justifies it: `work()` is straight-line code on its participant's
thread, the generator it calls returns or throws, and the only lock it takes is the
service's, which is held for one call at a time and waits for nobody. Nothing is assumed of
the host, or that a turn is ever started. Under it `LeaseIsReturned` holds: the lease comes
back from every turn except one that threw. All other properties are safety and use no
fairness; the service alone promises no progress.

## 4. Proofs

TLC decides the properties of section 3 for the pools, actors and bounds of its
configurations. The theorems below hold for any of them.

### The tree

`TreeEvolutionProofs` proves every invariant and action property of `TreeEvolution`, for any
texts, any pools of operations of the code's shape, any length of transactions and any
size of the tree (`TextAssumption`, `EvolutionBounds`, `MaxRecordsAssumption`).

A transaction is a fold over its operations and a lookup a minimum over indexes. The library's
induction theorems take an operator as parameter and cannot be used, so `CognitionTreeProofs`
proves, from the least element of a set of numbers, an induction over *sets* of numbers
(`SetInduction`), that the recursive functions of the model exist (`AfterExists`,
`KeptExists`), and for `ApplyTx` the rule `ApplyTxInduction`: a set of trees that holds the
first tree and is closed under each operation holds the last one.

The difficulty is that gate 8 judges each operation on the tree *before* the transaction, and
the operation is applied to what the earlier ones have left. Each proof therefore relates the
two trees by what a transaction has made of the one so far; the relation holds after any number
of operations, and at the end of it gives the invariant again.

| Theorem | Argument |
| --- | --- |
| `TypeCorrect` | one case per kind of operation (`OpKeepsTrees`); what is found under an id is one of the records |
| `SupersessionIsReciprocal`, `StatusFollowsHistory`, `HistoryStays` | `Follows`: old decisions keep their place and only gain links; links name ids the tree had (`LinksInOrder`). A decision that one transaction supersedes several times keeps a successor, and each link is written on both sides |
| `FinishedWorkStays` | ids repeat and a transition rewrites every obligation with its id, finished ones too. It needs the first one of the id to be open, and the inductive `OpenLast` says that the open ones of an id are its last, so then all of them are (`Continues`). Where the first is finished, gate 8 refuses a transition, and a close touches that first one alone (`ClosedForAnother`) |
| `ResolutionStays` | conflicts that share an id share their status (`OneStatus`), so the one that gate 8 finds open stands for all (`Settles`) |
| `BoundaryStaysStandingWork` | a boundary that is kept was open work before (`BoundaryStaysOpen`, from gate 9), and gate 8 binds it only to an obligation that was. Gate 9 finds an open one of that id in the tree about to be published. Nothing reopens an obligation and none is moved, so without repeated ids the two are one |
| `IdsStayUnique`, `SupersessionIsAcyclic` | transactions of one operation, since with more both are false in the code (`TreeCycle`). Acyclicity is a ranking in which each decision supersedes lower ones only. What excludes a cycle is that the accepted successor has no successor yet and names no other predecessor, not `reachesDecision` |

### The readers of the tree

`TreeReadingProofs` proves every property of `TreeReading`, for any budgets, policies, intents and
contracts (`PolicyAssumption`, `BudgetAssumption`, `FailureAssumption`, `ContractAssumption`).

| Theorem | Argument |
| --- | --- |
| `ViewsAlwaysResolve` | inductive (`ViewsResolve`): profiles are never removed (`Gains`), a new view has passed gate 8 on a tree with no more profiles, and a view with a repeated id is found as some stored view |
| `FloorsShowBlocks` | the bundle and gate 7 look at the same open conflicts; `BoundaryStaysOpen` gives the boundary |
| `ExecutableIsRecalled` | a failed recall is remembered in the packet's failure, which marking leaves alone |
| `OlderNeverWeakens` | version 6 is read as no policy; each rule that applies has a version 7 reading that applies too and gates judgment whenever the rule gates either boundary |
| `RecallGrows` | memory records and profiles stay with the fields that recalls read (`Gains`) |
| `RestoreReadsAlike` | a restored tree differs in epistemic types only, and what is kept of its lists, shown in bundles or found by recalls is the same place by place (`KeptAlike`) |
| `BundlesAccount` | induction over what is listed: each candidate is taken or explained, and the sum that is kept is the cost of what was taken (`SelectExplains`, `CostAppend`). It only grows, so what did not fit when it was looked at does not fit in the end |
| `BlindRetriesRefused` | the reference aligns two messages word by word and may skip noise on either side. `AlignedRow`: the prefixes of one message that align with `i` words of the other are those of which the same is left when noise is dropped; so two messages align exactly if their normalised texts agree |
| `ConstructedAccepted` | place by place: a place is checked unless it is a placeholder, and construction changes placeholders only |

### The codec

`TreeStorageProofs` has three theorems about every tree the specification reaches, in two
directions.

*What was written is read back.* A reader reads a part of the bytes (`Reads`) when, wherever
the bytes agree with that part as far as they go, it ends behind it with the value that was
written, or says that the bytes are truncated (`Outcome`). Scalars are read so by definition.
`AllRead` shows it of readers in sequence, by induction over the readers, and `ListReads`,
`OptionalReads` and `RecordReads` of what is made of such; then there is one lemma per kind of
record, up to `BodyReads` with its 21 fields in each supported version. `SnapshotIsStored` shows
that what a reachable tree puts into its snapshot has the types the format has room for.

*What is read was written so.* A reader is faithful (`Faithful`) to what is written of some
values if, of any bytes, it reads one of these values and what is written of this value is what
stood there. The same ladder (`AllHeld`, `ListFaithful`, `OptionalFaithful`, `RecordFaithful`, one
lemma per record, `BodyFaithful`) ends in `SnapshotFaithful`: whatever bytes are restored, of any
origin, are the bytes of what is restored, up to flags that any byte but zero sets.

| Theorem | Argument |
| --- | --- |
| `StoredReadsBack` | the first direction, for all policies and versions; what comes back is the tree that `deserializeImpl` of `CognitionTree` and `ReadInvocation` give (`StoredIsRestored`), so everything else that is proved of restored trees is about these bytes |
| `TornBytesRefused` | the first direction again: a prefix agrees with the bytes as far as it goes, so the outcome is "truncated"; longer bytes leave something behind the snapshot |
| `DamageRefused` | the second direction: corrupted bytes are still cells, and a changed version byte is no version |

They hold for any policies and texts, and for trees that are within the reader's cap (`Readable`);
the tree's head beyond it cannot be read at all, which the code does not prevent.

### The service

`QivenContextProofs` proves `TypeCorrect`, that `TypeOK` is invariant, with one lemma per
action. `TypeOK` (heap, registry and receipts; stores; lease) is inductive as stated, and
also says which quarantine states are reachable: nothing ever becomes `AuthorityPending`.

`QivenContextSafety` first describes what a step may do, in lemmas about the lease
(kept, acquired when free, or released by its holder), the heap and registry (kept, shrunk,
one minted, or one replaced by a copy of the same lineage), the commits (kept, or one
appended under the active grant), the receipts (kept, or one new key) and the stores (kept, or one
appended on the head). Each property then needs one or two of them:

| Theorem | Argument |
| --- | --- |
| `LeaseIsSingle`, `LeaseEnds` | inductive from the lease lemma |
| `Fencing` | a commit carries the active grant, which by `LeaseIsLatestGrant` is the last minted, hence no smaller than any earlier commit's; its mode comes from gate 4 |
| `ReceiptsStay` | a step only adds a receipt for a key that has none |
| `KeysCommitOnce`, `ReceiptsTellTheTruth` | neither is inductive alone: a second commit of a key is excluded because the first, if its swap returned, left a receipt. The invariant is their conjunction `KeyInv`: a commit with a key needs the key to have no receipt, so by coverage no earlier commit has it |
| `RestoreStaysWithoutAuthority` | promotion is only for `AuthorityPending`, which `TypeOK` excludes; lineage and quarantine of a minted copy follow its origin |
| `OneEntryPerLineage` | a new epoch is larger than all, a replaced entry keeps its epoch |
| `StoresStayChains` | the swap appends on the head only; an id contains its predecessor's, so ids do not repeat |
| `PromotedStaysDurable` | `DurabilityInv` adds two facts. What stores hold is canonical: reading it and writing it again changes nothing, so digests agree on both sides of the codec (`WrittenIsCanonical`). And every handle that names a revision is backed by a store that holds it; stores only grow, and each action that mints a handle mints a backed one |

These theorems hold for any actors, requests, artifacts, stores and ports, any size of heap
and store, with or without a second process, lost acknowledgements and swaps that throw. They rest on
`ServiceAssumption` and `MaxRecordsAssumption` and on the injective digests, and treat the
tree's gates and transition as opaque: none depends on what a transaction contains.

### The refinement

`QivenContextRefinement` proves `StoreIsCanonicalHistory`, that for each store every behaviour of
the service is one of `CanonicalHistory`, and `ServiceImplementsHistory`, the same as the runs
check it. The step to show is that a write, which is judged on and applied to the tree of a
*handle*, stores what the same transaction makes of the tree that the store's head is *read back*
to. The two trees are not equal, since the codec loses epistemic types; they are `Alike`, which
is: written to the same bytes. The lemmas go through the code that could tell alike trees
apart: every lookup, each content gate (`GatesJudgeAlike`) and each operation
(`OperationKeepsAlike`) treat them alike, hence so does a transaction (`RequestKeepsAlike`). That
the handle's tree is alike to the head's is `HistoryInv` (what is stored or promoted is a tree)
with `DurabilityInv`: the base gate compares revision ids, an id holds its bytes, and a promoted
handle shows what its revision holds. An empty store cannot be written, because the identity
gate needs a head to verify. This is the first place where a request's shape matters, and where
`RequestsAssumption` is used.

`GovernedInvariant` reads the result off: every stored revision keeps the root principal of
genesis, which no operation writes, and has no blocked obligation, since gate 8 refuses every
`aux` that would set one.

### The sessions

`WorkCycleProofs` lifts all this to sessions. `CycleInv` is the service's `TypeOK`, the shape
of sessions and turns (`SessionShape`) and `CycleTypeOK`. Every step of a session or its host
is a step of the service or leaves it alone (`CycleStepIsServiceStep`, one case per service
call), hence `CycleRefinesService`, and with it `CycleKeepsServiceSafety`: what is proved of
the service holds of the composition. `OneTurnAtATime` is inductive over `CycleInv`;
`HeadMovesWhenSeen` follows from it and from the service's base gate: the head that the swap
compares is the one the turn's pinned handle was read from, whether the store then answers or not.

The last part of the module is about what a session has in hand afterwards.

| Theorem | Argument |
| --- | --- |
| `GapsAreTruthful` | `GapInv`: a key is unresolved exactly if it is a gap of some session or the answer of the turn in progress, and only recovery, on that answer, records one |
| `BoundStaysContinueable` | a bound handle is held by the attached store or is a genesis whose acknowledgement was lost (`HandlesAreHeld`). If held, its tree reads back to one alike to it, which is governed by `GovernedInvariant`. It assumes `OwnersServe`: `is_continueable` accepts governance by the root principal's own sessions only, and the programs run no others. If not, it has no revision, and what is applied, fresh or replayed, was based on one (`TurnDelivers`) |
| `AppliedDeltaShows` | a fresh verdict names the handle just minted. A replayed one names the handle that the receipt of the earlier write gave out (`ReceiptsDeliver`); its base was the revision this turn is based on, and handles of one revision are alike (`SameRevisionIsAlike`) |

### Only model-checked

- `LeaseIsReturned` is liveness under fairness, out of reach together with `ENABLED`.
  All other properties of the passing runs are theorems.
- The six properties of the runs that end in a counterexample are false.
- What `reachesDecision` answers: reachability of the community module `Graphs` is opaque to the
  provers. The proofs never need it.
- `MCTreeReading` also has TLC evaluate `ConstructedIsAccepted` over its declared contracts.

## 5. State of the plan

Done: the tree and its gates, the store, the service and its abstract history; the work cycle
with its liveness; the read plane; the control plane; the codec; proofs of every safety property
of the tree, its readers, the codec, the service and the sessions, and of the refinement of the
abstract history.

Left, should the project be continued:

1. Retirement and restored artifacts as host calls of `WorkCycle`, between the turns of
   sessions that are bound to what is retired. The programs make none.
2. A restart in the middle of a turn. The service forgets its receipts and leases and the
   session its checkpoint, so the composition starts over on the store that is left.
3. Corruption that changes the length of a field: it needs cells of single bytes, where
   `Misread` becomes whatever the code reads.

## 6. Not modelled

- `GitStore`: a sketch whose methods all throw.
- The role registry's accessors and session designations (`cognition.hpp` 482-499,
  `persistence.hpp` 205-220, `runtime.hpp` 23-74): tables and lookups that no gate, action
  or packet uses. `primitive_judgment_precondition_met` returns the one flag it is given.
- The growth of the live registry: a created handle stays until it is retired, and the
  code sets no bound. The models bound the number of materializations.
- Rendering of bundles, diagnostics, the turn budget's wording, `CompressedStream`.
- Byte order and integer widths of the codec, FNV-1a.
- The data race of `is_continueable` on `g_store`: the programs attach the store once,
  before any turn, and so does `WorkCycle`.
- The demonstration programs (scripts of modelled calls), Python tooling and the build.
