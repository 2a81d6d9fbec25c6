----------------------------- MODULE WorkCycle -----------------------------
(***************************************************************************)
(* Sessions that run LLM::work against the gated service.  A turn acquires *)
(* the lease, thinks, writes and ends with the release and what it makes   *)
(* of the verdict; other sessions' turns and the host's calls interleave   *)
(* between those service calls.  The host attaches the store, and boots    *)
(* and rebinds sessions between turns.                                     *)
(*                                                                         *)
(* The generator is opaque: it returns any request, or throws, and so may  *)
(* a store, also out of a swap that landed.  Nothing in work() catches:    *)
(* the turn is unwound and its grant, a local of the turn, is lost without *)
(* being released.  The turn budget's annotation of the next action is     *)
(* wording that nothing reads; it is left out, and a next action is named  *)
(* by the recovery it announces.                                           *)
(***************************************************************************)
EXTENDS QivenContext

CONSTANTS Sessions,  \* the LLM participants
          ActorOf,   \* the actor each session's human and client present
          WorkModes  \* the modes work() is called in; a client relays in one only

ASSUME SessionAssumption == ActorOf \in [Sessions -> Actors] /\ WorkModes \subseteq Modes

VARIABLES llm,     \* each LLM: bound handle, checkpoint, parked deltas
          turn,    \* each LLM's running work(): its place and its locals
          leaked   \* history: grants lost by turns that threw

sessionVars == <<llm, turn, leaked>>
cycleVars == <<vars, sessionVars>>

Steps == {"idle", "thinking", "writing", "concluding"}

NoTurn == [step |-> "idle", handle |-> NoHandle, grant |-> NoGrant,
           transaction |-> <<>>, verdict |-> <<>>]

NewCheckpoint ==
    [acceptedRefs |-> <<>>, unacceptedCandidates |-> <<>>, evidenceGaps |-> <<>>,
     knownGaps |-> "", nextAction |-> "", lastTrigger |-> "TurnBoundary",
     servingDisclosure |-> <<>>]

CycleInit ==
    /\ Init
    /\ llm = [s \in Sessions |-> [pCognition |-> NoHandle, checkpoint |-> NewCheckpoint,
                                  parkedDeltas |-> <<>>]]
    /\ turn = [s \in Sessions |-> NoTurn]
    /\ leaked = {}

---------------------------------------------------------------------------
(* The host, between turns. *)

Idle(s) == turn[s].step = "idle"

Attach(store) ==
    /\ g_store = "null"
    /\ attachStore(store)
    /\ UNCHANGED sessionVars

\* Bound: a handle and a revision are left for the write of a running turn.
Boot(s) ==
    /\ Idle(s) /\ Len(mats) + 1 < MaxHandles
    /\ create_canonical(NoRevision)
    /\ llm' = IF result'.verdict.outcome = "Threw" THEN llm
              ELSE [llm EXCEPT ![s].pCognition = result'.verdict.successor]
    /\ UNCHANGED <<turn, leaked>>

\* A participant takes over the cognition another one is bound to.
Rebind(s, other) ==
    /\ Idle(s) /\ llm[other].pCognition # NoHandle
    /\ llm' = [llm EXCEPT ![s].pCognition = llm[other].pCognition]
    /\ UNCHANGED <<vars, turn, leaked>>

---------------------------------------------------------------------------
(* LLM::work. *)

\* A competing flow holds the lease.
FailedClosed(session) ==
    [session EXCEPT !.checkpoint.lastTrigger = "TurnBoundary",
                    !.checkpoint.nextAction = "competing flow"]

\* Who actually serves the turn.
Disclosed(session, actor) ==
    [session EXCEPT !.checkpoint.servingDisclosure = <<actor.servingModel, actor.binding>>]

\* Mutant: the refusal of the lease is not looked at.
Work_GrantUnchecked(s, mode) ==
    /\ Idle(s) /\ llm[s].pCognition # NoHandle
    /\ Len(mats) < MaxHandles /\ Len(stores[g_store].revisions) < MaxRevisions
    /\ acquire_grant(ActorOf[s], mode)
    /\ turn' = [turn EXCEPT ![s] = [NoTurn EXCEPT !.step = "thinking",
                                                  !.handle = llm[s].pCognition,
                                                  !.grant = result'.grant]]
    /\ UNCHANGED <<llm, leaked>>

\* Step 1: pin the handle and take the lease, or fail closed.
Work(s, mode) ==
    /\ Idle(s) /\ llm[s].pCognition # NoHandle
    /\ Len(mats) < MaxHandles /\ Len(stores[g_store].revisions) < MaxRevisions
    /\ acquire_grant(ActorOf[s], mode)
    /\ \/ /\ result'.grant = NoGrant
          /\ llm' = [llm EXCEPT ![s] = FailedClosed(@)]
          /\ UNCHANGED turn
       \/ /\ result'.grant # NoGrant
          /\ llm' = [llm EXCEPT ![s] = Disclosed(@, ActorOf[s])]
          /\ turn' = [turn EXCEPT ![s] = [NoTurn EXCEPT !.step = "thinking",
                                                        !.handle = llm[s].pCognition,
                                                        !.grant = result'.grant]]
    /\ UNCHANGED leaked

\* Mutant: the transaction is not based on what was read.
Think_NoBase(s) ==
    /\ turn[s].step = "thinking"
    /\ \E request \in Requests :
          turn' = [turn EXCEPT ![s] =
             IF request.operations = <<>> THEN [@ EXCEPT !.step = "concluding"]
             ELSE [@ EXCEPT !.step = "writing",
                            !.transaction = <<WithBase(request, NoRevision)>>]]
    /\ UNCHANGED <<vars, llm, leaked>>

\* Steps 2 to 5: read, think, and propose a transaction on what was read.
Think(s) ==
    /\ turn[s].step = "thinking"
    /\ \E request \in Requests :
          turn' = [turn EXCEPT ![s] =
             IF request.operations = <<>> THEN [@ EXCEPT !.step = "concluding"]
             ELSE [@ EXCEPT !.step = "writing",
                            !.transaction = <<WithBase(request, mats[turn[s].handle].revision)>>]]
    /\ UNCHANGED <<vars, llm, leaked>>

\* An exception leaves work(): the turn is gone and its grant with it.
Unwound(s) ==
    /\ turn' = [turn EXCEPT ![s] = NoTurn]
    /\ leaked' = leaked \cup {turn[s].grant}

\* Step 6: the gated write, answered or thrown out of by the store.
Write(s) ==
    /\ turn[s].step = "writing"
    /\ write_to_cognition(turn[s].handle, turn[s].transaction[1], turn[s].grant)
    /\ IF result'.verdict.outcome = "Threw" THEN Unwound(s)
       ELSE /\ turn' = [turn EXCEPT ![s] = [@ EXCEPT !.step = "concluding",
                                                     !.verdict = <<result'.verdict>>]]
            /\ UNCHANGED leaked
    /\ UNCHANGED llm

\* The generator, or the write before its swap, throws.
Throw(s) ==
    /\ turn[s].step \in {"thinking", "writing"}
    /\ Unwound(s)
    /\ UNCHANGED <<vars, llm>>

\* A turn without material cognition.
OrdinaryTurn(session) == [session EXCEPT !.checkpoint.nextAction = "continue"]

\* The write was applied: rebind to the successor.
Accepted(session, verdict) ==
    [session EXCEPT
       !.pCognition = verdict.successor,
       !.checkpoint.acceptedRefs = Append(@, mats[verdict.successor].revision),
       !.checkpoint.lastTrigger = "MaterialTransaction",
       !.checkpoint.nextAction = "continue"]

\* Mutant: an unknown outcome leaves no gap.
Recovered_NoGap(session, t, verdict) ==
    LET action == recovery_for(mats[t.handle].state, verdict.reason)
        tx     == t.transaction[1]
        parks  == action = "RereadRethink"
    IN  [session EXCEPT
           !.checkpoint.unacceptedCandidates = Append(@, tx.base),
           !.checkpoint.knownGaps = IF parks THEN "delta parked" ELSE @,
           !.checkpoint.nextAction = action,
           !.parkedDeltas = IF parks THEN Append(@, tx) ELSE @]

\* Step 7: the recovery table of the pinned tree mandates the next action, and
\* only a re-read parks the delta.
Recovered(session, t, verdict) ==
    LET action == recovery_for(mats[t.handle].state, verdict.reason)
        tx     == t.transaction[1]
        parks  == action = "RereadRethink"
    IN  [session EXCEPT
           !.checkpoint.unacceptedCandidates = Append(@, tx.base),
           !.checkpoint.evidenceGaps =
              IF verdict.outcome = "OutcomeUnknown" THEN Append(@, tx.idempotencyKey) ELSE @,
           !.checkpoint.knownGaps = IF parks THEN "delta parked" ELSE @,
           !.checkpoint.nextAction = action,
           !.parkedDeltas = IF parks THEN Append(@, tx) ELSE @]

Concluded(session, t) ==
    IF t.verdict = <<>> THEN OrdinaryTurn(session)
    ELSE IF t.verdict[1].outcome = "Applied" THEN Accepted(session, t.verdict[1])
    ELSE Recovered(session, t, t.verdict[1])

\* Mutant: an ordinary turn returns without giving the lease back.
Conclude_OrdinaryKeepsLease(s) ==
    /\ turn[s].step = "concluding"
    /\ IF turn[s].verdict = <<>> THEN UNCHANGED vars ELSE release_grant(turn[s].grant)
    /\ llm' = [llm EXCEPT ![s] = Concluded(@, turn[s])]
    /\ turn' = [turn EXCEPT ![s] = NoTurn]
    /\ UNCHANGED leaked

\* Give the lease back and take the verdict into the session.
Conclude(s) ==
    /\ turn[s].step = "concluding"
    /\ release_grant(turn[s].grant)
    /\ llm' = [llm EXCEPT ![s] = Concluded(@, turn[s])]
    /\ turn' = [turn EXCEPT ![s] = NoTurn]
    /\ UNCHANGED leaked

TurnStep(s) == Think(s) \/ Write(s) \/ Throw(s) \/ Conclude(s)

CycleNext ==
    \/ \E store \in StoreIds : Attach(store)
    \/ \E s \in Sessions : Boot(s)
    \/ \E s, other \in Sessions : Rebind(s, other)
    \/ \E s \in Sessions, mode \in WorkModes : Work(s, mode)
    \/ \E s \in Sessions : TurnStep(s)

\* A turn that runs is a thread in straight-line code: its generator returns or
\* throws, and the only lock it waits for is the service's, held per call.
TurnsRun == \A s \in Sessions : WF_cycleVars(TurnStep(s))

CycleSpec == CycleInit /\ [][CycleNext]_cycleVars /\ TurnsRun

---------------------------------------------------------------------------
(* is_continueable for a session whose own plane (human, client, device) is *)
(* alive and consistent.                                                   *)

is_continueable(s) ==
    LET h == llm[s].pCognition
    IN  /\ h # NoHandle
        /\ g_store # "null" /\ mats[h].revision # NoRevision
        /\ verify(stores[g_store], mats[h].revision)
        /\ ActorOf[s].principal # "" /\ ActorOf[s].principal = mats[h].state.rootPrincipal
        /\ \A o \in ToSet(mats[h].state.obligations) : o.status # "Blocked"

---------------------------------------------------------------------------
(* Properties. *)

TurnOK(t) ==
    /\ t.step \in Steps
    /\ t.step # "idle" => t.handle \in Handles /\ t.grant \in DOMAIN grants
    /\ t.step = "writing" => \E request \in Requests :
          /\ request.operations # <<>>
          /\ t.transaction = <<WithBase(request, mats[t.handle].revision)>>
    /\ t.verdict # <<>> /\ t.verdict[1].outcome = "Applied" => t.verdict[1].successor \in Handles

\* A session is bound to, and a turn holds, handles and grants that exist; a turn
\* that writes has a material request based on what it read, and an applied verdict
\* names a materialization to rebind to.
CycleTypeOK ==
    /\ \A s \in Sessions : llm[s].pCognition \in Handles \cup {NoHandle} /\ TurnOK(turn[s])
    /\ leaked \subseteq DOMAIN grants

\* Single writer, seen from the participants: a running turn holds the active
\* lease all along, so no two turns run at once, and a lease that no turn holds
\* was lost by one that threw.
TurnHoldsTheLease ==
    /\ \A s \in Sessions : ~Idle(s) => turn[s].grant = g_activeGrantId
    /\ \A s, t \in Sessions : ~Idle(s) /\ ~Idle(t) => s = t
    /\ g_activeGrantId # NoGrant =>
          g_activeGrantId \in leaked \/ \E s \in Sessions : ~Idle(s)

\* Typed absence is neither lost nor invented: the keys in the sessions' evidence
\* gaps are exactly those whose receipt is unresolved, up to the turn that is
\* about to record one (P-31).
GapsMatchReceipts ==
    LET recorded == (UNION {ToSet(llm[s].checkpoint.evidenceGaps) : s \in Sessions}) \ {""}
        pending  == {turn[s].transaction[1].idempotencyKey :
                       s \in {t \in Sessions : /\ turn[t].verdict # <<>>
                                               /\ turn[t].verdict[1].outcome = "OutcomeUnknown"}}
        unknown  == {k \in DOMAIN g_receipts : g_receipts[k].outcome.outcome = "OutcomeUnknown"}
    IN  recorded \subseteq unknown /\ unknown \subseteq recorded \cup pending

\* A genesis whose acknowledgement was lost.
Stranded(h) ==
    /\ "OutcomeUnknown" \in StoreLosses /\ mats[h].revision = NoRevision
    /\ serializeImpl(mats[h].state) = serializeImpl(makeGenesis)

\* Whatever a session is bound to can be restored from the store and worked on,
\* so a host that checks is_continueable between turns is stopped only after the
\* acknowledgement of a genesis was lost.  The session is then bound to the
\* genesis tree without a revision, and none of its turns is ever applied, also
\* when that genesis landed.
BoundIsContinueable ==
    \A s \in Sessions :
       /\ llm[s].pCognition # NoHandle => is_continueable(s) \/ Stranded(llm[s].pCognition)
       /\ turn[s].verdict # <<>> /\ turn[s].verdict[1].outcome = "Applied"
             => mats[turn[s].handle].revision # NoRevision

\* A turn that reports its delta applied rebinds the session to a tree that is,
\* as stored, the tree it thought on with that delta applied once: also when the
\* verdict was a replayed receipt or the session shares its handle with another.
AppliedDeltaIsVisible ==
    [][\A s \in Sessions :
          /\ turn[s].step = "concluding" /\ turn[s].verdict # <<>>
          /\ turn[s].verdict[1].outcome = "Applied"
          /\ turn'[s].step = "idle"
          => serializeImpl(mats'[llm'[s].pCognition].state)
               = serializeImpl(ApplyTx(mats[turn[s].handle].state, turn[s].transaction[1]))]_cycleVars

\* Once genesis is stored, the head only moves in the write of a turn that was
\* thinking on that very head: no turn overwrites what it has not seen.
HeadMovesUnderThought ==
    [][\A store \in StoreIds :
          /\ stores[store].head # NoRevision
          /\ stores'[store] # stores[store]
          => \E s \in Sessions :
                /\ turn[s].step = "writing" /\ turn'[s].step # "writing"
                /\ mats[turn[s].handle].revision = stores[store].head]_cycleVars

\* The lease comes back from every turn, applied, refused, unknown or empty, but
\* not from one that threw (P-01 refuses every other flow meanwhile).  As a running
\* turn holds the lease, this also says that every turn ends.
LeaseIsReturned ==
    g_activeGrantId # NoGrant ~> (g_activeGrantId = NoGrant \/ g_activeGrantId \in leaked)

\* cognition-model.md section 6: after an unknown outcome "dependent mutations
\* stop until a receipt lookup resolves the key".
UnknownStopsDependentWork ==
    [][\A s \in Sessions :
          turn[s].step = "writing" /\ commits' # commits
             => llm[s].checkpoint.nextAction # "Block"]_cycleVars
=============================================================================
