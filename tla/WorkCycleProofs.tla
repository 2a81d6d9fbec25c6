-------------------------- MODULE WorkCycleProofs --------------------------
(***************************************************************************)
(* What holds of the work cycle for any number of sessions, actors and     *)
(* requests.  Every step of a cycle is a step of the service or leaves it  *)
(* alone, so what is proved of the service holds of the cycle; on top of   *)
(* that, a running turn holds the lease.                                   *)
(*                                                                         *)
(* What a session may rely on follows.  Its evidence gaps are the          *)
(* service's unresolved keys: the write that leaves a key unresolved and   *)
(* the conclusion that records it are separate steps, with any number of   *)
(* other sessions' steps between them.  What it is bound to stays          *)
(* continueable, but for a genesis whose acknowledgement was lost.  And    *)
(* when its turn ends with an applied verdict, it is bound to its own      *)
(* delta, whatever happened since the turn began.                          *)
(***************************************************************************)
EXTENDS WorkCycle, QivenContextRefinement

\* The sessions are functions to records with the fields LLM and work() have.
IsSession(x) == x = [f \in {"pCognition", "checkpoint", "parkedDeltas"} |-> x[f]]

IsTurn(t) == t = [f \in {"step", "handle", "grant", "transaction", "verdict"} |-> t[f]]

SessionShape ==
    /\ llm = [s \in Sessions |-> llm[s]] /\ turn = [s \in Sessions |-> turn[s]]
    /\ \A s \in Sessions : IsSession(llm[s]) /\ IsTurn(turn[s])

CycleInv == TypeOK /\ SessionShape /\ CycleTypeOK

---------------------------------------------------------------------------
(* What the calls of a turn return. *)

\* Booting returns a handle that exists, or none.
LEMMA BootReturns ==
    ASSUME TypeOK, NEW revision, create_canonical(revision), TypeOK'
    PROVE  result'.verdict.successor \in Handles' \cup {NoHandle}
<1> DEFINE Good == result'.verdict.successor \in Handles' \cup {NoHandle}
<1>1. ASSUME NEW call, NEW reason, NEW g, Failed(call, reason) \/ Threw(call, g) PROVE Good
  BY <1>1 DEF Failed, Threw, Return, Verdict
<1>2. ASSUME NEW call, NEW bytes, NEW id, NEW quarantine,
             Materialize(call, bytes, id, quarantine)
      PROVE  Good
  <2>1. CASE DeserializeError(bytes) # "None"
    BY <1>1, <1>2, <2>1 DEF Materialize
  <2>2. CASE DeserializeError(bytes) = "None"
    <3>1. result'.verdict.successor = Len(mats) + 1
      BY <1>2, <2>2 DEF Materialize, Return, Verdict
    <3>2. \E m : mats' = Append(mats, m)
      BY <1>2, <2>2 DEF Materialize
    <3>3. IsSequence(mats)
      BY DEF TypeOK, HeapOK
    <3>. QED
      BY <3>1, <3>2, <3>3, AppendFacts DEF Handles
  <2>. QED
    BY <2>1, <2>2
<1>. QED
  BY <1>1, <1>2 DEF create_canonical

LEMMA GrantSequence ==
    ASSUME LeaseOK
    PROVE  IsSequence(grants)
  BY DEF LeaseOK, IsSequence, Range

\* Acquiring returns the grant it has just made active, or none and changes nothing.
LEMMA AcquireReturns ==
    ASSUME TypeOK, NEW actor, NEW mode, acquire_grant(actor, mode)
    PROVE  /\ UNCHANGED <<mats, stores, g_receipts, commits, g_store>>
           /\ DOMAIN grants \subseteq DOMAIN grants'
           /\ \/ /\ result'.grant = NoGrant
                 /\ UNCHANGED <<grants, g_activeGrantId>>
              \/ /\ g_activeGrantId = NoGrant
                 /\ result'.grant = g_activeGrantId'
                 /\ g_activeGrantId' \in DOMAIN grants' /\ g_activeGrantId' # NoGrant
<1>1. Len(grants) \in Nat /\ DOMAIN grants = 1..Len(grants)
  BY GrantFacts DEF TypeOK
<1>2. UNCHANGED <<mats, stores, g_receipts, commits, g_store>>
  BY DEF acquire_grant
<1>3. CASE result'.grant = NoGrant /\ UNCHANGED <<grants, g_activeGrantId>>
  BY <1>2, <1>3
<1>4. CASE /\ g_activeGrantId = NoGrant /\ g_activeGrantId' = Len(grants) + 1
           /\ result'.grant = Len(grants) + 1 /\ \E e : grants' = Append(grants, e)
  <2>1. DOMAIN grants' = 1..Len(grants) + 1
    BY <1>4, AppendFacts, GrantSequence DEF TypeOK
  <2>2. DOMAIN grants \subseteq DOMAIN grants' /\ Len(grants) + 1 \in DOMAIN grants'
    BY <1>1, <2>1
  <2>3. Len(grants) + 1 # NoGrant
    BY <1>1 DEF NoGrant
  <2>4. g_activeGrantId' \in DOMAIN grants' /\ g_activeGrantId' # NoGrant
    BY <1>4, <2>2, <2>3
  <2>. QED
    BY <1>2, <1>4, <2>2, <2>4
<1>5. ASSUME Failed("acquire", "None") PROVE result'.grant = NoGrant
  BY <1>5 DEF Failed, Return
<1>6. CASE g_activeGrantId # NoGrant
  BY <1>3, <1>5, <1>6 DEF acquire_grant
<1>7. CASE g_activeGrantId = NoGrant /\ ~Verifies(g_identity', actor)
  BY <1>3, <1>5, <1>7 DEF acquire_grant
<1>8. CASE g_activeGrantId = NoGrant /\ Verifies(g_identity', actor)
  <2>1. grants' = Append(grants, [mode |-> mode, epoch |-> g_epoch, principal |-> actor.principal])
    BY <1>8 DEF acquire_grant
  <2>2. g_activeGrantId' = Len(grants) + 1 /\ result'.grant = Len(grants) + 1
    BY <1>8 DEF acquire_grant, Return
  <2>. QED
    BY <1>4, <1>8, <2>1, <2>2
<1>. QED
  BY <1>6, <1>7, <1>8

\* A write that is answered Applied names a successor that exists, also when the
\* answer is the recorded one.
LEMMA WriteReturns ==
    ASSUME TypeOK, NEW h \in Handles, NEW tx, NEW g, write_to_cognition(h, tx, g),
           Handles \subseteq Handles'
    PROVE  result'.verdict.outcome = "Applied" => result'.verdict.successor \in Handles'
<1> DEFINE Good == result'.verdict.outcome = "Applied" => result'.verdict.successor \in Handles'
<1>1. CASE HasReceipt(tx) /\ WriteReplay(tx, g)
  <2>1. tx.idempotencyKey \in DOMAIN g_receipts
    BY <1>1 DEF HasReceipt
  <2>2. \/ result'.verdict = g_receipts[tx.idempotencyKey].outcome
        \/ result'.verdict.outcome = "Refused"
    BY <1>1 DEF WriteReplay, Return, Verdict
  <2>. QED
    BY <2>1, <2>2 DEF TypeOK, HeapOK
<1>2. ASSUME NEW reason, WriteRefused(reason, g) PROVE Good
  BY <1>2 DEF WriteRefused, Return, Verdict
<1>3. CASE WriteNothing(h, g)
  BY <1>3 DEF WriteNothing, Return, Verdict
<1>4. CASE WriteThrough(h, tx, g)
  <2>1. PICK bytes, answer : WriteAnswered(h, tx, g, bytes, answer)
    BY <1>4 DEF WriteThrough
  <2>2. CASE result'.verdict.outcome \in {"Refused", "OutcomeUnknown", "Threw"}
    BY <2>2
  <2>3. CASE /\ PublishSuccessor(h, tx, bytes, answer.revision)
             /\ result'.verdict.successor = Len(mats) + 1
    <3>1. \E m : mats' = Append(mats, m)
      BY <2>3 DEF PublishSuccessor, Replace
    <3>2. IsSequence(mats)
      BY DEF TypeOK, HeapOK
    <3>. QED
      BY <2>3, <3>1, <3>2, AppendFacts DEF Handles
  <2>. QED
    BY <2>1, <2>2, <2>3 DEF WriteAnswered, Threw, Return, Verdict
<1>. QED
  BY <1>1, <1>2, <1>3, <1>4 DEF write_to_cognition

\* The write of a turn is answered, or the store throws out of it.
Answered(s) ==
    /\ result'.verdict.outcome # "Threw" /\ leaked' = leaked
    /\ turn' = [turn EXCEPT ![s] = [turn[s] EXCEPT !.step = "concluding",
                                                   !.verdict = <<result'.verdict>>]]

LEMMA WriteOfATurn ==
    ASSUME NEW s \in Sessions, Write(s)
    PROVE  /\ turn[s].step = "writing" /\ llm' = llm
           /\ write_to_cognition(turn[s].handle, turn[s].transaction[1], turn[s].grant)
           /\ Answered(s) \/ (result'.verdict.outcome = "Threw" /\ Unwound(s))
  BY DEF Write, Answered

\* Booting binds the session to what was created, unless the store threw.
LEMMA BootOfASession ==
    ASSUME NEW s \in Sessions, Boot(s)
    PROVE  /\ create_canonical(NoRevision) /\ turn' = turn /\ leaked' = leaked
           /\ \/ llm' = llm
              \/ llm' = [llm EXCEPT ![s].pCognition = result'.verdict.successor]
  BY DEF Boot

---------------------------------------------------------------------------
(* Every step of the cycle is a step of the service, or leaves it alone. *)

LEMMA CycleStepIsServiceStep ==
    ASSUME CycleInv, [CycleNext]_cycleVars
    PROVE  [Next]_vars
<1>1. ASSUME NEW store \in StoreIds, Attach(store) PROVE Next
  BY <1>1 DEF Attach, Next
<1>2. ASSUME NEW s \in Sessions, Boot(s) PROVE Next
  BY <1>2 DEF Boot, Next
<1>3. ASSUME NEW s \in Sessions, NEW mode \in WorkModes, Work(s, mode) PROVE Next
  <2>1. acquire_grant(ActorOf[s], mode)
    BY <1>3 DEF Work
  <2>2. ActorOf[s] \in Actors /\ mode \in Modes
    BY <1>3, SessionAssumption
  <2>. QED
    BY <2>1, <2>2 DEF Next
<1>4. ASSUME NEW s \in Sessions, Write(s) PROVE Next
  <2>1. TurnOK(turn[s]) /\ turn[s].step = "writing"
    BY <1>4 DEF CycleInv, CycleTypeOK, Write
  <2>2. turn[s].handle \in Handles /\ turn[s].grant \in GrantIds
    BY <2>1 DEF TurnOK, GrantIds
  <2>3. PICK request \in Requests :
           turn[s].transaction = <<WithBase(request, mats[turn[s].handle].revision)>>
    BY <2>1 DEF TurnOK
  <2>4. mats[turn[s].handle].revision \in RevisionsSeen
    BY <2>2 DEF RevisionsSeen
  <2>5. write_to_cognition(turn[s].handle, WithBase(request, mats[turn[s].handle].revision),
                           turn[s].grant)
    BY <1>4, <2>3 DEF Write
  <2>. QED
    BY <2>2, <2>4, <2>5 DEF Next
<1>5. ASSUME NEW s \in Sessions, Conclude(s) PROVE Next
  <2>1. turn[s].grant \in GrantIds
    BY <1>5 DEF CycleInv, CycleTypeOK, TurnOK, Conclude, GrantIds
  <2>. QED
    BY <1>5, <2>1 DEF Conclude, Next
<1>6. ASSUME NEW s \in Sessions, NEW other \in Sessions,
             Rebind(s, other) \/ Think(s) \/ Throw(s)
      PROVE  UNCHANGED vars
  BY <1>6 DEF Rebind, Think, Throw
<1>7. UNCHANGED cycleVars => UNCHANGED vars
  BY DEF cycleVars
<1>. QED
  BY <1>1, <1>2, <1>3, <1>4, <1>5, <1>6, <1>7 DEF CycleNext, TurnStep

---------------------------------------------------------------------------
(* The sessions keep their shape. *)

\* What work() makes of a session is a session, bound to what the verdict says.
LEMMA SessionUpdates ==
    ASSUME NEW session, IsSession(session), NEW actor, NEW t, NEW verdict
    PROVE  /\ IsSession(FailedClosed(session))
           /\ FailedClosed(session).pCognition = session.pCognition
           /\ IsSession(Disclosed(session, actor))
           /\ Disclosed(session, actor).pCognition = session.pCognition
           /\ IsSession(OrdinaryTurn(session))
           /\ OrdinaryTurn(session).pCognition = session.pCognition
           /\ IsSession(Accepted(session, verdict))
           /\ Accepted(session, verdict).pCognition = verdict.successor
           /\ IsSession(Recovered(session, t, verdict))
           /\ Recovered(session, t, verdict).pCognition = session.pCognition
<1>1. /\ IsSession(FailedClosed(session))
      /\ FailedClosed(session).pCognition = session.pCognition
  BY DEF IsSession, FailedClosed
<1>2. /\ IsSession(Disclosed(session, actor))
      /\ Disclosed(session, actor).pCognition = session.pCognition
  BY DEF IsSession, Disclosed
<1>3. /\ IsSession(OrdinaryTurn(session))
      /\ OrdinaryTurn(session).pCognition = session.pCognition
  BY DEF IsSession, OrdinaryTurn
<1>4. /\ IsSession(Accepted(session, verdict))
      /\ Accepted(session, verdict).pCognition = verdict.successor
  BY DEF IsSession, Accepted
<1>5. /\ IsSession(Recovered(session, t, verdict))
      /\ Recovered(session, t, verdict).pCognition = session.pCognition
  BY ZenonT(30) DEF IsSession, Recovered
<1>. QED
  BY <1>1, <1>2, <1>3, <1>4, <1>5

LEMMA FailedClosedBinding ==
    ASSUME NEW session, IsSession(session), NEW actor
    PROVE  /\ FailedClosed(session).pCognition = session.pCognition
           /\ Disclosed(session, actor).pCognition = session.pCognition
  BY SessionUpdates

LEMMA ConcludedSession ==
    ASSUME NEW session, IsSession(session), NEW t
    PROVE  /\ IsSession(Concluded(session, t))
           /\ \/ Concluded(session, t).pCognition = session.pCognition
              \/ /\ t.verdict # <<>> /\ t.verdict[1].outcome = "Applied"
                 /\ Concluded(session, t).pCognition = t.verdict[1].successor
<1>1. CASE t.verdict = <<>>
  BY <1>1, SessionUpdates DEF Concluded
<1>2. CASE t.verdict # <<>> /\ t.verdict[1].outcome = "Applied"
  BY <1>2, SessionUpdates DEF Concluded
<1>3. CASE t.verdict # <<>> /\ t.verdict[1].outcome # "Applied"
  BY <1>3, SessionUpdates DEF Concluded
<1>. QED
  BY <1>1, <1>2, <1>3

\* Only one session's turn changes in a step.
LEMMA ShapeKept ==
    ASSUME SessionShape, [CycleNext]_cycleVars
    PROVE  SessionShape'
<1>1. ASSUME NEW s \in Sessions, NEW x, IsSession(x), NEW t, IsTurn(t),
             llm' = [llm EXCEPT ![s] = x] \/ llm' = llm,
             turn' = [turn EXCEPT ![s] = t] \/ turn' = turn
      PROVE  SessionShape'
  BY <1>1 DEF SessionShape
<1>2. ASSUME NEW s \in Sessions, Boot(s) PROVE SessionShape'
  <2>1. PICK x : IsSession(x) /\ (llm' = [llm EXCEPT ![s] = x] \/ llm' = llm)
    <3>1. IsSession([llm[s] EXCEPT !.pCognition = result'.verdict.successor])
      BY DEF SessionShape, IsSession
    <3>2. \/ llm' = llm
          \/ llm' = [llm EXCEPT ![s] = [llm[s] EXCEPT !.pCognition = result'.verdict.successor]]
      BY <1>2, BootOfASession
    <3>. QED
      BY <3>1, <3>2
  <2>2. turn' = turn /\ IsTurn(turn[s])
    BY <1>2, BootOfASession DEF SessionShape
  <2>. QED
    BY <1>1, <2>1, <2>2
<1>3. ASSUME NEW s \in Sessions, NEW other \in Sessions, Rebind(s, other) PROVE SessionShape'
  BY <1>3 DEF SessionShape, Rebind, IsSession, IsTurn
<1>4. ASSUME NEW s \in Sessions, NEW mode, Work(s, mode) PROVE SessionShape'
  <2>1. IsSession(llm[s]) /\ IsTurn(turn[s])
    BY DEF SessionShape
  <2>2. IsTurn([NoTurn EXCEPT !.step = "thinking", !.handle = llm[s].pCognition,
                              !.grant = result'.grant])
    BY DEF IsTurn, NoTurn
  <2>3. CASE llm' = [llm EXCEPT ![s] = FailedClosed(llm[s])] /\ turn' = turn
    BY <1>1, <2>1, <2>3, SessionUpdates
  <2>4. CASE /\ llm' = [llm EXCEPT ![s] = Disclosed(llm[s], ActorOf[s])]
             /\ turn' = [turn EXCEPT ![s] = [NoTurn EXCEPT !.step = "thinking",
                            !.handle = llm[s].pCognition, !.grant = result'.grant]]
    BY <1>1, <2>1, <2>2, <2>4, SessionUpdates
  <2>. QED
    BY <1>4, <2>3, <2>4 DEF Work
<1>5. ASSUME NEW s \in Sessions, Think(s) PROVE SessionShape'
  <2>1. PICK t : IsTurn(t) /\ turn' = [turn EXCEPT ![s] = t]
    BY <1>5 DEF SessionShape, Think, IsTurn
  <2>2. llm' = llm
    BY <1>5 DEF Think
  <2>. QED
    BY <1>1, <2>1, <2>2 DEF SessionShape
<1>6. ASSUME NEW s \in Sessions, Write(s) PROVE SessionShape'
  <2>1. llm' = llm
    BY <1>6, WriteOfATurn
  <2>2. CASE Answered(s)
    <3>1. PICK t : IsTurn(t) /\ turn' = [turn EXCEPT ![s] = t]
      BY <2>2 DEF Answered, SessionShape, IsTurn
    <3>. QED
      BY <1>1, <2>1, <3>1 DEF SessionShape
  <2>3. CASE Unwound(s)
    BY <2>1, <2>3 DEF Unwound, SessionShape, NoTurn, IsSession, IsTurn
  <2>. QED
    BY <1>6, <2>2, <2>3, WriteOfATurn
<1>7. ASSUME NEW s \in Sessions, Throw(s) PROVE SessionShape'
  BY <1>7 DEF SessionShape, Throw, Unwound, NoTurn, IsSession, IsTurn
<1>8. ASSUME NEW s \in Sessions, Conclude(s) PROVE SessionShape'
  <2>1. IsSession(Concluded(llm[s], turn[s])) /\ IsTurn(NoTurn)
    BY ConcludedSession DEF SessionShape, IsTurn, NoTurn
  <2>2. /\ llm' = [llm EXCEPT ![s] = Concluded(llm[s], turn[s])]
        /\ turn' = [turn EXCEPT ![s] = NoTurn]
    BY <1>8 DEF Conclude
  <2>. QED
    BY <1>1, <2>1, <2>2
<1>9. CASE UNCHANGED <<llm, turn>>
  BY <1>9 DEF SessionShape
<1>. QED
  BY <1>2, <1>3, <1>4, <1>5, <1>6, <1>7, <1>8, <1>9
     DEF CycleNext, TurnStep, Attach, cycleVars, sessionVars

---------------------------------------------------------------------------
(* Type correctness of the sessions. *)

LEMMA GrantsGrow ==
    ASSUME TypeOK, [Next]_vars
    PROVE  DOMAIN grants \subseteq DOMAIN grants'
<1>1. grants' = grants \/ \E actor, mode : Acquired(actor, mode)
  BY LeaseStep DEF Released
<1>2. ASSUME NEW actor, NEW mode, Acquired(actor, mode)
      PROVE  DOMAIN grants \subseteq DOMAIN grants'
  BY <1>2 DEF Acquired, TypeOK, LeaseOK
<1>. QED
  BY <1>1, <1>2

\* A turn that a step leaves alone, or ends, stays well formed.
LEMMA TurnKept ==
    ASSUME CycleInv, [Next]_vars, NEW s \in Sessions, turn'[s] \in {turn[s], NoTurn}
    PROVE  TurnOK(turn[s])'
<1>1. \A h \in Handles : h \in Handles' /\ mats'[h] = mats[h]
  BY HeapIsImmutable DEF CycleInv
<1>2. DOMAIN grants \subseteq DOMAIN grants'
  BY GrantsGrow DEF CycleInv
<1>3. CASE turn'[s] = turn[s]
  <2>1. TurnOK(turn[s])
    BY DEF CycleInv, CycleTypeOK
  <2>2. turn[s].step = "writing" => turn[s].handle \in Handles
    BY <2>1 DEF TurnOK
  <2>. QED
    BY <1>1, <1>2, <1>3, <2>1, <2>2 DEF TurnOK
<1>4. CASE turn'[s] = NoTurn
  BY <1>4 DEF TurnOK, NoTurn, Steps
<1>. QED
  BY <1>3, <1>4

\* One session's step: the other turns and bindings are left alone.
LEMMA SessionStepType ==
    ASSUME CycleInv, [Next]_vars, NEW s \in Sessions,
           \A r \in Sessions : r # s => turn'[r] = turn[r] /\ llm'[r] = llm[r],
           llm'[s].pCognition \in Handles' \cup {NoHandle}, TurnOK(turn[s])',
           leaked' \subseteq DOMAIN grants'
    PROVE  CycleTypeOK'
<1>1. Handles \subseteq Handles'
  BY HeapIsImmutable DEF CycleInv
<1>2. ASSUME NEW r \in Sessions
      PROVE  llm'[r].pCognition \in Handles' \cup {NoHandle} /\ TurnOK(turn[r])'
  <2>1. CASE r = s
    BY <2>1
  <2>2. CASE r # s
    <3>1. TurnOK(turn[r])'
      BY <2>2, TurnKept
    <3>. QED
      BY <1>1, <2>2, <3>1 DEF CycleInv, CycleTypeOK
  <2>. QED
    BY <2>1, <2>2
<1>. QED
  BY <1>2 DEF CycleTypeOK

LEMMA CycleTypeStep ==
    ASSUME CycleInv, [CycleNext]_cycleVars
    PROVE  CycleTypeOK'
<1>1. [Next]_vars
  BY CycleStepIsServiceStep
<1>2. TypeOK /\ TypeOK'
  BY <1>1, NextType, StutterType DEF CycleInv
<1>3. Handles \subseteq Handles' /\ DOMAIN grants \subseteq DOMAIN grants'
  BY <1>1, <1>2, HeapIsImmutable, GrantsGrow
<1>4. /\ leaked \subseteq DOMAIN grants
      /\ \A s \in Sessions : /\ llm[s].pCognition \in Handles \cup {NoHandle} /\ TurnOK(turn[s])
                             /\ IsSession(llm[s]) /\ IsTurn(turn[s])
      /\ llm = [s \in Sessions |-> llm[s]] /\ turn = [s \in Sessions |-> turn[s]]
  BY DEF CycleInv, CycleTypeOK, SessionShape
<1>5. CASE UNCHANGED <<llm, turn, leaked>>
  <2>1. \A s \in Sessions : TurnOK(turn[s])'
    BY <1>1, <1>5, TurnKept
  <2>. QED
    BY <1>3, <1>4, <1>5, <2>1 DEF CycleTypeOK
<1>6. ASSUME NEW s \in Sessions, Boot(s) PROVE CycleTypeOK'
  <2>1. result'.verdict.successor \in Handles' \cup {NoHandle}
    BY <1>2, <1>6, BootReturns, BootOfASession
  <2>2. /\ turn' = turn /\ leaked' = leaked
        /\ \/ llm' = llm
           \/ llm' = [llm EXCEPT ![s].pCognition = result'.verdict.successor]
    BY <1>6, BootOfASession
  <2>3. llm'[s].pCognition \in Handles' \cup {NoHandle} /\ \A r \in Sessions : r # s => llm'[r] = llm[r]
    BY <1>3, <1>4, <2>1, <2>2 DEF IsSession
  <2>4. TurnOK(turn[s])'
    BY <1>1, <2>2, TurnKept
  <2>. QED
    BY <1>1, <1>3, <1>4, <2>2, <2>3, <2>4, SessionStepType
<1>7. ASSUME NEW s \in Sessions, NEW other \in Sessions, Rebind(s, other) PROVE CycleTypeOK'
  <2>1. /\ turn' = turn /\ leaked' = leaked
        /\ llm' = [llm EXCEPT ![s].pCognition = llm[other].pCognition]
    BY <1>7 DEF Rebind
  <2>2. llm'[s].pCognition \in Handles' \cup {NoHandle} /\ \A r \in Sessions : r # s => llm'[r] = llm[r]
    BY <1>3, <1>4, <2>1 DEF IsSession
  <2>3. TurnOK(turn[s])'
    BY <1>1, <2>1, TurnKept
  <2>. QED
    BY <1>1, <1>3, <1>4, <2>1, <2>2, <2>3, SessionStepType
<1>8. ASSUME NEW s \in Sessions, NEW mode, Work(s, mode) PROVE CycleTypeOK'
  <2>1. /\ acquire_grant(ActorOf[s], mode) /\ llm[s].pCognition # NoHandle /\ leaked' = leaked
    BY <1>8 DEF Work
  <2>2. CASE /\ llm' = [llm EXCEPT ![s] = FailedClosed(llm[s])] /\ turn' = turn
    <3>1. llm'[s].pCognition \in Handles' \cup {NoHandle} /\ \A r \in Sessions : r # s => llm'[r] = llm[r]
      BY <1>3, <1>4, <2>2, FailedClosedBinding
    <3>2. TurnOK(turn[s])'
      BY <1>1, <2>2, TurnKept
    <3>. QED
      BY <1>1, <1>3, <1>4, <2>1, <2>2, <3>1, <3>2, SessionStepType
  <2>3. CASE /\ result'.grant # NoGrant
             /\ llm' = [llm EXCEPT ![s] = Disclosed(llm[s], ActorOf[s])]
             /\ turn' = [turn EXCEPT ![s] = [NoTurn EXCEPT !.step = "thinking",
                            !.handle = llm[s].pCognition, !.grant = result'.grant]]
    <3>1. llm'[s].pCognition \in Handles' \cup {NoHandle} /\ \A r \in Sessions : r # s => llm'[r] = llm[r]
      BY <1>3, <1>4, <2>3, FailedClosedBinding
    <3>2. /\ turn'[s].step = "thinking" /\ turn'[s].handle = llm[s].pCognition
          /\ turn'[s].grant = result'.grant /\ turn'[s].verdict = <<>>
          /\ \A r \in Sessions : r # s => turn'[r] = turn[r]
      BY <1>4, <2>3 DEF NoTurn
    <3>3. turn'[s].handle \in Handles' /\ turn'[s].grant \in DOMAIN grants'
      BY <1>2, <1>3, <1>4, <2>1, <2>3, <3>2, AcquireReturns
    <3>4. TurnOK(turn[s])'
      BY <3>2, <3>3 DEF TurnOK, Steps
    <3>. QED
      BY <1>1, <1>3, <1>4, <2>1, <3>1, <3>2, <3>4, SessionStepType
  <2>. QED
    BY <1>8, <2>2, <2>3 DEF Work
<1>9. ASSUME NEW s \in Sessions, Think(s) PROVE CycleTypeOK'
  <2>1. /\ UNCHANGED <<vars, llm, leaked>> /\ turn[s].step = "thinking"
        /\ turn[s].handle \in Handles /\ turn[s].grant \in DOMAIN grants
        /\ turn[s].verdict # <<>> /\ turn[s].verdict[1].outcome = "Applied"
              => turn[s].verdict[1].successor \in Handles
    BY <1>4, <1>9 DEF Think, TurnOK
  <2>2. UNCHANGED <<mats, grants>> /\ Handles' = Handles
    BY <2>1 DEF vars, serviceState, Handles
  <2>3. PICK request \in Requests :
           turn' = [turn EXCEPT ![s] =
              IF request.operations = <<>> THEN [@ EXCEPT !.step = "concluding"]
              ELSE [@ EXCEPT !.step = "writing",
                      !.transaction = <<WithBase(request, mats[turn[s].handle].revision)>>]]
    BY <1>9 DEF Think
  <2>4. /\ turn'[s].step \in {"concluding", "writing"}
        /\ turn'[s].handle = turn[s].handle /\ turn'[s].grant = turn[s].grant
        /\ turn'[s].verdict = turn[s].verdict
        /\ turn'[s].step = "writing"
              => /\ request.operations # <<>>
                 /\ turn'[s].transaction = <<WithBase(request, mats[turn[s].handle].revision)>>
        /\ \A r \in Sessions : r # s => turn'[r] = turn[r]
    <3>1. /\ \/ turn'[s] = [turn[s] EXCEPT !.step = "concluding"]
             \/ /\ request.operations # <<>>
                /\ turn'[s] = [turn[s] EXCEPT !.step = "writing",
                      !.transaction = <<WithBase(request, mats[turn[s].handle].revision)>>]
          /\ \A r \in Sessions : r # s => turn'[r] = turn[r]
      BY <1>4, <2>3
    <3>2. IsTurn(turn[s])
      BY <1>4
    <3>. QED
      BY <3>1, <3>2 DEF IsTurn
  <2>5. TurnOK(turn[s])'
    BY <2>1, <2>2, <2>4 DEF TurnOK, Steps
  <2>. QED
    BY <1>1, <1>4, <2>1, <2>2, <2>4, <2>5, SessionStepType
<1>10. ASSUME NEW s \in Sessions, Write(s) PROVE CycleTypeOK'
  <2>1. /\ write_to_cognition(turn[s].handle, turn[s].transaction[1], turn[s].grant)
        /\ llm' = llm /\ turn[s].step = "writing"
    BY <1>10, WriteOfATurn
  <2>2. turn[s].handle \in Handles /\ turn[s].grant \in DOMAIN grants
    BY <1>4, <2>1 DEF TurnOK
  <2>3. CASE Unwound(s)
    <3>1. /\ turn'[s] = NoTurn /\ \A r \in Sessions : r # s => turn'[r] = turn[r]
          /\ leaked' = leaked \cup {turn[s].grant}
      BY <1>4, <2>3 DEF Unwound
    <3>2. TurnOK(turn[s])'
      BY <1>1, <3>1, TurnKept
    <3>. QED
      BY <1>1, <1>3, <1>4, <2>1, <2>2, <3>1, <3>2, SessionStepType
  <2>4. CASE Answered(s)
    <3>1. /\ turn'[s].step = "concluding" /\ turn'[s].handle = turn[s].handle
          /\ turn'[s].grant = turn[s].grant /\ turn'[s].verdict = <<result'.verdict>>
          /\ \A r \in Sessions : r # s => turn'[r] = turn[r]
      <4>1. /\ turn'[s] = [turn[s] EXCEPT !.step = "concluding", !.verdict = <<result'.verdict>>]
            /\ \A r \in Sessions : r # s => turn'[r] = turn[r]
        BY <1>4, <2>4 DEF Answered
      <4>2. IsTurn(turn[s])
        BY <1>4
      <4>. QED
        BY <4>1, <4>2 DEF IsTurn
    <3>2. result'.verdict.outcome = "Applied" => result'.verdict.successor \in Handles'
      BY <1>2, <1>3, <2>1, <2>2, WriteReturns
    <3>3. TurnOK(turn[s])'
      BY <1>3, <2>2, <3>1, <3>2 DEF TurnOK, Steps
    <3>. QED
      BY <1>1, <1>3, <1>4, <2>1, <2>4, <3>1, <3>3, SessionStepType DEF Answered
  <2>. QED
    BY <1>10, <2>3, <2>4, WriteOfATurn
<1>11. ASSUME NEW s \in Sessions, Throw(s) PROVE CycleTypeOK'
  <2>1. /\ UNCHANGED <<vars, llm>> /\ turn' = [turn EXCEPT ![s] = NoTurn]
        /\ leaked' = leaked \cup {turn[s].grant} /\ turn[s].step \in {"thinking", "writing"}
    BY <1>11 DEF Throw, Unwound
  <2>2. turn'[s] = NoTurn /\ \A r \in Sessions : r # s => turn'[r] = turn[r]
    BY <1>4, <2>1
  <2>3. TurnOK(turn[s])'
    BY <1>1, <2>2, TurnKept
  <2>4. turn[s].grant \in DOMAIN grants
    BY <1>4, <2>1 DEF TurnOK
  <2>. QED
    BY <1>1, <1>3, <1>4, <2>1, <2>2, <2>3, <2>4, SessionStepType
<1>12. ASSUME NEW s \in Sessions, Conclude(s) PROVE CycleTypeOK'
  <2>1. /\ leaked' = leaked /\ turn' = [turn EXCEPT ![s] = NoTurn]
        /\ llm' = [llm EXCEPT ![s] = Concluded(llm[s], turn[s])]
    BY <1>12 DEF Conclude
  <2>2. turn'[s] = NoTurn /\ \A r \in Sessions : r # s => turn'[r] = turn[r] /\ llm'[r] = llm[r]
    BY <1>4, <2>1
  <2>3. TurnOK(turn[s])'
    BY <1>1, <2>2, TurnKept
  <2>4. llm'[s].pCognition \in Handles' \cup {NoHandle}
    <3>1. llm'[s] = Concluded(llm[s], turn[s])
      BY <1>4, <2>1
    <3>2. \/ llm'[s].pCognition = llm[s].pCognition
          \/ /\ turn[s].verdict # <<>> /\ turn[s].verdict[1].outcome = "Applied"
             /\ llm'[s].pCognition = turn[s].verdict[1].successor
      BY <1>4, <3>1, ConcludedSession
    <3>. QED
      BY <1>3, <1>4, <3>2 DEF TurnOK
  <2>. QED
    BY <1>1, <1>3, <1>4, <2>1, <2>2, <2>3, <2>4, SessionStepType
<1>. QED
  BY <1>5, <1>6, <1>7, <1>8, <1>9, <1>10, <1>11, <1>12
     DEF CycleNext, TurnStep, Attach, cycleVars, sessionVars

LEMMA CycleInitInv == CycleInit => CycleInv
<1> SUFFICES ASSUME CycleInit PROVE CycleInv
  OBVIOUS
<1>1. TypeOK
  BY InitType DEF CycleInit
<1>2. SessionShape
  BY DEF CycleInit, SessionShape, IsSession, IsTurn, NoTurn
<1>3. CycleTypeOK
  BY DEF CycleInit, CycleTypeOK, TurnOK, NoTurn, Steps
<1>. QED
  BY <1>1, <1>2, <1>3 DEF CycleInv

LEMMA CycleInvStep == CycleInv /\ [CycleNext]_cycleVars => CycleInv'
<1> SUFFICES ASSUME CycleInv, [CycleNext]_cycleVars PROVE CycleInv'
  OBVIOUS
<1>1. TypeOK'
  BY CycleStepIsServiceStep, NextType, StutterType DEF CycleInv
<1>2. SessionShape'
  BY ShapeKept DEF CycleInv
<1>3. CycleTypeOK'
  BY CycleTypeStep
<1>. QED
  BY <1>1, <1>2, <1>3 DEF CycleInv

LEMMA CycleInvariant == CycleSpec => []CycleInv
  BY CycleInitInv, CycleInvStep, PTL DEF CycleSpec

\* However the turns of however many sessions interleave, throw or replay, a
\* session is bound to a handle that exists, a turn holds a grant that exists and
\* writes a request on the revision it read.
THEOREM CycleTypeCorrect == CycleSpec => []CycleTypeOK
<1>1. CycleInv => CycleTypeOK
  BY DEF CycleInv
<1>. QED
  BY <1>1, CycleInvariant, PTL

\* The participants' cycles only use the service the way the service expects to
\* be used: every behaviour of theirs is a behaviour of QivenContext.
THEOREM CycleRefinesService == CycleSpec => Spec
<1>1. CycleInit => Init
  BY DEF CycleInit
<1>2. CycleInv /\ [CycleNext]_cycleVars => [Next]_vars
  BY CycleStepIsServiceStep
<1>. QED
  BY <1>1, <1>2, CycleInvariant, PTL DEF CycleSpec, Spec

\* So what is proved of the service holds of the cycles: commits in grant order,
\* keys that commit once under truthful, final receipts, linear stores, and durable
\* promoted trees.
THEOREM CycleKeepsServiceSafety ==
    CycleSpec => /\ [](CommitsAreFenced /\ LeaseIsLatestGrant)
                 /\ [](KeyCommitsAtMostOnce /\ ReceiptCoversCommit)
                 /\ [](StoresAreChains /\ OneLiveEntryPerLineage /\ PromotedIsDurable)
                 /\ ReceiptsAreFinal
  BY CycleRefinesService, Fencing, LeaseIsSingle, KeysCommitOnce, ReceiptsTellTheTruth,
     StoresStayChains, OneEntryPerLineage, PromotedStaysDurable, ReceiptsStay, PTL

---------------------------------------------------------------------------
(* Single writer. *)

LEMMA LeaseHeldStep ==
    ASSUME CycleInv, TurnHoldsTheLease, [CycleNext]_cycleVars
    PROVE  TurnHoldsTheLease'
<1>1. TypeOK
  BY DEF CycleInv
<1>2. /\ \A s \in Sessions : turn[s].step # "idle" => turn[s].grant \in DOMAIN grants
      /\ turn = [s \in Sessions |-> turn[s]]
      /\ \A s \in Sessions : IsTurn(turn[s])
  BY DEF CycleInv, CycleTypeOK, TurnOK, SessionShape
<1>3. NoGrant \notin DOMAIN grants
  BY <1>1, GrantFacts DEF TypeOK, NoGrant
<1>4. ASSUME NEW s \in Sessions, UNCHANGED <<g_activeGrantId, leaked>>,
             \A r \in Sessions : r # s => turn'[r] = turn[r],
             turn'[s].step # "idle", turn[s].step # "idle", turn'[s].grant = turn[s].grant
      PROVE  TurnHoldsTheLease'
  BY <1>4 DEF TurnHoldsTheLease, Idle
<1>5. CASE UNCHANGED <<turn, leaked, g_activeGrantId>>
  BY <1>5 DEF TurnHoldsTheLease, Idle
<1>6. ASSUME NEW s \in Sessions, NEW mode, Work(s, mode) PROVE TurnHoldsTheLease'
  <2>1. acquire_grant(ActorOf[s], mode) /\ leaked' = leaked
    BY <1>6 DEF Work
  <2>2. CASE result'.grant = NoGrant
    <3>1. turn' = turn
      BY <1>6, <2>2 DEF Work
    <3>2. g_activeGrantId' = g_activeGrantId
      BY <1>1, <2>1, <2>2, AcquireReturns
    <3>. QED
      BY <1>5, <2>1, <3>1, <3>2
  <2>3. CASE result'.grant # NoGrant
    <3>1. turn' = [turn EXCEPT ![s] = [NoTurn EXCEPT !.step = "thinking",
                      !.handle = llm[s].pCognition, !.grant = result'.grant]]
      BY <1>6, <2>3 DEF Work
    <3>2. /\ turn'[s].step = "thinking" /\ turn'[s].grant = result'.grant
          /\ \A r \in Sessions : r # s => turn'[r] = turn[r]
      BY <1>2, <3>1 DEF NoTurn
    <3>3. g_activeGrantId = NoGrant /\ g_activeGrantId' = result'.grant
      BY <1>1, <2>1, <2>3, AcquireReturns
    <3>4. \A r \in Sessions : turn[r].step = "idle"
      BY <1>2, <1>3, <3>3 DEF TurnHoldsTheLease, Idle
    <3>. QED
      BY <3>2, <3>3, <3>4 DEF TurnHoldsTheLease, Idle
  <2>. QED
    BY <2>2, <2>3
<1>7. ASSUME NEW s \in Sessions, Think(s) PROVE TurnHoldsTheLease'
  <2>1. UNCHANGED <<g_activeGrantId, leaked>> /\ turn[s].step = "thinking"
    BY <1>7 DEF Think, vars, serviceState
  <2>2. PICK t : /\ turn' = [turn EXCEPT ![s] = t]
                 /\ t.step \in {"concluding", "writing"} /\ t.grant = turn[s].grant
    BY <1>2, <1>7 DEF Think, IsTurn
  <2>3. turn'[s] = t /\ \A r \in Sessions : r # s => turn'[r] = turn[r]
    BY <1>2, <2>2
  <2>. QED
    BY <1>4, <2>1, <2>2, <2>3
<1>8. ASSUME NEW s \in Sessions, g_activeGrantId' = g_activeGrantId, ~Idle(s), Unwound(s)
      PROVE  TurnHoldsTheLease'
  <2>1. leaked' = leaked \cup {turn[s].grant} /\ turn' = [turn EXCEPT ![s] = NoTurn]
    BY <1>8 DEF Unwound
  <2>2. turn'[s].step = "idle" /\ \A r \in Sessions : r # s => turn'[r] = turn[r]
    BY <1>2, <2>1 DEF NoTurn
  <2>3. turn[s].grant = g_activeGrantId
    BY <1>8 DEF TurnHoldsTheLease
  <2>. QED
    BY <1>8, <2>1, <2>2, <2>3 DEF TurnHoldsTheLease, Idle
<1>9. ASSUME NEW s \in Sessions, Write(s) PROVE TurnHoldsTheLease'
  <2>1. g_activeGrantId' = g_activeGrantId /\ turn[s].step = "writing"
    BY <1>9, WriteOfATurn DEF write_to_cognition
  <2>2. CASE Answered(s)
    <3>1. /\ turn'[s] = [turn[s] EXCEPT !.step = "concluding", !.verdict = <<result'.verdict>>]
          /\ \A r \in Sessions : r # s => turn'[r] = turn[r]
      BY <1>2, <2>2 DEF Answered
    <3>2. IsTurn(turn[s])
      BY <1>2
    <3>3. turn'[s].step = "concluding" /\ turn'[s].grant = turn[s].grant
      BY <3>1, <3>2 DEF IsTurn
    <3>. QED
      BY <1>4, <2>1, <2>2, <3>1, <3>3 DEF Answered
  <2>. QED
    BY <1>8, <1>9, <2>1, <2>2, WriteOfATurn DEF Idle
<1>10. ASSUME NEW s \in Sessions, Throw(s) PROVE TurnHoldsTheLease'
  BY <1>8, <1>10 DEF Throw, Idle, vars, serviceState
<1>11. ASSUME NEW s \in Sessions, Conclude(s) PROVE TurnHoldsTheLease'
  <2>1. /\ release_grant(turn[s].grant) /\ leaked' = leaked
        /\ turn[s].step # "idle" /\ turn' = [turn EXCEPT ![s] = NoTurn]
    BY <1>11 DEF Conclude
  <2>2. turn'[s].step = "idle" /\ \A r \in Sessions : r # s => turn'[r] = turn[r]
    BY <1>2, <2>1 DEF NoTurn
  <2>3. \A r \in Sessions : turn'[r].step = "idle"
    BY <2>1, <2>2 DEF TurnHoldsTheLease, Idle
  <2>4. g_activeGrantId' = NoGrant
    BY <2>1 DEF TurnHoldsTheLease, Idle, release_grant
  <2>. QED
    BY <2>3, <2>4 DEF TurnHoldsTheLease, Idle
<1>12. ASSUME NEW store, NEW s, NEW other, Attach(store) \/ Boot(s) \/ Rebind(s, other)
       PROVE  UNCHANGED <<turn, leaked, g_activeGrantId>>
  BY <1>12 DEF Attach, attachStore, Boot, create_canonical, Rebind, vars, serviceState, sessionVars
<1>13. UNCHANGED cycleVars => UNCHANGED <<turn, leaked, g_activeGrantId>>
  BY DEF cycleVars, sessionVars, vars, serviceState
<1>. QED
  BY <1>5, <1>6, <1>7, <1>8, <1>9, <1>10, <1>11, <1>12, <1>13 DEF CycleNext, TurnStep

\* Single writer for any number of sessions: no two turns ever run at once, a
\* running turn's grant is the active lease, and a lease outside a turn was lost
\* by one that threw.
THEOREM OneTurnAtATime == CycleSpec => []TurnHoldsTheLease
<1>1. CycleInit => TurnHoldsTheLease
  BY DEF CycleInit, Init, TurnHoldsTheLease, Idle, NoTurn
<1>2. CycleInv /\ TurnHoldsTheLease /\ [CycleNext]_cycleVars => TurnHoldsTheLease'
  BY LeaseHeldStep
<1>. QED
  BY <1>1, <1>2, CycleInvariant, PTL DEF CycleSpec

---------------------------------------------------------------------------
(* The head only moves under a turn that saw it. *)

\* An answer that changes a store whose chain has a head was based on that head.
LEMMA ChangeIsBasedOnHead ==
    ASSUME NEW store, IsChain(store), IsSequence(store.revisions), store.head # NoRevision,
           NEW base, NEW bytes, NEW answer \in StoreAnswers(store, base, bytes, StoreLosses),
           answer.store # store
    PROVE  base = store.head
<1>1. base = store.head \/ store.revisions = <<>>
  BY AnswerAppends
<1>2. store.revisions # <<>>
  <2>1. SUFFICES ASSUME store.revisions = <<>> PROVE FALSE
    OBVIOUS
  <2>2. Len(store.revisions) + 1 = 1
    BY <2>1
  <2>3. store.head = idBefore(store, Len(store.revisions) + 1)
    BY DEF IsChain
  <2>4. store.head = NoRevision
    BY <2>2, <2>3 DEF idBefore
  <2>. QED
    BY <2>4
<1>. QED
  BY <1>1, <1>2

LEMMA HeadStep ==
    ASSUME CycleInv, StoresAreChains, [CycleNext]_cycleVars, NEW store \in StoreIds,
           stores[store].head # NoRevision, stores'[store] # stores[store]
    PROVE  \E s \in Sessions :
              /\ turn[s].step = "writing" /\ turn'[s].step # "writing"
              /\ mats[turn[s].handle].revision = stores[store].head
<1>1. TypeOK /\ StoresOK /\ IsChain(stores[store]) /\ IsSequence(stores[store].revisions)
  BY DEF CycleInv, TypeOK, StoresOK, StoresAreChains
<1>2. ASSUME NEW changed, NEW base, NEW bytes,
             NEW answer \in StoreAnswers(stores[changed], base, bytes, StoreLosses),
             stores' = [stores EXCEPT ![changed] = answer.store]
      PROVE  changed = store /\ base = stores[store].head
  <2>1. changed = store /\ answer.store # stores[store]
    BY <1>1, <1>2 DEF StoresOK
  <2>. QED
    BY <1>1, <1>2, <2>1, ChangeIsBasedOnHead
<1>3. ASSUME NEW s \in Sessions, Boot(s) PROVE FALSE
  <2>1. \/ stores' = stores
        \/ \E answer \in StoreAnswers(stores[g_store], NoRevision, serializeImpl(makeGenesis),
                                      StoreLosses) :
              stores' = [stores EXCEPT ![g_store] = answer.store]
    BY <1>3, BootOfASession, Zenon DEF create_canonical
  <2>2. NoRevision = stores[store].head
    BY <1>2, <2>1, Zenon
  <2>. QED
    BY <2>2
<1>4. ASSUME NEW s \in Sessions, Write(s)
      PROVE  /\ turn[s].step = "writing" /\ turn'[s].step # "writing"
             /\ mats[turn[s].handle].revision = stores[store].head
  <2>1. /\ write_to_cognition(turn[s].handle, turn[s].transaction[1], turn[s].grant)
        /\ turn[s].step = "writing" /\ (Answered(s) \/ Unwound(s))
    BY <1>4, WriteOfATurn
  <2>2. /\ turn[s].handle \in Handles /\ IsTurn(turn[s])
        /\ turn = [r \in Sessions |-> turn[r]]
    BY <2>1 DEF CycleInv, CycleTypeOK, TurnOK, SessionShape
  <2>3. turn'[s].step # "writing"
    <3>1. CASE Answered(s)
      <4>1. turn'[s] = [turn[s] EXCEPT !.step = "concluding", !.verdict = <<result'.verdict>>]
        BY <2>2, <3>1 DEF Answered
      <4>. QED
        BY <2>2, <4>1 DEF IsTurn
    <3>2. CASE Unwound(s)
      BY <2>2, <3>2 DEF Unwound, NoTurn
    <3>. QED
      BY <2>1, <3>1, <3>2
  <2>4. \E bytes : \E answer \in StoreAnswers(stores[g_store], mats[turn[s].handle].revision, bytes, StoreLosses) :
           WriteAnswered(turn[s].handle, turn[s].transaction[1], turn[s].grant, bytes, answer)
    BY <1>1, <2>1, <2>2, WriteShape
  <2>5. PICK bytes : \E answer \in StoreAnswers(stores[g_store], mats[turn[s].handle].revision, bytes, StoreLosses) :
           WriteAnswered(turn[s].handle, turn[s].transaction[1], turn[s].grant, bytes, answer)
    BY <2>4
  <2>6. PICK answer \in StoreAnswers(stores[g_store], mats[turn[s].handle].revision, bytes, StoreLosses) :
           stores' = [stores EXCEPT ![g_store] = answer.store]
    BY <2>5 DEF WriteAnswered
  <2>7. mats[turn[s].handle].revision = stores[store].head
    BY <1>2, <2>6
  <2>. QED
    BY <2>1, <2>3, <2>7
<1>5. ASSUME NEW a, NEW s, NEW other, NEW mode,
             \/ Attach(a) \/ Rebind(s, other) \/ Work(s, mode) \/ Think(s) \/ Throw(s)
             \/ Conclude(s) \/ UNCHANGED cycleVars
      PROVE  FALSE
  BY <1>5 DEF Attach, attachStore, Rebind, Work, acquire_grant, Think, Throw, Conclude,
              release_grant, cycleVars, vars, serviceState
<1>. QED
  BY <1>3, <1>4, <1>5 DEF CycleNext, TurnStep

\* No lost update, for any number of sessions and whatever the store answers: the
\* head is replaced only by the write of a turn that read that head.
THEOREM HeadMovesWhenSeen == CycleSpec => HeadMovesUnderThought
<1>1. CycleInv /\ StoresAreChains /\ [CycleNext]_cycleVars =>
        \A store \in StoreIds :
          /\ stores[store].head # NoRevision
          /\ stores'[store] # stores[store]
          => \E s \in Sessions :
                /\ turn[s].step = "writing" /\ turn'[s].step # "writing"
                /\ mats[turn[s].handle].revision = stores[store].head
  BY HeadStep
<1>2. CycleSpec => []StoresAreChains
  BY CycleRefinesService, StoresStayChains, PTL
<1>. QED
  BY <1>1, <1>2, CycleInvariant, PTL DEF CycleSpec, HeadMovesUnderThought

---------------------------------------------------------------------------
(* Evidence gaps. *)

CheckpointFields ==
    {"acceptedRefs", "unacceptedCandidates", "evidenceGaps", "knownGaps", "nextAction",
     "lastTrigger", "servingDisclosure"}

Gaps(x) == x.checkpoint.evidenceGaps

HasCheckpoint(x) ==
    /\ IsSession(x)
    /\ x.checkpoint = [f \in CheckpointFields |-> x.checkpoint[f]]
    /\ IsSequence(Gaps(x))

HasGap(x, k) == \E i \in DOMAIN Gaps(x) : Gaps(x)[i] = k

Unresolved(t) == t.verdict # <<>> /\ t.verdict[1].outcome = "OutcomeUnknown"

Pends(t, k) == Unresolved(t) /\ t.transaction[1].idempotencyKey = k

Unknown(k) == k \in DOMAIN g_receipts /\ g_receipts[k].outcome.outcome = "OutcomeUnknown"

GapShape ==
    \A s \in Sessions : /\ HasCheckpoint(llm[s])
                        /\ turn[s].step # "concluding" => turn[s].verdict = <<>>

GapInv ==
    /\ GapShape /\ "" \notin DOMAIN g_receipts
    /\ \A k : k # "" =>
          (Unknown(k) <=> \E s \in Sessions : HasGap(llm[s], k) \/ Pends(turn[s], k))

---------------------------------------------------------------------------
(* What a turn makes of a session's gaps. *)

LEMMA GapAppended ==
    ASSUME NEW gaps, IsSequence(gaps), NEW key, NEW k
    PROVE  (\E i \in DOMAIN Append(gaps, key) : Append(gaps, key)[i] = k)
             <=> (k = key \/ \E i \in DOMAIN gaps : gaps[i] = k)
<1>1. /\ DOMAIN gaps = 1..Len(gaps) /\ Len(gaps) \in Nat
      /\ DOMAIN Append(gaps, key) = 1..Len(gaps) + 1
      /\ Append(gaps, key)[Len(gaps) + 1] = key
      /\ \A i \in 1..Len(gaps) : Append(gaps, key)[i] = gaps[i]
  BY SequenceFacts, AppendFacts
<1>2. \A i \in 1..Len(gaps) + 1 : i \in 1..Len(gaps) \/ i = Len(gaps) + 1
  BY <1>1
<1>. QED
  BY <1>1, <1>2

\* Only a recovery touches the gaps.
LEMMA GapsKept ==
    ASSUME NEW session, HasCheckpoint(session), NEW actor, NEW verdict
    PROVE  /\ HasCheckpoint(FailedClosed(session)) /\ Gaps(FailedClosed(session)) = Gaps(session)
           /\ HasCheckpoint(Disclosed(session, actor)) /\ Gaps(Disclosed(session, actor)) = Gaps(session)
           /\ HasCheckpoint(OrdinaryTurn(session)) /\ Gaps(OrdinaryTurn(session)) = Gaps(session)
           /\ HasCheckpoint(Accepted(session, verdict)) /\ Gaps(Accepted(session, verdict)) = Gaps(session)
<1>1. HasCheckpoint(FailedClosed(session)) /\ Gaps(FailedClosed(session)) = Gaps(session)
  BY DEF HasCheckpoint, CheckpointFields, IsSession, FailedClosed, Gaps
<1>2. HasCheckpoint(Disclosed(session, actor)) /\ Gaps(Disclosed(session, actor)) = Gaps(session)
  BY DEF HasCheckpoint, CheckpointFields, IsSession, Disclosed, Gaps
<1>3. HasCheckpoint(OrdinaryTurn(session)) /\ Gaps(OrdinaryTurn(session)) = Gaps(session)
  BY DEF HasCheckpoint, CheckpointFields, IsSession, OrdinaryTurn, Gaps
<1>4. HasCheckpoint(Accepted(session, verdict)) /\ Gaps(Accepted(session, verdict)) = Gaps(session)
  BY DEF HasCheckpoint, CheckpointFields, IsSession, Accepted, Gaps
<1>. QED
  BY <1>1, <1>2, <1>3, <1>4

\* A recovery adds the key of an unknown outcome and nothing else.
LEMMA RecoveredGaps ==
    ASSUME NEW session, HasCheckpoint(session), NEW t, NEW verdict
    PROVE  /\ HasCheckpoint(Recovered(session, t, verdict))
           /\ Gaps(Recovered(session, t, verdict)) =
                IF verdict.outcome = "OutcomeUnknown"
                THEN Append(Gaps(session), t.transaction[1].idempotencyKey) ELSE Gaps(session)
<1> DEFINE action == recovery_for(mats[t.handle].state, verdict.reason)
           gaps == IF verdict.outcome = "OutcomeUnknown"
                   THEN Append(Gaps(session), t.transaction[1].idempotencyKey) ELSE Gaps(session)
           parked == IF action = "RereadRethink" THEN "delta parked"
                     ELSE session.checkpoint.knownGaps
           deltas == IF action = "RereadRethink"
                     THEN Append(session.parkedDeltas, t.transaction[1]) ELSE session.parkedDeltas
           refused == Append(session.checkpoint.unacceptedCandidates, t.transaction[1].base)
           after == [session EXCEPT
                       !.checkpoint.unacceptedCandidates = refused,
                       !.checkpoint.evidenceGaps = gaps,
                       !.checkpoint.knownGaps = parked,
                       !.checkpoint.nextAction = action,
                       !.parkedDeltas = deltas]
<1>1. IsSequence(gaps)
  BY AppendFacts DEF HasCheckpoint
<1>2. Recovered(session, t, verdict) = after
  BY DEF Recovered, HasCheckpoint, CheckpointFields, IsSession, Gaps
<1> HIDE DEF action, gaps, parked, deltas, refused
<1>3. HasCheckpoint(after) /\ Gaps(after) = gaps
  BY <1>1 DEF HasCheckpoint, CheckpointFields, IsSession, Gaps
<1> HIDE DEF after
<1>. QED
  BY <1>2, <1>3 DEF gaps

\* A concluded session has the gaps it had, and the key of its turn if that is
\* unresolved.
LEMMA ConcludedGaps ==
    ASSUME NEW session, HasCheckpoint(session), NEW t
    PROVE  /\ HasCheckpoint(Concluded(session, t))
           /\ \A k : HasGap(Concluded(session, t), k) <=> (HasGap(session, k) \/ Pends(t, k))
<1>1. CASE ~Unresolved(t)
  <2>1. HasCheckpoint(Concluded(session, t)) /\ Gaps(Concluded(session, t)) = Gaps(session)
    <3>1. CASE t.verdict = <<>>
      BY <3>1, GapsKept DEF Concluded
    <3>2. CASE t.verdict # <<>> /\ t.verdict[1].outcome = "Applied"
      BY <3>2, GapsKept DEF Concluded
    <3>3. CASE t.verdict # <<>> /\ t.verdict[1].outcome \notin {"Applied", "OutcomeUnknown"}
      BY <3>3, RecoveredGaps DEF Concluded
    <3>. QED
      BY <1>1, <3>1, <3>2, <3>3 DEF Unresolved
  <2>. QED
    BY <1>1, <2>1 DEF HasGap, Pends
<1>2. CASE Unresolved(t)
  <2>1. Concluded(session, t) = Recovered(session, t, t.verdict[1])
    BY <1>2 DEF Concluded, Unresolved
  <2>2. /\ HasCheckpoint(Concluded(session, t))
        /\ Gaps(Concluded(session, t)) = Append(Gaps(session), t.transaction[1].idempotencyKey)
    BY <1>2, <2>1, RecoveredGaps DEF Unresolved
  <2>3. IsSequence(Gaps(session))
    BY DEF HasCheckpoint
  <2>. QED
    BY <1>2, <2>2, <2>3, GapAppended DEF HasGap, Pends
<1>. QED
  BY <1>1, <1>2

---------------------------------------------------------------------------
(* What a step makes of the receipts. *)

\* What a write returns is its verdict, and a refusal is one.
LEMMA Answers ==
    ASSUME NEW verdict, NEW g, Return("write", verdict, g)
    PROVE  result'.verdict = verdict
  BY DEF Return

LEMMA RefusalRefuses == ASSUME NEW reason PROVE Verdict("Refused", reason, NoHandle).outcome = "Refused"
  BY DEF Verdict

\* A write leaves one more key unresolved exactly when its answer, new or replayed,
\* is that its outcome is unknown.
LEMMA WriteUnknown ==
    ASSUME "" \notin DOMAIN g_receipts, NEW h, NEW tx, NEW g, write_to_cognition(h, tx, g)
    PROVE  /\ "" \notin DOMAIN g_receipts'
           /\ \A k : k # "" =>
                (Unknown(k)' <=> \/ Unknown(k)
                                 \/ /\ k = tx.idempotencyKey
                                    /\ result'.verdict.outcome = "OutcomeUnknown")
<1> DEFINE key == tx.idempotencyKey
           Good == /\ "" \notin DOMAIN g_receipts'
                   /\ \A k : k # "" =>
                        (Unknown(k)' <=> \/ Unknown(k)
                                         \/ /\ k = key
                                            /\ result'.verdict.outcome = "OutcomeUnknown")
<1>1. CASE g_receipts' = g_receipts /\ result'.verdict.outcome # "OutcomeUnknown"
  BY <1>1 DEF Unknown
<1>2. CASE HasReceipt(tx) /\ WriteReplay(tx, g)
  <2>1. key # "" /\ key \in DOMAIN g_receipts /\ g_receipts' = g_receipts
    BY <1>2 DEF HasReceipt, WriteReplay
  <2>2. \/ result'.verdict = g_receipts[tx.idempotencyKey].outcome
        \/ result'.verdict.outcome = "Refused"
    <3> DEFINE receipt == g_receipts[key]
    <3>1. CASE receipt.requestDigest = request_digest_of(tx)
      <4>1. Return("write", receipt.outcome, g)
        BY <1>2, <3>1 DEF WriteReplay
      <4>. QED
        BY <4>1, Answers
    <3>2. CASE receipt.requestDigest # request_digest_of(tx)
      <4>1. Return("write", Verdict("Refused", "KeyConflict", NoHandle), g)
        BY <1>2, <3>2 DEF WriteReplay
      <4>2. result'.verdict = Verdict("Refused", "KeyConflict", NoHandle)
        BY <4>1, Answers
      <4>. QED
        BY <4>2, RefusalRefuses
    <3>. QED
      BY <3>1, <3>2
  <2>. QED
    BY <1>1, <2>1, <2>2 DEF Unknown
<1>3. ASSUME NEW reason, WriteRefused(reason, g) PROVE Good
  BY <1>1, <1>3 DEF WriteRefused, Return, Verdict
<1>4. CASE WriteNothing(h, g)
  BY <1>1, <1>4 DEF WriteNothing, Return, Verdict
\* A new key is recorded with the answer given.
<1>5. ASSUME NEW verdict, ~HasReceipt(tx), g_receipts' = Recorded(tx, verdict),
             result'.verdict = verdict
      PROVE  Good
  <2>1. CASE key = ""
    <3>1. g_receipts' = g_receipts
      BY <1>5, <2>1 DEF Recorded
    <3>. QED
      BY <2>1, <3>1 DEF Unknown
  <2>2. CASE key # ""
    <3>1. key \notin DOMAIN g_receipts
      BY <1>5, <2>2 DEF HasReceipt
    <3>2. /\ DOMAIN g_receipts' = DOMAIN g_receipts \cup {key}
          /\ g_receipts'[key].outcome = verdict
          /\ \A k \in DOMAIN g_receipts : g_receipts'[k] = g_receipts[k]
      BY <1>5, <2>2, <3>1 DEF Recorded
    <3>. QED
      BY <1>5, <2>2, <3>1, <3>2 DEF Unknown
  <2>. QED
    BY <2>1, <2>2
<1>6. CASE ~HasReceipt(tx) /\ WriteThrough(h, tx, g)
  <2>1. PICK bytes, answer : WriteAnswered(h, tx, g, bytes, answer)
    BY <1>6 DEF WriteThrough
  <2>2. \/ g_receipts' = g_receipts /\ result'.verdict.outcome # "OutcomeUnknown"
        \/ \E verdict : g_receipts' = Recorded(tx, verdict) /\ result'.verdict = verdict
    <3>1. CASE answer.kind = "CompareFailed"
      <4>1. Return("write", Verdict("Refused", "StoreDiverged", NoHandle), g) /\ g_receipts' = g_receipts
        BY <2>1, <3>1 DEF WriteAnswered
      <4>2. result'.verdict = Verdict("Refused", "StoreDiverged", NoHandle)
        BY <4>1, Answers
      <4>. QED
        BY <4>1, <4>2, RefusalRefuses
    <3>2. CASE answer.kind = "Threw"
      <4>1. Return("write", Verdict("Threw", "None", NoHandle), g) /\ g_receipts' = g_receipts
        BY <2>1, <3>2 DEF WriteAnswered, Threw
      <4>2. result'.verdict = Verdict("Threw", "None", NoHandle)
        BY <4>1, Answers
      <4>3. Verdict("Threw", "None", NoHandle).outcome = "Threw"
        BY DEF Verdict
      <4>. QED
        BY <4>1, <4>2, <4>3
    <3>3. ASSUME NEW verdict, Return("write", verdict, g), g_receipts' = Recorded(tx, verdict)
          PROVE  g_receipts' = Recorded(tx, verdict) /\ result'.verdict = verdict
      BY <3>3, Answers
    <3>4. CASE \E verdict : Return("write", verdict, g) /\ g_receipts' = Recorded(tx, verdict)
      BY <3>3, <3>4
    <3> HIDE DEF Good
    <3>. QED
      BY <2>1, <3>1, <3>2, <3>4 DEF WriteAnswered
  <2>. QED
    BY <1>1, <1>5, <1>6, <2>2
<1>. QED
  BY <1>2, <1>3, <1>4, <1>6 DEF write_to_cognition

\* Gaps and receipts move together: each action of a turn keeps the invariant.
LEMMA GapStep == CycleInv /\ GapInv /\ [CycleNext]_cycleVars => GapInv'
<1> SUFFICES ASSUME CycleInv, GapInv, [CycleNext]_cycleVars PROVE GapInv'
  OBVIOUS
<1>1. /\ llm = [s \in Sessions |-> llm[s]] /\ turn = [s \in Sessions |-> turn[s]]
      /\ \A s \in Sessions : IsSession(llm[s]) /\ IsTurn(turn[s])
  BY DEF CycleInv, SessionShape
\* A step that leaves the receipts, the gaps and the unresolved turns as they are.
<1>2. ASSUME g_receipts' = g_receipts,
             \A s \in Sessions :
                /\ HasCheckpoint(llm'[s]) /\ Gaps(llm'[s]) = Gaps(llm[s])
                /\ turn'[s].step # "concluding" => turn'[s].verdict = <<>>
                /\ turn'[s] = turn[s] \/ (~Unresolved(turn[s]) /\ ~Unresolved(turn'[s]))
      PROVE  GapInv'
  <2>1. \A k : Unknown(k)' <=> Unknown(k)
    BY <1>2 DEF Unknown
  <2>2. \A s \in Sessions : \A k : /\ HasGap(llm[s], k)' <=> HasGap(llm[s], k)
                                   /\ Pends(turn[s], k)' <=> Pends(turn[s], k)
    BY <1>2 DEF HasGap, Pends
  <2>3. GapShape'
    BY <1>2 DEF GapShape
  <2>. QED
    BY <1>2, <2>1, <2>2, <2>3 DEF GapInv
<1>3. ASSUME NEW store, Attach(store) \/ UNCHANGED cycleVars PROVE GapInv'
  BY <1>2, <1>3 DEF Attach, attachStore, sessionVars, cycleVars, vars, serviceState, GapInv, GapShape
<1>4. ASSUME NEW s \in Sessions, Boot(s) PROVE GapInv'
  <2>1. g_receipts' = g_receipts /\ turn' = turn
    BY <1>4, BootOfASession DEF create_canonical
  <2>2. ASSUME NEW h, llm' = [llm EXCEPT ![s].pCognition = h]
        PROVE  \A r \in Sessions : HasCheckpoint(llm'[r]) /\ Gaps(llm'[r]) = Gaps(llm[r])
    BY <1>1, <2>2, ZenonT(30) DEF GapInv, GapShape, HasCheckpoint, IsSession, Gaps
  <2>3. \A r \in Sessions : HasCheckpoint(llm'[r]) /\ Gaps(llm'[r]) = Gaps(llm[r])
    <3>1. CASE llm' = llm
      BY <3>1 DEF GapInv, GapShape
    <3>. QED
      BY <1>4, <2>2, <3>1, BootOfASession
  <2>. QED
    BY <1>2, <2>1, <2>3 DEF GapInv, GapShape
<1>5. ASSUME NEW s \in Sessions, NEW other, Rebind(s, other) PROVE GapInv'
  <2>1. g_receipts' = g_receipts /\ turn' = turn
    BY <1>5 DEF Rebind, vars, serviceState
  <2>2. PICK h : llm' = [llm EXCEPT ![s].pCognition = h]
    BY <1>5 DEF Rebind
  <2>3. \A r \in Sessions : HasCheckpoint(llm'[r]) /\ Gaps(llm'[r]) = Gaps(llm[r])
    BY <1>1, <2>2, ZenonT(30) DEF GapInv, GapShape, HasCheckpoint, IsSession, Gaps
  <2>. QED
    BY <1>2, <2>1, <2>3 DEF GapInv, GapShape
<1>6. ASSUME NEW s \in Sessions, NEW mode, Work(s, mode) PROVE GapInv'
  <2>1. g_receipts' = g_receipts /\ turn[s].verdict = <<>>
    BY <1>6 DEF Work, acquire_grant, Idle, GapInv, GapShape
  <2>2. HasCheckpoint(llm[s])
    BY DEF GapInv, GapShape
  <2>3. PICK x : /\ llm' = [llm EXCEPT ![s] = x]
                 /\ HasCheckpoint(x) /\ Gaps(x) = Gaps(llm[s])
    <3>1. \/ llm' = [llm EXCEPT ![s] = FailedClosed(llm[s])]
          \/ llm' = [llm EXCEPT ![s] = Disclosed(llm[s], ActorOf[s])]
      BY <1>6 DEF Work
    <3>. QED
      BY <2>2, <3>1, GapsKept
  <2>4. PICK t : turn' = [turn EXCEPT ![s] = t] /\ t.verdict = <<>>
    <3> DEFINE started == [NoTurn EXCEPT !.step = "thinking", !.handle = llm[s].pCognition,
                                         !.grant = result'.grant]
    <3>1. turn' = turn \/ turn' = [turn EXCEPT ![s] = started]
      BY <1>6 DEF Work
    <3>2. started.verdict = <<>>
      BY DEF NoTurn
    <3>3. CASE turn' = turn
      <4>1. turn' = [turn EXCEPT ![s] = turn[s]]
        BY <1>1, <3>3
      <4>. QED
        BY <2>1, <4>1
    <3> HIDE DEF started
    <3>. QED
      BY <3>1, <3>2, <3>3
  <2>5. /\ llm'[s] = x /\ turn'[s] = t
        /\ \A r \in Sessions : r # s => llm'[r] = llm[r] /\ turn'[r] = turn[r]
    BY <1>1, <2>3, <2>4
  <2>. QED
    BY <1>2, <2>1, <2>3, <2>4, <2>5 DEF GapInv, GapShape, Unresolved
<1>7. ASSUME NEW s \in Sessions, Think(s) \/ Throw(s) PROVE GapInv'
  <2>1. UNCHANGED <<g_receipts, llm>> /\ turn[s].verdict = <<>>
    BY <1>7 DEF Think, Throw, vars, serviceState, GapInv, GapShape
  <2>2. PICK t : turn' = [turn EXCEPT ![s] = t] /\ t.verdict = <<>>
    <3>1. CASE Throw(s)
      <4>1. turn' = [turn EXCEPT ![s] = NoTurn]
        BY <3>1 DEF Throw, Unwound
      <4>2. NoTurn.verdict = <<>>
        BY DEF NoTurn
      <4>. QED
        BY <4>1, <4>2
    <3>2. CASE Think(s)
      <4>1. PICK request \in Requests :
               turn' = [turn EXCEPT ![s] =
                  IF request.operations = <<>> THEN [@ EXCEPT !.step = "concluding"]
                  ELSE [@ EXCEPT !.step = "writing",
                          !.transaction = <<WithBase(request, mats[turn[s].handle].revision)>>]]
        BY <3>2 DEF Think
      <4> DEFINE short == [turn[s] EXCEPT !.step = "concluding"]
                 long  == [turn[s] EXCEPT !.step = "writing",
                             !.transaction = <<WithBase(request, mats[turn[s].handle].revision)>>]
      <4>2. turn' = [turn EXCEPT ![s] = short] \/ turn' = [turn EXCEPT ![s] = long]
        BY <4>1
      <4>3. IsTurn(turn[s])
        BY <1>1
      <4>4. short.verdict = <<>> /\ long.verdict = <<>>
        BY <2>1, <4>3 DEF IsTurn
      <4> HIDE DEF short, long
      <4>. QED
        BY <4>2, <4>4
    <3>. QED
      BY <1>7, <3>1, <3>2
  <2>3. turn'[s] = t /\ \A r \in Sessions : r # s => turn'[r] = turn[r]
    BY <1>1, <2>2
  <2>. QED
    BY <1>2, <2>1, <2>2, <2>3 DEF GapInv, GapShape, Unresolved
<1>8. ASSUME NEW s \in Sessions, Write(s) PROVE GapInv'
  <2> DEFINE key == turn[s].transaction[1].idempotencyKey
  <2>1. /\ turn[s].step = "writing" /\ llm' = llm
        /\ write_to_cognition(turn[s].handle, turn[s].transaction[1], turn[s].grant)
        /\ Answered(s) \/ (result'.verdict.outcome = "Threw" /\ Unwound(s))
    BY <1>8, WriteOfATurn
  <2>2. /\ \/ /\ turn'[s].step = "concluding" /\ turn'[s].transaction = turn[s].transaction
              /\ turn'[s].verdict = <<result'.verdict>>
           \/ turn'[s] = NoTurn /\ result'.verdict.outcome = "Threw"
        /\ \A r \in Sessions : r # s => turn'[r] = turn[r]
    <3>1. CASE Answered(s)
      <4>1. /\ turn'[s] = [turn[s] EXCEPT !.step = "concluding", !.verdict = <<result'.verdict>>]
            /\ \A r \in Sessions : r # s => turn'[r] = turn[r]
        BY <1>1, <3>1 DEF Answered
      <4>. QED
        BY <1>1, <4>1 DEF IsTurn
    <3>2. CASE result'.verdict.outcome = "Threw" /\ Unwound(s)
      BY <1>1, <3>2 DEF Unwound
    <3>. QED
      BY <2>1, <3>1, <3>2
  <2>3. ~Unresolved(turn[s])
    BY <2>1 DEF GapInv, GapShape, Unresolved
  <2>4. \A k : /\ ~Pends(turn[s], k)
               /\ Pends(turn'[s], k) <=> (k = key /\ result'.verdict.outcome = "OutcomeUnknown")
    BY <2>2, <2>3 DEF Pends, Unresolved, NoTurn
  <2>5. /\ "" \notin DOMAIN g_receipts'
        /\ \A k : k # "" => (Unknown(k)' <=> \/ Unknown(k)
                                             \/ /\ k = key
                                                /\ result'.verdict.outcome = "OutcomeUnknown")
    BY <2>1, WriteUnknown DEF GapInv
  <2>6. GapShape'
    <3>1. turn'[s].step # "concluding" => turn'[s].verdict = <<>>
      BY <2>2 DEF NoTurn
    <3>. QED
      BY <2>1, <2>2, <3>1 DEF GapInv, GapShape
  <2>7. \A r \in Sessions : \A k : r # s => Pends(turn'[r], k) = Pends(turn[r], k)
    BY <2>2
  <2> HIDE DEF key
  <2>8. \A k : k # "" =>
          (Unknown(k)' <=> \E r \in Sessions : HasGap(llm[r], k) \/ Pends(turn'[r], k))
    BY <2>4, <2>5, <2>7 DEF GapInv
  <2>. QED
    BY <2>1, <2>5, <2>6, <2>8 DEF GapInv
<1>9. ASSUME NEW s \in Sessions, Conclude(s) PROVE GapInv'
  <2>1. /\ g_receipts' = g_receipts /\ turn' = [turn EXCEPT ![s] = NoTurn]
        /\ llm' = [llm EXCEPT ![s] = Concluded(llm[s], turn[s])]
    BY <1>9 DEF Conclude, release_grant
  <2>2. /\ turn'[s] = NoTurn /\ llm'[s] = Concluded(llm[s], turn[s])
        /\ \A r \in Sessions : r # s => turn'[r] = turn[r] /\ llm'[r] = llm[r]
    BY <1>1, <2>1
  <2>3. /\ HasCheckpoint(llm'[s])
        /\ \A k : HasGap(llm'[s], k) <=> (HasGap(llm[s], k) \/ Pends(turn[s], k))
    <3>1. HasCheckpoint(llm[s])
      BY DEF GapInv, GapShape
    <3> DEFINE after == Concluded(llm[s], turn[s])
    <3>2. /\ HasCheckpoint(after)
          /\ \A k : HasGap(after, k) <=> (HasGap(llm[s], k) \/ Pends(turn[s], k))
      BY <3>1, ConcludedGaps
    <3>3. llm'[s] = after
      BY <2>2
    <3> HIDE DEF after
    <3>. QED
      BY <3>2, <3>3
  <2>4. \A k : ~Pends(turn'[s], k)
    BY <2>2 DEF Pends, Unresolved, NoTurn
  <2>5. \A k : Unknown(k)' <=> Unknown(k)
    BY <2>1 DEF Unknown
  <2>6. GapShape'
    <3>1. ASSUME NEW r \in Sessions
          PROVE  /\ HasCheckpoint(llm'[r])
                 /\ turn'[r].step # "concluding" => turn'[r].verdict = <<>>
      <4>1. CASE r = s
        BY <2>2, <2>3, <4>1 DEF NoTurn
      <4>2. CASE r # s
        BY <2>2, <4>2 DEF GapInv, GapShape
      <4>. QED
        BY <4>1, <4>2
    <3>. QED
      BY <3>1 DEF GapShape
  <2>7. \A k : \A r \in Sessions :
           (HasGap(llm'[r], k) \/ Pends(turn'[r], k)) <=> (HasGap(llm[r], k) \/ Pends(turn[r], k))
    BY <2>2, <2>3, <2>4
  <2>. QED
    BY <2>1, <2>5, <2>6, <2>7 DEF GapInv
<1>. QED
  BY <1>3, <1>4, <1>5, <1>6, <1>7, <1>8, <1>9 DEF CycleNext, TurnStep

\* No session starts with a gap or a pending verdict, and no key is unknown.
LEMMA GapInvariant == CycleSpec => []GapInv
<1>1. CycleInit => GapInv
  <2> SUFFICES ASSUME CycleInit PROVE GapInv
    OBVIOUS
  <2> DEFINE fresh == [pCognition |-> NoHandle, checkpoint |-> NewCheckpoint, parkedDeltas |-> <<>>]
  <2>1. /\ g_receipts = <<>>
        /\ llm = [s \in Sessions |-> fresh] /\ turn = [s \in Sessions |-> NoTurn]
    BY DEF CycleInit, Init
  <2>2. DOMAIN <<>> = {} /\ IsSequence(<<>>)
    BY DEF IsSequence
  <2>3. GapShape
    <3>1. HasCheckpoint(fresh)
      BY <2>2 DEF HasCheckpoint, CheckpointFields, IsSession, Gaps, NewCheckpoint
    <3>2. NoTurn.verdict = <<>>
      BY DEF NoTurn
    <3> HIDE DEF fresh
    <3>. QED
      BY <2>1, <3>1, <3>2 DEF GapShape
  <2>4. \A k : ~HasGap(fresh, k) /\ ~Pends(NoTurn, k)
    BY <2>2 DEF HasGap, Gaps, NewCheckpoint, Pends, Unresolved, NoTurn
  <2>5. \A k : ~Unknown(k)
    BY <2>1, <2>2 DEF Unknown
  <2>6. "" \notin DOMAIN g_receipts
    BY <2>1, <2>2
  <2> HIDE DEF fresh
  <2>7. \A s \in Sessions : \A k : ~HasGap(llm[s], k) /\ ~Pends(turn[s], k)
    BY <2>1, <2>4
  <2>. QED
    BY <2>3, <2>5, <2>6, <2>7 DEF GapInv
<1>2. CycleInv /\ GapInv /\ [CycleNext]_cycleVars => GapInv'
  BY GapStep
<1>. QED
  BY <1>1, <1>2, CycleInvariant, PTL DEF CycleSpec

\* Typed absence for any number of sessions, replays and lost acknowledgements: an
\* unresolved key is some session's gap, or about to be, and a gap is unresolved.
THEOREM GapsAreTruthful == CycleSpec => []GapsMatchReceipts
<1>1. GapInv => GapsMatchReceipts
  <2> SUFFICES ASSUME GapInv PROVE GapsMatchReceipts
    OBVIOUS
  <2> DEFINE recorded == (UNION {ToSet(llm[s].checkpoint.evidenceGaps) : s \in Sessions}) \ {""}
             pending  == {turn[s].transaction[1].idempotencyKey :
                            s \in {t \in Sessions : /\ turn[t].verdict # <<>>
                                                    /\ turn[t].verdict[1].outcome = "OutcomeUnknown"}}
             unknown  == {k \in DOMAIN g_receipts : g_receipts[k].outcome.outcome = "OutcomeUnknown"}
  <2>1. \A k : k \in recorded <=> k # "" /\ \E s \in Sessions : HasGap(llm[s], k)
    <3> DEFINE gapsOf(s) == ToSet(llm[s].checkpoint.evidenceGaps)
    <3>1. \A s \in Sessions : \A k : k \in gapsOf(s) <=> HasGap(llm[s], k)
      BY DEF HasGap, Gaps, ToSet
    <3> HIDE DEF gapsOf
    <3> DEFINE all == UNION {gapsOf(s) : s \in Sessions}
    <3>2. \A k : k \in all <=> \E s \in Sessions : k \in gapsOf(s)
      OBVIOUS
    <3>3. recorded = all \ {""}
      BY DEF gapsOf
    <3> HIDE DEF recorded, all
    <3>4. \A k : k \in recorded <=> k \in all /\ k # ""
      BY <3>3
    <3>5. \A k : k \in all <=> \E s \in Sessions : HasGap(llm[s], k)
      BY <3>1, <3>2
    <3>. QED
      BY <3>4, <3>5
  <2>2. \A k : k \in pending <=> \E s \in Sessions : Pends(turn[s], k)
    BY DEF Pends, Unresolved
  <2>3. \A k : k \in unknown <=> Unknown(k)
    BY DEF Unknown
  <2>4. "" \notin unknown
    BY DEF GapInv
  <2> HIDE DEF recorded, pending, unknown
  <2>5. recorded \subseteq unknown /\ unknown \subseteq recorded \cup pending
    BY <2>1, <2>2, <2>3, <2>4 DEF GapInv
  <2>. QED
    BY <2>5 DEF GapsMatchReceipts, recorded, pending, unknown
<1>. QED
  BY <1>1, GapInvariant, PTL

---------------------------------------------------------------------------
(* Handles that stay held. *)

\* A genesis whose acknowledgement was lost is written as the genesis.
IsStranded(m) ==
    /\ "OutcomeUnknown" \in StoreLosses /\ m.revision = NoRevision
    /\ serializeImpl(m.state) = serializeImpl(makeGenesis)

Backs(store, m) == \E bytes : Holds(store, m.revision, bytes)

\* Every handle the host or a turn ever obtained is backed by the store that is attached,
\* or stranded.
HandlesAreHeld ==
    \A h \in Handles : /\ mats[h].quarantine = "Promoted" /\ g_store \in StoreIds
                       /\ Backs(stores[g_store], mats[h]) \/ IsStranded(mats[h])

\* An id in a chain is a storage identity.
LEMMA HeldHasIdentity ==
    ASSUME NEW store, IsChain(store), NEW revision, NEW bytes, Holds(store, revision, bytes)
    PROVE  revision # NoRevision /\ verify(store, revision)
<1>1. PICK i \in DOMAIN store.revisions : store.revisions[i].id = revision
  BY DEF Holds
<1>2. revision = <<idBefore(store, i), store.revisions[i].bytes>>
  BY <1>1 DEF IsChain, Mint
<1>. QED  BY <1>1, <1>2 DEF verify, NoRevision

\* What a step of the cycle mints is promoted and backed by the attached store, or stranded.
MintsHeld ==
    mats' = mats \/ \E m : /\ mats' = Append(mats, m) /\ m.quarantine = "Promoted"
                           /\ g_store \in StoreIds
                           /\ Backs(stores'[g_store], m) \/ IsStranded(m)

\* create_canonical shows the head of the attached store, or the genesis, whether it was
\* just stored or that is unknown.
LEMMA BootMintsHeld ==
    ASSUME TypeOK, StoresAreChains, create_canonical(NoRevision)
    PROVE  MintsHeld
<1>. DEFINE store == stores[g_store]
            id == store.head
            found == materialize(store, id)
            bytes == serializeImpl(makeGenesis)
            answers == StoreAnswers(store, NoRevision, bytes, StoreLosses)
<1>1. /\ g_store \in StoreIds /\ IsSequence(store.revisions) /\ IsChain(store)
      /\ stores \in [StoreIds -> Range(stores)]
  BY DEF create_canonical, TypeOK, LeaseOK, StoresOK, StoresAreChains
<1>2. \/ found # <<>> /\ Materialize("create", found[1], id, "Promoted") /\ stores' = stores
      \/ mats' = mats
      \/ \E answer \in answers :
            /\ id = NoRevision /\ stores' = [stores EXCEPT ![g_store] = answer.store]
            /\ answer.kind # "Threw"
            /\ Materialize("create", bytes, answer.revision, "Promoted")
  BY DEF create_canonical
<1>3. ASSUME NEW b, NEW revision, Materialize("create", b, revision, "Promoted"),
             \/ \E stored : Holds(stores'[g_store], revision, stored)
             \/ "OutcomeUnknown" \in StoreLosses /\ revision = NoRevision /\ b = bytes
      PROVE  MintsHeld
  <2>. DEFINE m == [state |-> deserializeImpl(b), digest |-> draft_snapshot_digest(b),
                    revision |-> revision, epoch |-> g_epoch + 1, quarantine |-> "Promoted"]
  <2>1. mats' = mats \/ mats' = Append(mats, m)
    BY <1>3 DEF Materialize
  <2>2. /\ m.quarantine = "Promoted" /\ m.revision = revision
        /\ m.state = deserializeImpl(b)
    OBVIOUS
  <2>3. serializeImpl(deserializeImpl(bytes)) = bytes
    BY WrittenTree, GenesisIsTree DEF IsWritten
  <2>. HIDE DEF m
  <2>. QED  BY <1>1, <1>3, <2>1, <2>2, <2>3 DEF MintsHeld, Backs, IsStranded
<1>. HIDE DEF store, id, found, bytes, answers
<1>4. CASE found # <<>> /\ Materialize("create", found[1], id, "Promoted") /\ stores' = stores
  <2>1. Holds(store, id, found[1])
    BY <1>4, MaterializedIsHeld DEF found
  <2>. QED  BY <1>3, <1>4, <2>1 DEF store
<1>5. ASSUME NEW answer \in answers, id = NoRevision,
             stores' = [stores EXCEPT ![g_store] = answer.store], answer.kind # "Threw",
             Materialize("create", bytes, answer.revision, "Promoted")
      PROVE  MintsHeld
  <2>1. stores'[g_store] = answer.store
    BY <1>1, <1>5
  <2>2. CASE answer = compareAndSwap(store, NoRevision, bytes)
    <3>1. store.revisions = <<>>
      BY <1>1, <1>5, StoreHead DEF id
    <3>2. answer.kind = "Committed"
      BY <2>2, <3>1 DEF compareAndSwap, Appended, CommittedAs
    <3>3. Holds(answer.store, answer.revision, bytes)
      BY <1>1, <1>5, <3>2, CommittedIsHeld DEF answers
    <3>. QED  BY <1>3, <1>5, <2>1, <3>3
  <2>3. CASE "OutcomeUnknown" \in StoreLosses /\ answer.revision = NoRevision
    BY <1>3, <1>5, <2>3
  <2>. QED  BY <1>5, <2>2, <2>3, AnswerFacts DEF answers
<1>. QED  BY <1>2, <1>4, <1>5 DEF MintsHeld

\* A write publishes a successor only for a revision that the store answered as committed.
LEMMA WriteMintsHeld ==
    ASSUME TypeOK, StoresAreChains, NEW h \in Handles, NEW tx, NEW g, write_to_cognition(h, tx, g),
           mats[h].quarantine = "Promoted"
    PROVE  MintsHeld
<1>. DEFINE bytes == serializeImpl(ApplyTx(mats[h].state, tx))
            store == stores[g_store]
<1>1. CASE UNCHANGED <<mats, stores>>
  BY <1>1 DEF MintsHeld
<1>2. CASE /\ g_store \in StoreIds
           /\ \E answer \in StoreAnswers(store, mats[h].revision, bytes, StoreLosses) :
                 WriteAnswered(h, tx, g, bytes, answer)
  <2>1. PICK answer \in StoreAnswers(store, mats[h].revision, bytes, StoreLosses) :
                WriteAnswered(h, tx, g, bytes, answer)
    BY <1>2
  <2>. DEFINE m == [state |-> ApplyTx(mats[h].state, tx), digest |-> draft_snapshot_digest(bytes),
                    revision |-> answer.revision, epoch |-> mats[h].epoch,
                    quarantine |-> mats[h].quarantine]
  <2>2. IsSequence(store.revisions) /\ IsChain(store) /\ stores'[g_store] = answer.store
    BY <1>2, <2>1 DEF TypeOK, StoresOK, StoresAreChains, WriteAnswered
  <2>3. mats' = mats \/ (mats' = Append(mats, m) /\ answer.kind = "Committed")
    BY <2>1 DEF WriteAnswered, PublishSuccessor, Replace
  <2>4. m.quarantine = "Promoted" /\ m.revision = answer.revision
    OBVIOUS
  <2>. HIDE DEF m, bytes, store
  <2>5. answer.kind = "Committed" => Holds(stores'[g_store], answer.revision, bytes)
    BY <2>2, CommittedIsHeld
  <2>. QED  BY <1>2, <2>3, <2>4, <2>5 DEF MintsHeld, Backs
<1>. QED  BY <1>1, <1>2, WriteThroughShape

\* Step by step of the cycle; the store is attached once.
LEMMA CycleMintsHeld ==
    ASSUME CycleInv, StoresAreChains, HandlesAreHeld, [CycleNext]_cycleVars
    PROVE  /\ MintsHeld
           /\ g_store' = g_store \/ (g_store = "null" /\ g_store' \in StoreIds /\ mats' = mats)
<1>1. TypeOK
  BY DEF CycleInv
<1>2. ASSUME NEW s \in StoreIds, Attach(s)
      PROVE  mats' = mats /\ g_store = "null" /\ g_store' \in StoreIds
  BY <1>2 DEF Attach, attachStore
<1>3. ASSUME NEW s \in Sessions, Boot(s) PROVE MintsHeld /\ g_store' = g_store
  <2>1. create_canonical(NoRevision)
    BY <1>3, BootOfASession
  <2>. QED  BY <1>1, <2>1, BootMintsHeld DEF create_canonical
<1>4. ASSUME NEW s \in Sessions, NEW other, NEW mode,
             \/ Rebind(s, other) \/ Work(s, mode) \/ Think(s) \/ Throw(s) \/ Conclude(s)
             \/ UNCHANGED cycleVars
      PROVE  UNCHANGED <<mats, g_store>>
  BY <1>4 DEF Rebind, Work, acquire_grant, Think, Throw, Conclude, release_grant, cycleVars,
              vars, serviceState
<1>5. ASSUME NEW s \in Sessions, Write(s) PROVE MintsHeld /\ g_store' = g_store
  <2>1. turn[s].handle \in Handles
    BY <1>5, WriteOfATurn DEF CycleInv, CycleTypeOK, TurnOK
  <2>2. write_to_cognition(turn[s].handle, turn[s].transaction[1], turn[s].grant)
    BY <1>5, WriteOfATurn
  <2>3. g_store' = g_store
    BY <2>2 DEF write_to_cognition
  <2>. QED  BY <1>1, <2>1, <2>2, <2>3, WriteMintsHeld DEF HandlesAreHeld
<1>6. CASE UNCHANGED cycleVars
  BY <1>6 DEF cycleVars, vars, serviceState, MintsHeld
<1>. QED  BY <1>2, <1>3, <1>4, <1>5, <1>6 DEF CycleNext, TurnStep, MintsHeld

\* Stores keep what they hold, so a handle held once is held for ever.
LEMMA HeldStep ==
    /\ CycleInv /\ StoresAreChains /\ DurabilityInv /\ HandlesAreHeld /\ [CycleNext]_cycleVars
    => HandlesAreHeld'
<1>. SUFFICES ASSUME CycleInv, StoresAreChains, DurabilityInv, HandlesAreHeld,
                     [CycleNext]_cycleVars
              PROVE  HandlesAreHeld'
  OBVIOUS
<1>1. TypeOK /\ [Next]_vars
  BY CycleStepIsServiceStep DEF CycleInv
<1>2. StoresGrow
  BY <1>1, DurableStep
<1>3. MintsHeld /\ (g_store' = g_store \/ (g_store = "null" /\ mats' = mats))
  BY CycleMintsHeld
<1>4. g_store \in StoreIds => g_store # "null"
  BY ServiceAssumption
<1>5. ASSUME NEW h \in Handles
      PROVE  /\ mats'[h] = mats[h] /\ mats[h].quarantine = "Promoted" /\ g_store' = g_store
             /\ g_store \in StoreIds
             /\ Backs(stores'[g_store], mats[h]) \/ IsStranded(mats[h])
  <2>1. g_store \in StoreIds
    BY DEF HandlesAreHeld
  <2>2. IsSequence(stores[g_store].revisions) /\ GrownInto(stores[g_store], stores'[g_store])
    BY <1>1, <1>2, <2>1 DEF TypeOK, StoresOK, StoresGrow
  <2>3. Backs(stores[g_store], mats[h]) => Backs(stores'[g_store], mats[h])
    BY <2>2, HeldIsKept DEF Backs
  <2>. QED  BY <1>1, <1>3, <1>4, <2>1, <2>3, HeapIsImmutable DEF HandlesAreHeld
<1>6. CASE mats' = mats
  BY <1>5, <1>6 DEF HandlesAreHeld, Handles
<1>7. ASSUME NEW m, mats' = Append(mats, m), m.quarantine = "Promoted",
             g_store \in StoreIds, Backs(stores'[g_store], m) \/ IsStranded(m)
      PROVE  HandlesAreHeld'
  <2>1. /\ Len(mats) \in Nat /\ Handles = 1..Len(mats) /\ Handles' = 1..Len(mats) + 1
        /\ mats'[Len(mats) + 1] = m
    BY <1>1, <1>7, HeapAppended
  <2>2. \A h \in Handles' : h \in Handles \/ h = Len(mats) + 1
    BY <2>1
  <2>3. g_store' = g_store
    BY <1>3, <1>4, <1>7
  <2>. QED  BY <1>5, <1>7, <2>1, <2>2, <2>3 DEF HandlesAreHeld
<1>. QED  BY <1>3, <1>6, <1>7 DEF MintsHeld

\* No handle of the cycle is staged, quarantined or lost, but for a stranded genesis.
LEMMA HeldInvariant == CycleSpec => []HandlesAreHeld
<1>1. CycleInit => HandlesAreHeld
  BY DEF CycleInit, Init, HandlesAreHeld, Handles
<1>2. CycleSpec => [](StoresAreChains /\ DurabilityInv)
  BY CycleRefinesService, StoresStayChains, DurabilityInvariant, PTL
<1>. QED  BY <1>1, <1>2, HeldStep, CycleInvariant, PTL DEF CycleSpec

---------------------------------------------------------------------------
(* What an applied verdict delivers to the turn that holds it. *)

TurnDelivers(heap, t) ==
    t.verdict # <<>> /\ t.verdict[1].outcome = "Applied" =>
       /\ t.handle \in DOMAIN heap /\ t.verdict[1].successor \in DOMAIN heap
       /\ heap[t.handle].revision # NoRevision
       /\ serializeImpl(heap[t.verdict[1].successor].state)
            = serializeImpl(ApplyTx(heap[t.handle].state, t.transaction[1]))

\* Whatever other sessions did between a turn's write and its conclusion.
VerdictsDeliver == \A s \in Sessions : TurnDelivers(mats, turn[s])

\* A turn that keeps its verdict, handle and transaction keeps what was delivered.
LEMMA DeliveryKept ==
    ASSUME TypeOK, [Next]_vars, NEW t, TurnDelivers(mats, t), NEW u,
           u.verdict = t.verdict, u.handle = t.handle, u.transaction = t.transaction
    PROVE  TurnDelivers(mats', u)
<1>1. \A i \in DOMAIN mats : i \in DOMAIN mats' /\ mats'[i] = mats[i]
  BY HeapIsImmutable DEF Handles
<1>. QED  BY <1>1 DEF TurnDelivers

\* The write hands its turn a successor that shows the delta on what the session was bound
\* to, also when the verdict is a replay of an earlier receipt.
LEMMA WriteDelivers ==
    ASSUME CycleInv, StoresAreChains, DurabilityInv, HistoryInv, ReceiptsDeliver, HandlesAreHeld,
           [CycleNext]_cycleVars, CycleInv', NEW s \in Sessions, Write(s), Answered(s)
    PROVE  TurnDelivers(mats', turn'[s])
<1>. DEFINE h == turn[s].handle
            after == [turn[s] EXCEPT !.step = "concluding", !.verdict = <<result'.verdict>>]
<1>1. TypeOK /\ [Next]_vars /\ turn = [r \in Sessions |-> turn[r]] /\ IsTurn(turn[s])
  BY CycleStepIsServiceStep DEF CycleInv, SessionShape
<1>2. /\ turn[s].step = "writing" /\ turn'[s] = after
      /\ write_to_cognition(h, turn[s].transaction[1], turn[s].grant)
  BY <1>1, WriteOfATurn DEF Answered
<1>3. /\ after.verdict = <<result'.verdict>> /\ after.handle = h
      /\ after.transaction = turn[s].transaction
  BY <1>1 DEF IsTurn
<1>4. TurnOK(turn[s])
  BY DEF CycleInv, CycleTypeOK
<1>5. PICK request \in Requests :
         /\ request.operations # <<>>
         /\ turn[s].transaction = <<WithBase(request, mats[h].revision)>>
  BY <1>2, <1>4 DEF TurnOK
<1>6. h \in Handles
  BY <1>2, <1>4 DEF TurnOK
<1>7. mats[h].quarantine = "Promoted"
  BY <1>6 DEF HandlesAreHeld
<1>8. turn[s].transaction[1] = WithBase(request, mats[h].revision)
  BY <1>5
<1>9. ASSUME result'.verdict.outcome = "Applied"
      PROVE  /\ mats[h].revision # NoRevision
             /\ serializeImpl(mats'[result'.verdict.successor].state)
                  = serializeImpl(ApplyTx(mats[h].state, turn[s].transaction[1]))
  <2>. HIDE DEF h, after
  <2>1. write_to_cognition(h, WithBase(request, mats[h].revision), turn[s].grant)
    BY <1>2, <1>8
  <2>2. /\ mats[h].revision # NoRevision \/ request.operations = <<>>
        /\ serializeImpl(mats'[result'.verdict.successor].state)
             = serializeImpl(ApplyTx(mats[h].state, WithBase(request, mats[h].revision)))
    BY <1>1, <1>6, <1>7, <1>9, <2>1, AppliedDelivers
  <2>. QED  BY <1>5, <1>8, <2>2
<1>10. h \in Handles' /\ mats'[h] = mats[h]
  BY <1>1, <1>6, HeapIsImmutable
<1>11. result'.verdict.outcome = "Applied" => result'.verdict.successor \in Handles'
  BY <1>1, <1>2, <1>6, WriteReturns, HeapIsImmutable
<1>12. /\ turn'[s].verdict = <<result'.verdict>> /\ turn'[s].handle = h
       /\ turn'[s].transaction = turn[s].transaction
  BY <1>2, <1>3
<1>13. turn'[s].verdict[1] = result'.verdict
  BY <1>12
<1>14. h \in DOMAIN mats' /\ (result'.verdict.outcome = "Applied" => result'.verdict.successor \in DOMAIN mats')
  BY <1>10, <1>11 DEF Handles
<1>15. result'.verdict.outcome = "Applied" => mats'[h].revision # NoRevision
  BY <1>9, <1>10
<1>16. result'.verdict.outcome = "Applied" =>
         serializeImpl(mats'[result'.verdict.successor].state)
           = serializeImpl(ApplyTx(mats'[h].state, turn'[s].transaction[1]))
  BY <1>9, <1>10, <1>12
<1>. HIDE DEF after, h
<1>. QED  BY <1>12, <1>13, <1>14, <1>15, <1>16 DEF TurnDelivers

\* Step by step of the cycle: only a write hands out a verdict.
LEMMA DeliveryStep ==
    /\ CycleInv /\ StoresAreChains /\ DurabilityInv /\ HistoryInv /\ ReceiptsDeliver
    /\ HandlesAreHeld /\ GapInv /\ VerdictsDeliver /\ [CycleNext]_cycleVars
    => VerdictsDeliver'
<1>. SUFFICES ASSUME CycleInv, StoresAreChains, DurabilityInv, HistoryInv, ReceiptsDeliver,
                     HandlesAreHeld, GapInv, VerdictsDeliver, [CycleNext]_cycleVars
              PROVE  VerdictsDeliver'
  OBVIOUS
<1>1. TypeOK /\ [Next]_vars /\ turn = [s \in Sessions |-> turn[s]] /\ CycleInv'
  BY CycleStepIsServiceStep, CycleInvStep DEF CycleInv, SessionShape
\* Every turn but one is as it was, and that one holds no verdict or a delivered one.
<1>2. ASSUME NEW s \in Sessions, \A r \in Sessions : r # s => turn'[r] = turn[r],
             turn'[s].verdict = <<>> \/ turn'[s] = turn[s] \/ TurnDelivers(mats', turn'[s])
      PROVE  VerdictsDeliver'
  <2>1. ASSUME NEW r \in Sessions, turn'[r] = turn[r] PROVE TurnDelivers(mats', turn'[r])
    BY <1>1, <2>1, DeliveryKept DEF VerdictsDeliver
  <2>2. turn'[s].verdict = <<>> => TurnDelivers(mats', turn'[s])
    BY DEF TurnDelivers
  <2>3. \A r \in Sessions : TurnDelivers(mats', turn'[r])
    BY <1>2, <2>1, <2>2
  <2>. QED  BY <2>3 DEF VerdictsDeliver
<1>3. CASE turn' = turn
  <2>1. ASSUME NEW r \in Sessions PROVE TurnDelivers(mats', turn'[r])
    BY <1>1, <1>3, DeliveryKept DEF VerdictsDeliver
  <2>. QED  BY <2>1 DEF VerdictsDeliver
<1>4. ASSUME NEW store, NEW s, NEW other,
             Attach(store) \/ Boot(s) \/ Rebind(s, other) \/ UNCHANGED cycleVars
      PROVE  turn' = turn
  BY <1>4 DEF Attach, Boot, Rebind, sessionVars, cycleVars
<1>5. ASSUME NEW s \in Sessions, NEW mode, Work(s, mode) PROVE VerdictsDeliver'
  <2>. DEFINE started == [NoTurn EXCEPT !.step = "thinking", !.handle = llm[s].pCognition,
                                        !.grant = result'.grant]
  <2>1. turn' = turn \/ turn' = [turn EXCEPT ![s] = started]
    BY <1>5 DEF Work
  <2>2. started.verdict = <<>>
    BY DEF NoTurn
  <2>. HIDE DEF started
  <2>. QED  BY <1>1, <1>2, <1>3, <2>1, <2>2
<1>6. ASSUME NEW s \in Sessions, Throw(s) \/ Conclude(s) PROVE VerdictsDeliver'
  <2>1. turn' = [turn EXCEPT ![s] = NoTurn] /\ NoTurn.verdict = <<>>
    BY <1>6 DEF Throw, Unwound, Conclude, NoTurn
  <2>. QED  BY <1>1, <1>2, <2>1
<1>7. ASSUME NEW s \in Sessions, Think(s) PROVE VerdictsDeliver'
  <2>1. PICK request \in Requests :
           turn' = [turn EXCEPT ![s] =
              IF request.operations = <<>> THEN [@ EXCEPT !.step = "concluding"]
              ELSE [@ EXCEPT !.step = "writing",
                      !.transaction = <<WithBase(request, mats[turn[s].handle].revision)>>]]
    BY <1>7 DEF Think
  <2>. DEFINE short == [turn[s] EXCEPT !.step = "concluding"]
              long  == [turn[s] EXCEPT !.step = "writing",
                          !.transaction = <<WithBase(request, mats[turn[s].handle].revision)>>]
  <2>2. turn' = [turn EXCEPT ![s] = short] \/ turn' = [turn EXCEPT ![s] = long]
    BY <2>1
  <2>3. IsTurn(turn[s]) /\ turn[s].verdict = <<>>
    BY <1>7 DEF Think, GapInv, GapShape, CycleInv, SessionShape
  <2>4. short.verdict = <<>> /\ long.verdict = <<>>
    BY <2>3 DEF IsTurn
  <2>. HIDE DEF short, long
  <2>. QED  BY <1>1, <1>2, <2>2, <2>4
<1>8. ASSUME NEW s \in Sessions, Write(s) PROVE VerdictsDeliver'
  <2>1. CASE Answered(s)
    <3>1. \A r \in Sessions : r # s => turn'[r] = turn[r]
      BY <1>1, <2>1 DEF Answered
    <3>2. TurnDelivers(mats', turn'[s])
      BY <1>1, <1>8, <2>1, WriteDelivers
    <3>. QED  BY <1>2, <3>1, <3>2
  <2>2. CASE Unwound(s)
    <3>1. turn' = [turn EXCEPT ![s] = NoTurn] /\ NoTurn.verdict = <<>>
      BY <2>2 DEF Unwound, NoTurn
    <3>. QED  BY <1>1, <1>2, <3>1
  <2>. QED  BY <1>8, <2>1, <2>2, WriteOfATurn
<1>. QED  BY <1>3, <1>4, <1>5, <1>6, <1>7, <1>8 DEF CycleNext, TurnStep

\* In every reachable state of the cycle.
LEMMA DeliveryInvariant == CycleSpec => []VerdictsDeliver
<1>1. CycleInit => VerdictsDeliver
  <2>1. NoTurn.verdict = <<>>
    BY DEF NoTurn
  <2>. QED  BY <2>1 DEF CycleInit, VerdictsDeliver, TurnDelivers
<1>2. CycleSpec => [](StoresAreChains /\ DurabilityInv /\ HistoryInv /\ ReceiptsDeliver)
  BY CycleRefinesService, StoresStayChains, DurabilityInvariant, HistoryInvariant,
     ReceiptsDeliverInvariant, PTL
<1>. QED
  BY <1>1, <1>2, DeliveryStep, HeldInvariant, GapInvariant, CycleInvariant, PTL DEF CycleSpec

---------------------------------------------------------------------------
(* What a session is bound to. *)

\* Whoever is bound acts for the principal the genesis was made for.
OwnersServe == RootPrincipal # "" /\ \A s \in Sessions : ActorOf[s].principal = RootPrincipal

\* is_continueable for a session whose handle the store backs: its tree is governed as the
\* genesis was, and the session acts for the root principal.
LEMMA BackedIsContinueable ==
    ASSUME OwnersServe, CycleInv, StoresAreChains, DurabilityInv, HistoryInv, StoredAreGoverned,
           HandlesAreHeld, NEW s \in Sessions, llm[s].pCognition # NoHandle,
           Backs(stores[g_store], mats[llm[s].pCognition])
    PROVE  is_continueable(s)
<1>. DEFINE h == llm[s].pCognition
<1>1. h \in Handles /\ TypeOK
  BY DEF CycleInv, CycleTypeOK
<1>2. PICK bytes : Holds(stores[g_store], mats[h].revision, bytes)
  BY DEF Backs
<1>3. g_store \in StoreIds /\ mats[h].quarantine = "Promoted"
  BY <1>1 DEF HandlesAreHeld
<1>4. /\ g_store # "null" /\ mats[h].revision # NoRevision
      /\ verify(stores[g_store], mats[h].revision)
  BY <1>2, <1>3, HeldHasIdentity, ServiceAssumption DEF StoresAreChains
<1>5. IsGoverned(mats[h].state)
  BY <1>1, <1>3, <1>4, ShownIsGoverned
<1>6. mats[h].state.rootPrincipal = RootPrincipal
  BY <1>5 DEF IsGoverned
<1>7. \A o \in ToSet(mats[h].state.obligations) : o.status # "Blocked"
  BY <1>5 DEF IsGoverned, AllUnblocked, Unblocked, ToSet
<1>8. RootPrincipal # "" /\ ActorOf[s].principal = RootPrincipal
  BY Zenon DEF OwnersServe
<1>. QED  BY <1>4, <1>6, <1>7, <1>8, Zenon DEF is_continueable

\* is_continueable answers yes for every session that ever bound a handle, for any number of
\* sessions and turns and whatever the store answers, unless the acknowledgement of a genesis
\* was lost: the session is then bound to that genesis tree without a revision, and no turn on
\* it is ever applied.  The hypothesis is what the function itself compares.
THEOREM BoundStaysContinueable ==
    ASSUME OwnersServe
    PROVE  CycleSpec => []BoundIsContinueable
<1>1. /\ CycleInv /\ StoresAreChains /\ DurabilityInv /\ HistoryInv /\ StoredAreGoverned
      /\ HandlesAreHeld /\ VerdictsDeliver
      => BoundIsContinueable
  <2>. SUFFICES ASSUME CycleInv, StoresAreChains, DurabilityInv, HistoryInv, StoredAreGoverned,
                       HandlesAreHeld, VerdictsDeliver, NEW s \in Sessions
                PROVE  /\ llm[s].pCognition # NoHandle
                             => is_continueable(s) \/ Stranded(llm[s].pCognition)
                       /\ turn[s].verdict # <<>> /\ turn[s].verdict[1].outcome = "Applied"
                             => mats[turn[s].handle].revision # NoRevision
    BY Zenon DEF BoundIsContinueable
  <2>1. ASSUME llm[s].pCognition # NoHandle
        PROVE  is_continueable(s) \/ Stranded(llm[s].pCognition)
    <3>1. llm[s].pCognition \in Handles
      BY <2>1 DEF CycleInv, CycleTypeOK
    <3>2. \/ Backs(stores[g_store], mats[llm[s].pCognition])
          \/ IsStranded(mats[llm[s].pCognition])
      BY <3>1 DEF HandlesAreHeld
    <3>3. IsStranded(mats[llm[s].pCognition]) => Stranded(llm[s].pCognition)
      BY Zenon DEF IsStranded, Stranded
    <3>. QED  BY <2>1, <3>2, <3>3, BackedIsContinueable
  <2>2. turn[s].verdict # <<>> /\ turn[s].verdict[1].outcome = "Applied"
           => mats[turn[s].handle].revision # NoRevision
    BY DEF VerdictsDeliver, TurnDelivers
  <2>. QED  BY <2>1, <2>2
<1>2. CycleSpec => [](StoresAreChains /\ DurabilityInv /\ HistoryInv /\ StoredAreGoverned)
  BY CycleRefinesService, StoresStayChains, DurabilityInvariant, HistoryInvariant,
     GovernedInvariant, PTL
<1>. QED  BY <1>1, <1>2, HeldInvariant, DeliveryInvariant, CycleInvariant, PTL

---------------------------------------------------------------------------
(* What an applied turn leaves its session with. *)

\* Only concluding ends a turn that has its verdict, and rebinds its session.
LEMMA ConcludesApplied ==
    ASSUME CycleInv, [CycleNext]_cycleVars, NEW s \in Sessions, turn[s].step = "concluding",
           turn'[s].step = "idle", turn[s].verdict # <<>>, turn[s].verdict[1].outcome = "Applied"
    PROVE  mats' = mats /\ llm'[s].pCognition = turn[s].verdict[1].successor
<1>1. /\ turn = [r \in Sessions |-> turn[r]] /\ llm = [r \in Sessions |-> llm[r]]
      /\ IsSession(llm[s]) /\ \A r \in Sessions : IsTurn(turn[r])
  BY DEF CycleInv, SessionShape
<1>2. CASE turn'[s] = turn[s]
  BY <1>2
<1>3. ASSUME NEW r \in Sessions, NEW x, turn' = [turn EXCEPT ![r] = x], r # s
      PROVE  turn'[s] = turn[s]
  BY <1>1, <1>3
<1>4. ASSUME NEW store, NEW r, NEW other,
             Attach(store) \/ Boot(r) \/ Rebind(r, other) \/ UNCHANGED cycleVars
      PROVE  turn' = turn
  BY <1>4 DEF Attach, Boot, Rebind, sessionVars, cycleVars
<1>5. ASSUME NEW r \in Sessions, NEW mode,
             Work(r, mode) \/ Think(r) \/ Throw(r) \/ Write(r)
      PROVE  turn'[s] = turn[s]
  <2>1. turn' = turn \/ \E x : turn' = [turn EXCEPT ![r] = x]
    BY <1>5 DEF Work, Think, Throw, Write, Unwound
  <2>2. turn[r].step # "concluding"
    BY <1>5 DEF Work, Think, Throw, Write, Idle
  <2>. QED  BY <1>3, <2>1, <2>2
<1>6. ASSUME NEW r \in Sessions, Conclude(r), r # s PROVE turn'[s] = turn[s]
  BY <1>3, <1>6 DEF Conclude
<1>7. CASE Conclude(s)
  <2>1. mats' = mats /\ llm' = [llm EXCEPT ![s] = Concluded(llm[s], turn[s])]
    BY <1>7 DEF Conclude, release_grant
  <2>2. Concluded(llm[s], turn[s]) = Accepted(llm[s], turn[s].verdict[1])
    BY DEF Concluded
  <2>3. \A v : Accepted(llm[s], v).pCognition = v.successor
    BY <1>1 DEF Accepted, IsSession
  <2>4. llm'[s] = Concluded(llm[s], turn[s])
    BY <1>1, <2>1
  <2>. QED  BY <2>1, <2>2, <2>3, <2>4
<1>. QED  BY <1>2, <1>4, <1>5, <1>6, <1>7 DEF CycleNext, TurnStep

\* The relay never rebinds a session to a tree without its accepted delta: what the session
\* is bound to at the end of the turn is written as the delta applied to what it was bound
\* to at the start.
THEOREM AppliedDeltaShows == CycleSpec => AppliedDeltaIsVisible
<1>1. CycleInv /\ VerdictsDeliver /\ [CycleNext]_cycleVars =>
        \A s \in Sessions :
          /\ turn[s].step = "concluding" /\ turn[s].verdict # <<>>
          /\ turn[s].verdict[1].outcome = "Applied"
          /\ turn'[s].step = "idle"
          => serializeImpl(mats'[llm'[s].pCognition].state)
               = serializeImpl(ApplyTx(mats[turn[s].handle].state, turn[s].transaction[1]))
  BY ConcludesApplied DEF VerdictsDeliver, TurnDelivers
<1>. QED
  BY <1>1, DeliveryInvariant, CycleInvariant, PTL DEF CycleSpec, AppliedDeltaIsVisible
=============================================================================
