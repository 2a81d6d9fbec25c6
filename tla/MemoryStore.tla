---------------------------- MODULE MemoryStore ----------------------------
(***************************************************************************)
(* The persistence port (ICognitionStore) and its in-memory implementation *)
(* as operators on a store value: the append-only list of revisions and    *)
(* the head.  A revision id is the hash chain of the base it was committed *)
(* on and its bytes, idealised as injective: <<base, bytes>>.              *)
(***************************************************************************)
EXTENDS Integers, Sequences, SequencesExt

NoRevision == <<>>   \* the empty RevisionId

Mint(base, bytes) == <<base, bytes>>

EmptyStore == [revisions |-> <<>>, head |-> NoRevision]

verify(store, revision) == \E i \in DOMAIN store.revisions : store.revisions[i].id = revision

\* The bytes of a revision, as an optional value: the code returns empty bytes
\* for a revision it does not hold.
materialize(store, revision) ==
    IF verify(store, revision)
    THEN <<store.revisions[CHOOSE i \in DOMAIN store.revisions :
                              store.revisions[i].id = revision].bytes>>
    ELSE <<>>

HeadBytes(store) == store.revisions[Len(store.revisions)].bytes

\* The receipt a compare-and-swap returns and the store it leaves behind.
CommittedAs(store, revision) == [kind |-> "Committed", revision |-> revision, store |-> store]

Appended(store, base, bytes) ==
    CommittedAs([revisions |-> Append(store.revisions, [id |-> Mint(base, bytes), bytes |-> bytes]),
                 head      |-> Mint(base, bytes)],
                Mint(base, bytes))

\* Mutant: the base is not compared with the head.
compareAndSwap_LastWriterWins(store, base, bytes) == Appended(store, base, bytes)

compareAndSwap(store, base, bytes) ==
    IF store.revisions = <<>> THEN Appended(store, base, bytes)
    ELSE IF base # store.head
         THEN [kind |-> "CompareFailed", revision |-> NoRevision, store |-> store]
    ELSE IF HeadBytes(store) = bytes THEN CommittedAs(store, store.head) \* idempotent re-commit
    ELSE Appended(store, base, bytes)

\* How a swap can fail to answer: its acknowledgement is lost, or it throws.
Losses == {"OutcomeUnknown", "Threw"}

\* What a caller can be left with: the answer above, or one of the losses, behind
\* which the commit may or may not have landed.
StoreAnswers(store, base, bytes, losses) ==
    LET answer == compareAndSwap(store, base, bytes)
    IN  {answer} \cup {[kind |-> k, revision |-> NoRevision, store |-> s] :
                          k \in losses, s \in {store, answer.store}}
=============================================================================
