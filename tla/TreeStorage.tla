---------------------------- MODULE TreeStorage ----------------------------
(***************************************************************************)
(* TreeReading's trees, with the policies they carry, on their way to      *)
(* bytes and back: the codec field by field, and damaged bytes.            *)
(***************************************************************************)
EXTENDS TreeReading, SnapshotCodec

\* The real cap is a hundred thousand records: it holds the twelve recovery rows of
\* the policy table and the rules of any policy in use.
ASSUME StorageAssumption ==
    MaxRecords >= 12 /\ \A policy \in Policies : Len(policy.rules) <= MaxRecords

\* A head of this tree can be read: no list of it is longer than the cap.
Readable(t) == DeserializeError(serializeImpl(t)) = "None"

\* Roles and long policies do not depend on the tree and are left out where the tree
\* holds more than a record.
Small(t) == RecordCount(t) <= 1

ShortPolicies == {policy \in Policies : Len(policy.rules) \in 1..3}

\* The writer and the reader are two walks over a snapshot, in a format without
\* field names.  They agree on every field of every record a tree can hold, in
\* every supported version: what comes back is the tree and the policy as the rest
\* of this project restores them (deserializeImpl of CognitionTree, ReadInvocation).
StoredBytesReadBack ==
    \A policy \in IF Small(tree) THEN Policies ELSE ShortPolicies,
       version \in IF Small(tree) THEN SupportedVersions ELSE {8} :
       LET roles   == IF Small(tree) THEN default_role_specs ELSE <<>>
           written == Snapshot(tree, policy, roles)
           back    == Snapshot(Restored(tree), ReadInvocation(version, policy), roles)
       IN  Readable(tree) =>
              ReadSnapshot(Bytes(version, written)) = [error |-> "None", snapshot |-> <<back>>]

\* What is stored of a tree where its bytes are damaged.
Stored(t, policy) == Bytes(8, Snapshot(t, policy, <<Last(default_role_specs)>>))

\* The bytes without their end, and with something after it.
Cut(bytes) ==
    {SubSeq(bytes, 1, n) : n \in 0..Len(bytes) - 1} \cup {Append(bytes, bytes[1])}

\* Part of a tree is never restored: bytes that end early are refused as truncated
\* wherever they end, and so are bytes with something after the snapshot.
CutIsRefused ==
    \A policy \in ShortPolicies :
       Small(tree) /\ Readable(tree) =>
          \A damaged \in Cut(Stored(tree, policy)) :
             ReadSnapshot(damaged) = [error |-> "Truncated", snapshot |-> <<>>]

\* The bytes with one byte that no enumeration or flag uses, one list that seems
\* longer than the cap, or an unknown version.
Corrupted(bytes) ==
    {[bytes EXCEPT ![i].value = 255] : i \in {j \in DOMAIN bytes : bytes[j].width = "u8"}}
      \cup {[bytes EXCEPT ![i].value = MaxRecords + 1] :
               i \in {j \in DOMAIN bytes : bytes[j].width = "u32"}}

\* A cell is written again as it was read, but a flag is set by any byte but zero.
Alike(cell, again) ==
    again = cell \/ (cell.width = "u8" /\ cell.value # 0 /\ again = Cell("u8", 1))

\* A tree that was not stored is never restored: corrupted bytes are refused, or what
\* is restored is what they say.  A changed presence byte shifts the fields after it:
\* the model stops at the first cell of another width and says nothing of what the
\* code would make of the rest.
DamageIsRefused ==
    \A policy \in ShortPolicies :
       Small(tree) /\ Readable(tree) =>
          \A damaged \in Corrupted(Stored(tree, policy)) :
             LET read  == ReadSnapshot(damaged)
                 again == Bytes(8, read.snapshot[1])
             IN  read.error = "None" =>
                    /\ Len(again) = Len(damaged)
                    /\ \A i \in DOMAIN damaged : Alike(damaged[i], again[i])
=============================================================================
