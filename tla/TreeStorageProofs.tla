------------------------- MODULE TreeStorageProofs --------------------------
(***************************************************************************)
(* What is written of a tree is read back, for every tree, policy and      *)
(* supported version.  The argument goes along the format: a reader reads  *)
(* a part when, wherever the bytes agree with the part as far as they go,  *)
(* it ends behind the part with the value that was written, or says that   *)
(* the bytes are truncated.  Scalars are read so by definition; the        *)
(* readers of sequences, lists, optional values and records read so what   *)
(* is made of parts that are.  For bytes of any origin the argument goes   *)
(* the other way: a reader is faithful when what it reads would be written *)
(* as the bytes it read.                                                   *)
(***************************************************************************)
EXTENDS TreeStorage, TreeReadingProofs

\* The texts that are the same in every snapshot.
FixedTexts ==
    {"kernel design", "not-created", "history is not overwritten", "provenance is required",
     "collaboration/operating-contract.md", "ratify and supersede", "accept checkpoints",
     "delegate", "architecture and review", "disclosure duty", "escalate",
     "no push without authorization"}

\* What a cell may hold: a count or an id, or what stands for a text.
Scalars ==
    Nat \cup STRING \cup FixedTexts \cup Texts \cup Seq(Texts) \cup Seq(Nat) \cup {RootPrincipal}

Cells == [width : {"u8", "u32", "u64"}, value : Nat] \cup [width : {"text"}, value : Scalars]

\* The bytes hold the part from a place on, as far as they go.
Agrees(bytes, at, part) ==
    \A i \in 1..Len(part) : at + i - 1 <= Len(bytes) => bytes[at + i - 1] = part[i]

\* What a reader says of a value whose part ends before end.
Outcome(bytes, end, value) ==
    IF end <= Len(bytes) + 1 THEN Got(end, value) ELSE Refused("Truncated")

Reads(item, bytes, part, value) ==
    /\ part \in Seq(Cells)
    /\ \A at \in Positions(bytes) :
          Agrees(bytes, at, part) => item[at] = Outcome(bytes, at + Len(part), value)

---------------------------------------------------------------------------
(* Parts that follow each other. *)

\* join holds what the first parts make together, one part more each time.
Joins(join, parts) ==
    /\ join[0] = <<>> /\ \A n \in 0..Len(parts) : join[n] \in Seq(Cells)
    /\ \A n \in 1..Len(parts) : join[n] = join[n - 1] \o parts[n]

\* FlattenSeq joins parts.
LEMMA FlattenSteps ==
    ASSUME NEW parts \in Seq(Seq(Cells))
    PROVE  \E join : Joins(join, parts) /\ join[Len(parts)] = FlattenSeq(parts)
<1>. DEFINE len == Len(parts)
            S == Seq(Cells)
            step == [n \in 1..len |-> [x \in S |-> x \o parts[n]]]
            Flat(g) == g = [i \in 1..len |-> IF i = 1 THEN parts[i] ELSE g[i - 1] \o parts[i]]
            flatten == CHOOSE g : Flat(g)
<1>1. len \in Nat /\ (\A n \in 1..len : parts[n] \in S) /\ <<>> \in S
  OBVIOUS
<1>2. CASE len = 0
  <2>1. parts = <<>> /\ FlattenSeq(parts) = <<>>
    BY <1>2 DEF FlattenSeq
  <2>2. Joins([n \in 0..0 |-> <<>>], parts)
    BY <1>2 DEF Joins
  <2>. QED  BY <1>2, <2>1, <2>2
<1>3. CASE len # 0
  <2>1. \A n \in 1..len : \A x \in S : step[n][x] \in S
    <3>. SUFFICES ASSUME NEW n \in 1..len, NEW x \in S PROVE x \o parts[n] \in S
      OBVIOUS
    <3>. QED  BY <1>1, ConcatProperties
  <2>2. PICK g : Walks(g, S, <<>>, step, len)
    <3>. HIDE DEF step, S
    <3>. QED  BY <1>1, <2>1, StepsExist
  <2>3. \A n \in 1..len : g[n] = g[n - 1] \o parts[n]
    <3>. SUFFICES ASSUME NEW n \in 1..len PROVE g[n] = g[n - 1] \o parts[n]
      OBVIOUS
    <3>1. n - 1 \in 0..len
      BY <1>1
    <3>2. g[n - 1] \in S /\ g[n] = step[n][g[n - 1]]
      <4>. HIDE DEF step, S
      <4>. QED  BY <2>2, <3>1 DEF Walks
    <3>. QED  BY <3>2
  <2>4. g[0] = <<>> /\ \A n \in 0..len : g[n] \in S
    <3>. HIDE DEF step, S
    <3>. QED  BY <2>2 DEF Walks
  <2>. DEFINE h == [i \in 1..len |-> g[i]]
  <2>5. Flat(h)
    <3>1. \A i \in 1..len : h[i] = IF i = 1 THEN parts[i] ELSE h[i - 1] \o parts[i]
      <4>. SUFFICES ASSUME NEW i \in 1..len
                    PROVE  h[i] = IF i = 1 THEN parts[i] ELSE h[i - 1] \o parts[i]
        OBVIOUS
      <4>1. CASE i = 1
        <5>1. g[1] = <<>> \o parts[1]
          <6>1. 1 \in 1..len /\ 1 - 1 = 0
            BY <1>1, <4>1
          <6>. QED  BY <2>3, <2>4, <6>1
        <5>2. <<>> \o parts[1] = parts[1]
          BY <1>1, <4>1, ConcatEmptySeq
        <5>. QED  BY <4>1, <5>1, <5>2
      <4>2. CASE i # 1
        <5>1. i - 1 \in 1..len
          BY <4>2, <1>1
        <5>. QED  BY <2>3, <4>2, <5>1
      <4>. QED  BY <4>1, <4>2
    <3>. HIDE DEF h
    <3>2. h = [i \in 1..len |-> h[i]]
      BY DEF h
    <3>. QED  BY <3>1, <3>2
  <2>6. Flat(flatten)
    <3>. HIDE DEF Flat, h
    <3>. QED  BY <2>5
  <2>7. FlattenSeq(parts) = flatten[len]
    BY <1>3 DEF FlattenSeq
  <2>. HIDE DEF flatten
  <2>8. \A i \in 1..len : flatten[i] = IF i = 1 THEN parts[i] ELSE flatten[i - 1] \o parts[i]
    BY <2>6
  <2>. DEFINE Good == {n \in Nat : n \in 1..len => flatten[n] = g[n]}
  <2>9. Nat \subseteq Good
    <3>1. 0 \in Good
      OBVIOUS
    <3>2. ASSUME NEW n \in Nat, n \in Good PROVE n + 1 \in Good
      <4>. SUFFICES ASSUME n + 1 \in 1..len PROVE flatten[n + 1] = g[n + 1]
        OBVIOUS
      <4>1. g[n + 1] = g[n] \o parts[n + 1]
        <5>1. (n + 1) - 1 = n
          OBVIOUS
        <5>. QED  BY <2>3, <5>1
      <4>2. CASE n = 0
        <5>1. <<>> \o parts[1] = parts[1]
          BY <1>1, <4>2, ConcatEmptySeq
        <5>2. flatten[1] = parts[1] /\ g[1] = g[0] \o parts[1]
          <6>1. 1 \in 1..len /\ 1 - 1 = 0
            BY <1>1, <1>3
          <6>. QED  BY <2>3, <2>8, <6>1
        <5>. QED  BY <2>4, <4>2, <5>1, <5>2
      <4>3. CASE n # 0
        <5>1. n \in 1..len /\ (n + 1) - 1 = n /\ n + 1 # 1
          BY <4>3, <1>1
        <5>2. flatten[n] = g[n]
          BY <3>2, <5>1
        <5>3. flatten[n + 1] = flatten[n] \o parts[n + 1]
          BY <2>8, <5>1
        <5>. QED  BY <4>1, <5>2, <5>3
      <4>. QED  BY <4>2, <4>3
    <3>. HIDE DEF Good
    <3>. QED  BY <3>1, <3>2, SetInduction
  <2>10. g[len] = FlattenSeq(parts)
    <3>1. len \in Good /\ len \in 1..len
      BY <2>9, <1>1, <1>3
    <3>. QED  BY <2>7, <3>1
  <2>11. Joins(g, parts)
    BY <2>3, <2>4 DEF Joins
  <2>. QED  BY <2>10, <2>11
<1>. QED  BY <1>2, <1>3

LEMMA Flattened ==
    ASSUME NEW parts \in Seq(Seq(Cells))
    PROVE  FlattenSeq(parts) \in Seq(Cells)
<1>1. PICK join : Joins(join, parts) /\ join[Len(parts)] = FlattenSeq(parts)
  BY FlattenSteps
<1>2. Len(parts) \in 0..Len(parts)
  OBVIOUS
<1>. QED  BY <1>1, <1>2 DEF Joins

\* Bytes that agree with one part after another agree with either in its place.
LEMMA AgreesApart ==
    ASSUME NEW bytes, NEW p \in Seq(Cells), NEW q \in Seq(Cells), NEW at \in Nat,
           Agrees(bytes, at, p \o q)
    PROVE  Agrees(bytes, at, p) /\ Agrees(bytes, at + Len(p), q)
<1>1. /\ Len(p \o q) = Len(p) + Len(q) /\ Len(p) \in Nat /\ Len(q) \in Nat
      /\ \A i \in 1..Len(p) + Len(q) : (p \o q)[i] = IF i <= Len(p) THEN p[i] ELSE q[i - Len(p)]
  BY ConcatProperties
<1>2. \A i \in 1..Len(p) + Len(q) :
         at + i - 1 <= Len(bytes) => bytes[at + i - 1] = (p \o q)[i]
  BY <1>1 DEF Agrees
<1>3. ASSUME NEW i \in 1..Len(p), at + i - 1 <= Len(bytes) PROVE bytes[at + i - 1] = p[i]
  <2>1. i \in 1..Len(p) + Len(q) /\ i <= Len(p)
    BY <1>1
  <2>. QED  BY <1>1, <1>2, <1>3, <2>1
<1>4. ASSUME NEW i \in 1..Len(q), (at + Len(p)) + i - 1 <= Len(bytes)
      PROVE  bytes[(at + Len(p)) + i - 1] = q[i]
  <2>. DEFINE k == Len(p) + i
  <2>1. k \in 1..Len(p) + Len(q) /\ ~(k <= Len(p)) /\ k - Len(p) = i
        /\ at + k - 1 = (at + Len(p)) + i - 1
    BY <1>1
  <2>2. (p \o q)[k] = q[i]
    BY <1>1, <2>1
  <2>3. bytes[at + k - 1] = (p \o q)[k]
    BY <1>2, <1>4, <2>1
  <2>. QED  BY <2>1, <2>2, <2>3
<1>. QED  BY <1>3, <1>4 DEF Agrees

\* They agree with the first parts when they agree with all.
LEMMA AgreesBefore ==
    ASSUME NEW bytes, NEW parts \in Seq(Seq(Cells)), NEW join, Joins(join, parts),
           NEW at \in Nat, Agrees(bytes, at, join[Len(parts)])
    PROVE  /\ \A n \in 0..Len(parts) : Agrees(bytes, at, join[n])
           /\ \A n \in 1..Len(parts) : Agrees(bytes, at + Len(join[n - 1]), parts[n])
<1>. DEFINE len == Len(parts)
            Good == {k \in Nat : k <= len => Agrees(bytes, at, join[len - k])}
<1>1. len \in Nat /\ \A n \in 1..len : parts[n] \in Seq(Cells)
  OBVIOUS
<1>2. 0 \in Good
  <2>1. len - 0 = len
    BY <1>1
  <2>. QED  BY <2>1
<1>3. ASSUME NEW k \in Nat, k \in Good PROVE k + 1 \in Good
  <2>. SUFFICES ASSUME k + 1 <= len PROVE Agrees(bytes, at, join[len - (k + 1)])
    OBVIOUS
  <2>. DEFINE n == len - k
  <2>1. n \in 1..len /\ n - 1 = len - (k + 1) /\ n - 1 \in 0..len
    BY <1>1
  <2>2. join[n] = join[n - 1] \o parts[n] /\ join[n - 1] \in Seq(Cells)
    <3>. HIDE DEF n
    <3>. QED  BY <2>1 DEF Joins
  <2>3. Agrees(bytes, at, join[n - 1] \o parts[n])
    <3>1. k <= len
      BY <1>1
    <3>2. Agrees(bytes, at, join[n])
      BY <1>3, <3>1
    <3>. HIDE DEF n
    <3>. QED  BY <2>2, <3>2
  <2>. HIDE DEF n
  <2>4. Agrees(bytes, at, join[n - 1])
    BY <1>1, <2>1, <2>2, <2>3, AgreesApart
  <2>. QED  BY <2>1, <2>4
<1>4. Nat \subseteq Good
  <2>. HIDE DEF Good
  <2>. QED  BY <1>2, <1>3, SetInduction
<1>5. ASSUME NEW n \in 0..len PROVE Agrees(bytes, at, join[n])
  <2>1. len - n \in Nat /\ len - n <= len /\ len - (len - n) = n
    BY <1>1
  <2>2. len - n \in Good
    BY <1>4, <2>1
  <2>. QED  BY <2>1, <2>2
<1>6. ASSUME NEW n \in 1..len PROVE Agrees(bytes, at + Len(join[n - 1]), parts[n])
  <2>1. n \in 0..len /\ n - 1 \in 0..len
    BY <1>1
  <2>2. join[n] = join[n - 1] \o parts[n] /\ join[n - 1] \in Seq(Cells)
    BY <2>1 DEF Joins
  <2>3. Agrees(bytes, at, join[n - 1] \o parts[n])
    BY <1>5, <2>1, <2>2
  <2>. QED  BY <1>1, <2>2, <2>3, AgreesApart
<1>. QED  BY <1>5, <1>6

---------------------------------------------------------------------------
(* Readers that follow each other. *)

\* What is read with one reader more.
Onward(sofar, reader) ==
    IF Failing(sofar) THEN sofar
    ELSE IF Failing(reader[sofar.at]) THEN reader[sofar.at]
    ELSE Got(reader[sofar.at].at, Append(sofar.value, reader[sofar.at].value))

\* read holds what the first readers read, for every number of them up to len.
AreRead(read, readers, start, len) ==
    read = [n \in 0..len |-> IF n = 0 THEN Got(start, <<>>) ELSE Onward(read[n - 1], readers[n])]

\* The recursion of ReadAll is well defined.
LEMMA AreReadExists ==
    ASSUME NEW readers, NEW start, NEW len \in Nat
    PROVE  \E read : AreRead(read, readers, start, len)
<1>. DEFINE One(g, n) == IF n = 0 THEN Got(start, <<>>) ELSE Onward(g[n - 1], readers[n])
            Holds(g, k) == g = [n \in 0..k |-> One(g, n)]
            S == {k \in Nat : \E g : Holds(g, k)}
<1>1. 0 \in S
  <2>1. Holds([n \in 0..0 |-> Got(start, <<>>)], 0)
    OBVIOUS
  <2>. QED  BY <2>1
<1>2. ASSUME NEW k \in Nat, k \in S PROVE k + 1 \in S
  <2>1. PICK g : Holds(g, k)
    BY <1>2
  <2>. DEFINE h == [n \in 0..k + 1 |-> IF n = k + 1 THEN One(g, k + 1) ELSE g[n]]
  <2>2. ASSUME NEW n \in 0..k + 1 PROVE h[n] = One(h, n)
    <3>1. CASE n = 0
      BY <3>1, <2>1
    <3>2. CASE n = k + 1
      BY <3>2
    <3>3. CASE n \in 1..k
      <4>1. h[n] = g[n] /\ h[n - 1] = g[n - 1] /\ n # 0
        BY <3>3
      <4>2. g[n] = One(g, n)
        <5>1. n \in 0..k
          BY <3>3
        <5>2. g = [m \in 0..k |-> One(g, m)]
          BY <2>1
        <5>. HIDE DEF One
        <5>. QED  BY <5>1, <5>2
      <4>. HIDE DEF h
      <4>. QED  BY <4>1, <4>2
    <3>. QED  BY <3>1, <3>2, <3>3
  <2>3. DOMAIN h = 0..k + 1 /\ h = [n \in DOMAIN h |-> h[n]]
    OBVIOUS
  <2>. HIDE DEF h, One
  <2>4. Holds(h, k + 1)
    BY <2>2, <2>3
  <2>. QED  BY <2>4
<1>. HIDE DEF S
<1>3. len \in S
  BY <1>1, <1>2, SetInduction
<1>. QED  BY <1>3 DEF S, AreRead

\* ReadAll goes on with one reader after the other.
LEMMA ReadSteps ==
    ASSUME NEW readers, NEW start, Len(readers) \in Nat
    PROVE  \E read :
              /\ read[0] = Got(start, <<>>)
              /\ \A n \in 1..Len(readers) : read[n] = Onward(read[n - 1], readers[n])
              /\ read[Len(readers)] = ReadAll(readers, start)
<1>. DEFINE len == Len(readers)
            read == CHOOSE g : AreRead(g, readers, start, len)
<1>1. AreRead(read, readers, start, len)
  BY AreReadExists
<1>2. ReadAll(readers, start) = read[len]
  BY DEF ReadAll, AreRead, Onward
<1>. HIDE DEF read
<1>3. read[0] = Got(start, <<>>)
  BY <1>1 DEF AreRead
<1>4. ASSUME NEW n \in 1..len PROVE read[n] = Onward(read[n - 1], readers[n])
  <2>1. n \in 0..len /\ n # 0
    OBVIOUS
  <2>. QED  BY <1>1, <2>1 DEF AreRead
<1>. QED  BY <1>2, <1>3, <1>4

\* One more value is appended, or the bytes end before it.
LEMMA OnwardReads ==
    ASSUME NEW bytes, Len(bytes) \in Nat, NEW item, NEW part, NEW value,
           Reads(item, bytes, part, value),
           NEW before \in Seq(Cells), NEW values, NEW at \in Nat \ {0},
           Agrees(bytes, at + Len(before), part)
    PROVE  Onward(Outcome(bytes, at + Len(before), values), item)
             = Outcome(bytes, at + Len(before \o part), Append(values, value))
<1>. DEFINE end == at + Len(before)
            last == end + Len(part)
<1>1. Len(part) \in Nat /\ end \in Nat \ {0} /\ at + Len(before \o part) = last
  <2>1. part \in Seq(Cells)
    BY DEF Reads
  <2>2. Len(before \o part) = Len(before) + Len(part) /\ Len(before) \in Nat /\ Len(part) \in Nat
    BY <2>1, ConcatProperties
  <2>. QED  BY <2>2
<1>2. CASE end <= Len(bytes) + 1
  <2>1. end \in Positions(bytes)
    BY <1>1, <1>2 DEF Positions
  <2>2. item[end] = Outcome(bytes, last, value)
    BY <2>1 DEF Reads
  <2>3. Outcome(bytes, end, values) = Got(end, values)
    BY <1>2 DEF Outcome
  <2>. HIDE DEF end, last
  <2>4. Onward(Got(end, values), item)
          = IF Failing(item[end]) THEN item[end]
            ELSE Got(item[end].at, Append(values, item[end].value))
    BY DEF Onward, Got, Failing
  <2>5. CASE last <= Len(bytes) + 1
    <3>1. item[end] = Got(last, value)
      BY <2>2, <2>5 DEF Outcome
    <3>2. Onward(Got(end, values), item) = Got(last, Append(values, value))
      BY <2>4, <3>1 DEF Got, Failing
    <3>. QED  BY <1>1, <2>3, <2>5, <3>2 DEF Outcome, end
  <2>6. CASE ~(last <= Len(bytes) + 1)
    <3>1. item[end] = Refused("Truncated")
      BY <2>2, <2>6 DEF Outcome
    <3>2. Onward(Got(end, values), item) = Refused("Truncated")
      BY <2>4, <3>1 DEF Refused, Failing
    <3>. QED  BY <1>1, <2>3, <2>6, <3>2 DEF Outcome, end
  <2>. QED  BY <2>5, <2>6
<1>3. CASE ~(end <= Len(bytes) + 1)
  <2>1. ~(last <= Len(bytes) + 1)
    BY <1>1, <1>3
  <2>2. Outcome(bytes, end, values) = Refused("Truncated")
    BY <1>3 DEF Outcome
  <2>3. Onward(Refused("Truncated"), item) = Refused("Truncated")
    BY DEF Onward, Refused, Failing
  <2>4. Outcome(bytes, last, Append(values, value)) = Refused("Truncated")
    BY <2>1 DEF Outcome
  <2>. QED  BY <1>1, <2>2, <2>3, <2>4
<1>. QED  BY <1>2, <1>3

\* As many readers as parts and values, each of which reads its part as its value.
EachReads(readers, bytes, parts, values, len) ==
    /\ len \in Nat /\ Len(readers) = len /\ Len(parts) = len /\ Len(values) = len
    /\ parts \in Seq(Seq(Cells)) /\ \E V : values \in Seq(V)
    /\ \A i \in 1..len : Reads(readers[i], bytes, parts[i], values[i])

\* They read the parts one after the other.
LEMMA InTurn ==
    ASSUME NEW bytes, Len(bytes) \in Nat, NEW len \in Nat, NEW readers,
           NEW parts \in Seq(Seq(Cells)), NEW V, NEW values \in Seq(V),
           EachReads(readers, bytes, parts, values, len),
           NEW at \in Nat \ {0}, at <= Len(bytes) + 1, Agrees(bytes, at, FlattenSeq(parts))
    PROVE  ReadAll(readers, at) = Outcome(bytes, at + Len(FlattenSeq(parts)), values)
<1>. /\ Len(readers) = len /\ Len(parts) = len /\ Len(values) = len
     /\ \A i \in 1..len : Reads(readers[i], bytes, parts[i], values[i])
  BY DEF EachReads
<1>1. PICK join : Joins(join, parts) /\ join[len] = FlattenSeq(parts)
  BY FlattenSteps
<1>2. \A n \in 1..len : Agrees(bytes, at + Len(join[n - 1]), parts[n])
  BY <1>1, AgreesBefore
<1>3. PICK read : /\ read[0] = Got(at, <<>>)
                  /\ \A n \in 1..len : read[n] = Onward(read[n - 1], readers[n])
                  /\ read[len] = ReadAll(readers, at)
  BY ReadSteps
<1>. DEFINE Good == {n \in Nat : n <= len =>
                       read[n] = Outcome(bytes, at + Len(join[n]), SubSeq(values, 1, n))}
<1>4. 0 \in Good
  <2>1. join[0] = <<>> /\ SubSeq(values, 1, 0) = <<>> /\ at + Len(<<>>) = at
    BY <1>1 DEF Joins
  <2>. QED  BY <1>3, <2>1 DEF Outcome
<1>5. ASSUME NEW n \in Nat, n \in Good PROVE n + 1 \in Good
  <2>. SUFFICES ASSUME n + 1 <= len
                PROVE  read[n + 1] = Outcome(bytes, at + Len(join[n + 1]), SubSeq(values, 1, n + 1))
    OBVIOUS
  <2>1. PICK k \in 1..len : k = n + 1
    OBVIOUS
  <2>2. k - 1 = n /\ n \in 0..len
    BY <2>1
  <2>3. join[k] = join[n] \o parts[k] /\ join[n] \in Seq(Cells)
    <3>. HIDE DEF Good
    <3>1. join[k] = join[k - 1] \o parts[k]
      BY <1>1 DEF Joins
    <3>. QED  BY <1>1, <2>2, <3>1 DEF Joins
  <2>4. read[n] = Outcome(bytes, at + Len(join[n]), SubSeq(values, 1, n))
    BY <1>5, <2>2
  <2>. HIDE DEF Good
  <2>5. read[k] = Onward(read[n], readers[k])
    <3>1. read[k] = Onward(read[k - 1], readers[k])
      BY <1>3
    <3>. QED  BY <2>2, <3>1
  <2>6. Agrees(bytes, at + Len(join[n]), parts[k])
    <3>1. Agrees(bytes, at + Len(join[k - 1]), parts[k])
      BY <1>2
    <3>. QED  BY <2>2, <3>1
  <2>7. Append(SubSeq(values, 1, n), values[k]) = SubSeq(values, 1, k)
    BY <2>1
  <2>8. read[k] = Outcome(bytes, at + Len(join[n] \o parts[k]),
                          Append(SubSeq(values, 1, n), values[k]))
    <3>1. Reads(readers[k], bytes, parts[k], values[k])
      OBVIOUS
    <3>. QED  BY <2>3, <2>4, <2>5, <2>6, <3>1, OnwardReads
  <2>. QED  BY <2>1, <2>3, <2>7, <2>8
<1>6. Nat \subseteq Good
  <2>. HIDE DEF Good
  <2>. QED  BY <1>4, <1>5, SetInduction
<1>7. read[len] = Outcome(bytes, at + Len(join[len]), SubSeq(values, 1, len))
  BY <1>6
<1>8. SubSeq(values, 1, len) = values
  OBVIOUS
<1>. HIDE DEF Good
<1>. QED  BY <1>1, <1>3, <1>7, <1>8

LEMMA AllRead ==
    ASSUME NEW bytes, Len(bytes) \in Nat, NEW len, NEW readers, NEW parts, NEW values,
           EachReads(readers, bytes, parts, values, len),
           NEW at \in Positions(bytes), Agrees(bytes, at, FlattenSeq(parts))
    PROVE  ReadAll(readers, at) = Outcome(bytes, at + Len(FlattenSeq(parts)), values)
<1>1. at \in Nat \ {0} /\ at <= Len(bytes) + 1
  BY DEF Positions
<1>2. PICK V : values \in Seq(V)
  BY DEF EachReads
<1>3. len \in Nat /\ parts \in Seq(Seq(Cells))
  BY DEF EachReads
<1>. QED  BY <1>1, <1>2, <1>3, InTurn

---------------------------------------------------------------------------
(* The readers of scalars, lists, optional values and records. *)

\* The first cell of some part is taken, and the rest follows it.
LEMMA FirstCell ==
    ASSUME NEW bytes, Len(bytes) \in Nat, NEW cell \in Cells, NEW rest \in Seq(Cells),
           NEW at \in Nat \ {0}, Agrees(bytes, at, <<cell>> \o rest)
    PROVE  /\ Take(cell.width, bytes, at) = Outcome(bytes, at + 1, cell.value)
           /\ Agrees(bytes, at + 1, rest)
           /\ Len(<<cell>> \o rest) = 1 + Len(rest)
<1>1. <<cell>> \in Seq(Cells) /\ Len(<<cell>>) = 1 /\ <<cell>>[1] = cell
  OBVIOUS
<1>. HIDE DEF Cells
<1>2. Len(<<cell>> \o rest) = 1 + Len(rest)
  BY <1>1, ConcatProperties
<1>3. Agrees(bytes, at, <<cell>>) /\ Agrees(bytes, at + 1, rest)
  BY <1>1, AgreesApart
<1>4. at <= Len(bytes) => bytes[at] = cell
  <2>1. at + 1 - 1 = at
    OBVIOUS
  <2>. QED  BY <1>1, <1>3, <2>1 DEF Agrees
<1>5. Take(cell.width, bytes, at) = Outcome(bytes, at + 1, cell.value)
  BY <1>4 DEF Take, Outcome
<1>. QED  BY <1>2, <1>3, <1>5

\* A part of one cell.
LEMMA OneCell ==
    ASSUME NEW bytes, Len(bytes) \in Nat, NEW cell \in Cells, NEW at \in Positions(bytes),
           Agrees(bytes, at, <<cell>>)
    PROVE  Take(cell.width, bytes, at) = Outcome(bytes, at + Len(<<cell>>), cell.value)
<1>1. <<cell>> \in Seq(Cells) /\ <<>> \in Seq(Cells) /\ Len(<<cell>>) = 1 /\ at \in Nat \ {0}
  BY DEF Positions
<1>. HIDE DEF Cells
<1>2. <<cell>> \o <<>> = <<cell>>
  BY <1>1, ConcatEmptySeq
<1>. QED  BY <1>1, <1>2, FirstCell

LEMMA CellIs ==
    ASSUME NEW width, NEW value,
           \/ width \in {"u8", "u32", "u64"} /\ value \in Nat
           \/ width = "text" /\ value \in Scalars
    PROVE  /\ Cell(width, value) \in Cells
           /\ Cell(width, value).width = width /\ Cell(width, value).value = value
BY DEF Cells, Cell

LEMMA TextReads ==
    ASSUME NEW bytes, Len(bytes) \in Nat, NEW value \in Scalars
    PROVE  Reads(ReadText(bytes), bytes, PutText(value), value)
<1>. DEFINE cell == Cell("text", value)
<1>1. cell \in Cells /\ cell.width = "text" /\ cell.value = value
  BY CellIs
<1>2. PutText(value) = <<cell>> /\ <<cell>> \in Seq(Cells)
  BY <1>1 DEF PutText
<1>. HIDE DEF cell
<1>3. ASSUME NEW at \in Positions(bytes), Agrees(bytes, at, <<cell>>)
      PROVE  ReadText(bytes)[at] = Outcome(bytes, at + Len(<<cell>>), value)
  BY <1>1, <1>3, OneCell DEF ReadText
<1>. QED  BY <1>2, <1>3 DEF Reads

LEMMA NumberReads ==
    ASSUME NEW bytes, Len(bytes) \in Nat, NEW value \in Nat
    PROVE  Reads(ReadNumber(bytes), bytes, PutNumber(value), value)
<1>. DEFINE cell == Cell("u64", value)
<1>1. cell \in Cells /\ cell.width = "u64" /\ cell.value = value
  BY CellIs DEF Scalars
<1>2. PutNumber(value) = <<cell>> /\ <<cell>> \in Seq(Cells)
  BY <1>1 DEF PutNumber
<1>. HIDE DEF cell
<1>3. ASSUME NEW at \in Positions(bytes), Agrees(bytes, at, <<cell>>)
      PROVE  ReadNumber(bytes)[at] = Outcome(bytes, at + Len(<<cell>>), value)
  BY <1>1, <1>3, OneCell DEF ReadNumber
<1>. QED  BY <1>2, <1>3 DEF Reads

LEMMA FlagReads ==
    ASSUME NEW bytes, Len(bytes) \in Nat, NEW value \in BOOLEAN
    PROVE  Reads(ReadFlag(bytes), bytes, PutFlag(value), value)
<1>. DEFINE raw == IF value THEN 1 ELSE 0
            cell == Cell("u8", raw)
<1>1. cell \in Cells /\ cell.width = "u8" /\ cell.value = raw
  BY CellIs DEF Scalars
<1>2. PutFlag(value) = <<cell>> /\ <<cell>> \in Seq(Cells)
  BY <1>1 DEF PutFlag
<1>3. (raw # 0) = value
  OBVIOUS
<1>. HIDE DEF cell, raw
<1>4. ASSUME NEW at \in Positions(bytes), Agrees(bytes, at, <<cell>>)
      PROVE  ReadFlag(bytes)[at] = Outcome(bytes, at + Len(<<cell>>), value)
  <2>1. Take("u8", bytes, at) = Outcome(bytes, at + Len(<<cell>>), raw)
    BY <1>1, <1>4, OneCell
  <2>2. ReadFlag(bytes)[at] = IF Failing(Take("u8", bytes, at)) THEN Take("u8", bytes, at)
                              ELSE Got(Take("u8", bytes, at).at, Take("u8", bytes, at).value # 0)
    BY DEF ReadFlag
  <2>. QED  BY <1>3, <2>1, <2>2 DEF Outcome, Got, Refused, Failing
<1>. QED  BY <1>2, <1>4 DEF Reads

\* The reader's limit of an enumeration is that of its declaration.
Declares(names, limit) == Len(names) = limit + 1 /\ DOMAIN names = 1..Len(names)

\* An enumerator has one place, and the limit covers it.
LEMMA EnumReads ==
    ASSUME NEW bytes, Len(bytes) \in Nat, NEW names, NEW value \in ToSet(names),
           NEW limit \in Nat, Declares(names, limit)
    PROVE  Reads(enumValue(bytes, names, limit), bytes, PutEnum(names, value), value)
<1>. DEFINE places == {i \in 1..Len(names) : names[i] = value}
            place == Min(places)
            cell == Cell("u8", place - 1)
<1>. Len(names) = limit + 1 /\ DOMAIN names = 1..Len(names)
  BY DEF Declares
<1>1. places # {} /\ places \subseteq Nat
  BY DEF ToSet
<1>2. place \in places
  BY <1>1, MinFacts
<1>3. SelectInSeq(names, LAMBDA n : n = value) = place
  BY <1>1 DEF SelectInSeq
<1>4. place \in 1..Len(names) /\ names[place] = value /\ place - 1 \in Nat /\ place - 1 <= limit
      /\ (place - 1) + 1 = place
  BY <1>2
<1>. HIDE DEF place
<1>5. cell \in Cells /\ cell.width = "u8" /\ cell.value = place - 1
  BY <1>4, CellIs DEF Scalars
<1>6. PutEnum(names, value) = <<cell>> /\ <<cell>> \in Seq(Cells)
  BY <1>3, <1>5 DEF PutEnum
<1>. HIDE DEF cell
<1>7. ASSUME NEW at \in Positions(bytes), Agrees(bytes, at, <<cell>>)
      PROVE  enumValue(bytes, names, limit)[at] = Outcome(bytes, at + Len(<<cell>>), value)
  <2>. DEFINE raw == Take("u8", bytes, at)
  <2>1. raw = Outcome(bytes, at + Len(<<cell>>), place - 1)
    BY <1>5, <1>7, OneCell
  <2>2. enumValue(bytes, names, limit)[at]
          = IF Failing(raw) THEN raw
            ELSE IF raw.value > limit THEN Refused("BadEnum")
            ELSE Got(raw.at, names[raw.value + 1])
    BY DEF enumValue
  <2>. HIDE DEF raw
  <2>. QED  BY <1>4, <2>1, <2>2 DEF Outcome, Got, Refused, Failing
<1>. QED  BY <1>6, <1>7 DEF Reads

\* What is not written is read without bytes.
LEMMA DeclaredReads ==
    ASSUME NEW bytes, Len(bytes) \in Nat, NEW value
    PROVE  Reads(Declared(bytes, value), bytes, <<>>, value)
<1>1. <<>> \in Seq(Cells) /\ Len(<<>>) = 0
  OBVIOUS
<1>2. ASSUME NEW at \in Positions(bytes)
      PROVE  Declared(bytes, value)[at] = Outcome(bytes, at + 0, value)
  BY DEF Declared, Positions, Outcome
<1>. QED  BY <1>1, <1>2 DEF Reads

\* A list whose length the reader's cap covers.
LEMMA ListReads ==
    ASSUME NEW bytes, Len(bytes) \in Nat, NEW item,
           NEW parts \in Seq(Seq(Cells)), NEW V, NEW values \in Seq(V),
           Len(parts) = Len(values), Len(values) <= MaxRecords,
           \A i \in 1..Len(values) : Reads(item, bytes, parts[i], values[i])
    PROVE  Reads(ReadList(bytes, item), bytes, PutList(parts), values)
<1>. DEFINE len == Len(values)
            cell == Cell("u32", len)
            rest == FlattenSeq(parts)
<1>1. len \in Nat /\ Len(parts) \in Nat /\ MaxRecords \in Nat
  BY MaxRecordsAssumption
<1>2. cell \in Cells /\ cell.width = "u32" /\ cell.value = len
  BY <1>1, CellIs DEF Scalars
<1>3. rest \in Seq(Cells)
  BY <1>1, Flattened
<1>4. PutList(parts) = <<cell>> \o rest /\ <<cell>> \o rest \in Seq(Cells)
  <2>. HIDE DEF rest
  <2>1. <<cell>> \in Seq(Cells)
    BY <1>2
  <2>2. PutList(parts) = <<cell>> \o rest
    BY DEF PutList, rest
  <2>. HIDE DEF cell
  <2>. QED  BY <1>3, <2>1, <2>2, ConcatProperties
<1>. HIDE DEF cell
<1>5. ASSUME NEW at \in Positions(bytes), Agrees(bytes, at, <<cell>> \o rest)
      PROVE  ReadList(bytes, item)[at] = Outcome(bytes, at + Len(<<cell>> \o rest), values)
  <2>. DEFINE count == cappedCount(bytes, at)
              readers == [i \in 1..len |-> item]
  <2>1. at \in Nat \ {0} /\ at + 1 \in Nat \ {0} /\ Len(rest) \in Nat
    BY <1>3 DEF Positions
  <2>2. /\ Take("u32", bytes, at) = Outcome(bytes, at + 1, len)
        /\ Agrees(bytes, at + 1, rest) /\ Len(<<cell>> \o rest) = 1 + Len(rest)
    <3>. HIDE DEF rest
    <3>. QED  BY <1>2, <1>3, <1>5, <2>1, FirstCell
  <2>3. ReadList(bytes, item)[at]
          = IF Failing(count) THEN count
            ELSE ReadAll([i \in 1..count.value |-> item], count.at)
    BY DEF ReadList
  <2>4. CASE at + 1 <= Len(bytes) + 1
    <3>1. count = Got(at + 1, len)
      <4>1. Take("u32", bytes, at) = Got(at + 1, len)
        BY <2>2, <2>4 DEF Outcome
      <4>2. ~(len > MaxRecords)
        BY <1>1
      <4>. QED  BY <4>1, <4>2 DEF cappedCount, Failing, Got
    <3>2. ReadList(bytes, item)[at] = ReadAll(readers, at + 1)
      <4>. HIDE DEF count
      <4>. QED  BY <2>3, <3>1 DEF Failing, Got
    <3>3. EachReads(readers, bytes, parts, values, len)
      BY <1>1 DEF EachReads
    <3>. HIDE DEF readers, count, len
    <3>4. ReadAll(readers, at + 1) = Outcome(bytes, (at + 1) + Len(rest), values)
      <4>1. at + 1 \in Positions(bytes)
        BY <2>1, <2>4 DEF Positions
      <4>. QED  BY <2>1, <2>2, <3>3, <4>1, AllRead
    <3>5. (at + 1) + Len(rest) = at + Len(<<cell>> \o rest)
      BY <2>1, <2>2
    <3>. QED  BY <3>2, <3>4, <3>5
  <2>5. CASE ~(at + 1 <= Len(bytes) + 1)
    <3>. HIDE DEF rest
    <3>1. count = Refused("Truncated")
      BY <2>2, <2>5 DEF Outcome, cappedCount, Failing, Refused
    <3>2. ~(at + Len(<<cell>> \o rest) <= Len(bytes) + 1)
      BY <2>1, <2>2, <2>5
    <3>. HIDE DEF count
    <3>. QED  BY <2>3, <3>1, <3>2 DEF Outcome, Failing, Refused
  <2>. QED  BY <2>4, <2>5
<1>. QED  BY <1>4, <1>5 DEF Reads

\* An optional value, as a sequence of length zero or one.
LEMMA OptionalReads ==
    ASSUME NEW bytes, Len(bytes) \in Nat, NEW item,
           NEW parts \in Seq(Seq(Cells)), NEW V, NEW values \in Seq(V),
           Len(parts) = Len(values), Len(values) <= 1,
           \A i \in 1..Len(values) : Reads(item, bytes, parts[i], values[i])
    PROVE  Reads(ReadOptional(bytes, item), bytes, PutOptional(parts), values)
<1>. DEFINE len == Len(values)
            cell == Cell("u8", len)
            rest == FlattenSeq(parts)
<1>1. len \in {0, 1} /\ len \in Nat /\ Len(parts) \in Nat
  OBVIOUS
<1>2. cell \in Cells /\ cell.width = "u8" /\ cell.value = len
  BY <1>1, CellIs DEF Scalars
<1>3. rest \in Seq(Cells)
  BY <1>1, Flattened
<1>4. PutOptional(parts) = <<cell>> \o rest /\ <<cell>> \o rest \in Seq(Cells)
  <2>. HIDE DEF rest
  <2>1. <<cell>> \in Seq(Cells)
    BY <1>2
  <2>2. PutOptional(parts) = <<cell>> \o rest
    BY DEF PutOptional, rest
  <2>. HIDE DEF cell
  <2>. QED  BY <1>3, <2>1, <2>2, ConcatProperties
<1>. HIDE DEF cell
<1>5. ASSUME NEW at \in Positions(bytes), Agrees(bytes, at, <<cell>> \o rest)
      PROVE  ReadOptional(bytes, item)[at] = Outcome(bytes, at + Len(<<cell>> \o rest), values)
  <2>. DEFINE present == ReadFlag(bytes)[at]
              readers == IF len # 0 THEN <<item>> ELSE <<>>
  <2>1. at \in Nat \ {0} /\ at + 1 \in Nat \ {0} /\ Len(rest) \in Nat
    BY <1>3 DEF Positions
  <2>2. /\ Take("u8", bytes, at) = Outcome(bytes, at + 1, len)
        /\ Agrees(bytes, at + 1, rest) /\ Len(<<cell>> \o rest) = 1 + Len(rest)
    <3>. HIDE DEF rest
    <3>. QED  BY <1>2, <1>3, <1>5, <2>1, FirstCell
  <2>3. ReadOptional(bytes, item)[at]
          = IF Failing(present) THEN present
            ELSE ReadAll(IF present.value THEN <<item>> ELSE <<>>, present.at)
    BY DEF ReadOptional
  <2>4. present = IF Failing(Take("u8", bytes, at)) THEN Take("u8", bytes, at)
                  ELSE Got(Take("u8", bytes, at).at, Take("u8", bytes, at).value # 0)
    BY DEF ReadFlag
  <2>5. CASE at + 1 <= Len(bytes) + 1
    <3>1. present = Got(at + 1, len # 0)
      <4>1. Take("u8", bytes, at) = Got(at + 1, len)
        BY <2>2, <2>5 DEF Outcome
      <4>. QED  BY <2>4, <4>1 DEF Failing, Got
    <3>2. ReadOptional(bytes, item)[at] = ReadAll(readers, at + 1)
      <4>. HIDE DEF present
      <4>. QED  BY <2>3, <3>1 DEF Failing, Got
    <3>3. EachReads(readers, bytes, parts, values, len)
      BY <1>1 DEF EachReads
    <3>. HIDE DEF readers, present, len
    <3>4. ReadAll(readers, at + 1) = Outcome(bytes, (at + 1) + Len(rest), values)
      <4>1. at + 1 \in Positions(bytes)
        BY <2>1, <2>5 DEF Positions
      <4>. QED  BY <2>1, <2>2, <3>3, <4>1, AllRead
    <3>5. (at + 1) + Len(rest) = at + Len(<<cell>> \o rest)
      BY <2>1, <2>2
    <3>. QED  BY <3>2, <3>4, <3>5
  <2>6. CASE ~(at + 1 <= Len(bytes) + 1)
    <3>. HIDE DEF rest
    <3>1. present = Refused("Truncated")
      BY <2>2, <2>4, <2>6 DEF Outcome, Failing, Refused
    <3>2. ~(at + Len(<<cell>> \o rest) <= Len(bytes) + 1)
      BY <2>1, <2>2, <2>6
    <3>. HIDE DEF present
    <3>. QED  BY <2>3, <3>1, <3>2 DEF Outcome, Failing, Refused
  <2>. QED  BY <2>5, <2>6
<1>. QED  BY <1>4, <1>5 DEF Reads

\* The names of some fields are those of a record, each once.
Named(fields, len, record) ==
    /\ record = [name \in DOMAIN record |-> record[name]]
    /\ \A name : name \in DOMAIN record <=> \E i \in 1..len : fields[i][1] = name
    /\ \A i, j \in 1..len : fields[i][1] = fields[j][1] => i = j

LEMMA RecordReads ==
    ASSUME NEW bytes, Len(bytes) \in Nat, NEW len \in Nat,
           NEW fields, Len(fields) = len, DOMAIN fields = 1..len,
           NEW parts \in Seq(Seq(Cells)), Len(parts) = len,
           NEW record, Named(fields, len, record),
           \A i \in 1..len : Reads(fields[i][2], bytes, parts[i], record[fields[i][1]])
    PROVE  Reads(ReadRecord(bytes, fields), bytes, FlattenSeq(parts), record)
<1>. DEFINE V == {record[name] : name \in DOMAIN record}
            readers == [i \in DOMAIN fields |-> fields[i][2]]
            values == [i \in 1..len |-> record[fields[i][1]]]
            names == {fields[i][1] : i \in DOMAIN fields}
            place(name) == CHOOSE i \in DOMAIN fields : fields[i][1] = name
            rest == FlattenSeq(parts)
<1>1. values \in Seq(V) /\ Len(values) = len
  <2>1. \A i \in 1..len : fields[i][1] \in DOMAIN record
    BY DEF Named
  <2>2. \A i \in 1..len : values[i] \in V
    BY <2>1
  <2>. HIDE DEF V
  <2>. QED  BY <2>2, SMTT(30)
<1>2. Len(readers) = len
  OBVIOUS
<1>3. rest \in Seq(Cells)
  BY Flattened
<1>4. names = DOMAIN record
  <2>1. \A name : name \in names <=> \E i \in 1..len : fields[i][1] = name
    OBVIOUS
  <2>. HIDE DEF names
  <2>. QED  BY <2>1 DEF Named
<1>5. [name \in names |-> values[place(name)]] = record
  <2>1. ASSUME NEW name \in DOMAIN record PROVE values[place(name)] = record[name]
    <3>1. \E i \in DOMAIN fields : fields[i][1] = name
      BY <2>1 DEF Named
    <3>2. place(name) \in 1..len /\ fields[place(name)][1] = name
      BY <3>1
    <3>. QED  BY <3>2
  <2>. HIDE DEF values, place, names
  <2>. QED  BY <1>4, <2>1 DEF Named
<1>6. EachReads(readers, bytes, parts, values, len)
  <2>1. \A i \in 1..len : Reads(readers[i], bytes, parts[i], values[i])
    OBVIOUS
  <2>. HIDE DEF V, values, readers
  <2>. QED  BY <1>1, <1>2, <2>1 DEF EachReads
<1>7. ASSUME NEW at \in Positions(bytes), Agrees(bytes, at, rest)
      PROVE  ReadRecord(bytes, fields)[at] = Outcome(bytes, at + Len(rest), record)
  <2>. DEFINE read == ReadAll(readers, at)
  <2>1. ReadRecord(bytes, fields)[at]
          = IF Failing(read) THEN read
            ELSE Got(read.at, [name \in names |-> read.value[place(name)]])
    BY DEF ReadRecord
  <2>3. read = Outcome(bytes, at + Len(rest), values)
    <3>1. Agrees(bytes, at, FlattenSeq(parts))
      BY <1>7
    <3>. HIDE DEF V, values, readers
    <3>2. at \in Nat \ {0}
      BY DEF Positions
    <3>. QED  BY <1>6, <3>1, <3>2, AllRead
  <2>. HIDE DEF read, rest, names, place, values
  <2>4. CASE at + Len(rest) <= Len(bytes) + 1
    <3>1. read = Got(at + Len(rest), values)
      BY <2>3, <2>4 DEF Outcome
    <3>2. ~Failing(read) /\ read.at = at + Len(rest) /\ read.value = values
      BY <3>1 DEF Got, Failing
    <3>. QED  BY <1>5, <2>1, <2>4, <3>2 DEF Outcome
  <2>5. CASE ~(at + Len(rest) <= Len(bytes) + 1)
    <3>1. read = Refused("Truncated")
      BY <2>3, <2>5 DEF Outcome
    <3>. QED  BY <2>1, <2>5, <3>1 DEF Outcome, Failing, Refused
  <2>. QED  BY <2>4, <2>5
<1>. QED  BY <1>3, <1>7 DEF Reads

---------------------------------------------------------------------------
(* Lists of scalars, and the records of a snapshot as they are stored. *)

\* The lists that the reader's cap covers.
Short(S) == {list \in Seq(S) : Len(list) <= MaxRecords}

\* A list of what has a part each.
LEMMA ShortReads ==
    ASSUME NEW bytes, Len(bytes) \in Nat, NEW item, NEW V, NEW values \in Short(V),
           NEW parts, parts = [i \in 1..Len(values) |-> parts[i]],
           \A i \in 1..Len(values) : Reads(item, bytes, parts[i], values[i])
    PROVE  Reads(ReadList(bytes, item), bytes, PutList(parts), values)
<1>1. values \in Seq(V) /\ Len(values) <= MaxRecords /\ Len(values) \in Nat
  BY DEF Short
<1>2. \A i \in 1..Len(values) : parts[i] \in Seq(Cells)
  BY DEF Reads
<1>3. parts \in Seq(Seq(Cells)) /\ Len(parts) = Len(values)
  BY <1>1, <1>2
<1>. QED  BY <1>1, <1>3, ListReads

LEMMA TextsRead ==
    ASSUME NEW bytes, Len(bytes) \in Nat, NEW texts \in Short(Scalars)
    PROVE  Reads(ReadTexts(bytes), bytes, PutTexts(texts), texts)
<1>. DEFINE parts == [i \in DOMAIN texts |-> PutText(texts[i])]
<1>1. parts = [i \in 1..Len(texts) |-> parts[i]]
  BY DEF Short
<1>2. \A i \in 1..Len(texts) : Reads(ReadText(bytes), bytes, parts[i], texts[i])
  BY TextReads DEF Short
<1>. HIDE DEF parts
<1>3. Reads(ReadList(bytes, ReadText(bytes)), bytes, PutList(parts), texts)
  BY <1>1, <1>2, ShortReads
<1>. QED  BY <1>3 DEF ReadTexts, PutTexts, parts

LEMMA NumbersRead ==
    ASSUME NEW bytes, Len(bytes) \in Nat, NEW numbers \in Short(Nat)
    PROVE  Reads(ReadNumbers(bytes), bytes, PutNumbers(numbers), numbers)
<1>. DEFINE parts == [i \in DOMAIN numbers |-> PutNumber(numbers[i])]
<1>1. parts = [i \in 1..Len(numbers) |-> parts[i]]
  BY DEF Short
<1>2. \A i \in 1..Len(numbers) : Reads(ReadNumber(bytes), bytes, parts[i], numbers[i])
  BY NumberReads DEF Short
<1>. HIDE DEF parts
<1>3. Reads(ReadList(bytes, ReadNumber(bytes)), bytes, PutList(parts), numbers)
  BY <1>1, <1>2, ShortReads
<1>. QED  BY <1>3 DEF ReadNumbers, PutNumbers, parts

LEMMA EnumsRead ==
    ASSUME NEW bytes, Len(bytes) \in Nat, NEW names, NEW values \in Short(ToSet(names)),
           NEW limit \in Nat, Declares(names, limit)
    PROVE  Reads(ReadList(bytes, enumValue(bytes, names, limit)), bytes, PutEnums(names, values),
                 values)
<1>. DEFINE parts == [i \in DOMAIN values |-> PutEnum(names, values[i])]
<1>1. parts = [i \in 1..Len(values) |-> parts[i]]
  BY DEF Short
<1>2. \A i \in 1..Len(values) : Reads(enumValue(bytes, names, limit), bytes, parts[i], values[i])
  BY EnumReads DEF Short
<1>. HIDE DEF parts
<1>3. Reads(ReadList(bytes, enumValue(bytes, names, limit)), bytes, PutList(parts), values)
  BY <1>1, <1>2, ShortReads
<1>. QED  BY <1>3 DEF PutEnums, parts

\* How many enumerators the enumerations have.
LEMMA Declarations ==
    /\ Declares(SourceKind, 5) /\ Declares(Lifecycle, 3) /\ Declares(MemoryKind, 5)
    /\ Declares(MemoryStatus, 1) /\ Declares(ObligationStatus, 5) /\ Declares(TriggerKind, 5)
    /\ Declares(ConflictStatus, 1) /\ Declares(WorkflowLayer, 3) /\ Declares(OperationClasses, 5)
    /\ Declares(Handoff, 4) /\ Declares(RefusalReason, 11) /\ Declares(RecoveryAction, 5)
    /\ Declares(Role, 2) /\ Declares(CapabilityClass, 2) /\ Declares(ActionKind, 13)
    /\ Declares(ClaimClass, 4) /\ Declares(RequirementKind, 8) /\ Declares(RequirementBoundary, 1)
<1>1. Declares(SourceKind, 5)
  BY DEF Declares, SourceKind
<1>2. Declares(Lifecycle, 3)
  BY DEF Declares, Lifecycle
<1>3. Declares(MemoryKind, 5)
  BY DEF Declares, MemoryKind
<1>4. Declares(MemoryStatus, 1)
  BY DEF Declares, MemoryStatus
<1>5. Declares(ObligationStatus, 5)
  BY DEF Declares, ObligationStatus
<1>6. Declares(TriggerKind, 5)
  BY DEF Declares, TriggerKind
<1>7. Declares(ConflictStatus, 1)
  BY DEF Declares, ConflictStatus
<1>8. Declares(WorkflowLayer, 3)
  BY DEF Declares, WorkflowLayer
<1>9. Declares(OperationClasses, 5)
  BY DEF Declares, OperationClasses
<1>10. Declares(Handoff, 4)
  BY DEF Declares, Handoff
<1>11. Declares(RefusalReason, 11)
  BY DEF Declares, RefusalReason
<1>12. Declares(RecoveryAction, 5)
  BY DEF Declares, RecoveryAction
<1>13. Declares(Role, 2)
  BY DEF Declares, Role
<1>14. Declares(CapabilityClass, 2)
  BY DEF Declares, CapabilityClass
<1>15. Declares(ActionKind, 13)
  BY DEF Declares, ActionKind
<1>16. Declares(ClaimClass, 4)
  BY DEF Declares, ClaimClass
<1>17. Declares(RequirementKind, 8)
  BY DEF Declares, RequirementKind
<1>18. Declares(RequirementBoundary, 1)
  BY DEF Declares, RequirementBoundary
<1>. QED
  BY <1>1, <1>2, <1>3, <1>4, <1>5, <1>6, <1>7, <1>8, <1>9,
     <1>10, <1>11, <1>12, <1>13, <1>14, <1>15, <1>16, <1>17, <1>18

StoredSource == [kind : ToSet(SourceKind), reference : Scalars, note : Scalars]

LEMMA SourceReads ==
    ASSUME NEW bytes, Len(bytes) \in Nat, NEW s \in StoredSource
    PROVE  Reads(ReadSource(bytes), bytes, PutSource(s), s)
<1>. DEFINE fields == << <<"kind", enumValue(bytes, SourceKind, 5)>>,
                         <<"reference", ReadText(bytes)>>, <<"note", ReadText(bytes)>> >>
            parts == <<PutEnum(SourceKind, s.kind), PutText(s.reference), PutText(s.note)>>
<1>1. /\ Reads(enumValue(bytes, SourceKind, 5), bytes, PutEnum(SourceKind, s.kind), s.kind)
      /\ Reads(ReadText(bytes), bytes, PutText(s.reference), s.reference)
      /\ Reads(ReadText(bytes), bytes, PutText(s.note), s.note)
  <2>1. Declares(SourceKind, 5)
    BY Declarations
  <2>. QED  BY <2>1, EnumReads, TextReads DEF StoredSource
<1>2. Named(fields, 3, s)
  BY DEF Named, StoredSource
<1>3. Len(fields) = 3 /\ DOMAIN fields = 1..3 /\ Len(parts) = 3 /\ parts \in Seq(Seq(Cells))
  BY <1>1 DEF Reads
<1>4. \A i \in 1..3 : Reads(fields[i][2], bytes, parts[i], s[fields[i][1]])
  BY <1>1
<1>5. Reads(ReadRecord(bytes, fields), bytes, FlattenSeq(parts), s)
  <2>. HIDE DEF fields, parts
  <2>. QED  BY <1>2, <1>3, <1>4, RecordReads
<1>. QED  BY <1>5 DEF ReadSource, PutSource

LEMMA ProvenanceReads ==
    ASSUME NEW bytes, Len(bytes) \in Nat, NEW sources \in Short(StoredSource)
    PROVE  Reads(ReadProvenance(bytes), bytes, PutProvenance(sources), sources)
<1>. DEFINE parts == [i \in DOMAIN sources |-> PutSource(sources[i])]
<1>1. parts = [i \in 1..Len(sources) |-> parts[i]]
  BY DEF Short
<1>2. \A i \in 1..Len(sources) : Reads(ReadSource(bytes), bytes, parts[i], sources[i])
  BY SourceReads DEF Short
<1>. HIDE DEF parts
<1>3. Reads(ReadList(bytes, ReadSource(bytes)), bytes, PutList(parts), sources)
  BY <1>1, <1>2, ShortReads
<1>. QED  BY <1>3 DEF ReadProvenance, PutProvenance, parts

StoredDecision ==
    [id : Nat, status : ToSet(Lifecycle), title : Scalars, content : Scalars,
     supersedes : Short(Nat), supersededBy : Short(Nat), provenance : Short(StoredSource)]

LEMMA DecisionReads ==
    ASSUME NEW bytes, Len(bytes) \in Nat, NEW d \in StoredDecision
    PROVE  Reads(ReadDecision(bytes), bytes, PutDecision(d), d)
<1>. DEFINE fields == << <<"id", ReadNumber(bytes)>>,
                         <<"status", enumValue(bytes, Lifecycle, 3)>>,
                         <<"title", ReadText(bytes)>>, <<"content", ReadText(bytes)>>,
                         <<"supersedes", ReadNumbers(bytes)>>,
                         <<"supersededBy", ReadNumbers(bytes)>>,
                         <<"provenance", ReadProvenance(bytes)>> >>
            parts == <<PutNumber(d.id), PutEnum(Lifecycle, d.status), PutText(d.title),
                       PutText(d.content), PutNumbers(d.supersedes),
                       PutNumbers(d.supersededBy), PutProvenance(d.provenance)>>
<1>1. Reads(ReadNumber(bytes), bytes, PutNumber(d.id), d.id)
  BY NumberReads DEF StoredDecision
<1>2. Reads(enumValue(bytes, Lifecycle, 3), bytes, PutEnum(Lifecycle, d.status), d.status)
  BY Declarations, EnumReads DEF StoredDecision
<1>3. Reads(ReadText(bytes), bytes, PutText(d.title), d.title)
  BY TextReads DEF StoredDecision
<1>4. Reads(ReadText(bytes), bytes, PutText(d.content), d.content)
  BY TextReads DEF StoredDecision
<1>5. Reads(ReadNumbers(bytes), bytes, PutNumbers(d.supersedes), d.supersedes)
  BY NumbersRead DEF StoredDecision
<1>6. Reads(ReadNumbers(bytes), bytes, PutNumbers(d.supersededBy), d.supersededBy)
  BY NumbersRead DEF StoredDecision
<1>7. Reads(ReadProvenance(bytes), bytes, PutProvenance(d.provenance), d.provenance)
  BY ProvenanceReads DEF StoredDecision
<1>8. Named(fields, 7, d)
  BY DEF Named, StoredDecision
<1>9. Len(fields) = 7 /\ DOMAIN fields = 1..7 /\ Len(parts) = 7 /\ parts \in Seq(Seq(Cells))
  BY <1>1, <1>2, <1>3, <1>4, <1>5, <1>6, <1>7 DEF Reads
<1>10. \A i \in 1..7 : Reads(fields[i][2], bytes, parts[i], d[fields[i][1]])
  BY <1>1, <1>2, <1>3, <1>4, <1>5, <1>6, <1>7
<1>11. Reads(ReadRecord(bytes, fields), bytes, FlattenSeq(parts), d)
  <2>. HIDE DEF fields, parts
  <2>. QED  BY <1>8, <1>9, <1>10, RecordReads
<1>. QED  BY <1>11 DEF ReadDecision, PutDecision

StoredHandoff ==
    [opClass : ToSet(OperationClasses), required : ToSet(Handoff), rootPrincipalOnly : BOOLEAN]

LEMMA HandoffReads ==
    ASSUME NEW bytes, Len(bytes) \in Nat, NEW r \in StoredHandoff
    PROVE  Reads(ReadHandoff(bytes), bytes, PutHandoff(r), r)
<1>. DEFINE fields == << <<"opClass", enumValue(bytes, OperationClasses, 5)>>,
                         <<"required", enumValue(bytes, Handoff, 4)>>,
                         <<"rootPrincipalOnly", ReadFlag(bytes)>> >>
            parts == <<PutEnum(OperationClasses, r.opClass), PutEnum(Handoff, r.required),
                       PutFlag(r.rootPrincipalOnly)>>
<1>1. Reads(enumValue(bytes, OperationClasses, 5), bytes, PutEnum(OperationClasses, r.opClass),
            r.opClass)
  BY Declarations, EnumReads DEF StoredHandoff
<1>2. Reads(enumValue(bytes, Handoff, 4), bytes, PutEnum(Handoff, r.required), r.required)
  BY Declarations, EnumReads DEF StoredHandoff
<1>3. Reads(ReadFlag(bytes), bytes, PutFlag(r.rootPrincipalOnly), r.rootPrincipalOnly)
  BY FlagReads DEF StoredHandoff
<1>4. Named(fields, 3, r)
  BY DEF Named, StoredHandoff
<1>5. Len(fields) = 3 /\ DOMAIN fields = 1..3 /\ Len(parts) = 3 /\ parts \in Seq(Seq(Cells))
  BY <1>1, <1>2, <1>3 DEF Reads
<1>6. \A i \in 1..3 : Reads(fields[i][2], bytes, parts[i], r[fields[i][1]])
  BY <1>1, <1>2, <1>3
<1>7. Reads(ReadRecord(bytes, fields), bytes, FlattenSeq(parts), r)
  <2>. HIDE DEF fields, parts
  <2>. QED  BY <1>4, <1>5, <1>6, RecordReads
<1>. QED  BY <1>7 DEF ReadHandoff, PutHandoff

StoredRecovery ==
    [reason : ToSet(RefusalReason), action : ToSet(RecoveryAction)]

LEMMA RecoveryReads ==
    ASSUME NEW bytes, Len(bytes) \in Nat, NEW r \in StoredRecovery
    PROVE  Reads(ReadRecovery(bytes), bytes, PutRecovery(r), r)
<1>. DEFINE fields == << <<"reason", enumValue(bytes, RefusalReason, 11)>>,
                         <<"action", enumValue(bytes, RecoveryAction, 5)>> >>
            parts == <<PutEnum(RefusalReason, r.reason), PutEnum(RecoveryAction, r.action)>>
<1>1. Reads(enumValue(bytes, RefusalReason, 11), bytes, PutEnum(RefusalReason, r.reason), r.reason)
  BY Declarations, EnumReads DEF StoredRecovery
<1>2. Reads(enumValue(bytes, RecoveryAction, 5), bytes, PutEnum(RecoveryAction, r.action), r.action)
  BY Declarations, EnumReads DEF StoredRecovery
<1>3. Named(fields, 2, r)
  BY DEF Named, StoredRecovery
<1>4. Len(fields) = 2 /\ DOMAIN fields = 1..2 /\ Len(parts) = 2 /\ parts \in Seq(Seq(Cells))
  BY <1>1, <1>2 DEF Reads
<1>5. \A i \in 1..2 : Reads(fields[i][2], bytes, parts[i], r[fields[i][1]])
  BY <1>1, <1>2
<1>6. Reads(ReadRecord(bytes, fields), bytes, FlattenSeq(parts), r)
  <2>. HIDE DEF fields, parts
  <2>. QED  BY <1>3, <1>4, <1>5, RecordReads
<1>. QED  BY <1>6 DEF ReadRecovery, PutRecovery

StoredEvidence ==
    [boundTo : Scalars, content : Scalars]

LEMMA EvidenceReads ==
    ASSUME NEW bytes, Len(bytes) \in Nat, NEW e \in StoredEvidence
    PROVE  Reads(ReadEvidence(bytes), bytes, PutEvidence(e), e)
<1>. DEFINE fields == << <<"boundTo", ReadText(bytes)>>, <<"content", ReadText(bytes)>> >>
            parts == <<PutText(e.boundTo), PutText(e.content)>>
<1>1. Reads(ReadText(bytes), bytes, PutText(e.boundTo), e.boundTo)
  BY TextReads DEF StoredEvidence
<1>2. Reads(ReadText(bytes), bytes, PutText(e.content), e.content)
  BY TextReads DEF StoredEvidence
<1>3. Named(fields, 2, e)
  BY DEF Named, StoredEvidence
<1>4. Len(fields) = 2 /\ DOMAIN fields = 1..2 /\ Len(parts) = 2 /\ parts \in Seq(Seq(Cells))
  BY <1>1, <1>2 DEF Reads
<1>5. \A i \in 1..2 : Reads(fields[i][2], bytes, parts[i], e[fields[i][1]])
  BY <1>1, <1>2
<1>6. Reads(ReadRecord(bytes, fields), bytes, FlattenSeq(parts), e)
  <2>. HIDE DEF fields, parts
  <2>. QED  BY <1>3, <1>4, <1>5, RecordReads
<1>. QED  BY <1>6 DEF ReadEvidence, PutEvidence

StoredConflict ==
    [id : Scalars, status : ToSet(ConflictStatus), scope : Scalars, description : Scalars,
     resolution : Scalars]

LEMMA ConflictReads ==
    ASSUME NEW bytes, Len(bytes) \in Nat, NEW c \in StoredConflict
    PROVE  Reads(ReadConflict(bytes), bytes, PutConflict(c), c)
<1>. DEFINE fields == << <<"id", ReadText(bytes)>>,
                         <<"status", enumValue(bytes, ConflictStatus, 1)>>,
                         <<"scope", ReadText(bytes)>>, <<"description", ReadText(bytes)>>,
                         <<"resolution", ReadText(bytes)>> >>
            parts == <<PutText(c.id), PutEnum(ConflictStatus, c.status), PutText(c.scope),
                       PutText(c.description), PutText(c.resolution)>>
<1>1. Reads(ReadText(bytes), bytes, PutText(c.id), c.id)
  BY TextReads DEF StoredConflict
<1>2. Reads(enumValue(bytes, ConflictStatus, 1), bytes, PutEnum(ConflictStatus, c.status), c.status)
  BY Declarations, EnumReads DEF StoredConflict
<1>3. Reads(ReadText(bytes), bytes, PutText(c.scope), c.scope)
  BY TextReads DEF StoredConflict
<1>4. Reads(ReadText(bytes), bytes, PutText(c.description), c.description)
  BY TextReads DEF StoredConflict
<1>5. Reads(ReadText(bytes), bytes, PutText(c.resolution), c.resolution)
  BY TextReads DEF StoredConflict
<1>6. Named(fields, 5, c)
  BY DEF Named, StoredConflict
<1>7. Len(fields) = 5 /\ DOMAIN fields = 1..5 /\ Len(parts) = 5 /\ parts \in Seq(Seq(Cells))
  BY <1>1, <1>2, <1>3, <1>4, <1>5 DEF Reads
<1>8. \A i \in 1..5 : Reads(fields[i][2], bytes, parts[i], c[fields[i][1]])
  BY <1>1, <1>2, <1>3, <1>4, <1>5
<1>9. Reads(ReadRecord(bytes, fields), bytes, FlattenSeq(parts), c)
  <2>. HIDE DEF fields, parts
  <2>. QED  BY <1>6, <1>7, <1>8, RecordReads
<1>. QED  BY <1>9 DEF ReadConflict, PutConflict

StoredProfile ==
    [id : Scalars, kind : Scalars, summary : Scalars, layer : ToSet(WorkflowLayer)]

LEMMA ProfileReads ==
    ASSUME NEW bytes, Len(bytes) \in Nat, NEW p \in StoredProfile
    PROVE  Reads(ReadProfile(bytes), bytes, PutProfile(p), p)
<1>. DEFINE fields == << <<"id", ReadText(bytes)>>, <<"kind", ReadText(bytes)>>,
                         <<"summary", ReadText(bytes)>>,
                         <<"layer", enumValue(bytes, WorkflowLayer, 3)>> >>
            parts == <<PutText(p.id), PutText(p.kind), PutText(p.summary),
                       PutEnum(WorkflowLayer, p.layer)>>
<1>1. Reads(ReadText(bytes), bytes, PutText(p.id), p.id)
  BY TextReads DEF StoredProfile
<1>2. Reads(ReadText(bytes), bytes, PutText(p.kind), p.kind)
  BY TextReads DEF StoredProfile
<1>3. Reads(ReadText(bytes), bytes, PutText(p.summary), p.summary)
  BY TextReads DEF StoredProfile
<1>4. Reads(enumValue(bytes, WorkflowLayer, 3), bytes, PutEnum(WorkflowLayer, p.layer), p.layer)
  BY Declarations, EnumReads DEF StoredProfile
<1>5. Named(fields, 4, p)
  BY DEF Named, StoredProfile
<1>6. Len(fields) = 4 /\ DOMAIN fields = 1..4 /\ Len(parts) = 4 /\ parts \in Seq(Seq(Cells))
  BY <1>1, <1>2, <1>3, <1>4 DEF Reads
<1>7. \A i \in 1..4 : Reads(fields[i][2], bytes, parts[i], p[fields[i][1]])
  BY <1>1, <1>2, <1>3, <1>4
<1>8. Reads(ReadRecord(bytes, fields), bytes, FlattenSeq(parts), p)
  <2>. HIDE DEF fields, parts
  <2>. QED  BY <1>5, <1>6, <1>7, RecordReads
<1>. QED  BY <1>8 DEF ReadProfile, PutProfile

StoredView ==
    [id : Scalars, agent : Scalars, human : Scalars, summary : Scalars,
     profileRefs : Short(Scalars)]

LEMMA ViewReads ==
    ASSUME NEW bytes, Len(bytes) \in Nat, NEW v \in StoredView
    PROVE  Reads(ReadView(bytes), bytes, PutView(v), v)
<1>. DEFINE fields == << <<"id", ReadText(bytes)>>, <<"agent", ReadText(bytes)>>,
                         <<"human", ReadText(bytes)>>, <<"summary", ReadText(bytes)>>,
                         <<"profileRefs", ReadTexts(bytes)>> >>
            parts == <<PutText(v.id), PutText(v.agent), PutText(v.human), PutText(v.summary),
                       PutTexts(v.profileRefs)>>
<1>1. Reads(ReadText(bytes), bytes, PutText(v.id), v.id)
  BY TextReads DEF StoredView
<1>2. Reads(ReadText(bytes), bytes, PutText(v.agent), v.agent)
  BY TextReads DEF StoredView
<1>3. Reads(ReadText(bytes), bytes, PutText(v.human), v.human)
  BY TextReads DEF StoredView
<1>4. Reads(ReadText(bytes), bytes, PutText(v.summary), v.summary)
  BY TextReads DEF StoredView
<1>5. Reads(ReadTexts(bytes), bytes, PutTexts(v.profileRefs), v.profileRefs)
  BY TextsRead DEF StoredView
<1>6. Named(fields, 5, v)
  BY DEF Named, StoredView
<1>7. Len(fields) = 5 /\ DOMAIN fields = 1..5 /\ Len(parts) = 5 /\ parts \in Seq(Seq(Cells))
  BY <1>1, <1>2, <1>3, <1>4, <1>5 DEF Reads
<1>8. \A i \in 1..5 : Reads(fields[i][2], bytes, parts[i], v[fields[i][1]])
  BY <1>1, <1>2, <1>3, <1>4, <1>5
<1>9. Reads(ReadRecord(bytes, fields), bytes, FlattenSeq(parts), v)
  <2>. HIDE DEF fields, parts
  <2>. QED  BY <1>6, <1>7, <1>8, RecordReads
<1>. QED  BY <1>9 DEF ReadView, PutView

StoredRole ==
    [id : ToSet(Role), authorities : Short(ToSet(OperationClasses)), duties : Short(Scalars),
     reviewGradeReasoning : BOOLEAN, execution : ToSet(CapabilityClass),
     identityPortVerified : BOOLEAN, provenance : Short(StoredSource)]

LEMMA RoleReads ==
    ASSUME NEW bytes, Len(bytes) \in Nat, NEW r \in StoredRole
    PROVE  Reads(ReadRole(bytes), bytes, PutRole(r), r)
<1>. DEFINE fields == << <<"id", enumValue(bytes, Role, 2)>>,
                         <<"authorities", ReadList(bytes, enumValue(bytes, OperationClasses, 5))>>,
                         <<"duties", ReadTexts(bytes)>>,
                         <<"reviewGradeReasoning", ReadFlag(bytes)>>,
                         <<"execution", enumValue(bytes, CapabilityClass, 2)>>,
                         <<"identityPortVerified", ReadFlag(bytes)>>,
                         <<"provenance", ReadProvenance(bytes)>> >>
            parts == <<PutEnum(Role, r.id), PutEnums(OperationClasses, r.authorities),
                       PutTexts(r.duties), PutFlag(r.reviewGradeReasoning),
                       PutEnum(CapabilityClass, r.execution), PutFlag(r.identityPortVerified),
                       PutProvenance(r.provenance)>>
<1>1. Reads(enumValue(bytes, Role, 2), bytes, PutEnum(Role, r.id), r.id)
  BY Declarations, EnumReads DEF StoredRole
<1>2. Reads(ReadList(bytes, enumValue(bytes, OperationClasses, 5)), bytes,
            PutEnums(OperationClasses, r.authorities), r.authorities)
  BY Declarations, EnumsRead DEF StoredRole
<1>3. Reads(ReadTexts(bytes), bytes, PutTexts(r.duties), r.duties)
  BY TextsRead DEF StoredRole
<1>4. Reads(ReadFlag(bytes), bytes, PutFlag(r.reviewGradeReasoning), r.reviewGradeReasoning)
  BY FlagReads DEF StoredRole
<1>5. Reads(enumValue(bytes, CapabilityClass, 2), bytes, PutEnum(CapabilityClass, r.execution),
            r.execution)
  BY Declarations, EnumReads DEF StoredRole
<1>6. Reads(ReadFlag(bytes), bytes, PutFlag(r.identityPortVerified), r.identityPortVerified)
  BY FlagReads DEF StoredRole
<1>7. Reads(ReadProvenance(bytes), bytes, PutProvenance(r.provenance), r.provenance)
  BY ProvenanceReads DEF StoredRole
<1>8. Named(fields, 7, r)
  BY DEF Named, StoredRole
<1>9. Len(fields) = 7 /\ DOMAIN fields = 1..7 /\ Len(parts) = 7 /\ parts \in Seq(Seq(Cells))
  BY <1>1, <1>2, <1>3, <1>4, <1>5, <1>6, <1>7 DEF Reads
<1>10. \A i \in 1..7 : Reads(fields[i][2], bytes, parts[i], r[fields[i][1]])
  BY <1>1, <1>2, <1>3, <1>4, <1>5, <1>6, <1>7
<1>11. Reads(ReadRecord(bytes, fields), bytes, FlattenSeq(parts), r)
  <2>. HIDE DEF fields, parts
  <2>. QED  BY <1>8, <1>9, <1>10, RecordReads
<1>. QED  BY <1>11 DEF ReadRole, PutRole

StoredMemory ==
    [kind : ToSet(MemoryKind), epistemic : {"Verified", "Observation"},
     status : ToSet(MemoryStatus), title : Scalars, statement : Scalars,
     provenance : Short(StoredSource)]

\* The epistemic type is not written, and comes back as it is declared.
Unverified(m) == [m EXCEPT !.epistemic = "Observation"]

LEMMA MemoryReads ==
    ASSUME NEW bytes, Len(bytes) \in Nat, NEW m \in StoredMemory
    PROVE  Reads(ReadMemory(bytes), bytes, PutMemory(m), Unverified(m))
<1>. DEFINE v == Unverified(m)
            fields == << <<"kind", enumValue(bytes, MemoryKind, 5)>>,
                         <<"status", enumValue(bytes, MemoryStatus, 1)>>,
                         <<"title", ReadText(bytes)>>, <<"statement", ReadText(bytes)>>,
                         <<"provenance", ReadProvenance(bytes)>>,
                         <<"epistemic", Declared(bytes, "Observation")>> >>
            parts == <<PutEnum(MemoryKind, m.kind), PutEnum(MemoryStatus, m.status),
                       PutText(m.title), PutText(m.statement), PutProvenance(m.provenance),
                       NotWritten>>
<1>1. v \in StoredMemory /\ v.epistemic = "Observation"
  BY DEF Unverified, StoredMemory
<1>2. /\ v.kind = m.kind /\ v.status = m.status /\ v.title = m.title
      /\ v.statement = m.statement /\ v.provenance = m.provenance
  BY DEF Unverified, StoredMemory
<1>. HIDE DEF v
<1>3. Reads(enumValue(bytes, MemoryKind, 5), bytes, PutEnum(MemoryKind, m.kind), v.kind)
  BY <1>2, Declarations, EnumReads DEF StoredMemory
<1>4. Reads(enumValue(bytes, MemoryStatus, 1), bytes, PutEnum(MemoryStatus, m.status), v.status)
  BY <1>2, Declarations, EnumReads DEF StoredMemory
<1>5. Reads(ReadText(bytes), bytes, PutText(m.title), v.title)
  BY <1>2, TextReads DEF StoredMemory
<1>6. Reads(ReadText(bytes), bytes, PutText(m.statement), v.statement)
  BY <1>2, TextReads DEF StoredMemory
<1>7. Reads(ReadProvenance(bytes), bytes, PutProvenance(m.provenance), v.provenance)
  BY <1>2, ProvenanceReads DEF StoredMemory
<1>8. Reads(Declared(bytes, "Observation"), bytes, NotWritten, v.epistemic)
  BY <1>1, DeclaredReads DEF NotWritten
<1>9. Named(fields, 6, v)
  BY <1>1 DEF Named, StoredMemory
<1>10. Len(fields) = 6 /\ DOMAIN fields = 1..6 /\ Len(parts) = 6 /\ parts \in Seq(Seq(Cells))
  BY <1>3, <1>4, <1>5, <1>6, <1>7, <1>8 DEF Reads
<1>11. \A i \in 1..6 : Reads(fields[i][2], bytes, parts[i], v[fields[i][1]])
  BY <1>3, <1>4, <1>5, <1>6, <1>7, <1>8
<1>12. Reads(ReadRecord(bytes, fields), bytes, FlattenSeq(parts), v)
  <2>. HIDE DEF fields, parts
  <2>. QED  BY <1>9, <1>10, <1>11, RecordReads
<1>. QED  BY <1>12 DEF ReadMemory, PutMemory, v

\* The trigger value is not written, and is always the declared one.
StoredObligation ==
    [id : Nat, status : ToSet(ObligationStatus), statement : Scalars, trigger : ToSet(TriggerKind),
     triggerValue : {""}, completionCriteria : Scalars]

LEMMA ObligationReads ==
    ASSUME NEW bytes, Len(bytes) \in Nat, NEW o \in StoredObligation
    PROVE  Reads(ReadObligation(bytes), bytes, PutObligation(o), o)
<1>. DEFINE none == ""
            fields == << <<"status", enumValue(bytes, ObligationStatus, 5)>>,
                         <<"trigger", enumValue(bytes, TriggerKind, 5)>>,
                         <<"id", ReadNumber(bytes)>>, <<"statement", ReadText(bytes)>>,
                         <<"completionCriteria", ReadText(bytes)>>,
                         <<"triggerValue", Declared(bytes, none)>> >>
            parts == <<PutEnum(ObligationStatus, o.status), PutEnum(TriggerKind, o.trigger),
                       PutNumber(o.id), PutText(o.statement), PutText(o.completionCriteria),
                       NotWritten>>
            set == [id : Nat, status : ToSet(ObligationStatus), statement : Scalars,
                    trigger : ToSet(TriggerKind), triggerValue : {none},
                    completionCriteria : Scalars]
<1>1. o \in set
  BY Zenon DEF StoredObligation
<1>. HIDE DEF none
<1>2. Reads(enumValue(bytes, ObligationStatus, 5), bytes, PutEnum(ObligationStatus, o.status),
            o.status)
  BY <1>1, Declarations, EnumReads
<1>3. Reads(enumValue(bytes, TriggerKind, 5), bytes, PutEnum(TriggerKind, o.trigger), o.trigger)
  BY <1>1, Declarations, EnumReads
<1>4. Reads(ReadNumber(bytes), bytes, PutNumber(o.id), o.id)
  BY <1>1, NumberReads
<1>5. Reads(ReadText(bytes), bytes, PutText(o.statement), o.statement)
  BY <1>1, TextReads
<1>6. Reads(ReadText(bytes), bytes, PutText(o.completionCriteria), o.completionCriteria)
  BY <1>1, TextReads
<1>7. Reads(Declared(bytes, none), bytes, NotWritten, o.triggerValue)
  BY <1>1, DeclaredReads DEF NotWritten
<1>8. Named(fields, 6, o)
  BY <1>1 DEF Named
<1>9. Len(fields) = 6 /\ DOMAIN fields = 1..6 /\ Len(parts) = 6 /\ parts \in Seq(Seq(Cells))
  BY <1>2, <1>3, <1>4, <1>5, <1>6, <1>7 DEF Reads
<1>10. \A i \in 1..6 : Reads(fields[i][2], bytes, parts[i], o[fields[i][1]])
  BY <1>2, <1>3, <1>4, <1>5, <1>6, <1>7
<1>11. Reads(ReadRecord(bytes, fields), bytes, FlattenSeq(parts), o)
  <2>. HIDE DEF fields, parts, set
  <2>. QED  BY <1>8, <1>9, <1>10, RecordReads
<1>. QED  BY <1>11, Zenon DEF ReadObligation, PutObligation, none

\* What a format has since some version keeps the declared value in an older one.
LEMMA SinceReads ==
    ASSUME NEW bytes, Len(bytes) \in Nat, NEW item, NEW part, NEW value,
           Reads(item, bytes, part, value), NEW first, NEW version, NEW declared
    PROVE  Reads(ReadSince(first, version, bytes, item, declared), bytes,
                 Since(first, version, part), IF version >= first THEN value ELSE declared)
<1>1. CASE version >= first
  BY <1>1 DEF ReadSince, Since
<1>2. CASE ~(version >= first)
  BY <1>2, DeclaredReads DEF ReadSince, Since
<1>. QED  BY <1>1, <1>2

StoredRule ==
    [action : ToSet(ActionKind), claimClass : {c \in Seq(ToSet(ClaimClass)) : Len(c) <= 1},
     requirement : ToSet(RequirementKind), boundary : ToSet(RequirementBoundary),
     subject : Scalars, blocking : BOOLEAN]

\* A rule as a format carries it.
RuleIn(version, r) ==
    [action |-> r.action, claimClass |-> IF version >= 8 THEN r.claimClass ELSE <<>>,
     requirement |-> r.requirement,
     boundary |-> IF version >= 8 THEN r.boundary ELSE "BeforeJudgment",
     subject |-> r.subject, blocking |-> r.blocking]

LEMMA ClaimClassReads ==
    ASSUME NEW bytes, Len(bytes) \in Nat, NEW classes \in Seq(ToSet(ClaimClass)), Len(classes) <= 1
    PROVE  Reads(ReadOptional(bytes, enumValue(bytes, ClaimClass, 4)), bytes,
                 PutOptional([i \in DOMAIN classes |-> PutEnum(ClaimClass, classes[i])]), classes)
<1>. DEFINE parts == [i \in DOMAIN classes |-> PutEnum(ClaimClass, classes[i])]
<1>1. \A i \in 1..Len(classes) :
         Reads(enumValue(bytes, ClaimClass, 4), bytes, parts[i], classes[i])
  BY Declarations, EnumReads
<1>2. parts = [i \in 1..Len(classes) |-> parts[i]] /\ Len(classes) \in Nat
  OBVIOUS
<1>. HIDE DEF parts
<1>3. \A i \in 1..Len(classes) : parts[i] \in Seq(Cells)
  BY <1>1 DEF Reads
<1>4. parts \in Seq(Seq(Cells)) /\ Len(parts) = Len(classes)
  BY <1>2, <1>3
<1>5. Reads(ReadOptional(bytes, enumValue(bytes, ClaimClass, 4)), bytes, PutOptional(parts),
            classes)
  BY <1>1, <1>4, OptionalReads
<1>. QED  BY <1>5 DEF parts

LEMMA RuleReads ==
    ASSUME NEW bytes, Len(bytes) \in Nat, NEW r \in StoredRule, NEW version \in Nat
    PROVE  Reads(ReadRule(version, bytes), bytes, PutRule(version, r), RuleIn(version, r))
<1>. DEFINE v == RuleIn(version, r)
            item == ReadOptional(bytes, enumValue(bytes, ClaimClass, 4))
            boundary == enumValue(bytes, RequirementBoundary, 1)
            claim == PutOptional([i \in DOMAIN r.claimClass |-> PutEnum(ClaimClass, r.claimClass[i])])
            fields == << <<"action", enumValue(bytes, ActionKind, 13)>>,
                         <<"claimClass", ReadSince(8, version, bytes, item, <<>>)>>,
                         <<"requirement", enumValue(bytes, RequirementKind, 8)>>,
                         <<"boundary", ReadSince(8, version, bytes, boundary, "BeforeJudgment")>>,
                         <<"subject", ReadText(bytes)>>, <<"blocking", ReadFlag(bytes)>> >>
            parts == <<PutEnum(ActionKind, r.action), Since(8, version, claim),
                       PutEnum(RequirementKind, r.requirement),
                       Since(8, version, PutEnum(RequirementBoundary, r.boundary)),
                       PutText(r.subject), PutFlag(r.blocking)>>
<1>1. /\ v.action = r.action /\ v.requirement = r.requirement /\ v.subject = r.subject
      /\ v.blocking = r.blocking
      /\ v.claimClass = IF version >= 8 THEN r.claimClass ELSE <<>>
      /\ v.boundary = IF version >= 8 THEN r.boundary ELSE "BeforeJudgment"
  BY DEF RuleIn
<1>2. Named(fields, 6, v)
  BY DEF Named, RuleIn
<1>. HIDE DEF v
<1>3. Reads(enumValue(bytes, ActionKind, 13), bytes, PutEnum(ActionKind, r.action), v.action)
  BY <1>1, Declarations, EnumReads DEF StoredRule
<1>4. Reads(ReadSince(8, version, bytes, item, <<>>), bytes, Since(8, version, claim), v.claimClass)
  <2>1. Reads(item, bytes, claim, r.claimClass)
    BY ClaimClassReads DEF StoredRule
  <2>. HIDE DEF item, claim
  <2>. QED  BY <1>1, <2>1, SinceReads
<1>5. Reads(enumValue(bytes, RequirementKind, 8), bytes, PutEnum(RequirementKind, r.requirement),
            v.requirement)
  BY <1>1, Declarations, EnumReads DEF StoredRule
<1>6. Reads(ReadSince(8, version, bytes, boundary, "BeforeJudgment"), bytes,
            Since(8, version, PutEnum(RequirementBoundary, r.boundary)), v.boundary)
  <2>1. Reads(boundary, bytes, PutEnum(RequirementBoundary, r.boundary), r.boundary)
    BY Declarations, EnumReads DEF StoredRule
  <2>. HIDE DEF boundary
  <2>. QED  BY <1>1, <2>1, SinceReads
<1>7. Reads(ReadText(bytes), bytes, PutText(r.subject), v.subject)
  BY <1>1, TextReads DEF StoredRule
<1>8. Reads(ReadFlag(bytes), bytes, PutFlag(r.blocking), v.blocking)
  BY <1>1, FlagReads DEF StoredRule
<1>9. Len(fields) = 6 /\ DOMAIN fields = 1..6 /\ Len(parts) = 6 /\ parts \in Seq(Seq(Cells))
  <2>. HIDE DEF item, boundary, claim
  <2>. QED  BY <1>3, <1>4, <1>5, <1>6, <1>7, <1>8 DEF Reads
<1>10. \A i \in 1..6 : Reads(fields[i][2], bytes, parts[i], v[fields[i][1]])
  <2>. HIDE DEF item, boundary, claim
  <2>. QED  BY <1>3, <1>4, <1>5, <1>6, <1>7, <1>8
<1>11. Reads(ReadRecord(bytes, fields), bytes, FlattenSeq(parts), v)
  <2>. HIDE DEF fields, parts
  <2>. QED  BY <1>2, <1>9, <1>10, RecordReads
<1>. QED  BY <1>11 DEF ReadRule, PutRule, v

StoredSnapshot ==
    [rootPrincipal : Scalars, articles : Short(Scalars), handoff : Short(StoredHandoff),
     recovery : Short(StoredRecovery), objective : Scalars, current : Scalars,
     checkpointRef : Scalars, candidateRef : Scalars, nextBoundaryRef : Scalars,
     repositories : Scalars, roadmap : Scalars, decisions : Short(StoredDecision),
     memory : Short(StoredMemory), obligations : Short(StoredObligation),
     evidence : Short(StoredEvidence), conflicts : Short(StoredConflict),
     profiles : Short(StoredProfile), views : Short(StoredView), present : BOOLEAN,
     rules : Short(StoredRule), roles : Short(StoredRole)]

\* A snapshot as a format carries it.
RulesIn(version, rules) == [i \in DOMAIN rules |-> RuleIn(version, rules[i])]

SnapshotIn(version, s) ==
    [rootPrincipal |-> s.rootPrincipal, articles |-> s.articles, handoff |-> s.handoff,
     recovery |-> s.recovery, objective |-> s.objective, current |-> s.current,
     checkpointRef |-> s.checkpointRef, candidateRef |-> s.candidateRef,
     nextBoundaryRef |-> s.nextBoundaryRef, repositories |-> s.repositories,
     roadmap |-> s.roadmap, decisions |-> s.decisions,
     memory |-> [i \in DOMAIN s.memory |-> Unverified(s.memory[i])],
     obligations |-> s.obligations, evidence |-> s.evidence, conflicts |-> s.conflicts,
     profiles |-> s.profiles, views |-> s.views,
     present |-> IF version >= 8 THEN s.present ELSE FALSE,
     rules |-> IF version >= 7 THEN RulesIn(version, s.rules) ELSE <<>>, roles |-> s.roles]

\* Lists of records.
LEMMA ListsRead ==
    ASSUME NEW bytes, Len(bytes) \in Nat
    PROVE  /\ \A rows \in Short(StoredHandoff) : Reads(ReadList(bytes, ReadHandoff(bytes)), bytes,
                 PutList([i \in DOMAIN rows |-> PutHandoff(rows[i])]), rows)
           /\ \A rows \in Short(StoredRecovery) : Reads(ReadList(bytes, ReadRecovery(bytes)), bytes,
                 PutList([i \in DOMAIN rows |-> PutRecovery(rows[i])]), rows)
           /\ \A decisions \in Short(StoredDecision) :
                Reads(ReadList(bytes, ReadDecision(bytes)), bytes,
                 PutList([i \in DOMAIN decisions |-> PutDecision(decisions[i])]), decisions)
           /\ \A obligations \in Short(StoredObligation) :
                Reads(ReadList(bytes, ReadObligation(bytes)), bytes,
                 PutList([i \in DOMAIN obligations |-> PutObligation(obligations[i])]), obligations)
           /\ \A evidence \in Short(StoredEvidence) :
                Reads(ReadList(bytes, ReadEvidence(bytes)), bytes,
                 PutList([i \in DOMAIN evidence |-> PutEvidence(evidence[i])]), evidence)
           /\ \A conflicts \in Short(StoredConflict) :
                Reads(ReadList(bytes, ReadConflict(bytes)), bytes,
                 PutList([i \in DOMAIN conflicts |-> PutConflict(conflicts[i])]), conflicts)
           /\ \A profiles \in Short(StoredProfile) :
                Reads(ReadList(bytes, ReadProfile(bytes)), bytes,
                 PutList([i \in DOMAIN profiles |-> PutProfile(profiles[i])]), profiles)
           /\ \A views \in Short(StoredView) : Reads(ReadList(bytes, ReadView(bytes)), bytes,
                 PutList([i \in DOMAIN views |-> PutView(views[i])]), views)
           /\ \A roles \in Short(StoredRole) : Reads(ReadList(bytes, ReadRole(bytes)), bytes,
                 PutList([i \in DOMAIN roles |-> PutRole(roles[i])]), roles)
<1>1. ASSUME NEW rows \in Short(StoredHandoff)
      PROVE  Reads(ReadList(bytes, ReadHandoff(bytes)), bytes,
                   PutList([i \in DOMAIN rows |-> PutHandoff(rows[i])]), rows)
  <2>. DEFINE parts == [i \in DOMAIN rows |-> PutHandoff(rows[i])]
  <2>1. parts = [i \in 1..Len(rows) |-> parts[i]]
    BY DEF Short
  <2>2. \A i \in 1..Len(rows) : Reads(ReadHandoff(bytes), bytes, parts[i], rows[i])
    BY HandoffReads DEF Short
  <2>. HIDE DEF parts
  <2>3. Reads(ReadList(bytes, ReadHandoff(bytes)), bytes, PutList(parts), rows)
    BY <2>1, <2>2, ShortReads
  <2>. QED  BY <2>3 DEF parts
<1>2. ASSUME NEW rows \in Short(StoredRecovery)
      PROVE  Reads(ReadList(bytes, ReadRecovery(bytes)), bytes,
                   PutList([i \in DOMAIN rows |-> PutRecovery(rows[i])]), rows)
  <2>. DEFINE parts == [i \in DOMAIN rows |-> PutRecovery(rows[i])]
  <2>1. parts = [i \in 1..Len(rows) |-> parts[i]]
    BY DEF Short
  <2>2. \A i \in 1..Len(rows) : Reads(ReadRecovery(bytes), bytes, parts[i], rows[i])
    BY RecoveryReads DEF Short
  <2>. HIDE DEF parts
  <2>3. Reads(ReadList(bytes, ReadRecovery(bytes)), bytes, PutList(parts), rows)
    BY <2>1, <2>2, ShortReads
  <2>. QED  BY <2>3 DEF parts
<1>3. ASSUME NEW decisions \in Short(StoredDecision)
      PROVE  Reads(ReadList(bytes, ReadDecision(bytes)), bytes,
                   PutList([i \in DOMAIN decisions |-> PutDecision(decisions[i])]), decisions)
  <2>. DEFINE parts == [i \in DOMAIN decisions |-> PutDecision(decisions[i])]
  <2>1. parts = [i \in 1..Len(decisions) |-> parts[i]]
    BY DEF Short
  <2>2. \A i \in 1..Len(decisions) : Reads(ReadDecision(bytes), bytes, parts[i], decisions[i])
    BY DecisionReads DEF Short
  <2>. HIDE DEF parts
  <2>3. Reads(ReadList(bytes, ReadDecision(bytes)), bytes, PutList(parts), decisions)
    BY <2>1, <2>2, ShortReads
  <2>. QED  BY <2>3 DEF parts
<1>4. ASSUME NEW obligations \in Short(StoredObligation)
      PROVE  Reads(ReadList(bytes, ReadObligation(bytes)), bytes,
                   PutList([i \in DOMAIN obligations |-> PutObligation(obligations[i])]),
                     obligations)
  <2>. DEFINE parts == [i \in DOMAIN obligations |-> PutObligation(obligations[i])]
  <2>1. parts = [i \in 1..Len(obligations) |-> parts[i]]
    BY DEF Short
  <2>2. \A i \in 1..Len(obligations) : Reads(ReadObligation(bytes), bytes, parts[i], obligations[i])
    BY ObligationReads DEF Short
  <2>. HIDE DEF parts
  <2>3. Reads(ReadList(bytes, ReadObligation(bytes)), bytes, PutList(parts), obligations)
    BY <2>1, <2>2, ShortReads
  <2>. QED  BY <2>3 DEF parts
<1>5. ASSUME NEW evidence \in Short(StoredEvidence)
      PROVE  Reads(ReadList(bytes, ReadEvidence(bytes)), bytes,
                   PutList([i \in DOMAIN evidence |-> PutEvidence(evidence[i])]), evidence)
  <2>. DEFINE parts == [i \in DOMAIN evidence |-> PutEvidence(evidence[i])]
  <2>1. parts = [i \in 1..Len(evidence) |-> parts[i]]
    BY DEF Short
  <2>2. \A i \in 1..Len(evidence) : Reads(ReadEvidence(bytes), bytes, parts[i], evidence[i])
    BY EvidenceReads DEF Short
  <2>. HIDE DEF parts
  <2>3. Reads(ReadList(bytes, ReadEvidence(bytes)), bytes, PutList(parts), evidence)
    BY <2>1, <2>2, ShortReads
  <2>. QED  BY <2>3 DEF parts
<1>6. ASSUME NEW conflicts \in Short(StoredConflict)
      PROVE  Reads(ReadList(bytes, ReadConflict(bytes)), bytes,
                   PutList([i \in DOMAIN conflicts |-> PutConflict(conflicts[i])]), conflicts)
  <2>. DEFINE parts == [i \in DOMAIN conflicts |-> PutConflict(conflicts[i])]
  <2>1. parts = [i \in 1..Len(conflicts) |-> parts[i]]
    BY DEF Short
  <2>2. \A i \in 1..Len(conflicts) : Reads(ReadConflict(bytes), bytes, parts[i], conflicts[i])
    BY ConflictReads DEF Short
  <2>. HIDE DEF parts
  <2>3. Reads(ReadList(bytes, ReadConflict(bytes)), bytes, PutList(parts), conflicts)
    BY <2>1, <2>2, ShortReads
  <2>. QED  BY <2>3 DEF parts
<1>7. ASSUME NEW profiles \in Short(StoredProfile)
      PROVE  Reads(ReadList(bytes, ReadProfile(bytes)), bytes,
                   PutList([i \in DOMAIN profiles |-> PutProfile(profiles[i])]), profiles)
  <2>. DEFINE parts == [i \in DOMAIN profiles |-> PutProfile(profiles[i])]
  <2>1. parts = [i \in 1..Len(profiles) |-> parts[i]]
    BY DEF Short
  <2>2. \A i \in 1..Len(profiles) : Reads(ReadProfile(bytes), bytes, parts[i], profiles[i])
    BY ProfileReads DEF Short
  <2>. HIDE DEF parts
  <2>3. Reads(ReadList(bytes, ReadProfile(bytes)), bytes, PutList(parts), profiles)
    BY <2>1, <2>2, ShortReads
  <2>. QED  BY <2>3 DEF parts
<1>8. ASSUME NEW views \in Short(StoredView)
      PROVE  Reads(ReadList(bytes, ReadView(bytes)), bytes,
                   PutList([i \in DOMAIN views |-> PutView(views[i])]), views)
  <2>. DEFINE parts == [i \in DOMAIN views |-> PutView(views[i])]
  <2>1. parts = [i \in 1..Len(views) |-> parts[i]]
    BY DEF Short
  <2>2. \A i \in 1..Len(views) : Reads(ReadView(bytes), bytes, parts[i], views[i])
    BY ViewReads DEF Short
  <2>. HIDE DEF parts
  <2>3. Reads(ReadList(bytes, ReadView(bytes)), bytes, PutList(parts), views)
    BY <2>1, <2>2, ShortReads
  <2>. QED  BY <2>3 DEF parts
<1>9. ASSUME NEW roles \in Short(StoredRole)
      PROVE  Reads(ReadList(bytes, ReadRole(bytes)), bytes,
                   PutList([i \in DOMAIN roles |-> PutRole(roles[i])]), roles)
  <2>. DEFINE parts == [i \in DOMAIN roles |-> PutRole(roles[i])]
  <2>1. parts = [i \in 1..Len(roles) |-> parts[i]]
    BY DEF Short
  <2>2. \A i \in 1..Len(roles) : Reads(ReadRole(bytes), bytes, parts[i], roles[i])
    BY RoleReads DEF Short
  <2>. HIDE DEF parts
  <2>3. Reads(ReadList(bytes, ReadRole(bytes)), bytes, PutList(parts), roles)
    BY <2>1, <2>2, ShortReads
  <2>. QED  BY <2>3 DEF parts
<1>. QED  BY <1>1, <1>2, <1>3, <1>4, <1>5, <1>6, <1>7, <1>8, <1>9

LEMMA MemoryListReads ==
    ASSUME NEW bytes, Len(bytes) \in Nat, NEW memory \in Short(StoredMemory)
    PROVE  Reads(ReadList(bytes, ReadMemory(bytes)), bytes,
                 PutList([i \in DOMAIN memory |-> PutMemory(memory[i])]),
                 [i \in DOMAIN memory |-> Unverified(memory[i])])
<1>. DEFINE parts == [i \in DOMAIN memory |-> PutMemory(memory[i])]
            read == [i \in DOMAIN memory |-> Unverified(memory[i])]
<1>1. \A i \in 1..Len(memory) : Reads(ReadMemory(bytes), bytes, parts[i], read[i])
  BY MemoryReads DEF Short
<1>2. read \in Short(StoredMemory) /\ Len(read) = Len(memory)
  <2>1. \A m \in StoredMemory : Unverified(m) \in StoredMemory
    BY DEF Unverified, StoredMemory
  <2>. QED  BY <2>1 DEF Short
<1>3. parts = [i \in 1..Len(memory) |-> parts[i]]
  BY DEF Short
<1>. HIDE DEF parts, read
<1>4. Reads(ReadList(bytes, ReadMemory(bytes)), bytes, PutList(parts), read)
  BY <1>1, <1>2, <1>3, ShortReads
<1>. QED  BY <1>4 DEF parts, read

LEMMA RuleListReads ==
    ASSUME NEW bytes, Len(bytes) \in Nat, NEW rules \in Short(StoredRule), NEW version \in Nat
    PROVE  Reads(ReadList(bytes, ReadRule(version, bytes)), bytes,
                 PutList([i \in DOMAIN rules |-> PutRule(version, rules[i])]),
                 RulesIn(version, rules))
<1>. DEFINE parts == [i \in DOMAIN rules |-> PutRule(version, rules[i])]
            read == RulesIn(version, rules)
            V == {RuleIn(version, r) : r \in StoredRule}
<1>1. \A i \in 1..Len(rules) : Reads(ReadRule(version, bytes), bytes, parts[i], read[i])
  BY RuleReads DEF Short, RulesIn
<1>2. read \in Short(V) /\ Len(read) = Len(rules)
  <2>1. \A r \in StoredRule : RuleIn(version, r) \in V
    OBVIOUS
  <2>. HIDE DEF V
  <2>. QED  BY <2>1 DEF Short, RulesIn
<1>3. parts = [i \in 1..Len(rules) |-> parts[i]]
  BY DEF Short
<1>. HIDE DEF parts, read, V
<1>4. Reads(ReadList(bytes, ReadRule(version, bytes)), bytes, PutList(parts), read)
  BY <1>1, <1>2, <1>3, ShortReads
<1>. QED  BY <1>4 DEF parts, read

\* The whole of a snapshot, in every format.
\* The fields that the reader of a body reads, and the place of each.
BodyFields(version, bytes) ==
    << <<"rootPrincipal", ReadText(bytes)>>, <<"articles", ReadTexts(bytes)>>,
    <<"handoff", ReadList(bytes, ReadHandoff(bytes))>>,
       <<"recovery", ReadList(bytes, ReadRecovery(bytes))>>,
       <<"objective", ReadText(bytes)>>, <<"current", ReadText(bytes)>>,
       <<"checkpointRef", ReadText(bytes)>>, <<"candidateRef", ReadText(bytes)>>,
       <<"nextBoundaryRef", ReadText(bytes)>>, <<"repositories", ReadText(bytes)>>,
       <<"roadmap", ReadText(bytes)>>,
       <<"decisions", ReadList(bytes, ReadDecision(bytes))>>,
       <<"memory", ReadList(bytes, ReadMemory(bytes))>>,
       <<"obligations", ReadList(bytes, ReadObligation(bytes))>>,
       <<"evidence", ReadList(bytes, ReadEvidence(bytes))>>,
       <<"conflicts", ReadList(bytes, ReadConflict(bytes))>>,
       <<"profiles", ReadList(bytes, ReadProfile(bytes))>>,
       <<"views", ReadList(bytes, ReadView(bytes))>>,
       <<"present", ReadSince(8, version, bytes, ReadFlag(bytes), FALSE)>>,
       <<"rules", ReadSince(7, version, bytes,
                     ReadList(bytes, ReadRule(version, bytes)), <<>>)>>,
       <<"roles", ReadList(bytes, ReadRole(bytes))>> >>

BodyPlace ==
    [rootPrincipal |-> 1, articles |-> 2, handoff |-> 3, recovery |-> 4, objective |-> 5,
     current |-> 6, checkpointRef |-> 7, candidateRef |-> 8, nextBoundaryRef |-> 9,
       repositories |-> 10,
     roadmap |-> 11, decisions |-> 12, memory |-> 13, obligations |-> 14, evidence |-> 15,
     conflicts |-> 16, profiles |-> 17, views |-> 18, present |-> 19, rules |-> 20,
     roles |-> 21]

LEMMA BodyRead ==
    ASSUME NEW bytes, NEW version
    PROVE  /\ ReadBody(version, bytes) = ReadRecord(bytes, BodyFields(version, bytes))
           /\ Len(BodyFields(version, bytes)) = 21 /\ DOMAIN BodyFields(version, bytes) = 1..21
BY DEF ReadBody, BodyFields

LEMMA BodyNamed ==
    ASSUME NEW bytes, NEW version,
           NEW v, v = [name \in DOMAIN v |-> v[name]], DOMAIN v = DOMAIN BodyPlace
    PROVE  Named(BodyFields(version, bytes), 21, v)
<1>. DEFINE fields == BodyFields(version, bytes)
            Placed(i) == BodyPlace[fields[i][1]] = i /\ fields[i][1] \in DOMAIN BodyPlace
<1>1. /\ fields[1][1] = "rootPrincipal" /\ fields[2][1] = "articles" /\ fields[3][1] = "handoff"
      /\ fields[4][1] = "recovery" /\ fields[5][1] = "objective" /\ fields[6][1] = "current"
      /\ fields[7][1] = "checkpointRef" /\ fields[8][1] = "candidateRef"
      /\ fields[9][1] = "nextBoundaryRef"
      /\ fields[10][1] = "repositories" /\ fields[11][1] = "roadmap" /\ fields[12][1] = "decisions"
      /\ fields[13][1] = "memory" /\ fields[14][1] = "obligations" /\ fields[15][1] = "evidence"
      /\ fields[16][1] = "conflicts" /\ fields[17][1] = "profiles" /\ fields[18][1] = "views"
      /\ fields[19][1] = "present" /\ fields[20][1] = "rules" /\ fields[21][1] = "roles"
  BY DEF BodyFields
<1>. HIDE DEF fields
<1>2. \A i \in 1..21 : Placed(i)
  <2>1. Placed(1)  BY <1>1 DEF BodyPlace
  <2>2. Placed(2)  BY <1>1 DEF BodyPlace
  <2>3. Placed(3)  BY <1>1 DEF BodyPlace
  <2>4. Placed(4)  BY <1>1 DEF BodyPlace
  <2>5. Placed(5)  BY <1>1 DEF BodyPlace
  <2>6. Placed(6)  BY <1>1 DEF BodyPlace
  <2>7. Placed(7)  BY <1>1 DEF BodyPlace
  <2>8. Placed(8)  BY <1>1 DEF BodyPlace
  <2>9. Placed(9)  BY <1>1 DEF BodyPlace
  <2>10. Placed(10)  BY <1>1 DEF BodyPlace
  <2>11. Placed(11)  BY <1>1 DEF BodyPlace
  <2>12. Placed(12)  BY <1>1 DEF BodyPlace
  <2>13. Placed(13)  BY <1>1 DEF BodyPlace
  <2>14. Placed(14)  BY <1>1 DEF BodyPlace
  <2>15. Placed(15)  BY <1>1 DEF BodyPlace
  <2>16. Placed(16)  BY <1>1 DEF BodyPlace
  <2>17. Placed(17)  BY <1>1 DEF BodyPlace
  <2>18. Placed(18)  BY <1>1 DEF BodyPlace
  <2>19. Placed(19)  BY <1>1 DEF BodyPlace
  <2>20. Placed(20)  BY <1>1 DEF BodyPlace
  <2>21. Placed(21)  BY <1>1 DEF BodyPlace
  <2>. HIDE DEF Placed
  <2>22. \A i \in 1..21 :
          i = 1 \/ i = 2 \/ i = 3 \/ i = 4 \/ i = 5 \/ i = 6 \/ i = 7 \/
          i = 8 \/ i = 9 \/ i = 10 \/ i = 11 \/ i = 12 \/ i = 13 \/ i = 14 \/
          i = 15 \/ i = 16 \/ i = 17 \/ i = 18 \/ i = 19 \/ i = 20 \/ i = 21
    BY SMTT(30)
  <2>. QED  BY <2>1, <2>2, <2>3, <2>4, <2>5, <2>6, <2>7, <2>8, <2>9, <2>10, <2>11,
               <2>12, <2>13, <2>14, <2>15, <2>16, <2>17, <2>18, <2>19, <2>20, <2>21, <2>22, Zenon
<1>3. \A name \in DOMAIN BodyPlace : BodyPlace[name] \in 1..21 /\ fields[BodyPlace[name]][1] = name
  BY <1>1 DEF BodyPlace
<1>4. \A name : name \in DOMAIN v <=> \E i \in 1..21 : fields[i][1] = name
  <2>1. \A name \in DOMAIN v : \E i \in 1..21 : fields[i][1] = name
    BY <1>3, Zenon
  <2>2. \A i \in 1..21 : fields[i][1] \in DOMAIN v
    BY <1>2, Zenon DEF Placed
  <2>. QED  BY <2>1, <2>2, Zenon
<1>5. \A i, j \in 1..21 : fields[i][1] = fields[j][1] => i = j
  <2>. HIDE DEF BodyPlace
  <2>. QED  BY <1>2 DEF Placed
<1>. QED  BY <1>4, <1>5, Zenon DEF Named, fields

LEMMA BodyReads ==
    ASSUME NEW bytes, Len(bytes) \in Nat, NEW s \in StoredSnapshot, NEW version \in Nat
    PROVE  Reads(ReadBody(version, bytes), bytes, PutSnapshot(version, s), SnapshotIn(version, s))
<1>. DEFINE v == SnapshotIn(version, s)
            fields == BodyFields(version, bytes)
            parts == <<PutText(s.rootPrincipal), PutTexts(s.articles),
                       PutList([i \in DOMAIN s.handoff |-> PutHandoff(s.handoff[i])]),
                       PutList([i \in DOMAIN s.recovery |-> PutRecovery(s.recovery[i])]),
                       PutText(s.objective), PutText(s.current), PutText(s.checkpointRef),
                       PutText(s.candidateRef), PutText(s.nextBoundaryRef),
                       PutText(s.repositories), PutText(s.roadmap),
                       PutList([i \in DOMAIN s.decisions |-> PutDecision(s.decisions[i])]),
                       PutList([i \in DOMAIN s.memory |-> PutMemory(s.memory[i])]),
                       PutList([i \in DOMAIN s.obligations |-> PutObligation(s.obligations[i])]),
                       PutList([i \in DOMAIN s.evidence |-> PutEvidence(s.evidence[i])]),
                       PutList([i \in DOMAIN s.conflicts |-> PutConflict(s.conflicts[i])]),
                       PutList([i \in DOMAIN s.profiles |-> PutProfile(s.profiles[i])]),
                       PutList([i \in DOMAIN s.views |-> PutView(s.views[i])]),
                       Since(8, version, PutFlag(s.present)),
                       Since(7, version, PutList([i \in DOMAIN s.rules |-> PutRule(version, s.rules[i])])),
                       PutList([i \in DOMAIN s.roles |-> PutRole(s.roles[i])])>>
<1>1. Named(fields, 21, v)
  <2>1. DOMAIN v = DOMAIN BodyPlace /\ v = [name \in DOMAIN v |-> v[name]]
    BY DEF SnapshotIn, BodyPlace
  <2>. HIDE DEF v, fields
  <2>. QED  BY <2>1, BodyNamed, Zenon DEF fields
<1>2. /\ v.rootPrincipal = s.rootPrincipal /\ v.articles = s.articles /\ v.handoff = s.handoff
      /\ v.recovery = s.recovery /\ v.objective = s.objective /\ v.current = s.current
      /\ v.checkpointRef = s.checkpointRef /\ v.candidateRef = s.candidateRef
      /\ v.nextBoundaryRef = s.nextBoundaryRef /\ v.repositories = s.repositories
      /\ v.roadmap = s.roadmap /\ v.decisions = s.decisions
      /\ v.memory = [i \in DOMAIN s.memory |-> Unverified(s.memory[i])]
      /\ v.obligations = s.obligations /\ v.evidence = s.evidence /\ v.conflicts = s.conflicts
      /\ v.profiles = s.profiles /\ v.views = s.views
      /\ v.present = (IF version >= 8 THEN s.present ELSE FALSE)
      /\ v.rules = (IF version >= 7 THEN RulesIn(version, s.rules) ELSE <<>>)
      /\ v.roles = s.roles
  BY DEF SnapshotIn
<1>. HIDE DEF v
<1>3. Reads(ReadText(bytes), bytes, PutText(s.rootPrincipal), v.rootPrincipal)
  BY <1>2, TextReads DEF StoredSnapshot
<1>4. Reads(ReadTexts(bytes), bytes, PutTexts(s.articles), v.articles)
  BY <1>2, TextsRead DEF StoredSnapshot
<1>5. Reads(ReadList(bytes, ReadHandoff(bytes)), bytes,
           PutList([i \in DOMAIN s.handoff |-> PutHandoff(s.handoff[i])]), v.handoff)
  BY <1>2, ListsRead DEF StoredSnapshot
<1>6. Reads(ReadList(bytes, ReadRecovery(bytes)), bytes,
           PutList([i \in DOMAIN s.recovery |-> PutRecovery(s.recovery[i])]), v.recovery)
  BY <1>2, ListsRead DEF StoredSnapshot
<1>7. Reads(ReadText(bytes), bytes, PutText(s.objective), v.objective)
  BY <1>2, TextReads DEF StoredSnapshot
<1>8. Reads(ReadText(bytes), bytes, PutText(s.current), v.current)
  BY <1>2, TextReads DEF StoredSnapshot
<1>9. Reads(ReadText(bytes), bytes, PutText(s.checkpointRef), v.checkpointRef)
  BY <1>2, TextReads DEF StoredSnapshot
<1>10. Reads(ReadText(bytes), bytes, PutText(s.candidateRef), v.candidateRef)
  BY <1>2, TextReads DEF StoredSnapshot
<1>11. Reads(ReadText(bytes), bytes, PutText(s.nextBoundaryRef), v.nextBoundaryRef)
  BY <1>2, TextReads DEF StoredSnapshot
<1>12. Reads(ReadText(bytes), bytes, PutText(s.repositories), v.repositories)
  BY <1>2, TextReads DEF StoredSnapshot
<1>13. Reads(ReadText(bytes), bytes, PutText(s.roadmap), v.roadmap)
  BY <1>2, TextReads DEF StoredSnapshot
<1>14. Reads(ReadList(bytes, ReadDecision(bytes)), bytes,
           PutList([i \in DOMAIN s.decisions |-> PutDecision(s.decisions[i])]), v.decisions)
  BY <1>2, ListsRead DEF StoredSnapshot
<1>15. Reads(ReadList(bytes, ReadMemory(bytes)), bytes,
           PutList([i \in DOMAIN s.memory |-> PutMemory(s.memory[i])]), v.memory)
  BY <1>2, MemoryListReads DEF StoredSnapshot
<1>16. Reads(ReadList(bytes, ReadObligation(bytes)), bytes,
           PutList([i \in DOMAIN s.obligations |-> PutObligation(s.obligations[i])]), v.obligations)
  BY <1>2, ListsRead DEF StoredSnapshot
<1>17. Reads(ReadList(bytes, ReadEvidence(bytes)), bytes,
           PutList([i \in DOMAIN s.evidence |-> PutEvidence(s.evidence[i])]), v.evidence)
  BY <1>2, ListsRead DEF StoredSnapshot
<1>18. Reads(ReadList(bytes, ReadConflict(bytes)), bytes,
           PutList([i \in DOMAIN s.conflicts |-> PutConflict(s.conflicts[i])]), v.conflicts)
  BY <1>2, ListsRead DEF StoredSnapshot
<1>19. Reads(ReadList(bytes, ReadProfile(bytes)), bytes,
           PutList([i \in DOMAIN s.profiles |-> PutProfile(s.profiles[i])]), v.profiles)
  BY <1>2, ListsRead DEF StoredSnapshot
<1>20. Reads(ReadList(bytes, ReadView(bytes)), bytes,
           PutList([i \in DOMAIN s.views |-> PutView(s.views[i])]), v.views)
  BY <1>2, ListsRead DEF StoredSnapshot
<1>21. Reads(ReadSince(8, version, bytes, ReadFlag(bytes), FALSE), bytes,
             Since(8, version, PutFlag(s.present)), v.present)
  <2>1. Reads(ReadFlag(bytes), bytes, PutFlag(s.present), s.present)
    BY FlagReads DEF StoredSnapshot
  <2>. QED  BY <1>2, <2>1, SinceReads
<1>22. Reads(ReadSince(7, version, bytes, ReadList(bytes, ReadRule(version, bytes)), <<>>), bytes,
           Since(7, version, PutList([i \in DOMAIN s.rules |-> PutRule(version, s.rules[i])])),
             v.rules)
  <2>1. Reads(ReadList(bytes, ReadRule(version, bytes)), bytes,
              PutList([i \in DOMAIN s.rules |-> PutRule(version, s.rules[i])]),
              RulesIn(version, s.rules))
    BY RuleListReads DEF StoredSnapshot
  <2>. QED  BY <1>2, <2>1, SinceReads
<1>23. Reads(ReadList(bytes, ReadRole(bytes)), bytes,
           PutList([i \in DOMAIN s.roles |-> PutRole(s.roles[i])]), v.roles)
  BY <1>2, ListsRead DEF StoredSnapshot
<1>24. Len(parts) = 21 /\ parts \in Seq(Seq(Cells))
  BY <1>3, <1>4, <1>5, <1>6, <1>7, <1>8, <1>9, <1>10, <1>11, <1>12, <1>13,
     <1>14, <1>15, <1>16, <1>17, <1>18, <1>19, <1>20, <1>21, <1>22,
     <1>23 DEF Reads
<1>25. \A i \in 1..21 : Reads(fields[i][2], bytes, parts[i], v[fields[i][1]])
  <2>. DEFINE Each(i) == Reads(fields[i][2], bytes, parts[i], v[fields[i][1]])
  <2>1. Each(1)  BY <1>3 DEF BodyFields
  <2>2. Each(2)  BY <1>4 DEF BodyFields
  <2>3. Each(3)  BY <1>5 DEF BodyFields
  <2>4. Each(4)  BY <1>6 DEF BodyFields
  <2>5. Each(5)  BY <1>7 DEF BodyFields
  <2>6. Each(6)  BY <1>8 DEF BodyFields
  <2>7. Each(7)  BY <1>9 DEF BodyFields
  <2>8. Each(8)  BY <1>10 DEF BodyFields
  <2>9. Each(9)  BY <1>11 DEF BodyFields
  <2>10. Each(10)  BY <1>12 DEF BodyFields
  <2>11. Each(11)  BY <1>13 DEF BodyFields
  <2>12. Each(12)  BY <1>14 DEF BodyFields
  <2>13. Each(13)  BY <1>15 DEF BodyFields
  <2>14. Each(14)  BY <1>16 DEF BodyFields
  <2>15. Each(15)  BY <1>17 DEF BodyFields
  <2>16. Each(16)  BY <1>18 DEF BodyFields
  <2>17. Each(17)  BY <1>19 DEF BodyFields
  <2>18. Each(18)  BY <1>20 DEF BodyFields
  <2>19. Each(19)  BY <1>21 DEF BodyFields
  <2>20. Each(20)  BY <1>22 DEF BodyFields
  <2>21. Each(21)  BY <1>23 DEF BodyFields
  <2>. HIDE DEF Each
  <2>22. \A i \in 1..21 : Each(i)
    BY SMTT(30), <2>1, <2>2, <2>3, <2>4, <2>5, <2>6, <2>7, <2>8, <2>9, <2>10, <2>11,
       <2>12, <2>13, <2>14, <2>15, <2>16, <2>17, <2>18, <2>19, <2>20,
       <2>21
  <2>. QED  BY <2>22 DEF Each
<1>26. Reads(ReadRecord(bytes, fields), bytes, FlattenSeq(parts), v)
  <2>. HIDE DEF fields, parts
  <2>1. Len(fields) = 21 /\ DOMAIN fields = 1..21
    BY BodyRead, Zenon DEF fields
  <2>. QED  BY <1>1, <1>24, <1>25, <2>1, RecordReads
<1>27. PutSnapshot(version, s) = FlattenSeq(parts)
  BY DEF PutSnapshot
<1>. HIDE DEF parts
<1>. QED  BY <1>26, <1>27, BodyRead, Zenon DEF v

---------------------------------------------------------------------------
(* The bytes of a snapshot. *)

\* A version 7 snapshot says that a policy is present by having rules.
Presented(version, v) == IF version = 7 THEN [v EXCEPT !.present = v.rules # <<>>] ELSE v

\* Whole bytes are read as the snapshot their format carries; bytes that end
\* before it, or go on after it, are refused.
LEMMA SnapshotReads ==
    ASSUME NEW s \in StoredSnapshot, NEW version \in SupportedVersions,
           NEW bytes, Len(bytes) \in Nat, Agrees(bytes, 1, Bytes(version, s))
    PROVE  /\ Bytes(version, s) \in Seq(Cells)
           /\ ReadSnapshot(bytes) =
                IF Len(bytes) = Len(Bytes(version, s))
                THEN [error |-> "None", snapshot |-> <<Presented(version, SnapshotIn(version, s))>>]
                ELSE [error |-> "Truncated", snapshot |-> <<>>]
<1>. DEFINE first == <<Cell("u8", version)>>
            part == PutSnapshot(version, s)
            v == SnapshotIn(version, s)
            body == ReadBody(version, bytes)
            N == Len(Bytes(version, s))
<1>0. version \in Nat
  BY DEF SupportedVersions
<1>1. Reads(body, bytes, part, v)
  BY <1>0, BodyReads
<1>2. first \in Seq(Cells) /\ Len(first) = 1 /\ first[1] = Cell("u8", version)
  BY <1>0 DEF Cell, Cells, Scalars
<1>3. part \in Seq(Cells)
  BY <1>1 DEF Reads
<1>4. Bytes(version, s) = first \o part
  BY DEF Bytes
<1>. HIDE DEF first, part, v, body
<1>5. Bytes(version, s) \in Seq(Cells) /\ N = 1 + Len(part) /\ Len(part) \in Nat
  BY <1>2, <1>3, <1>4, ConcatProperties
<1>6. Agrees(bytes, 1, first) /\ Agrees(bytes, 2, part)
  <2>1. Agrees(bytes, 1, first \o part)
    BY <1>4
  <2>2. 1 \in Nat /\ 1 + Len(first) = 2
    BY <1>2
  <2>3. Agrees(bytes, 1, first) /\ Agrees(bytes, 1 + Len(first), part)
    BY <1>2, <1>3, <2>1, <2>2, AgreesApart, Zenon
  <2>. QED  BY <2>2, <2>3
<1>7. CASE Len(bytes) = 0
  <2>1. Take("u8", bytes, 1) = Refused("Truncated")
    BY <1>7 DEF Take
  <2>2. ReadSnapshot(bytes) = [error |-> "Truncated", snapshot |-> <<>>]
    BY <2>1 DEF ReadSnapshot, Refused, Failing
  <2>. QED  BY <1>5, <1>7, <2>2
<1>8. CASE Len(bytes) # 0
  <2>. DEFINE end == 2 + Len(part)
  <2>1. bytes[1] = Cell("u8", version)
    BY <1>2, <1>6, <1>8 DEF Agrees
  <2>2. Take("u8", bytes, 1) = Got(2, version)
    BY <1>8, <2>1 DEF Take, Cell
  <2>3. body[2] = Outcome(bytes, end, v)
    BY <1>1, <1>6, <1>8 DEF Reads, Positions
  <2>4. ReadSnapshot(bytes) =
           LET read == AtEnd(bytes, body[2])
           IN  IF Failing(read) THEN [error |-> read.error, snapshot |-> <<>>]
               ELSE [error |-> "None", snapshot |-> <<Presented(version, read.value)>>]
    BY <2>2 DEF ReadSnapshot, Got, Failing, body, Presented
  <2>5. CASE end <= Len(bytes)
    <3>1. AtEnd(bytes, body[2]) = Refused("Truncated")
      BY <1>5, <2>3, <2>5 DEF Outcome, Got, Failing, AtEnd
    <3>. QED  BY <1>5, <2>4, <2>5, <3>1 DEF Refused, Failing
  <2>6. CASE end = Len(bytes) + 1
    <3>1. AtEnd(bytes, body[2]) = Got(end, v)
      BY <1>5, <2>3, <2>6 DEF Outcome, Got, Failing, AtEnd
    <3>. QED  BY <1>5, <2>4, <2>6, <3>1 DEF Got, Failing, v
  <2>7. CASE end > Len(bytes) + 1
    <3>1. AtEnd(bytes, body[2]) = Refused("Truncated")
      BY <1>5, <2>3, <2>7 DEF Outcome, Refused, Failing, AtEnd
    <3>. QED  BY <1>5, <2>4, <2>7, <3>1 DEF Refused, Failing
  <2>. QED  BY <1>5, <2>5, <2>6, <2>7
<1>. QED  BY <1>5, <1>7, <1>8

---------------------------------------------------------------------------
(* What a tree, its policy and its roles put into a snapshot can be stored. *)

LEMMA KeptShort ==
    ASSUME NEW R, NEW s \in Seq(R), NEW keep
    PROVE  Len(Kept(s, keep)) <= Len(s)
<1>. DEFINE k == Kept(s, keep)
<1>1. PICK from \in [1..Len(k) -> 1..Len(s)] :
         \A i, j \in 1..Len(k) : i < j => from[i] < from[j]
  BY KeptFacts
<1>2. Len(k) \in Nat /\ Len(s) \in Nat
  BY KeptFacts
<1>. HIDE DEF k
<1>. DEFINE Good == {n \in Nat : n \in 1..Len(k) => from[n] >= n}
<1>3. 0 \in Good
  BY <1>2
<1>4. ASSUME NEW n \in Nat, n \in Good PROVE n + 1 \in Good
  <2>. SUFFICES ASSUME n + 1 \in 1..Len(k) PROVE from[n + 1] >= n + 1
    OBVIOUS
  <2>1. CASE n = 0
    BY <1>1, <1>2, <2>1
  <2>2. CASE n # 0
    <3>1. n \in 1..Len(k) /\ n < n + 1
      BY <1>2, <2>2
    <3>2. from[n] >= n /\ from[n] < from[n + 1]
      BY <1>1, <1>4, <3>1
    <3>3. from[n] \in Nat /\ from[n + 1] \in Nat
      BY <1>1, <1>2, <3>1
    <3>. QED  BY <3>2, <3>3
  <2>. QED  BY <2>1, <2>2
<1>5. Nat \subseteq Good
  <2>. HIDE DEF Good
  <2>. QED  BY <1>3, <1>4, SetInduction
<1>6. CASE Len(k) = 0
  BY <1>2, <1>6 DEF k
<1>7. CASE Len(k) # 0
  <2>1. Len(k) \in Good /\ Len(k) \in 1..Len(k)
    BY <1>2, <1>5, <1>7
  <2>2. from[Len(k)] \in 1..Len(s) /\ from[Len(k)] >= Len(k)
    BY <1>1, <2>1
  <2>. QED  BY <1>2, <2>2 DEF k
<1>. QED  BY <1>6, <1>7

\* The rows of the policy table.
LEMMA RowsAreStored ==
    /\ HandoffRows(makeDefaultPolicy) \in Short(StoredHandoff)
    /\ RecoveryRows(makeDefaultPolicy) \in Short(StoredRecovery)
<1>. DEFINE table == makeDefaultPolicy
<1>0. MaxRecords >= 12 /\ MaxRecords \in Nat
  BY StorageAssumption, MaxRecordsAssumption
<1>1. HandoffRows(table) \in Short(StoredHandoff)
  <2>. DEFINE keep == DOMAIN table.handoff
              classes == Kept(OperationClasses, keep)
  <2>1. OperationClasses \in Seq(ToSet(OperationClasses)) /\ Len(OperationClasses) = 6
    BY DEF OperationClasses, ToSet
  <2>2. \A c \in keep : table.handoff[c] \in ToSet(Handoff)
    BY DEF makeDefaultPolicy, Handoff, ToSet
  <2>. HIDE DEF table, keep
  <2>3. /\ classes \in Seq(ToSet(OperationClasses)) /\ Len(classes) <= 6
        /\ \A i \in 1..Len(classes) : classes[i] \in keep
    BY <2>1, KeptFacts, KeptShort
  <2>. HIDE DEF classes
  <2>. DEFINE rows == [i \in DOMAIN classes |->
                         [opClass |-> classes[i], required |-> table.handoff[classes[i]],
                          rootPrincipalOnly |-> FALSE]]
  <2>4. \A i \in 1..Len(classes) : rows[i] \in StoredHandoff
    BY <2>2, <2>3 DEF StoredHandoff
  <2>5. rows = [i \in 1..Len(classes) |-> rows[i]] /\ Len(classes) \in Nat
    BY <2>3
  <2>. HIDE DEF rows
  <2>6. rows \in Short(StoredHandoff)
    BY <1>0, <2>3, <2>4, <2>5 DEF Short
  <2>. QED  BY <2>6 DEF HandoffRows, rows, classes, keep
<1>2. RecoveryRows(table) \in Short(StoredRecovery)
  <2>. DEFINE keep == DOMAIN table.recovery
              reasons == Kept(RefusalReason, keep)
  <2>1. RefusalReason \in Seq(ToSet(RefusalReason)) /\ Len(RefusalReason) = 12
    BY DEF RefusalReason, ToSet
  <2>2. \A c \in keep : table.recovery[c] \in ToSet(RecoveryAction)
    BY DEF makeDefaultPolicy, RecoveryAction, ToSet
  <2>. HIDE DEF table, keep
  <2>3. /\ reasons \in Seq(ToSet(RefusalReason)) /\ Len(reasons) <= 12
        /\ \A i \in 1..Len(reasons) : reasons[i] \in keep
    BY <2>1, KeptFacts, KeptShort
  <2>. HIDE DEF reasons
  <2>. DEFINE rows == [i \in DOMAIN reasons |->
                         [reason |-> reasons[i], action |-> table.recovery[reasons[i]]]]
  <2>4. \A i \in 1..Len(reasons) : rows[i] \in StoredRecovery
    BY <2>2, <2>3 DEF StoredRecovery
  <2>5. rows = [i \in 1..Len(reasons) |-> rows[i]] /\ Len(reasons) \in Nat
    BY <2>3
  <2>. HIDE DEF rows
  <2>6. rows \in Short(StoredRecovery)
    BY <1>0, <2>3, <2>4, <2>5 DEF Short
  <2>. QED  BY <2>6 DEF RecoveryRows, rows, reasons, keep
<1>. QED  BY <1>1, <1>2

LEMMA SourceIsStored ==
    ASSUME NEW reference \in Scalars, NEW kind \in ToSet(SourceKind)
    PROVE  Source(kind, reference) \in Short(StoredSource)
<1>. DEFINE none == ""
<1>1. none \in Scalars
  BY TextAssumption, Zenon DEF Scalars
<1>. HIDE DEF none
<1>2. [kind |-> kind, reference |-> reference, note |-> none] \in StoredSource
  BY <1>1 DEF StoredSource
<1>3. \A source \in StoredSource : <<source>> \in Short(StoredSource)
  BY MaxRecordsAssumption DEF Short
<1>4. <<[kind |-> kind, reference |-> reference, note |-> none]>> \in Short(StoredSource)
  BY <1>2, <1>3, Zenon
<1>. QED  BY <1>4, Zenon DEF Source, none

\* The reader's cap holds for every list it counts.
LEMMA ListsFit ==
    ASSUME NEW t \in Tree, DeserializeError(serializeImpl(t)) = "None"
    PROVE  /\ Len(t.decisions) <= MaxRecords /\ Len(t.memory) <= MaxRecords
           /\ Len(t.obligations) <= MaxRecords /\ Len(t.evidence) <= MaxRecords
           /\ Len(t.conflicts) <= MaxRecords /\ Len(t.profiles) <= MaxRecords
           /\ Len(t.views) <= MaxRecords
           /\ \A i \in 1..Len(t.decisions) : /\ Len(t.decisions[i].supersedes) <= MaxRecords
                                             /\ Len(t.decisions[i].supersededBy) <= MaxRecords
           /\ \A i \in 1..Len(t.views) : Len(t.views[i].profileRefs) <= MaxRecords
<1>. DEFINE bare == [i \in DOMAIN t.memory |-> WithoutField(t.memory[i], "epistemic")]
            body == [t EXCEPT !.memory = bare]
<1>1. \A count \in CountedLengths(body) : ~(count > MaxRecords)
  BY Zenon DEF DeserializeError, serializeImpl
<1>2. /\ body.decisions = t.decisions /\ body.obligations = t.obligations
      /\ body.evidence = t.evidence /\ body.conflicts = t.conflicts
      /\ body.profiles = t.profiles /\ body.views = t.views /\ body.memory = bare
  BY DEF Tree
<1>3. Len(bare) = Len(t.memory)
  BY DEF Tree
<1>. HIDE DEF body, bare
<1>4. {Len(t.decisions), Len(t.memory), Len(t.obligations), Len(t.evidence),
       Len(t.conflicts), Len(t.profiles), Len(t.views)} \subseteq CountedLengths(body)
  BY <1>2, <1>3 DEF CountedLengths
<1>5. ASSUME NEW i \in 1..Len(t.decisions)
      PROVE  /\ Len(t.decisions[i].supersedes) \in CountedLengths(body) \cap Nat
             /\ Len(t.decisions[i].supersededBy) \in CountedLengths(body) \cap Nat
  <2>. DEFINE ds == t.decisions
              d == ds[i]
  <2>1. ds \in Seq(DecisionRecord)
    BY DEF Tree
  <2>2. d \in DecisionRecord /\ d \in ToSet(ds)
    BY <2>1 DEF ToSet
  <2>3. Len(d.supersedes) \in Nat /\ Len(d.supersededBy) \in Nat
    BY <2>2 DEF DecisionRecord
  <2>4. Len(d.supersedes) \in CountedLengths(body) /\ Len(d.supersededBy) \in CountedLengths(body)
    BY <1>2, <2>2, Zenon DEF CountedLengths
  <2>. QED  BY <2>3, <2>4
<1>6. ASSUME NEW i \in 1..Len(t.views)
      PROVE  Len(t.views[i].profileRefs) \in CountedLengths(body) \cap Nat
  <2>. DEFINE vs == t.views
              v == vs[i]
  <2>1. vs \in Seq(ViewRecord)
    BY DEF Tree
  <2>2. v \in ViewRecord /\ v \in ToSet(vs)
    BY <2>1 DEF ToSet
  <2>3. Len(v.profileRefs) \in Nat
    BY <2>2 DEF ViewRecord
  <2>4. Len(v.profileRefs) \in CountedLengths(body)
    BY <1>2, <2>2, Zenon DEF CountedLengths
  <2>. QED  BY <2>3, <2>4
<1>7. /\ t.decisions \in Seq(DecisionRecord) /\ t.views \in Seq(ViewRecord)
      /\ t.memory \in Seq(MemoryRecord) /\ t.obligations \in Seq(ObligationRecord)
      /\ t.evidence \in Seq(EvidenceRecord) /\ t.conflicts \in Seq(ConflictRecord)
      /\ t.profiles \in Seq(ProfileRecord)
  BY DEF Tree
<1>8. /\ Len(t.decisions) \in Nat /\ Len(t.memory) \in Nat /\ Len(t.obligations) \in Nat
      /\ Len(t.evidence) \in Nat /\ Len(t.conflicts) \in Nat /\ Len(t.profiles) \in Nat
      /\ Len(t.views) \in Nat
  BY <1>7
<1>9. \A count \in Nat : count \in CountedLengths(body) => count <= MaxRecords
  BY <1>1, MaxRecordsAssumption
<1>. QED  BY <1>4, <1>5, <1>6, <1>8, <1>9

\* The records of a tree, as they are written.
LEMMA RecordsAreStored ==
    ASSUME NEW t \in Tree, DeserializeError(serializeImpl(t)) = "None"
    PROVE  /\ [i \in DOMAIN t.decisions |-> WholeDecision(t.decisions[i])] \in Short(StoredDecision)
           /\ [i \in DOMAIN t.memory |-> WholeMemory(t.memory[i])] \in Short(StoredMemory)
           /\ [i \in DOMAIN t.obligations |-> WholeObligation(t.obligations[i])]
                 \in Short(StoredObligation)
           /\ t.evidence \in Short(StoredEvidence) /\ t.conflicts \in Short(StoredConflict)
           /\ [i \in DOMAIN t.profiles |-> WholeProfile(t.profiles[i])] \in Short(StoredProfile)
           /\ t.views \in Short(StoredView)
<1>0. /\ Texts \subseteq Scalars /\ Seq(Texts) \subseteq Scalars
      /\ "UserStatement" \in ToSet(SourceKind)
  BY DEF Scalars, SourceKind, ToSet
<1>1. [i \in DOMAIN t.decisions |-> WholeDecision(t.decisions[i])] \in Short(StoredDecision)
  <2>. DEFINE ds == t.decisions
              whole == [i \in DOMAIN ds |-> WholeDecision(ds[i])]
  <2>1. ds \in Seq(DecisionRecord) /\ Len(ds) <= MaxRecords
        /\ \A i \in 1..Len(ds) : Len(ds[i].supersedes) <= MaxRecords
                                 /\ Len(ds[i].supersededBy) <= MaxRecords
    BY ListsFit DEF Tree
  <2>. HIDE DEF ds
  <2>2. ASSUME NEW i \in DOMAIN ds PROVE whole[i] \in StoredDecision
    <3>. DEFINE d == ds[i]
                source == Source("UserStatement", d.provenance)
    <3>1. /\ d \in DecisionRecord /\ Len(d.supersedes) <= MaxRecords
          /\ Len(d.supersededBy) <= MaxRecords
      BY <2>1
    <3>2. source \in Short(StoredSource)
      BY <1>0, <3>1, SourceIsStored DEF DecisionRecord
    <3>3. whole[i] = [d EXCEPT !.provenance = source]
      BY DEF WholeDecision
    <3>4. d.status \in ToSet(Lifecycle)
      BY <3>1 DEF DecisionRecord, Lifecycle, ToSet
    <3>. HIDE DEF d, source, whole
    <3>. QED  BY <1>0, <3>1, <3>2, <3>3, <3>4 DEF DecisionRecord, StoredDecision, Short
  <2>3. DOMAIN whole = DOMAIN ds /\ whole = [i \in DOMAIN whole |-> whole[i]]
    OBVIOUS
  <2>. HIDE DEF whole
  <2>4. whole \in Seq(StoredDecision) /\ Len(whole) = Len(ds)
    BY <2>1, <2>2, <2>3, Rebuilt
  <2>. QED  BY <2>1, <2>4 DEF Short, whole, ds
<1>2. [i \in DOMAIN t.memory |-> WholeMemory(t.memory[i])] \in Short(StoredMemory)
  <2>. DEFINE ms == t.memory
              whole == [i \in DOMAIN ms |-> WholeMemory(ms[i])]
  <2>1. ms \in Seq(MemoryRecord) /\ Len(ms) <= MaxRecords
    BY ListsFit DEF Tree
  <2>. HIDE DEF ms
  <2>2. ASSUME NEW i \in DOMAIN ms PROVE whole[i] \in StoredMemory
    <3>. DEFINE m == ms[i]
                source == Source("UserStatement", m.provenance)
    <3>1. m \in MemoryRecord
      BY <2>1
    <3>2. source \in Short(StoredSource)
      BY <1>0, <3>1, SourceIsStored DEF MemoryRecord
    <3>3. whole[i] = [kind |-> m.kind, epistemic |-> m.epistemic, status |-> "Active",
                      title |-> m.title, statement |-> m.statement, provenance |-> source]
      BY DEF WholeMemory
    <3>4. "Active" \in ToSet(MemoryStatus)
      BY DEF MemoryStatus, ToSet
    <3>. HIDE DEF m, source, whole
    <3>. QED  BY <1>0, <3>1, <3>2, <3>3, <3>4 DEF MemoryRecord, StoredMemory
  <2>3. DOMAIN whole = DOMAIN ms /\ whole = [i \in DOMAIN whole |-> whole[i]]
    OBVIOUS
  <2>. HIDE DEF whole
  <2>4. whole \in Seq(StoredMemory) /\ Len(whole) = Len(ms)
    BY <2>1, <2>2, <2>3, Rebuilt
  <2>. QED  BY <2>1, <2>4 DEF Short, whole, ms
<1>3. [i \in DOMAIN t.obligations |-> WholeObligation(t.obligations[i])] \in Short(StoredObligation)
  <2>. DEFINE os == t.obligations
              whole == [i \in DOMAIN os |-> WholeObligation(os[i])]
  <2>1. os \in Seq(ObligationRecord) /\ Len(os) <= MaxRecords
    BY ListsFit DEF Tree
  <2>. HIDE DEF os
  <2>2. ASSUME NEW i \in DOMAIN os PROVE whole[i] \in StoredObligation
    <3>. DEFINE o == os[i]
                none == ""
                set == [id : Nat, status : ToSet(ObligationStatus), statement : Scalars,
                        trigger : ToSet(TriggerKind), triggerValue : {none},
                        completionCriteria : Scalars]
    <3>1. o \in ObligationRecord
      BY <2>1
    <3>2. whole[i] = [id |-> o.id, status |-> o.status, statement |-> o.statement,
                      trigger |-> "Manual", triggerValue |-> none,
                      completionCriteria |-> o.completionCriteria]
      BY Zenon DEF WholeObligation
    <3>3. "Manual" \in ToSet(TriggerKind)
      BY DEF TriggerKind, ToSet
    <3>. HIDE DEF o, none, whole
    <3>4. whole[i] \in set
      BY <1>0, <3>1, <3>2, <3>3 DEF ObligationRecord
    <3>. QED  BY <3>4, Zenon DEF StoredObligation, none
  <2>3. DOMAIN whole = DOMAIN os /\ whole = [i \in DOMAIN whole |-> whole[i]]
    BY Zenon
  <2>. HIDE DEF whole
  <2>4. whole \in Seq(StoredObligation) /\ Len(whole) = Len(os)
    BY <2>1, <2>2, <2>3, Rebuilt
  <2>. QED  BY <2>1, <2>4 DEF Short, whole, os
<1>4. t.evidence \in Short(StoredEvidence)
  <2>1. EvidenceRecord \subseteq StoredEvidence
    BY <1>0 DEF EvidenceRecord, StoredEvidence
  <2>. QED  BY <2>1, ListsFit DEF Tree, Short
<1>5. t.conflicts \in Short(StoredConflict)
  <2>1. ConflictRecord \subseteq StoredConflict
    BY <1>0 DEF ConflictRecord, StoredConflict, ConflictStatus, ToSet
  <2>. QED  BY <2>1, ListsFit DEF Tree, Short
<1>6. [i \in DOMAIN t.profiles |-> WholeProfile(t.profiles[i])] \in Short(StoredProfile)
  <2>. DEFINE ps == t.profiles
              whole == [i \in DOMAIN ps |-> WholeProfile(ps[i])]
  <2>1. ps \in Seq(ProfileRecord) /\ Len(ps) <= MaxRecords
    BY ListsFit DEF Tree
  <2>. HIDE DEF ps
  <2>2. ASSUME NEW i \in DOMAIN ps PROVE whole[i] \in StoredProfile
    <3>1. ps[i] \in ProfileRecord
      BY <2>1
    <3>2. "EnvironmentErgonomics" \in ToSet(WorkflowLayer)
      BY DEF WorkflowLayer, ToSet
    <3>. QED  BY <1>0, <3>1, <3>2 DEF WholeProfile, ProfileRecord, StoredProfile
  <2>3. DOMAIN whole = DOMAIN ps /\ whole = [i \in DOMAIN whole |-> whole[i]]
    OBVIOUS
  <2>. HIDE DEF whole
  <2>4. whole \in Seq(StoredProfile) /\ Len(whole) = Len(ps)
    BY <2>1, <2>2, <2>3, Rebuilt
  <2>. QED  BY <2>1, <2>4 DEF Short, whole, ps
<1>7. t.views \in Short(StoredView)
  <2>. DEFINE vs == t.views
  <2>1. vs \in Seq(ViewRecord) /\ Len(vs) <= MaxRecords
        /\ \A i \in 1..Len(vs) : Len(vs[i].profileRefs) <= MaxRecords
    BY ListsFit DEF Tree
  <2>. HIDE DEF vs
  <2>2. ASSUME NEW i \in 1..Len(vs) PROVE vs[i] \in StoredView
    <3>. DEFINE v == vs[i]
    <3>1. v \in ViewRecord /\ Len(v.profileRefs) <= MaxRecords
      BY <2>1
    <3>2. v.profileRefs \in Seq(Texts)
      BY <3>1 DEF ViewRecord
    <3>3. v.profileRefs \in Short(Scalars)
      BY <1>0, <3>1, <3>2 DEF Short
    <3>. HIDE DEF v
    <3>4. v \in StoredView
      BY <1>0, <3>1, <3>3 DEF ViewRecord, StoredView
    <3>. QED  BY <3>4 DEF v
  <2>. QED  BY <2>1, <2>2 DEF Short, vs
<1>. QED  BY <1>1, <1>2, <1>3, <1>4, <1>5, <1>6, <1>7

LEMMA RolesAreStored ==
    /\ default_role_specs \in Short(StoredRole)
    /\ <<Last(default_role_specs)>> \in Short(StoredRole)
    /\ <<>> \in Short(StoredRole)
<1>. DEFINE operating == "collaboration/operating-contract.md"
            contract == Source("RepositoryFile", operating)
            owner == default_role_specs[1]
            brother == default_role_specs[2]
            worker == default_role_specs[3]
<1>0. MaxRecords >= 12 /\ MaxRecords \in Nat
  BY StorageAssumption, MaxRecordsAssumption
<1>1. contract \in Short(StoredSource)
  <2>1. "RepositoryFile" \in ToSet(SourceKind)
    BY DEF SourceKind, ToSet
  <2>2. operating \in Scalars
    BY DEF Scalars, FixedTexts
  <2>. HIDE DEF operating
  <2>. QED  BY <2>1, <2>2, SourceIsStored
<1>2. FixedTexts \subseteq Scalars
  BY DEF Scalars
<1>3. /\ OperationClasses \in Short(ToSet(OperationClasses))
      /\ <<"StateUpdate", "EvidenceWrite">> \in Short(ToSet(OperationClasses))
  BY <1>0 DEF OperationClasses, ToSet, Short
<1>4. /\ {"Owner", "Brother", "Worker"} \subseteq ToSet(Role)
      /\ {"None", "LocalSupervised"} \subseteq ToSet(CapabilityClass)
  BY DEF Role, CapabilityClass, ToSet
<1>5. ASSUME NEW id \in ToSet(Role), NEW authorities \in Short(ToSet(OperationClasses)),
             NEW tasks \in Short(Scalars), NEW reasoning \in BOOLEAN,
             NEW execution \in ToSet(CapabilityClass), NEW identity \in BOOLEAN
      PROVE  RoleOf(id, authorities, tasks, reasoning, execution, identity) \in StoredRole
  <2>. HIDE DEF contract
  <2>1. RoleOf(id, authorities, tasks, reasoning, execution, identity)
          = [id |-> id, authorities |-> authorities, duties |-> tasks,
             reviewGradeReasoning |-> reasoning, execution |-> execution,
             identityPortVerified |-> identity, provenance |-> contract]
    BY DEF RoleOf, contract
  <2>. QED  BY <1>1, <2>1 DEF StoredRole
<1>6. /\ \A a, b, c \in FixedTexts : <<a, b, c>> \in Short(Scalars)
      /\ \A a \in FixedTexts : <<a>> \in Short(Scalars)
  BY <1>0, <1>2 DEF Short
<1>7. owner \in StoredRole
  <2>1. owner = RoleOf("Owner", OperationClasses,
                       <<"ratify and supersede", "accept checkpoints", "delegate">>,
                       FALSE, "None", TRUE)
    BY DEF default_role_specs
  <2>2. <<"ratify and supersede", "accept checkpoints", "delegate">> \in Short(Scalars)
    <3>1. /\ "ratify and supersede" \in FixedTexts /\ "accept checkpoints" \in FixedTexts
          /\ "delegate" \in FixedTexts
      BY Zenon DEF FixedTexts
    <3>. QED  BY <1>6, <3>1, Zenon
  <2>3. "Owner" \in ToSet(Role) /\ "None" \in ToSet(CapabilityClass)
    BY <1>4
  <2>. QED  BY <1>3, <1>5, <2>1, <2>2, <2>3, Zenon
<1>8. brother \in StoredRole
  <2>1. brother = RoleOf("Brother", OperationClasses,
                         <<"architecture and review", "disclosure duty", "escalate">>,
                         TRUE, "None", FALSE)
    BY DEF default_role_specs
  <2>2. <<"architecture and review", "disclosure duty", "escalate">> \in Short(Scalars)
    <3>1. /\ "architecture and review" \in FixedTexts /\ "disclosure duty" \in FixedTexts
          /\ "escalate" \in FixedTexts
      BY Zenon DEF FixedTexts
    <3>. QED  BY <1>6, <3>1, Zenon
  <2>3. "Brother" \in ToSet(Role) /\ "None" \in ToSet(CapabilityClass)
    BY <1>4
  <2>. QED  BY <1>3, <1>5, <2>1, <2>2, <2>3, Zenon
<1>9. worker \in StoredRole
  <2>1. worker = RoleOf("Worker", <<"StateUpdate", "EvidenceWrite">>,
                        <<"no push without authorization">>, FALSE, "LocalSupervised", FALSE)
    BY DEF default_role_specs
  <2>2. <<"no push without authorization">> \in Short(Scalars)
    <3>1. "no push without authorization" \in FixedTexts
      BY Zenon DEF FixedTexts
    <3>. QED  BY <1>6, <3>1, Zenon
  <2>3. "Worker" \in ToSet(Role) /\ "LocalSupervised" \in ToSet(CapabilityClass)
    BY <1>4
  <2>. QED  BY <1>3, <1>5, <2>1, <2>2, <2>3, Zenon
<1>10. default_role_specs = <<owner, brother, worker>> /\ Last(default_role_specs) = worker
  BY DEF default_role_specs, Last
<1>. HIDE DEF owner, brother, worker
<1>. QED  BY <1>0, <1>7, <1>8, <1>9, <1>10 DEF Short

LEMMA PolicyIsStored ==
    ASSUME NEW policy \in Policies
    PROVE  policy.present \in BOOLEAN /\ policy.rules \in Short(StoredRule)
<1>1. policy \in InvocationPolicy /\ Len(policy.rules) <= MaxRecords
  BY PolicyAssumption, StorageAssumption
<1>2. InvocationRule \subseteq StoredRule
  <2>1. {<<>>} \cup {<<c>> : c \in ToSet(ClaimClass)}
          \subseteq {c \in Seq(ToSet(ClaimClass)) : Len(c) <= 1}
    <3>. DEFINE S == ToSet(ClaimClass)
    <3>. HIDE DEF S
    <3>1. <<>> \in Seq(S) /\ Len(<<>>) = 0
      OBVIOUS
    <3>2. \A c \in S : <<c>> \in {q \in Seq(S) : Len(q) <= 1}
      OBVIOUS
    <3>3. <<>> \in {q \in Seq(S) : Len(q) <= 1}
      BY <3>1
    <3>4. {<<>>} \cup {<<c>> : c \in S} \subseteq {c \in Seq(S) : Len(c) <= 1}
      BY <3>2, <3>3, Zenon
    <3>. QED  BY <3>4 DEF S
  <2>2. STRING \subseteq Scalars
    BY DEF Scalars
  <2>. QED  BY <2>1, <2>2 DEF InvocationRule, StoredRule
<1>. QED  BY <1>1, <1>2 DEF InvocationPolicy, Short

LEMMA SnapshotIsStored ==
    ASSUME NEW t \in Tree, DeserializeError(serializeImpl(t)) = "None",
           NEW policy \in Policies, NEW roles \in Short(StoredRole)
    PROVE  Snapshot(t, policy, roles) \in StoredSnapshot
<1>. DEFINE none == ""
            articles == <<"history is not overwritten", "provenance is required">>
            objective == "kernel design"
            candidate == "not-created"
            decisions == [i \in DOMAIN t.decisions |-> WholeDecision(t.decisions[i])]
            memory == [i \in DOMAIN t.memory |-> WholeMemory(t.memory[i])]
            obligations == [i \in DOMAIN t.obligations |-> WholeObligation(t.obligations[i])]
            profiles == [i \in DOMAIN t.profiles |-> WholeProfile(t.profiles[i])]
            handoff == HandoffRows(PolicyTable(t))
            recovery == RecoveryRows(PolicyTable(t))
<1>1. Snapshot(t, policy, roles) =
        [rootPrincipal |-> t.rootPrincipal, articles |-> articles, handoff |-> handoff,
         recovery |-> recovery, objective |-> objective, current |-> t.current,
         checkpointRef |-> none, candidateRef |-> candidate,
         nextBoundaryRef |-> t.nextBoundaryRef, repositories |-> none, roadmap |-> none,
         decisions |-> decisions, memory |-> memory, obligations |-> obligations,
         evidence |-> t.evidence, conflicts |-> t.conflicts, profiles |-> profiles,
         views |-> t.views, present |-> policy.present, rules |-> policy.rules, roles |-> roles]
  BY Zenon DEF Snapshot
<1>2. none \in Scalars
  BY TextAssumption, Zenon DEF Scalars
<1>. HIDE DEF none
<1>3. {objective, candidate} \subseteq Scalars /\ articles \in Short(Scalars)
  <2>1. FixedTexts \subseteq Scalars
    BY DEF Scalars
  <2>2. \A a, b \in Scalars : <<a, b>> \in Short(Scalars)
    BY MaxRecordsAssumption, StorageAssumption DEF Short
  <2>. QED  BY <2>1, <2>2 DEF FixedTexts
<1>. HIDE DEF objective, candidate, articles
<1>4. PolicyTable(t) = makeDefaultPolicy
  BY DEF PolicyTable, Tree
<1>5. handoff \in Short(StoredHandoff) /\ recovery \in Short(StoredRecovery)
  BY <1>4, RowsAreStored
<1>. HIDE DEF handoff, recovery
<1>6. /\ decisions \in Short(StoredDecision) /\ memory \in Short(StoredMemory)
      /\ obligations \in Short(StoredObligation) /\ profiles \in Short(StoredProfile)
      /\ t.evidence \in Short(StoredEvidence) /\ t.conflicts \in Short(StoredConflict)
      /\ t.views \in Short(StoredView)
  BY RecordsAreStored
<1>. HIDE DEF decisions, memory, obligations, profiles
<1>7. t.rootPrincipal \in Scalars /\ t.current \in Scalars /\ t.nextBoundaryRef \in Scalars
  <2>1. t.rootPrincipal = RootPrincipal /\ t.current \in Texts
        /\ t.nextBoundaryRef \in Seq(Nat)
    BY DEF Tree
  <2>. QED  BY <2>1 DEF Scalars
<1>8. policy.present \in BOOLEAN /\ policy.rules \in Short(StoredRule)
  BY PolicyIsStored
<1>. QED  BY <1>1, <1>2, <1>3, <1>5, <1>6, <1>7, <1>8 DEF StoredSnapshot

---------------------------------------------------------------------------
(* What the writer stores of a tree is what the reader restores of it. *)

\* A version 8 rule is whole.
LEMMA RulesAreWhole ==
    ASSUME NEW policy \in Policies
    PROVE  RulesIn(8, policy.rules) = policy.rules
<1>1. policy.rules \in Seq(InvocationRule)
  BY PolicyAssumption DEF InvocationPolicy
<1>2. ASSUME NEW rule \in InvocationRule PROVE RuleIn(8, rule) = rule
  <2>1. RuleIn(8, rule) = [action |-> rule.action, claimClass |-> rule.claimClass,
                           requirement |-> rule.requirement, boundary |-> rule.boundary,
                           subject |-> rule.subject, blocking |-> rule.blocking]
    BY DEF RuleIn
  <2>. QED  BY <2>1 DEF InvocationRule
<1>3. policy.rules = [i \in DOMAIN policy.rules |-> policy.rules[i]]
      /\ \A i \in DOMAIN policy.rules : policy.rules[i] \in InvocationRule
  BY <1>1
<1>. QED  BY <1>2, <1>3, Zenon DEF RulesIn

\* The policy in a format of some version is the policy as this version is read.
LEMMA PolicyInVersions ==
    ASSUME NEW policy \in Policies, NEW version \in SupportedVersions
    PROVE  LET rules == IF version >= 7 THEN RulesIn(version, policy.rules) ELSE <<>>
               q     == ReadInvocation(version, policy)
           IN  /\ q.rules = rules
               /\ version = 8 => q.present = policy.present
               /\ version = 7 => q.present = (rules # <<>>)
               /\ version = 6 => q.present = FALSE
<1>1. policy \in InvocationPolicy /\ policy.rules \in Seq(InvocationRule)
  BY PolicyAssumption DEF InvocationPolicy
<1>2. CASE version = 8
  <2>1. ReadInvocation(version, policy) = policy
    BY <1>2 DEF ReadInvocation
  <2>. QED  BY <1>2, <2>1, RulesAreWhole
<1>3. CASE version = 7
  <2>. DEFINE rules == policy.rules
              older == [i \in DOMAIN rules |-> Older(rules[i])]
  <2>1. ReadInvocation(version, policy) = [present |-> rules # <<>>, rules |-> older]
    BY <1>3 DEF ReadInvocation, Older
  <2>2. ASSUME NEW rule \in InvocationRule PROVE RuleIn(7, rule) = Older(rule)
    <3>. DEFINE o == Older(rule)
    <3>1. RuleIn(7, rule) = [action |-> rule.action, claimClass |-> <<>>,
                             requirement |-> rule.requirement, boundary |-> "BeforeJudgment",
                             subject |-> rule.subject, blocking |-> rule.blocking]
      BY DEF RuleIn
    <3>2. /\ o \in InvocationRule
          /\ o.claimClass = <<>> /\ o.boundary = "BeforeJudgment"
          /\ o.action = rule.action /\ o.requirement = rule.requirement
          /\ o.subject = rule.subject /\ o.blocking = rule.blocking
      BY OlderRule
    <3>. HIDE DEF o
    <3>. QED  BY <3>1, <3>2 DEF InvocationRule, o
  <2>3. \A i \in DOMAIN rules : rules[i] \in InvocationRule
    BY <1>1
  <2>. HIDE DEF rules
  <2>4. RulesIn(7, rules) = older
    BY <2>2, <2>3, Zenon DEF RulesIn
  <2>5. (older # <<>>) <=> (rules # <<>>)
    <3>1. DOMAIN older = DOMAIN rules
      BY Zenon
    <3>. HIDE DEF older
    <3>2. rules \in Seq(InvocationRule) /\ RulesIn(7, rules) = older
      BY <1>1, <2>4 DEF rules
    <3>3. older = [i \in DOMAIN rules |-> RuleIn(7, rules[i])]
      BY <3>2 DEF RulesIn
    <3>. QED  BY <3>2, <3>3
  <2>6. RulesIn(7, policy.rules) = older
    BY <2>4, Zenon DEF rules
  <2>7. (rules # <<>>) = (older # <<>>)
    <3>. HIDE DEF older
    <3>. QED  BY <2>5, Zenon
  <2>. HIDE DEF older
  <2>8. /\ ReadInvocation(version, policy).rules = older
        /\ ReadInvocation(version, policy).present = (older # <<>>)
    <3>. DEFINE some == rules # <<>>
    <3>1. ReadInvocation(version, policy) = [present |-> some, rules |-> older]
      BY <2>1
    <3>. HIDE DEF some
    <3>2. /\ ReadInvocation(version, policy).rules = older
          /\ ReadInvocation(version, policy).present = some
      BY <3>1
    <3>. QED  BY <2>7, <3>2, Zenon DEF some
  <2>9. (IF version >= 7 THEN RulesIn(version, policy.rules) ELSE <<>>) = older
    BY <1>3, <2>6
  <2>10. version # 6 /\ version # 8
    BY <1>3
  <2>. QED  BY <2>8, <2>9, <2>10, Zenon
<1>4. CASE version = 6
  <2>1. ReadInvocation(version, policy) = [present |-> FALSE, rules |-> <<>>]
    BY <1>4 DEF ReadInvocation
  <2>. QED  BY <1>4, <2>1
<1>5. version = 6 \/ version = 7 \/ version = 8
  BY DEF SupportedVersions
<1>. QED  BY <1>2, <1>3, <1>4, <1>5

\* In a format of some version, the snapshot of a tree is that of the restored tree
\* with the policy as the version carries it.
LEMMA StoredIsRestored ==
    ASSUME NEW t \in Tree, NEW policy \in Policies, NEW roles, NEW version \in SupportedVersions
    PROVE  Presented(version, SnapshotIn(version, Snapshot(t, policy, roles)))
             = Snapshot(Restored(t), ReadInvocation(version, policy), roles)
<1>. DEFINE none == ""
            articles == <<"history is not overwritten", "provenance is required">>
            r == Restored(t)
            q == ReadInvocation(version, policy)
            decisions == [i \in DOMAIN t.decisions |-> WholeDecision(t.decisions[i])]
            obligations == [i \in DOMAIN t.obligations |-> WholeObligation(t.obligations[i])]
            profiles == [i \in DOMAIN t.profiles |-> WholeProfile(t.profiles[i])]
            handoff == HandoffRows(PolicyTable(t))
            recovery == RecoveryRows(PolicyTable(t))
            written == [i \in DOMAIN t.memory |-> WholeMemory(t.memory[i])]
            memory == [i \in DOMAIN r.memory |-> WholeMemory(r.memory[i])]
            Whole(records, present, rules) ==
               [rootPrincipal |-> t.rootPrincipal, articles |-> articles, handoff |-> handoff,
                recovery |-> recovery, objective |-> "kernel design", current |-> t.current,
                checkpointRef |-> none, candidateRef |-> "not-created",
                nextBoundaryRef |-> t.nextBoundaryRef, repositories |-> none,
                roadmap |-> none, decisions |-> decisions, memory |-> records,
                obligations |-> obligations, evidence |-> t.evidence,
                conflicts |-> t.conflicts, profiles |-> profiles, views |-> t.views,
                present |-> present, rules |-> rules, roles |-> roles]
<1>0. /\ r.decisions = t.decisions /\ r.obligations = t.obligations
      /\ r.conflicts = t.conflicts /\ r.profiles = t.profiles /\ r.views = t.views
      /\ r.nextBoundaryRef = t.nextBoundaryRef /\ r.current = t.current
      /\ r.evidence = t.evidence /\ r \in Tree /\ Len(r.memory) = Len(t.memory)
      /\ \A i \in 1..Len(t.memory) :
            /\ r.memory[i].kind = t.memory[i].kind /\ r.memory[i].title = t.memory[i].title
            /\ r.memory[i].statement = t.memory[i].statement
            /\ r.memory[i].epistemic = "Observation"
            /\ r.memory[i].provenance = t.memory[i].provenance
  BY ReloadFacts DEF Restored
<1>. HIDE DEF r
<1>1. r.rootPrincipal = t.rootPrincipal /\ PolicyTable(r) = PolicyTable(t)
  BY <1>0 DEF Tree, PolicyTable
<1>2. [i \in DOMAIN written |-> Unverified(written[i])] = memory
  <2>1. DOMAIN written = 1..Len(t.memory) /\ DOMAIN memory = 1..Len(t.memory)
    BY <1>0 DEF Tree
  <2>2. ASSUME NEW i \in 1..Len(t.memory) PROVE Unverified(written[i]) = memory[i]
    <3>. DEFINE old == t.memory[i]
                new == r.memory[i]
    <3>1. /\ new.kind = old.kind /\ new.title = old.title /\ new.statement = old.statement
          /\ new.epistemic = "Observation" /\ new.provenance = old.provenance
      BY <1>0
    <3>2. memory[i] = WholeMemory(new) /\ written[i] = WholeMemory(old)
      BY <2>1
    <3>. HIDE DEF old, new, memory, written
    <3>3. WholeMemory(new) = Unverified(WholeMemory(old))
      BY <3>1 DEF WholeMemory, Unverified
    <3>. QED  BY <3>2, <3>3
  <2>3. memory = [i \in DOMAIN memory |-> memory[i]]
    OBVIOUS
  <2>. HIDE DEF memory, written
  <2>. QED  BY <2>1, <2>2, <2>3
<1>. DEFINE s == Snapshot(t, policy, roles)
            rules == IF version >= 7 THEN RulesIn(version, policy.rules) ELSE <<>>
            present == IF version >= 8 THEN policy.present ELSE FALSE
<1>3. s = Whole(written, policy.present, policy.rules)
  BY Zenon DEF Snapshot
<1>4. Snapshot(r, q, roles) = Whole(memory, q.present, q.rules)
  <2>. HIDE DEF q
  <2>. QED  BY <1>0, <1>1, Zenon DEF Snapshot
<1>. HIDE DEF none, articles, decisions, obligations, profiles, handoff, recovery, written, memory,
              s, q
<1>5. SnapshotIn(version, s) = Whole(memory, present, rules)
  <2>1. /\ s.rootPrincipal = t.rootPrincipal /\ s.articles = articles /\ s.handoff = handoff
        /\ s.recovery = recovery /\ s.objective = "kernel design" /\ s.current = t.current
        /\ s.checkpointRef = none /\ s.candidateRef = "not-created"
        /\ s.nextBoundaryRef = t.nextBoundaryRef /\ s.repositories = none /\ s.roadmap = none
        /\ s.decisions = decisions /\ s.memory = written /\ s.obligations = obligations
        /\ s.evidence = t.evidence /\ s.conflicts = t.conflicts /\ s.profiles = profiles
        /\ s.views = t.views /\ s.present = policy.present /\ s.rules = policy.rules
        /\ s.roles = roles
    BY <1>3
  <2>. HIDE DEF present, rules
  <2>2. SnapshotIn(version, s)
          = [rootPrincipal |-> s.rootPrincipal, articles |-> s.articles, handoff |-> s.handoff,
             recovery |-> s.recovery, objective |-> s.objective, current |-> s.current,
             checkpointRef |-> s.checkpointRef, candidateRef |-> s.candidateRef,
             nextBoundaryRef |-> s.nextBoundaryRef, repositories |-> s.repositories,
             roadmap |-> s.roadmap, decisions |-> s.decisions, memory |-> memory,
             obligations |-> s.obligations, evidence |-> s.evidence, conflicts |-> s.conflicts,
             profiles |-> s.profiles, views |-> s.views, present |-> present, rules |-> rules,
             roles |-> s.roles]
    BY <1>2, <2>1, Zenon DEF SnapshotIn, present, rules
  <2>. QED  BY <2>1, <2>2, Zenon
<1>6. /\ q.rules = rules
      /\ version = 8 => q.present = policy.present
      /\ version = 7 => q.present = (rules # <<>>)
      /\ version = 6 => q.present = FALSE
  BY PolicyInVersions, Zenon DEF q
<1>. HIDE DEF rules
<1>. HIDE DEF present
<1>7. Presented(version, Whole(memory, present, rules)) = Whole(memory, q.present, q.rules)
  <2>1. CASE version = 7
    <3>. DEFINE whole == Whole(memory, present, rules)
                some == rules # <<>>
    <3>1. whole.rules = rules
      BY Zenon
    <3>0. \A x, y : [Whole(memory, x, rules) EXCEPT !.present = y] = Whole(memory, y, rules)
      <4>. DEFINE objective == "kernel design"
                  candidate == "not-created"
                  root == t.rootPrincipal
                  current == t.current
                  boundary == t.nextBoundaryRef
                  evidence == t.evidence
                  conflicts == t.conflicts
                  views == t.views
      <4>. HIDE DEF objective, candidate, root, current, boundary, evidence, conflicts, views
      <4>1. \A u : Whole(memory, u, rules) =
               [rootPrincipal |-> root, articles |-> articles, handoff |-> handoff,
                recovery |-> recovery, objective |-> objective, current |-> current,
                checkpointRef |-> none, candidateRef |-> candidate,
                nextBoundaryRef |-> boundary, repositories |-> none,
                roadmap |-> none, decisions |-> decisions, memory |-> memory,
                obligations |-> obligations, evidence |-> evidence,
                conflicts |-> conflicts, profiles |-> profiles, views |-> views,
                present |-> u, rules |-> rules, roles |-> roles]
        BY Zenon DEF objective, candidate, root, current, boundary, evidence, conflicts, views
      <4>. HIDE DEF Whole
      <4>2. ASSUME NEW x, NEW y
            PROVE  [Whole(memory, x, rules) EXCEPT !.present = y] = Whole(memory, y, rules)
        BY <4>1
      <4>. QED  BY <4>2, Zenon
    <3>. HIDE DEF some, Whole
    <3>2. [whole EXCEPT !.present = some] = Whole(memory, some, rules)
      BY <3>0, Zenon
    <3>. HIDE DEF whole
    <3>3. Presented(version, whole) = [whole EXCEPT !.present = some]
      BY <2>1, <3>1 DEF Presented, some
    <3>4. q.present = some
      BY <1>6, <2>1, Zenon DEF some
    <3>. QED  BY <1>6, <3>2, <3>3, <3>4, Zenon DEF whole
  <2>2. CASE version # 7
    <3>1. version = 6 \/ version = 8
      BY <2>2 DEF SupportedVersions
    <3>2. q.present = present
      <4>1. (version = 6 => ~(version >= 8)) /\ (version = 8 => version >= 8)
        OBVIOUS
      <4>. QED  BY <1>6, <3>1, <4>1, Zenon DEF present
    <3>. HIDE DEF Whole
    <3>. QED  BY <1>6, <2>2, <3>2, Zenon DEF Presented
  <2>. QED  BY <2>1, <2>2
<1>. HIDE DEF Whole
<1>. QED  BY <1>4, <1>5, <1>7, Zenon DEF s, q, r

---------------------------------------------------------------------------
(* The specification. *)

LEMMA BytesAreCells ==
    ASSUME NEW s \in StoredSnapshot, NEW version \in SupportedVersions
    PROVE  Bytes(version, s) \in Seq(Cells)
<1>1. Len(<<>>) \in Nat /\ Agrees(<<>>, 1, Bytes(version, s))
  BY DEF Agrees
<1>. QED  BY <1>1, SnapshotReads

\* What is written of any readable tree, with any policy, in any supported version,
\* is read back as the tree and the policy that the rest of the project restores.
LEMMA WrittenReadsBack ==
    ASSUME NEW t \in Tree, Readable(t), NEW policy \in Policies, NEW roles \in Short(StoredRole),
           NEW version \in SupportedVersions
    PROVE  ReadSnapshot(Bytes(version, Snapshot(t, policy, roles)))
             = [error    |-> "None",
                snapshot |-> <<Snapshot(Restored(t), ReadInvocation(version, policy), roles)>>]
<1>. DEFINE s == Snapshot(t, policy, roles)
            bytes == Bytes(version, s)
<1>1. s \in StoredSnapshot
  BY SnapshotIsStored DEF Readable
<1>. HIDE DEF s
<1>2. Agrees(bytes, 1, Bytes(version, s))
  <2>1. ASSUME NEW i \in 1..Len(bytes) PROVE 1 + i - 1 = i
    OBVIOUS
  <2>. HIDE DEF bytes
  <2>2. Agrees(bytes, 1, bytes)
    <3>. SUFFICES ASSUME NEW i \in 1..Len(bytes) PROVE bytes[1 + i - 1] = bytes[i]
      BY DEF Agrees
    <3>. QED  BY <2>1
  <2>. QED  BY <2>2 DEF bytes
<1>3. Len(bytes) \in Nat
  <2>1. bytes \in Seq(Cells)
    BY <1>1, BytesAreCells
  <2>. HIDE DEF bytes
  <2>. QED  BY <2>1
<1>4. ReadSnapshot(bytes) = [error |-> "None",
                             snapshot |-> <<Presented(version, SnapshotIn(version, s))>>]
  BY <1>1, <1>2, <1>3, SnapshotReads
<1>. QED  BY <1>4, StoredIsRestored DEF s

\* Cut anywhere, or with more after it, it is refused.
LEMMA WrittenIsWhole ==
    ASSUME NEW t \in Tree, Readable(t), NEW policy \in Policies, NEW roles \in Short(StoredRole),
           NEW version \in SupportedVersions,
           NEW damaged \in Cut(Bytes(version, Snapshot(t, policy, roles)))
    PROVE  ReadSnapshot(damaged) = [error |-> "Truncated", snapshot |-> <<>>]
<1>. DEFINE s == Snapshot(t, policy, roles)
            bytes == Bytes(version, s)
<1>1. s \in StoredSnapshot
  BY SnapshotIsStored DEF Readable
<1>. HIDE DEF s
<1>2. bytes \in Seq(Cells)
  BY <1>1, BytesAreCells
<1>3. damaged \in Cut(bytes)
  BY DEF s
<1>. HIDE DEF bytes
<1>4. Len(damaged) \in Nat /\ Len(damaged) # Len(bytes) /\ Agrees(damaged, 1, bytes)
  <2>1. CASE damaged = Append(bytes, bytes[1])
    <3>1. /\ Len(damaged) = Len(bytes) + 1 /\ Len(bytes) \in Nat
          /\ \A i \in 1..Len(bytes) : damaged[i] = bytes[i]
      BY <1>2, <2>1
    <3>. QED  BY <3>1 DEF Agrees
  <2>2. ASSUME NEW n \in 0..Len(bytes) - 1, damaged = SubSeq(bytes, 1, n)
        PROVE  Len(damaged) = n /\ \A i \in 1..n : damaged[i] = bytes[i]
    BY <1>2, <2>2
  <2>3. ASSUME NEW n \in 0..Len(bytes) - 1, damaged = SubSeq(bytes, 1, n)
        PROVE  Len(damaged) \in Nat /\ Len(damaged) # Len(bytes) /\ Agrees(damaged, 1, bytes)
    <3>1. Len(bytes) \in Nat
      BY <1>2
    <3>. QED  BY <2>2, <2>3, <3>1 DEF Agrees
  <2>. QED  BY <1>3, <2>1, <2>3 DEF Cut
<1>5. Agrees(damaged, 1, Bytes(version, s))
  BY <1>4 DEF bytes
<1>6. Len(damaged) # Len(Bytes(version, s))
  BY <1>4 DEF bytes
<1>. QED  BY <1>1, <1>4, <1>5, <1>6, SnapshotReads

LEMMA ShortPoliciesExist == ShortPolicies \subseteq Policies
BY DEF ShortPolicies

\* The codec of the two walks and the codec the rest of the project uses agree on every
\* tree the specification reaches, and so do their views of older formats: the round trip
\* of serializeImpl and deserializeImpl.
THEOREM StoredReadsBack == Spec => []StoredBytesReadBack
<1>1. TypeOK => StoredBytesReadBack
  <2>. SUFFICES ASSUME TypeOK,
                       NEW policy \in IF Small(tree) THEN Policies ELSE ShortPolicies,
                       NEW version \in IF Small(tree) THEN SupportedVersions ELSE {8},
                       NEW roles, roles = IF Small(tree) THEN default_role_specs ELSE <<>>,
                       Readable(tree)
                PROVE  ReadSnapshot(Bytes(version, Snapshot(tree, policy, roles)))
                         = [error    |-> "None",
                            snapshot |-> <<Snapshot(Restored(tree),
                                                    ReadInvocation(version, policy), roles)>>]
    BY Zenon DEF StoredBytesReadBack
  <2>1. tree \in Tree
    BY DEF TypeOK
  <2>2. policy \in Policies
    BY ShortPoliciesExist
  <2>3. version \in SupportedVersions
    BY DEF SupportedVersions
  <2>4. roles \in Short(StoredRole)
    BY RolesAreStored, Zenon
  <2>. QED  BY <2>1, <2>2, <2>3, <2>4, WrittenReadsBack
<1>. QED  BY <1>1, TypeCorrect, PTL

\* A torn or padded snapshot of any tree the specification reaches is refused, wherever
\* it is torn: no prefix of a head is ever taken for a head (the reader's need and the
\* check for trailing bytes at the end of deserializeImpl).
THEOREM TornBytesRefused == Spec => []CutIsRefused
<1>1. TypeOK => CutIsRefused
  <2>. SUFFICES ASSUME TypeOK, NEW policy \in ShortPolicies, Readable(tree),
                       NEW damaged \in Cut(Stored(tree, policy))
                PROVE  ReadSnapshot(damaged) = [error |-> "Truncated", snapshot |-> <<>>]
    BY Zenon DEF CutIsRefused
  <2>1. tree \in Tree
    BY DEF TypeOK
  <2>2. policy \in Policies
    BY ShortPoliciesExist
  <2>3. 8 \in SupportedVersions
    BY DEF SupportedVersions
  <2>4. <<Last(default_role_specs)>> \in Short(StoredRole)
    BY RolesAreStored, Zenon
  <2>. QED  BY <2>1, <2>2, <2>3, <2>4, WrittenIsWhole DEF Stored
<1>. QED  BY <1>1, TypeCorrect, PTL

---------------------------------------------------------------------------
(* The other direction: what is read is written as it stands.  A reader is *)
(* faithful to what is written of some values when each value it reads, of *)
(* whatever bytes, is one of these, and the bytes up to where it ends are  *)
(* what is written of it.                                                  *)

\* The bytes hold the part from a place to another, up to flags.
Held(bytes, at, end, part) ==
    /\ at \in Positions(bytes) /\ end \in Positions(bytes) /\ part \in Seq(Cells)
    /\ end = at + Len(part)
    /\ \A i \in 1..Len(part) : Alike(bytes[at + i - 1], part[i])

\* cells holds what is written of every value.
Faithful(item, bytes, cells) ==
    \A at \in Positions(bytes) :
       ~Failing(item[at]) =>
          /\ item[at].value \in DOMAIN cells
          /\ Held(bytes, at, item[at].at, cells[item[at].value])

LEMMA HeldNothing ==
    ASSUME NEW bytes, NEW at \in Positions(bytes)
    PROVE  Held(bytes, at, at, <<>>)
<1>1. <<>> \in Seq(Cells) /\ Len(<<>>) = 0 /\ at \in Nat
  BY DEF Positions
<1>. QED  BY <1>1 DEF Held

LEMMA HeldTogether ==
    ASSUME NEW bytes, NEW at, NEW mid, NEW end, NEW p, NEW q,
           Held(bytes, at, mid, p), Held(bytes, mid, end, q)
    PROVE  Held(bytes, at, end, p \o q)
<1>1. /\ p \in Seq(Cells) /\ q \in Seq(Cells) /\ at \in Nat
      /\ mid = at + Len(p) /\ end = mid + Len(q)
  BY DEF Held, Positions
<1>. HIDE DEF Cells
<1>2. /\ p \o q \in Seq(Cells)
      /\ Len(p \o q) = Len(p) + Len(q) /\ Len(p) \in Nat /\ Len(q) \in Nat
      /\ \A i \in 1..Len(p) + Len(q) : (p \o q)[i] = IF i <= Len(p) THEN p[i] ELSE q[i - Len(p)]
  BY <1>1, ConcatProperties
<1>3. ASSUME NEW i \in 1..Len(p \o q) PROVE Alike(bytes[at + i - 1], (p \o q)[i])
  <2>1. CASE i <= Len(p)
    <3>1. i \in 1..Len(p) /\ (p \o q)[i] = p[i]
      BY <1>2, <2>1
    <3>. QED  BY <3>1 DEF Held
  <2>2. CASE ~(i <= Len(p))
    <3>. DEFINE k == i - Len(p)
    <3>1. k \in 1..Len(q) /\ (p \o q)[i] = q[k] /\ mid + k - 1 = at + i - 1
      BY <1>1, <1>2, <2>2
    <3>. HIDE DEF k
    <3>2. Alike(bytes[mid + k - 1], q[k])
      BY <3>1 DEF Held
    <3>. QED  BY <3>1, <3>2
  <2>. QED  BY <2>1, <2>2
<1>4. end = at + Len(p \o q)
  BY <1>1, <1>2
<1>5. at \in Positions(bytes) /\ end \in Positions(bytes)
  BY DEF Held
<1>. QED  BY <1>2, <1>3, <1>4, <1>5 DEF Held

\* Readers as many as there are cells to write, each faithful to its own.
EachFaithful(readers, bytes, each, len) ==
    /\ len \in Nat /\ Len(readers) = len
    /\ \A i \in 1..len : Faithful(readers[i], bytes, each[i])

\* A value each, and each is held between two stops.
HeldInTurn(bytes, at, all, each, len) ==
    \E stops : /\ stops[0] = at /\ stops[len] = all.at
               /\ \A i \in 1..len :
                     /\ all.value[i] \in DOMAIN each[i]
                     /\ Held(bytes, stops[i - 1], stops[i], each[i][all.value[i]])

LEMMA AllStops ==
    ASSUME NEW bytes, NEW len, NEW readers, NEW each, EachFaithful(readers, bytes, each, len),
           NEW at \in Positions(bytes), NEW all, all = ReadAll(readers, at), ~Failing(all)
    PROVE  all.value = [i \in 1..len |-> all.value[i]] /\ HeldInTurn(bytes, at, all, each, len)
<1>1. len \in Nat /\ Len(readers) = len
  BY DEF EachFaithful
<1>2. PICK read : /\ read[0] = Got(at, <<>>)
                  /\ \A n \in 1..len : read[n] = Onward(read[n - 1], readers[n])
                  /\ read[len] = all
  BY <1>1, ReadSteps
<1>. DEFINE step(n) == readers[n][read[n - 1].at]
            V == {step(n).value : n \in 1..len}
            values(n) == [i \in 1..n |-> step(i).value]
            Whole(n) == ~Failing(read[n])
            Ahead == {k \in Nat : k <= len => Whole(len - k)}
            Good == {n \in Nat : n <= len => read[n].at \in Positions(bytes) /\ read[n].value = values(n)}
<1>3. \A n \in 1..len : read[n] = IF Failing(read[n - 1]) THEN read[n - 1]
                                  ELSE IF Failing(step(n)) THEN step(n)
                                  ELSE Got(step(n).at, Append(read[n - 1].value, step(n).value))
  BY <1>2 DEF Onward
<1>4. \A n \in 0..len : Whole(n)
  <2>1. 0 \in Ahead
    BY <1>1, <1>2
  <2>2. ASSUME NEW k \in Nat, k \in Ahead PROVE k + 1 \in Ahead
    <3>. SUFFICES ASSUME k + 1 <= len PROVE Whole(len - (k + 1))
      OBVIOUS
    <3>1. PICK n \in 1..len : n = len - k
      BY <1>1
    <3>2. n - 1 = len - (k + 1) /\ k <= len
      BY <1>1, <3>1
    <3>3. Whole(n)
      BY <2>2, <3>1, <3>2
    <3>. HIDE DEF step
    <3>. QED  BY <1>3, <3>2, <3>3
  <2>. HIDE DEF Ahead
  <2>3. Nat \subseteq Ahead
    BY <2>1, <2>2, SetInduction
  <2>. USE DEF Ahead
  <2>4. ASSUME NEW n \in 0..len PROVE Whole(n)
    <3>1. len - n \in Ahead /\ len - n <= len /\ len - (len - n) = n
      BY <1>1, <2>3
    <3>. HIDE DEF Whole
    <3>. QED  BY <3>1
  <2>. QED  BY <2>4
<1>5. \A n \in 1..len :
         /\ ~Failing(step(n))
         /\ read[n] = Got(step(n).at, Append(read[n - 1].value, step(n).value))
  <2>. SUFFICES ASSUME NEW n \in 1..len
                PROVE  /\ ~Failing(step(n))
                       /\ read[n] = Got(step(n).at, Append(read[n - 1].value, step(n).value))
    OBVIOUS
  <2>1. n \in 0..len /\ n - 1 \in 0..len
    BY <1>1
  <2>2. ~Failing(read[n]) /\ ~Failing(read[n - 1])
    BY <1>4, <2>1
  <2>. HIDE DEF step
  <2>. QED  BY <1>3, <2>2
<1>6. ASSUME NEW n \in 1..len, read[n - 1].at \in Positions(bytes)
      PROVE  /\ step(n).value \in DOMAIN each[n]
             /\ Held(bytes, read[n - 1].at, read[n].at, each[n][step(n).value])
  <2>1. Faithful(readers[n], bytes, each[n])
    BY DEF EachFaithful
  <2>2. ~Failing(step(n)) /\ read[n].at = step(n).at
    <3>. HIDE DEF step
    <3>1. ~Failing(step(n)) /\ read[n] = Got(step(n).at, Append(read[n - 1].value, step(n).value))
      BY <1>5, Zenon
    <3>. QED  BY <3>1 DEF Got
  <2>. QED  BY <1>6, <2>1, <2>2 DEF Faithful
<1>7. Nat \subseteq Good
  <2>1. 0 \in Good
    <3>1. values(0) = <<>>
      OBVIOUS
    <3>. HIDE DEF values
    <3>. QED  BY <1>2, <3>1 DEF Got
  <2>2. ASSUME NEW n \in Nat, n \in Good PROVE n + 1 \in Good
    <3>. SUFFICES ASSUME n + 1 <= len
                  PROVE  read[n + 1].at \in Positions(bytes) /\ read[n + 1].value = values(n + 1)
      OBVIOUS
    <3>1. PICK k \in 1..len : k = n + 1
      BY <1>1
    <3>2. k - 1 = n
      BY <3>1
    <3>3. read[k - 1].at \in Positions(bytes) /\ read[k - 1].value = values(n)
      BY <1>1, <2>2, <3>1, <3>2
    <3>4. read[k].at \in Positions(bytes)
      BY <1>6, <3>3 DEF Held
    <3>5. read[k].value = Append(values(n), step(k).value)
      <4>. HIDE DEF step, values
      <4>1. read[k] = Got(step(k).at, Append(read[k - 1].value, step(k).value))
        BY <1>5, Zenon
      <4>. QED  BY <3>3, <4>1 DEF Got
    <3>6. Append(values(n), step(k).value) = values(n + 1)
      <4>1. values(n) \in Seq(V) /\ step(k).value \in V /\ Len(values(n)) = n
        <5>1. \A i \in 1..n : i \in 1..len
          BY <1>1, <3>1
        <5>2. \A i \in 1..len : step(i).value \in V
          OBVIOUS
        <5>. HIDE DEF V, step
        <5>. QED  BY <5>1, <5>2
      <4>2. \A i \in 1..n + 1 : i # n + 1 => i \in 1..n
        OBVIOUS
      <4>3. values(n + 1) = [i \in 1..n + 1 |-> IF i = n + 1 THEN step(k).value ELSE values(n)[i]]
        BY <3>1, <4>2
      <4>. HIDE DEF V, step, values
      <4>. QED  BY <4>1, <4>3
    <3>. QED  BY <3>1, <3>4, <3>5, <3>6
  <2>. HIDE DEF Good
  <2>. QED  BY <2>1, <2>2, SetInduction
<1>8. all.value = values(len)
  <2>1. len \in Good
    BY <1>1, <1>7
  <2>. QED  BY <1>2, <2>1
<1>9. ASSUME NEW i \in 1..len
      PROVE  /\ all.value[i] \in DOMAIN each[i]
             /\ Held(bytes, read[i - 1].at, read[i].at, each[i][all.value[i]])
  <2>1. all.value[i] = step(i).value
    BY <1>8
  <2>2. i - 1 \in Good /\ i - 1 <= len
    BY <1>1, <1>7
  <2>3. read[i - 1].at \in Positions(bytes)
    BY <2>2
  <2>. HIDE DEF step
  <2>. QED  BY <1>6, <2>1, <2>3
<1>10. all.value = [i \in 1..len |-> all.value[i]]
  BY <1>8
<1>. DEFINE stops == [i \in 0..len |-> read[i].at]
<1>11. stops[0] = at /\ stops[len] = all.at
  BY <1>1, <1>2 DEF Got
<1>12. \A i \in 1..len : stops[i - 1] = read[i - 1].at /\ stops[i] = read[i].at
  BY <1>1
<1>. HIDE DEF stops, values
<1>. QED  BY <1>9, <1>10, <1>11, <1>12 DEF HeldInTurn

\* What is written of the values they read.
Parts(all, each, len) == [i \in 1..len |-> each[i][all.value[i]]]

\* What they read is held part by part.
LEMMA AllHeld ==
    ASSUME NEW bytes, NEW len, NEW readers, NEW each, EachFaithful(readers, bytes, each, len),
           NEW at \in Positions(bytes), NEW all, all = ReadAll(readers, at), ~Failing(all)
    PROVE  /\ Parts(all, each, len) \in Seq(Seq(Cells)) /\ Len(Parts(all, each, len)) = len
           /\ Held(bytes, at, all.at, FlattenSeq(Parts(all, each, len)))
<1>. DEFINE parts == Parts(all, each, len)
<1>0. parts = [i \in 1..len |-> parts[i]] /\ \A i \in 1..len : parts[i] = each[i][all.value[i]]
  BY DEF Parts
<1>. HIDE DEF parts
<1>1. len \in Nat
  BY DEF EachFaithful
<1>2. PICK stops : /\ stops[0] = at /\ stops[len] = all.at
                   /\ \A i \in 1..len : Held(bytes, stops[i - 1], stops[i], parts[i])
  <2>1. HeldInTurn(bytes, at, all, each, len)
    BY AllStops, Zenon
  <2>. QED  BY <1>0, <2>1 DEF HeldInTurn
<1>3. \A i \in 1..len : parts[i] \in Seq(Cells)
  BY <1>2 DEF Held
<1>4. parts \in Seq(Seq(Cells)) /\ Len(parts) = len
  BY <1>0, <1>1, <1>3
<1>5. PICK join : Joins(join, parts) /\ join[len] = FlattenSeq(parts)
  BY <1>4, FlattenSteps
<1>. DEFINE Good == {n \in Nat : n <= len => Held(bytes, at, stops[n], join[n])}
<1>6. 0 \in Good
  BY <1>2, <1>5, HeldNothing DEF Joins
<1>7. ASSUME NEW n \in Nat, n \in Good PROVE n + 1 \in Good
  <2>. SUFFICES ASSUME n + 1 <= len PROVE Held(bytes, at, stops[n + 1], join[n + 1])
    OBVIOUS
  <2>1. PICK k \in 1..len : k = n + 1
    BY <1>1
  <2>2. k - 1 = n
    BY <2>1
  <2>3. Held(bytes, at, stops[n], join[n])
    BY <1>1, <1>7
  <2>. HIDE DEF Good
  <2>4. join[k] = join[n] \o parts[k]
    <3>1. k \in 1..Len(parts)
      BY <1>4
    <3>. QED  BY <1>5, <2>2, <3>1 DEF Joins
  <2>5. Held(bytes, stops[n], stops[k], parts[k])
    BY <1>2, <2>2
  <2>6. Held(bytes, at, stops[k], join[n] \o parts[k])
    BY <2>3, <2>5, HeldTogether
  <2>. QED  BY <2>1, <2>4, <2>6
<1>. HIDE DEF Good
<1>8. len \in Good
  BY <1>1, <1>6, <1>7, SetInduction
<1>. USE DEF Good
<1>9. Held(bytes, at, stops[len], join[len])
  BY <1>1, <1>8
<1>. QED  BY <1>2, <1>4, <1>5, <1>9 DEF parts

---------------------------------------------------------------------------
(* What is written of scalars, lists, optional values and records. *)

TextCells        == [v \in Scalars |-> PutText(v)]
NumberCells      == [v \in Nat |-> PutNumber(v)]
FlagCells        == [v \in BOOLEAN |-> PutFlag(v)]
EnumCells(names) == [v \in ToSet(names) |-> PutEnum(names, v)]
DeclaredCells(v) == [u \in {v} |-> NotWritten]

SinceCells(first, version, declared, cells) ==
    [v \in IF version >= first THEN DOMAIN cells ELSE {declared} |-> Since(first, version, cells[v])]

\* A cell that is taken is held.
LEMMA TakenIsHeld ==
    ASSUME NEW bytes \in Seq(Cells), NEW at \in Positions(bytes), NEW width,
           ~Failing(Take(width, bytes, at))
    PROVE  /\ at \in 1..Len(bytes) /\ bytes[at] \in Cells /\ bytes[at].width = width
           /\ Take(width, bytes, at) = Got(at + 1, bytes[at].value)
           /\ \A cell \in Cells : Alike(bytes[at], cell) => Held(bytes, at, at + 1, <<cell>>)
<1>1. at \in Nat \ {0} /\ Len(bytes) \in Nat
  BY DEF Positions
<1>2. at \in 1..Len(bytes) /\ bytes[at].width = width
  BY <1>1 DEF Take, Failing, Refused
<1>3. Take(width, bytes, at) = Got(at + 1, bytes[at].value)
  BY <1>1, <1>2 DEF Take
<1>4. bytes[at] \in Cells
  BY <1>2
<1>5. ASSUME NEW cell \in Cells, Alike(bytes[at], cell) PROVE Held(bytes, at, at + 1, <<cell>>)
  <2>. HIDE DEF Cells
  <2>1. <<cell>> \in Seq(Cells) /\ Len(<<cell>>) = 1 /\ <<cell>>[1] = cell /\ at + 1 - 1 = at
    BY <1>1
  <2>2. at + 1 \in Positions(bytes)
    BY <1>2 DEF Positions
  <2>. QED  BY <1>5, <2>1, <2>2 DEF Held
<1>. QED  BY <1>2, <1>3, <1>4, <1>5

LEMMA TextFaithful ==
    ASSUME NEW bytes \in Seq(Cells)
    PROVE  Faithful(ReadText(bytes), bytes, TextCells)
<1>. SUFFICES ASSUME NEW at \in Positions(bytes), ~Failing(ReadText(bytes)[at])
              PROVE  /\ ReadText(bytes)[at].value \in DOMAIN TextCells
                     /\ Held(bytes, at, ReadText(bytes)[at].at,
                             TextCells[ReadText(bytes)[at].value])
  BY DEF Faithful
<1>. DEFINE raw == Take("text", bytes, at)
            cell == bytes[at]
<1>1. ReadText(bytes)[at] = raw
  BY DEF ReadText
<1>2. /\ cell \in Cells /\ cell.width = "text" /\ raw = Got(at + 1, cell.value)
      /\ \A c \in Cells : Alike(cell, c) => Held(bytes, at, at + 1, <<c>>)
  BY <1>1, TakenIsHeld
<1>. HIDE DEF raw, cell
<1>3. cell.value \in Scalars /\ cell = Cell("text", cell.value)
  BY <1>2 DEF Cells, Cell
<1>4. Held(bytes, at, at + 1, <<cell>>)
  BY <1>2 DEF Alike
<1>5. TextCells[cell.value] = <<cell>> /\ cell.value \in DOMAIN TextCells
  BY <1>3 DEF TextCells, PutText
<1>. QED  BY <1>1, <1>2, <1>4, <1>5 DEF Got

LEMMA NumberFaithful ==
    ASSUME NEW bytes \in Seq(Cells)
    PROVE  Faithful(ReadNumber(bytes), bytes, NumberCells)
<1>. SUFFICES ASSUME NEW at \in Positions(bytes), ~Failing(ReadNumber(bytes)[at])
              PROVE  /\ ReadNumber(bytes)[at].value \in DOMAIN NumberCells
                     /\ Held(bytes, at, ReadNumber(bytes)[at].at,
                             NumberCells[ReadNumber(bytes)[at].value])
  BY DEF Faithful
<1>. DEFINE raw == Take("u64", bytes, at)
            cell == bytes[at]
<1>1. ReadNumber(bytes)[at] = raw
  BY DEF ReadNumber
<1>2. /\ cell \in Cells /\ cell.width = "u64" /\ raw = Got(at + 1, cell.value)
      /\ \A c \in Cells : Alike(cell, c) => Held(bytes, at, at + 1, <<c>>)
  BY <1>1, TakenIsHeld
<1>. HIDE DEF raw, cell
<1>3. cell.value \in Nat /\ cell = Cell("u64", cell.value)
  BY <1>2 DEF Cells, Cell
<1>4. Held(bytes, at, at + 1, <<cell>>)
  BY <1>2 DEF Alike
<1>5. NumberCells[cell.value] = <<cell>> /\ cell.value \in DOMAIN NumberCells
  BY <1>3 DEF NumberCells, PutNumber
<1>. QED  BY <1>1, <1>2, <1>4, <1>5 DEF Got

\* A flag that is set is written as one, whatever it was read from.
LEMMA FlagIsHeld ==
    ASSUME NEW bytes \in Seq(Cells), NEW at \in Positions(bytes), ~Failing(ReadFlag(bytes)[at])
    PROVE  /\ ReadFlag(bytes)[at].at = at + 1 /\ ReadFlag(bytes)[at].value \in BOOLEAN
           /\ Held(bytes, at, at + 1, <<Cell("u8", IF ReadFlag(bytes)[at].value THEN 1 ELSE 0)>>)
<1>. DEFINE raw == Take("u8", bytes, at)
            cell == bytes[at]
            one == Cell("u8", 1)
            zero == Cell("u8", 0)
            flag == ReadFlag(bytes)[at]
<1>1. flag = IF Failing(raw) THEN raw ELSE Got(raw.at, raw.value # 0)
  BY DEF ReadFlag
<1>2. ~Failing(raw)
  BY <1>1
<1>3. /\ cell \in Cells /\ cell.width = "u8" /\ raw = Got(at + 1, cell.value)
      /\ \A c \in Cells : Alike(cell, c) => Held(bytes, at, at + 1, <<c>>)
  BY <1>2, TakenIsHeld
<1>. HIDE DEF raw, cell, flag
<1>4. flag.at = at + 1 /\ flag.value = (cell.value # 0)
  BY <1>1, <1>2, <1>3 DEF Got
<1>5. cell.value \in Nat /\ cell = Cell("u8", cell.value) /\ one \in Cells /\ zero \in Cells
  BY <1>3 DEF Cells, Cell
<1>6. CASE cell.value = 0
  <2>1. Held(bytes, at, at + 1, <<zero>>)
    BY <1>3, <1>5, <1>6 DEF Alike
  <2>2. flag.value = FALSE
    BY <1>4, <1>6
  <2>. QED  BY <1>4, <2>1, <2>2, Zenon DEF flag
<1>7. CASE cell.value # 0
  <2>1. Held(bytes, at, at + 1, <<one>>)
    BY <1>3, <1>5, <1>7 DEF Alike
  <2>2. flag.value = TRUE
    BY <1>4, <1>7
  <2>. QED  BY <1>4, <2>1, <2>2, Zenon DEF flag
<1>. QED  BY <1>6, <1>7

LEMMA FlagFaithful ==
    ASSUME NEW bytes \in Seq(Cells)
    PROVE  Faithful(ReadFlag(bytes), bytes, FlagCells)
<1>1. ASSUME NEW at \in Positions(bytes), ~Failing(ReadFlag(bytes)[at])
      PROVE  /\ ReadFlag(bytes)[at].value \in DOMAIN FlagCells
             /\ Held(bytes, at, ReadFlag(bytes)[at].at, FlagCells[ReadFlag(bytes)[at].value])
  <2>. DEFINE flag == ReadFlag(bytes)[at]
  <2>1. /\ flag.at = at + 1 /\ flag.value \in BOOLEAN
        /\ Held(bytes, at, at + 1, <<Cell("u8", IF flag.value THEN 1 ELSE 0)>>)
    BY <1>1, FlagIsHeld
  <2>. HIDE DEF flag
  <2>2. FlagCells[flag.value] = PutFlag(flag.value) /\ flag.value \in DOMAIN FlagCells
    BY <2>1, Zenon DEF FlagCells
  <2>3. PutFlag(flag.value) = <<Cell("u8", IF flag.value THEN 1 ELSE 0)>>
    BY DEF PutFlag
  <2>4. Held(bytes, at, flag.at, FlagCells[flag.value])
    BY <2>1, <2>2, <2>3, Zenon
  <2>. QED  BY <2>2, <2>4 DEF flag
<1>. QED  BY <1>1 DEF Faithful

\* Every enumerator is declared once, and the limit is the last one's place.
DeclaresEach(names, limit) ==
    Declares(names, limit) /\ \A i, j \in DOMAIN names : names[i] = names[j] => i = j

LEMMA DeclaredOnce ==
    /\ DeclaresEach(SourceKind, 5) /\ DeclaresEach(Lifecycle, 3) /\ DeclaresEach(MemoryKind, 5)
    /\ DeclaresEach(MemoryStatus, 1) /\ DeclaresEach(ObligationStatus, 5)
    /\ DeclaresEach(TriggerKind, 5) /\ DeclaresEach(ConflictStatus, 1)
    /\ DeclaresEach(WorkflowLayer, 3) /\ DeclaresEach(OperationClasses, 5)
    /\ DeclaresEach(Handoff, 4) /\ DeclaresEach(RefusalReason, 11)
    /\ DeclaresEach(RecoveryAction, 5) /\ DeclaresEach(Role, 2)
    /\ DeclaresEach(CapabilityClass, 2) /\ DeclaresEach(ActionKind, 13)
    /\ DeclaresEach(ClaimClass, 4) /\ DeclaresEach(RequirementKind, 8)
    /\ DeclaresEach(RequirementBoundary, 1)
<1>1. DeclaresEach(SourceKind, 5)
  BY Declarations DEF DeclaresEach, SourceKind
<1>2. DeclaresEach(Lifecycle, 3)
  BY Declarations DEF DeclaresEach, Lifecycle
<1>3. DeclaresEach(MemoryKind, 5)
  BY Declarations DEF DeclaresEach, MemoryKind
<1>4. DeclaresEach(MemoryStatus, 1)
  BY Declarations DEF DeclaresEach, MemoryStatus
<1>5. DeclaresEach(ObligationStatus, 5)
  BY Declarations DEF DeclaresEach, ObligationStatus
<1>6. DeclaresEach(TriggerKind, 5)
  BY Declarations DEF DeclaresEach, TriggerKind
<1>7. DeclaresEach(ConflictStatus, 1)
  BY Declarations DEF DeclaresEach, ConflictStatus
<1>8. DeclaresEach(WorkflowLayer, 3)
  BY Declarations DEF DeclaresEach, WorkflowLayer
<1>9. DeclaresEach(OperationClasses, 5)
  BY Declarations DEF DeclaresEach, OperationClasses
<1>10. DeclaresEach(Handoff, 4)
  BY Declarations DEF DeclaresEach, Handoff
<1>11. DeclaresEach(RefusalReason, 11)
  BY Declarations DEF DeclaresEach, RefusalReason
<1>12. DeclaresEach(RecoveryAction, 5)
  BY Declarations DEF DeclaresEach, RecoveryAction
<1>13. DeclaresEach(Role, 2)
  BY Declarations DEF DeclaresEach, Role
<1>14. DeclaresEach(CapabilityClass, 2)
  BY Declarations DEF DeclaresEach, CapabilityClass
<1>15. DeclaresEach(ActionKind, 13)
  BY Declarations DEF DeclaresEach, ActionKind
<1>16. DeclaresEach(ClaimClass, 4)
  BY Declarations DEF DeclaresEach, ClaimClass
<1>17. DeclaresEach(RequirementKind, 8)
  BY Declarations DEF DeclaresEach, RequirementKind
<1>18. DeclaresEach(RequirementBoundary, 1)
  BY Declarations DEF DeclaresEach, RequirementBoundary
<1>. QED
  BY <1>1, <1>2, <1>3, <1>4, <1>5, <1>6, <1>7, <1>8, <1>9,
     <1>10, <1>11, <1>12, <1>13, <1>14, <1>15, <1>16, <1>17, <1>18

LEMMA EnumFaithful ==
    ASSUME NEW bytes \in Seq(Cells), NEW names, NEW limit \in Nat, DeclaresEach(names, limit)
    PROVE  Faithful(enumValue(bytes, names, limit), bytes, EnumCells(names))
<1>. /\ Len(names) = limit + 1 /\ DOMAIN names = 1..Len(names)
     /\ \A i, j \in 1..Len(names) : names[i] = names[j] => i = j
  BY DEF DeclaresEach, Declares
<1>. SUFFICES ASSUME NEW at \in Positions(bytes), ~Failing(enumValue(bytes, names, limit)[at])
              PROVE  /\ enumValue(bytes, names, limit)[at].value \in DOMAIN EnumCells(names)
                     /\ Held(bytes, at, enumValue(bytes, names, limit)[at].at,
                             EnumCells(names)[enumValue(bytes, names, limit)[at].value])
  BY DEF Faithful
<1>. DEFINE raw == Take("u8", bytes, at)
            cell == bytes[at]
            read == enumValue(bytes, names, limit)[at]
            place == cell.value + 1
            value == names[place]
<1>1. read = IF Failing(raw) THEN raw
             ELSE IF raw.value > limit THEN Refused("BadEnum")
             ELSE Got(raw.at, names[raw.value + 1])
  BY DEF enumValue
<1>2. ~Failing(raw) /\ ~(raw.value > limit) /\ read = Got(raw.at, names[raw.value + 1])
  <2>. HIDE DEF raw
  <2>. QED  BY <1>1 DEF Failing, Refused
<1>3. /\ cell \in Cells /\ cell.width = "u8" /\ raw = Got(at + 1, cell.value)
      /\ \A c \in Cells : Alike(cell, c) => Held(bytes, at, at + 1, <<c>>)
  BY <1>2, TakenIsHeld
<1>. HIDE DEF raw, cell, read
<1>4. cell.value \in Nat /\ cell = Cell("u8", cell.value)
  BY <1>3 DEF Cells, Cell
<1>5. read = Got(at + 1, value) /\ place \in 1..Len(names)
  BY <1>2, <1>3, <1>4 DEF Got
<1>6. value \in ToSet(names) /\ PutEnum(names, value) = <<Cell("u8", place - 1)>>
  <2>. DEFINE places == {i \in 1..Len(names) : names[i] = value}
  <2>1. places = {place}
    BY <1>5
  <2>2. SelectInSeq(names, LAMBDA n : n = value) = place
    <3>1. places # {} /\ places \subseteq Nat
      BY <1>5
    <3>2. Min(places) \in places
      BY <3>1, MinFacts
    <3>3. SelectInSeq(names, LAMBDA n : n = value) = Min(places)
      BY <3>1 DEF SelectInSeq
    <3>. QED  BY <2>1, <3>2, <3>3
  <2>. HIDE DEF place, value
  <2>. QED  BY <1>5, <2>2 DEF PutEnum, ToSet, value
<1>7. place - 1 = cell.value
  BY <1>4
<1>8. EnumCells(names)[value] = <<cell>> /\ value \in DOMAIN EnumCells(names)
  BY <1>4, <1>6, <1>7 DEF EnumCells
<1>9. Held(bytes, at, at + 1, <<cell>>)
  BY <1>3 DEF Alike
<1>. HIDE DEF value
<1>. QED  BY <1>5, <1>8, <1>9 DEF Got, read

LEMMA DeclaredFaithful ==
    ASSUME NEW bytes, NEW value
    PROVE  Faithful(Declared(bytes, value), bytes, DeclaredCells(value))
<1>1. ASSUME NEW at \in Positions(bytes)
      PROVE  /\ Declared(bytes, value)[at].value \in DOMAIN DeclaredCells(value)
             /\ Held(bytes, at, Declared(bytes, value)[at].at,
                     DeclaredCells(value)[Declared(bytes, value)[at].value])
  <2>1. Declared(bytes, value)[at].value = value /\ Declared(bytes, value)[at].at = at
    BY DEF Declared, Got
  <2>2. DeclaredCells(value)[value] = <<>> /\ value \in DOMAIN DeclaredCells(value)
    BY DEF DeclaredCells, NotWritten
  <2>. QED  BY <2>1, <2>2, HeldNothing
<1>. QED  BY <1>1 DEF Faithful

LEMMA SinceFaithful ==
    ASSUME NEW bytes, NEW item, NEW cells, Faithful(item, bytes, cells),
           NEW first, NEW version, NEW declared
    PROVE  Faithful(ReadSince(first, version, bytes, item, declared), bytes,
                    SinceCells(first, version, declared, cells))
<1>1. CASE version >= first
  <2>1. ReadSince(first, version, bytes, item, declared) = item
    BY <1>1 DEF ReadSince
  <2>2. /\ DOMAIN SinceCells(first, version, declared, cells) = DOMAIN cells
        /\ \A v \in DOMAIN cells : SinceCells(first, version, declared, cells)[v] = cells[v]
    BY <1>1 DEF SinceCells, Since
  <2>. QED  BY <2>1, <2>2 DEF Faithful
<1>2. CASE ~(version >= first)
  <2>1. ReadSince(first, version, bytes, item, declared) = Declared(bytes, declared)
    BY <1>2 DEF ReadSince
  <2>2. SinceCells(first, version, declared, cells) = DeclaredCells(declared)
    BY <1>2 DEF SinceCells, Since, DeclaredCells, NotWritten
  <2>. QED  BY <2>1, <2>2, DeclaredFaithful
<1>. QED  BY <1>1, <1>2

\* list holds what is written of lists of the values that cells holds.
Lists(list, cells) ==
    /\ DOMAIN list = Short(DOMAIN cells)
    /\ \A vs \in Short(DOMAIN cells) : list[vs] = PutList([i \in DOMAIN vs |-> cells[vs[i]]])

LEMMA ListFaithful ==
    ASSUME NEW bytes \in Seq(Cells), NEW item, NEW cells, Faithful(item, bytes, cells),
           NEW list, Lists(list, cells)
    PROVE  Faithful(ReadList(bytes, item), bytes, list)
<1>. SUFFICES ASSUME NEW at \in Positions(bytes), ~Failing(ReadList(bytes, item)[at])
              PROVE  /\ ReadList(bytes, item)[at].value \in DOMAIN list
                     /\ Held(bytes, at, ReadList(bytes, item)[at].at,
                             list[ReadList(bytes, item)[at].value])
  BY DEF Faithful
<1>. DEFINE raw == Take("u32", bytes, at)
            cell == bytes[at]
            len == cell.value
            readers == [i \in 1..len |-> item]
            each == [i \in 1..len |-> cells]
            all == ReadAll(readers, at + 1)
            vs == all.value
            parts == [i \in 1..len |-> cells[vs[i]]]
<1>1. ReadList(bytes, item)[at]
        = IF Failing(cappedCount(bytes, at)) THEN cappedCount(bytes, at)
          ELSE ReadAll([i \in 1..cappedCount(bytes, at).value |-> item], cappedCount(bytes, at).at)
  BY DEF ReadList
<1>2. ~Failing(cappedCount(bytes, at))
  BY <1>1
<1>3. ~Failing(raw) /\ ~(raw.value > MaxRecords) /\ cappedCount(bytes, at) = raw
  <2>. HIDE DEF raw
  <2>1. cappedCount(bytes, at) = IF ~Failing(raw) /\ raw.value > MaxRecords
                                 THEN Refused("ResourceAbuse") ELSE raw
    BY DEF cappedCount, raw
  <2>. QED  BY <1>2, <2>1 DEF Failing, Refused
<1>4. /\ cell \in Cells /\ cell.width = "u32" /\ raw = Got(at + 1, cell.value)
      /\ \A c \in Cells : Alike(cell, c) => Held(bytes, at, at + 1, <<c>>)
  BY <1>3, TakenIsHeld
<1>5. len \in Nat /\ cell = Cell("u32", len) /\ MaxRecords \in Nat
  BY <1>4, MaxRecordsAssumption DEF Cells, Cell
<1>6. Held(bytes, at, at + 1, <<cell>>)
  BY <1>4 DEF Alike
<1>7. at + 1 \in Positions(bytes)
  BY <1>6 DEF Held
<1>8. ReadList(bytes, item)[at] = all /\ ~Failing(all) /\ len <= MaxRecords
  <2>. HIDE DEF raw, cell
  <2>1. cappedCount(bytes, at).value = len /\ cappedCount(bytes, at).at = at + 1
    BY <1>3, <1>4 DEF Got
  <2>2. ReadList(bytes, item)[at] = all
    BY <1>1, <1>2, <2>1
  <2>3. len <= MaxRecords
    BY <1>3, <1>4, <1>5 DEF Got
  <2>. QED  BY <2>2, <2>3
<1>9. EachFaithful(readers, bytes, each, len)
  BY <1>5 DEF EachFaithful
<1>. HIDE DEF raw, cell, len, readers, all
<1>10. vs = [i \in 1..len |-> vs[i]] /\ \A i \in 1..len : vs[i] \in DOMAIN cells
  <2>1. vs = [i \in 1..len |-> vs[i]] /\ HeldInTurn(bytes, at + 1, all, each, len)
    <3>. HIDE DEF each
    <3>. QED  BY <1>7, <1>8, <1>9, AllStops, Zenon DEF all
  <2>. QED  BY <2>1 DEF HeldInTurn
<1>11. vs \in Short(DOMAIN cells) /\ DOMAIN vs = 1..len
  <2>. HIDE DEF vs
  <2>. QED  BY <1>5, <1>8, <1>10 DEF Short
<1>12. /\ parts \in Seq(Seq(Cells)) /\ Len(parts) = len
       /\ Held(bytes, at + 1, all.at, FlattenSeq(parts))
  <2>1. parts = Parts(all, each, len)
    BY DEF Parts
  <2>. HIDE DEF parts, each
  <2>2. /\ Parts(all, each, len) \in Seq(Seq(Cells)) /\ Len(Parts(all, each, len)) = len
        /\ Held(bytes, at + 1, all.at, FlattenSeq(Parts(all, each, len)))
    BY <1>7, <1>8, <1>9, AllHeld, Zenon DEF all
  <2>. QED  BY <2>1, <2>2
<1>13. list[vs] = <<cell>> \o FlattenSeq(parts) /\ vs \in DOMAIN list
  <2>1. list[vs] = PutList([i \in DOMAIN vs |-> cells[vs[i]]]) /\ vs \in DOMAIN list
    BY <1>11 DEF Lists
  <2>2. [i \in DOMAIN vs |-> cells[vs[i]]] = parts
    BY <1>11
  <2>. HIDE DEF parts, vs
  <2>. QED  BY <1>5, <1>12, <2>1, <2>2 DEF PutList
<1>14. Held(bytes, at, all.at, list[vs])
  BY <1>6, <1>12, <1>13, HeldTogether
<1>. QED  BY <1>8, <1>13, <1>14

\* optional holds what is written of at most one of the values that cells holds.
Options(optional, cells) ==
    /\ DOMAIN optional = {vs \in Seq(DOMAIN cells) : Len(vs) <= 1}
    /\ \A vs \in DOMAIN optional : optional[vs] = PutOptional([i \in DOMAIN vs |-> cells[vs[i]]])

LEMMA OptionalFaithful ==
    ASSUME NEW bytes \in Seq(Cells), NEW item, NEW cells, Faithful(item, bytes, cells),
           NEW optional, Options(optional, cells)
    PROVE  Faithful(ReadOptional(bytes, item), bytes, optional)
<1>. SUFFICES ASSUME NEW at \in Positions(bytes), ~Failing(ReadOptional(bytes, item)[at])
              PROVE  /\ ReadOptional(bytes, item)[at].value \in DOMAIN optional
                     /\ Held(bytes, at, ReadOptional(bytes, item)[at].at,
                             optional[ReadOptional(bytes, item)[at].value])
  BY DEF Faithful
<1>. DEFINE flag == ReadFlag(bytes)[at]
            len == IF flag.value THEN 1 ELSE 0
            cell == Cell("u8", len)
            readers == IF flag.value THEN <<item>> ELSE <<>>
            each == [i \in 1..len |-> cells]
            all == ReadAll(readers, at + 1)
            vs == all.value
            parts == [i \in 1..len |-> cells[vs[i]]]
<1>1. ReadOptional(bytes, item)[at] = IF Failing(flag) THEN flag ELSE ReadAll(readers, flag.at)
  BY DEF ReadOptional
<1>2. ~Failing(flag)
  BY <1>1
<1>3. flag.at = at + 1 /\ flag.value \in BOOLEAN /\ Held(bytes, at, at + 1, <<cell>>)
  BY <1>2, FlagIsHeld
<1>4. at + 1 \in Positions(bytes)
  BY <1>3 DEF Held
<1>. HIDE DEF flag
<1>5. ReadOptional(bytes, item)[at] = all /\ ~Failing(all)
  <2>. HIDE DEF readers
  <2>. QED  BY <1>1, <1>2, <1>3
<1>6. len \in {0, 1} /\ Len(readers) = len /\ \A i \in 1..len : readers[i] = item
  <2>1. CASE flag.value
    BY <2>1
  <2>2. CASE ~flag.value
    BY <2>2
  <2>. QED  BY <2>1, <2>2
<1>7. EachFaithful(readers, bytes, each, len)
  <2>. HIDE DEF len, readers
  <2>. QED  BY <1>6 DEF EachFaithful
<1>. HIDE DEF len, readers, all
<1>8. vs = [i \in 1..len |-> vs[i]] /\ \A i \in 1..len : vs[i] \in DOMAIN cells
  <2>1. vs = [i \in 1..len |-> vs[i]] /\ HeldInTurn(bytes, at + 1, all, each, len)
    <3>. HIDE DEF each
    <3>. QED  BY <1>4, <1>5, <1>7, AllStops, Zenon DEF all
  <2>. QED  BY <2>1 DEF HeldInTurn
<1>9. vs \in Seq(DOMAIN cells) /\ Len(vs) <= 1 /\ DOMAIN vs = 1..len
  <2>. HIDE DEF vs
  <2>. QED  BY <1>6, <1>8
<1>10. /\ parts \in Seq(Seq(Cells)) /\ Len(parts) = len
       /\ Held(bytes, at + 1, all.at, FlattenSeq(parts))
  <2>1. parts = Parts(all, each, len)
    BY DEF Parts
  <2>. HIDE DEF parts, each
  <2>2. /\ Parts(all, each, len) \in Seq(Seq(Cells)) /\ Len(Parts(all, each, len)) = len
        /\ Held(bytes, at + 1, all.at, FlattenSeq(Parts(all, each, len)))
    BY <1>4, <1>5, <1>7, AllHeld, Zenon DEF all
  <2>. QED  BY <2>1, <2>2
<1>11. optional[vs] = <<cell>> \o FlattenSeq(parts) /\ vs \in DOMAIN optional
  <2>1. optional[vs] = PutOptional([i \in DOMAIN vs |-> cells[vs[i]]]) /\ vs \in DOMAIN optional
    BY <1>9 DEF Options
  <2>2. [i \in DOMAIN vs |-> cells[vs[i]]] = parts
    BY <1>9
  <2>. HIDE DEF parts, vs
  <2>. QED  BY <1>10, <2>1, <2>2 DEF PutOptional
<1>12. Held(bytes, at, all.at, optional[vs])
  BY <1>3, <1>10, <1>11, HeldTogether
<1>. QED  BY <1>5, <1>11, <1>12

\* cells holds what is written of records whose fields hold what each holds.
Builds(cells, fields, each, len) ==
    /\ Len(fields) = len /\ DOMAIN fields = 1..len
    /\ \A vs : vs = [i \in 1..len |-> vs[i]] /\ (\A i \in 1..len : vs[i] \in DOMAIN each[i]) =>
          \E record \in DOMAIN cells :
             /\ Named(fields, len, record)
             /\ \A i \in 1..len : record[fields[i][1]] = vs[i]
             /\ cells[record] = FlattenSeq([i \in 1..len |-> each[i][vs[i]]])

LEMMA RecordFaithful ==
    ASSUME NEW bytes \in Seq(Cells), NEW len \in Nat, NEW fields, NEW each, NEW cells,
           Builds(cells, fields, each, len),
           \A i \in 1..len : Faithful(fields[i][2], bytes, each[i])
    PROVE  Faithful(ReadRecord(bytes, fields), bytes, cells)
<1>. SUFFICES ASSUME NEW at \in Positions(bytes), ~Failing(ReadRecord(bytes, fields)[at])
              PROVE  /\ ReadRecord(bytes, fields)[at].value \in DOMAIN cells
                     /\ Held(bytes, at, ReadRecord(bytes, fields)[at].at,
                             cells[ReadRecord(bytes, fields)[at].value])
  BY DEF Faithful
<1>. DEFINE readers == [i \in DOMAIN fields |-> fields[i][2]]
            names == {fields[i][1] : i \in DOMAIN fields}
            place(name) == CHOOSE i \in DOMAIN fields : fields[i][1] = name
            all == ReadAll(readers, at)
            vs == all.value
            parts == [i \in 1..len |-> each[i][vs[i]]]
<1>1. ReadRecord(bytes, fields)[at]
        = IF Failing(all) THEN all ELSE Got(all.at, [name \in names |-> vs[place(name)]])
  BY DEF ReadRecord
<1>2. ~Failing(all)
  BY <1>1
<1>3. Len(fields) = len /\ DOMAIN fields = 1..len
  BY DEF Builds
<1>4. EachFaithful(readers, bytes, each, len)
  BY <1>3 DEF EachFaithful
<1>. HIDE DEF readers, all
<1>5. vs = [i \in 1..len |-> vs[i]] /\ \A i \in 1..len : vs[i] \in DOMAIN each[i]
  <2>1. vs = [i \in 1..len |-> vs[i]] /\ HeldInTurn(bytes, at, all, each, len)
    BY <1>2, <1>4, AllStops, Zenon DEF all
  <2>. QED  BY <2>1 DEF HeldInTurn
<1>6. parts \in Seq(Seq(Cells)) /\ Held(bytes, at, all.at, FlattenSeq(parts))
  <2>1. parts = Parts(all, each, len)
    BY DEF Parts
  <2>. HIDE DEF parts
  <2>. QED  BY <1>2, <1>4, <2>1, AllHeld, Zenon DEF all
<1>. HIDE DEF vs
<1>7. PICK record \in DOMAIN cells :
         /\ Named(fields, len, record)
         /\ \A i \in 1..len : record[fields[i][1]] = vs[i]
         /\ cells[record] = FlattenSeq(parts)
  <2>. QED  BY <1>5, Zenon DEF Builds
<1>8. [name \in names |-> vs[place(name)]] = record
  <2>1. \A name : name \in names <=> \E i \in 1..len : fields[i][1] = name
    BY <1>3
  <2>2. ASSUME NEW name \in DOMAIN record PROVE vs[place(name)] = record[name]
    <3>1. \E i \in DOMAIN fields : fields[i][1] = name
      BY <1>3, <1>7, <2>2 DEF Named
    <3>2. place(name) \in 1..len /\ fields[place(name)][1] = name
      BY <1>3, <3>1
    <3>. HIDE DEF place
    <3>. QED  BY <1>7, <3>2
  <2>. HIDE DEF place, names
  <2>3. names = DOMAIN record
    BY <1>7, <2>1 DEF Named
  <2>. QED  BY <1>7, <2>2, <2>3 DEF Named
<1>9. ReadRecord(bytes, fields)[at] = Got(all.at, record)
  BY <1>1, <1>2, <1>8
<1>. QED  BY <1>6, <1>7, <1>9 DEF Got

\* What is written of a list of values.
ListCells(cells) == [vs \in Short(DOMAIN cells) |-> PutList([i \in DOMAIN vs |-> cells[vs[i]]])]

LEMMA ListCellsFaithful ==
    ASSUME NEW bytes \in Seq(Cells), NEW item, NEW cells, Faithful(item, bytes, cells)
    PROVE  Faithful(ReadList(bytes, item), bytes, ListCells(cells))
<1>1. Lists(ListCells(cells), cells)
  BY DEF Lists, ListCells
<1>. QED  BY <1>1, ListFaithful

\* A value that cells holds, and what it holds for it.
Holding(cells, v, S, part) == v \in S /\ cells[v] = part

LEMMA ScalarsHold ==
    /\ \A v \in DOMAIN TextCells : Holding(TextCells, v, Scalars, PutText(v))
    /\ \A v \in DOMAIN NumberCells : Holding(NumberCells, v, Nat, PutNumber(v))
    /\ \A v \in DOMAIN FlagCells : Holding(FlagCells, v, BOOLEAN, PutFlag(v))
<1>1. \A v \in DOMAIN TextCells : Holding(TextCells, v, Scalars, PutText(v))
  BY DEF TextCells, Holding
<1>2. \A v \in DOMAIN NumberCells : Holding(NumberCells, v, Nat, PutNumber(v))
  BY DEF NumberCells, Holding
<1>3. \A v \in DOMAIN FlagCells : Holding(FlagCells, v, BOOLEAN, PutFlag(v))
  BY Zenon DEF FlagCells, Holding
<1>. QED  BY <1>1, <1>2, <1>3

LEMMA EnumHolds ==
    ASSUME NEW names, NEW v \in DOMAIN EnumCells(names)
    PROVE  Holding(EnumCells(names), v, ToSet(names), PutEnum(names, v))
BY DEF EnumCells, Holding

LEMMA DeclaredHolds ==
    ASSUME NEW value, NEW v \in DOMAIN DeclaredCells(value)
    PROVE  Holding(DeclaredCells(value), v, {value}, NotWritten)
BY DEF DeclaredCells, Holding

LEMMA ListHolds ==
    ASSUME NEW cells, NEW v \in DOMAIN ListCells(cells)
    PROVE  Holding(ListCells(cells), v, Short(DOMAIN cells),
                   PutList([i \in DOMAIN v |-> cells[v[i]]]))
BY DEF ListCells, Holding

LEMMA ScalarListsHold ==
    /\ \A v \in DOMAIN ListCells(TextCells) :
          Holding(ListCells(TextCells), v, Short(Scalars), PutTexts(v))
    /\ \A v \in DOMAIN ListCells(NumberCells) :
          Holding(ListCells(NumberCells), v, Short(Nat), PutNumbers(v))
    /\ \A v \in DOMAIN ListCells(EnumCells(OperationClasses)) :
          Holding(ListCells(EnumCells(OperationClasses)), v, Short(ToSet(OperationClasses)),
                  PutEnums(OperationClasses, v))
<1>1. ASSUME NEW v \in DOMAIN ListCells(TextCells)
      PROVE  Holding(ListCells(TextCells), v, Short(Scalars), PutTexts(v))
  <2>1. /\ v \in Short(Scalars)
        /\ ListCells(TextCells)[v] = PutList([i \in DOMAIN v |-> TextCells[v[i]]])
    <3>1. DOMAIN TextCells = Scalars
      BY DEF TextCells
    <3>. QED  BY <3>1, ListHolds DEF Holding
  <2>2. [i \in DOMAIN v |-> TextCells[v[i]]] = [i \in DOMAIN v |-> PutText(v[i])]
    BY <2>1 DEF Short, TextCells
  <2>. QED  BY <2>1, <2>2 DEF Holding, PutTexts
<1>2. ASSUME NEW v \in DOMAIN ListCells(NumberCells)
      PROVE  Holding(ListCells(NumberCells), v, Short(Nat), PutNumbers(v))
  <2>1. /\ v \in Short(Nat)
        /\ ListCells(NumberCells)[v] = PutList([i \in DOMAIN v |-> NumberCells[v[i]]])
    <3>1. DOMAIN NumberCells = Nat
      BY DEF NumberCells
    <3>. QED  BY <3>1, ListHolds DEF Holding
  <2>2. [i \in DOMAIN v |-> NumberCells[v[i]]] = [i \in DOMAIN v |-> PutNumber(v[i])]
    BY <2>1 DEF Short, NumberCells
  <2>. QED  BY <2>1, <2>2 DEF Holding, PutNumbers
<1>3. ASSUME NEW v \in DOMAIN ListCells(EnumCells(OperationClasses))
      PROVE  Holding(ListCells(EnumCells(OperationClasses)), v, Short(ToSet(OperationClasses)),
                     PutEnums(OperationClasses, v))
  <2>. DEFINE cells == EnumCells(OperationClasses)
  <2>1. /\ v \in Short(ToSet(OperationClasses))
        /\ ListCells(cells)[v] = PutList([i \in DOMAIN v |-> cells[v[i]]])
    <3>1. DOMAIN cells = ToSet(OperationClasses)
      BY DEF EnumCells
    <3>. HIDE DEF cells
    <3>. QED  BY <3>1, ListHolds DEF Holding, cells
  <2>2. [i \in DOMAIN v |-> cells[v[i]]] = [i \in DOMAIN v |-> PutEnum(OperationClasses, v[i])]
    BY <2>1 DEF Short, EnumCells
  <2>. QED  BY <2>1, <2>2 DEF Holding, PutEnums
<1>. QED  BY <1>1, <1>2, <1>3

SourceCells == [v \in StoredSource |-> PutSource(v)]

LEMMA SourceFaithful ==
    ASSUME NEW bytes \in Seq(Cells)
    PROVE  Faithful(ReadSource(bytes), bytes, SourceCells)
<1>. DEFINE fields == << <<"kind", enumValue(bytes, SourceKind, 5)>>,
                         <<"reference", ReadText(bytes)>>, <<"note", ReadText(bytes)>> >>
            each == <<EnumCells(SourceKind), TextCells, TextCells>>
<1>1. \A i \in 1..3 : Faithful(fields[i][2], bytes, each[i])
  BY DeclaredOnce, EnumFaithful, TextFaithful
<1>2. ASSUME NEW vs, vs = [i \in 1..3 |-> vs[i]], \A i \in 1..3 : vs[i] \in DOMAIN each[i]
      PROVE  \E record \in DOMAIN SourceCells :
                /\ Named(fields, 3, record) /\ \A i \in 1..3 : record[fields[i][1]] = vs[i]
                /\ SourceCells[record] = FlattenSeq([i \in 1..3 |-> each[i][vs[i]]])
  <2>. DEFINE record == [kind |-> vs[1], reference |-> vs[2], note |-> vs[3]]
              parts == <<PutEnum(SourceKind, vs[1]), PutText(vs[2]), PutText(vs[3])>>
  <2>1. Holding(EnumCells(SourceKind), vs[1], ToSet(SourceKind), PutEnum(SourceKind, vs[1]))
    BY <1>2, EnumHolds
  <2>2. Holding(TextCells, vs[2], Scalars, PutText(vs[2]))
    BY <1>2, ScalarsHold
  <2>3. Holding(TextCells, vs[3], Scalars, PutText(vs[3]))
    BY <1>2, ScalarsHold
  <2>4. record \in StoredSource
    BY <2>1, <2>2, <2>3 DEF Holding, StoredSource
  <2>5. Named(fields, 3, record)
    BY DEF Named
  <2>6. \A i \in 1..3 : record[fields[i][1]] = vs[i]
    OBVIOUS
  <2>7. [i \in 1..3 |-> each[i][vs[i]]] = parts
    BY <2>1, <2>2, <2>3 DEF Holding
  <2>8. PutSource(record) = FlattenSeq(parts)
    BY DEF PutSource
  <2>. HIDE DEF record, parts, fields, each
  <2>. QED  BY <2>4, <2>5, <2>6, <2>7, <2>8 DEF SourceCells
<1>3. Len(fields) = 3 /\ DOMAIN fields = 1..3
  OBVIOUS
<1>. HIDE DEF fields, each
<1>4. Builds(SourceCells, fields, each, 3)
  BY <1>2, <1>3 DEF Builds
<1>5. Faithful(ReadRecord(bytes, fields), bytes, SourceCells)
  BY <1>1, <1>4, RecordFaithful
<1>. QED  BY <1>5 DEF ReadSource, fields

LEMMA ScalarListsFaithful ==
    ASSUME NEW bytes \in Seq(Cells)
    PROVE  /\ Faithful(ReadTexts(bytes), bytes, ListCells(TextCells))
           /\ Faithful(ReadNumbers(bytes), bytes, ListCells(NumberCells))
           /\ Faithful(ReadList(bytes, enumValue(bytes, OperationClasses, 5)), bytes,
                       ListCells(EnumCells(OperationClasses)))
<1>1. Faithful(ReadTexts(bytes), bytes, ListCells(TextCells))
  BY TextFaithful, ListCellsFaithful DEF ReadTexts
<1>2. Faithful(ReadNumbers(bytes), bytes, ListCells(NumberCells))
  BY NumberFaithful, ListCellsFaithful DEF ReadNumbers
<1>3. Faithful(enumValue(bytes, OperationClasses, 5), bytes, EnumCells(OperationClasses))
  BY DeclaredOnce, EnumFaithful
<1>. QED  BY <1>1, <1>2, <1>3, ListCellsFaithful

LEMMA ProvenanceFaithful ==
    ASSUME NEW bytes \in Seq(Cells)
    PROVE  Faithful(ReadProvenance(bytes), bytes, ListCells(SourceCells))
BY SourceFaithful, ListCellsFaithful DEF ReadProvenance

LEMMA ProvenanceHolds ==
    ASSUME NEW v \in DOMAIN ListCells(SourceCells)
    PROVE  Holding(ListCells(SourceCells), v, Short(StoredSource), PutProvenance(v))
<1>1. /\ v \in Short(StoredSource)
      /\ ListCells(SourceCells)[v] = PutList([i \in DOMAIN v |-> SourceCells[v[i]]])
  <2>1. DOMAIN SourceCells = StoredSource
    BY DEF SourceCells
  <2>. QED  BY <2>1, ListHolds DEF Holding
<1>2. [i \in DOMAIN v |-> SourceCells[v[i]]] = [i \in DOMAIN v |-> PutSource(v[i])]
  BY <1>1 DEF Short, SourceCells
<1>. QED  BY <1>1, <1>2 DEF Holding, PutProvenance

HandoffCells == [v \in StoredHandoff |-> PutHandoff(v)]

LEMMA HandoffFaithful ==
    ASSUME NEW bytes \in Seq(Cells)
    PROVE  Faithful(ReadHandoff(bytes), bytes, HandoffCells)
<1>. DEFINE fields == << <<"opClass", enumValue(bytes, OperationClasses, 5)>>,
                         <<"required", enumValue(bytes, Handoff, 4)>>,
                         <<"rootPrincipalOnly", ReadFlag(bytes)>> >>
            each == <<EnumCells(OperationClasses), EnumCells(Handoff), FlagCells>>
<1>1. \A i \in 1..3 : Faithful(fields[i][2], bytes, each[i])
  BY DeclaredOnce, EnumFaithful, FlagFaithful
<1>2. ASSUME NEW vs, vs = [i \in 1..3 |-> vs[i]], \A i \in 1..3 : vs[i] \in DOMAIN each[i]
      PROVE  \E record \in DOMAIN HandoffCells :
                /\ Named(fields, 3, record) /\ \A i \in 1..3 : record[fields[i][1]] = vs[i]
                /\ HandoffCells[record] = FlattenSeq([i \in 1..3 |-> each[i][vs[i]]])
  <2>. DEFINE record == [opClass |-> vs[1], required |-> vs[2], rootPrincipalOnly |-> vs[3]]
              parts == <<PutEnum(OperationClasses, vs[1]), PutEnum(Handoff, vs[2]), PutFlag(vs[3])>>
  <2>1. Holding(EnumCells(OperationClasses), vs[1], ToSet(OperationClasses),
              PutEnum(OperationClasses, vs[1]))
    BY <1>2, EnumHolds
  <2>2. Holding(EnumCells(Handoff), vs[2], ToSet(Handoff), PutEnum(Handoff, vs[2]))
    BY <1>2, EnumHolds
  <2>3. Holding(FlagCells, vs[3], BOOLEAN, PutFlag(vs[3]))
    BY <1>2, ScalarsHold
  <2>4. record \in StoredHandoff
    BY <2>1, <2>2, <2>3 DEF Holding, StoredHandoff
  <2>5. Named(fields, 3, record)
    BY DEF Named
  <2>6. \A i \in 1..3 : record[fields[i][1]] = vs[i]
    OBVIOUS
  <2>7. [i \in 1..3 |-> each[i][vs[i]]] = parts
    BY <2>1, <2>2, <2>3 DEF Holding
  <2>8. PutHandoff(record) = FlattenSeq(parts)
    BY DEF PutHandoff
  <2>. HIDE DEF record, parts, fields, each
  <2>. QED  BY <2>4, <2>5, <2>6, <2>7, <2>8 DEF HandoffCells
<1>3. Len(fields) = 3 /\ DOMAIN fields = 1..3
  OBVIOUS
<1>. HIDE DEF fields, each
<1>4. Builds(HandoffCells, fields, each, 3)
  BY <1>2, <1>3 DEF Builds
<1>5. Faithful(ReadRecord(bytes, fields), bytes, HandoffCells)
  BY <1>1, <1>4, RecordFaithful
<1>. QED  BY <1>5 DEF ReadHandoff, fields

RecoveryCells == [v \in StoredRecovery |-> PutRecovery(v)]

LEMMA RecoveryFaithful ==
    ASSUME NEW bytes \in Seq(Cells)
    PROVE  Faithful(ReadRecovery(bytes), bytes, RecoveryCells)
<1>. DEFINE fields == << <<"reason", enumValue(bytes, RefusalReason, 11)>>,
                         <<"action", enumValue(bytes, RecoveryAction, 5)>> >>
            each == <<EnumCells(RefusalReason), EnumCells(RecoveryAction)>>
<1>1. \A i \in 1..2 : Faithful(fields[i][2], bytes, each[i])
  BY DeclaredOnce, EnumFaithful
<1>2. ASSUME NEW vs, vs = [i \in 1..2 |-> vs[i]], \A i \in 1..2 : vs[i] \in DOMAIN each[i]
      PROVE  \E record \in DOMAIN RecoveryCells :
                /\ Named(fields, 2, record) /\ \A i \in 1..2 : record[fields[i][1]] = vs[i]
                /\ RecoveryCells[record] = FlattenSeq([i \in 1..2 |-> each[i][vs[i]]])
  <2>. DEFINE record == [reason |-> vs[1], action |-> vs[2]]
              parts == <<PutEnum(RefusalReason, vs[1]), PutEnum(RecoveryAction, vs[2])>>
  <2>1. Holding(EnumCells(RefusalReason), vs[1], ToSet(RefusalReason),
              PutEnum(RefusalReason, vs[1]))
    BY <1>2, EnumHolds
  <2>2. Holding(EnumCells(RecoveryAction), vs[2], ToSet(RecoveryAction),
              PutEnum(RecoveryAction, vs[2]))
    BY <1>2, EnumHolds
  <2>3. record \in StoredRecovery
    BY <2>1, <2>2 DEF Holding, StoredRecovery
  <2>4. Named(fields, 2, record)
    BY DEF Named
  <2>5. \A i \in 1..2 : record[fields[i][1]] = vs[i]
    OBVIOUS
  <2>6. [i \in 1..2 |-> each[i][vs[i]]] = parts
    BY <2>1, <2>2 DEF Holding
  <2>7. PutRecovery(record) = FlattenSeq(parts)
    BY DEF PutRecovery
  <2>. HIDE DEF record, parts, fields, each
  <2>. QED  BY <2>3, <2>4, <2>5, <2>6, <2>7 DEF RecoveryCells
<1>3. Len(fields) = 2 /\ DOMAIN fields = 1..2
  OBVIOUS
<1>. HIDE DEF fields, each
<1>4. Builds(RecoveryCells, fields, each, 2)
  BY <1>2, <1>3 DEF Builds
<1>5. Faithful(ReadRecord(bytes, fields), bytes, RecoveryCells)
  BY <1>1, <1>4, RecordFaithful
<1>. QED  BY <1>5 DEF ReadRecovery, fields

DecisionCells == [v \in StoredDecision |-> PutDecision(v)]

LEMMA DecisionFaithful ==
    ASSUME NEW bytes \in Seq(Cells)
    PROVE  Faithful(ReadDecision(bytes), bytes, DecisionCells)
<1>. DEFINE fields == << <<"id", ReadNumber(bytes)>>, <<"status", enumValue(bytes, Lifecycle, 3)>>,
                         <<"title", ReadText(bytes)>>, <<"content", ReadText(bytes)>>,
                         <<"supersedes", ReadNumbers(bytes)>>,
                         <<"supersededBy", ReadNumbers(bytes)>>,
                         <<"provenance", ReadProvenance(bytes)>> >>
            each == <<NumberCells, EnumCells(Lifecycle), TextCells, TextCells,
                      ListCells(NumberCells), ListCells(NumberCells), ListCells(SourceCells)>>
<1>1. \A i \in 1..7 : Faithful(fields[i][2], bytes, each[i])
  BY NumberFaithful, DeclaredOnce, EnumFaithful, TextFaithful, ScalarListsFaithful,
     ProvenanceFaithful
<1>2. ASSUME NEW vs, vs = [i \in 1..7 |-> vs[i]], \A i \in 1..7 : vs[i] \in DOMAIN each[i]
      PROVE  \E record \in DOMAIN DecisionCells :
                /\ Named(fields, 7, record) /\ \A i \in 1..7 : record[fields[i][1]] = vs[i]
                /\ DecisionCells[record] = FlattenSeq([i \in 1..7 |-> each[i][vs[i]]])
  <2>. DEFINE record == [id |-> vs[1], status |-> vs[2], title |-> vs[3], content |-> vs[4],
                        supersedes |-> vs[5], supersededBy |-> vs[6], provenance |-> vs[7]]
              parts == <<PutNumber(vs[1]), PutEnum(Lifecycle, vs[2]), PutText(vs[3]),
                        PutText(vs[4]), PutNumbers(vs[5]), PutNumbers(vs[6]), PutProvenance(vs[7])>>
  <2>1. Holding(NumberCells, vs[1], Nat, PutNumber(vs[1]))
    BY <1>2, ScalarsHold
  <2>2. Holding(EnumCells(Lifecycle), vs[2], ToSet(Lifecycle), PutEnum(Lifecycle, vs[2]))
    BY <1>2, EnumHolds
  <2>3. Holding(TextCells, vs[3], Scalars, PutText(vs[3]))
    BY <1>2, ScalarsHold
  <2>4. Holding(TextCells, vs[4], Scalars, PutText(vs[4]))
    BY <1>2, ScalarsHold
  <2>5. Holding(ListCells(NumberCells), vs[5], Short(Nat), PutNumbers(vs[5]))
    BY <1>2, ScalarListsHold
  <2>6. Holding(ListCells(NumberCells), vs[6], Short(Nat), PutNumbers(vs[6]))
    BY <1>2, ScalarListsHold
  <2>7. Holding(ListCells(SourceCells), vs[7], Short(StoredSource), PutProvenance(vs[7]))
    BY <1>2, ProvenanceHolds
  <2>8. record \in StoredDecision
    BY <2>1, <2>2, <2>3, <2>4, <2>5, <2>6, <2>7 DEF Holding, StoredDecision
  <2>9. Named(fields, 7, record)
    BY DEF Named
  <2>10. \A i \in 1..7 : record[fields[i][1]] = vs[i]
    OBVIOUS
  <2>11. [i \in 1..7 |-> each[i][vs[i]]] = parts
    BY <2>1, <2>2, <2>3, <2>4, <2>5, <2>6, <2>7 DEF Holding
  <2>12. PutDecision(record) = FlattenSeq(parts)
    BY DEF PutDecision
  <2>. HIDE DEF record, parts, fields, each
  <2>. QED  BY <2>8, <2>9, <2>10, <2>11, <2>12 DEF DecisionCells
<1>3. Len(fields) = 7 /\ DOMAIN fields = 1..7
  OBVIOUS
<1>. HIDE DEF fields, each
<1>4. Builds(DecisionCells, fields, each, 7)
  BY <1>2, <1>3 DEF Builds
<1>5. Faithful(ReadRecord(bytes, fields), bytes, DecisionCells)
  BY <1>1, <1>4, RecordFaithful
<1>. QED  BY <1>5 DEF ReadDecision, fields

MemoryCells == [v \in StoredMemory |-> PutMemory(v)]

LEMMA MemoryFaithful ==
    ASSUME NEW bytes \in Seq(Cells)
    PROVE  Faithful(ReadMemory(bytes), bytes, MemoryCells)
<1>. DEFINE fields == << <<"kind", enumValue(bytes, MemoryKind, 5)>>,
                         <<"status", enumValue(bytes, MemoryStatus, 1)>>,
                         <<"title", ReadText(bytes)>>, <<"statement", ReadText(bytes)>>,
                         <<"provenance", ReadProvenance(bytes)>>,
                         <<"epistemic", Declared(bytes, "Observation")>> >>
            each == <<EnumCells(MemoryKind), EnumCells(MemoryStatus), TextCells, TextCells,
                      ListCells(SourceCells), DeclaredCells("Observation")>>
<1>1. \A i \in 1..6 : Faithful(fields[i][2], bytes, each[i])
  BY DeclaredOnce, EnumFaithful, TextFaithful, ProvenanceFaithful, DeclaredFaithful
<1>2. ASSUME NEW vs, vs = [i \in 1..6 |-> vs[i]], \A i \in 1..6 : vs[i] \in DOMAIN each[i]
      PROVE  \E record \in DOMAIN MemoryCells :
                /\ Named(fields, 6, record) /\ \A i \in 1..6 : record[fields[i][1]] = vs[i]
                /\ MemoryCells[record] = FlattenSeq([i \in 1..6 |-> each[i][vs[i]]])
  <2>. DEFINE record == [kind |-> vs[1], status |-> vs[2], title |-> vs[3], statement |-> vs[4],
                        provenance |-> vs[5], epistemic |-> vs[6]]
              parts == <<PutEnum(MemoryKind, vs[1]), PutEnum(MemoryStatus, vs[2]), PutText(vs[3]),
                        PutText(vs[4]), PutProvenance(vs[5]), NotWritten>>
  <2>1. Holding(EnumCells(MemoryKind), vs[1], ToSet(MemoryKind), PutEnum(MemoryKind, vs[1]))
    BY <1>2, EnumHolds
  <2>2. Holding(EnumCells(MemoryStatus), vs[2], ToSet(MemoryStatus), PutEnum(MemoryStatus, vs[2]))
    BY <1>2, EnumHolds
  <2>3. Holding(TextCells, vs[3], Scalars, PutText(vs[3]))
    BY <1>2, ScalarsHold
  <2>4. Holding(TextCells, vs[4], Scalars, PutText(vs[4]))
    BY <1>2, ScalarsHold
  <2>5. Holding(ListCells(SourceCells), vs[5], Short(StoredSource), PutProvenance(vs[5]))
    BY <1>2, ProvenanceHolds
  <2>6. Holding(DeclaredCells("Observation"), vs[6], {"Observation"}, NotWritten)
    BY <1>2, DeclaredHolds
  <2>7. record \in StoredMemory
    BY <2>1, <2>2, <2>3, <2>4, <2>5, <2>6 DEF Holding, StoredMemory
  <2>8. Named(fields, 6, record)
    BY DEF Named
  <2>9. \A i \in 1..6 : record[fields[i][1]] = vs[i]
    OBVIOUS
  <2>10. [i \in 1..6 |-> each[i][vs[i]]] = parts
    BY <2>1, <2>2, <2>3, <2>4, <2>5, <2>6 DEF Holding
  <2>11. PutMemory(record) = FlattenSeq(parts)
    BY DEF PutMemory
  <2>. HIDE DEF record, parts, fields, each
  <2>. QED  BY <2>7, <2>8, <2>9, <2>10, <2>11 DEF MemoryCells
<1>3. Len(fields) = 6 /\ DOMAIN fields = 1..6
  OBVIOUS
<1>. HIDE DEF fields, each
<1>4. Builds(MemoryCells, fields, each, 6)
  BY <1>2, <1>3 DEF Builds
<1>5. Faithful(ReadRecord(bytes, fields), bytes, MemoryCells)
  BY <1>1, <1>4, RecordFaithful
<1>. QED  BY <1>5 DEF ReadMemory, fields

ObligationCells == [v \in StoredObligation |-> PutObligation(v)]

LEMMA ObligationFaithful ==
    ASSUME NEW bytes \in Seq(Cells)
    PROVE  Faithful(ReadObligation(bytes), bytes, ObligationCells)
<1>. DEFINE none == ""
            fields == << <<"status", enumValue(bytes, ObligationStatus, 5)>>,
                         <<"trigger", enumValue(bytes, TriggerKind, 5)>>,
                         <<"id", ReadNumber(bytes)>>, <<"statement", ReadText(bytes)>>,
                         <<"completionCriteria", ReadText(bytes)>>,
                         <<"triggerValue", Declared(bytes, none)>> >>
            set == [id : Nat, status : ToSet(ObligationStatus), statement : Scalars,
                    trigger : ToSet(TriggerKind), triggerValue : {none},
                    completionCriteria : Scalars]
            each == <<EnumCells(ObligationStatus), EnumCells(TriggerKind), NumberCells, TextCells,
                      TextCells, DeclaredCells(none)>>
<1>0. ObligationCells = [v \in set |-> PutObligation(v)]
  BY Zenon DEF ObligationCells, StoredObligation, none
<1>. HIDE DEF none
<1>1. \A i \in 1..6 : Faithful(fields[i][2], bytes, each[i])
  BY DeclaredOnce, EnumFaithful, NumberFaithful, TextFaithful, DeclaredFaithful
<1>2. ASSUME NEW vs, vs = [i \in 1..6 |-> vs[i]], \A i \in 1..6 : vs[i] \in DOMAIN each[i]
      PROVE  \E record \in DOMAIN ObligationCells :
                /\ Named(fields, 6, record) /\ \A i \in 1..6 : record[fields[i][1]] = vs[i]
                /\ ObligationCells[record] = FlattenSeq([i \in 1..6 |-> each[i][vs[i]]])
  <2>. DEFINE record == [status |-> vs[1], trigger |-> vs[2], id |-> vs[3], statement |-> vs[4],
                        completionCriteria |-> vs[5], triggerValue |-> vs[6]]
              parts == <<PutEnum(ObligationStatus, vs[1]), PutEnum(TriggerKind, vs[2]),
                        PutNumber(vs[3]), PutText(vs[4]), PutText(vs[5]), NotWritten>>
  <2>1. Holding(EnumCells(ObligationStatus), vs[1], ToSet(ObligationStatus),
              PutEnum(ObligationStatus, vs[1]))
    BY <1>2, EnumHolds
  <2>2. Holding(EnumCells(TriggerKind), vs[2], ToSet(TriggerKind), PutEnum(TriggerKind, vs[2]))
    BY <1>2, EnumHolds
  <2>3. Holding(NumberCells, vs[3], Nat, PutNumber(vs[3]))
    BY <1>2, ScalarsHold
  <2>4. Holding(TextCells, vs[4], Scalars, PutText(vs[4]))
    BY <1>2, ScalarsHold
  <2>5. Holding(TextCells, vs[5], Scalars, PutText(vs[5]))
    BY <1>2, ScalarsHold
  <2>6. Holding(DeclaredCells(none), vs[6], {none}, NotWritten)
    BY <1>2, DeclaredHolds
  <2>7. record \in set
    BY <2>1, <2>2, <2>3, <2>4, <2>5, <2>6 DEF Holding
  <2>8. Named(fields, 6, record)
    BY DEF Named
  <2>9. \A i \in 1..6 : record[fields[i][1]] = vs[i]
    OBVIOUS
  <2>10. [i \in 1..6 |-> each[i][vs[i]]] = parts
    BY <2>1, <2>2, <2>3, <2>4, <2>5, <2>6 DEF Holding
  <2>11. PutObligation(record) = FlattenSeq(parts)
    BY DEF PutObligation
  <2>. HIDE DEF record, parts, fields, each, set
  <2>. QED  BY <1>0, <2>7, <2>8, <2>9, <2>10, <2>11
<1>3. Len(fields) = 6 /\ DOMAIN fields = 1..6
  OBVIOUS
<1>. HIDE DEF fields, each
<1>4. Builds(ObligationCells, fields, each, 6)
  BY <1>2, <1>3 DEF Builds
<1>5. Faithful(ReadRecord(bytes, fields), bytes, ObligationCells)
  BY <1>1, <1>4, RecordFaithful
<1>. QED  BY <1>5, Zenon DEF ReadObligation, fields, none

EvidenceCells == [v \in StoredEvidence |-> PutEvidence(v)]

LEMMA EvidenceFaithful ==
    ASSUME NEW bytes \in Seq(Cells)
    PROVE  Faithful(ReadEvidence(bytes), bytes, EvidenceCells)
<1>. DEFINE fields == << <<"boundTo", ReadText(bytes)>>, <<"content", ReadText(bytes)>> >>
            each == <<TextCells, TextCells>>
<1>1. \A i \in 1..2 : Faithful(fields[i][2], bytes, each[i])
  BY TextFaithful
<1>2. ASSUME NEW vs, vs = [i \in 1..2 |-> vs[i]], \A i \in 1..2 : vs[i] \in DOMAIN each[i]
      PROVE  \E record \in DOMAIN EvidenceCells :
                /\ Named(fields, 2, record) /\ \A i \in 1..2 : record[fields[i][1]] = vs[i]
                /\ EvidenceCells[record] = FlattenSeq([i \in 1..2 |-> each[i][vs[i]]])
  <2>. DEFINE record == [boundTo |-> vs[1], content |-> vs[2]]
              parts == <<PutText(vs[1]), PutText(vs[2])>>
  <2>1. Holding(TextCells, vs[1], Scalars, PutText(vs[1]))
    BY <1>2, ScalarsHold
  <2>2. Holding(TextCells, vs[2], Scalars, PutText(vs[2]))
    BY <1>2, ScalarsHold
  <2>3. record \in StoredEvidence
    BY <2>1, <2>2 DEF Holding, StoredEvidence
  <2>4. Named(fields, 2, record)
    BY DEF Named
  <2>5. \A i \in 1..2 : record[fields[i][1]] = vs[i]
    OBVIOUS
  <2>6. [i \in 1..2 |-> each[i][vs[i]]] = parts
    BY <2>1, <2>2 DEF Holding
  <2>7. PutEvidence(record) = FlattenSeq(parts)
    BY DEF PutEvidence
  <2>. HIDE DEF record, parts, fields, each
  <2>. QED  BY <2>3, <2>4, <2>5, <2>6, <2>7 DEF EvidenceCells
<1>3. Len(fields) = 2 /\ DOMAIN fields = 1..2
  OBVIOUS
<1>. HIDE DEF fields, each
<1>4. Builds(EvidenceCells, fields, each, 2)
  BY <1>2, <1>3 DEF Builds
<1>5. Faithful(ReadRecord(bytes, fields), bytes, EvidenceCells)
  BY <1>1, <1>4, RecordFaithful
<1>. QED  BY <1>5 DEF ReadEvidence, fields

ConflictCells == [v \in StoredConflict |-> PutConflict(v)]

LEMMA ConflictFaithful ==
    ASSUME NEW bytes \in Seq(Cells)
    PROVE  Faithful(ReadConflict(bytes), bytes, ConflictCells)
<1>. DEFINE fields == << <<"id", ReadText(bytes)>>,
                        <<"status", enumValue(bytes, ConflictStatus, 1)>>,
                         <<"scope", ReadText(bytes)>>, <<"description", ReadText(bytes)>>,
                         <<"resolution", ReadText(bytes)>> >>
            each == <<TextCells, EnumCells(ConflictStatus), TextCells, TextCells, TextCells>>
<1>1. \A i \in 1..5 : Faithful(fields[i][2], bytes, each[i])
  BY TextFaithful, DeclaredOnce, EnumFaithful
<1>2. ASSUME NEW vs, vs = [i \in 1..5 |-> vs[i]], \A i \in 1..5 : vs[i] \in DOMAIN each[i]
      PROVE  \E record \in DOMAIN ConflictCells :
                /\ Named(fields, 5, record) /\ \A i \in 1..5 : record[fields[i][1]] = vs[i]
                /\ ConflictCells[record] = FlattenSeq([i \in 1..5 |-> each[i][vs[i]]])
  <2>. DEFINE record == [id |-> vs[1], status |-> vs[2], scope |-> vs[3], description |-> vs[4],
                        resolution |-> vs[5]]
              parts == <<PutText(vs[1]), PutEnum(ConflictStatus, vs[2]), PutText(vs[3]),
                        PutText(vs[4]), PutText(vs[5])>>
  <2>1. Holding(TextCells, vs[1], Scalars, PutText(vs[1]))
    BY <1>2, ScalarsHold
  <2>2. Holding(EnumCells(ConflictStatus), vs[2], ToSet(ConflictStatus),
              PutEnum(ConflictStatus, vs[2]))
    BY <1>2, EnumHolds
  <2>3. Holding(TextCells, vs[3], Scalars, PutText(vs[3]))
    BY <1>2, ScalarsHold
  <2>4. Holding(TextCells, vs[4], Scalars, PutText(vs[4]))
    BY <1>2, ScalarsHold
  <2>5. Holding(TextCells, vs[5], Scalars, PutText(vs[5]))
    BY <1>2, ScalarsHold
  <2>6. record \in StoredConflict
    BY <2>1, <2>2, <2>3, <2>4, <2>5 DEF Holding, StoredConflict
  <2>7. Named(fields, 5, record)
    BY DEF Named
  <2>8. \A i \in 1..5 : record[fields[i][1]] = vs[i]
    OBVIOUS
  <2>9. [i \in 1..5 |-> each[i][vs[i]]] = parts
    BY <2>1, <2>2, <2>3, <2>4, <2>5 DEF Holding
  <2>10. PutConflict(record) = FlattenSeq(parts)
    BY DEF PutConflict
  <2>. HIDE DEF record, parts, fields, each
  <2>. QED  BY <2>6, <2>7, <2>8, <2>9, <2>10 DEF ConflictCells
<1>3. Len(fields) = 5 /\ DOMAIN fields = 1..5
  OBVIOUS
<1>. HIDE DEF fields, each
<1>4. Builds(ConflictCells, fields, each, 5)
  BY <1>2, <1>3 DEF Builds
<1>5. Faithful(ReadRecord(bytes, fields), bytes, ConflictCells)
  BY <1>1, <1>4, RecordFaithful
<1>. QED  BY <1>5 DEF ReadConflict, fields

ProfileCells == [v \in StoredProfile |-> PutProfile(v)]

LEMMA ProfileFaithful ==
    ASSUME NEW bytes \in Seq(Cells)
    PROVE  Faithful(ReadProfile(bytes), bytes, ProfileCells)
<1>. DEFINE fields == << <<"id", ReadText(bytes)>>, <<"kind", ReadText(bytes)>>,
                         <<"summary", ReadText(bytes)>>,
                         <<"layer", enumValue(bytes, WorkflowLayer, 3)>> >>
            each == <<TextCells, TextCells, TextCells, EnumCells(WorkflowLayer)>>
<1>1. \A i \in 1..4 : Faithful(fields[i][2], bytes, each[i])
  BY TextFaithful, DeclaredOnce, EnumFaithful
<1>2. ASSUME NEW vs, vs = [i \in 1..4 |-> vs[i]], \A i \in 1..4 : vs[i] \in DOMAIN each[i]
      PROVE  \E record \in DOMAIN ProfileCells :
                /\ Named(fields, 4, record) /\ \A i \in 1..4 : record[fields[i][1]] = vs[i]
                /\ ProfileCells[record] = FlattenSeq([i \in 1..4 |-> each[i][vs[i]]])
  <2>. DEFINE record == [id |-> vs[1], kind |-> vs[2], summary |-> vs[3], layer |-> vs[4]]
              parts == <<PutText(vs[1]), PutText(vs[2]), PutText(vs[3]),
                        PutEnum(WorkflowLayer, vs[4])>>
  <2>1. Holding(TextCells, vs[1], Scalars, PutText(vs[1]))
    BY <1>2, ScalarsHold
  <2>2. Holding(TextCells, vs[2], Scalars, PutText(vs[2]))
    BY <1>2, ScalarsHold
  <2>3. Holding(TextCells, vs[3], Scalars, PutText(vs[3]))
    BY <1>2, ScalarsHold
  <2>4. Holding(EnumCells(WorkflowLayer), vs[4], ToSet(WorkflowLayer),
              PutEnum(WorkflowLayer, vs[4]))
    BY <1>2, EnumHolds
  <2>5. record \in StoredProfile
    BY <2>1, <2>2, <2>3, <2>4 DEF Holding, StoredProfile
  <2>6. Named(fields, 4, record)
    BY DEF Named
  <2>7. \A i \in 1..4 : record[fields[i][1]] = vs[i]
    OBVIOUS
  <2>8. [i \in 1..4 |-> each[i][vs[i]]] = parts
    BY <2>1, <2>2, <2>3, <2>4 DEF Holding
  <2>9. PutProfile(record) = FlattenSeq(parts)
    BY DEF PutProfile
  <2>. HIDE DEF record, parts, fields, each
  <2>. QED  BY <2>5, <2>6, <2>7, <2>8, <2>9 DEF ProfileCells
<1>3. Len(fields) = 4 /\ DOMAIN fields = 1..4
  OBVIOUS
<1>. HIDE DEF fields, each
<1>4. Builds(ProfileCells, fields, each, 4)
  BY <1>2, <1>3 DEF Builds
<1>5. Faithful(ReadRecord(bytes, fields), bytes, ProfileCells)
  BY <1>1, <1>4, RecordFaithful
<1>. QED  BY <1>5 DEF ReadProfile, fields

ViewCells == [v \in StoredView |-> PutView(v)]

LEMMA ViewFaithful ==
    ASSUME NEW bytes \in Seq(Cells)
    PROVE  Faithful(ReadView(bytes), bytes, ViewCells)
<1>. DEFINE fields == << <<"id", ReadText(bytes)>>, <<"agent", ReadText(bytes)>>,
                         <<"human", ReadText(bytes)>>, <<"summary", ReadText(bytes)>>,
                         <<"profileRefs", ReadTexts(bytes)>> >>
            each == <<TextCells, TextCells, TextCells, TextCells, ListCells(TextCells)>>
<1>1. \A i \in 1..5 : Faithful(fields[i][2], bytes, each[i])
  BY TextFaithful, ScalarListsFaithful
<1>2. ASSUME NEW vs, vs = [i \in 1..5 |-> vs[i]], \A i \in 1..5 : vs[i] \in DOMAIN each[i]
      PROVE  \E record \in DOMAIN ViewCells :
                /\ Named(fields, 5, record) /\ \A i \in 1..5 : record[fields[i][1]] = vs[i]
                /\ ViewCells[record] = FlattenSeq([i \in 1..5 |-> each[i][vs[i]]])
  <2>. DEFINE record == [id |-> vs[1], agent |-> vs[2], human |-> vs[3], summary |-> vs[4],
                        profileRefs |-> vs[5]]
              parts == <<PutText(vs[1]), PutText(vs[2]), PutText(vs[3]), PutText(vs[4]),
                        PutTexts(vs[5])>>
  <2>1. Holding(TextCells, vs[1], Scalars, PutText(vs[1]))
    BY <1>2, ScalarsHold
  <2>2. Holding(TextCells, vs[2], Scalars, PutText(vs[2]))
    BY <1>2, ScalarsHold
  <2>3. Holding(TextCells, vs[3], Scalars, PutText(vs[3]))
    BY <1>2, ScalarsHold
  <2>4. Holding(TextCells, vs[4], Scalars, PutText(vs[4]))
    BY <1>2, ScalarsHold
  <2>5. Holding(ListCells(TextCells), vs[5], Short(Scalars), PutTexts(vs[5]))
    BY <1>2, ScalarListsHold
  <2>6. record \in StoredView
    BY <2>1, <2>2, <2>3, <2>4, <2>5 DEF Holding, StoredView
  <2>7. Named(fields, 5, record)
    BY DEF Named
  <2>8. \A i \in 1..5 : record[fields[i][1]] = vs[i]
    OBVIOUS
  <2>9. [i \in 1..5 |-> each[i][vs[i]]] = parts
    BY <2>1, <2>2, <2>3, <2>4, <2>5 DEF Holding
  <2>10. PutView(record) = FlattenSeq(parts)
    BY DEF PutView
  <2>. HIDE DEF record, parts, fields, each
  <2>. QED  BY <2>6, <2>7, <2>8, <2>9, <2>10 DEF ViewCells
<1>3. Len(fields) = 5 /\ DOMAIN fields = 1..5
  OBVIOUS
<1>. HIDE DEF fields, each
<1>4. Builds(ViewCells, fields, each, 5)
  BY <1>2, <1>3 DEF Builds
<1>5. Faithful(ReadRecord(bytes, fields), bytes, ViewCells)
  BY <1>1, <1>4, RecordFaithful
<1>. QED  BY <1>5 DEF ReadView, fields

RoleCells == [v \in StoredRole |-> PutRole(v)]

LEMMA RoleFaithful ==
    ASSUME NEW bytes \in Seq(Cells)
    PROVE  Faithful(ReadRole(bytes), bytes, RoleCells)
<1>. DEFINE fields == << <<"id", enumValue(bytes, Role, 2)>>,
                         <<"authorities", ReadList(bytes, enumValue(bytes, OperationClasses, 5))>>,
                         <<"duties", ReadTexts(bytes)>>,
                         <<"reviewGradeReasoning", ReadFlag(bytes)>>,
                         <<"execution", enumValue(bytes, CapabilityClass, 2)>>,
                         <<"identityPortVerified", ReadFlag(bytes)>>,
                         <<"provenance", ReadProvenance(bytes)>> >>
            each == <<EnumCells(Role), ListCells(EnumCells(OperationClasses)),
                      ListCells(TextCells), FlagCells, EnumCells(CapabilityClass), FlagCells,
                      ListCells(SourceCells)>>
<1>1. \A i \in 1..7 : Faithful(fields[i][2], bytes, each[i])
  BY DeclaredOnce, EnumFaithful, ScalarListsFaithful, FlagFaithful, ProvenanceFaithful
<1>2. ASSUME NEW vs, vs = [i \in 1..7 |-> vs[i]], \A i \in 1..7 : vs[i] \in DOMAIN each[i]
      PROVE  \E record \in DOMAIN RoleCells :
                /\ Named(fields, 7, record) /\ \A i \in 1..7 : record[fields[i][1]] = vs[i]
                /\ RoleCells[record] = FlattenSeq([i \in 1..7 |-> each[i][vs[i]]])
  <2>. DEFINE record == [id |-> vs[1], authorities |-> vs[2], duties |-> vs[3],
                        reviewGradeReasoning |-> vs[4], execution |-> vs[5],
                        identityPortVerified |-> vs[6], provenance |-> vs[7]]
              parts == <<PutEnum(Role, vs[1]), PutEnums(OperationClasses, vs[2]), PutTexts(vs[3]),
                        PutFlag(vs[4]), PutEnum(CapabilityClass, vs[5]), PutFlag(vs[6]),
                        PutProvenance(vs[7])>>
  <2>1. Holding(EnumCells(Role), vs[1], ToSet(Role), PutEnum(Role, vs[1]))
    BY <1>2, EnumHolds
  <2>2. Holding(ListCells(EnumCells(OperationClasses)), vs[2], Short(ToSet(OperationClasses)),
              PutEnums(OperationClasses, vs[2]))
    BY <1>2, ScalarListsHold
  <2>3. Holding(ListCells(TextCells), vs[3], Short(Scalars), PutTexts(vs[3]))
    BY <1>2, ScalarListsHold
  <2>4. Holding(FlagCells, vs[4], BOOLEAN, PutFlag(vs[4]))
    BY <1>2, ScalarsHold
  <2>5. Holding(EnumCells(CapabilityClass), vs[5], ToSet(CapabilityClass),
              PutEnum(CapabilityClass, vs[5]))
    BY <1>2, EnumHolds
  <2>6. Holding(FlagCells, vs[6], BOOLEAN, PutFlag(vs[6]))
    BY <1>2, ScalarsHold
  <2>7. Holding(ListCells(SourceCells), vs[7], Short(StoredSource), PutProvenance(vs[7]))
    BY <1>2, ProvenanceHolds
  <2>8. record \in StoredRole
    BY <2>1, <2>2, <2>3, <2>4, <2>5, <2>6, <2>7 DEF Holding, StoredRole
  <2>9. Named(fields, 7, record)
    BY DEF Named
  <2>10. \A i \in 1..7 : record[fields[i][1]] = vs[i]
    OBVIOUS
  <2>11. [i \in 1..7 |-> each[i][vs[i]]] = parts
    BY <2>1, <2>2, <2>3, <2>4, <2>5, <2>6, <2>7 DEF Holding
  <2>12. PutRole(record) = FlattenSeq(parts)
    BY DEF PutRole
  <2>. HIDE DEF record, parts, fields, each
  <2>. QED  BY <2>8, <2>9, <2>10, <2>11, <2>12 DEF RoleCells
<1>3. Len(fields) = 7 /\ DOMAIN fields = 1..7
  OBVIOUS
<1>. HIDE DEF fields, each
<1>4. Builds(RoleCells, fields, each, 7)
  BY <1>2, <1>3 DEF Builds
<1>5. Faithful(ReadRecord(bytes, fields), bytes, RoleCells)
  BY <1>1, <1>4, RecordFaithful
<1>. QED  BY <1>5 DEF ReadRole, fields

LEMMA SinceHolds ==
    ASSUME NEW cells, NEW first, NEW version, NEW declared,
           NEW v \in DOMAIN SinceCells(first, version, declared, cells)
    PROVE  Holding(SinceCells(first, version, declared, cells), v,
                   IF version >= first THEN DOMAIN cells ELSE {declared},
                   Since(first, version, cells[v]))
BY DEF SinceCells, Holding

ClassCells ==
    [vs \in {c \in Seq(ToSet(ClaimClass)) : Len(c) <= 1} |->
        PutOptional([i \in DOMAIN vs |-> PutEnum(ClaimClass, vs[i])])]

LEMMA ClassFaithful ==
    ASSUME NEW bytes \in Seq(Cells)
    PROVE  Faithful(ReadOptional(bytes, enumValue(bytes, ClaimClass, 4)), bytes, ClassCells)
<1>. DEFINE cells == EnumCells(ClaimClass)
<1>1. Faithful(enumValue(bytes, ClaimClass, 4), bytes, cells)
  BY DeclaredOnce, EnumFaithful
<1>2. DOMAIN cells = ToSet(ClaimClass)
  BY DEF EnumCells
<1>3. ASSUME NEW vs \in DOMAIN ClassCells
      PROVE  ClassCells[vs] = PutOptional([i \in DOMAIN vs |-> cells[vs[i]]])
  <2>1. [i \in DOMAIN vs |-> cells[vs[i]]] = [i \in DOMAIN vs |-> PutEnum(ClaimClass, vs[i])]
    BY DEF ClassCells, EnumCells
  <2>. QED  BY <2>1 DEF ClassCells
<1>. HIDE DEF cells
<1>4. Options(ClassCells, cells)
  <2>1. DOMAIN ClassCells = {vs \in Seq(DOMAIN cells) : Len(vs) <= 1}
    BY <1>2 DEF ClassCells
  <2>. QED  BY <1>3, <2>1 DEF Options
<1>. QED  BY <1>1, <1>4, OptionalFaithful

\* The rules that a format carries.
RulesOf(version) ==
    [action : ToSet(ActionKind),
     claimClass : IF version >= 8 THEN {c \in Seq(ToSet(ClaimClass)) : Len(c) <= 1} ELSE {<<>>},
     requirement : ToSet(RequirementKind),
     boundary : IF version >= 8 THEN ToSet(RequirementBoundary) ELSE {"BeforeJudgment"},
     subject : Scalars, blocking : BOOLEAN]

RuleCells(version) == [v \in RulesOf(version) |-> PutRule(version, v)]

LEMMA RuleFaithful ==
    ASSUME NEW bytes \in Seq(Cells), NEW version \in Nat
    PROVE  Faithful(ReadRule(version, bytes), bytes, RuleCells(version))
<1>. DEFINE item == ReadOptional(bytes, enumValue(bytes, ClaimClass, 4))
            boundary == enumValue(bytes, RequirementBoundary, 1)
            classes == SinceCells(8, version, <<>>, ClassCells)
            boundaries == SinceCells(8, version, "BeforeJudgment", EnumCells(RequirementBoundary))
            fields == << <<"action", enumValue(bytes, ActionKind, 13)>>,
                         <<"claimClass", ReadSince(8, version, bytes, item, <<>>)>>,
                         <<"requirement", enumValue(bytes, RequirementKind, 8)>>,
                         <<"boundary", ReadSince(8, version, bytes, boundary, "BeforeJudgment")>>,
                         <<"subject", ReadText(bytes)>>, <<"blocking", ReadFlag(bytes)>> >>
            each == <<EnumCells(ActionKind), classes, EnumCells(RequirementKind), boundaries,
                      TextCells, FlagCells>>
<1>1. \A i \in 1..6 : Faithful(fields[i][2], bytes, each[i])
  <2>1. Faithful(ReadSince(8, version, bytes, item, <<>>), bytes, classes)
    BY ClassFaithful, SinceFaithful
  <2>2. Faithful(boundary, bytes, EnumCells(RequirementBoundary))
    BY DeclaredOnce, EnumFaithful
  <2>3. Faithful(ReadSince(8, version, bytes, boundary, "BeforeJudgment"), bytes, boundaries)
    <3>. HIDE DEF boundary
    <3>. QED  BY <2>2, SinceFaithful
  <2>. HIDE DEF item, boundary, classes, boundaries
  <2>. QED  BY <2>1, <2>3, DeclaredOnce, EnumFaithful, TextFaithful, FlagFaithful
<1>2. ASSUME NEW vs, vs = [i \in 1..6 |-> vs[i]], \A i \in 1..6 : vs[i] \in DOMAIN each[i]
      PROVE  \E record \in DOMAIN RuleCells(version) :
                /\ Named(fields, 6, record) /\ \A i \in 1..6 : record[fields[i][1]] = vs[i]
                /\ RuleCells(version)[record] = FlattenSeq([i \in 1..6 |-> each[i][vs[i]]])
  <2>. DEFINE record == [action |-> vs[1], claimClass |-> vs[2], requirement |-> vs[3],
                         boundary |-> vs[4], subject |-> vs[5], blocking |-> vs[6]]
              claim == PutOptional([i \in DOMAIN vs[2] |-> PutEnum(ClaimClass, vs[2][i])])
              parts == <<PutEnum(ActionKind, vs[1]), Since(8, version, claim),
                         PutEnum(RequirementKind, vs[3]),
                         Since(8, version, PutEnum(RequirementBoundary, vs[4])),
                         PutText(vs[5]), PutFlag(vs[6])>>
  <2>1. Holding(EnumCells(ActionKind), vs[1], ToSet(ActionKind), PutEnum(ActionKind, vs[1]))
    BY <1>2, EnumHolds
  <2>2. Holding(classes, vs[2],
                IF version >= 8 THEN {c \in Seq(ToSet(ClaimClass)) : Len(c) <= 1} ELSE {<<>>},
                Since(8, version, claim))
    <3>1. Holding(classes, vs[2], IF version >= 8 THEN DOMAIN ClassCells ELSE {<<>>},
                  Since(8, version, ClassCells[vs[2]]))
      <4>1. vs[2] \in DOMAIN classes
        BY <1>2
      <4>. QED  BY <4>1, SinceHolds
    <3>2. DOMAIN ClassCells = {c \in Seq(ToSet(ClaimClass)) : Len(c) <= 1}
      BY DEF ClassCells
    <3>3. CASE version >= 8
      <4>1. vs[2] \in DOMAIN ClassCells
        BY <3>1, <3>3 DEF Holding
      <4>2. ClassCells[vs[2]] = claim
        BY <4>1 DEF ClassCells
      <4>. HIDE DEF classes, claim
      <4>. QED  BY <3>1, <3>2, <4>2
    <3>4. CASE ~(version >= 8)
      <4>. HIDE DEF classes, claim
      <4>. QED  BY <3>1, <3>4 DEF Holding, Since
    <3>. QED  BY <3>3, <3>4
  <2>3. Holding(EnumCells(RequirementKind), vs[3], ToSet(RequirementKind),
                PutEnum(RequirementKind, vs[3]))
    BY <1>2, EnumHolds
  <2>4. Holding(boundaries, vs[4],
                IF version >= 8 THEN ToSet(RequirementBoundary) ELSE {"BeforeJudgment"},
                Since(8, version, PutEnum(RequirementBoundary, vs[4])))
    <3>. DEFINE cells == EnumCells(RequirementBoundary)
    <3>1. Holding(boundaries, vs[4], IF version >= 8 THEN DOMAIN cells ELSE {"BeforeJudgment"},
                  Since(8, version, cells[vs[4]]))
      <4>. HIDE DEF cells, boundaries, classes
      <4>1. vs[4] \in DOMAIN boundaries
        BY <1>2
      <4>. USE DEF boundaries, cells
      <4>. QED  BY <4>1, SinceHolds
    <3>2. DOMAIN cells = ToSet(RequirementBoundary)
      BY DEF EnumCells
    <3>3. CASE version >= 8
      <4>1. vs[4] \in DOMAIN cells
        BY <3>1, <3>3 DEF Holding
      <4>2. cells[vs[4]] = PutEnum(RequirementBoundary, vs[4])
        BY <4>1 DEF EnumCells
      <4>. HIDE DEF boundaries, cells
      <4>. QED  BY <3>1, <3>2, <4>2
    <3>4. CASE ~(version >= 8)
      <4>. HIDE DEF boundaries, cells
      <4>. QED  BY <3>1, <3>4 DEF Holding, Since
    <3>. QED  BY <3>3, <3>4
  <2>5. Holding(TextCells, vs[5], Scalars, PutText(vs[5]))
    BY <1>2, ScalarsHold
  <2>6. Holding(FlagCells, vs[6], BOOLEAN, PutFlag(vs[6]))
    BY <1>2, ScalarsHold
  <2>7. record \in RulesOf(version)
    <3>. HIDE DEF classes, boundaries
    <3>. QED  BY <2>1, <2>2, <2>3, <2>4, <2>5, <2>6 DEF Holding, RulesOf
  <2>8. Named(fields, 6, record)
    BY DEF Named
  <2>9. \A i \in 1..6 : record[fields[i][1]] = vs[i]
    OBVIOUS
  <2>11. PutRule(version, record) = FlattenSeq(parts)
    BY DEF PutRule
  <2>. HIDE DEF record, fields, claim, classes, boundaries
  <2>10. [i \in 1..6 |-> each[i][vs[i]]] = parts
    BY <2>1, <2>2, <2>3, <2>4, <2>5, <2>6 DEF Holding
  <2>. HIDE DEF parts, each
  <2>. QED  BY <2>7, <2>8, <2>9, <2>10, <2>11 DEF RuleCells
<1>3. Len(fields) = 6 /\ DOMAIN fields = 1..6
  OBVIOUS
<1>. HIDE DEF fields, each
<1>4. Builds(RuleCells(version), fields, each, 6)
  BY <1>2, <1>3 DEF Builds
<1>5. Faithful(ReadRecord(bytes, fields), bytes, RuleCells(version))
  BY <1>1, <1>4, RecordFaithful
<1>. QED  BY <1>5 DEF ReadRule, fields

---------------------------------------------------------------------------
(* Lists of records. *)

LEMMA RecordListsFaithful ==
    ASSUME NEW bytes \in Seq(Cells)
    PROVE  /\ Faithful(ReadList(bytes, ReadHandoff(bytes)), bytes, ListCells(HandoffCells))
           /\ Faithful(ReadList(bytes, ReadRecovery(bytes)), bytes, ListCells(RecoveryCells))
           /\ Faithful(ReadList(bytes, ReadDecision(bytes)), bytes, ListCells(DecisionCells))
           /\ Faithful(ReadList(bytes, ReadMemory(bytes)), bytes, ListCells(MemoryCells))
           /\ Faithful(ReadList(bytes, ReadObligation(bytes)), bytes, ListCells(ObligationCells))
           /\ Faithful(ReadList(bytes, ReadEvidence(bytes)), bytes, ListCells(EvidenceCells))
           /\ Faithful(ReadList(bytes, ReadConflict(bytes)), bytes, ListCells(ConflictCells))
           /\ Faithful(ReadList(bytes, ReadProfile(bytes)), bytes, ListCells(ProfileCells))
           /\ Faithful(ReadList(bytes, ReadView(bytes)), bytes, ListCells(ViewCells))
           /\ Faithful(ReadList(bytes, ReadRole(bytes)), bytes, ListCells(RoleCells))
BY ListCellsFaithful, HandoffFaithful, RecoveryFaithful, DecisionFaithful, MemoryFaithful,
   ObligationFaithful, EvidenceFaithful, ConflictFaithful, ProfileFaithful,
   ViewFaithful, RoleFaithful

LEMMA RecordListsHold ==
    /\ \A v \in DOMAIN ListCells(HandoffCells) :
          Holding(ListCells(HandoffCells), v, Short(StoredHandoff),
                  PutList([i \in DOMAIN v |-> PutHandoff(v[i])]))
    /\ \A v \in DOMAIN ListCells(RecoveryCells) :
          Holding(ListCells(RecoveryCells), v, Short(StoredRecovery),
                  PutList([i \in DOMAIN v |-> PutRecovery(v[i])]))
    /\ \A v \in DOMAIN ListCells(DecisionCells) :
          Holding(ListCells(DecisionCells), v, Short(StoredDecision),
                  PutList([i \in DOMAIN v |-> PutDecision(v[i])]))
    /\ \A v \in DOMAIN ListCells(MemoryCells) :
          Holding(ListCells(MemoryCells), v, Short(StoredMemory),
                  PutList([i \in DOMAIN v |-> PutMemory(v[i])]))
    /\ \A v \in DOMAIN ListCells(ObligationCells) :
          Holding(ListCells(ObligationCells), v, Short(StoredObligation),
                  PutList([i \in DOMAIN v |-> PutObligation(v[i])]))
    /\ \A v \in DOMAIN ListCells(EvidenceCells) :
          Holding(ListCells(EvidenceCells), v, Short(StoredEvidence),
                  PutList([i \in DOMAIN v |-> PutEvidence(v[i])]))
    /\ \A v \in DOMAIN ListCells(ConflictCells) :
          Holding(ListCells(ConflictCells), v, Short(StoredConflict),
                  PutList([i \in DOMAIN v |-> PutConflict(v[i])]))
    /\ \A v \in DOMAIN ListCells(ProfileCells) :
          Holding(ListCells(ProfileCells), v, Short(StoredProfile),
                  PutList([i \in DOMAIN v |-> PutProfile(v[i])]))
    /\ \A v \in DOMAIN ListCells(ViewCells) :
          Holding(ListCells(ViewCells), v, Short(StoredView),
                  PutList([i \in DOMAIN v |-> PutView(v[i])]))
    /\ \A v \in DOMAIN ListCells(RoleCells) :
          Holding(ListCells(RoleCells), v, Short(StoredRole),
                  PutList([i \in DOMAIN v |-> PutRole(v[i])]))
<1>1. ASSUME NEW v \in DOMAIN ListCells(HandoffCells)
      PROVE  Holding(ListCells(HandoffCells), v, Short(StoredHandoff),
                     PutList([i \in DOMAIN v |-> PutHandoff(v[i])]))
  <2>1. /\ v \in Short(StoredHandoff)
        /\ ListCells(HandoffCells)[v] = PutList([i \in DOMAIN v |-> HandoffCells[v[i]]])
    <3>1. DOMAIN HandoffCells = StoredHandoff
      BY DEF HandoffCells
    <3>. QED  BY <3>1, ListHolds DEF Holding
  <2>2. [i \in DOMAIN v |-> HandoffCells[v[i]]] = [i \in DOMAIN v |-> PutHandoff(v[i])]
    BY <2>1 DEF Short, HandoffCells
  <2>. QED  BY <2>1, <2>2 DEF Holding
<1>2. ASSUME NEW v \in DOMAIN ListCells(RecoveryCells)
      PROVE  Holding(ListCells(RecoveryCells), v, Short(StoredRecovery),
                     PutList([i \in DOMAIN v |-> PutRecovery(v[i])]))
  <2>1. /\ v \in Short(StoredRecovery)
        /\ ListCells(RecoveryCells)[v] = PutList([i \in DOMAIN v |-> RecoveryCells[v[i]]])
    <3>1. DOMAIN RecoveryCells = StoredRecovery
      BY DEF RecoveryCells
    <3>. QED  BY <3>1, ListHolds DEF Holding
  <2>2. [i \in DOMAIN v |-> RecoveryCells[v[i]]] = [i \in DOMAIN v |-> PutRecovery(v[i])]
    BY <2>1 DEF Short, RecoveryCells
  <2>. QED  BY <2>1, <2>2 DEF Holding
<1>3. ASSUME NEW v \in DOMAIN ListCells(DecisionCells)
      PROVE  Holding(ListCells(DecisionCells), v, Short(StoredDecision),
                     PutList([i \in DOMAIN v |-> PutDecision(v[i])]))
  <2>1. /\ v \in Short(StoredDecision)
        /\ ListCells(DecisionCells)[v] = PutList([i \in DOMAIN v |-> DecisionCells[v[i]]])
    <3>1. DOMAIN DecisionCells = StoredDecision
      BY DEF DecisionCells
    <3>. QED  BY <3>1, ListHolds DEF Holding
  <2>2. [i \in DOMAIN v |-> DecisionCells[v[i]]] = [i \in DOMAIN v |-> PutDecision(v[i])]
    BY <2>1 DEF Short, DecisionCells
  <2>. QED  BY <2>1, <2>2 DEF Holding
<1>4. ASSUME NEW v \in DOMAIN ListCells(MemoryCells)
      PROVE  Holding(ListCells(MemoryCells), v, Short(StoredMemory),
                     PutList([i \in DOMAIN v |-> PutMemory(v[i])]))
  <2>1. /\ v \in Short(StoredMemory)
        /\ ListCells(MemoryCells)[v] = PutList([i \in DOMAIN v |-> MemoryCells[v[i]]])
    <3>1. DOMAIN MemoryCells = StoredMemory
      BY DEF MemoryCells
    <3>. QED  BY <3>1, ListHolds DEF Holding
  <2>2. [i \in DOMAIN v |-> MemoryCells[v[i]]] = [i \in DOMAIN v |-> PutMemory(v[i])]
    BY <2>1 DEF Short, MemoryCells
  <2>. QED  BY <2>1, <2>2 DEF Holding
<1>5. ASSUME NEW v \in DOMAIN ListCells(ObligationCells)
      PROVE  Holding(ListCells(ObligationCells), v, Short(StoredObligation),
                     PutList([i \in DOMAIN v |-> PutObligation(v[i])]))
  <2>1. /\ v \in Short(StoredObligation)
        /\ ListCells(ObligationCells)[v] = PutList([i \in DOMAIN v |-> ObligationCells[v[i]]])
    <3>1. DOMAIN ObligationCells = StoredObligation
      BY DEF ObligationCells
    <3>. QED  BY <3>1, ListHolds DEF Holding
  <2>2. [i \in DOMAIN v |-> ObligationCells[v[i]]] = [i \in DOMAIN v |-> PutObligation(v[i])]
    BY <2>1 DEF Short, ObligationCells
  <2>. QED  BY <2>1, <2>2 DEF Holding
<1>6. ASSUME NEW v \in DOMAIN ListCells(EvidenceCells)
      PROVE  Holding(ListCells(EvidenceCells), v, Short(StoredEvidence),
                     PutList([i \in DOMAIN v |-> PutEvidence(v[i])]))
  <2>1. /\ v \in Short(StoredEvidence)
        /\ ListCells(EvidenceCells)[v] = PutList([i \in DOMAIN v |-> EvidenceCells[v[i]]])
    <3>1. DOMAIN EvidenceCells = StoredEvidence
      BY DEF EvidenceCells
    <3>. QED  BY <3>1, ListHolds DEF Holding
  <2>2. [i \in DOMAIN v |-> EvidenceCells[v[i]]] = [i \in DOMAIN v |-> PutEvidence(v[i])]
    BY <2>1 DEF Short, EvidenceCells
  <2>. QED  BY <2>1, <2>2 DEF Holding
<1>7. ASSUME NEW v \in DOMAIN ListCells(ConflictCells)
      PROVE  Holding(ListCells(ConflictCells), v, Short(StoredConflict),
                     PutList([i \in DOMAIN v |-> PutConflict(v[i])]))
  <2>1. /\ v \in Short(StoredConflict)
        /\ ListCells(ConflictCells)[v] = PutList([i \in DOMAIN v |-> ConflictCells[v[i]]])
    <3>1. DOMAIN ConflictCells = StoredConflict
      BY DEF ConflictCells
    <3>. QED  BY <3>1, ListHolds DEF Holding
  <2>2. [i \in DOMAIN v |-> ConflictCells[v[i]]] = [i \in DOMAIN v |-> PutConflict(v[i])]
    BY <2>1 DEF Short, ConflictCells
  <2>. QED  BY <2>1, <2>2 DEF Holding
<1>8. ASSUME NEW v \in DOMAIN ListCells(ProfileCells)
      PROVE  Holding(ListCells(ProfileCells), v, Short(StoredProfile),
                     PutList([i \in DOMAIN v |-> PutProfile(v[i])]))
  <2>1. /\ v \in Short(StoredProfile)
        /\ ListCells(ProfileCells)[v] = PutList([i \in DOMAIN v |-> ProfileCells[v[i]]])
    <3>1. DOMAIN ProfileCells = StoredProfile
      BY DEF ProfileCells
    <3>. QED  BY <3>1, ListHolds DEF Holding
  <2>2. [i \in DOMAIN v |-> ProfileCells[v[i]]] = [i \in DOMAIN v |-> PutProfile(v[i])]
    BY <2>1 DEF Short, ProfileCells
  <2>. QED  BY <2>1, <2>2 DEF Holding
<1>9. ASSUME NEW v \in DOMAIN ListCells(ViewCells)
      PROVE  Holding(ListCells(ViewCells), v, Short(StoredView),
                     PutList([i \in DOMAIN v |-> PutView(v[i])]))
  <2>1. /\ v \in Short(StoredView)
        /\ ListCells(ViewCells)[v] = PutList([i \in DOMAIN v |-> ViewCells[v[i]]])
    <3>1. DOMAIN ViewCells = StoredView
      BY DEF ViewCells
    <3>. QED  BY <3>1, ListHolds DEF Holding
  <2>2. [i \in DOMAIN v |-> ViewCells[v[i]]] = [i \in DOMAIN v |-> PutView(v[i])]
    BY <2>1 DEF Short, ViewCells
  <2>. QED  BY <2>1, <2>2 DEF Holding
<1>10. ASSUME NEW v \in DOMAIN ListCells(RoleCells)
      PROVE  Holding(ListCells(RoleCells), v, Short(StoredRole),
                     PutList([i \in DOMAIN v |-> PutRole(v[i])]))
  <2>1. /\ v \in Short(StoredRole)
        /\ ListCells(RoleCells)[v] = PutList([i \in DOMAIN v |-> RoleCells[v[i]]])
    <3>1. DOMAIN RoleCells = StoredRole
      BY DEF RoleCells
    <3>. QED  BY <3>1, ListHolds DEF Holding
  <2>2. [i \in DOMAIN v |-> RoleCells[v[i]]] = [i \in DOMAIN v |-> PutRole(v[i])]
    BY <2>1 DEF Short, RoleCells
  <2>. QED  BY <2>1, <2>2 DEF Holding
<1>. QED  BY <1>1, <1>2, <1>3, <1>4, <1>5, <1>6, <1>7, <1>8, <1>9, <1>10

LEMMA RuleListHolds ==
    ASSUME NEW version, NEW v \in DOMAIN ListCells(RuleCells(version))
    PROVE  Holding(ListCells(RuleCells(version)), v, Short(RulesOf(version)),
                   PutList([i \in DOMAIN v |-> PutRule(version, v[i])]))
<1>. DEFINE cells == RuleCells(version)
<1>1. /\ v \in Short(RulesOf(version))
      /\ ListCells(cells)[v] = PutList([i \in DOMAIN v |-> cells[v[i]]])
  <2>1. DOMAIN cells = RulesOf(version)
    BY DEF RuleCells
  <2>. HIDE DEF cells
  <2>. QED  BY <2>1, ListHolds DEF Holding, cells
<1>2. [i \in DOMAIN v |-> cells[v[i]]] = [i \in DOMAIN v |-> PutRule(version, v[i])]
  BY <1>1 DEF Short, RuleCells
<1>. QED  BY <1>1, <1>2 DEF Holding

---------------------------------------------------------------------------
(* The body of a snapshot. *)

\* What a format carries of a snapshot, and what is written of it.
BodyOf(version) ==
    [rootPrincipal : Scalars, articles : Short(Scalars), handoff : Short(StoredHandoff),
     recovery : Short(StoredRecovery), objective : Scalars, current : Scalars,
     checkpointRef : Scalars, candidateRef : Scalars, nextBoundaryRef : Scalars,
     repositories : Scalars, roadmap : Scalars, decisions : Short(StoredDecision),
     memory : Short(StoredMemory), obligations : Short(StoredObligation),
     evidence : Short(StoredEvidence), conflicts : Short(StoredConflict),
     profiles : Short(StoredProfile), views : Short(StoredView),
     present : IF version >= 8 THEN BOOLEAN ELSE {FALSE},
     rules : IF version >= 7 THEN Short(RulesOf(version)) ELSE {<<>>},
     roles : Short(StoredRole)]

BodyCells(version) == [s \in BodyOf(version) |-> PutSnapshot(version, s)]

EachOfBody(version) ==
    <<TextCells, ListCells(TextCells), ListCells(HandoffCells), ListCells(RecoveryCells),
      TextCells, TextCells, TextCells, TextCells, TextCells, TextCells, TextCells,
      ListCells(DecisionCells), ListCells(MemoryCells), ListCells(ObligationCells),
      ListCells(EvidenceCells), ListCells(ConflictCells), ListCells(ProfileCells),
      ListCells(ViewCells), SinceCells(8, version, FALSE, FlagCells),
      SinceCells(7, version, <<>>, ListCells(RuleCells(version))), ListCells(RoleCells)>>

LEMMA RulesHold ==
    ASSUME NEW version, NEW v, v \in DOMAIN SinceCells(7, version, <<>>,
                                                       ListCells(RuleCells(version)))
    PROVE  Holding(SinceCells(7, version, <<>>, ListCells(RuleCells(version))), v,
                   IF version >= 7 THEN Short(RulesOf(version)) ELSE {<<>>},
                   Since(7, version, PutList([i \in DOMAIN v |-> PutRule(version, v[i])])))
<1>. DEFINE rules == ListCells(RuleCells(version))
            part == PutList([i \in DOMAIN v |-> PutRule(version, v[i])])
<1>1. Holding(SinceCells(7, version, <<>>, rules), v,
              IF version >= 7 THEN DOMAIN rules ELSE {<<>>}, Since(7, version, rules[v]))
  <2>. HIDE DEF rules
  <2>1. v \in DOMAIN SinceCells(7, version, <<>>, rules)
    BY DEF rules
  <2>. QED  BY <2>1, SinceHolds
<1>2. CASE version >= 7
  <2>1. v \in DOMAIN rules
    BY <1>1, <1>2 DEF Holding
  <2>2. v \in Short(RulesOf(version)) /\ rules[v] = part
    BY <2>1, RuleListHolds, Zenon DEF Holding
  <2>. HIDE DEF rules, part
  <2>3. Holding(SinceCells(7, version, <<>>, rules), v,
                IF version >= 7 THEN Short(RulesOf(version)) ELSE {<<>>}, Since(7, version, part))
    BY <1>1, <1>2, <2>2 DEF Holding
  <2>. QED  BY <2>3 DEF rules, part
<1>3. CASE ~(version >= 7)
  <2>. HIDE DEF rules, part
  <2>1. Holding(SinceCells(7, version, <<>>, rules), v,
                IF version >= 7 THEN Short(RulesOf(version)) ELSE {<<>>}, Since(7, version, part))
    BY <1>1, <1>3 DEF Holding, Since
  <2>. QED  BY <2>1 DEF rules, part
<1>. QED  BY <1>2, <1>3

LEMMA PresentHolds ==
    ASSUME NEW version, NEW v, v \in DOMAIN SinceCells(8, version, FALSE, FlagCells)
    PROVE  Holding(SinceCells(8, version, FALSE, FlagCells), v,
                   IF version >= 8 THEN BOOLEAN ELSE {FALSE},
                   Since(8, version, PutFlag(v)))
<1>1. Holding(SinceCells(8, version, FALSE, FlagCells), v,
              IF version >= 8 THEN DOMAIN FlagCells ELSE {FALSE}, Since(8, version, FlagCells[v]))
  BY SinceHolds
<1>2. CASE version >= 8
  <2>1. v \in DOMAIN FlagCells
    BY <1>1, <1>2, Zenon DEF Holding
  <2>2. v \in BOOLEAN /\ FlagCells[v] = PutFlag(v)
    BY <2>1, ScalarsHold, Zenon DEF Holding
  <2>. QED  BY <1>1, <1>2, <2>2, Zenon DEF Holding
<1>3. CASE ~(version >= 8)
  BY <1>1, <1>3, Zenon DEF Holding, Since
<1>. QED  BY <1>2, <1>3

LEMMA BodyBuilds ==
    ASSUME NEW version, NEW bytes
    PROVE  Builds(BodyCells(version), BodyFields(version, bytes), EachOfBody(version), 21)
<1>. SUFFICES ASSUME NEW vs, vs = [i \in 1..21 |-> vs[i]],
                     \A i \in 1..21 : vs[i] \in DOMAIN EachOfBody(version)[i]
              PROVE  \E s \in DOMAIN BodyCells(version) :
                        /\ Named(BodyFields(version, bytes), 21, s)
                        /\ \A i \in 1..21 : s[BodyFields(version, bytes)[i][1]] = vs[i]
                        /\ BodyCells(version)[s]
                             = FlattenSeq([i \in 1..21 |-> EachOfBody(version)[i][vs[i]]])
  BY BodyRead DEF Builds
<1>. DEFINE s == [rootPrincipal |-> vs[1], articles |-> vs[2], handoff |-> vs[3],
                  recovery |-> vs[4], objective |-> vs[5], current |-> vs[6],
                  checkpointRef |-> vs[7], candidateRef |-> vs[8], nextBoundaryRef |-> vs[9],
                  repositories |-> vs[10], roadmap |-> vs[11], decisions |-> vs[12],
                  memory |-> vs[13], obligations |-> vs[14], evidence |-> vs[15],
                  conflicts |-> vs[16], profiles |-> vs[17], views |-> vs[18],
                  present |-> vs[19], rules |-> vs[20], roles |-> vs[21]]
            each == EachOfBody(version)
            fields == BodyFields(version, bytes)
            parts == <<PutText(s.rootPrincipal), PutTexts(s.articles),
                       PutList([i \in DOMAIN s.handoff |-> PutHandoff(s.handoff[i])]),
                       PutList([i \in DOMAIN s.recovery |-> PutRecovery(s.recovery[i])]),
                       PutText(s.objective), PutText(s.current), PutText(s.checkpointRef),
                       PutText(s.candidateRef), PutText(s.nextBoundaryRef),
                       PutText(s.repositories), PutText(s.roadmap),
                       PutList([i \in DOMAIN s.decisions |-> PutDecision(s.decisions[i])]),
                       PutList([i \in DOMAIN s.memory |-> PutMemory(s.memory[i])]),
                       PutList([i \in DOMAIN s.obligations |-> PutObligation(s.obligations[i])]),
                       PutList([i \in DOMAIN s.evidence |-> PutEvidence(s.evidence[i])]),
                       PutList([i \in DOMAIN s.conflicts |-> PutConflict(s.conflicts[i])]),
                       PutList([i \in DOMAIN s.profiles |-> PutProfile(s.profiles[i])]),
                       PutList([i \in DOMAIN s.views |-> PutView(s.views[i])]),
                       Since(8, version, PutFlag(s.present)),
                       Since(7, version, PutList([i \in DOMAIN s.rules |-> PutRule(version, s.rules[i])])),
                       PutList([i \in DOMAIN s.roles |-> PutRole(s.roles[i])])>>
            Of(i) == each[i][vs[i]] = parts[i] /\ s[fields[i][1]] = vs[i]
<1>0. /\ s.rootPrincipal = vs[1] /\ s.articles = vs[2] /\ s.handoff = vs[3]
      /\ s.recovery = vs[4] /\ s.objective = vs[5] /\ s.current = vs[6]
      /\ s.checkpointRef = vs[7] /\ s.candidateRef = vs[8] /\ s.nextBoundaryRef = vs[9]
      /\ s.repositories = vs[10] /\ s.roadmap = vs[11] /\ s.decisions = vs[12]
      /\ s.memory = vs[13] /\ s.obligations = vs[14] /\ s.evidence = vs[15]
      /\ s.conflicts = vs[16] /\ s.profiles = vs[17] /\ s.views = vs[18] /\ s.present = vs[19]
      /\ s.rules = vs[20] /\ s.roles = vs[21]
  OBVIOUS
<1>1. Named(fields, 21, s)
  <2>1. DOMAIN s = DOMAIN BodyPlace /\ s = [name \in DOMAIN s |-> s[name]]
    BY DEF BodyPlace
  <2>. HIDE DEF s, fields
  <2>. QED  BY <2>1, BodyNamed, Zenon DEF fields
<1>. HIDE DEF s
<1>2. Holding(TextCells, s.rootPrincipal, Scalars, PutText(s.rootPrincipal))
  <2>1. s.rootPrincipal \in DOMAIN TextCells
    BY <1>0 DEF EachOfBody
  <2>. QED  BY <2>1, ScalarsHold
<1>3. Holding(ListCells(TextCells), s.articles, Short(Scalars), PutTexts(s.articles))
  <2>1. s.articles \in DOMAIN ListCells(TextCells)
    BY <1>0 DEF EachOfBody
  <2>. QED  BY <2>1, ScalarListsHold, Zenon
<1>4. Holding(ListCells(HandoffCells), s.handoff,
             Short(StoredHandoff),
             PutList([i \in DOMAIN s.handoff |-> PutHandoff(s.handoff[i])]))
  <2>1. s.handoff \in DOMAIN ListCells(HandoffCells)
    BY <1>0 DEF EachOfBody
  <2>. QED  BY <2>1, RecordListsHold, Zenon
<1>5. Holding(ListCells(RecoveryCells), s.recovery,
             Short(StoredRecovery),
             PutList([i \in DOMAIN s.recovery |-> PutRecovery(s.recovery[i])]))
  <2>1. s.recovery \in DOMAIN ListCells(RecoveryCells)
    BY <1>0 DEF EachOfBody
  <2>. QED  BY <2>1, RecordListsHold, Zenon
<1>6. Holding(TextCells, s.objective, Scalars, PutText(s.objective))
  <2>1. s.objective \in DOMAIN TextCells
    BY <1>0 DEF EachOfBody
  <2>. QED  BY <2>1, ScalarsHold
<1>7. Holding(TextCells, s.current, Scalars, PutText(s.current))
  <2>1. s.current \in DOMAIN TextCells
    BY <1>0 DEF EachOfBody
  <2>. QED  BY <2>1, ScalarsHold
<1>8. Holding(TextCells, s.checkpointRef, Scalars, PutText(s.checkpointRef))
  <2>1. s.checkpointRef \in DOMAIN TextCells
    BY <1>0 DEF EachOfBody
  <2>. QED  BY <2>1, ScalarsHold
<1>9. Holding(TextCells, s.candidateRef, Scalars, PutText(s.candidateRef))
  <2>1. s.candidateRef \in DOMAIN TextCells
    BY <1>0 DEF EachOfBody
  <2>. QED  BY <2>1, ScalarsHold
<1>10. Holding(TextCells, s.nextBoundaryRef, Scalars, PutText(s.nextBoundaryRef))
  <2>1. s.nextBoundaryRef \in DOMAIN TextCells
    BY <1>0 DEF EachOfBody
  <2>. QED  BY <2>1, ScalarsHold
<1>11. Holding(TextCells, s.repositories, Scalars, PutText(s.repositories))
  <2>1. s.repositories \in DOMAIN TextCells
    BY <1>0 DEF EachOfBody
  <2>. QED  BY <2>1, ScalarsHold
<1>12. Holding(TextCells, s.roadmap, Scalars, PutText(s.roadmap))
  <2>1. s.roadmap \in DOMAIN TextCells
    BY <1>0 DEF EachOfBody
  <2>. QED  BY <2>1, ScalarsHold
<1>13. Holding(ListCells(DecisionCells), s.decisions,
             Short(StoredDecision),
             PutList([i \in DOMAIN s.decisions |-> PutDecision(s.decisions[i])]))
  <2>1. s.decisions \in DOMAIN ListCells(DecisionCells)
    BY <1>0 DEF EachOfBody
  <2>. QED  BY <2>1, RecordListsHold, Zenon
<1>14. Holding(ListCells(MemoryCells), s.memory,
             Short(StoredMemory),
             PutList([i \in DOMAIN s.memory |-> PutMemory(s.memory[i])]))
  <2>1. s.memory \in DOMAIN ListCells(MemoryCells)
    BY <1>0 DEF EachOfBody
  <2>. QED  BY <2>1, RecordListsHold, Zenon
<1>15. Holding(ListCells(ObligationCells), s.obligations,
             Short(StoredObligation),
             PutList([i \in DOMAIN s.obligations |-> PutObligation(s.obligations[i])]))
  <2>1. s.obligations \in DOMAIN ListCells(ObligationCells)
    BY <1>0 DEF EachOfBody
  <2>. QED  BY <2>1, RecordListsHold, Zenon
<1>16. Holding(ListCells(EvidenceCells), s.evidence,
             Short(StoredEvidence),
             PutList([i \in DOMAIN s.evidence |-> PutEvidence(s.evidence[i])]))
  <2>1. s.evidence \in DOMAIN ListCells(EvidenceCells)
    BY <1>0 DEF EachOfBody
  <2>. QED  BY <2>1, RecordListsHold, Zenon
<1>17. Holding(ListCells(ConflictCells), s.conflicts,
             Short(StoredConflict),
             PutList([i \in DOMAIN s.conflicts |-> PutConflict(s.conflicts[i])]))
  <2>1. s.conflicts \in DOMAIN ListCells(ConflictCells)
    BY <1>0 DEF EachOfBody
  <2>. QED  BY <2>1, RecordListsHold, Zenon
<1>18. Holding(ListCells(ProfileCells), s.profiles,
             Short(StoredProfile),
             PutList([i \in DOMAIN s.profiles |-> PutProfile(s.profiles[i])]))
  <2>1. s.profiles \in DOMAIN ListCells(ProfileCells)
    BY <1>0 DEF EachOfBody
  <2>. QED  BY <2>1, RecordListsHold, Zenon
<1>19. Holding(ListCells(ViewCells), s.views,
             Short(StoredView),
             PutList([i \in DOMAIN s.views |-> PutView(s.views[i])]))
  <2>1. s.views \in DOMAIN ListCells(ViewCells)
    BY <1>0 DEF EachOfBody
  <2>. QED  BY <2>1, RecordListsHold, Zenon
<1>20. Holding(SinceCells(8, version, FALSE, FlagCells), s.present,
             IF version >= 8 THEN BOOLEAN ELSE {FALSE},
             Since(8, version, PutFlag(s.present)))
  <2>1. s.present \in DOMAIN SinceCells(8, version, FALSE, FlagCells)
    <3>1. EachOfBody(version)[19] = SinceCells(8, version, FALSE, FlagCells)
      BY DEF EachOfBody
    <3>2. vs[19] \in DOMAIN EachOfBody(version)[19]
      OBVIOUS
    <3>. QED  BY <1>0, <3>1, <3>2, Zenon
  <2>. QED  BY <2>1, PresentHolds, Zenon
<1>21. Holding(SinceCells(7, version, <<>>, ListCells(RuleCells(version))), s.rules,
             IF version >= 7 THEN Short(RulesOf(version)) ELSE {<<>>},
             Since(7, version, PutList([i \in DOMAIN s.rules |-> PutRule(version, s.rules[i])])))
  <2>1. s.rules \in DOMAIN SinceCells(7, version, <<>>, ListCells(RuleCells(version)))
    BY <1>0 DEF EachOfBody
  <2>. QED  BY <2>1, RulesHold, Zenon
<1>22. Holding(ListCells(RoleCells), s.roles,
             Short(StoredRole),
             PutList([i \in DOMAIN s.roles |-> PutRole(s.roles[i])]))
  <2>1. s.roles \in DOMAIN ListCells(RoleCells)
    BY <1>0 DEF EachOfBody
  <2>. QED  BY <2>1, RecordListsHold, Zenon
<1>23. \A i \in 1..21 : Of(i)
  <2>1. Of(1)  BY <1>0, <1>2 DEF Holding, EachOfBody, BodyFields
  <2>2. Of(2)  BY <1>0, <1>3 DEF Holding, EachOfBody, BodyFields
  <2>3. Of(3)  BY <1>0, <1>4 DEF Holding, EachOfBody, BodyFields
  <2>4. Of(4)  BY <1>0, <1>5 DEF Holding, EachOfBody, BodyFields
  <2>5. Of(5)  BY <1>0, <1>6 DEF Holding, EachOfBody, BodyFields
  <2>6. Of(6)  BY <1>0, <1>7 DEF Holding, EachOfBody, BodyFields
  <2>7. Of(7)  BY <1>0, <1>8 DEF Holding, EachOfBody, BodyFields
  <2>8. Of(8)  BY <1>0, <1>9 DEF Holding, EachOfBody, BodyFields
  <2>9. Of(9)  BY <1>0, <1>10 DEF Holding, EachOfBody, BodyFields
  <2>10. Of(10)  BY <1>0, <1>11 DEF Holding, EachOfBody, BodyFields
  <2>11. Of(11)  BY <1>0, <1>12 DEF Holding, EachOfBody, BodyFields
  <2>12. Of(12)  BY <1>0, <1>13 DEF Holding, EachOfBody, BodyFields
  <2>13. Of(13)  BY <1>0, <1>14 DEF Holding, EachOfBody, BodyFields
  <2>14. Of(14)  BY <1>0, <1>15 DEF Holding, EachOfBody, BodyFields
  <2>15. Of(15)  BY <1>0, <1>16 DEF Holding, EachOfBody, BodyFields
  <2>16. Of(16)  BY <1>0, <1>17 DEF Holding, EachOfBody, BodyFields
  <2>17. Of(17)  BY <1>0, <1>18 DEF Holding, EachOfBody, BodyFields
  <2>18. Of(18)  BY <1>0, <1>19 DEF Holding, EachOfBody, BodyFields
  <2>19. Of(19)  BY <1>0, <1>20 DEF Holding, EachOfBody, BodyFields
  <2>20. Of(20)  BY <1>0, <1>21 DEF Holding, EachOfBody, BodyFields
  <2>21. Of(21)  BY <1>0, <1>22 DEF Holding, EachOfBody, BodyFields
  <2>. HIDE DEF Of
  <2>22. \A i \in 1..21 :
          i = 1 \/ i = 2 \/ i = 3 \/ i = 4 \/ i = 5 \/ i = 6 \/ i = 7 \/
          i = 8 \/ i = 9 \/ i = 10 \/ i = 11 \/ i = 12 \/ i = 13 \/ i = 14 \/
          i = 15 \/ i = 16 \/ i = 17 \/ i = 18 \/ i = 19 \/ i = 20 \/ i = 21
    BY SMTT(30)
  <2>. QED  BY <2>1, <2>2, <2>3, <2>4, <2>5, <2>6, <2>7, <2>8, <2>9, <2>10, <2>11,
               <2>12, <2>13, <2>14, <2>15, <2>16, <2>17, <2>18, <2>19, <2>20, <2>21, <2>22, ZenonT(40)
<1>24. s \in BodyOf(version)
  <2>1. s = [rootPrincipal |-> s.rootPrincipal, articles |-> s.articles,
             handoff |-> s.handoff, recovery |-> s.recovery, objective |-> s.objective,
             current |-> s.current, checkpointRef |-> s.checkpointRef,
             candidateRef |-> s.candidateRef, nextBoundaryRef |-> s.nextBoundaryRef,
             repositories |-> s.repositories, roadmap |-> s.roadmap,
             decisions |-> s.decisions, memory |-> s.memory, obligations |-> s.obligations,
             evidence |-> s.evidence, conflicts |-> s.conflicts, profiles |-> s.profiles,
             views |-> s.views, present |-> s.present, rules |-> s.rules, roles |-> s.roles]
    BY DEF s
  <2>. QED  BY <2>1, <1>2, <1>3, <1>4, <1>5, <1>6, <1>7, <1>8, <1>9, <1>10, <1>11, <1>12, <1>13,
               <1>14, <1>15, <1>16, <1>17, <1>18, <1>19, <1>20, <1>21, <1>22
            DEF Holding, BodyOf
<1>25. PutSnapshot(version, s) = FlattenSeq(parts)
  BY DEF PutSnapshot
<1>26. parts = [i \in 1..21 |-> parts[i]]
  OBVIOUS
<1>. HIDE DEF each, fields, parts
<1>27. [i \in 1..21 |-> each[i][vs[i]]] = parts
  BY <1>23, <1>26
<1>28. \A i \in 1..21 : s[fields[i][1]] = vs[i]
  BY <1>23
<1>29. BodyCells(version)[s] = FlattenSeq([i \in 1..21 |-> each[i][vs[i]]])
  BY <1>24, <1>25, <1>27 DEF BodyCells
<1>30. s \in DOMAIN BodyCells(version)
  BY <1>24 DEF BodyCells
<1>. QED  BY <1>1, <1>28, <1>29, <1>30, Zenon DEF each, fields

LEMMA BodyFaithful ==
    ASSUME NEW bytes \in Seq(Cells), NEW version \in Nat
    PROVE  Faithful(ReadBody(version, bytes), bytes, BodyCells(version))
<1>. DEFINE fields == BodyFields(version, bytes)
            each == EachOfBody(version)
            Of(i) == Faithful(fields[i][2], bytes, each[i])
<1>1. Faithful(ReadSince(8, version, bytes, ReadFlag(bytes), FALSE), bytes,
               SinceCells(8, version, FALSE, FlagCells))
  BY FlagFaithful, SinceFaithful
<1>2. Faithful(ReadSince(7, version, bytes, ReadList(bytes, ReadRule(version, bytes)), <<>>),
               bytes, SinceCells(7, version, <<>>, ListCells(RuleCells(version))))
  BY RuleFaithful, ListCellsFaithful, SinceFaithful
<1>3. \A i \in 1..21 : Of(i)
  <2>1. Of(1)  BY TextFaithful DEF EachOfBody, BodyFields
  <2>2. Of(2)  BY ScalarListsFaithful DEF EachOfBody, BodyFields
  <2>3. Of(3)  BY RecordListsFaithful DEF EachOfBody, BodyFields
  <2>4. Of(4)  BY RecordListsFaithful DEF EachOfBody, BodyFields
  <2>5. Of(5)  BY TextFaithful DEF EachOfBody, BodyFields
  <2>6. Of(6)  BY TextFaithful DEF EachOfBody, BodyFields
  <2>7. Of(7)  BY TextFaithful DEF EachOfBody, BodyFields
  <2>8. Of(8)  BY TextFaithful DEF EachOfBody, BodyFields
  <2>9. Of(9)  BY TextFaithful DEF EachOfBody, BodyFields
  <2>10. Of(10)  BY TextFaithful DEF EachOfBody, BodyFields
  <2>11. Of(11)  BY TextFaithful DEF EachOfBody, BodyFields
  <2>12. Of(12)  BY RecordListsFaithful DEF EachOfBody, BodyFields
  <2>13. Of(13)  BY RecordListsFaithful DEF EachOfBody, BodyFields
  <2>14. Of(14)  BY RecordListsFaithful DEF EachOfBody, BodyFields
  <2>15. Of(15)  BY RecordListsFaithful DEF EachOfBody, BodyFields
  <2>16. Of(16)  BY RecordListsFaithful DEF EachOfBody, BodyFields
  <2>17. Of(17)  BY RecordListsFaithful DEF EachOfBody, BodyFields
  <2>18. Of(18)  BY RecordListsFaithful DEF EachOfBody, BodyFields
  <2>19. Of(19)  BY <1>1 DEF EachOfBody, BodyFields
  <2>20. Of(20)  BY <1>2 DEF EachOfBody, BodyFields
  <2>21. Of(21)  BY RecordListsFaithful DEF EachOfBody, BodyFields
  <2>. HIDE DEF Of
  <2>22. \A i \in 1..21 :
          i = 1 \/ i = 2 \/ i = 3 \/ i = 4 \/ i = 5 \/ i = 6 \/ i = 7 \/
          i = 8 \/ i = 9 \/ i = 10 \/ i = 11 \/ i = 12 \/ i = 13 \/ i = 14 \/
          i = 15 \/ i = 16 \/ i = 17 \/ i = 18 \/ i = 19 \/ i = 20 \/ i = 21
    BY SMTT(30)
  <2>. QED  BY <2>1, <2>2, <2>3, <2>4, <2>5, <2>6, <2>7, <2>8, <2>9, <2>10, <2>11,
               <2>12, <2>13, <2>14, <2>15, <2>16, <2>17, <2>18, <2>19, <2>20, <2>21, <2>22, Zenon
<1>. HIDE DEF fields, each
<1>4. Builds(BodyCells(version), fields, each, 21)
  BY BodyBuilds, Zenon DEF fields, each
<1>5. Faithful(ReadRecord(bytes, fields), bytes, BodyCells(version))
  BY <1>3, <1>4, RecordFaithful
<1>. QED  BY <1>5, BodyRead, Zenon DEF fields

---------------------------------------------------------------------------
(* Any bytes that are read as a snapshot. *)

\* What is restored of bytes, of whatever origin, is written as these bytes again.
LEMMA SnapshotFaithful ==
    ASSUME NEW bytes \in Seq(Cells), ReadSnapshot(bytes).error = "None"
    PROVE  \E version \in SupportedVersions : \E s \in BodyOf(version) :
              /\ bytes[1] = Cell("u8", version)
              /\ ReadSnapshot(bytes).snapshot = <<Presented(version, s)>>
              /\ Held(bytes, 1, Len(bytes) + 1, Bytes(version, s))
<1>. DEFINE raw == Take("u8", bytes, 1)
            version == bytes[1].value
            body == ReadBody(version, bytes)
            s == body[2].value
<1>1. ~Failing(raw)
  BY DEF ReadSnapshot, Failing
<1>2. 1 \in Positions(bytes) /\ Len(bytes) \in Nat
  BY DEF Positions
<1>3. /\ 1 \in 1..Len(bytes) /\ bytes[1] \in Cells /\ bytes[1].width = "u8"
      /\ raw = Got(2, version)
      /\ \A cell \in Cells : Alike(bytes[1], cell) => Held(bytes, 1, 2, <<cell>>)
  BY <1>1, <1>2, TakenIsHeld
<1>4. bytes[1] = Cell("u8", version) /\ version \in Nat
  BY <1>3 DEF Cells, Cell
<1>. HIDE DEF body
<1>5. version \in SupportedVersions
  BY <1>1, <1>3 DEF ReadSnapshot, Got, Refused, Failing
<1>6. /\ ~Failing(AtEnd(bytes, body[2]))
      /\ ReadSnapshot(bytes).snapshot = <<Presented(version, AtEnd(bytes, body[2]).value)>>
  BY <1>1, <1>3, <1>5 DEF ReadSnapshot, Got, Failing, Presented, body
<1>7. /\ ~Failing(body[2]) /\ AtEnd(bytes, body[2]) = body[2] /\ ~(body[2].at <= Len(bytes))
  BY <1>6 DEF AtEnd, Refused, Failing
<1>8. s \in DOMAIN BodyCells(version) /\ Held(bytes, 2, body[2].at, BodyCells(version)[s])
  <2>1. Faithful(body, bytes, BodyCells(version))
    BY <1>4, BodyFaithful DEF body
  <2>2. 2 \in Positions(bytes)
    BY <1>3, <1>2 DEF Positions
  <2>. QED  BY <1>7, <2>1, <2>2 DEF Faithful
<1>9. s \in BodyOf(version) /\ BodyCells(version)[s] = PutSnapshot(version, s)
  BY <1>8 DEF BodyCells
<1>10. body[2].at = Len(bytes) + 1
  BY <1>2, <1>7, <1>8 DEF Held, Positions
<1>11. Held(bytes, 1, 2, <<Cell("u8", version)>>)
  BY <1>3, <1>4 DEF Alike
<1>12. Held(bytes, 1, Len(bytes) + 1, Bytes(version, s))
  BY <1>8, <1>9, <1>10, <1>11, HeldTogether, Zenon DEF Bytes
<1>13. ReadSnapshot(bytes).snapshot = <<Presented(version, s)>>
  BY <1>6, <1>7
<1>. HIDE DEF version, s
<1>. QED  BY <1>4, <1>5, <1>9, <1>12, <1>13, Zenon DEF version

LEMMA CorruptedAreCells ==
    ASSUME NEW bytes \in Seq(Cells), NEW damaged \in Corrupted(bytes)
    PROVE  /\ damaged \in Seq(Cells) /\ Len(damaged) = Len(bytes)
           /\ bytes[1] = Cell("u8", 8) => damaged[1] \in {Cell("u8", 8), Cell("u8", 255)}
<1>1. PICK i \in 1..Len(bytes), n \in Nat :
         /\ bytes[i].width \in {"u8", "u32"} /\ (bytes[i].width = "u8" => n = 255)
         /\ damaged = [bytes EXCEPT ![i].value = n]
  <2>1. \/ \E i \in DOMAIN bytes :
              bytes[i].width = "u8" /\ damaged = [bytes EXCEPT ![i].value = 255]
        \/ \E i \in DOMAIN bytes :
              bytes[i].width = "u32" /\ damaged = [bytes EXCEPT ![i].value = MaxRecords + 1]
    BY SMTT(30) DEF Corrupted
  <2>2. DOMAIN bytes = 1..Len(bytes) /\ 255 \in Nat /\ MaxRecords + 1 \in Nat
    BY MaxRecordsAssumption
  <2>3. "u8" # "u32"
    OBVIOUS
  <2>. QED  BY <2>1, <2>2, <2>3, ZenonT(30)
<1>. DEFINE cell == [bytes[i] EXCEPT !.value = n]
<1>2. bytes[i] \in Cells /\ damaged = [bytes EXCEPT ![i] = cell]
  BY <1>1
<1>3. cell \in Cells /\ (bytes[i] = Cell("u8", 8) => cell = Cell("u8", 255))
  BY <1>1, <1>2 DEF Cells, Cell
<1>. HIDE DEF cell, Cells
<1>4. damaged \in Seq(Cells) /\ Len(damaged) = Len(bytes)
  BY <1>2, <1>3
<1>5. damaged[1] \in {bytes[1], cell} /\ (damaged[1] = cell => i = 1 \/ damaged[1] = bytes[1])
  BY <1>2
<1>. QED  BY <1>3, <1>4, <1>5

\* A corrupted head of any tree the specification reaches is refused, or what is restored
\* of it is what its bytes say: no byte is passed over or taken for another value, but a
\* flag that any byte but zero sets (enumValue, cappedCount and the trailing check of
\* deserializeImpl).  As in the runs, a field read at another field's width is refused.
THEOREM DamageRefused == Spec => []DamageIsRefused
<1>1. TypeOK => DamageIsRefused
  <2>. SUFFICES ASSUME TypeOK, NEW policy \in ShortPolicies, Readable(tree),
                       NEW damaged \in Corrupted(Stored(tree, policy)),
                       ReadSnapshot(damaged).error = "None",
                       NEW again, again = Bytes(8, ReadSnapshot(damaged).snapshot[1])
                PROVE  /\ Len(again) = Len(damaged)
                       /\ \A i \in DOMAIN damaged : Alike(damaged[i], again[i])
    BY Zenon DEF DamageIsRefused
  <2>. DEFINE s == Snapshot(tree, policy, <<Last(default_role_specs)>>)
              bytes == Bytes(8, s)
  <2>1. s \in StoredSnapshot
    <3>1. tree \in Tree /\ policy \in Policies
      BY ShortPoliciesExist DEF TypeOK
    <3>2. <<Last(default_role_specs)>> \in Short(StoredRole)
      BY RolesAreStored, Zenon
    <3>. QED  BY <3>1, <3>2, SnapshotIsStored DEF Readable
  <2>2. damaged \in Corrupted(bytes)
    BY DEF Stored
  <2>. HIDE DEF s
  <2>3. bytes \in Seq(Cells)
    BY <2>1, BytesAreCells DEF SupportedVersions
  <2>4. bytes[1] = Cell("u8", 8)
    <3>1. PutSnapshot(8, s) \in Seq(Cells)
      <4>1. Len(<<>>) \in Nat /\ 8 \in Nat
        OBVIOUS
      <4>. QED  BY <2>1, <4>1, BodyReads DEF Reads
    <3>. QED  BY <3>1, ConcatProperties DEF Bytes
  <2>. HIDE DEF bytes
  <2>5. damaged \in Seq(Cells) /\ damaged[1] \in {Cell("u8", 8), Cell("u8", 255)}
    BY <2>2, <2>3, <2>4, CorruptedAreCells
  <2>6. PICK version \in SupportedVersions : \E v \in BodyOf(version) :
              /\ damaged[1] = Cell("u8", version)
              /\ ReadSnapshot(damaged).snapshot = <<Presented(version, v)>>
              /\ Held(damaged, 1, Len(damaged) + 1, Bytes(version, v))
    BY <2>5, SnapshotFaithful, Zenon
  <2>7. version = 8
    BY <2>5, <2>6 DEF Cell, SupportedVersions
  <2>8. ReadSnapshot(damaged).snapshot[1] \in BodyOf(8)
        /\ Held(damaged, 1, Len(damaged) + 1, again)
    BY <2>6, <2>7 DEF Presented
  <2>9. again \in Seq(Cells) /\ Len(damaged) + 1 = 1 + Len(again)
        /\ \A i \in 1..Len(again) : Alike(damaged[1 + i - 1], again[i])
    BY <2>8 DEF Held
  <2>10. Len(again) = Len(damaged) /\ DOMAIN damaged = 1..Len(again)
    BY <2>5, <2>9
  <2>11. ASSUME NEW i \in 1..Len(again) PROVE Alike(damaged[i], again[i])
    <3>1. 1 + i - 1 = i
      OBVIOUS
    <3>. QED  BY <2>9, <3>1
  <2>. QED  BY <2>10, <2>11
<1>. QED  BY <1>1, TypeCorrect, PTL
=============================================================================
