------------------------------ MODULE WireProofs ------------------------------
(***************************************************************************)
(* Each side of a connection finds the messages the other side wrote, for  *)
(* any list of devices, any sizes of fields and any commands.              *)
(***************************************************************************)
EXTENDS Wire, SequenceTheorems, WellFoundedInduction, TLAPS

-----------------------------------------------------------------------------
(* Induction, as a fact about sets of numbers.                             *)

LEMMA LeastMember ==
  ASSUME NEW T \in SUBSET Nat, T # {}
  PROVE  \E m \in T : \A k \in T : m <= k
  <1> DEFINE R == OpToRel(<, Nat)
  <1>1. IsWellFoundedOn(R, Nat)
    BY NatLessThanWellFounded
  <1>2. \E m \in T : \A k \in T : ~(<<k, m>> \in R)
    <2> HIDE DEF R
    <2> QED BY <1>1, WFMin
  <1>3. PICK m \in T : \A k \in T : ~(<<k, m>> \in R)
    BY <1>2
  <1>4. ASSUME NEW k \in T PROVE m <= k
    <2>1. ~(<<k, m>> \in R)
      BY <1>3
    <2>2. k \in Nat /\ m \in Nat
      OBVIOUS
    <2> QED
      BY <2>1, <2>2 DEF OpToRel
  <1> QED
    BY <1>4

LEMMA Induction ==
  ASSUME NEW S, 0 \in S, \A n \in Nat : n \in S => n + 1 \in S
  PROVE  Nat \subseteq S
  <1>1. SUFFICES ASSUME NEW T \in SUBSET Nat, T = Nat \ S, T # {} PROVE FALSE
    OBVIOUS
  <1>2. PICK m \in T : \A k \in T : m <= k
    BY <1>1, LeastMember
  <1>3. m # 0 /\ m - 1 \in Nat /\ (m - 1) + 1 = m
    BY <1>1
  <1>4. m - 1 \notin T
    BY <1>2, <1>3
  <1> QED
    BY <1>1, <1>3, <1>4
-----------------------------------------------------------------------------
(* Concatenation, and that of many messages: FlattenSeq.                   *)

\* The concatenation of two streams; the provers take `\o` apart where they see it.
Cat(a, b) == a \o b

LEMMA CatType ==
  ASSUME NEW a \in Seq(Nat), NEW b \in Seq(Nat)
  PROVE  Cat(a, b) \in Seq(Nat) /\ Len(Cat(a, b)) = Len(a) + Len(b)
  BY DEF Cat

LEMMA CatEmpty ==
  ASSUME NEW a \in Seq(Nat)
  PROVE  Cat(<<>>, a) = a /\ Cat(a, <<>>) = a
  BY DEF Cat

LEMMA CatAssociative ==
  ASSUME NEW a \in Seq(Nat), NEW b \in Seq(Nat), NEW c \in Seq(Nat)
  PROVE  Cat(Cat(a, b), c) = Cat(a, Cat(b, c))
  BY ConcatAssociative DEF Cat

LEMMA CatElements ==
  ASSUME NEW a \in Seq(Nat), NEW b \in Seq(Nat)
  PROVE  /\ \A i \in 1..Len(a) : Cat(a, b)[i] = a[i]
         /\ \A i \in 1..Len(b) : Cat(a, b)[Len(a) + i] = b[i]
  BY DEF Cat

\* A reader that takes as much as was written first has what was written first.
LEMMA CatSplit ==
  ASSUME NEW a \in Seq(Nat), NEW b \in Seq(Nat)
  PROVE  SubSeq(Cat(a, b), 1, Len(a)) = a /\ Drop(Cat(a, b), Len(a)) = b
  BY DEF Cat, Drop

\* `g` has the concatenation of each prefix of the first `m` messages of `q`.
Joins(g, q, m) ==
  /\ g \in [0..m -> Seq(Nat)]
  /\ g[0] = <<>>
  /\ \A i \in 1..m : g[i] = Cat(g[i - 1], q[i])

LEMMA JoinsExist ==
  ASSUME NEW q \in Seq(Seq(Nat))
  PROVE  \E g : Joins(g, q, Len(q))
  <1> DEFINE S == {m \in Nat : m <= Len(q) => \E g : Joins(g, q, m)}
  <1>1. 0 \in S
    <2>1. Joins([i \in 0..0 |-> <<>>], q, 0)
      BY DEF Joins
    <2> QED
      BY <2>1
  <1>2. ASSUME NEW m \in Nat, m \in S PROVE m + 1 \in S
    <2>1. SUFFICES ASSUME m + 1 <= Len(q) PROVE \E g : Joins(g, q, m + 1)
      OBVIOUS
    <2>2. PICK g : Joins(g, q, m)
      BY <1>2, <2>1
    <2> DEFINE h == [i \in 0..(m + 1) |-> IF i = m + 1 THEN Cat(g[m], q[m + 1]) ELSE g[i]]
    <2>3. q[m + 1] \in Seq(Nat) /\ g[m] \in Seq(Nat)
      BY <2>1, <2>2 DEF Joins
    <2>4. Cat(g[m], q[m + 1]) \in Seq(Nat)
      BY <2>3, CatType
    <2>5. h \in [0..(m + 1) -> Seq(Nat)]
      BY <2>2, <2>4 DEF Joins
    <2>6. h[0] = <<>> /\ h[m + 1] = Cat(g[m], q[m + 1]) /\ \A i \in 0..m : h[i] = g[i]
      BY <2>2 DEF Joins
    <2> HIDE DEF h
    <2>7. ASSUME NEW i \in 1..(m + 1) PROVE h[i] = Cat(h[i - 1], q[i])
      <3>1. CASE i = m + 1
        BY <2>6, <3>1
      <3>2. CASE i # m + 1
        <4>1. i \in 1..m /\ i - 1 \in 0..m /\ i \in 0..m
          BY <3>2
        <4> QED
          BY <2>2, <2>6, <4>1 DEF Joins
      <3> QED
        BY <3>1, <3>2
    <2>8. Joins(h, q, m + 1)
      BY <2>5, <2>6, <2>7 DEF Joins
    <2> QED
      BY <2>8
  <1> HIDE DEF S
  <1>3. Nat \subseteq S
    BY <1>1, <1>2, Induction
  <1> QED
    BY <1>3 DEF S

\* FlattenSeq is the last of the prefixes.
LEMMA FlattenJoins ==
  ASSUME NEW q \in Seq(Seq(Nat)), NEW g, Joins(g, q, Len(q))
  PROVE  FlattenSeq(q) = g[Len(q)]
  <1>1. CASE Len(q) = 0
    <2>1. q = <<>>
      BY <1>1
    <2> QED
      BY <1>1, <2>1 DEF FlattenSeq, Joins
  <1>2. CASE Len(q) # 0
    <2> DEFINE Rec(f) == f = [i \in 1..Len(q) |-> IF i = 1 THEN q[i] ELSE Cat(f[i - 1], q[i])]
               f == CHOOSE f : Rec(f)
    <2>1. FlattenSeq(q) = f[Len(q)]
      BY <1>2 DEF FlattenSeq, Cat
    <2> DEFINE h == [i \in 1..Len(q) |-> g[i]]
    <2>2. ASSUME NEW i \in 1..Len(q) PROVE h[i] = IF i = 1 THEN q[i] ELSE Cat(h[i - 1], q[i])
      <3>1. CASE i = 1
        <4>1. q[1] \in Seq(Nat)
          BY <1>2
        <4>2. g[1] = Cat(<<>>, q[1])
          BY <1>2 DEF Joins
        <4> QED
          BY <3>1, <4>1, <4>2, CatEmpty
      <3>2. CASE i # 1
        <4>1. g[i] = Cat(g[i - 1], q[i]) /\ i - 1 \in 1..Len(q)
          BY <3>2 DEF Joins
        <4> QED
          BY <3>2, <4>1
      <3> QED
        BY <3>1, <3>2
    <2>3. Rec(h)
      <3>1. h = [i \in 1..Len(q) |-> h[i]]
        OBVIOUS
      <3> HIDE DEF h
      <3> QED
        BY <2>2, <3>1
    <2> HIDE DEF h
    <2>4. Rec(f)
      BY <2>3
    <2> HIDE DEF f
    <2>5. \A i \in 1..Len(q) : f[i] = IF i = 1 THEN q[i] ELSE Cat(f[i - 1], q[i])
      BY <2>4
    <2> DEFINE S == {m \in Nat : m + 1 <= Len(q) => f[m + 1] = g[m + 1]}
    <2>6. 0 \in S
      <3>1. f[1] = q[1] /\ g[1] = Cat(<<>>, q[1]) /\ q[1] \in Seq(Nat)
        BY <1>2, <2>5 DEF Joins
      <3> QED
        BY <3>1, CatEmpty
    <2>7. ASSUME NEW m \in Nat, m \in S PROVE m + 1 \in S
      <3>1. SUFFICES ASSUME m + 2 <= Len(q) PROVE f[m + 2] = g[m + 2]
        OBVIOUS
      <3>2. f[m + 2] = Cat(f[m + 1], q[m + 2])
        BY <2>5, <3>1
      <3>3. g[m + 2] = Cat(g[m + 1], q[m + 2])
        BY <3>1 DEF Joins
      <3> QED
        BY <2>7, <3>1, <3>2, <3>3
    <2> HIDE DEF S
    <2>8. Nat \subseteq S
      BY <2>6, <2>7, Induction
    <2>9. Len(q) - 1 \in Nat /\ (Len(q) - 1) + 1 = Len(q)
      BY <1>2
    <2>10. f[Len(q)] = g[Len(q)]
      <3>1. Len(q) - 1 \in S
        BY <2>8, <2>9
      <3> QED
        BY <2>9, <3>1 DEF S
    <2> QED
      BY <2>1, <2>10
  <1> QED
    BY <1>1, <1>2

LEMMA FlattenType ==
  ASSUME NEW q \in Seq(Seq(Nat))
  PROVE  FlattenSeq(q) \in Seq(Nat)
  <1>1. PICK g : Joins(g, q, Len(q))
    BY JoinsExist
  <1>2. Len(q) \in 0..Len(q)
    OBVIOUS
  <1> QED
    BY <1>1, <1>2, FlattenJoins DEF Joins

LEMMA FlattenEmpty == FlattenSeq(<<>>) = <<>>
  BY DEF FlattenSeq

\* A message written is at the end of the stream.
LEMMA FlattenAppend ==
  ASSUME NEW q \in Seq(Seq(Nat)), NEW e \in Seq(Nat)
  PROVE  FlattenSeq(Append(q, e)) = Cat(FlattenSeq(q), e)
  <1>1. PICK g : Joins(g, q, Len(q))
    BY JoinsExist
  <1> DEFINE r == Append(q, e)
             h == [i \in 0..(Len(q) + 1) |-> IF i = Len(q) + 1 THEN Cat(g[Len(q)], e) ELSE g[i]]
  <1>2. r \in Seq(Seq(Nat)) /\ Len(r) = Len(q) + 1 /\ r[Len(q) + 1] = e
    OBVIOUS
  <1>3. \A i \in 1..Len(q) : r[i] = q[i]
    OBVIOUS
  <1>4. g[Len(q)] \in Seq(Nat)
    <2>1. Len(q) \in 0..Len(q)
      OBVIOUS
    <2> QED
      BY <1>1, <2>1 DEF Joins
  <1>5. Cat(g[Len(q)], e) \in Seq(Nat)
    BY <1>4, CatType
  <1>6. h \in [0..(Len(q) + 1) -> Seq(Nat)]
    BY <1>1, <1>5 DEF Joins
  <1>7. h[0] = <<>> /\ h[Len(q) + 1] = Cat(g[Len(q)], e) /\ \A i \in 0..Len(q) : h[i] = g[i]
    BY <1>1 DEF Joins
  <1> HIDE DEF r, h
  <1>8. ASSUME NEW i \in 1..(Len(q) + 1) PROVE h[i] = Cat(h[i - 1], r[i])
    <2>0. Len(q) \in Nat
      OBVIOUS
    <2>1. CASE i = Len(q) + 1
      <3>1. i - 1 = Len(q) /\ Len(q) \in 0..Len(q)
        BY <2>0, <2>1
      <3>2. h[i - 1] = g[Len(q)]
        BY <1>7, <3>1
      <3> QED
        BY <1>2, <1>7, <2>1, <3>2
    <2>2. CASE i # Len(q) + 1
      <3>1. i \in 1..Len(q) /\ i - 1 \in 0..Len(q) /\ i \in 0..Len(q)
        BY <2>0, <2>2
      <3>2. g[i] = Cat(g[i - 1], q[i])
        BY <1>1, <3>1 DEF Joins
      <3> QED
        BY <1>3, <1>7, <3>1, <3>2
    <2> QED
      BY <2>1, <2>2
  <1>9. Joins(h, r, Len(r))
    BY <1>2, <1>6, <1>7, <1>8 DEF Joins
  <1>10. FlattenSeq(r) = h[Len(r)]
    BY <1>2, <1>9, FlattenJoins
  <1>11. FlattenSeq(q) = g[Len(q)]
    BY <1>1, FlattenJoins
  <1> QED
    BY <1>2, <1>7, <1>10, <1>11 DEF r

\* The first message is at its beginning.
LEMMA FlattenHead ==
  ASSUME NEW q \in Seq(Seq(Nat)), q # <<>>
  PROVE  FlattenSeq(q) = Cat(Head(q), FlattenSeq(Tail(q)))
  <1> DEFINE r == Tail(q)
  <1>1. /\ r \in Seq(Seq(Nat)) /\ Len(q) = Len(r) + 1 /\ Head(q) = q[1] /\ q[1] \in Seq(Nat)
        /\ \A i \in 1..Len(r) : r[i] = q[i + 1]
    OBVIOUS
  <1> HIDE DEF r
  <1>2. PICK g : Joins(g, q, Len(q))
    BY JoinsExist
  <1>3. PICK h : Joins(h, r, Len(r))
    BY <1>1, JoinsExist
  <1> DEFINE S == {m \in Nat : m <= Len(r) => g[m + 1] = Cat(q[1], h[m])}
  <1>4. 0 \in S
    <2>1. g[1] = Cat(<<>>, q[1]) /\ h[0] = <<>>
      BY <1>1, <1>2, <1>3 DEF Joins
    <2> QED
      BY <1>1, <2>1, CatEmpty
  <1>5. ASSUME NEW m \in Nat, m \in S PROVE m + 1 \in S
    <2>1. SUFFICES ASSUME m + 1 <= Len(r) PROVE g[m + 2] = Cat(q[1], h[m + 1])
      OBVIOUS
    <2>2. g[m + 2] = Cat(g[m + 1], q[m + 2]) /\ g[m + 1] = Cat(q[1], h[m])
      BY <1>1, <1>2, <1>5, <2>1 DEF Joins
    <2>3. /\ h[m + 1] = Cat(h[m], r[m + 1]) /\ r[m + 1] = q[m + 2]
          /\ h[m] \in Seq(Nat) /\ r[m + 1] \in Seq(Nat)
      <3>1. m \in 0..Len(r) /\ m + 1 \in 1..Len(r)
        BY <1>1, <2>1
      <3>2. h[m] \in Seq(Nat)
        BY <1>3, <3>1 DEF Joins
      <3>4. h[m + 1] = Cat(h[(m + 1) - 1], r[m + 1])
        BY <1>3, <3>1 DEF Joins
      <3>5. (m + 1) - 1 = m
        OBVIOUS
      <3>3. r[m + 1] \in Seq(Nat) /\ r[m + 1] = q[m + 2]
        BY <1>1, <3>1
      <3> QED
        BY <3>2, <3>3, <3>4, <3>5
    <2>4. Cat(Cat(q[1], h[m]), r[m + 1]) = Cat(q[1], Cat(h[m], r[m + 1]))
      BY <1>1, <2>3, CatAssociative
    <2> QED
      BY <2>2, <2>3, <2>4
  <1> HIDE DEF S
  <1>6. Nat \subseteq S
    BY <1>4, <1>5, Induction
  <1>7. g[Len(q)] = Cat(q[1], h[Len(r)])
    BY <1>1, <1>6 DEF S
  <1> QED
    BY <1>1, <1>2, <1>3, <1>7, FlattenJoins DEF r
-----------------------------------------------------------------------------
(* The integers and the filling of a message.                              *)

\* An i32 is read as it was written.
LEMMA RoundTrip ==
  ASSUME NEW x \in Signed
  PROVE  U32(x) \in Nat /\ I32(U32(x)) = x
  <1>1. Word \in Nat \ {0}
    BY SizesAssumption
  <1>2. Word \div 2 \in Nat /\ 2 * (Word \div 2) <= Word /\ Word <= 2 * (Word \div 2) + 1
    BY <1>1
  <1>3. CASE x >= 0
    <2>1. x \in Nat /\ x < Word
      BY <1>1, <1>2, <1>3 DEF Signed
    <2>2. x % Word = x
      BY <1>1, <2>1
    <2> QED
      BY <1>1, <1>2, <2>1, <2>2 DEF U32, I32, Signed
  <1>4. CASE x < 0
    <2>1. x \in Int /\ x + Word \in 0..(Word - 1) /\ x + Word >= Word \div 2
      BY <1>1, <1>2, <1>4 DEF Signed
    <2>2. x % Word = x + Word
      BY <1>1, <2>1
    <2> QED
      BY <1>1, <1>2, <2>1, <2>2 DEF U32, I32, Signed
  <1> QED
    BY <1>3, <1>4 DEF Signed

LEMMA ZerosType ==
  ASSUME NEW n \in Nat
  PROVE  Zeros(n) \in Seq(Nat) /\ Len(Zeros(n)) = n
  BY DEF Zeros

LEMMA PayloadType ==
  ASSUME NEW n \in Nat, NEW m \in Nat
  PROVE  Payload(n, m) \in Seq(Nat) /\ Len(Payload(n, m)) = m
  <1>1. Word + n \in Nat
    BY SizesAssumption
  <1> QED
    BY <1>1 DEF Payload

\* The stream `b` begins with the header `h` and goes on with `r`.
Headed(b, h, r) ==
  /\ b \in Seq(Nat) /\ Len(b) = 12 + Len(r) /\ Drop(b, 12) = r
  /\ b[1] = h[1] /\ b[2] = h[2] /\ b[4] = h[4] /\ b[5] = h[5] /\ b[6] = h[6]
  /\ b[7] = h[7] /\ b[9] = h[9] /\ b[12] = h[12]

LEMMA HeaderFields ==
  ASSUME NEW h \in Seq(Nat), Len(h) = 12, NEW r \in Seq(Nat)
  PROVE  Headed(Cat(h, r), h, r)
  <1>1. \A i \in 1..Len(h) : Cat(h, r)[i] = h[i]
    BY CatElements
  <1>2. \A i \in 1..12 : Cat(h, r)[i] = h[i]
    BY <1>1
  <1>3. Cat(h, r) \in Seq(Nat) /\ Len(Cat(h, r)) = 12 + Len(r) /\ Drop(Cat(h, r), 12) = r
    BY CatType, CatSplit
  <1> QED
    BY <1>2, <1>3 DEF Headed
-----------------------------------------------------------------------------
(* Commands: what read_pdu makes of what a client writes.                  *)

\* The i-th command is a submit of the client's, an unlink, or none at all.
Command(p, n) ==
  \/ \E s \in Submits : p = CmdSubmit(n, s)
  \/ \E c \in {CMD_UNLINK, RET_UNLINK, 0}, k \in Nat : p = Cmd(c, n, k)

\* The stream `b` begins with the command `p` and goes on with `rest`: read_pdu
\* refuses it or takes all of it, and nothing else.
Reads(b, p, rest) ==
  /\ b \in Seq(Nat) /\ EncodeCommand(p) \in Seq(Nat)
  /\ Len(EncodeCommand(p)) >= SIZE_CMD_HEADER
  /\ Len(b) = Len(EncodeCommand(p)) + Len(rest)
  /\ Refused(b) <=> ~ Within(p)
  /\ Within(p) => /\ DecodeCommand(b) = p
                  /\ PduLen(b) = Len(EncodeCommand(p))
                  /\ Drop(b, PduLen(b)) = rest

LEMMA SubmitFields ==
  ASSUME NEW n \in Nat, NEW s \in Submits, NEW p, p = CmdSubmit(n, s)
  PROVE  /\ p.command = CMD_SUBMIT /\ p.seqnum = n /\ p.dir = s.dir /\ p.ep = s.ep
         /\ p.length = s.length /\ p.packets = s.packets /\ p.wLength = s.wLength
         /\ p.data = Payload(n, CmdPayload(Direction(s.dir), s.length))
         /\ p.iso = IsoCount(s.packets)
         /\ s.dir \in Nat /\ s.ep \in Nat /\ s.wLength \in Nat
         /\ s.length \in Signed /\ s.packets \in Signed /\ s.length \in Int /\ s.packets \in Int
         /\ CmdPayload(Direction(s.dir), s.length) \in Nat /\ IsoCount(s.packets) \in Nat
         /\ p.data \in Seq(Nat) /\ Len(p.data) = CmdPayload(Direction(s.dir), s.length)
  <1>1. /\ p.command = CMD_SUBMIT /\ p.seqnum = n /\ p.dir = s.dir /\ p.ep = s.ep
        /\ p.length = s.length /\ p.packets = s.packets /\ p.wLength = s.wLength
        /\ p.data = Payload(n, CmdPayload(Direction(s.dir), s.length))
        /\ p.iso = IsoCount(s.packets)
    BY DEF CmdSubmit
  <1>2. /\ s.dir \in Nat /\ s.ep \in Nat /\ s.wLength \in Nat
        /\ s.length \in Signed /\ s.packets \in Signed
    BY RequestsAssumption
  <1>3. s.length \in Int /\ s.packets \in Int
    BY <1>2, SizesAssumption DEF Signed
  <1>4. CmdPayload(Direction(s.dir), s.length) \in Nat /\ IsoCount(s.packets) \in Nat
    BY <1>3 DEF CmdPayload, IsoCount, Max0
  <1>5. p.data \in Seq(Nat) /\ Len(p.data) = CmdPayload(Direction(s.dir), s.length)
    BY <1>1, <1>4, PayloadType
  <1> QED
    BY <1>1, <1>2, <1>3, <1>4, <1>5

LEMMA SubmitReads ==
  ASSUME NEW n \in Nat, NEW s \in Submits, NEW p, p = CmdSubmit(n, s), NEW rest \in Seq(Nat)
  PROVE  Reads(Cat(EncodeCommand(p), rest), p, rest)
  <1> DEFINE b == Cat(EncodeCommand(p), rest)
             h == <<CMD_SUBMIT, n, 0, s.dir, s.ep, 0, U32(s.length), 0, U32(s.packets), 0, 0, s.wLength>>
             d == p.data
             z == Zeros(p.iso * SIZE_ISO_DESC)
             t == Cat(d, Cat(z, rest))
  <1>1. /\ p.command = CMD_SUBMIT /\ p.seqnum = n /\ p.dir = s.dir /\ p.ep = s.ep
        /\ p.length = s.length /\ p.packets = s.packets /\ p.wLength = s.wLength
        /\ p.iso = IsoCount(s.packets)
        /\ s.dir \in Nat /\ s.ep \in Nat /\ s.wLength \in Nat
        /\ s.length \in Signed /\ s.packets \in Signed /\ s.length \in Int /\ s.packets \in Int
        /\ CmdPayload(Direction(s.dir), s.length) \in Nat /\ IsoCount(s.packets) \in Nat
        /\ d \in Seq(Nat) /\ Len(d) = CmdPayload(Direction(s.dir), s.length)
    BY SubmitFields
  <1>2. U32(s.length) \in Nat /\ U32(s.packets) \in Nat /\ CMD_SUBMIT \in Nat
    BY <1>1, RoundTrip DEF CMD_SUBMIT
  <1>3. z \in Seq(Nat) /\ Len(z) = p.iso * SIZE_ISO_DESC
    <2>1. p.iso * SIZE_ISO_DESC \in Nat
      BY <1>1 DEF SIZE_ISO_DESC
    <2> QED
      BY <2>1, ZerosType
  <1>4. EncodeCommand(p) = Cat(Cat(h, d), z)
    BY <1>1 DEF EncodeCommand, Cat
  <1> HIDE DEF d, z
  <1>5. h \in Seq(Nat) /\ Len(h) = 12
    BY <1>1, <1>2
  <1>6. /\ Cat(h, d) \in Seq(Nat) /\ Len(Cat(h, d)) = 12 + Len(d)
        /\ Cat(z, rest) \in Seq(Nat) /\ Len(Cat(z, rest)) = Len(z) + Len(rest)
        /\ EncodeCommand(p) \in Seq(Nat) /\ Len(EncodeCommand(p)) = 12 + Len(d) + Len(z)
    <2> HIDE DEF h
    <2>1. Cat(h, d) \in Seq(Nat) /\ Len(Cat(h, d)) = 12 + Len(d)
      BY <1>1, <1>5, CatType
    <2> QED
      BY <1>1, <1>3, <1>4, <2>1, CatType
  <1>7. t \in Seq(Nat) /\ b = Cat(h, t) /\ Len(t) = Len(d) + Len(z) + Len(rest)
    <2> HIDE DEF h
    <2>1. b = Cat(Cat(h, d), Cat(z, rest))
      BY <1>3, <1>4, <1>6, CatAssociative
    <2>2. b = Cat(h, t)
      BY <1>1, <1>5, <1>6, <2>1, CatAssociative
    <2>3. t \in Seq(Nat) /\ Len(t) = Len(d) + (Len(z) + Len(rest))
      BY <1>1, <1>6, CatType
    <2> QED
      BY <1>1, <1>3, <2>2, <2>3
  <1> HIDE DEF b, t
  <1>8. /\ b \in Seq(Nat) /\ Len(b) = 12 + Len(t)
        /\ b[1] = CMD_SUBMIT /\ b[2] = n /\ b[4] = s.dir /\ b[5] = s.ep
        /\ b[7] = U32(s.length) /\ b[9] = U32(s.packets) /\ b[12] = s.wLength
        /\ Drop(b, 12) = t
    <2>1. /\ h[1] = CMD_SUBMIT /\ h[2] = n /\ h[4] = s.dir /\ h[5] = s.ep
          /\ h[7] = U32(s.length) /\ h[9] = U32(s.packets) /\ h[12] = s.wLength
      OBVIOUS
    <2> HIDE DEF h
    <2>2. /\ b \in Seq(Nat) /\ Len(b) = 12 + Len(t) /\ Drop(b, 12) = t
          /\ b[1] = h[1] /\ b[2] = h[2] /\ b[4] = h[4] /\ b[5] = h[5]
          /\ b[7] = h[7] /\ b[9] = h[9] /\ b[12] = h[12]
      <3>1. Headed(Cat(h, t), h, t)
        BY <1>5, <1>7, HeaderFields
      <3> QED
        BY <1>7, <3>1 DEF Headed
    <2> QED
      BY <2>1, <2>2
  <1> HIDE DEF h
  <1>9. I32(b[7]) = s.length /\ I32(b[9]) = s.packets
    BY <1>1, <1>8, RoundTrip
  <1>10. DataLen(b) = Len(d) /\ IsoLen(b) = Len(z) /\ IsoLen(b) = IsoCount(s.packets) * SIZE_ISO_DESC
    BY <1>1, <1>3, <1>8, <1>9 DEF DataLen, IsoLen
  <1>11. PduLen(b) = Len(EncodeCommand(p))
    BY <1>1, <1>3, <1>6, <1>10 DEF PduLen, SIZE_CMD_HEADER
  <1>12. Drop(b, PduLen(b)) = rest
    BY <1>6, <1>11, CatSplit DEF b
  <1>13. Refused(b) <=> ~ Within(p)
    <2>1. Refused(b) <=> \/ s.length < 0 \/ s.length > MaxTransfer \/ IsoCount(s.packets) > MaxIso
      BY <1>8, <1>9 DEF Refused, CMD_SUBMIT, CMD_UNLINK
    <2>2. Within(p) <=> s.length \in 0..MaxTransfer /\ s.packets <= MaxIso
      BY <1>1 DEF Within, CMD_SUBMIT, CMD_UNLINK
    <2>4. MaxTransfer \in Nat /\ MaxIso \in Nat
      BY SizesAssumption
    <2>3. IsoCount(s.packets) > MaxIso <=> s.packets > MaxIso
      BY <1>1, <2>4 DEF IsoCount, Max0
    <2> QED
      BY <1>1, <2>1, <2>2, <2>3, <2>4
  <1>14. DecodeCommand(b) = p
    <2>1. SubSeq(t, 1, Len(d)) = d
      BY <1>1, <1>6, CatSplit DEF t
    <2>2. SubSeq(Drop(b, SIZE_CMD_HEADER), 1, DataLen(b)) = d
      BY <1>8, <1>10, <2>1 DEF SIZE_CMD_HEADER
    <2>3. IsoLen(b) \div SIZE_ISO_DESC = IsoCount(s.packets)
      BY <1>1, <1>10 DEF SIZE_ISO_DESC
    <2>4. DecodeCommand(b) =
            [command |-> CMD_SUBMIT, seqnum |-> n, dir |-> s.dir, ep |-> s.ep, length |-> s.length,
             packets |-> s.packets, wLength |-> s.wLength, data |-> d, iso |-> IsoCount(s.packets)]
      BY <1>8, <1>9, <2>2, <2>3 DEF DecodeCommand
    <2>5. d = Payload(n, CmdPayload(Direction(s.dir), s.length))
      BY SubmitFields DEF d
    <2> QED
      BY <2>4, <2>5 DEF CmdSubmit
  <1>15. Len(b) = Len(EncodeCommand(p)) + Len(rest) /\ Len(EncodeCommand(p)) >= SIZE_CMD_HEADER
    <2>1. Len(d) \in Nat /\ Len(z) \in Nat /\ Len(rest) \in Nat
      BY <1>1, <1>3
    <2> QED
      BY <1>6, <1>7, <1>8, <2>1 DEF SIZE_CMD_HEADER
  <1>16. Reads(b, p, rest)
    BY <1>6, <1>8, <1>11, <1>12, <1>13, <1>14, <1>15 DEF Reads
  <1> QED
    BY <1>16 DEF b

LEMMA OtherReads ==
  ASSUME NEW n \in Nat, NEW c \in {CMD_UNLINK, RET_UNLINK, 0}, NEW k \in Nat,
         NEW p, p = Cmd(c, n, k), NEW rest \in Seq(Nat)
  PROVE  Reads(Cat(EncodeCommand(p), rest), p, rest)
  <1> DEFINE b == Cat(EncodeCommand(p), rest)
             g == <<c, n, 0, 0, 0, k>>
             z == Zeros(6)
             h == Cat(g, z)
  <1>1. p.command = c /\ p.seqnum = n /\ p.unlink = k
    BY DEF Cmd
  <1>2. c \in Nat /\ c # CMD_SUBMIT /\ (c \in {CMD_SUBMIT, CMD_UNLINK} <=> c = CMD_UNLINK)
    BY DEF CMD_SUBMIT, CMD_UNLINK, RET_UNLINK
  <1>3. EncodeCommand(p) = h
    BY <1>1, <1>2 DEF EncodeCommand, Cat
  <1>4. g \in Seq(Nat) /\ Len(g) = 6 /\ g[1] = c /\ g[2] = n /\ g[6] = k
    BY <1>2
  <1> HIDE DEF g
  <1>5. z \in Seq(Nat) /\ Len(z) = 6
    BY ZerosType
  <1> HIDE DEF z
  <1>6. h \in Seq(Nat) /\ Len(h) = 12 /\ h[1] = c /\ h[2] = n /\ h[6] = k
    <2>1. \A i \in 1..Len(g) : h[i] = g[i]
      BY <1>4, <1>5, CatElements
    <2>2. h[1] = g[1] /\ h[2] = g[2] /\ h[6] = g[6]
      BY <1>4, <2>1
    <2>3. h \in Seq(Nat) /\ Len(h) = Len(g) + Len(z)
      BY <1>4, <1>5, CatType
    <2> HIDE DEF h
    <2> QED
      BY <1>4, <1>5, <2>2, <2>3
  <1> HIDE DEF h
  <1>7. Headed(b, h, rest) /\ b = Cat(h, rest) /\ EncodeCommand(p) = h
    BY <1>3, <1>6, HeaderFields
  <1>8. /\ b \in Seq(Nat) /\ Len(b) = 12 + Len(rest) /\ Drop(b, 12) = rest
        /\ b[1] = c /\ b[2] = n /\ b[6] = k
    BY <1>6, <1>7 DEF Headed
  <1> HIDE DEF b
  <1>9. PduLen(b) = 12
    BY <1>2, <1>8 DEF PduLen, DataLen, IsoLen, SIZE_CMD_HEADER
  <1>10. Refused(b) <=> c # CMD_UNLINK
    BY <1>2, <1>8 DEF Refused
  <1>11. Within(p) <=> c = CMD_UNLINK
    BY <1>1, <1>2 DEF Within
  <1>12. Within(p) => DecodeCommand(b) = p
    BY <1>2, <1>8, <1>11 DEF DecodeCommand
  <1>13. Reads(b, p, rest)
    <2>1. /\ EncodeCommand(p) \in Seq(Nat) /\ Len(EncodeCommand(p)) = 12
          /\ Len(b) = Len(EncodeCommand(p)) + Len(rest)
      BY <1>6, <1>7, <1>8
    <2>2. Refused(b) <=> ~ Within(p)
      BY <1>10, <1>11
    <2>3. PduLen(b) = Len(EncodeCommand(p)) /\ Drop(b, PduLen(b)) = rest
      BY <1>8, <1>9, <2>1
    <2> QED
      BY <1>8, <1>12, <2>1, <2>2, <2>3 DEF Reads, SIZE_CMD_HEADER
  <1> QED
    BY <1>13 DEF b

\* read_pdu and a client agree on where a command ends.
LEMMA CommandReads ==
  ASSUME NEW n \in Nat, NEW p, Command(p, n), NEW rest \in Seq(Nat)
  PROVE  Reads(Cat(EncodeCommand(p), rest), p, rest)
  <1>1. CASE \E s \in Submits : p = CmdSubmit(n, s)
    BY <1>1, SubmitReads
  <1>2. CASE \E c \in {CMD_UNLINK, RET_UNLINK, 0}, k \in Nat : p = Cmd(c, n, k)
    BY <1>2, OtherReads
  <1> QED
    BY <1>1, <1>2 DEF Command

-----------------------------------------------------------------------------
(* Replies: what read_ret_submit makes of what the exporter writes.        *)

IsRetUnlink(r) == \E n \in Nat, status \in Signed : r = RetUnlink(n, status)
IsRetSubmit(r) ==
  \E n \in Nat, status \in Signed, actual \in Signed, data \in Seq(Nat) :
    r = RetSubmit(n, status, actual, data)

\* The stream `b` begins with the reply `r` and goes on with `rest`.
Answers(b, r, rest) ==
  /\ EncodeReply(r) \in Seq(Nat)
  /\ b \in Seq(Nat) /\ Len(b) = Len(EncodeReply(r)) + Len(rest)
  /\ b[2] = r.seqnum /\ I32(b[6]) = r.status
  /\ IsRetUnlink(r) =>
       /\ b[1] = RET_UNLINK /\ r = RetUnlink(b[2], I32(b[6]))
       /\ Len(EncodeReply(r)) = 12 /\ Drop(b, 12) = rest
  /\ IsRetSubmit(r) =>
       /\ b[1] = RET_SUBMIT /\ I32(b[7]) = r.actual /\ r.data \in Seq(Nat)
       /\ Len(EncodeReply(r)) = 12 + Len(r.data) /\ Drop(b, 12 + Len(r.data)) = rest
       /\ r = RetSubmit(b[2], I32(b[6]), I32(b[7]), SubSeq(Drop(b, 12), 1, Len(r.data)))

LEMMA UnlinkAnswers ==
  ASSUME NEW n \in Nat, NEW status \in Signed, NEW r, r = RetUnlink(n, status), NEW rest \in Seq(Nat)
  PROVE  Answers(Cat(EncodeReply(r), rest), r, rest)
  <1> DEFINE b == Cat(EncodeReply(r), rest)
             u == U32(status)
             g == <<RET_UNLINK, n, 0, 0, 0, u>>
             z == Zeros(6)
             h == Cat(g, z)
  <1>1. r.command = RET_UNLINK /\ r.seqnum = n /\ r.status = status
    BY DEF RetUnlink
  <1>2. RET_UNLINK \in Nat /\ RET_UNLINK # RET_SUBMIT /\ u \in Nat /\ I32(u) = status
    BY RoundTrip DEF RET_UNLINK, RET_SUBMIT
  <1>3. EncodeReply(r) = h
    BY <1>1, <1>2 DEF EncodeReply, Cat
  <1> HIDE DEF u
  <1>4. g \in Seq(Nat) /\ Len(g) = 6 /\ g[1] = RET_UNLINK /\ g[2] = n /\ g[6] = u
    BY <1>2
  <1> HIDE DEF g
  <1>5. z \in Seq(Nat) /\ Len(z) = 6
    BY ZerosType
  <1> HIDE DEF z
  <1>6. h \in Seq(Nat) /\ Len(h) = 12 /\ h[1] = RET_UNLINK /\ h[2] = n /\ h[6] = u
    <2>1. \A i \in 1..Len(g) : h[i] = g[i]
      BY <1>4, <1>5, CatElements
    <2>2. h[1] = g[1] /\ h[2] = g[2] /\ h[6] = g[6]
      BY <1>4, <2>1
    <2>3. h \in Seq(Nat) /\ Len(h) = Len(g) + Len(z)
      BY <1>4, <1>5, CatType
    <2> HIDE DEF h
    <2> QED
      BY <1>4, <1>5, <2>2, <2>3
  <1> HIDE DEF h
  <1>7. Headed(b, h, rest) /\ b = Cat(h, rest) /\ EncodeReply(r) = h
    BY <1>3, <1>6, HeaderFields
  <1>8. /\ b \in Seq(Nat) /\ Len(b) = 12 + Len(rest) /\ Drop(b, 12) = rest
        /\ b[1] = RET_UNLINK /\ b[2] = n /\ b[6] = u
    BY <1>6, <1>7 DEF Headed
  <1> HIDE DEF b
  <1>9. ~ IsRetSubmit(r)
    BY <1>1, <1>2 DEF IsRetSubmit, RetSubmit
  <1>10. r = RetUnlink(b[2], I32(b[6]))
    BY <1>2, <1>8
  <1>11. Answers(b, r, rest)
    BY <1>1, <1>2, <1>6, <1>7, <1>8, <1>9, <1>10 DEF Answers
  <1> QED
    BY <1>11 DEF b

LEMMA SubmitAnswers ==
  ASSUME NEW n \in Nat, NEW status \in Signed, NEW actual \in Signed, NEW data \in Seq(Nat),
         NEW r, r = RetSubmit(n, status, actual, data), NEW rest \in Seq(Nat)
  PROVE  Answers(Cat(EncodeReply(r), rest), r, rest)
  <1> DEFINE b == Cat(EncodeReply(r), rest)
             u == U32(status)
             v == U32(actual)
             h == <<RET_SUBMIT, n, 0, 0, 0, u, v, 0, 0, 0, 0, 0>>
             t == Cat(data, rest)
  <1>1. r.command = RET_SUBMIT /\ r.seqnum = n /\ r.status = status /\ r.actual = actual /\ r.data = data
    BY DEF RetSubmit
  <1>2. /\ RET_SUBMIT \in Nat /\ RET_UNLINK # RET_SUBMIT
        /\ u \in Nat /\ I32(u) = status /\ v \in Nat /\ I32(v) = actual
    BY RoundTrip DEF RET_UNLINK, RET_SUBMIT
  <1>3. EncodeReply(r) = Cat(h, data)
    BY <1>1, <1>2 DEF EncodeReply, Cat
  <1> HIDE DEF u, v
  <1>4. h \in Seq(Nat) /\ Len(h) = 12
    BY <1>2
  <1>6. h[1] = RET_SUBMIT /\ h[2] = n /\ h[6] = u /\ h[7] = v
    OBVIOUS
  <1> HIDE DEF h
  <1>5. t \in Seq(Nat) /\ Len(t) = Len(data) + Len(rest) /\ SubSeq(t, 1, Len(data)) = data
    BY CatType, CatSplit
  <1>7. EncodeReply(r) \in Seq(Nat) /\ Len(EncodeReply(r)) = 12 + Len(data) /\ b = Cat(h, t)
    <2>1. Cat(Cat(h, data), rest) = Cat(h, t)
      BY <1>4, CatAssociative
    <2> QED
      BY <1>3, <1>4, <2>1, CatType
  <1>8. Drop(b, 12 + Len(data)) = rest
    BY <1>7, CatSplit
  <1> HIDE DEF b, t
  <1>9. Headed(b, h, t)
    BY <1>4, <1>5, <1>7, HeaderFields
  <1>10. /\ b \in Seq(Nat) /\ Len(b) = 12 + Len(data) + Len(rest) /\ Drop(b, 12) = t
         /\ b[1] = RET_SUBMIT /\ b[2] = n /\ b[6] = u /\ b[7] = v
    <2>1. Len(data) \in Nat /\ Len(rest) \in Nat
      OBVIOUS
    <2> QED
      BY <1>5, <1>6, <1>9, <2>1 DEF Headed
  <1>11. ~ IsRetUnlink(r)
    BY <1>1, <1>2 DEF IsRetUnlink, RetUnlink
  <1>12. r = RetSubmit(b[2], I32(b[6]), I32(b[7]), SubSeq(Drop(b, 12), 1, Len(data)))
    BY <1>2, <1>5, <1>10
  <1>13. Answers(b, r, rest)
    BY <1>1, <1>2, <1>7, <1>8, <1>10, <1>11, <1>12 DEF Answers
  <1> QED
    BY <1>13 DEF b

-----------------------------------------------------------------------------
(* A stream of messages of which the first few have been read.             *)

\* What is left of the messages `e` once `n` of them have been read.
Rest(e, n) == FlattenSeq(Drop(e, n))

LEMMA DropType ==
  ASSUME NEW e \in Seq(Seq(Nat)), NEW n \in 0..Len(e)
  PROVE  Drop(e, n) \in Seq(Seq(Nat)) /\ Len(Drop(e, n)) = Len(e) - n
  BY DEF Drop

LEMMA DropElements ==
  ASSUME NEW e \in Seq(Seq(Nat)), NEW n \in 0..Len(e)
  PROVE  \A i \in 1..(Len(e) - n) : Drop(e, n)[i] = e[n + i]
  BY DEF Drop

LEMMA RestType ==
  ASSUME NEW e \in Seq(Seq(Nat)), NEW n \in 0..Len(e)
  PROVE  Rest(e, n) \in Seq(Nat)
  BY DropType, FlattenType DEF Rest

LEMMA RestAppend ==
  ASSUME NEW e \in Seq(Seq(Nat)), NEW n \in 0..Len(e), NEW x \in Seq(Nat)
  PROVE  Rest(Append(e, x), n) = Cat(Rest(e, n), x)
  <1>1. Drop(Append(e, x), n) = Append(Drop(e, n), x)
    <2> DEFINE d == Drop(e, n)
               f == Append(e, x)
               g == Drop(f, n)
    <2>1. d \in Seq(Seq(Nat)) /\ Len(d) = Len(e) - n /\ \A i \in 1..(Len(e) - n) : d[i] = e[n + i]
      BY DropType, DropElements
    <2>2. /\ f \in Seq(Seq(Nat)) /\ Len(f) = Len(e) + 1 /\ n \in 0..Len(f)
          /\ f[Len(e) + 1] = x /\ \A i \in 1..Len(e) : f[i] = e[i]
      OBVIOUS
    <2> HIDE DEF d, f
    <2>3. /\ g \in Seq(Seq(Nat)) /\ Len(g) = Len(e) + 1 - n
          /\ \A i \in 1..(Len(e) + 1 - n) : g[i] = f[n + i]
      <3>1. g \in Seq(Seq(Nat)) /\ Len(g) = Len(f) - n
        BY <2>2, DropType
      <3>2. \A i \in 1..(Len(f) - n) : g[i] = f[n + i]
        BY <2>2, DropElements
      <3> HIDE DEF g
      <3> QED
        BY <2>2, <3>1, <3>2
    <2> HIDE DEF g
    <2>4. /\ Append(d, x) \in Seq(Seq(Nat)) /\ Len(Append(d, x)) = Len(e) + 1 - n
          /\ Append(d, x)[Len(e) + 1 - n] = x /\ \A i \in 1..(Len(e) - n) : Append(d, x)[i] = d[i]
      BY <2>1
    <2>5. ASSUME NEW i \in 1..(Len(e) + 1 - n) PROVE g[i] = Append(d, x)[i]
      <3>0. Len(e) \in Nat /\ n \in Nat /\ n <= Len(e)
        OBVIOUS
      <3>1. CASE i = Len(e) + 1 - n
        <4>1. n + i = Len(e) + 1
          BY <3>0, <3>1
        <4>2. g[i] = x
          BY <2>2, <2>3, <4>1
        <4> QED
          BY <2>4, <3>1, <4>2
      <3>2. CASE i # Len(e) + 1 - n
        <4>1. i \in 1..(Len(e) - n) /\ n + i \in 1..Len(e)
          BY <3>0, <3>2
        <4> QED
          BY <2>1, <2>2, <2>3, <2>4, <4>1
      <3> QED
        BY <3>1, <3>2
    <2> DEFINE a == Append(d, x)
    <2>6. a \in Seq(Seq(Nat)) /\ Len(a) = Len(g) /\ \A i \in 1..Len(g) : g[i] = a[i]
      BY <2>3, <2>4, <2>5
    <2> HIDE DEF a
    <2>7. g = a
      BY <2>3, <2>6, SeqEqual
    <2> QED
      BY <2>7 DEF a, d, f, g
  <1> QED
    BY <1>1, DropType, FlattenAppend DEF Rest

LEMMA RestHead ==
  ASSUME NEW e \in Seq(Seq(Nat)), NEW n \in 0..Len(e), n # Len(e)
  PROVE  /\ e[n + 1] \in Seq(Nat) /\ n + 1 \in 0..Len(e)
         /\ Rest(e, n) = Cat(e[n + 1], Rest(e, n + 1))
  <1> DEFINE d == Drop(e, n)
  <1>1. d \in Seq(Seq(Nat)) /\ Len(d) = Len(e) - n
    BY DropType
  <1>0. /\ Len(e) \in Nat /\ n \in Nat /\ Len(e) - n \in Nat /\ 1 <= Len(e) - n
        /\ n + 1 \in 0..Len(e) /\ e[n + 1] \in Seq(Nat)
    OBVIOUS
  <1>2. d # <<>> /\ Head(d) = e[n + 1]
    <2>1. d[1] = e[n + 1]
      BY <1>0, DropElements
    <2> HIDE DEF d
    <2> QED
      BY <1>0, <1>1, <2>1
  <1>3. Tail(d) = Drop(e, n + 1)
    <2>1. Tail(d) \in Seq(Seq(Nat)) /\ Len(Tail(d)) = Len(e) - (n + 1)
      BY <1>1, <1>2
    <2>2. n + 1 \in 0..Len(e)
      OBVIOUS
    <2>3. Drop(e, n + 1) \in Seq(Seq(Nat)) /\ Len(Drop(e, n + 1)) = Len(e) - (n + 1)
      BY <2>2, DropType
    <2>4. \A i \in 1..(Len(e) - (n + 1)) : Tail(d)[i] = e[n + 1 + i] /\ Drop(e, n + 1)[i] = e[n + 1 + i]
      BY DEF Drop
    <2> HIDE DEF d
    <2> QED
      BY <2>1, <2>3, <2>4, SeqEqual
  <1> HIDE DEF d
  <1>4. FlattenSeq(d) = Cat(Head(d), FlattenSeq(Tail(d)))
    BY <1>1, <1>2, FlattenHead
  <1> QED
    BY <1>0, <1>2, <1>3, <1>4 DEF Rest, d

LEMMA RestEmpty ==
  ASSUME NEW e \in Seq(Seq(Nat))
  PROVE  Rest(e, Len(e)) = <<>>
  <1>1. Drop(e, Len(e)) = <<>>
    BY DEF Drop
  <1> QED
    BY <1>1, FlattenEmpty DEF Rest

-----------------------------------------------------------------------------
(* The inductive invariant.                                                *)

Commands ==
  {CmdSubmit(n, s) : n \in Nat, s \in Submits}
    \cup {Cmd(c, n, k) : c \in {CMD_UNLINK, RET_UNLINK, 0}, n \in Nat, k \in Nat}
Replies == {RetUnlink(n, status) : n \in Nat, status \in Signed}
  \cup {RetSubmit(n, status, actual, data) :
          n \in Nat, status \in Signed, actual \in Signed, data \in Seq(Nat)}

\* The messages of a sequence of commands, and of a sequence of replies.
Written(s) == [k \in 1..Len(s) |-> EncodeCommand(s[k])]
Returned(s) == [k \in 1..Len(s) |-> EncodeReply(s[k])]

DevlistReply == EncodeDevlistReply([k \in DOMAIN Exported |-> ToUsbip(Exported[k])])
ImportReply(e) == Cat(OpHeader(OP_REP_IMPORT, ST_OK), EncodeDevice(ToUsbip(e), FALSE))

\* The devices with the bus id the exporter reads from a request for `busid`.
Named(busid) == {e \in Range(Exported) : e.busid = Text(TextField(busid, BusidLen))}

\* Where the two sides are, and what is on its way between them before the
\* session has begun.
Places ==
  /\ client \in {"start", "devlist", "import", "odd", "listed", "turned down", "cmd"}
  /\ client # "cmd" => /\ sent = <<>> /\ heard = <<>> /\ posted = <<>>
                       /\ pending = {} /\ waiting = {} /\ server # "refused"
  /\ client = "start" => server = "op" /\ c2s = <<>> /\ s2c = <<>>
  /\ client = "odd" => /\ server \in {"op", "closed"} /\ s2c = <<>>
                       /\ c2s[1] # USBIP_VERSION \/ c2s[2] \notin {OP_REQ_DEVLIST, OP_REQ_IMPORT}
  /\ client = "devlist" => \/ server = "op" /\ c2s = OpHeader(OP_REQ_DEVLIST, 0) /\ s2c = <<>>
                           \/ server = "closed" /\ s2c = DevlistReply
  /\ client = "import" =>
       /\ asked \in Busids
       /\ \/ server = "op" /\ c2s = EncodeImportRequest(asked) /\ s2c = <<>>
          \/ server = "closed" /\ s2c = OpHeader(OP_REP_IMPORT, ST_NA)
          \/ server = "cmd" /\ c2s = <<>> /\ \E e \in Named(asked) : s2c = ImportReply(e)
  /\ client \in {"listed", "turned down"} => server = "closed"
  /\ client = "cmd" => server \in {"cmd", "refused"}

\* What is on its way to the exporter is what it has not heard of what was sent.
CommandStream ==
  /\ sent \in Seq(Commands) /\ heard \in Seq(Commands) /\ Len(heard) <= Len(sent)
  /\ \A k \in 1..Len(sent) : Command(sent[k], k)
  /\ \A k \in 1..Len(heard) : heard[k] = sent[k] /\ Within(sent[k])
  /\ client = "cmd" => c2s = Rest(Written(sent), Len(heard))
  /\ server = "refused" => Len(heard) < Len(sent) /\ ~ Within(sent[Len(heard) + 1])

\* The submit with this seqnum is among the commands `s` and has been heard.
Heard(n, s, h) == n \in 1..Len(h) /\ s[n].command = CMD_SUBMIT

\* What the exporter keeps of a submit is what the submit asked for.
Pends(u, s, h) ==
  /\ Heard(u.seqnum, s, h)
  /\ u.dir = Direction(s[u.seqnum].dir) /\ u.max_reply = s[u.seqnum].length
Waits(w, s, h) ==
  /\ Heard(w.seqnum, s, h)
  /\ Direction(s[w.seqnum].dir) = "in" /\ w.max_len = s[w.seqnum].length

Urbs ==
  /\ \A u \in pending : Pends(u, sent, heard)
  /\ \A w \in waiting : Waits(w, sent, heard)

\* The length in the reply is that of its data, as the client will take it.
Fits(r, s, h) ==
  \/ IsRetUnlink(r)
  \/ /\ IsRetSubmit(r) /\ Heard(r.seqnum, s, h)
     /\ Len(r.data) = RetPayload(Direction(s[r.seqnum].dir), r.actual)
     /\ Len(r.data) <= s[r.seqnum].length

\* What is on its way to the client is what it has not got of what was posted.
ReplyStream ==
  /\ posted \in Seq(Replies)
  /\ \A k \in 1..Len(posted) : Fits(posted[k], sent, heard)
  /\ client = "cmd" =>
       /\ \E d : got \in Seq(Replies \cup {d})
       /\ Len(got) - 1 \in 0..Len(posted)
       /\ \A k \in 1..(Len(got) - 1) : got[k + 1] = posted[k]
       /\ s2c = Rest(Returned(posted), Len(got) - 1)

\* What the client has got of the op half.
Listed ==
  /\ client = "listed" =>
       got = LET n == DevlistReply[SIZE_OP_HEADER + 1]
             IN  [k \in 1..n |->
                    DecodeDevice(Drop(DevlistReply, DevlistEnd(DevlistReply, n)[k - 1]), TRUE)]
  /\ client = "cmd" => /\ asked \in Busids
                       /\ \E e \in Named(asked) :
                            got[1] = DecodeDevice(EncodeDevice(ToUsbip(e), FALSE), FALSE)

IInv == Places /\ CommandStream /\ Urbs /\ ReplyStream /\ Listed

-----------------------------------------------------------------------------
(* The messages behind the streams.                                        *)

LEMMA CommandType ==
  ASSUME NEW n \in Nat, NEW p, Command(p, n)
  PROVE  p \in Commands
  BY DEF Command, Commands

LEMMA CommandsRead ==
  ASSUME NEW p \in Commands
  PROVE  \E n \in Nat : Command(p, n)
  BY DEF Command, Commands

LEMMA EncodeCommandType ==
  ASSUME NEW p \in Commands
  PROVE  EncodeCommand(p) \in Seq(Nat) /\ Len(EncodeCommand(p)) >= SIZE_CMD_HEADER
  <1>1. PICK n \in Nat : Command(p, n)
    BY CommandsRead
  <1>2. <<>> \in Seq(Nat)
    OBVIOUS
  <1>3. Reads(Cat(EncodeCommand(p), <<>>), p, <<>>)
    BY <1>1, <1>2, CommandReads
  <1> QED
    BY <1>3 DEF Reads

LEMMA WrittenType ==
  ASSUME NEW s \in Seq(Commands)
  PROVE  Written(s) \in Seq(Seq(Nat)) /\ Len(Written(s)) = Len(s)
  <1>1. \A k \in 1..Len(s) : EncodeCommand(s[k]) \in Seq(Nat)
    BY EncodeCommandType
  <1> QED
    BY <1>1 DEF Written

LEMMA WrittenAppend ==
  ASSUME NEW s \in Seq(Commands), NEW p \in Commands
  PROVE  Written(Append(s, p)) = Append(Written(s), EncodeCommand(p))
  <1> DEFINE t == Append(s, p)
             w == Written(t)
             a == Append(Written(s), EncodeCommand(p))
  <1>1. t \in Seq(Commands) /\ Len(t) = Len(s) + 1 /\ t[Len(s) + 1] = p /\ \A k \in 1..Len(s) : t[k] = s[k]
    OBVIOUS
  <1> HIDE DEF t
  <1>2. w \in Seq(Seq(Nat)) /\ Len(w) = Len(t) /\ \A k \in 1..Len(t) : w[k] = EncodeCommand(t[k])
    BY <1>1, WrittenType DEF Written
  <1>3. /\ Written(s) \in Seq(Seq(Nat)) /\ Len(Written(s)) = Len(s)
        /\ \A k \in 1..Len(s) : Written(s)[k] = EncodeCommand(s[k])
    BY WrittenType DEF Written
  <1>4. EncodeCommand(p) \in Seq(Nat)
    BY EncodeCommandType
  <1>5. /\ a \in Seq(Seq(Nat)) /\ Len(a) = Len(s) + 1 /\ a[Len(s) + 1] = EncodeCommand(p)
        /\ \A k \in 1..Len(s) : a[k] = Written(s)[k]
    BY <1>3, <1>4
  <1> HIDE DEF w, a
  <1>6. ASSUME NEW k \in 1..(Len(s) + 1) PROVE w[k] = a[k]
    <2>1. CASE k = Len(s) + 1
      BY <1>1, <1>2, <1>5, <2>1
    <2>2. CASE k # Len(s) + 1
      <3>1. k \in 1..Len(s)
        BY <2>2
      <3>2. w[k] = EncodeCommand(s[k])
        BY <1>1, <1>2, <3>1
      <3> QED
        BY <1>3, <1>5, <3>1, <3>2
    <2> QED
      BY <2>1, <2>2
  <1>7. w = a
    BY <1>1, <1>2, <1>5, <1>6, SeqEqual
  <1> QED
    BY <1>7 DEF w, a, t

\* A command sent is behind those that were sent before.
LEMMA SentStream ==
  ASSUME NEW s \in Seq(Commands), NEW n \in 0..Len(s), NEW p \in Commands
  PROVE  Rest(Written(Append(s, p)), n) = Cat(Rest(Written(s), n), EncodeCommand(p))
  <1>1. Written(s) \in Seq(Seq(Nat)) /\ n \in 0..Len(Written(s)) /\ EncodeCommand(p) \in Seq(Nat)
    BY WrittenType, EncodeCommandType
  <1> QED
    BY <1>1, WrittenAppend, RestAppend

\* A stream that is not empty begins with the first command not heard yet.
LEMMA HeardStream ==
  ASSUME NEW s \in Seq(Commands), \A k \in 1..Len(s) : Command(s[k], k),
         NEW n \in 0..Len(s), NEW b, b = Rest(Written(s), n)
  PROVE  /\ n = Len(s) => b = <<>>
         /\ n # Len(s) => Reads(b, s[n + 1], Rest(Written(s), n + 1))
  <1> DEFINE e == Written(s)
             r == Rest(e, n + 1)
  <1>1. e \in Seq(Seq(Nat)) /\ Len(e) = Len(s)
    BY WrittenType
  <1>2. \A k \in 1..Len(s) : e[k] = EncodeCommand(s[k])
    BY DEF Written
  <1> HIDE DEF e
  <1>3. n = Len(s) => b = <<>>
    BY <1>1, RestEmpty DEF e
  <1>4. ASSUME n # Len(s) PROVE Reads(b, s[n + 1], r)
    <2>1. n + 1 \in 1..Len(s) /\ n + 1 \in Nat /\ n + 1 \in 0..Len(e)
      BY <1>1, <1>4
    <2>2. b = Cat(e[n + 1], r)
      BY <1>1, <1>4, RestHead DEF e
    <2>3. r \in Seq(Nat)
      BY <1>1, <2>1, RestType
    <2>4. e[n + 1] = EncodeCommand(s[n + 1]) /\ Command(s[n + 1], n + 1)
      BY <1>2, <2>1
    <2> HIDE DEF r
    <2> QED
      BY <2>1, <2>2, <2>3, <2>4, CommandReads
  <1> QED
    BY <1>3, <1>4 DEF e

LEMMA ReplyKinds ==
  ASSUME NEW r
  PROVE  r \in Replies <=> IsRetUnlink(r) \/ IsRetSubmit(r)
  BY DEF Replies, IsRetUnlink, IsRetSubmit

\* read_ret_submit and the exporter agree on the fields of a reply.
LEMMA ReplyAnswers ==
  ASSUME NEW r \in Replies, NEW rest \in Seq(Nat)
  PROVE  Answers(Cat(EncodeReply(r), rest), r, rest)
  <1>1. CASE IsRetUnlink(r)
    BY <1>1, UnlinkAnswers DEF IsRetUnlink
  <1>2. CASE IsRetSubmit(r)
    BY <1>2, SubmitAnswers DEF IsRetSubmit
  <1> QED
    BY <1>1, <1>2, ReplyKinds

LEMMA EncodeReplyType ==
  ASSUME NEW r \in Replies
  PROVE  EncodeReply(r) \in Seq(Nat)
  <1>1. <<>> \in Seq(Nat)
    OBVIOUS
  <1>2. Answers(Cat(EncodeReply(r), <<>>), r, <<>>)
    BY <1>1, ReplyAnswers
  <1> QED
    BY <1>2 DEF Answers

LEMMA ReturnedType ==
  ASSUME NEW s \in Seq(Replies)
  PROVE  Returned(s) \in Seq(Seq(Nat)) /\ Len(Returned(s)) = Len(s)
  <1>1. \A k \in 1..Len(s) : EncodeReply(s[k]) \in Seq(Nat)
    BY EncodeReplyType
  <1> QED
    BY <1>1 DEF Returned

LEMMA ReturnedAppend ==
  ASSUME NEW s \in Seq(Replies), NEW p \in Replies
  PROVE  Returned(Append(s, p)) = Append(Returned(s), EncodeReply(p))
  <1> DEFINE t == Append(s, p)
             w == Returned(t)
             a == Append(Returned(s), EncodeReply(p))
  <1>1. t \in Seq(Replies) /\ Len(t) = Len(s) + 1 /\ t[Len(s) + 1] = p /\ \A k \in 1..Len(s) : t[k] = s[k]
    OBVIOUS
  <1> HIDE DEF t
  <1>2. w \in Seq(Seq(Nat)) /\ Len(w) = Len(t) /\ \A k \in 1..Len(t) : w[k] = EncodeReply(t[k])
    BY <1>1, ReturnedType DEF Returned
  <1>3. /\ Returned(s) \in Seq(Seq(Nat)) /\ Len(Returned(s)) = Len(s)
        /\ \A k \in 1..Len(s) : Returned(s)[k] = EncodeReply(s[k])
    BY ReturnedType DEF Returned
  <1>4. EncodeReply(p) \in Seq(Nat)
    BY EncodeReplyType
  <1>5. /\ a \in Seq(Seq(Nat)) /\ Len(a) = Len(s) + 1 /\ a[Len(s) + 1] = EncodeReply(p)
        /\ \A k \in 1..Len(s) : a[k] = Returned(s)[k]
    BY <1>3, <1>4
  <1> HIDE DEF w, a
  <1>6. ASSUME NEW k \in 1..(Len(s) + 1) PROVE w[k] = a[k]
    <2>1. CASE k = Len(s) + 1
      BY <1>1, <1>2, <1>5, <2>1
    <2>2. CASE k # Len(s) + 1
      <3>1. k \in 1..Len(s)
        BY <2>2
      <3>2. w[k] = EncodeReply(s[k])
        BY <1>1, <1>2, <3>1
      <3> QED
        BY <1>3, <1>5, <3>1, <3>2
    <2> QED
      BY <2>1, <2>2
  <1>7. w = a
    BY <1>1, <1>2, <1>5, <1>6, SeqEqual
  <1> QED
    BY <1>7 DEF w, a, t

\* A reply posted is behind those that were posted before.
LEMMA PostedStream ==
  ASSUME NEW s \in Seq(Replies), NEW n \in 0..Len(s), NEW r \in Replies
  PROVE  Rest(Returned(Append(s, r)), n) = Cat(Rest(Returned(s), n), EncodeReply(r))
  <1>1. Returned(s) \in Seq(Seq(Nat)) /\ n \in 0..Len(Returned(s)) /\ EncodeReply(r) \in Seq(Nat)
    BY ReturnedType, EncodeReplyType
  <1> QED
    BY <1>1, ReturnedAppend, RestAppend

\* A stream that is not empty begins with the first reply not read yet.
LEMMA GotStream ==
  ASSUME NEW s \in Seq(Replies), NEW n \in 0..Len(s), NEW b, b = Rest(Returned(s), n)
  PROVE  /\ n = Len(s) => b = <<>>
         /\ n # Len(s) => Answers(b, s[n + 1], Rest(Returned(s), n + 1))
  <1> DEFINE e == Returned(s)
             r == Rest(e, n + 1)
  <1>1. e \in Seq(Seq(Nat)) /\ Len(e) = Len(s)
    BY ReturnedType
  <1>2. \A k \in 1..Len(s) : e[k] = EncodeReply(s[k])
    BY DEF Returned
  <1> HIDE DEF e
  <1>3. n = Len(s) => b = <<>>
    BY <1>1, RestEmpty DEF e
  <1>4. ASSUME n # Len(s) PROVE Answers(b, s[n + 1], r)
    <2>1. n + 1 \in 1..Len(s) /\ n + 1 \in Nat /\ n + 1 \in 0..Len(e)
      BY <1>1, <1>4
    <2>2. b = Cat(e[n + 1], r)
      BY <1>1, <1>4, RestHead DEF e
    <2>3. r \in Seq(Nat)
      BY <1>1, <2>1, RestType
    <2>4. e[n + 1] = EncodeReply(s[n + 1]) /\ s[n + 1] \in Replies
      BY <1>2, <2>1
    <2> HIDE DEF r
    <2> QED
      BY <2>2, <2>3, <2>4, ReplyAnswers
  <1> QED
    BY <1>3, <1>4 DEF e

-----------------------------------------------------------------------------
(* Text fields.                                                            *)

\* A text field has its size, and a NUL behind the text.
LEMMA TextFieldType ==
  ASSUME NEW s \in Seq(Chars), NEW n \in Nat \ {0}
  PROVE  TextField(s, n) \in Seq(Nat) /\ Len(TextField(s, n)) = n
  <1> DEFINE take == IF Len(s) < n - 1 THEN Len(s) ELSE n - 1
             a == SubSeq(s, 1, take)
             z == Zeros(n - take)
  <1>1. take \in Nat /\ take <= Len(s) /\ take < n /\ n - take \in Nat
    OBVIOUS
  <1>2. TextField(s, n) = Cat(a, z)
    BY DEF TextField, Cat
  <1> HIDE DEF take
  <1>3. a \in Seq(Nat) /\ Len(a) = take
    BY <1>1 DEF Chars
  <1>4. z \in Seq(Nat) /\ Len(z) = n - take
    BY <1>1, ZerosType
  <1> HIDE DEF a, z
  <1>5. Cat(a, z) \in Seq(Nat) /\ Len(Cat(a, z)) = take + (n - take)
    BY <1>3, <1>4, CatType
  <1> QED
    BY <1>1, <1>2, <1>5

\* Text that leaves room for a NUL is read as it was written.
LEMMA TextRead ==
  ASSUME NEW s \in Seq(Chars), NEW n \in Nat \ {0}, Len(s) < n
  PROVE  Text(TextField(s, n)) = s
  <1> DEFINE b == TextField(s, n)
             z == Zeros(n - Len(s))
             nul == {k \in 1..Len(b) : b[k] = 0}
             first == CHOOSE k \in nul : \A j \in nul : k <= j
  <1>1. s \in Seq(Nat) /\ Len(s) \in Nat /\ n - Len(s) \in Nat /\ \A k \in 1..Len(s) : s[k] # 0
    BY DEF Chars
  <1>2. b = Cat(s, z)
    <2> DEFINE take == IF Len(s) < n - 1 THEN Len(s) ELSE n - 1
    <2>1. take = Len(s)
      BY <1>1
    <2>2. SubSeq(s, 1, Len(s)) = s
      OBVIOUS
    <2>3. b = SubSeq(s, 1, take) \o Zeros(n - take)
      BY DEF TextField
    <2> HIDE DEF take
    <2> QED
      BY <2>1, <2>2, <2>3 DEF Cat
  <1>3. z \in Seq(Nat) /\ Len(z) = n - Len(s) /\ \A k \in 1..(n - Len(s)) : z[k] = 0
    BY <1>1, ZerosType DEF Zeros
  <1> HIDE DEF z
  <1>4. /\ b \in Seq(Nat) /\ Len(b) = n
        /\ \A k \in 1..Len(s) : b[k] = s[k]
        /\ \A k \in 1..(n - Len(s)) : b[Len(s) + k] = 0
    <2>1. b \in Seq(Nat) /\ Len(b) = n
      BY TextFieldType
    <2>2. \A k \in 1..Len(s) : b[k] = s[k]
      BY <1>1, <1>2, <1>3, CatElements
    <2>3. \A k \in 1..Len(z) : b[Len(s) + k] = z[k]
      BY <1>1, <1>2, <1>3, CatElements
    <2> HIDE DEF b
    <2> QED
      BY <1>3, <2>1, <2>2, <2>3
  <1>5. SubSeq(b, 1, Len(s)) = s
    BY <1>1, <1>2, <1>3, CatSplit
  <1> HIDE DEF b
  <1>6. Len(s) + 1 \in nul
    BY <1>1, <1>4
  <1>7. ASSUME NEW k \in nul PROVE Len(s) + 1 <= k
    <2>1. k \in 1..n /\ b[k] = 0
      BY <1>4
    <2>2. k \notin 1..Len(s)
      BY <1>1, <1>4, <2>1
    <2> QED
      BY <1>1, <2>1, <2>2
  <1>8. first = Len(s) + 1
    <2>1. nul \subseteq Int
      OBVIOUS
    <2> HIDE DEF nul
    <2>2. first \in nul /\ \A j \in nul : first <= j
      BY <1>6, <1>7
    <2> HIDE DEF first
    <2>3. first <= Len(s) + 1 /\ Len(s) + 1 <= first /\ first \in Int
      BY <1>6, <1>7, <2>1, <2>2
    <2> QED
      BY <1>1, <2>3
  <1>9. Text(b) = SubSeq(b, 1, first - 1)
    BY <1>6 DEF Text
  <1> HIDE DEF first
  <1>10. first - 1 = Len(s)
    BY <1>1, <1>8
  <1> QED
    BY <1>5, <1>9, <1>10 DEF b

-----------------------------------------------------------------------------
(* Messages at their offsets in a stream.                                  *)

LEMMA DropNat ==
  ASSUME NEW b \in Seq(Nat), NEW m \in 0..Len(b)
  PROVE  /\ Drop(b, m) \in Seq(Nat) /\ Len(Drop(b, m)) = Len(b) - m
         /\ \A i \in 1..(Len(b) - m) : Drop(b, m)[i] = b[m + i]
  BY DEF Drop

LEMMA DropDrop ==
  ASSUME NEW b \in Seq(Nat), NEW m \in 0..Len(b), NEW n \in 0..(Len(b) - m)
  PROVE  Drop(Drop(b, m), n) = Drop(b, m + n)
  <1> DEFINE c == Drop(b, m)
             d == Drop(c, n)
             e == Drop(b, m + n)
  <1>0. Len(b) \in Nat /\ m \in Nat /\ n \in Nat /\ m + n \in 0..Len(b) /\ n <= Len(b) - m
    OBVIOUS
  <1>1. c \in Seq(Nat) /\ Len(c) = Len(b) - m /\ \A i \in 1..(Len(b) - m) : c[i] = b[m + i]
    BY DropNat
  <1>2. /\ e \in Seq(Nat) /\ Len(e) = Len(b) - (m + n)
        /\ \A i \in 1..(Len(b) - (m + n)) : e[i] = b[m + n + i]
    BY <1>0, DropNat
  <1> HIDE DEF c, e
  <1>3. d \in Seq(Nat) /\ Len(d) = Len(c) - n /\ \A i \in 1..(Len(c) - n) : d[i] = c[n + i]
    BY <1>1, DropNat
  <1> HIDE DEF d
  <1>4. Len(d) = Len(e)
    BY <1>0, <1>1, <1>2, <1>3
  <1>5. ASSUME NEW i \in 1..Len(e) PROVE d[i] = e[i]
    <2>1. i \in 1..(Len(c) - n) /\ n + i \in 1..(Len(b) - m) /\ i \in 1..(Len(b) - (m + n))
      BY <1>0, <1>1, <1>2
    <2>2. d[i] = b[m + (n + i)]
      BY <1>1, <1>3, <2>1
    <2>3. e[i] = b[m + n + i] /\ m + (n + i) = m + n + i
      BY <1>0, <1>2, <2>1
    <2> QED
      BY <2>2, <2>3
  <1>6. d = e
    BY <1>2, <1>3, <1>4, <1>5, SeqEqual
  <1> QED
    BY <1>6 DEF c, d, e

LEMMA DropCat ==
  ASSUME NEW a \in Seq(Nat), NEW b \in Seq(Nat), NEW m \in 0..Len(b)
  PROVE  Drop(Cat(a, b), Len(a) + m) = Drop(b, m)
  <1>1. /\ Cat(a, b) \in Seq(Nat) /\ Len(Cat(a, b)) = Len(a) + Len(b)
        /\ Drop(Cat(a, b), Len(a)) = b
    BY CatType, CatSplit
  <1> DEFINE c == Cat(a, b)
  <1> HIDE DEF c
  <1>2. Len(a) \in 0..Len(c) /\ m \in 0..(Len(c) - Len(a))
    BY <1>1 DEF c
  <1>3. Drop(Drop(c, Len(a)), m) = Drop(c, Len(a) + m)
    BY <1>1, <1>2, DropDrop DEF c
  <1> QED
    BY <1>1, <1>3 DEF c

\* Where each message of `q` begins in their concatenation.
Offsets(off, q) ==
  /\ \A k \in 0..Len(q) : off[k] \in Nat
  /\ off[0] = 0
  /\ \A k \in 1..Len(q) : off[k] = off[k - 1] + Len(q[k])

LEMMA OffsetsCut ==
  ASSUME NEW q \in Seq(Seq(Nat)), NEW off, Offsets(off, q)
  PROVE  /\ \A k \in 0..Len(q) : /\ off[k] \in 0..Len(FlattenSeq(q))
                                 /\ Drop(FlattenSeq(q), off[k]) = Rest(q, k)
         /\ off[Len(q)] = Len(FlattenSeq(q))
  <1> DEFINE f == FlattenSeq(q)
             S == {m \in Nat : m <= Len(q) => off[m] \in 0..Len(f) /\ Drop(f, off[m]) = Rest(q, m)}
  <1>0. f \in Seq(Nat) /\ Len(f) \in Nat /\ Len(q) \in Nat
    BY FlattenType
  <1>1. 0 \in S
    <2>1. Drop(q, 0) = q
      BY DEF Drop
    <2>2. Rest(q, 0) = f
      BY <2>1 DEF Rest
    <2> HIDE DEF f
    <2>3. Drop(f, 0) = f
      BY <1>0 DEF Drop
    <2>4. off[0] = 0
      BY DEF Offsets
    <2> QED
      BY <1>0, <2>2, <2>3, <2>4
  <1> HIDE DEF f
  <1>2. ASSUME NEW m \in Nat, m \in S PROVE m + 1 \in S
    <2>1. SUFFICES ASSUME m + 1 <= Len(q)
                   PROVE  off[m + 1] \in 0..Len(f) /\ Drop(f, off[m + 1]) = Rest(q, m + 1)
      OBVIOUS
    <2>2. m \in 0..Len(q) /\ m # Len(q) /\ m + 1 \in 1..Len(q) /\ m + 1 \in 0..Len(q)
      BY <1>0, <2>1
    <2>3. off[m] \in 0..Len(f) /\ Drop(f, off[m]) = Rest(q, m)
      BY <1>2, <2>2
    <2>4. off[m + 1] = off[m] + Len(q[m + 1])
      BY <2>2 DEF Offsets
    <2>5. q[m + 1] \in Seq(Nat) /\ Rest(q, m) = Cat(q[m + 1], Rest(q, m + 1))
      BY <2>2, RestHead
    <2>6. Rest(q, m + 1) \in Seq(Nat)
      BY <2>2, RestType
    <2>7. Len(Rest(q, m)) = Len(q[m + 1]) + Len(Rest(q, m + 1)) /\ Drop(Rest(q, m), Len(q[m + 1])) = Rest(q, m + 1)
      BY <2>5, <2>6, CatType, CatSplit
    <2>8. Len(Rest(q, m)) = Len(f) - off[m]
      BY <1>0, <2>3, DropNat
    <2>9. Len(q[m + 1]) \in 0..(Len(f) - off[m])
      <3> DEFINE l == Len(q[m + 1])
                 r == Len(Rest(q, m + 1))
                 t == Len(Rest(q, m))
                 o == off[m]
                 w == Len(f)
      <3>1. l \in Nat
        BY <2>5
      <3>2. r \in Nat
        BY <2>6
      <3>3. o \in 0..w /\ w \in Nat
        BY <1>0, <2>3
      <3>4. t = l + r
        BY <2>7
      <3>5. t = w - o
        BY <2>8
      <3> HIDE DEF l, r, t, o, w
      <3>6. l \in 0..(w - o)
        BY <3>1, <3>2, <3>3, <3>4, <3>5
      <3> QED
        BY <3>6 DEF l, o, w
    <2>10. Drop(f, off[m] + Len(q[m + 1])) = Rest(q, m + 1)
      BY <1>0, <2>3, <2>7, <2>9, DropDrop
    <2>11. off[m] + Len(q[m + 1]) \in 0..Len(f)
      BY <1>0, <2>3, <2>9
    <2> QED
      BY <2>4, <2>10, <2>11
  <1> HIDE DEF S
  <1>3. Nat \subseteq S
    BY <1>1, <1>2, Induction
  <1>4. \A k \in 0..Len(q) : off[k] \in 0..Len(f) /\ Drop(f, off[k]) = Rest(q, k)
    BY <1>0, <1>3 DEF S
  <1>5. off[Len(q)] = Len(f)
    <2>1. Len(q) \in 0..Len(q)
      BY <1>0
    <2>2. off[Len(q)] \in 0..Len(f) /\ Drop(f, off[Len(q)]) = <<>>
      BY <1>4, <2>1, RestEmpty
    <2>3. Len(Drop(f, off[Len(q)])) = Len(f) - off[Len(q)]
      BY <1>0, <2>2, DropNat
    <2> QED
      BY <1>0, <2>2, <2>3
  <1> QED
    BY <1>4, <1>5 DEF f

-----------------------------------------------------------------------------
(* Devices.                                                                *)

LEMMA ExportedType ==
  ASSUME NEW e \in Range(Exported)
  PROVE  /\ e.sys_path \in Seq(Chars) /\ e.busid \in Seq(Chars)
         /\ e.busnum \in Nat /\ e.devnum \in Nat /\ e.speed \in Nat /\ e.ids \in Nat
         /\ e.interfaces \in Seq(Nat \X Nat \X Nat)
  <1>1. PICK k \in DOMAIN Exported : e = Exported[k]
    BY DEF Range
  <1>2. e \in Summary
    BY <1>1, ListAssumption
  <1> QED
    BY <1>2 DEF Summary

\* What b_num_interfaces counts.
Count(e) == Len(e.interfaces) % Byte

LEMMA CountType ==
  ASSUME NEW e \in Range(Exported)
  PROVE  /\ Count(e) \in Nat /\ Count(e) <= Len(e.interfaces)
         /\ Len(e.interfaces) < Byte => Count(e) = Len(e.interfaces)
  <1> DEFINE n == Len(e.interfaces)
  <1>1. n \in Nat
    BY ExportedType
  <1>2. Byte \in Nat \ {0}
    BY SizesAssumption
  <1> HIDE DEF n
  <1>3. n % Byte \in Nat /\ n % Byte <= n
    BY <1>1, <1>2
  <1>4. n < Byte => n % Byte = n
    BY <1>1, <1>2
  <1> QED
    BY <1>3, <1>4 DEF Count, n

\* The part of a device's record that both replies have.
Fixed(e) ==
  Cat(Cat(TextField(e.sys_path, PathLen), TextField(e.busid, BusidLen)),
      <<e.busnum, e.devnum, e.speed, e.ids, Count(e)>>)

\* The interfaces behind it, each with its padding.
Pad(i) == Append(i, 0)
Padded(e) == [k \in 1..Count(e) |-> Pad(e.interfaces[k])]

LEMMA SizesType == /\ PathLen \in Nat \ {0} /\ BusidLen \in Nat \ {0}
                   /\ SIZE_USB_DEVICE = PathLen + BusidLen + 5 /\ SIZE_USB_DEVICE \in Nat
  BY SizesAssumption DEF SIZE_USB_DEVICE

LEMMA FunctionSeq ==
  ASSUME NEW n \in Nat, NEW f \in [1..n -> Seq(Nat)]
  PROVE  f \in Seq(Seq(Nat)) /\ Len(f) = n
  OBVIOUS

LEMMA PadType ==
  ASSUME NEW i \in Nat \X Nat \X Nat
  PROVE  /\ i \in Seq(Nat) /\ Len(i) = 3
         /\ Pad(i) \in Seq(Nat) /\ Len(Pad(i)) = 4 /\ \A j \in 1..3 : Pad(i)[j] = i[j]
  <1>1. i \in Seq(Nat) /\ Len(i) = 3
    <2>1. PICK x \in Nat, y \in Nat, z \in Nat : i = <<x, y, z>>
      OBVIOUS
    <2> QED
      BY <2>1
  <1>2. ASSUME NEW t \in Seq(Nat), Len(t) = 3
        PROVE  Append(t, 0) \in Seq(Nat) /\ Len(Append(t, 0)) = Len(t) + 1
               /\ \A j \in 1..Len(t) : Append(t, 0)[j] = t[j]
    OBVIOUS
  <1>3. /\ Append(i, 0) \in Seq(Nat) /\ Len(Append(i, 0)) = Len(i) + 1
        /\ \A j \in 1..Len(i) : Append(i, 0)[j] = i[j]
    BY <1>1, <1>2
  <1>4. Pad(i) = Append(i, 0)
    BY DEF Pad
  <1> DEFINE p == Pad(i)
  <1> HIDE DEF p
  <1>5. p \in Seq(Nat) /\ Len(p) = Len(i) + 1 /\ \A j \in 1..Len(i) : p[j] = i[j]
    BY <1>3, <1>4 DEF p
  <1>6. p \in Seq(Nat) /\ Len(p) = 4 /\ \A j \in 1..3 : p[j] = i[j]
    BY <1>1, <1>5
  <1> QED
    BY <1>1, <1>6 DEF p

LEMMA PaddedType ==
  ASSUME NEW e \in Range(Exported)
  PROVE  /\ Padded(e) \in Seq(Seq(Nat)) /\ Len(Padded(e)) = Count(e)
         /\ \A k \in 1..Count(e) : /\ k \in 1..Len(e.interfaces) /\ e.interfaces[k] \in Nat \X Nat \X Nat
                                   /\ Padded(e)[k] = Pad(e.interfaces[k])
                                   /\ Padded(e)[k] \in Seq(Nat) /\ Len(Padded(e)[k]) = 4
  <1>1. Count(e) \in Nat /\ Count(e) <= Len(e.interfaces) /\ e.interfaces \in Seq(Nat \X Nat \X Nat)
    BY CountType, ExportedType
  <1>2. ASSUME NEW k \in 1..Count(e)
        PROVE  /\ k \in 1..Len(e.interfaces) /\ e.interfaces[k] \in Nat \X Nat \X Nat
               /\ Pad(e.interfaces[k]) \in Seq(Nat) /\ Len(Pad(e.interfaces[k])) = 4
    <2>1. k \in 1..Len(e.interfaces)
      BY <1>1
    <2>2. e.interfaces[k] \in Nat \X Nat \X Nat
      BY <1>1, <2>1
    <2> QED
      BY <2>1, <2>2, PadType
  <1>3. Padded(e) \in Seq(Seq(Nat)) /\ Len(Padded(e)) = Count(e)
    <2> DEFINE f == [k \in 1..Count(e) |-> Pad(e.interfaces[k])]
    <2>1. f \in [1..Count(e) -> Seq(Nat)]
      BY <1>2
    <2> HIDE DEF f
    <2>2. f \in Seq(Seq(Nat)) /\ Len(f) = Count(e)
      BY <1>1, <2>1, FunctionSeq
    <2> QED
      BY <2>2 DEF f, Padded
  <1>4. \A k \in 1..Count(e) : Padded(e)[k] = Pad(e.interfaces[k])
    BY DEF Padded
  <1> QED
    BY <1>2, <1>3, <1>4

LEMMA FixedType ==
  ASSUME NEW e \in Range(Exported)
  PROVE  Fixed(e) \in Seq(Nat) /\ Len(Fixed(e)) = SIZE_USB_DEVICE
  <1> DEFINE p == TextField(e.sys_path, PathLen)
             q == TextField(e.busid, BusidLen)
             f == <<e.busnum, e.devnum, e.speed, e.ids, Count(e)>>
  <1>1. p \in Seq(Nat) /\ Len(p) = PathLen
    BY ExportedType, SizesType, TextFieldType
  <1>2. q \in Seq(Nat) /\ Len(q) = BusidLen
    BY ExportedType, SizesType, TextFieldType
  <1>3. f \in Seq(Nat) /\ Len(f) = 5
    BY ExportedType, CountType
  <1> HIDE DEF p, q, f
  <1>4. Cat(p, q) \in Seq(Nat) /\ Len(Cat(p, q)) = Len(p) + Len(q)
    BY <1>1, <1>2, CatType
  <1>5. Cat(Cat(p, q), f) \in Seq(Nat) /\ Len(Cat(Cat(p, q), f)) = Len(Cat(p, q)) + Len(f)
    BY <1>3, <1>4, CatType
  <1>6. Len(Cat(Cat(p, q), f)) = SIZE_USB_DEVICE
    BY <1>1, <1>2, <1>3, <1>4, <1>5, SizesType
  <1> QED
    BY <1>5, <1>6 DEF Fixed, p, q, f

\* What EncodeDevice writes.
LEMMA EncodeDeviceIs ==
  ASSUME NEW e \in Range(Exported)
  PROVE  /\ EncodeDevice(ToUsbip(e), FALSE) = Fixed(e)
         /\ EncodeDevice(ToUsbip(e), TRUE) = Cat(Fixed(e), FlattenSeq(Padded(e)))
  <1> DEFINE d == ToUsbip(e)
             i == [k \in 1..d.num |-> Pad(Interface(d, k))]
  <1>1. /\ d.path = e.sys_path /\ d.busid = e.busid /\ d.busnum = e.busnum /\ d.devnum = e.devnum
        /\ d.speed = e.speed /\ d.ids = e.ids /\ d.num = Count(e) /\ d.interfaces = e.interfaces
    BY DEF ToUsbip, Count
  <1>2. i = Padded(e)
    <2>1. ASSUME NEW k \in 1..Count(e) PROVE Interface(d, k) = e.interfaces[k]
      <3>1. k <= Len(e.interfaces)
        BY CountType, ExportedType
      <3> QED
        BY <1>1, <3>1 DEF Interface
    <2> HIDE DEF d
    <2> QED
      BY <1>1, <2>1 DEF Padded
  <1>3. EncodeDevice(d, TRUE) = Cat(Fixed(e), FlattenSeq(i))
    <2> HIDE DEF d
    <2> QED
      BY <1>1 DEF EncodeDevice, Cat, Fixed, Pad
  <1>4. EncodeDevice(d, FALSE) = Cat(Fixed(e), <<>>)
    <2> HIDE DEF d
    <2> QED
      BY <1>1 DEF EncodeDevice, Cat, Fixed, Pad
  <1> QED
    BY <1>2, <1>3, <1>4, FixedType, CatEmpty

LEMMA SubSeqDrop ==
  ASSUME NEW b \in Seq(Nat), NEW m \in Nat, NEW n \in Nat, m + n <= Len(b)
  PROVE  SubSeq(b, m + 1, m + n) = SubSeq(Drop(b, m), 1, n)
  <1> DEFINE x == SubSeq(b, m + 1, m + n)
             d == Drop(b, m)
             y == SubSeq(d, 1, n)
  <1>1. x \in Seq(Nat) /\ Len(x) = n /\ \A i \in 1..n : x[i] = b[m + i]
    <2>1. \A i \in (m + 1)..(m + n) : b[i] \in Nat
      OBVIOUS
    <2>2. /\ x \in Seq(Nat)
          /\ Len(x) = IF m + 1 <= m + n THEN (m + n) - (m + 1) + 1 ELSE 0
          /\ \A i \in 1..((m + n) - (m + 1) + 1) : x[i] = b[(m + 1) + i - 1]
      BY <2>1, SubSeqProperties
    <2> HIDE DEF x
    <2>3. (m + n) - (m + 1) + 1 = n /\ \A i \in 1..n : (m + 1) + i - 1 = m + i
      OBVIOUS
    <2> QED
      BY <2>2, <2>3
  <1>2. d \in Seq(Nat) /\ Len(d) = Len(b) - m /\ \A i \in 1..(Len(b) - m) : d[i] = b[m + i]
    <2>1. m \in 0..Len(b)
      OBVIOUS
    <2> QED
      BY <2>1, DropNat
  <1> HIDE DEF d
  <1>3. y \in Seq(Nat) /\ Len(y) = n /\ \A i \in 1..n : y[i] = d[i]
    <2>1. \A i \in 1..n : d[i] \in Nat
      <3>1. ASSUME NEW i \in 1..n PROVE d[i] \in Nat
        <4>1. i \in 1..(Len(b) - m) /\ m + i \in 1..Len(b)
          OBVIOUS
        <4> QED
          BY <1>2, <4>1
      <3> QED
        BY <3>1
    <2> QED
      BY <2>1, SubSeqProperties
  <1> HIDE DEF x, y
  <1>4. ASSUME NEW i \in 1..n PROVE x[i] = y[i]
    <2>1. i \in 1..(Len(b) - m)
      OBVIOUS
    <2> QED
      BY <1>1, <1>2, <1>3, <2>1
  <1>5. x = y
    BY <1>1, <1>3, <1>4, SeqEqual
  <1> QED
    BY <1>5 DEF x, y, d

\* The fields of the record at the head of `b`.
DeviceAt(b, e) ==
  /\ b[SIZE_USB_DEVICE] = Count(e)
  /\ b[PathLen + BusidLen + 1] = e.busnum
  /\ b[PathLen + BusidLen + 4] = e.ids
  /\ SubSeq(b, PathLen + 1, PathLen + BusidLen) = TextField(e.busid, BusidLen)

LEMMA FixedDecodes ==
  ASSUME NEW e \in Range(Exported), NEW r \in Seq(Nat)
  PROVE  DeviceAt(Cat(Fixed(e), r), e)
  <1> DEFINE p == TextField(e.sys_path, PathLen)
             q == TextField(e.busid, BusidLen)
             f == <<e.busnum, e.devnum, e.speed, e.ids, Count(e)>>
             b == Cat(Fixed(e), r)
             t == Cat(f, r)
             u == Cat(q, t)
             n == PathLen + BusidLen
  <1>1. p \in Seq(Nat) /\ Len(p) = PathLen
    BY ExportedType, SizesType, TextFieldType
  <1>2. q \in Seq(Nat) /\ Len(q) = BusidLen
    BY ExportedType, SizesType, TextFieldType
  <1>3. f \in Seq(Nat) /\ Len(f) = 5 /\ f[1] = e.busnum /\ f[4] = e.ids /\ f[5] = Count(e)
    BY ExportedType, CountType
  <1>4. Fixed(e) = Cat(Cat(p, q), f)
    BY DEF Fixed
  <1> HIDE DEF p, q, f
  <1>5. Cat(p, q) \in Seq(Nat) /\ Len(Cat(p, q)) = Len(p) + Len(q)
    BY <1>1, <1>2, CatType
  <1>6. t \in Seq(Nat) /\ Len(t) = Len(f) + Len(r)
    BY <1>3, CatType
  <1>7. b = Cat(Cat(p, q), t)
    BY <1>3, <1>4, <1>5, CatAssociative
  <1>8. \A i \in 1..Len(f) : t[i] = f[i]
    BY <1>3, CatElements
  <1> HIDE DEF b, t
  <1>9. b = Cat(p, u) /\ u \in Seq(Nat) /\ Len(u) = Len(q) + Len(t)
    <2>1. Cat(Cat(p, q), t) = Cat(p, u)
      BY <1>1, <1>2, <1>6, CatAssociative
    <2> QED
      BY <1>2, <1>6, <1>7, <2>1, CatType
  <1>10. b \in Seq(Nat) /\ Len(b) = Len(p) + Len(u)
    BY <1>1, <1>9, CatType
  <1>11. \A i \in 1..Len(t) : b[Len(Cat(p, q)) + i] = t[i]
    BY <1>5, <1>6, <1>7, CatElements
  <1>12. PathLen \in Nat /\ BusidLen \in Nat /\ SIZE_USB_DEVICE = PathLen + BusidLen + 5 /\ Len(r) \in Nat
    BY SizesType
  <1>13. Len(Cat(p, q)) = n /\ Len(t) = 5 + Len(r)
    BY <1>1, <1>2, <1>3, <1>5, <1>6
  <1>14. \A i \in 1..5 : b[n + i] = f[i]
    <2> HIDE DEF n
    <2>1. ASSUME NEW i \in 1..5 PROVE i \in 1..Len(t) /\ i \in 1..Len(f)
      BY <1>3, <1>12, <1>13
    <2> QED
      BY <1>8, <1>11, <1>13, <2>1
  <1>15. b[n + 1] = e.busnum /\ b[n + 4] = e.ids /\ b[SIZE_USB_DEVICE] = Count(e)
    BY <1>3, <1>12, <1>14
  <1>16. Drop(b, PathLen) = u /\ SubSeq(u, 1, BusidLen) = q
    BY <1>1, <1>2, <1>6, <1>9, CatSplit
  <1>17. SubSeq(b, PathLen + 1, PathLen + BusidLen) = q
    <2>1. PathLen + BusidLen <= Len(b)
      <3> HIDE DEF u
      <3>1. Len(t) \in Nat
        BY <1>12, <1>13
      <3> QED
        BY <1>1, <1>2, <1>9, <1>10, <1>12, <3>1
    <2> HIDE DEF u
    <2> QED
      BY <1>10, <1>12, <1>16, <2>1, SubSeqDrop
  <1> QED
    BY <1>15, <1>17 DEF DeviceAt, b, q

LEMMA DropCatLeft ==
  ASSUME NEW a \in Seq(Nat), NEW b \in Seq(Nat), NEW m \in 0..Len(a)
  PROVE  Drop(Cat(a, b), m) = Cat(Drop(a, m), b)
  <1> DEFINE h == SubSeq(a, 1, m)
             d == Drop(a, m)
  <1>1. h \in Seq(Nat) /\ Len(h) = m /\ \A i \in 1..m : h[i] = a[i]
    OBVIOUS
  <1>2. d \in Seq(Nat) /\ Len(d) = Len(a) - m /\ \A i \in 1..(Len(a) - m) : d[i] = a[m + i]
    BY DropNat
  <1> HIDE DEF h, d
  <1>3. Cat(h, d) = a
    <2> DEFINE c == Cat(h, d)
    <2>1. c \in Seq(Nat) /\ Len(c) = Len(h) + Len(d)
      BY <1>1, <1>2, CatType
    <2>2. (\A i \in 1..Len(h) : c[i] = h[i]) /\ \A i \in 1..Len(d) : c[Len(h) + i] = d[i]
      BY <1>1, <1>2, CatElements
    <2> HIDE DEF c
    <2>3. Len(c) = Len(a)
      BY <1>1, <1>2, <2>1
    <2>4. ASSUME NEW i \in 1..Len(a) PROVE c[i] = a[i]
      <3>1. CASE i <= m
        BY <1>1, <2>2, <3>1
      <3>2. CASE i > m
        <4>1. i - m \in 1..(Len(a) - m) /\ m + (i - m) = i
          BY <3>2
        <4>2. c[m + (i - m)] = d[i - m]
          BY <1>1, <1>2, <2>2, <4>1
        <4>3. d[i - m] = a[m + (i - m)]
          BY <1>2, <4>1
        <4> QED
          BY <4>1, <4>2, <4>3
      <3> QED
        BY <3>1, <3>2
    <2> QED
      BY <2>1, <2>3, <2>4, SeqEqual DEF c
  <1>4. Cat(a, b) = Cat(h, Cat(d, b))
    BY <1>1, <1>2, <1>3, CatAssociative
  <1>5. Cat(d, b) \in Seq(Nat)
    BY <1>2, CatType
  <1>6. Drop(Cat(h, Cat(d, b)), Len(h)) = Cat(d, b)
    BY <1>1, <1>5, CatSplit
  <1> QED
    BY <1>1, <1>4, <1>6 DEF d

\* An interface is read without its padding.
LEMMA PadRead ==
  ASSUME NEW i \in Nat \X Nat \X Nat, NEW x \in Seq(Nat)
  PROVE  SubSeq(Cat(Pad(i), x), 1, 3) = i
  <1> DEFINE p == Pad(i)
             c == Cat(p, x)
             y == SubSeq(c, 1, 3)
  <1>1. i \in Seq(Nat) /\ Len(i) = 3 /\ p \in Seq(Nat) /\ Len(p) = 4 /\ \A j \in 1..3 : p[j] = i[j]
    BY PadType
  <1> HIDE DEF p
  <1>2. c \in Seq(Nat) /\ Len(c) = Len(p) + Len(x) /\ \A j \in 1..Len(p) : c[j] = p[j]
    BY <1>1, CatType, CatElements
  <1> HIDE DEF c
  <1>3. Len(c) >= 4 /\ Len(c) \in Nat
    <2>1. Len(x) \in Nat
      OBVIOUS
    <2> QED
      BY <1>1, <1>2, <2>1
  <1>4. y \in Seq(Nat) /\ Len(y) = 3 /\ \A j \in 1..3 : y[j] = c[j]
    BY <1>2, <1>3
  <1> HIDE DEF y
  <1>5. \A j \in 1..3 : y[j] = i[j]
    BY <1>1, <1>2, <1>4
  <1>6. y = i
    BY <1>1, <1>4, <1>5, SeqEqual
  <1> QED
    BY <1>6 DEF y, c, p

LEMMA PaddedFlat ==
  ASSUME NEW e \in Range(Exported)
  PROVE  /\ FlattenSeq(Padded(e)) \in Seq(Nat)
         /\ Len(FlattenSeq(Padded(e))) = Count(e) * 4
         /\ \A j \in 1..Count(e) :
              /\ (j - 1) * 4 \in 0..Len(FlattenSeq(Padded(e)))
              /\ Drop(FlattenSeq(Padded(e)), (j - 1) * 4) = Cat(Pad(e.interfaces[j]), Rest(Padded(e), j))
              /\ Rest(Padded(e), j) \in Seq(Nat)
  <1> DEFINE q == Padded(e)
             f == FlattenSeq(q)
             n == Count(e)
             off == [k \in 0..n |-> k * 4]
  <1>1. /\ q \in Seq(Seq(Nat)) /\ Len(q) = n /\ n \in Nat
        /\ \A k \in 1..n : q[k] = Pad(e.interfaces[k]) /\ q[k] \in Seq(Nat) /\ Len(q[k]) = 4
    BY PaddedType, CountType
  <1> HIDE DEF q, n
  <1>2. Offsets(off, q)
    <2>1. \A k \in 0..n : off[k] = k * 4 /\ off[k] \in Nat
      OBVIOUS
    <2>2. off[0] = 0
      BY <1>1, <2>1
    <2> HIDE DEF off
    <2>3. ASSUME NEW k \in 1..n PROVE off[k] = off[k - 1] + Len(q[k])
      <3>1. k \in 0..n /\ k - 1 \in 0..n /\ Len(q[k]) = 4
        BY <1>1
      <3>2. off[k] = k * 4 /\ off[k - 1] = (k - 1) * 4
        BY <2>1, <3>1
      <3>3. k * 4 = (k - 1) * 4 + 4
        BY <1>1
      <3> QED
        BY <3>1, <3>2, <3>3
    <2> QED
      BY <1>1, <2>1, <2>2, <2>3 DEF Offsets
  <1>3. /\ \A k \in 0..n : off[k] \in 0..Len(f) /\ Drop(f, off[k]) = Rest(q, k)
        /\ off[n] = Len(f)
    <2> HIDE DEF off
    <2> QED
      BY <1>1, <1>2, OffsetsCut
  <1>4. f \in Seq(Nat)
    BY <1>1, FlattenType
  <1> HIDE DEF f
  <1>5. Len(f) = n * 4
    BY <1>1, <1>3
  <1>6. ASSUME NEW j \in 1..n
        PROVE  /\ (j - 1) * 4 \in 0..Len(f) /\ Drop(f, (j - 1) * 4) = Cat(Pad(e.interfaces[j]), Rest(q, j))
               /\ Rest(q, j) \in Seq(Nat)
    <2>1. /\ j - 1 \in 0..n /\ j - 1 \in 0..Len(q) /\ j - 1 # Len(q) /\ (j - 1) + 1 = j
          /\ j \in 0..Len(q) /\ off[j - 1] = (j - 1) * 4
      BY <1>1
    <2> HIDE DEF off
    <2>2. (j - 1) * 4 \in 0..Len(f) /\ Drop(f, (j - 1) * 4) = Rest(q, j - 1)
      BY <1>3, <2>1
    <2>3. Rest(q, j - 1) = Cat(q[(j - 1) + 1], Rest(q, (j - 1) + 1))
      BY <1>1, <2>1, RestHead
    <2>4. Rest(q, j - 1) = Cat(q[j], Rest(q, j))
      BY <2>1, <2>3
    <2>5. Rest(q, j) \in Seq(Nat)
      BY <1>1, <2>1, RestType
    <2> QED
      BY <1>1, <2>2, <2>4, <2>5
  <1> QED
    BY <1>4, <1>5, <1>6 DEF f, q, n

\* The entry of a device in the list.
Entry(e) == EncodeDevice(ToUsbip(e), TRUE)

LEMMA EntryType ==
  ASSUME NEW e \in Range(Exported)
  PROVE  Entry(e) \in Seq(Nat) /\ Len(Entry(e)) = SIZE_USB_DEVICE + Count(e) * SIZE_USB_INTERFACE
  <1> DEFINE f == FlattenSeq(Padded(e))
  <1>1. f \in Seq(Nat) /\ Len(f) = Count(e) * 4
    BY PaddedFlat
  <1>2. Fixed(e) \in Seq(Nat) /\ Len(Fixed(e)) = SIZE_USB_DEVICE
    BY FixedType
  <1>3. Entry(e) = Cat(Fixed(e), f)
    BY EncodeDeviceIs DEF Entry
  <1> HIDE DEF f
  <1>4. Cat(Fixed(e), f) \in Seq(Nat) /\ Len(Cat(Fixed(e), f)) = Len(Fixed(e)) + Len(f)
    BY <1>1, <1>2, CatType
  <1> QED
    BY <1>1, <1>2, <1>3, <1>4 DEF SIZE_USB_INTERFACE

\* An entry is read as the device that was written, with the interfaces counted.
LEMMA EntryDecodes ==
  ASSUME NEW e \in Range(Exported), NEW r \in Seq(Nat), NEW b, b = Cat(Entry(e), r)
  PROVE  /\ b \in Seq(Nat) /\ Len(b) = Len(Entry(e)) + Len(r) /\ DeviceAt(b, e)
         /\ \A j \in 1..Count(e) :
              SubSeq(b, SIZE_USB_DEVICE + (j - 1) * SIZE_USB_INTERFACE + 1,
                        SIZE_USB_DEVICE + (j - 1) * SIZE_USB_INTERFACE + 3) = e.interfaces[j]
  <1> DEFINE f == FlattenSeq(Padded(e))
             x == Fixed(e)
             t == Cat(f, r)
  <1>1. f \in Seq(Nat) /\ Len(f) = Count(e) * 4
    BY PaddedFlat
  <1>2. x \in Seq(Nat) /\ Len(x) = SIZE_USB_DEVICE /\ SIZE_USB_DEVICE \in Nat /\ Count(e) \in Nat
    BY FixedType, SizesType, CountType
  <1>3. Entry(e) = Cat(x, f)
    BY EncodeDeviceIs DEF Entry
  <1>4. ASSUME NEW j \in 1..Count(e)
        PROVE  /\ (j - 1) * 4 \in 0..Len(f) /\ Rest(Padded(e), j) \in Seq(Nat)
               /\ Drop(f, (j - 1) * 4) = Cat(Pad(e.interfaces[j]), Rest(Padded(e), j))
               /\ e.interfaces[j] \in Nat \X Nat \X Nat
    BY PaddedFlat, PaddedType
  <1> HIDE DEF f, x
  <1>5. t \in Seq(Nat) /\ Len(t) = Len(f) + Len(r) /\ b = Cat(x, t)
    <2>1. Cat(Cat(x, f), r) = Cat(x, t)
      BY <1>1, <1>2, CatAssociative
    <2> QED
      BY <1>1, <1>3, <2>1, CatType
  <1>6. b \in Seq(Nat) /\ Len(b) = Len(Entry(e)) + Len(r)
    BY EntryType, CatType
  <1>7. DeviceAt(b, e)
    BY <1>5, FixedDecodes DEF x
  <1>8. Len(b) = SIZE_USB_DEVICE + Len(f) + Len(r)
    <2>1. Len(b) = Len(x) + Len(t)
      BY <1>2, <1>5, CatType
    <2>2. Len(f) \in Nat /\ Len(r) \in Nat
      BY <1>1
    <2> HIDE DEF t
    <2> QED
      BY <1>2, <1>5, <2>1, <2>2
  <1>9. ASSUME NEW j \in 1..Count(e)
        PROVE  SubSeq(b, SIZE_USB_DEVICE + (j - 1) * SIZE_USB_INTERFACE + 1,
                         SIZE_USB_DEVICE + (j - 1) * SIZE_USB_INTERFACE + 3) = e.interfaces[j]
    <2> DEFINE m == (j - 1) * 4
               y == Rest(Padded(e), j)
               i == e.interfaces[j]
    <2>1. m \in 0..Len(f) /\ y \in Seq(Nat) /\ Drop(f, m) = Cat(Pad(i), y) /\ i \in Nat \X Nat \X Nat
      BY <1>4
    <2>0. j \in Int /\ 1 <= j /\ j <= Count(e) /\ Count(e) \in Nat
      BY <1>2
    <2>2. m \in Nat /\ m + 3 <= Len(f)
      BY <1>1, <2>0
    <2>3. (j - 1) * SIZE_USB_INTERFACE = m
      BY DEF SIZE_USB_INTERFACE
    <2> HIDE DEF m, y, i
    <2>4. Pad(i) \in Seq(Nat)
      BY <2>1, PadType
    <2>5. Drop(t, m) = Cat(Pad(i), Cat(y, r))
      <3>1. Drop(t, m) = Cat(Cat(Pad(i), y), r)
        BY <1>1, <2>1, DropCatLeft
      <3> QED
        BY <2>1, <2>4, <3>1, CatAssociative
    <2>6. Cat(y, r) \in Seq(Nat)
      BY <2>1, CatType
    <2>7. SubSeq(Drop(t, m), 1, 3) = i
      BY <2>1, <2>5, <2>6, PadRead
    <2>8. m \in 0..Len(t) /\ Len(f) \in Nat /\ Len(r) \in Nat
      <3>1. Len(f) \in Nat /\ Len(r) \in Nat
        BY <1>1
      <3> HIDE DEF t
      <3> QED
        BY <1>5, <2>1, <3>1
    <2> HIDE DEF t
    <2>9. Drop(b, SIZE_USB_DEVICE + m) = Drop(t, m)
      BY <1>2, <1>5, <2>8, DropCat
    <2> DEFINE p == SIZE_USB_DEVICE + m
    <2>10. p \in Nat /\ p + 3 <= Len(b)
      BY <1>2, <1>8, <2>2, <2>8
    <2>11. Drop(b, p) = Drop(t, m)
      BY <2>9
    <2> HIDE DEF p
    <2>12. SubSeq(b, p + 1, p + 3) = SubSeq(Drop(b, p), 1, 3)
      BY <1>6, <2>10, SubSeqDrop
    <2> QED
      BY <2>3, <2>7, <2>11, <2>12 DEF p, i
  <1> QED
    BY <1>6, <1>7, <1>9

-----------------------------------------------------------------------------
(* The device list.                                                        *)

LEMMA OffsetsExist ==
  ASSUME NEW q \in Seq(Seq(Nat))
  PROVE  \E off : Offsets(off, q)
  <1>1. PICK g : Joins(g, q, Len(q))
    BY JoinsExist
  <1> DEFINE off == [k \in 0..Len(q) |-> Len(g[k])]
  <1>2. \A k \in 0..Len(q) : g[k] \in Seq(Nat) /\ off[k] = Len(g[k])
    BY <1>1 DEF Joins
  <1>3. \A k \in 0..Len(q) : off[k] \in Nat
    BY <1>2
  <1> HIDE DEF off
  <1>4. off[0] = 0
    <2>1. 0 \in 0..Len(q) /\ g[0] = <<>>
      BY <1>1 DEF Joins
    <2> QED
      BY <1>2, <2>1
  <1>5. ASSUME NEW k \in 1..Len(q) PROVE off[k] = off[k - 1] + Len(q[k])
    <2>1. k \in 0..Len(q) /\ k - 1 \in 0..Len(q) /\ q[k] \in Seq(Nat)
      OBVIOUS
    <2>2. g[k] = Cat(g[k - 1], q[k])
      BY <1>1 DEF Joins
    <2>3. Len(g[k]) = Len(g[k - 1]) + Len(q[k])
      BY <1>2, <2>1, <2>2, CatType
    <2> QED
      BY <1>2, <2>1, <2>3
  <1>6. Offsets(off, q)
    BY <1>3, <1>4, <1>5 DEF Offsets
  <1> QED
    BY <1>6

\* One device further.
EndNext(b, v) ==
  LET at == v + SIZE_USB_DEVICE
  IN  IF Len(b) < at THEN at ELSE at + b[at] * SIZE_USB_INTERFACE

Ends(v, b, n) ==
  v = [k \in 0..n |-> IF k = 0 THEN SIZE_OP_HEADER + 1 ELSE EndNext(b, v[k - 1])]

LEMMA EndsExist ==
  ASSUME NEW b
  PROVE  \A n \in Nat : \E v : Ends(v, b, n)
  <1> DEFINE S == {n \in Nat : \E v : Ends(v, b, n)}
  <1>1. 0 \in S
    <2>1. Ends([k \in 0..0 |-> SIZE_OP_HEADER + 1], b, 0)
      BY DEF Ends
    <2> QED
      BY <2>1
  <1>2. ASSUME NEW n \in Nat, n \in S PROVE n + 1 \in S
    <2>1. PICK v : Ends(v, b, n)
      BY <1>2
    <2> DEFINE w == [k \in 0..(n + 1) |->
                       IF k = 0 THEN SIZE_OP_HEADER + 1 ELSE EndNext(b, v[k - 1])]
    <2>2. \A k \in 0..n : w[k] = v[k]
      BY <2>1 DEF Ends
    <2>3. ASSUME NEW k \in 0..(n + 1), k # 0 PROVE v[k - 1] = w[k - 1]
      <3>1. k - 1 \in 0..n
        BY <2>3
      <3> HIDE DEF w
      <3> QED
        BY <2>2, <3>1
    <2>4. w = [k \in 0..(n + 1) |-> IF k = 0 THEN SIZE_OP_HEADER + 1 ELSE EndNext(b, w[k - 1])]
      BY <2>3
    <2> HIDE DEF w
    <2> QED
      BY <2>4 DEF Ends
  <1> HIDE DEF S
  <1>3. Nat \subseteq S
    BY <1>1, <1>2, Induction
  <1> QED
    BY <1>3 DEF S

LEMMA DevlistEnds ==
  ASSUME NEW b, NEW n \in Nat
  PROVE  /\ DevlistEnd(b, n)[0] = SIZE_OP_HEADER + 1
         /\ \A k \in 1..n : DevlistEnd(b, n)[k] = EndNext(b, DevlistEnd(b, n)[k - 1])
  <1> DEFINE v == CHOOSE v : Ends(v, b, n)
  <1>1. Ends(v, b, n)
    BY EndsExist
  <1>2. DevlistEnd(b, n) = v
    BY DEF DevlistEnd, Ends, EndNext
  <1> HIDE DEF v
  <1>3. \A k \in 0..n : v[k] = IF k = 0 THEN SIZE_OP_HEADER + 1 ELSE EndNext(b, v[k - 1])
    BY <1>1 DEF Ends
  <1> QED
    BY <1>2, <1>3

\* The entries of the list, and the header with the number of them.
Entries == [k \in 1..Len(Exported) |-> Entry(Exported[k])]
ListHeader == Cat(OpHeader(OP_REP_DEVLIST, ST_OK), <<Len(Exported)>>)

LEMMA ExportedLen ==
  /\ Len(Exported) \in Nat /\ Len(Exported) <= MaxDevlist /\ Len(Exported) < Word
  /\ MaxDevlist \in Nat /\ DOMAIN Exported = 1..Len(Exported)
  /\ \A k \in 1..Len(Exported) : Exported[k] \in Range(Exported)
  <1>1. Len(Exported) \in Nat /\ DOMAIN Exported = 1..Len(Exported) /\ Len(Exported) <= MaxDevlist
    BY ListAssumption
  <1>2. MaxDevlist \in Nat /\ Word \in Nat /\ MaxDevlist < Word
    BY SizesAssumption
  <1>3. \A k \in 1..Len(Exported) : Exported[k] \in Range(Exported)
    BY <1>1 DEF Range
  <1> QED
    BY <1>1, <1>2, <1>3

LEMMA EntriesType ==
  /\ Entries \in Seq(Seq(Nat)) /\ Len(Entries) = Len(Exported)
  /\ \A k \in 1..Len(Exported) : Entries[k] = Entry(Exported[k])
  <1>1. Entries \in [1..Len(Exported) -> Seq(Nat)]
    BY ExportedLen, EntryType DEF Entries
  <1>2. \A k \in 1..Len(Exported) : Entries[k] = Entry(Exported[k])
    BY DEF Entries
  <1> QED
    BY <1>1, <1>2, ExportedLen, FunctionSeq

LEMMA ListHeaderType ==
  /\ ListHeader \in Seq(Nat) /\ Len(ListHeader) = 4
  /\ ListHeader[1] = USBIP_VERSION /\ ListHeader[2] = OP_REP_DEVLIST
  /\ ListHeader[3] = ST_OK /\ ListHeader[4] = Len(Exported)
  <1> DEFINE h == <<USBIP_VERSION, OP_REP_DEVLIST, ST_OK>>
             n == <<Len(Exported)>>
             x == ListHeader
  <1>1. h \in Seq(Nat) /\ Len(h) = 3 /\ h[1] = USBIP_VERSION /\ h[2] = OP_REP_DEVLIST /\ h[3] = ST_OK
    BY DEF USBIP_VERSION, OP_REP_DEVLIST, ST_OK
  <1>2. n \in Seq(Nat) /\ Len(n) = 1 /\ n[1] = Len(Exported)
    BY ExportedLen
  <1>3. x = Cat(h, n)
    BY DEF ListHeader, OpHeader
  <1> HIDE DEF h, n, x
  <1>4. x \in Seq(Nat) /\ Len(x) = Len(h) + Len(n)
    BY <1>1, <1>2, <1>3, CatType
  <1>5. (\A i \in 1..Len(h) : x[i] = h[i]) /\ \A i \in 1..Len(n) : x[Len(h) + i] = n[i]
    BY <1>1, <1>2, <1>3, CatElements
  <1>6. x \in Seq(Nat) /\ Len(x) = 4
    BY <1>1, <1>2, <1>4
  <1>7. x[1] = h[1] /\ x[2] = h[2] /\ x[3] = h[3] /\ x[4] = n[1]
    BY <1>1, <1>2, <1>5
  <1> QED
    BY <1>1, <1>2, <1>6, <1>7 DEF x

LEMMA DevlistReplyIs ==
  DevlistReply = Cat(ListHeader, FlattenSeq(Entries))
  <1> DEFINE devs == [k \in DOMAIN Exported |-> ToUsbip(Exported[k])]
             n == Len(Exported)
  <1>1. n \in Nat /\ DOMAIN Exported = 1..n /\ n < Word /\ Word \in Nat
    BY ExportedLen, SizesAssumption
  <1>2. U32(n) = n
    <2> HIDE DEF n
    <2> QED
      BY <1>1 DEF U32
  <1>3. DOMAIN devs = 1..n /\ Len(devs) = n
    <2>1. devs \in [1..n -> {devs[k] : k \in 1..n}]
      BY <1>1
    <2> HIDE DEF devs
    <2>2. devs \in Seq({devs[k] : k \in 1..n})
      BY <1>1, <2>1
    <2> QED
      BY <1>1, <2>1, <2>2
  <1>4. [k \in DOMAIN devs |-> EncodeDevice(devs[k], TRUE)] = Entries
    BY <1>1, <1>3 DEF Entries, Entry
  <1>5. DevlistReply = EncodeDevlistReply(devs)
    BY DEF DevlistReply
  <1> HIDE DEF devs
  <1>6. EncodeDevlistReply(devs) =
          Cat(Cat(OpHeader(OP_REP_DEVLIST, ST_OK), <<U32(Len(devs))>>), FlattenSeq(Entries))
    BY <1>4 DEF EncodeDevlistReply, Cat
  <1> QED
    BY <1>2, <1>3, <1>5, <1>6 DEF ListHeader

\* read_devlist_reply finds every entry of the list where it was written.
ListRead ==
  LET b == DevlistReply
      n == Len(Exported)
      end == DevlistEnd(b, n)
  IN  /\ b \in Seq(Nat) /\ Len(b) >= 4
      /\ b[1] = USBIP_VERSION /\ b[2] = OP_REP_DEVLIST /\ b[3] = ST_OK /\ b[4] = n
      /\ end[n] = Len(b)
      /\ \A k \in 1..n : \E r \in Seq(Nat) : Drop(b, end[k - 1]) = Cat(Entry(Exported[k]), r)

LEMMA ListReads == ListRead
  <1> DEFINE b == DevlistReply
             h == ListHeader
             n == Len(Exported)
             q == Entries
             f == FlattenSeq(q)
             end == DevlistEnd(b, n)
  <1>1. /\ n \in Nat /\ q \in Seq(Seq(Nat)) /\ Len(q) = n
        /\ \A k \in 1..n : q[k] = Entry(Exported[k]) /\ Exported[k] \in Range(Exported)
    BY ExportedLen, EntriesType
  <1>2. f \in Seq(Nat)
    BY <1>1, FlattenType
  <1>3. /\ h \in Seq(Nat) /\ Len(h) = 4
        /\ h[1] = USBIP_VERSION /\ h[2] = OP_REP_DEVLIST /\ h[3] = ST_OK /\ h[4] = n
    BY ListHeaderType
  <1>4. b = Cat(h, f)
    BY DevlistReplyIs
  <1>5. end[0] = 4 /\ \A k \in 1..n : end[k] = EndNext(b, end[k - 1])
    BY <1>1, DevlistEnds DEF SIZE_OP_HEADER
  <1> HIDE DEF b, h, f, end
  <1>6. b \in Seq(Nat) /\ Len(b) = 4 + Len(f)
    BY <1>2, <1>3, <1>4, CatType
  <1>7. b[1] = USBIP_VERSION /\ b[2] = OP_REP_DEVLIST /\ b[3] = ST_OK /\ b[4] = n
    <2>1. \A i \in 1..Len(h) : b[i] = h[i]
      BY <1>2, <1>3, <1>4, CatElements
    <2> HIDE DEF n
    <2>2. b[1] = h[1] /\ b[2] = h[2] /\ b[3] = h[3] /\ b[4] = h[4]
      BY <1>3, <2>1
    <2> QED
      BY <1>3, <2>2
  <1> HIDE DEF n, q
  <1>8. PICK off : Offsets(off, q)
    BY <1>1, OffsetsExist
  <1>9. /\ \A k \in 0..n : off[k] \in 0..Len(f) /\ Drop(f, off[k]) = Rest(q, k)
        /\ off[n] = Len(f)
    BY <1>1, <1>8, OffsetsCut DEF f
  <1>10. ASSUME NEW k \in 0..n PROVE Drop(b, 4 + off[k]) = Rest(q, k)
    BY <1>2, <1>3, <1>4, <1>9, DropCat
  <1>11. ASSUME NEW k \in 1..n
         PROVE  \E r \in Seq(Nat) : Rest(q, k - 1) = Cat(Entry(Exported[k]), r)
    <2>1. k - 1 \in 0..Len(q) /\ k - 1 # Len(q) /\ (k - 1) + 1 = k /\ k \in 0..Len(q)
      BY <1>1
    <2>2. Rest(q, k - 1) = Cat(q[(k - 1) + 1], Rest(q, (k - 1) + 1))
      BY <1>1, <2>1, RestHead
    <2>3. Rest(q, k - 1) = Cat(q[k], Rest(q, k))
      BY <2>1, <2>2
    <2>4. Rest(q, k) \in Seq(Nat)
      BY <1>1, <2>1, RestType
    <2> QED
      BY <1>1, <2>3, <2>4
  <1> DEFINE S == {m \in Nat : m <= n => end[m] = 4 + off[m]}
  <1>12. 0 \in S
    BY <1>5, <1>8 DEF Offsets
  <1>13. ASSUME NEW m \in Nat, m \in S PROVE m + 1 \in S
    <2>1. SUFFICES ASSUME m + 1 <= n PROVE end[m + 1] = 4 + off[m + 1]
      OBVIOUS
    <2>2. m + 1 \in 1..n /\ m \in 0..n /\ (m + 1) - 1 = m /\ m + 1 \in 0..n
      BY <1>1, <2>1
    <2> DEFINE e == Exported[m + 1]
               o == off[m]
    <2>3. e \in Range(Exported) /\ q[m + 1] = Entry(e)
      BY <1>1, <2>2
    <2>4. o \in 0..Len(f) /\ end[m] = 4 + o
      BY <1>9, <1>13, <2>1, <2>2
    <2>5. off[m + 1] = o + Len(Entry(e))
      <3>1. m + 1 \in 1..Len(q)
        BY <1>1, <2>2
      <3>2. off[m + 1] = off[(m + 1) - 1] + Len(q[m + 1])
        BY <1>8, <3>1 DEF Offsets
      <3> QED
        BY <2>2, <2>3, <3>2
    <2>6. off[m + 1] \in 0..Len(f)
      BY <1>9, <2>2
    <2>7. PICK r \in Seq(Nat) : Rest(q, m) = Cat(Entry(e), r)
      <3>1. \E r \in Seq(Nat) : Rest(q, (m + 1) - 1) = Cat(Entry(Exported[m + 1]), r)
        BY <1>11, <2>2
      <3> QED
        BY <2>2, <3>1
    <2>8. Drop(b, 4 + o) = Cat(Entry(e), r)
      BY <1>10, <2>2, <2>7
    <2>9. Len(Entry(e)) = SIZE_USB_DEVICE + Count(e) * SIZE_USB_INTERFACE
      BY <2>3, EntryType
    <2>10. Count(e) \in Nat /\ SIZE_USB_DEVICE \in Nat /\ SIZE_USB_DEVICE >= 1
      BY <2>3, CountType, SizesType
    <2>11. end[m + 1] = EndNext(b, end[m])
      <3>1. end[m + 1] = EndNext(b, end[(m + 1) - 1])
        BY <1>5, <2>2
      <3> QED
        BY <2>2, <3>1
    <2> DEFINE d == Drop(b, 4 + o)
               c == Count(e)
               z == SIZE_USB_DEVICE
               l == Len(f)
               w == Len(Entry(e))
    <2>12. d[z] = c
      <3>1. DeviceAt(d, e)
        BY <2>3, <2>8, EntryDecodes
      <3> QED
        BY <3>1 DEF DeviceAt
    <2> HIDE DEF o, e, d
    <2>13. l \in Nat /\ w = z + c * 4 /\ o + w \in 0..l /\ o \in 0..l
      BY <1>2, <2>4, <2>5, <2>6, <2>9 DEF SIZE_USB_INTERFACE
    <2>14. b[4 + o + z] = d[z]
      <3>1. 4 + o \in 0..Len(b) /\ z \in 1..(Len(b) - (4 + o))
        <4> HIDE DEF z, c, l, w
        <4>1. Len(b) = 4 + l /\ c \in Nat /\ z \in Nat /\ z >= 1
          BY <1>6, <2>10 DEF l, c, z
        <4> QED
          BY <2>13, <4>1
      <3>2. \A i \in 1..(Len(b) - (4 + o)) : d[i] = b[4 + o + i]
        BY <1>6, <3>1, DropNat DEF d
      <3> QED
        BY <3>1, <3>2
    <2>15. EndNext(b, 4 + o) = 4 + o + z + c * 4
      <3>1. ~(Len(b) < 4 + o + z)
        <4> HIDE DEF z, c, l, w
        <4>1. Len(b) = 4 + l /\ c \in Nat /\ z \in Nat
          BY <1>6, <2>10 DEF l, c, z
        <4> QED
          BY <2>13, <4>1
      <3> QED
        BY <2>12, <2>14, <3>1 DEF EndNext, SIZE_USB_INTERFACE
    <2>16. 4 + o + z + c * 4 = 4 + (o + w)
      <3> HIDE DEF z, c, w, l
      <3>1. c \in Nat /\ z \in Nat
        BY <2>10 DEF z, c
      <3> QED
        BY <2>13, <3>1
    <2> QED
      BY <2>4, <2>5, <2>11, <2>15, <2>16
  <1> HIDE DEF S
  <1>14. Nat \subseteq S
    BY <1>12, <1>13, Induction
  <1>15. \A m \in 0..n : end[m] = 4 + off[m]
    BY <1>1, <1>14 DEF S
  <1>16. end[n] = Len(b)
    BY <1>1, <1>6, <1>9, <1>15
  <1>17. ASSUME NEW k \in 1..n
         PROVE  \E r \in Seq(Nat) : Drop(b, end[k - 1]) = Cat(Entry(Exported[k]), r)
    <2>1. k - 1 \in 0..n
      BY <1>1
    <2>2. Drop(b, end[k - 1]) = Rest(q, k - 1)
      BY <1>10, <1>15, <2>1
    <2> QED
      BY <1>11, <2>2
  <1>18. Len(b) >= 4
    BY <1>2, <1>6
  <1> QED
    BY <1>6, <1>7, <1>16, <1>17, <1>18 DEF ListRead, b, n, end
-----------------------------------------------------------------------------
(* The request for an import, and the reply.                               *)

\* What a stream of a header and `r` has.
Opened(b, h, r) ==
  /\ b \in Seq(Nat) /\ Len(b) = 3 + Len(r) /\ Drop(b, 3) = r /\ SubSeq(b, 1, 3) = h
  /\ b[1] = h[1] /\ b[2] = h[2] /\ b[3] = h[3]

LEMMA OpHeaderType ==
  ASSUME NEW code \in Nat, NEW status \in Nat
  PROVE  /\ OpHeader(code, status) \in Seq(Nat) /\ Len(OpHeader(code, status)) = 3
         /\ OpHeader(code, status)[1] = USBIP_VERSION
         /\ OpHeader(code, status)[2] = code /\ OpHeader(code, status)[3] = status
  BY DEF OpHeader, USBIP_VERSION

LEMMA OpHeaderFields ==
  ASSUME NEW h \in Seq(Nat), Len(h) = 3, NEW r \in Seq(Nat)
  PROVE  Opened(Cat(h, r), h, r)
  <1>1. \A i \in 1..Len(h) : Cat(h, r)[i] = h[i]
    BY CatElements
  <1>2. Cat(h, r)[1] = h[1] /\ Cat(h, r)[2] = h[2] /\ Cat(h, r)[3] = h[3]
    BY <1>1
  <1>3. Cat(h, r) \in Seq(Nat) /\ Len(Cat(h, r)) = 3 + Len(r)
    BY CatType
  <1>4. Drop(Cat(h, r), 3) = r /\ SubSeq(Cat(h, r), 1, 3) = h
    BY CatSplit
  <1> QED
    BY <1>2, <1>3, <1>4 DEF Opened

\* The exporter finds the field with the bus id, and nothing behind it.
LEMMA RequestReads ==
  ASSUME NEW busid \in Busids, NEW b, b = EncodeImportRequest(busid)
  PROVE  /\ b[1] = USBIP_VERSION /\ b[2] = OP_REQ_IMPORT
         /\ SubSeq(b, SIZE_OP_HEADER + 1, SIZE_OP_HEADER + BusidLen) = TextField(busid, BusidLen)
         /\ Drop(b, SIZE_OP_HEADER + BusidLen) = <<>>
  <1> DEFINE h == OpHeader(OP_REQ_IMPORT, 0)
             f == TextField(busid, BusidLen)
  <1>1. busid \in Seq(Chars) /\ BusidLen \in Nat \ {0}
    BY RequestsAssumption, SizesAssumption
  <1>2. f \in Seq(Nat) /\ Len(f) = BusidLen
    BY <1>1, TextFieldType
  <1>3. h \in Seq(Nat) /\ Len(h) = 3 /\ h[1] = USBIP_VERSION /\ h[2] = OP_REQ_IMPORT
    <2>1. OP_REQ_IMPORT \in Nat /\ 0 \in Nat
      BY DEF OP_REQ_IMPORT
    <2> QED
      BY <2>1, OpHeaderType
  <1>4. b = Cat(h, f)
    BY DEF EncodeImportRequest, Cat
  <1> HIDE DEF h, f
  <1>5. Opened(b, h, f)
    BY <1>2, <1>3, <1>4, OpHeaderFields
  <1>6. b \in Seq(Nat) /\ Len(b) = 3 + BusidLen /\ Drop(b, 3) = f
        /\ b[1] = USBIP_VERSION /\ b[2] = OP_REQ_IMPORT
    BY <1>2, <1>3, <1>5 DEF Opened
  <1>7. SubSeq(b, 3 + 1, 3 + BusidLen) = f
    <2>1. SubSeq(b, 3 + 1, 3 + BusidLen) = SubSeq(f, 1, BusidLen)
      <3>1. 3 \in Nat /\ BusidLen \in Nat /\ 3 + BusidLen <= Len(b)
        BY <1>1, <1>6
      <3>2. SubSeq(b, 3 + 1, 3 + BusidLen) = SubSeq(Drop(b, 3), 1, BusidLen)
        BY <1>6, <3>1, SubSeqDrop
      <3> QED
        BY <1>6, <3>2
    <2>2. SubSeq(f, 1, Len(f)) = f
      BY <1>2
    <2> QED
      BY <1>2, <2>1, <2>2
  <1>8. Drop(b, 3 + BusidLen) = <<>>
    <2>1. 3 + BusidLen \in 0..Len(b)
      BY <1>1, <1>6
    <2>2. Drop(b, 3 + BusidLen) \in Seq(Nat) /\ Len(Drop(b, 3 + BusidLen)) = Len(b) - (3 + BusidLen)
      BY <1>6, <2>1, DropNat
    <2> HIDE DEF Drop
    <2> QED
      BY <1>1, <1>6, <2>2
  <1> QED
    BY <1>6, <1>7, <1>8 DEF SIZE_OP_HEADER, f

\* The client finds the record of the device, and nothing behind it.
LEMMA ImportReads ==
  ASSUME NEW e \in Range(Exported), NEW b, b = ImportReply(e)
  PROVE  /\ b \in Seq(Nat) /\ Len(b) = SIZE_OP_HEADER + SIZE_USB_DEVICE
         /\ b[1] = USBIP_VERSION /\ b[2] = OP_REP_IMPORT /\ b[3] = ST_OK
         /\ SubSeq(b, 1, SIZE_OP_HEADER) # OpHeader(OP_REP_IMPORT, ST_NA)
         /\ Drop(b, SIZE_OP_HEADER) = EncodeDevice(ToUsbip(e), FALSE)
         /\ Drop(b, SIZE_OP_HEADER + SIZE_USB_DEVICE) = <<>>
  <1> DEFINE h == OpHeader(OP_REP_IMPORT, ST_OK)
             g == OpHeader(OP_REP_IMPORT, ST_NA)
             f == EncodeDevice(ToUsbip(e), FALSE)
  <1>1. f \in Seq(Nat) /\ Len(f) = SIZE_USB_DEVICE /\ SIZE_USB_DEVICE \in Nat
    BY EncodeDeviceIs, FixedType, SizesType
  <1>2. OP_REP_IMPORT \in Nat /\ ST_OK \in Nat /\ ST_NA \in Nat /\ ST_OK # ST_NA
    BY DEF OP_REP_IMPORT, ST_OK, ST_NA
  <1>3. h \in Seq(Nat) /\ Len(h) = 3 /\ h[1] = USBIP_VERSION /\ h[2] = OP_REP_IMPORT /\ h[3] = ST_OK
    BY <1>2, OpHeaderType
  <1>4. g[3] = ST_NA
    BY <1>2, OpHeaderType
  <1>5. b = Cat(h, f)
    BY DEF ImportReply
  <1> HIDE DEF h, f, g
  <1>6. Opened(b, h, f)
    BY <1>1, <1>3, <1>5, OpHeaderFields
  <1>7. /\ b \in Seq(Nat) /\ Len(b) = 3 + SIZE_USB_DEVICE /\ Drop(b, 3) = f /\ SubSeq(b, 1, 3) = h
        /\ b[1] = USBIP_VERSION /\ b[2] = OP_REP_IMPORT /\ b[3] = ST_OK
    BY <1>1, <1>3, <1>6 DEF Opened
  <1>8. h # g
    BY <1>2, <1>3, <1>4
  <1>9. Drop(b, 3 + SIZE_USB_DEVICE) = <<>>
    <2>1. 3 + SIZE_USB_DEVICE \in 0..Len(b)
      BY <1>1, <1>7
    <2>2. /\ Drop(b, 3 + SIZE_USB_DEVICE) \in Seq(Nat)
          /\ Len(Drop(b, 3 + SIZE_USB_DEVICE)) = Len(b) - (3 + SIZE_USB_DEVICE)
      BY <1>7, <2>1, DropNat
    <2> QED
      BY <1>1, <1>7, <2>2
  <1> QED
    BY <1>7, <1>8, <1>9 DEF SIZE_OP_HEADER, f, g

\* One of the devices with the bus id is in the reply.
LEMMA ImportReplyIs ==
  ASSUME NEW named \in SUBSET Range(Exported), named # {}
  PROVE  \E e \in named : EncodeImportReply({ToUsbip(d) : d \in named}) = ImportReply(e)
  <1> DEFINE dev == {ToUsbip(d) : d \in named}
             x == CHOOSE d \in dev : TRUE
  <1>1. dev # {} /\ x \in dev
    OBVIOUS
  <1>2. PICK e \in named : x = ToUsbip(e)
    BY <1>1
  <1>3. EncodeImportReply(dev) = Cat(OpHeader(OP_REP_IMPORT, ST_OK), EncodeDevice(x, FALSE))
    BY <1>1 DEF EncodeImportReply, Cat
  <1> QED
    BY <1>2, <1>3 DEF ImportReply

\* A refused import is told from one that succeeded.
LEMMA TurnedDown ==
  /\ EncodeImportReply({}) = OpHeader(OP_REP_IMPORT, ST_NA)
  /\ Len(OpHeader(OP_REP_IMPORT, ST_NA)) = SIZE_OP_HEADER
  /\ SubSeq(OpHeader(OP_REP_IMPORT, ST_NA), 1, SIZE_OP_HEADER) = OpHeader(OP_REP_IMPORT, ST_NA)
  /\ ~ Expected(OpHeader(OP_REP_IMPORT, ST_NA), OP_REP_IMPORT)
  <1> DEFINE g == OpHeader(OP_REP_IMPORT, ST_NA)
  <1>1. OP_REP_IMPORT \in Nat /\ ST_NA \in Nat /\ ST_OK # ST_NA
    BY DEF OP_REP_IMPORT, ST_OK, ST_NA
  <1>2. g \in Seq(Nat) /\ Len(g) = 3 /\ g[3] = ST_NA
    BY <1>1, OpHeaderType
  <1>3. EncodeImportReply({}) = g
    BY DEF EncodeImportReply
  <1> HIDE DEF g
  <1>4. SubSeq(g, 1, Len(g)) = g
    BY <1>2
  <1>5. ~ Expected(g, OP_REP_IMPORT)
    BY <1>1, <1>2 DEF Expected
  <1> QED
    BY <1>2, <1>3, <1>4, <1>5 DEF SIZE_OP_HEADER, g

-----------------------------------------------------------------------------
(* The head of each stream.                                                *)

\* A heard submit is within the limits.
LEMMA HeardSubmit ==
  ASSUME CommandStream, NEW n, Heard(n, sent, heard)
  PROVE  /\ n \in Nat /\ n \in DOMAIN sent /\ sent[n].command = CMD_SUBMIT
         /\ sent[n].length \in 0..MaxTransfer
  <1>1. n \in 1..Len(heard) /\ sent[n].command = CMD_SUBMIT
    BY DEF Heard
  <1>2. Len(heard) \in Nat /\ Len(sent) \in Nat /\ Len(heard) <= Len(sent) /\ DOMAIN sent = 1..Len(sent)
    BY DEF CommandStream
  <1>3. Within(sent[n])
    BY <1>1 DEF CommandStream
  <1>4. sent[n].length \in 0..MaxTransfer
    BY <1>1, <1>3 DEF Within, CMD_SUBMIT, CMD_UNLINK
  <1> QED
    BY <1>1, <1>2, <1>4

\* A stream to a session begins with the first command it has not heard.
LEMMA HeadCommand ==
  ASSUME IInv, server = "cmd", c2s # <<>>
  PROVE  /\ client = "cmd" /\ Len(heard) + 1 \in 1..Len(sent)
         /\ Command(sent[Len(heard) + 1], Len(heard) + 1)
         /\ Reads(c2s, sent[Len(heard) + 1], Rest(Written(sent), Len(heard) + 1))
  <1>1. client = "cmd"
    BY DEF IInv, Places
  <1>2. /\ sent \in Seq(Commands) /\ \A k \in 1..Len(sent) : Command(sent[k], k)
        /\ Len(heard) \in Nat /\ Len(heard) <= Len(sent) /\ Len(sent) \in Nat
        /\ c2s = Rest(Written(sent), Len(heard))
    BY <1>1 DEF IInv, CommandStream
  <1>3. Len(heard) \in 0..Len(sent)
    BY <1>2
  <1>4. /\ Len(heard) = Len(sent) => c2s = <<>>
        /\ Len(heard) # Len(sent) => Reads(c2s, sent[Len(heard) + 1], Rest(Written(sent), Len(heard) + 1))
    BY <1>2, <1>3, HeardStream
  <1>5. Len(heard) # Len(sent)
    BY <1>4
  <1>6. Len(heard) + 1 \in 1..Len(sent)
    BY <1>2, <1>5
  <1> QED
    BY <1>1, <1>2, <1>4, <1>5, <1>6

\* What read_pdu returns is that command.
LEMMA DecodedIs ==
  ASSUME IInv, NEW p \in Decoded
  PROVE  /\ client = "cmd" /\ server = "cmd" /\ Len(heard) + 1 \in 1..Len(sent)
         /\ p = sent[Len(heard) + 1] /\ Within(p) /\ Command(p, Len(heard) + 1)
         /\ Drop(c2s, PduLen(c2s)) = Rest(Written(sent), Len(heard) + 1)
  <1>1. /\ server = "cmd" /\ Len(c2s) >= 12 /\ ~ Refused(c2s) /\ p = DecodeCommand(c2s)
    BY DEF Decoded, SIZE_CMD_HEADER
  <1>2. c2s # <<>>
    BY <1>1
  <1>3. /\ client = "cmd" /\ Len(heard) + 1 \in 1..Len(sent)
        /\ Command(sent[Len(heard) + 1], Len(heard) + 1)
        /\ Reads(c2s, sent[Len(heard) + 1], Rest(Written(sent), Len(heard) + 1))
    BY <1>1, <1>2, HeadCommand
  <1>4. Within(sent[Len(heard) + 1])
    BY <1>1, <1>3 DEF Reads
  <1>5. /\ DecodeCommand(c2s) = sent[Len(heard) + 1]
        /\ Drop(c2s, PduLen(c2s)) = Rest(Written(sent), Len(heard) + 1)
    BY <1>3, <1>4 DEF Reads
  <1> QED
    BY <1>1, <1>3, <1>4, <1>5

\* What a stream to the client begins with: the first reply it has not got.
HeadIs(r, rest) ==
  \/ /\ s2c[1] = RET_UNLINK /\ r = RetUnlink(s2c[2], I32(s2c[6])) /\ Drop(s2c, SIZE_CMD_HEADER) = rest
  \/ /\ s2c[1] = RET_SUBMIT /\ Known /\ ReplyData <= MaxTransfer
     /\ r = RetSubmit(s2c[2], I32(s2c[6]), I32(s2c[7]), SubSeq(Drop(s2c, SIZE_CMD_HEADER), 1, ReplyData))
     /\ Drop(s2c, SIZE_CMD_HEADER + ReplyData) = rest

LEMMA HeadReply ==
  ASSUME IInv, client = "cmd", s2c # <<>>
  PROVE  /\ Len(got) \in 1..Len(posted) /\ ReplyThere
         /\ HeadIs(posted[Len(got)], Rest(Returned(posted), Len(got)))
  <1> DEFINE n == Len(got) - 1
             r == posted[Len(got)]
             rest == Rest(Returned(posted), Len(got))
             b == s2c
  <1>1. /\ posted \in Seq(Replies) /\ n \in 0..Len(posted) /\ s2c = Rest(Returned(posted), n)
        /\ \A k \in 1..Len(posted) : Fits(posted[k], sent, heard)
    BY DEF IInv, ReplyStream
  <1>2. Len(got) \in Nat /\ n + 1 = Len(got)
    BY DEF IInv, ReplyStream
  <1> HIDE DEF n
  <1>3. /\ n = Len(posted) => s2c = <<>>
        /\ n # Len(posted) => Answers(s2c, posted[n + 1], Rest(Returned(posted), n + 1))
    BY <1>1, GotStream
  <1>4. n # Len(posted)
    BY <1>3
  <1>5. Len(got) \in 1..Len(posted)
    BY <1>1, <1>2, <1>4
  <1>6. Answers(b, r, rest) /\ r \in Replies /\ Fits(r, sent, heard)
    BY <1>1, <1>2, <1>3, <1>4, <1>5
  <1>7. b[2] = r.seqnum /\ rest \in Seq(Nat)
    <2>1. Returned(posted) \in Seq(Seq(Nat)) /\ Len(Returned(posted)) = Len(posted)
      BY <1>1, ReturnedType
    <2>2. rest \in Seq(Nat)
      BY <1>5, <2>1, RestType
    <2> QED
      BY <1>6, <2>2 DEF Answers
  <1>8. MaxTransfer \in Nat
    BY SizesAssumption
  <1> HIDE DEF r, rest
  <1>9. CASE IsRetUnlink(r)
    <2>1. /\ b[1] = RET_UNLINK /\ r = RetUnlink(b[2], I32(b[6])) /\ Drop(b, 12) = rest
          /\ Len(b) = 12 + Len(rest)
      BY <1>6, <1>9 DEF Answers
    <2>2. ReplyData = 0
      BY <2>1 DEF ReplyData, RET_UNLINK, RET_SUBMIT
    <2>3. Len(b) >= 12
      BY <1>7, <2>1
    <2>4. ReplyThere
      BY <2>2, <2>3 DEF ReplyThere, SIZE_CMD_HEADER
    <2>5. HeadIs(r, rest)
      BY <2>1 DEF HeadIs, SIZE_CMD_HEADER
    <2> QED
      BY <1>5, <2>4, <2>5 DEF r, rest
  <1>10. CASE ~ IsRetUnlink(r)
    <2>1. /\ IsRetSubmit(r) /\ Heard(r.seqnum, sent, heard)
          /\ Len(r.data) = RetPayload(Direction(sent[r.seqnum].dir), r.actual)
          /\ Len(r.data) <= sent[r.seqnum].length
      BY <1>6, <1>10 DEF Fits
    <2>2. /\ b[1] = RET_SUBMIT /\ I32(b[7]) = r.actual /\ r.data \in Seq(Nat)
          /\ Len(b) = 12 + Len(r.data) + Len(rest) /\ Drop(b, 12 + Len(r.data)) = rest
          /\ r = RetSubmit(b[2], I32(b[6]), I32(b[7]), SubSeq(Drop(b, 12), 1, Len(r.data)))
      BY <1>6, <2>1 DEF Answers
    <2>3. r.seqnum \in DOMAIN sent /\ sent[r.seqnum].command = CMD_SUBMIT /\ sent[r.seqnum].length \in 0..MaxTransfer
      BY <2>1, HeardSubmit DEF IInv
    <2>4. Known
      BY <1>7, <2>3 DEF Known
    <2>5. ReplyData = Len(r.data)
      BY <1>7, <2>1, <2>2, <2>4 DEF ReplyData
    <2>6. Len(r.data) \in Nat /\ Len(rest) \in Nat
      BY <1>7, <2>2
    <2>7. ReplyData <= MaxTransfer
      <3> DEFINE l == Len(r.data)
                 m == sent[r.seqnum].length
      <3>1. l \in Nat /\ l <= m /\ m \in 0..MaxTransfer /\ ReplyData = l
        BY <2>1, <2>3, <2>5, <2>6
      <3> HIDE DEF l, m
      <3> QED
        BY <1>8, <3>1
    <2>8. Len(b) >= 12 /\ Len(b) >= 12 + Len(r.data)
      BY <2>2, <2>6
    <2>9. ReplyThere
      BY <2>5, <2>8 DEF ReplyThere, SIZE_CMD_HEADER
    <2>10. HeadIs(r, rest)
      BY <2>2, <2>4, <2>5, <2>7 DEF HeadIs, SIZE_CMD_HEADER
    <2> QED
      BY <1>5, <2>9, <2>10 DEF r, rest
  <1> QED
    BY <1>9, <1>10

-----------------------------------------------------------------------------
(* What every step of a session keeps.                                     *)

\* More commands sent, more heard.
Extends(s, h, t, g) ==
  /\ Len(h) \in Nat /\ Len(g) \in Nat /\ Len(s) \in Nat
  /\ Len(h) <= Len(g) /\ Len(h) <= Len(s)
  /\ \A k \in 1..Len(s) : t[k] = s[k]

LEMMA HeardKept ==
  ASSUME NEW s, NEW h, NEW t, NEW g, Extends(s, h, t, g), NEW n, Heard(n, s, h)
  PROVE  Heard(n, t, g) /\ t[n] = s[n]
  <1>1. n \in 1..Len(s) /\ n \in 1..Len(g)
    BY DEF Extends, Heard
  <1> QED
    BY <1>1 DEF Extends, Heard

LEMMA FitsKept ==
  ASSUME NEW s, NEW h, NEW t, NEW g, Extends(s, h, t, g), NEW r, Fits(r, s, h)
  PROVE  Fits(r, t, g)
  <1>1. CASE IsRetUnlink(r)
    BY <1>1 DEF Fits
  <1>2. CASE ~ IsRetUnlink(r)
    <2>1. Heard(r.seqnum, s, h)
      BY <1>2 DEF Fits
    <2>2. Heard(r.seqnum, t, g) /\ t[r.seqnum] = s[r.seqnum]
      BY <2>1, HeardKept
    <2> QED
      BY <1>2, <2>2 DEF Fits
  <1> QED
    BY <1>1, <1>2

LEMMA PendsKept ==
  ASSUME NEW s, NEW h, NEW t, NEW g, Extends(s, h, t, g), NEW u
  PROVE  (Pends(u, s, h) => Pends(u, t, g)) /\ (Waits(u, s, h) => Waits(u, t, g))
  <1>1. ASSUME Heard(u.seqnum, s, h) PROVE Heard(u.seqnum, t, g) /\ t[u.seqnum] = s[u.seqnum]
    BY <1>1, HeardKept
  <1>2. ASSUME Pends(u, s, h) PROVE Pends(u, t, g)
    BY <1>1, <1>2 DEF Pends
  <1>3. ASSUME Waits(u, s, h) PROVE Waits(u, t, g)
    BY <1>1, <1>3 DEF Waits
  <1> QED
    BY <1>2, <1>3

\* In a session the streams are the ones behind the two sides' records.
LEMMA SessionPlaces ==
  ASSUME client' = "cmd", server' \in {"cmd", "refused"}
  PROVE  Places'
  BY DEF Places

LEMMA UrbsKept ==
  ASSUME Urbs, Extends(sent, heard, sent', heard'),
         pending' \subseteq pending, waiting' \subseteq waiting
  PROVE  Urbs'
  <1>1. ASSUME NEW u \in pending' PROVE Pends(u, sent', heard')
    <2>1. Pends(u, sent, heard)
      BY DEF Urbs
    <2> QED
      BY <2>1, PendsKept
  <1>2. ASSUME NEW u \in waiting' PROVE Waits(u, sent', heard')
    <2>1. Waits(u, sent, heard)
      BY DEF Urbs
    <2> QED
      BY <2>1, PendsKept
  <1> QED
    BY <1>1, <1>2 DEF Urbs

\* Nothing written to the client, nothing read by it.
LEMMA RepliesKept ==
  ASSUME ReplyStream, Extends(sent, heard, sent', heard'),
         UNCHANGED <<client, got, posted, s2c>>
  PROVE  ReplyStream'
  <1>1. ASSUME NEW k \in 1..Len(posted) PROVE Fits(posted[k], sent', heard')
    <2>1. Fits(posted[k], sent, heard)
      BY DEF ReplyStream
    <2> QED
      BY <2>1, FitsKept
  <1> QED
    BY <1>1 DEF ReplyStream

\* A reply that fits keeps the stream one of replies.
LEMMA PostStep ==
  ASSUME ReplyStream, Extends(sent, heard, sent', heard'), client = "cmd",
         NEW r, Fits(r, sent', heard'), Post(r), UNCHANGED <<client, got>>
  PROVE  ReplyStream'
  <1> DEFINE n == Len(got) - 1
  <1>1. posted \in Seq(Replies) /\ r \in Replies /\ n \in 0..Len(posted)
    BY ReplyKinds DEF ReplyStream, Fits
  <1>2. posted' = Append(posted, r) /\ s2c' = Cat(s2c, EncodeReply(r))
    BY DEF Post, Cat
  <1>3. /\ posted' \in Seq(Replies) /\ Len(posted') = Len(posted) + 1 /\ posted'[Len(posted) + 1] = r
        /\ \A k \in 1..Len(posted) : posted'[k] = posted[k]
    BY <1>1, <1>2
  <1>4. ASSUME NEW k \in 1..Len(posted') PROVE Fits(posted'[k], sent', heard')
    <2>1. CASE k = Len(posted) + 1
      BY <1>3, <2>1
    <2>2. CASE k # Len(posted) + 1
      <3>1. k \in 1..Len(posted)
        BY <1>1, <1>3, <2>2
      <3>2. Fits(posted[k], sent, heard)
        BY <3>1 DEF ReplyStream
      <3> QED
        BY <1>3, <3>1, <3>2, FitsKept
    <2> QED
      BY <2>1, <2>2
  <1>5. s2c' = Rest(Returned(posted'), n)
    <2>1. s2c = Rest(Returned(posted), n)
      BY DEF ReplyStream
    <2> HIDE DEF n
    <2> QED
      BY <1>1, <1>2, <2>1, PostedStream
  <1>6. got' = got /\ \E d : got \in Seq(Replies \cup {d})
    BY DEF ReplyStream
  <1>7. ASSUME NEW k \in 1..n PROVE got[k + 1] = posted'[k]
    <2>1. got[k + 1] = posted[k]
      BY DEF ReplyStream
    <2>2. k \in 1..Len(posted)
      BY <1>1
    <2> QED
      BY <1>3, <2>1, <2>2
  <1>8. n \in 0..Len(posted')
    BY <1>1, <1>3
  <1> QED
    BY <1>3, <1>4, <1>5, <1>6, <1>7, <1>8 DEF ReplyStream

LEMMA ListedKept ==
  ASSUME Listed, UNCHANGED <<client, got, asked>>
  PROVE  Listed'
  BY DEF Listed

LEMMA Unmoved ==
  ASSUME CommandStream, UNCHANGED <<sent, heard>>
  PROVE  Extends(sent, heard, sent', heard')
  BY DEF CommandStream, Extends

\* A command sent is the next one of the stream.
LEMMA SendStep ==
  ASSUME IInv, client = "cmd", NEW p, Command(p, NextSeqnum), Send(p)
  PROVE  IInv'
  <1> DEFINE n == Len(sent)
  <1>1. /\ sent \in Seq(Commands) /\ heard \in Seq(Commands) /\ Len(heard) <= n
        /\ n \in Nat /\ Len(heard) \in Nat
        /\ \A k \in 1..n : Command(sent[k], k)
        /\ \A k \in 1..Len(heard) : heard[k] = sent[k] /\ Within(sent[k])
        /\ c2s = Rest(Written(sent), Len(heard))
        /\ server = "refused" => Len(heard) < n /\ ~ Within(sent[Len(heard) + 1])
    BY DEF IInv, CommandStream
  <1>2. /\ sent' = Append(sent, p) /\ c2s' = Cat(c2s, EncodeCommand(p))
        /\ UNCHANGED <<s2c, client, server, asked, got, posted, heard, pending, waiting>>
    BY DEF Send, Cat
  <1>3. Command(p, n + 1) /\ p \in Commands
    BY <1>1, CommandType DEF NextSeqnum
  <1> HIDE DEF n
  <1>4. /\ sent' \in Seq(Commands) /\ Len(sent') = n + 1 /\ sent'[n + 1] = p
        /\ \A k \in 1..n : sent'[k] = sent[k]
    BY <1>1, <1>2, <1>3 DEF n
  <1>5. Extends(sent, heard, sent', heard')
    BY <1>1, <1>2, <1>4 DEF Extends, n
  <1>6. CommandStream'
    <2>1. ASSUME NEW k \in 1..Len(sent') PROVE Command(sent'[k], k)
      <3>1. CASE k = n + 1
        BY <1>3, <1>4, <3>1
      <3>2. CASE k # n + 1
        <4>1. k \in 1..n
          BY <1>1, <1>4, <3>2
        <4> QED
          BY <1>1, <1>4, <4>1
      <3> QED
        BY <3>1, <3>2
    <2>2. ASSUME NEW k \in 1..Len(heard) PROVE heard[k] = sent'[k] /\ Within(sent'[k])
      <3>1. k \in 1..n
        BY <1>1
      <3> QED
        BY <1>1, <1>4, <3>1
    <2>3. c2s' = Rest(Written(sent'), Len(heard))
      <3>1. Len(heard) \in 0..Len(sent)
        BY <1>1 DEF n
      <3> QED
        BY <1>1, <1>2, <1>3, <3>1, SentStream
    <2>4. server = "refused" => Len(heard) < Len(sent') /\ ~ Within(sent'[Len(heard) + 1])
      <3>1. ASSUME server = "refused" PROVE Len(heard) + 1 \in 1..n
        BY <1>1, <3>1
      <3> QED
        BY <1>1, <1>4, <3>1
    <2>5. Len(heard) <= Len(sent')
      BY <1>1, <1>4
    <2> QED
      BY <1>1, <1>2, <1>4, <2>1, <2>2, <2>3, <2>4, <2>5 DEF CommandStream
  <1>7. server' \in {"cmd", "refused"} /\ client' = "cmd"
    BY <1>2 DEF IInv, Places
  <1>8. Urbs'
    BY <1>2, <1>5, UrbsKept DEF IInv
  <1>9. ReplyStream'
    BY <1>2, <1>5, RepliesKept DEF IInv
  <1>10. Listed'
    BY <1>2, ListedKept DEF IInv
  <1> QED
    BY <1>6, <1>7, <1>8, <1>9, <1>10, SessionPlaces DEF IInv

LEMMA CommandFields ==
  ASSUME NEW n \in Nat, NEW p, Command(p, n)
  PROVE  p.seqnum = n /\ (p.command = CMD_SUBMIT => p.length \in Int /\ p.dir \in Nat)
  <1>1. CASE \E s \in Submits : p = CmdSubmit(n, s)
    <2>1. PICK s \in Submits : p = CmdSubmit(n, s)
      BY <1>1
    <2> QED
      BY <2>1, SubmitFields
  <1>2. CASE \E c \in {CMD_UNLINK, RET_UNLINK, 0}, k \in Nat : p = Cmd(c, n, k)
    BY <1>2 DEF Cmd, CMD_UNLINK, RET_UNLINK, CMD_SUBMIT
  <1> QED
    BY <1>1, <1>2 DEF Command

\* A command heard is the next one of those sent, and the stream goes on behind it.
LEMMA HearStep ==
  ASSUME IInv, NEW p \in Decoded, ReadPdu(p)
  PROVE  /\ client = "cmd" /\ Places' /\ CommandStream' /\ Listed'
         /\ Extends(sent, heard, sent', heard')
         /\ p.seqnum \in Nat /\ sent'[p.seqnum] = p
         /\ p.command = CMD_SUBMIT => /\ Heard(p.seqnum, sent', heard')
                                      /\ p.length \in 0..MaxTransfer /\ Max0(p.length) = p.length
  <1> DEFINE m == Len(heard)
  <1>1. /\ client = "cmd" /\ server = "cmd" /\ m + 1 \in 1..Len(sent)
        /\ p = sent[m + 1] /\ Within(p) /\ Command(p, m + 1)
        /\ Drop(c2s, PduLen(c2s)) = Rest(Written(sent), m + 1)
    BY DecodedIs
  <1>2. /\ sent \in Seq(Commands) /\ heard \in Seq(Commands) /\ m \in Nat /\ Len(sent) \in Nat
        /\ \A k \in 1..Len(sent) : Command(sent[k], k)
        /\ \A k \in 1..m : heard[k] = sent[k] /\ Within(sent[k])
    BY DEF IInv, CommandStream
  <1>3. /\ c2s' = Drop(c2s, PduLen(c2s)) /\ heard' = Append(heard, p)
        /\ UNCHANGED <<client, server, asked, got, sent>>
    BY DEF ReadPdu
  <1>4. p \in Commands
    BY <1>1, <1>2
  <1>5. /\ heard' \in Seq(Commands) /\ Len(heard') = m + 1 /\ heard'[m + 1] = p
        /\ \A k \in 1..m : heard'[k] = heard[k]
    BY <1>2, <1>3, <1>4
  <1> HIDE DEF m
  <1>6. Extends(sent, heard, sent', heard')
    BY <1>1, <1>2, <1>3, <1>5 DEF Extends, m
  <1>7. CommandStream'
    <2>1. ASSUME NEW k \in 1..Len(heard') PROVE heard'[k] = sent[k] /\ Within(sent[k])
      <3>1. CASE k = m + 1
        BY <1>1, <1>5, <3>1
      <3>2. CASE k # m + 1
        <4>1. k \in 1..m
          BY <1>2, <1>5, <3>2
        <4> QED
          BY <1>2, <1>5, <4>1
      <3> QED
        BY <3>1, <3>2
    <2>2. Len(heard') <= Len(sent)
      BY <1>1, <1>2, <1>5
    <2> QED
      BY <1>1, <1>2, <1>3, <1>5, <2>1, <2>2 DEF CommandStream
  <1>8. Places'
    BY <1>1, <1>3, SessionPlaces
  <1>9. Listed'
    BY <1>3, ListedKept DEF IInv
  <1>10. p.seqnum = m + 1 /\ (p.command = CMD_SUBMIT => p.length \in Int)
    BY <1>1, <1>2, CommandFields
  <1>11. p.seqnum \in Nat /\ sent'[p.seqnum] = p
    BY <1>1, <1>2, <1>3, <1>10
  <1>12. ASSUME p.command = CMD_SUBMIT
         PROVE  /\ Heard(p.seqnum, sent', heard')
                /\ p.length \in 0..MaxTransfer /\ Max0(p.length) = p.length
    <2>1. p.length \in 0..MaxTransfer
      BY <1>1, <1>12 DEF Within, CMD_SUBMIT, CMD_UNLINK
    <2>2. Max0(p.length) = p.length
      BY <2>1, SizesAssumption DEF Max0
    <2>3. p.seqnum \in 1..Len(heard')
      BY <1>2, <1>5, <1>10
    <2> QED
      BY <1>11, <1>12, <2>1, <2>2, <2>3 DEF Heard
  <1> QED
    BY <1>1, <1>6, <1>7, <1>8, <1>9, <1>11, <1>12

-----------------------------------------------------------------------------
(* The replies fit.                                                        *)

LEMMA StatusType ==
  /\ 0 \in Signed /\ -EINVAL \in Signed /\ -EOPNOTSUPP \in Signed /\ -ECONNRESET \in Signed
  /\ \A n \in 0..MaxTransfer : n \in Signed
  <1> DEFINE w == Word \div 2
  <1>1. Word \in Nat \ {0} /\ MaxTransfer \in Nat /\ MaxTransfer < w
    BY SizesAssumption
  <1>2. w \in Nat /\ 3 <= w
    BY <1>1, ErrnoAssumption DEF ECONNRESET
  <1> HIDE DEF w
  <1>3. Signed = -w..w - 1
    BY DEF Signed, w
  <1> QED
    BY <1>1, <1>2, <1>3 DEF EINVAL, EOPNOTSUPP, ECONNRESET

LEMMA SubmitFits ==
  ASSUME NEW n \in Nat, NEW s, NEW h, Heard(n, s, h), NEW status \in Signed,
         NEW actual \in Signed, NEW data \in Seq(Nat),
         Len(data) = RetPayload(Direction(s[n].dir), actual), Len(data) <= s[n].length
  PROVE  Fits(RetSubmit(n, status, actual, data), s, h)
  <1> DEFINE r == RetSubmit(n, status, actual, data)
  <1>1. r.seqnum = n /\ r.actual = actual /\ r.data = data
    BY DEF RetSubmit
  <1>2. IsRetSubmit(r)
    BY DEF IsRetSubmit
  <1> HIDE DEF r
  <1>3. Fits(r, s, h)
    BY <1>1, <1>2 DEF Fits
  <1> QED
    BY <1>3 DEF r

\* An error is answered without data, whatever the direction.
LEMMA ErrorFits ==
  ASSUME NEW n \in Nat, NEW s, NEW h, Heard(n, s, h), NEW status \in Signed,
         s[n].length \in 0..MaxTransfer
  PROVE  Fits(EncodeError(n, status), s, h)
  <1>1. 0 \in Signed /\ <<>> \in Seq(Nat) /\ Len(<<>>) = 0 /\ 0 <= s[n].length
    BY StatusType, SizesAssumption
  <1>2. RetPayload(Direction(s[n].dir), 0) = 0
    BY DEF RetPayload, Max0
  <1> QED
    BY <1>1, <1>2, SubmitFits DEF EncodeError

\* Data no longer than what was asked for, with its own length in the header.
LEMMA DataFits ==
  ASSUME NEW n \in Nat, NEW s, NEW h, Heard(n, s, h), NEW status \in Signed,
         s[n].length \in 0..MaxTransfer, Direction(s[n].dir) = "in",
         NEW data \in Seq(Nat), Len(data) <= s[n].length
  PROVE  Fits(RetSubmit(n, status, Len(data), data), s, h)
  <1> DEFINE l == Len(data)
             m == s[n].length
  <1>1. l \in Nat /\ l <= m /\ m \in 0..MaxTransfer /\ MaxTransfer \in Nat
    BY SizesAssumption
  <1> HIDE DEF l, m
  <1>2. l \in 0..MaxTransfer
    BY <1>1
  <1>3. l \in Signed
    BY <1>2, StatusType
  <1>4. RetPayload(Direction(s[n].dir), l) = l
    BY <1>1 DEF RetPayload, Max0
  <1> QED
    BY <1>3, <1>4, SubmitFits DEF l

LEMMA UnlinkFits ==
  ASSUME NEW n \in Nat, NEW s, NEW h, NEW status \in Signed
  PROVE  Fits(RetUnlink(n, status), s, h)
  BY DEF Fits, IsRetUnlink

LEMMA ReportType ==
  ASSUME NEW n \in Nat, NEW report \in Reports(n)
  PROVE  report \in Seq(Nat) /\ Len(report) \in 0..MaxTransfer
  <1>1. PICK m \in 0..MaxTransfer : report = [k \in 1..m |-> 2 * Word + n]
    BY DEF Reports
  <1>2. m \in Nat /\ 2 * Word + n \in Nat
    BY SizesAssumption
  <1> QED
    BY <1>1, <1>2

LEMMA TruncateType ==
  ASSUME NEW data \in Seq(Nat), NEW n \in Nat
  PROVE  Truncate(data, n) \in Seq(Nat) /\ Len(Truncate(data, n)) <= n
  <1> DEFINE m == Min2(Len(data), n)
  <1>1. m \in Nat /\ m <= n /\ m <= Len(data)
    BY DEF Min2
  <1> HIDE DEF m
  <1>2. SubSeq(data, 1, m) \in Seq(Nat) /\ Len(SubSeq(data, 1, m)) = m
    BY <1>1
  <1> QED
    BY <1>1, <1>2 DEF Truncate, m

-----------------------------------------------------------------------------
(* The actions of a session.                                               *)

LEMMA SendSubmitKeeps == ASSUME IInv, SendSubmit PROVE IInv'
  <1>1. PICK s \in Submits : Send(CmdSubmit(NextSeqnum, s))
    BY DEF SendSubmit
  <1>2. Command(CmdSubmit(NextSeqnum, s), NextSeqnum)
    BY DEF Command
  <1> QED
    BY <1>1, <1>2, SendStep DEF SendSubmit

LEMMA SendUnlinkKeeps == ASSUME IInv, SendUnlink PROVE IInv'
  <1>1. PICK k \in DOMAIN sent : Send(Cmd(CMD_UNLINK, NextSeqnum, k))
    BY DEF SendUnlink
  <1>2. k \in Nat
    BY DEF IInv, CommandStream
  <1>3. Command(Cmd(CMD_UNLINK, NextSeqnum, k), NextSeqnum)
    BY <1>2 DEF Command
  <1> QED
    BY <1>1, <1>3, SendStep DEF SendUnlink

LEMMA SendOtherKeeps == ASSUME IInv, SendOther PROVE IInv'
  <1>1. PICK c \in {RET_UNLINK, 0} : Send(Cmd(c, NextSeqnum, 0))
    BY DEF SendOther
  <1>2. c \in {CMD_UNLINK, RET_UNLINK, 0} /\ 0 \in Nat
    OBVIOUS
  <1>3. Command(Cmd(c, NextSeqnum, 0), NextSeqnum)
    BY <1>2 DEF Command
  <1> QED
    BY <1>1, <1>3, SendStep DEF SendOther

LEMMA ReadReplyKeeps == ASSUME IInv, ReadReply PROVE IInv'
  <1> DEFINE n == Len(got)
             r == posted[n]
             rest == Rest(Returned(posted), n)
  <1>1. client = "cmd" /\ Len(s2c) >= 12
    BY DEF ReadReply, ReplyThere, SIZE_CMD_HEADER
  <1>2. s2c # <<>>
    BY <1>1
  <1>3. n \in 1..Len(posted) /\ HeadIs(r, rest)
    BY <1>1, <1>2, HeadReply
  <1>4. UNCHANGED <<c2s, server, asked, posted, sent, heard, pending, waiting>>
    BY DEF ReadReply
  <1>5. got' = Append(got, r) /\ s2c' = rest /\ client' = client
    <2>1. CASE s2c[1] = RET_UNLINK
      <3>1. r = RetUnlink(s2c[2], I32(s2c[6])) /\ Drop(s2c, SIZE_CMD_HEADER) = rest
        BY <1>3, <2>1 DEF HeadIs, RET_UNLINK, RET_SUBMIT
      <3> HIDE DEF r, rest
      <3> QED
        BY <2>1, <3>1 DEF ReadReply
    <2>2. CASE s2c[1] # RET_UNLINK
      <3>1. /\ s2c[1] = RET_SUBMIT /\ Known /\ ReplyData <= MaxTransfer
            /\ r = RetSubmit(s2c[2], I32(s2c[6]), I32(s2c[7]),
                             SubSeq(Drop(s2c, SIZE_CMD_HEADER), 1, ReplyData))
            /\ Drop(s2c, SIZE_CMD_HEADER + ReplyData) = rest
        BY <1>3, <2>2 DEF HeadIs
      <3>2. ~(ReplyData > MaxTransfer)
        <4>1. ReplyData \in Int
          <5>1. s2c[2] \in DOMAIN sent /\ sent[s2c[2]].command = CMD_SUBMIT
            BY <3>1 DEF Known
          <5>2. posted \in Seq(Replies)
            BY DEF IInv, ReplyStream
          <5>3. r \in Replies
            BY <1>3, <5>2
          <5>4. I32(s2c[7]) \in Int
            <6>1. IsRetSubmit(r)
              <7>1. r.command = RET_SUBMIT
                BY <3>1 DEF RetSubmit
              <7> HIDE DEF r
              <7>2. ~ IsRetUnlink(r)
                BY <7>1 DEF IsRetUnlink, RetUnlink, RET_SUBMIT, RET_UNLINK
              <7> QED
                BY <5>3, <7>2, ReplyKinds
            <6>2. r.actual = I32(s2c[7])
              BY <3>1 DEF RetSubmit
            <6> HIDE DEF r
            <6>3. r.actual \in Signed
              BY <6>1 DEF IsRetSubmit, RetSubmit
            <6>4. Word \in Nat \ {0}
              BY SizesAssumption
            <6> QED
              BY <6>2, <6>3, <6>4 DEF Signed
          <5> HIDE DEF r, rest
          <5> QED
            BY <3>1, <5>4 DEF ReplyData, RetPayload, Max0
        <4>2. MaxTransfer \in Nat
          BY SizesAssumption
        <4> HIDE DEF r, rest
        <4> QED
          BY <3>1, <4>1, <4>2
      <3> HIDE DEF r, rest
      <3> QED
        BY <2>2, <3>1, <3>2 DEF ReadReply
    <2> QED
      BY <2>1, <2>2
  <1>6. CommandStream' /\ Urbs'
    <2>1. CommandStream'
      BY <1>4, <1>5 DEF IInv, CommandStream
    <2>2. Extends(sent, heard, sent', heard')
      BY <1>4, Unmoved DEF IInv
    <2>3. Urbs'
      BY <1>4, <2>2, UrbsKept DEF IInv
    <2> QED
      BY <2>1, <2>3
  <1>7. Places'
    <2>1. server' \in {"cmd", "refused"}
      BY <1>1, <1>4 DEF IInv, Places
    <2> QED
      BY <1>1, <1>5, <2>1, SessionPlaces
  <1>8. /\ posted \in Seq(Replies) /\ n \in Nat /\ n \in 1..Len(posted) /\ r \in Replies
        /\ \A k \in 1..(n - 1) : got[k + 1] = posted[k]
    BY <1>1, <1>3 DEF IInv, ReplyStream
  <1>9. PICK d : got \in Seq(Replies \cup {d})
    BY <1>1 DEF IInv, ReplyStream
  <1>10. /\ got' \in Seq(Replies \cup {d}) /\ Len(got') = n + 1 /\ got'[n + 1] = r
         /\ \A k \in 1..n : got'[k] = got[k]
    BY <1>5, <1>8, <1>9
  <1>11. ReplyStream'
    <2>1. Len(got') - 1 = n
      BY <1>8, <1>10
    <2>2. ASSUME NEW k \in 1..n PROVE got'[k + 1] = posted[k]
      <3>1. CASE k = n
        BY <1>10, <3>1
      <3>2. CASE k # n
        <4>1. k \in 1..(n - 1) /\ k + 1 \in 1..n
          BY <1>8, <3>2
        <4> QED
          BY <1>8, <1>10, <4>1
      <3> QED
        BY <3>1, <3>2
    <2>3. s2c' = Rest(Returned(posted), n)
      BY <1>5
    <2>4. n \in 0..Len(posted)
      BY <1>8
    <2>5. \A k \in 1..Len(posted) : Fits(posted[k], sent, heard)
      BY DEF IInv, ReplyStream
    <2> HIDE DEF n
    <2>6. \A k \in 1..Len(posted') : Fits(posted'[k], sent', heard')
      BY <1>4, <2>5
    <2>7. \A k \in 1..(Len(got') - 1) : got'[k + 1] = posted'[k]
      BY <1>4, <2>1, <2>2
    <2>8. s2c' = Rest(Returned(posted'), Len(got') - 1)
      BY <1>4, <2>1, <2>3
    <2>9. \E x : got' \in Seq(Replies \cup {x})
      BY <1>10
    <2>10. posted' \in Seq(Replies) /\ Len(got') - 1 \in 0..Len(posted')
      BY <1>4, <1>8, <2>1, <2>4
    <2> QED
      BY <2>6, <2>7, <2>8, <2>9, <2>10 DEF ReplyStream
  <1>12. Listed'
    <2>1. got'[1] = got[1]
      BY <1>8, <1>10
    <2> QED
      BY <1>1, <1>4, <1>5, <2>1 DEF IInv, Listed
  <1> QED
    BY <1>6, <1>7, <1>11, <1>12 DEF IInv

LEMMA ReadRefusedKeeps == ASSUME IInv, ReadRefused PROVE IInv'
  <1>1. /\ server = "cmd" /\ Len(c2s) >= 12 /\ Refused(c2s) /\ server' = "refused"
        /\ UNCHANGED <<c2s, s2c, client, asked, got, posted, sent, heard, pending, waiting>>
    BY DEF ReadRefused, SIZE_CMD_HEADER
  <1>2. c2s # <<>>
    BY <1>1
  <1>3. /\ client = "cmd" /\ Len(heard) + 1 \in 1..Len(sent)
        /\ Reads(c2s, sent[Len(heard) + 1], Rest(Written(sent), Len(heard) + 1))
    BY <1>1, <1>2, HeadCommand
  <1>4. ~ Within(sent[Len(heard) + 1])
    BY <1>1, <1>3 DEF Reads
  <1>5. Len(heard) < Len(sent)
    BY <1>3 DEF IInv, CommandStream
  <1>6. CommandStream'
    BY <1>1, <1>4, <1>5 DEF IInv, CommandStream
  <1>7. Extends(sent, heard, sent', heard')
    BY <1>1, Unmoved DEF IInv
  <1>8. Places'
    BY <1>1, <1>3, SessionPlaces
  <1>9. Urbs' /\ ReplyStream' /\ Listed'
    BY <1>1, <1>7, UrbsKept, RepliesKept, ListedKept DEF IInv
  <1> QED
    BY <1>6, <1>8, <1>9 DEF IInv

\* A command is heard and answered at once.
LEMMA AnswerStep ==
  ASSUME IInv, NEW p \in Decoded, ReadPdu(p), NEW r, Fits(r, sent', heard'), Post(r),
         pending' \subseteq pending, waiting' \subseteq waiting
  PROVE  IInv'
  <1>1. /\ client = "cmd" /\ Places' /\ CommandStream' /\ Listed'
        /\ Extends(sent, heard, sent', heard')
    BY HearStep
  <1>2. UNCHANGED <<client, got>>
    BY DEF ReadPdu
  <1>3. ReplyStream'
    BY <1>1, <1>2, PostStep DEF IInv
  <1>4. Urbs'
    BY <1>1, UrbsKept DEF IInv
  <1> QED
    BY <1>1, <1>3, <1>4 DEF IInv

LEMMA ReadIsoKeeps == ASSUME IInv, ReadIso PROVE IInv'
  <1>1. PICK p \in Submitted : /\ ReadPdu(p) /\ Post(EncodeError(p.seqnum, -EOPNOTSUPP))
                               /\ UNCHANGED <<pending, waiting>>
    BY DEF ReadIso
  <1>2. p \in Decoded /\ p.command = CMD_SUBMIT
    BY DEF Submitted
  <1>3. /\ p.seqnum \in Nat /\ sent'[p.seqnum] = p /\ Heard(p.seqnum, sent', heard')
        /\ p.length \in 0..MaxTransfer
    BY <1>1, <1>2, HearStep
  <1>4. Fits(EncodeError(p.seqnum, -EOPNOTSUPP), sent', heard')
    BY <1>3, StatusType, ErrorFits
  <1> QED
    BY <1>1, <1>2, <1>4, AnswerStep

LEMMA ReadHandledKeeps == ASSUME IInv, ReadHandled PROVE IInv'
  <1>1. PICK p \in Submitted : /\ ReadPdu(p)
                               /\ \E status \in {0, -EINVAL} : Post(EncodeError(p.seqnum, status))
                               /\ UNCHANGED <<pending, waiting>>
    BY DEF ReadHandled
  <1>2. PICK status \in {0, -EINVAL} : Post(EncodeError(p.seqnum, status))
    BY <1>1
  <1>3. p \in Decoded /\ p.command = CMD_SUBMIT
    BY DEF Submitted
  <1>4. /\ p.seqnum \in Nat /\ sent'[p.seqnum] = p /\ Heard(p.seqnum, sent', heard')
        /\ p.length \in 0..MaxTransfer
    BY <1>1, <1>3, HearStep
  <1>5. status \in Signed
    BY StatusType
  <1>6. Fits(EncodeError(p.seqnum, status), sent', heard')
    BY <1>4, <1>5, ErrorFits
  <1> QED
    BY <1>1, <1>2, <1>3, <1>6, AnswerStep

LEMMA ReadUnlinkKeeps == ASSUME IInv, ReadUnlink PROVE IInv'
  <1>1. PICK p \in Decoded \ Submitted :
          /\ ReadPdu(p)
          /\ LET mine == {u \in pending \cup waiting : u.seqnum = p.unlink} IN
               /\ pending' = pending \ mine
               /\ waiting' = waiting \ mine
               /\ Post(RetUnlink(p.seqnum, IF mine = {} THEN 0 ELSE -ECONNRESET))
    BY DEF ReadUnlink
  <1> DEFINE mine == {u \in pending \cup waiting : u.seqnum = p.unlink}
             status == IF mine = {} THEN 0 ELSE -ECONNRESET
  <1>2. /\ pending' \subseteq pending /\ waiting' \subseteq waiting
        /\ Post(RetUnlink(p.seqnum, status))
    BY <1>1
  <1>3. p \in Decoded /\ p.seqnum \in Nat
    BY <1>1, HearStep
  <1>4. status \in Signed
    BY StatusType
  <1> HIDE DEF status
  <1>5. Fits(RetUnlink(p.seqnum, status), sent', heard')
    BY <1>3, <1>4, UnlinkFits
  <1> QED
    BY <1>1, <1>2, <1>3, <1>5, AnswerStep

\* A command is heard and waits for its answer.
LEMMA ReadSubmitKeeps == ASSUME IInv, ReadSubmit PROVE IInv'
  <1>1. PICK p \in Submitted :
          /\ ReadPdu(p)
          /\ pending' = pending \cup {[seqnum |-> p.seqnum, dir |-> Direction(p.dir),
                                       size |-> PayloadLen(p), max_reply |-> Max0(p.length)]}
          /\ UNCHANGED <<s2c, posted, waiting>>
    BY DEF ReadSubmit
  <1> DEFINE x == [seqnum |-> p.seqnum, dir |-> Direction(p.dir),
                   size |-> PayloadLen(p), max_reply |-> Max0(p.length)]
  <1>2. p \in Decoded /\ p.command = CMD_SUBMIT
    BY DEF Submitted
  <1>3. /\ Places' /\ CommandStream' /\ Listed' /\ Extends(sent, heard, sent', heard')
        /\ sent'[p.seqnum] = p /\ Heard(p.seqnum, sent', heard') /\ Max0(p.length) = p.length
    BY <1>1, <1>2, HearStep
  <1>4. UNCHANGED <<client, got>>
    BY <1>1 DEF ReadPdu
  <1>5. ReplyStream'
    BY <1>1, <1>3, <1>4, RepliesKept DEF IInv
  <1>6. x.seqnum = p.seqnum /\ x.dir = Direction(p.dir) /\ x.max_reply = p.length
    BY <1>3
  <1>7. pending' = pending \cup {x} /\ waiting' = waiting
    BY <1>1
  <1> HIDE DEF x
  <1>8. Pends(x, sent', heard')
    BY <1>3, <1>6 DEF Pends
  <1>9. ASSUME NEW u \in pending' PROVE Pends(u, sent', heard')
    <2>1. CASE u = x
      BY <1>8, <2>1
    <2>2. CASE u # x
      <3>1. Pends(u, sent, heard)
        BY <1>7, <2>2 DEF IInv, Urbs
      <3> QED
        BY <1>3, <3>1, PendsKept
    <2> QED
      BY <2>1, <2>2
  <1>10. ASSUME NEW w \in waiting' PROVE Waits(w, sent', heard')
    <2>1. Waits(w, sent, heard)
      BY <1>7 DEF IInv, Urbs
    <2> QED
      BY <1>3, <2>1, PendsKept
  <1>11. Urbs'
    BY <1>9, <1>10 DEF Urbs
  <1> QED
    BY <1>3, <1>5, <1>11 DEF IInv

LEMMA ReadPrefetchedKeeps == ASSUME IInv, ReadPrefetched PROVE IInv'
  <1> DEFINE Waiter(p) == [seqnum |-> p.seqnum, max_len |-> Max0(p.length)]
  <1>1. PICK p \in Submitted :
          /\ ReadPdu(p) /\ Direction(p.dir) = "in"
          /\ \/ \E report \in Reports(p.seqnum) :
                  LET data == Truncate(report, Max0(p.length)) IN
                    Post(RetSubmit(p.seqnum, 0, Len(data), data)) /\ UNCHANGED waiting
             \/ waiting' = waiting \cup {Waiter(p)} /\ UNCHANGED <<s2c, posted>>
          /\ UNCHANGED pending
    BY DEF ReadPrefetched
  <1>2. p \in Decoded /\ p.command = CMD_SUBMIT
    BY DEF Submitted
  <1>3. /\ Places' /\ CommandStream' /\ Listed' /\ Extends(sent, heard, sent', heard')
        /\ p.seqnum \in Nat /\ sent'[p.seqnum] = p /\ Heard(p.seqnum, sent', heard')
        /\ p.length \in 0..MaxTransfer /\ Max0(p.length) = p.length
    BY <1>1, <1>2, HearStep
  <1>4. CASE \E report \in Reports(p.seqnum) :
               LET data == Truncate(report, Max0(p.length)) IN
                 Post(RetSubmit(p.seqnum, 0, Len(data), data)) /\ UNCHANGED waiting
    <2>1. PICK report \in Reports(p.seqnum) :
            LET data == Truncate(report, Max0(p.length)) IN
              Post(RetSubmit(p.seqnum, 0, Len(data), data)) /\ UNCHANGED waiting
      BY <1>4
    <2> DEFINE data == Truncate(report, Max0(p.length))
    <2>2. Post(RetSubmit(p.seqnum, 0, Len(data), data)) /\ UNCHANGED waiting
      BY <2>1
    <2>3. report \in Seq(Nat) /\ p.length \in Nat
      BY <1>3, ReportType, SizesAssumption
    <2>4. data \in Seq(Nat) /\ Len(data) <= p.length
      BY <1>3, <2>3, TruncateType
    <2> HIDE DEF data
    <2>5. Fits(RetSubmit(p.seqnum, 0, Len(data), data), sent', heard')
      BY <1>1, <1>3, <2>4, StatusType, DataFits
    <2> QED
      BY <1>1, <1>2, <2>2, <2>5, AnswerStep
  <1>5. CASE waiting' = waiting \cup {Waiter(p)} /\ UNCHANGED <<s2c, posted>>
    <2> DEFINE x == Waiter(p)
    <2>1. UNCHANGED <<client, got>>
      BY <1>1 DEF ReadPdu
    <2>2. ReplyStream'
      BY <1>3, <1>5, <2>1, RepliesKept DEF IInv
    <2>3. x.seqnum = p.seqnum /\ x.max_len = p.length
      BY <1>3
    <2>4. waiting' = waiting \cup {x} /\ pending' = pending
      BY <1>1, <1>5
    <2> HIDE DEF x
    <2>5. Waits(x, sent', heard')
      BY <1>1, <1>3, <2>3 DEF Waits
    <2>6. ASSUME NEW w \in waiting' PROVE Waits(w, sent', heard')
      <3>1. CASE w = x
        BY <2>5, <3>1
      <3>2. CASE w # x
        <4>1. Waits(w, sent, heard)
          BY <2>4, <3>2 DEF IInv, Urbs
        <4> QED
          BY <1>3, <4>1, PendsKept
      <3> QED
        BY <3>1, <3>2
    <2>7. ASSUME NEW u \in pending' PROVE Pends(u, sent', heard')
      <3>1. Pends(u, sent, heard)
        BY <2>4 DEF IInv, Urbs
      <3> QED
        BY <1>3, <3>1, PendsKept
    <2>8. Urbs'
      BY <2>6, <2>7 DEF Urbs
    <2> QED
      BY <1>3, <2>2, <2>8 DEF IInv
  <1> QED
    BY <1>1, <1>4, <1>5

\* A URB of an earlier command is answered.
LEMMA LaterStep ==
  ASSUME IInv, client = "cmd", NEW r, Fits(r, sent, heard), Post(r),
         UNCHANGED <<c2s, client, server, asked, got, sent, heard>>,
         pending' \subseteq pending, waiting' \subseteq waiting
  PROVE  IInv'
  <1>1. Extends(sent, heard, sent', heard')
    BY Unmoved DEF IInv
  <1>2. CommandStream'
    BY DEF IInv, CommandStream
  <1>3. Places'
    <2>1. server' \in {"cmd", "refused"}
      BY DEF IInv, Places
    <2> QED
      BY <2>1, SessionPlaces
  <1>4. Urbs'
    BY <1>1, UrbsKept DEF IInv
  <1>5. Fits(r, sent', heard')
    BY <1>1, FitsKept
  <1>6. ReplyStream'
    BY <1>1, <1>5, PostStep DEF IInv
  <1>7. Listed'
    BY ListedKept DEF IInv
  <1> QED
    BY <1>2, <1>3, <1>4, <1>6, <1>7 DEF IInv

\* However much the kernel transferred, the client gets no more than it asked for.
LEMMA CompletionFits ==
  ASSUME IInv, NEW u \in pending, NEW report \in Reports(u.seqnum), NEW status \in Signed,
         NEW c, c \in {Reap(u, report), [actual |-> 0, data |-> <<>>]}
  PROVE  Fits(RetSubmit(u.seqnum, status, c.actual, c.data), sent, heard)
  <1> DEFINE n == u.seqnum
             l == sent[n].length
  <1>1. Heard(n, sent, heard) /\ u.dir = Direction(sent[n].dir) /\ u.max_reply = l
    BY DEF IInv, Urbs, Pends
  <1>2. n \in Nat /\ l \in 0..MaxTransfer /\ l \in Nat
    BY <1>1, HeardSubmit, SizesAssumption DEF IInv
  <1>3. report \in Seq(Nat) /\ Len(report) \in 0..MaxTransfer
    BY <1>2, ReportType
  <1>4. 0 \in Signed /\ Len(report) \in Signed
    BY <1>3, StatusType
  <1> HIDE DEF n
  <1>5. CASE c = [actual |-> 0, data |-> <<>>]
    <2>1. Fits(EncodeError(n, status), sent, heard)
      BY <1>1, <1>2, ErrorFits
    <2>2. c.actual = 0 /\ c.data = <<>>
      BY <1>5
    <2> QED
      BY <2>1, <2>2 DEF EncodeError, n
  <1>6. CASE c = Reap(u, report) /\ u.dir = "in"
    <2> DEFINE data == Truncate(report, l)
    <2>1. data \in Seq(Nat) /\ Len(data) <= l
      BY <1>2, <1>3, TruncateType
    <2>2. c.actual = Len(data) /\ c.data = data
      BY <1>1, <1>6 DEF Reap
    <2> HIDE DEF data
    <2>3. Fits(RetSubmit(n, status, Len(data), data), sent, heard)
      BY <1>1, <1>2, <1>6, <2>1, DataFits
    <2> QED
      BY <2>2, <2>3 DEF n
  <1>7. CASE c = Reap(u, report) /\ u.dir # "in"
    <2>1. c.actual = Len(report) /\ c.data = <<>>
      BY <1>7 DEF Reap
    <2>2. RetPayload(Direction(sent[n].dir), Len(report)) = 0
      BY <1>1, <1>7 DEF RetPayload
    <2>3. <<>> \in Seq(Nat) /\ Len(<<>>) = 0 /\ 0 <= l
      BY <1>2
    <2>4. Fits(RetSubmit(n, status, Len(report), <<>>), sent, heard)
      BY <1>1, <1>2, <1>4, <2>2, <2>3, SubmitFits
    <2> QED
      BY <2>1, <2>4 DEF n
  <1> QED
    BY <1>5, <1>6, <1>7

LEMMA CompleteKeeps == ASSUME IInv, Complete PROVE IInv'
  <1>1. PICK u \in pending : \E report \in Reports(u.seqnum), status \in {0, -EINVAL}, down \in BOOLEAN :
          /\ LET c == Reap(u, report)
                 screened == IF down /\ status = 0 /\ c.data # <<>> THEN Blanked(c) ELSE c
             IN  Post(RetSubmit(u.seqnum, status, screened.actual, screened.data))
          /\ pending' = pending \ {u}
    BY DEF Complete
  <1>0. PICK report \in Reports(u.seqnum), status \in {0, -EINVAL}, down \in BOOLEAN :
          /\ LET c == Reap(u, report)
                 screened == IF down /\ status = 0 /\ c.data # <<>> THEN Blanked(c) ELSE c
             IN  Post(RetSubmit(u.seqnum, status, screened.actual, screened.data))
          /\ pending' = pending \ {u}
    BY <1>1
  <1>2. UNCHANGED <<c2s, client, server, asked, got, sent, heard, waiting>>
    BY DEF Complete
  <1> DEFINE c == Reap(u, report)
             screened == IF down /\ status = 0 /\ c.data # <<>> THEN Blanked(c) ELSE c
             r == RetSubmit(u.seqnum, status, screened.actual, screened.data)
  <1>3. Post(r) /\ pending' \subseteq pending /\ waiting' \subseteq waiting
    BY <1>0, <1>2
  <1>4. screened \in {c, [actual |-> 0, data |-> <<>>]}
    BY DEF Blanked
  <1>5. client = "cmd"
    BY DEF IInv, Places
  <1>6. status \in Signed
    BY StatusType
  <1> HIDE DEF screened
  <1>7. Fits(r, sent, heard)
    BY <1>4, <1>6, CompletionFits
  <1> HIDE DEF r
  <1> QED
    BY <1>2, <1>3, <1>5, <1>7, LaterStep

LEMMA DeliverKeeps == ASSUME IInv, Deliver PROVE IInv'
  <1>1. PICK w \in waiting : \E report \in Reports(w.seqnum), status \in {0, -EINVAL}, down \in BOOLEAN :
          /\ LET data == IF status # 0 \/ down THEN <<>> ELSE Truncate(report, w.max_len)
             IN  Post(RetSubmit(w.seqnum, status, Len(data), data))
          /\ waiting' = waiting \ {w}
    BY DEF Deliver
  <1>0. PICK report \in Reports(w.seqnum), status \in {0, -EINVAL}, down \in BOOLEAN :
          /\ LET data == IF status # 0 \/ down THEN <<>> ELSE Truncate(report, w.max_len)
             IN  Post(RetSubmit(w.seqnum, status, Len(data), data))
          /\ waiting' = waiting \ {w}
    BY <1>1
  <1>2. UNCHANGED <<c2s, client, server, asked, got, sent, heard, pending>>
    BY DEF Deliver
  <1> DEFINE data == IF status # 0 \/ down THEN <<>> ELSE Truncate(report, w.max_len)
             n == w.seqnum
             l == sent[n].length
             r == RetSubmit(n, status, Len(data), data)
  <1>3. Post(r) /\ pending' \subseteq pending /\ waiting' \subseteq waiting
    BY <1>0, <1>2
  <1>4. client = "cmd"
    BY DEF IInv, Places
  <1>5. Heard(n, sent, heard) /\ Direction(sent[n].dir) = "in" /\ w.max_len = l
    BY DEF IInv, Urbs, Waits
  <1>6. n \in Nat /\ l \in 0..MaxTransfer /\ l \in Nat
    BY <1>5, HeardSubmit, SizesAssumption DEF IInv
  <1>7. report \in Seq(Nat) /\ status \in Signed
    BY <1>6, ReportType, StatusType
  <1>8. data \in Seq(Nat) /\ Len(data) <= l
    <2>1. <<>> \in Seq(Nat) /\ Len(<<>>) <= l
      BY <1>6
    <2>2. Truncate(report, w.max_len) \in Seq(Nat) /\ Len(Truncate(report, w.max_len)) <= l
      BY <1>5, <1>6, <1>7, TruncateType
    <2> QED
      BY <2>1, <2>2
  <1> HIDE DEF data
  <1>9. Fits(r, sent, heard)
    BY <1>5, <1>6, <1>7, <1>8, DataFits
  <1> HIDE DEF r
  <1> QED
    BY <1>2, <1>3, <1>4, <1>9, LaterStep

-----------------------------------------------------------------------------
(* Before the session.                                                     *)

\* Nothing sent, heard or posted, and a client that is not in a session.
LEMMA Before ==
  ASSUME client' # "cmd", server' # "refused",
         sent' = <<>>, heard' = <<>>, posted' = <<>>, pending' = {}, waiting' = {}
  PROVE  CommandStream' /\ Urbs' /\ ReplyStream'
  <1>1. <<>> \in Seq(Commands) /\ <<>> \in Seq(Replies) /\ Len(<<>>) = 0
    OBVIOUS
  <1>2. CommandStream'
    BY <1>1 DEF CommandStream
  <1>3. Urbs'
    BY DEF Urbs
  <1>4. ReplyStream'
    BY <1>1 DEF ReplyStream
  <1> QED
    BY <1>2, <1>3, <1>4

LEMMA InitHolds == Init => IInv
  <1> SUFFICES ASSUME Init PROVE IInv
    OBVIOUS
  <1>1. <<>> \in Seq(Commands) /\ <<>> \in Seq(Replies) /\ Len(<<>>) = 0
    OBVIOUS
  <1>2. CommandStream
    BY <1>1 DEF CommandStream, Init
  <1>3. Urbs
    BY DEF Urbs, Init
  <1>4. ReplyStream
    BY <1>1 DEF ReplyStream, Init
  <1>5. Places
    BY DEF Places, Init
  <1>6. Listed
    BY DEF Listed, Init
  <1> QED
    BY <1>2, <1>3, <1>4, <1>5, <1>6 DEF IInv

LEMMA AskDevlistKeeps == ASSUME IInv, AskDevlist PROVE IInv'
  <1>1. /\ client = "start" /\ client' = "devlist" /\ c2s' = OpHeader(OP_REQ_DEVLIST, 0)
        /\ UNCHANGED <<s2c, server, asked, got, posted, sent, heard, pending, waiting>>
    BY DEF AskDevlist
  <1>2. /\ sent = <<>> /\ heard = <<>> /\ posted = <<>> /\ pending = {} /\ waiting = {}
        /\ server = "op" /\ s2c = <<>>
    BY <1>1 DEF IInv, Places
  <1>3. Places' /\ Listed'
    BY <1>1, <1>2 DEF Places, Listed
  <1> QED
    BY <1>1, <1>2, <1>3, Before DEF IInv

LEMMA AskImportKeeps == ASSUME IInv, AskImport PROVE IInv'
  <1>1. /\ client = "start" /\ client' = "import" /\ asked' \in Busids
        /\ c2s' = EncodeImportRequest(asked')
        /\ UNCHANGED <<s2c, server, got, posted, sent, heard, pending, waiting>>
    BY DEF AskImport
  <1>2. /\ sent = <<>> /\ heard = <<>> /\ posted = <<>> /\ pending = {} /\ waiting = {}
        /\ server = "op" /\ s2c = <<>>
    BY <1>1 DEF IInv, Places
  <1>3. Places' /\ Listed'
    BY <1>1, <1>2 DEF Places, Listed
  <1> QED
    BY <1>1, <1>2, <1>3, Before DEF IInv

LEMMA AskOtherKeeps == ASSUME IInv, AskOther PROVE IInv'
  <1>1. /\ client = "start" /\ client' = "odd"
        /\ UNCHANGED <<s2c, server, asked, got, posted, sent, heard, pending, waiting>>
    BY DEF AskOther
  <1>2. /\ sent = <<>> /\ heard = <<>> /\ posted = <<>> /\ pending = {} /\ waiting = {}
        /\ server = "op" /\ s2c = <<>>
    BY <1>1 DEF IInv, Places
  <1>3. c2s'[1] # USBIP_VERSION \/ c2s'[2] \notin {OP_REQ_DEVLIST, OP_REQ_IMPORT}
    <2>1. PICK version \in {USBIP_VERSION, 0}, code \in {OP_REQ_DEVLIST, 7} :
            /\ <<version, code>> # <<USBIP_VERSION, OP_REQ_DEVLIST>>
            /\ c2s' = <<version, code, 0>>
      BY DEF AskOther
    <2>2. c2s'[1] = version /\ c2s'[2] = code
      BY <2>1
    <2> QED
      BY <2>1, <2>2 DEF USBIP_VERSION, OP_REQ_DEVLIST, OP_REQ_IMPORT
  <1>4. Places' /\ Listed'
    BY <1>1, <1>2, <1>3 DEF Places, Listed
  <1> QED
    BY <1>1, <1>2, <1>4, Before DEF IInv

\* What was asked for is what the exporter reads at the head of the stream.
LEMMA Requested ==
  ASSUME IInv, server = "op", Len(c2s) >= 3
  PROVE  /\ sent = <<>> /\ heard = <<>> /\ posted = <<>> /\ pending = {} /\ waiting = {}
         /\ \/ client = "odd" /\ (c2s[1] # USBIP_VERSION \/ c2s[2] \notin {OP_REQ_DEVLIST, OP_REQ_IMPORT})
            \/ client = "devlist" /\ c2s[1] = USBIP_VERSION /\ c2s[2] = OP_REQ_DEVLIST
            \/ /\ client = "import" /\ asked \in Busids /\ c2s = EncodeImportRequest(asked)
               /\ c2s[1] = USBIP_VERSION /\ c2s[2] = OP_REQ_IMPORT
  <1>1. c2s # <<>>
    OBVIOUS
  <1>2. client # "cmd" /\ client \in {"odd", "devlist", "import"}
    BY <1>1 DEF IInv, Places
  <1>3. sent = <<>> /\ heard = <<>> /\ posted = <<>> /\ pending = {} /\ waiting = {}
    BY <1>2 DEF IInv, Places
  <1>4. CASE client = "odd"
    BY <1>3, <1>4 DEF IInv, Places
  <1>5. CASE client = "devlist"
    <2>1. c2s = OpHeader(OP_REQ_DEVLIST, 0)
      BY <1>5 DEF IInv, Places
    <2>2. OP_REQ_DEVLIST \in Nat /\ 0 \in Nat
      BY DEF OP_REQ_DEVLIST
    <2>3. c2s[1] = USBIP_VERSION /\ c2s[2] = OP_REQ_DEVLIST
      BY <2>1, <2>2, OpHeaderType
    <2> QED
      BY <1>3, <1>5, <2>3
  <1>6. CASE client = "import"
    <2>1. asked \in Busids /\ c2s = EncodeImportRequest(asked)
      BY <1>6 DEF IInv, Places
    <2>2. c2s[1] = USBIP_VERSION /\ c2s[2] = OP_REQ_IMPORT
      BY <2>1, RequestReads
    <2> QED
      BY <1>3, <1>6, <2>1, <2>2
  <1> QED
    BY <1>2, <1>4, <1>5, <1>6

LEMMA ServeOtherKeeps == ASSUME IInv, ServeOther PROVE IInv'
  <1>1. /\ server = "op" /\ Len(c2s) >= 3 /\ server' = "closed"
        /\ c2s[1] # USBIP_VERSION \/ c2s[2] \notin {OP_REQ_DEVLIST, OP_REQ_IMPORT}
        /\ UNCHANGED <<c2s, s2c, client, asked, got, posted, sent, heard, pending, waiting>>
    BY DEF ServeOther, SIZE_OP_HEADER
  <1>2. /\ sent = <<>> /\ heard = <<>> /\ posted = <<>> /\ pending = {} /\ waiting = {}
        /\ client = "odd"
    BY <1>1, Requested
  <1>3. Places' /\ Listed'
    BY <1>1, <1>2 DEF IInv, Places, Listed
  <1> QED
    BY <1>1, <1>2, <1>3, Before DEF IInv

LEMMA ServeDevlistKeeps == ASSUME IInv, ServeDevlist PROVE IInv'
  <1>1. /\ server = "op" /\ Len(c2s) >= 3 /\ server' = "closed"
        /\ c2s[1] = USBIP_VERSION /\ c2s[2] = OP_REQ_DEVLIST
        /\ s2c' = DevlistReply
        /\ UNCHANGED <<client, asked, got, posted, sent, heard, pending, waiting>>
    BY DEF ServeDevlist, SIZE_OP_HEADER, DevlistReply
  <1>2. OP_REQ_DEVLIST # OP_REQ_IMPORT
    BY DEF OP_REQ_DEVLIST, OP_REQ_IMPORT
  <1>3. /\ sent = <<>> /\ heard = <<>> /\ posted = <<>> /\ pending = {} /\ waiting = {}
        /\ client = "devlist"
    BY <1>1, <1>2, Requested
  <1>4. Places' /\ Listed'
    BY <1>1, <1>3 DEF Places, Listed
  <1> QED
    BY <1>1, <1>3, <1>4, Before DEF IInv

LEMMA ServeImportKeeps == ASSUME IInv, ServeImport PROVE IInv'
  <1> DEFINE busid == Text(SubSeq(c2s, SIZE_OP_HEADER + 1, SIZE_OP_HEADER + BusidLen))
             named == {d \in Range(Exported) : d.busid = busid}
             devs == {ToUsbip(d) : d \in named}
  <1>1. /\ server = "op" /\ Len(c2s) >= 3
        /\ c2s[1] = USBIP_VERSION /\ c2s[2] = OP_REQ_IMPORT
        /\ c2s' = Drop(c2s, SIZE_OP_HEADER + BusidLen)
        /\ UNCHANGED <<client, asked, got, posted, sent, heard, pending, waiting>>
    <2>1. BusidLen \in Nat
      BY SizesAssumption
    <2>2. Len(c2s) >= 3 + BusidLen => Len(c2s) >= 3
      BY <2>1
    <2> QED
      BY <2>2 DEF ServeImport, SIZE_OP_HEADER
  <1>2. PICK dev \in {{}, devs} : /\ s2c' = EncodeImportReply(dev)
                                  /\ server' = IF dev = {} THEN "closed" ELSE "cmd"
    BY DEF ServeImport
  <1>3. OP_REQ_DEVLIST # OP_REQ_IMPORT
    BY DEF OP_REQ_DEVLIST, OP_REQ_IMPORT
  <1>4. /\ sent = <<>> /\ heard = <<>> /\ posted = <<>> /\ pending = {} /\ waiting = {}
        /\ client = "import" /\ asked \in Busids /\ c2s = EncodeImportRequest(asked)
    BY <1>1, <1>3, Requested
  <1>5. busid = Text(TextField(asked, BusidLen)) /\ c2s' = <<>>
    BY <1>1, <1>4, RequestReads
  <1>6. named = Named(asked) /\ named \in SUBSET Range(Exported)
    BY <1>5 DEF Named
  <1> HIDE DEF busid, named
  <1>7. CASE dev = {}
    <2>1. server' = "closed" /\ s2c' = OpHeader(OP_REP_IMPORT, ST_NA)
      BY <1>2, <1>7, TurnedDown
    <2>2. Places' /\ Listed'
      BY <1>1, <1>4, <2>1 DEF Places, Listed
    <2> QED
      BY <1>1, <1>4, <2>1, <2>2, Before DEF IInv
  <1>8. CASE dev # {}
    <2>1. server' = "cmd" /\ s2c' = EncodeImportReply(devs) /\ named # {}
      BY <1>2, <1>8
    <2>2. \E e \in Named(asked) : s2c' = ImportReply(e)
      BY <1>6, <2>1, ImportReplyIs
    <2>3. Places' /\ Listed'
      BY <1>1, <1>4, <1>5, <2>1, <2>2 DEF Places, Listed
    <2> QED
      BY <1>1, <1>4, <2>1, <2>3, Before DEF IInv
  <1> QED
    BY <1>7, <1>8

\* The list a client reads is whole, and accepted.
LEMMA ListArrives ==
  /\ DevlistReply # <<>> /\ Len(DevlistReply) >= SIZE_OP_HEADER + 1
  /\ DevlistReply[SIZE_OP_HEADER + 1] = Len(Exported)
  /\ Expected(DevlistReply, OP_REP_DEVLIST)
  /\ Len(Exported) <= MaxDevlist /\ ~(Len(Exported) > MaxDevlist)
  /\ Len(DevlistReply) >= DevlistEnd(DevlistReply, Len(Exported))[Len(Exported)]
  <1> DEFINE b == DevlistReply
             n == Len(Exported)
             end == DevlistEnd(b, n)
  <1>1. /\ b \in Seq(Nat) /\ Len(b) >= 4
        /\ b[1] = USBIP_VERSION /\ b[2] = OP_REP_DEVLIST /\ b[3] = ST_OK /\ b[4] = n
        /\ end[n] = Len(b)
    BY ListReads DEF ListRead
  <1>2. n \in Nat /\ n <= MaxDevlist /\ MaxDevlist \in Nat
    BY ExportedLen
  <1> HIDE DEF b, n, end
  <1>3. b # <<>> /\ Len(b) \in Nat
    BY <1>1
  <1>4. SIZE_OP_HEADER + 1 = 4
    BY DEF SIZE_OP_HEADER
  <1>5. Expected(b, OP_REP_DEVLIST)
    BY <1>1 DEF Expected
  <1>6. Len(b) >= end[n] /\ ~(n > MaxDevlist)
    BY <1>1, <1>2, <1>3
  <1> QED
    BY <1>1, <1>2, <1>3, <1>4, <1>5, <1>6 DEF b, n, end

LEMMA ReadDevlistKeeps == ASSUME IInv, ReadDevlist PROVE IInv'
  <1>1. /\ client = "devlist" /\ Len(s2c) >= 4
        /\ UNCHANGED <<c2s, server, asked, posted, sent, heard, pending, waiting>>
    BY DEF ReadDevlist, DevlistThere, SIZE_OP_HEADER
  <1>2. s2c # <<>>
    BY <1>1
  <1>3. /\ sent = <<>> /\ heard = <<>> /\ posted = <<>> /\ pending = {} /\ waiting = {}
        /\ server = "closed" /\ s2c = DevlistReply
    BY <1>1, <1>2 DEF IInv, Places
  <1>4. /\ client' = "listed"
        /\ got' = LET n == DevlistReply[SIZE_OP_HEADER + 1]
                  IN  [k \in 1..n |->
                         DecodeDevice(Drop(DevlistReply, DevlistEnd(DevlistReply, n)[k - 1]), TRUE)]
    BY <1>3, ListArrives DEF ReadDevlist
  <1>5. Places'
    BY <1>1, <1>3, <1>4 DEF Places
  <1>6. Listed'
    BY <1>4 DEF Listed
  <1> QED
    BY <1>1, <1>3, <1>4, <1>5, <1>6, Before DEF IInv

LEMMA ReadImportKeeps == ASSUME IInv, ReadImport PROVE IInv'
  <1>1. /\ client = "import" /\ Len(s2c) >= 3
        /\ UNCHANGED <<c2s, server, asked, posted, sent, heard, pending, waiting>>
    BY DEF ReadImport, ImportThere, SIZE_OP_HEADER
  <1>2. s2c # <<>>
    BY <1>1
  <1>3. /\ sent = <<>> /\ heard = <<>> /\ posted = <<>> /\ pending = {} /\ waiting = {}
        /\ asked \in Busids
        /\ \/ server = "closed" /\ s2c = OpHeader(OP_REP_IMPORT, ST_NA)
           \/ server = "cmd" /\ c2s = <<>> /\ \E e \in Named(asked) : s2c = ImportReply(e)
    BY <1>1, <1>2 DEF IInv, Places
  <1>4. CASE server = "closed" /\ s2c = OpHeader(OP_REP_IMPORT, ST_NA)
    <2>1. client' = "turned down"
      BY <1>4, TurnedDown DEF ReadImport
    <2>2. Places' /\ Listed'
      BY <1>1, <1>3, <1>4, <2>1 DEF Places, Listed
    <2> QED
      BY <1>1, <1>3, <1>4, <2>1, <2>2, Before DEF IInv
  <1>5. CASE server = "cmd" /\ c2s = <<>> /\ \E e \in Named(asked) : s2c = ImportReply(e)
    <2>1. PICK e \in Named(asked) : s2c = ImportReply(e)
      BY <1>5
    <2>2. e \in Range(Exported)
      BY DEF Named
    <2>3. /\ s2c[1] = USBIP_VERSION /\ s2c[2] = OP_REP_IMPORT /\ s2c[3] = ST_OK
          /\ SubSeq(s2c, 1, SIZE_OP_HEADER) # OpHeader(OP_REP_IMPORT, ST_NA)
          /\ Drop(s2c, SIZE_OP_HEADER) = EncodeDevice(ToUsbip(e), FALSE)
          /\ Drop(s2c, SIZE_OP_HEADER + SIZE_USB_DEVICE) = <<>>
      BY <2>1, <2>2, ImportReads
    <2>4. Expected(s2c, OP_REP_IMPORT)
      BY <2>3 DEF Expected
    <2> DEFINE d == DecodeDevice(EncodeDevice(ToUsbip(e), FALSE), FALSE)
    <2>5. client' = "cmd" /\ s2c' = <<>> /\ got' = <<d>>
      BY <2>3, <2>4 DEF ReadImport
    <2>6. Places'
      BY <1>1, <1>5, <2>5, SessionPlaces
    <2>7. Listed'
      <3>1. got'[1] = d
        BY <2>5
      <3> QED
        BY <1>1, <1>3, <2>5, <3>1 DEF Listed
    <2> HIDE DEF d
    <2>8. <<>> \in Seq(Commands) /\ <<>> \in Seq(Replies) /\ Len(<<>>) = 0
      OBVIOUS
    <2>9. Rest(Written(<<>>), 0) = <<>> /\ Rest(Returned(<<>>), 0) = <<>>
      <3>1. Written(<<>>) \in Seq(Seq(Nat)) /\ Len(Written(<<>>)) = 0
        BY <2>8, WrittenType
      <3>2. Returned(<<>>) \in Seq(Seq(Nat)) /\ Len(Returned(<<>>)) = 0
        BY <2>8, ReturnedType
      <3> QED
        BY <3>1, <3>2, RestEmpty
    <2>10. CommandStream'
      BY <1>1, <1>3, <1>5, <2>8, <2>9 DEF CommandStream
    <2>11. Urbs'
      BY <1>1, <1>3 DEF Urbs
    <2>12. ReplyStream'
      <3>1. got' \in Seq(Replies \cup {d}) /\ Len(got') - 1 = 0
        BY <2>5
      <3>2. \E x : got' \in Seq(Replies \cup {x})
        BY <3>1
      <3> QED
        BY <1>1, <1>3, <2>5, <2>8, <2>9, <3>1, <3>2 DEF ReplyStream
    <2> QED
      BY <2>6, <2>7, <2>10, <2>11, <2>12 DEF IInv
  <1> QED
    BY <1>3, <1>4, <1>5

-----------------------------------------------------------------------------
(* What the invariant says.                                                *)

LEMMA PrefixFrom ==
  ASSUME NEW S, NEW T, NEW a \in Seq(S), NEW b \in Seq(T), Len(a) <= Len(b),
         \A k \in 1..Len(a) : a[k] = b[k]
  PROVE  IsPrefix(a, b)
  <1> DEFINE x == SubSeq(a, 1, Len(a))
             y == SubSeq(b, 1, Len(a))
             U == S \cup T
  <1>1. x \in Seq(S) /\ Len(x) = Len(a) /\ \A k \in 1..Len(a) : x[k] = a[k]
    OBVIOUS
  <1>2. y \in Seq(T) /\ Len(y) = Len(a) /\ \A k \in 1..Len(a) : y[k] = b[k]
    OBVIOUS
  <1> HIDE DEF x, y
  <1>3. x \in Seq(U) /\ y \in Seq(U)
    BY <1>1, <1>2
  <1>4. x = y
    BY <1>1, <1>2, <1>3, SeqEqual
  <1> QED
    BY <1>4 DEF IsPrefix, x, y

LEMMA InvHeard == ASSUME IInv PROVE HeardAsSent
  <1>1. /\ sent \in Seq(Commands) /\ heard \in Seq(Commands) /\ Len(heard) <= Len(sent)
        /\ \A k \in 1..Len(heard) : heard[k] = sent[k]
        /\ server = "refused" => ~ Within(sent[Len(heard) + 1])
    BY DEF IInv, CommandStream
  <1>2. IsPrefix(heard, sent)
    BY <1>1, PrefixFrom
  <1>3. ASSUME server = "cmd", c2s # <<>>
        PROVE  Len(c2s) >= SIZE_CMD_HEADER /\ (Refused(c2s) \/ Len(c2s) >= PduLen(c2s))
    <2> DEFINE n == Len(heard) + 1
               m == EncodeCommand(sent[n])
               rest == Rest(Written(sent), n)
    <2>1. n \in 1..Len(sent) /\ Reads(c2s, sent[n], rest)
      BY <1>3, HeadCommand
    <2>2. rest \in Seq(Nat)
      <3>1. Written(sent) \in Seq(Seq(Nat)) /\ Len(Written(sent)) = Len(sent)
        BY <1>1, WrittenType
      <3>2. n \in 0..Len(Written(sent))
        BY <2>1, <3>1
      <3> HIDE DEF n
      <3> QED
        BY <3>1, <3>2, RestType
    <2> HIDE DEF n, rest
    <2>3. /\ m \in Seq(Nat) /\ Len(m) >= 12 /\ Len(c2s) = Len(m) + Len(rest)
          /\ Refused(c2s) <=> ~ Within(sent[n])
          /\ Within(sent[n]) => PduLen(c2s) = Len(m)
      BY <2>1 DEF Reads, SIZE_CMD_HEADER
    <2> HIDE DEF m
    <2>4. Len(rest) \in Nat /\ Len(m) \in Nat
      BY <2>2, <2>3
    <2>5. Len(c2s) >= 12 /\ Len(c2s) >= Len(m)
      BY <2>3, <2>4
    <2> QED
      BY <2>3, <2>5 DEF SIZE_CMD_HEADER
  <1> QED
    BY <1>1, <1>2, <1>3 DEF HeardAsSent

LEMMA InvGot == ASSUME IInv PROVE GotAsPosted
  <1>1. client # "error"
    BY DEF IInv, Places
  <1>2. ASSUME client = "cmd" PROVE IsPrefix(Tail(got), posted) /\ (s2c # <<>> => ReplyThere)
    <2>1. s2c # <<>> => ReplyThere
      BY <1>2, HeadReply
    <2>2. PICK d : got \in Seq(Replies \cup {d})
      BY <1>2 DEF IInv, ReplyStream
    <2> DEFINE t == Tail(got)
               S == Replies \cup {d}
    <2>3. /\ posted \in Seq(Replies) /\ Len(got) - 1 \in 0..Len(posted)
          /\ \A k \in 1..(Len(got) - 1) : got[k + 1] = posted[k]
      BY <1>2 DEF IInv, ReplyStream
    <2> HIDE DEF S
    <2>4. got \in Seq(S) /\ Len(got) \in Nat /\ Len(got) >= 1
      BY <2>2, <2>3 DEF S
    <2>5. t \in Seq(S) /\ Len(t) = Len(got) - 1 /\ \A k \in 1..(Len(got) - 1) : t[k] = got[k + 1]
      BY <2>4
    <2> HIDE DEF t
    <2>6. Len(t) <= Len(posted) /\ \A k \in 1..Len(t) : t[k] = posted[k]
      BY <2>3, <2>5
    <2>7. IsPrefix(t, posted)
      BY <2>3, <2>5, <2>6, PrefixFrom
    <2> QED
      BY <2>1, <2>7 DEF t
  <1> QED
    BY <1>1, <1>2 DEF GotAsPosted

LEMMA InvFit == ASSUME IInv PROVE RepliesFit
  <1>1. SUFFICES ASSUME NEW k \in DOMAIN posted, posted[k].command = RET_SUBMIT
                 PROVE  Len(posted[k].data) <=
                          IF Direction(sent[posted[k].seqnum].dir) = "in"
                          THEN sent[posted[k].seqnum].length ELSE 0
    BY DEF RepliesFit
  <1> DEFINE r == posted[k]
             s == sent[r.seqnum]
  <1>2. Fits(r, sent, heard)
    BY DEF IInv, ReplyStream
  <1>3. ~ IsRetUnlink(r)
    BY <1>1 DEF IsRetUnlink, RetUnlink, RET_SUBMIT, RET_UNLINK
  <1>4. Len(r.data) = RetPayload(Direction(s.dir), r.actual) /\ Len(r.data) <= s.length
    BY <1>2, <1>3 DEF Fits
  <1> HIDE DEF r, s
  <1>5. Direction(s.dir) # "in" => Len(r.data) = 0
    BY <1>4 DEF RetPayload
  <1> QED
    BY <1>4, <1>5 DEF r, s

\* What the client has of a device it read in the list.
EntryOf(d, e) ==
  /\ d.ids = e.ids /\ d.busnum = e.busnum
  /\ IsPrefix(d.interfaces, e.interfaces)
  /\ Len(e.interfaces) < Byte => d.interfaces = e.interfaces
  /\ Len(e.busid) < BusidLen => d.busid = e.busid

LEMMA EntryFields ==
  ASSUME NEW e \in Range(Exported), NEW r \in Seq(Nat)
  PROVE  EntryOf(DecodeDevice(Cat(Entry(e), r), TRUE), e)
  <1> DEFINE b == Cat(Entry(e), r)
             d == DecodeDevice(b, TRUE)
             c == Count(e)
             T == Nat \X Nat \X Nat
             At(k) == SIZE_USB_DEVICE + (k - 1) * SIZE_USB_INTERFACE
             f == [k \in 1..c |-> SubSeq(b, At(k) + 1, At(k) + 3)]
             i == d.interfaces
  <1>1. /\ DeviceAt(b, e)
        /\ \A j \in 1..c : SubSeq(b, At(j) + 1, At(j) + 3) = e.interfaces[j]
    BY EntryDecodes
  <1> HIDE DEF b
  <1>2. /\ b[SIZE_USB_DEVICE] = c /\ b[PathLen + BusidLen + 1] = e.busnum
        /\ b[PathLen + BusidLen + 4] = e.ids
        /\ SubSeq(b, PathLen + 1, PathLen + BusidLen) = TextField(e.busid, BusidLen)
    BY <1>1 DEF DeviceAt
  <1> HIDE DEF c
  <1>3. /\ d.busid = Text(SubSeq(b, PathLen + 1, PathLen + BusidLen))
        /\ d.busnum = b[PathLen + BusidLen + 1] /\ d.ids = b[PathLen + BusidLen + 4]
    BY DEF DecodeDevice
  <1>4. i = f
    <2>1. i = [k \in 1..b[SIZE_USB_DEVICE] |-> SubSeq(b, At(k) + 1, At(k) + 3)]
      BY DEF DecodeDevice
    <2> QED
      BY <1>2, <2>1
  <1> HIDE DEF d
  <1>5. /\ c \in Nat /\ c <= Len(e.interfaces) /\ e.interfaces \in Seq(T)
        /\ Len(e.interfaces) < Byte => c = Len(e.interfaces)
    BY CountType, ExportedType DEF c
  <1>6. ASSUME NEW k \in 1..c PROVE f[k] = e.interfaces[k] /\ e.interfaces[k] \in T
    <2>1. f[k] = SubSeq(b, At(k) + 1, At(k) + 3)
      OBVIOUS
    <2>2. k \in 1..Len(e.interfaces)
      BY <1>5
    <2> HIDE DEF At, T
    <2> QED
      BY <1>1, <1>5, <2>1, <2>2
  <1>7. f \in [1..c -> T]
    <2>1. \A k \in 1..c : f[k] \in T
      BY <1>6
    <2>2. DOMAIN f = 1..c /\ f = [k \in DOMAIN f |-> f[k]]
      OBVIOUS
    <2> HIDE DEF f, T
    <2> QED
      BY <2>1, <2>2
  <1> HIDE DEF f, T, i
  <1>8. i \in Seq(T) /\ Len(i) = c /\ \A k \in 1..c : i[k] = e.interfaces[k]
    BY <1>4, <1>5, <1>6, <1>7
  <1>9. IsPrefix(i, e.interfaces)
    BY <1>5, <1>8, PrefixFrom
  <1>10. Len(e.interfaces) < Byte => i = e.interfaces
    BY <1>5, <1>8, SeqEqual
  <1>11. Len(e.busid) < BusidLen => d.busid = e.busid
    <2>1. e.busid \in Seq(Chars) /\ BusidLen \in Nat \ {0}
      BY ExportedType, SizesType
    <2> QED
      BY <1>2, <1>3, <2>1, TextRead
  <1> QED
    BY <1>2, <1>3, <1>9, <1>10, <1>11 DEF EntryOf, i, d, b

\* What the client has of the device it imported.
LEMMA ImportFields ==
  ASSUME NEW e \in Range(Exported), NEW d, d = DecodeDevice(EncodeDevice(ToUsbip(e), FALSE), FALSE)
  PROVE  d.ids = e.ids /\ d.busid = Text(TextField(e.busid, BusidLen))
  <1> DEFINE b == EncodeDevice(ToUsbip(e), FALSE)
  <1>1. b = Fixed(e)
    BY EncodeDeviceIs
  <1>2. b = Cat(Fixed(e), <<>>) /\ <<>> \in Seq(Nat)
    <2>1. Fixed(e) \in Seq(Nat)
      BY FixedType
    <2>2. Cat(Fixed(e), <<>>) = Fixed(e)
      BY <2>1, CatEmpty
    <2>3. <<>> \in Seq(Nat)
      OBVIOUS
    <2> HIDE DEF b
    <2> QED
      BY <1>1, <2>2, <2>3
  <1>3. DeviceAt(b, e)
    BY <1>2, FixedDecodes
  <1> HIDE DEF b
  <1>4. /\ d.busid = Text(SubSeq(b, PathLen + 1, PathLen + BusidLen))
        /\ d.ids = b[PathLen + BusidLen + 4]
    BY DEF DecodeDevice, b
  <1> QED
    BY <1>3, <1>4 DEF DeviceAt

LEMMA InvListed == ASSUME IInv PROVE ListedAsExported
  <1>1. ASSUME client = "listed"
        PROVE  /\ Len(got) = Len(Exported)
               /\ \A k \in DOMAIN got :
                    /\ got[k].ids = Exported[k].ids /\ got[k].busnum = Exported[k].busnum
                    /\ IsPrefix(got[k].interfaces, Exported[k].interfaces)
                    /\ Len(Exported[k].interfaces) < Byte => got[k].interfaces = Exported[k].interfaces
                    /\ Len(Exported[k].busid) < BusidLen => got[k].busid = Exported[k].busid
    <2> DEFINE b == DevlistReply
               n == Len(Exported)
               end == DevlistEnd(b, n)
               f == [k \in 1..n |-> DecodeDevice(Drop(b, end[k - 1]), TRUE)]
    <2>1. got = f
      BY <1>1, ListArrives DEF IInv, Listed
    <2>2. n \in Nat /\ \A k \in 1..n : Exported[k] \in Range(Exported)
      BY ExportedLen
    <2>3. \A k \in 1..n : \E r \in Seq(Nat) : Drop(b, end[k - 1]) = Cat(Entry(Exported[k]), r)
      BY ListReads DEF ListRead
    <2> HIDE DEF b, n, end
    <2>4. DOMAIN got = 1..n /\ Len(got) = n /\ \A k \in 1..n : got[k] = DecodeDevice(Drop(b, end[k - 1]), TRUE)
      <3>1. DOMAIN f = 1..n /\ \A k \in 1..n : f[k] = DecodeDevice(Drop(b, end[k - 1]), TRUE)
        OBVIOUS
      <3> DEFINE V == {DecodeDevice(Drop(b, end[k - 1]), TRUE) : k \in 1..n}
      <3>2. f \in [1..n -> V]
        OBVIOUS
      <3> HIDE DEF f, V
      <3>3. f \in Seq(V) /\ Len(f) = n
        BY <2>2, <3>2
      <3> QED
        BY <2>1, <3>1, <3>3
    <2>5. ASSUME NEW k \in 1..n
          PROVE  /\ got[k].ids = Exported[k].ids /\ got[k].busnum = Exported[k].busnum
                 /\ IsPrefix(got[k].interfaces, Exported[k].interfaces)
                 /\ Len(Exported[k].interfaces) < Byte => got[k].interfaces = Exported[k].interfaces
                 /\ Len(Exported[k].busid) < BusidLen => got[k].busid = Exported[k].busid
      <3>1. PICK r \in Seq(Nat) : Drop(b, end[k - 1]) = Cat(Entry(Exported[k]), r)
        BY <2>3
      <3>2. Exported[k] \in Range(Exported) /\ got[k] = DecodeDevice(Cat(Entry(Exported[k]), r), TRUE)
        BY <2>2, <2>4, <3>1
      <3>3. EntryOf(got[k], Exported[k])
        BY <3>2, EntryFields
      <3> QED
        BY <3>3 DEF EntryOf
    <2> QED
      BY <2>4, <2>5 DEF n
  <1>2. ASSUME client = "cmd", Len(asked) < BusidLen
        PROVE  /\ got[1].busid = asked
               /\ got[1].ids \in {d.ids : d \in {e \in Range(Exported) : e.busid = asked}}
    <2>1. PICK e \in Named(asked) : got[1] = DecodeDevice(EncodeDevice(ToUsbip(e), FALSE), FALSE)
      BY <1>2 DEF IInv, Listed
    <2>2. asked \in Seq(Chars) /\ BusidLen \in Nat \ {0}
      BY <1>2, RequestsAssumption, SizesAssumption DEF IInv, Listed
    <2>3. Text(TextField(asked, BusidLen)) = asked
      BY <1>2, <2>2, TextRead
    <2>4. e \in Range(Exported) /\ e.busid = asked
      BY <2>3 DEF Named
    <2>5. got[1].ids = e.ids /\ got[1].busid = asked
      BY <2>1, <2>3, <2>4, ImportFields
    <2> QED
      BY <2>4, <2>5
  <1>3. ASSUME client = "devlist", s2c # <<>> PROVE DevlistThere
    <2>1. s2c = DevlistReply
      BY <1>3 DEF IInv, Places
    <2> QED
      BY <2>1, ListArrives DEF DevlistThere
  <1>4. ASSUME client = "import", s2c # <<>> PROVE ImportThere
    <2>1. \/ s2c = OpHeader(OP_REP_IMPORT, ST_NA)
          \/ \E e \in Named(asked) : s2c = ImportReply(e)
      BY <1>4 DEF IInv, Places
    <2>2. CASE s2c = OpHeader(OP_REP_IMPORT, ST_NA)
      <3>1. Len(s2c) >= SIZE_OP_HEADER /\ ~ Expected(s2c, OP_REP_IMPORT)
        BY <2>2, TurnedDown DEF SIZE_OP_HEADER
      <3> QED
        BY <3>1 DEF ImportThere
    <2>3. CASE \E e \in Named(asked) : s2c = ImportReply(e)
      <3>1. PICK e \in Named(asked) : s2c = ImportReply(e)
        BY <2>3
      <3>2. e \in Range(Exported)
        BY DEF Named
      <3>3. Len(s2c) = SIZE_OP_HEADER + SIZE_USB_DEVICE
        BY <3>1, <3>2, ImportReads
      <3>4. SIZE_USB_DEVICE \in Nat /\ SIZE_OP_HEADER = 3
        BY SizesType DEF SIZE_OP_HEADER
      <3>5. Len(s2c) >= SIZE_OP_HEADER /\ Len(s2c) >= SIZE_OP_HEADER + SIZE_USB_DEVICE
        BY <3>3, <3>4
      <3> QED
        BY <3>5 DEF ImportThere
    <2> QED
      BY <2>1, <2>2, <2>3
  <1> QED
    BY <1>1, <1>2, <1>3, <1>4 DEF ListedAsExported

-----------------------------------------------------------------------------
(* The theorems.                                                           *)

LEMMA StepKeeps ==
  ASSUME IInv, [Next]_vars
  PROVE  IInv'
  <1>1. CASE AskDevlist     BY <1>1, AskDevlistKeeps
  <1>2. CASE AskImport      BY <1>2, AskImportKeeps
  <1>3. CASE AskOther       BY <1>3, AskOtherKeeps
  <1>4. CASE ReadDevlist    BY <1>4, ReadDevlistKeeps
  <1>5. CASE ReadImport     BY <1>5, ReadImportKeeps
  <1>6. CASE SendSubmit     BY <1>6, SendSubmitKeeps
  <1>7. CASE SendUnlink     BY <1>7, SendUnlinkKeeps
  <1>8. CASE SendOther      BY <1>8, SendOtherKeeps
  <1>9. CASE ReadReply      BY <1>9, ReadReplyKeeps
  <1>10. CASE ServeOther    BY <1>10, ServeOtherKeeps
  <1>11. CASE ServeDevlist  BY <1>11, ServeDevlistKeeps
  <1>12. CASE ServeImport   BY <1>12, ServeImportKeeps
  <1>13. CASE ReadRefused   BY <1>13, ReadRefusedKeeps
  <1>14. CASE ReadIso       BY <1>14, ReadIsoKeeps
  <1>15. CASE ReadPrefetched BY <1>15, ReadPrefetchedKeeps
  <1>16. CASE ReadHandled   BY <1>16, ReadHandledKeeps
  <1>17. CASE ReadSubmit    BY <1>17, ReadSubmitKeeps
  <1>18. CASE ReadUnlink    BY <1>18, ReadUnlinkKeeps
  <1>19. CASE Complete      BY <1>19, CompleteKeeps
  <1>20. CASE Deliver       BY <1>20, DeliverKeeps
  <1>21. CASE UNCHANGED vars
    <2>1. UNCHANGED <<c2s, s2c, client, server, asked, got, posted, sent, heard, pending, waiting>>
      BY <1>21 DEF vars
    <2>2. Places' /\ CommandStream'
      BY <2>1 DEF IInv, Places, CommandStream
    <2>3. Urbs' /\ ReplyStream' /\ Listed'
      BY <2>1 DEF IInv, Urbs, ReplyStream, Listed
    <2> QED
      BY <2>2, <2>3 DEF IInv
  <1> QED
    BY <1>1, <1>2, <1>3, <1>4, <1>5, <1>6, <1>7, <1>8, <1>9, <1>10, <1>11, <1>12, <1>13, <1>14,
       <1>15, <1>16, <1>17, <1>18, <1>19, <1>20, <1>21 DEF Next

\* Each stream is at every moment the encodings of the messages that are not
\* read yet, one behind the other, for any number of them.
THEOREM StreamsAreMessages == Spec => []IInv
  <1>1. Init => IInv
    BY InitHolds
  <1>2. IInv /\ [Next]_vars => IInv'
    BY StepKeeps
  <1> QED
    BY <1>1, <1>2, PTL DEF Spec

\* read_pdu returns the commands the client wrote, in their order, never waits
\* for bytes that do not come, and refuses no client within the limits.
THEOREM CommandsHeardAsSent == Spec => []HeardAsSent
  <1>1. IInv => HeardAsSent
    BY InvHeard
  <1> QED
    BY <1>1, StreamsAreMessages, PTL

\* read_ret_submit returns the replies reader_loop and reaper_loop wrote, in
\* their order: the length in each header agrees with the bytes behind it.
THEOREM RepliesGotAsPosted == Spec => []GotAsPosted
  <1>1. IInv => GotAsPosted
    BY InvGot
  <1> QED
    BY <1>1, StreamsAreMessages, PTL

\* No reply of the exporter has more data than its submit asked for, and none
\* answers an OUT transfer with data.
THEOREM RepliesAlwaysFit == Spec => []RepliesFit
  <1>1. IInv => RepliesFit
    BY InvFit
  <1> QED
    BY <1>1, StreamsAreMessages, PTL

\* read_devlist_reply returns the exported devices with their interfaces, and
\* read_import_reply the device that was asked for, for every list that the
\* client accepts the length of.
THEOREM DevicesListedAsExported == Spec => []ListedAsExported
  <1>1. IInv => ListedAsExported
    BY InvListed
  <1> QED
    BY <1>1, StreamsAreMessages, PTL
=============================================================================
