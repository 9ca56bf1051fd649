--------------------------- MODULE DiscoveryProofs ---------------------------
(***************************************************************************)
(* What a browse puts together belongs together, and nothing that reached  *)
(* it is lost, for any exporters, names, addresses and configured servers, *)
(* and whatever the network repeats, delays or drops.                      *)
(***************************************************************************)
EXTENDS Discovery, FiniteSetTheorems, SequenceTheorems, WellFoundedInduction, TLAPS

-----------------------------------------------------------------------------
(* Induction, as a fact about sets of numbers.                             *)

LEMMA Least ==
  ASSUME NEW T \in SUBSET Nat, T # {}
  PROVE  \E m \in T : \A k \in T : m <= k
  <1> DEFINE R == OpToRel(<, Nat)
  <1>1. IsWellFoundedOn(R, Nat)
    BY NatLessThanWellFounded
  <1>2. \E m \in T : \A k \in T : ~(<<k, m>> \in R)
    <2> HIDE DEF R
    <2> QED BY <1>1, WFMin
  <1>3. PICK m \in T : \A k \in T : ~(<<k, m>> \in R)
    BY <1>2
  <1>4. ASSUME NEW k \in T PROVE m <= k
    <2>1. ~(<<k, m>> \in R)
      BY <1>3
    <2>2. k \in Nat /\ m \in Nat
      OBVIOUS
    <2> QED
      BY <2>1, <2>2 DEF OpToRel
  <1> QED
    BY <1>4

LEMMA SeqWiden ==
  ASSUME NEW A, NEW B, A \subseteq B, NEW s \in Seq(A)
  PROVE  s \in Seq(B)
  OBVIOUS

LEMMA UpTo ==
  ASSUME NEW S, 0 \in S, \A n \in Nat : n \in S => n + 1 \in S
  PROVE  Nat \subseteq S
  <1>1. SUFFICES ASSUME NEW T \in SUBSET Nat, T = Nat \ S, T # {} PROVE FALSE
    OBVIOUS
  <1>2. PICK m \in T : \A k \in T : m <= k
    BY <1>1, Least
  <1>3. m # 0 /\ m - 1 \in Nat /\ (m - 1) + 1 = m
    BY <1>1
  <1>4. m - 1 \notin T
    BY <1>2, <1>3
  <1> QED
    BY <1>1, <1>3, <1>4

-----------------------------------------------------------------------------
(* The three loops: each has a run, and ends where its run ends.           *)

\* `a` is what collect() has gathered after each of the first `m` records.
Gathering(a, c, records, m) ==
  a = [k \in 0..m |-> IF k = 0 THEN c ELSE Collect(a[k - 1], records[k])]

LEMMA GatheringExists ==
  ASSUME NEW c, NEW records, NEW n \in Nat
  PROVE  \E a : Gathering(a, c, records, n)
  <1> DEFINE S == {m \in Nat : \E a : Gathering(a, c, records, m)}
  <1>1. 0 \in S
    <2> DEFINE a == [k \in 0..0 |-> c]
    <2>1. a = [k \in 0..0 |-> IF k = 0 THEN c ELSE Collect(a[k - 1], records[k])]
      OBVIOUS
    <2>2. Gathering(a, c, records, 0)
      BY <2>1 DEF Gathering
    <2> QED
      BY <2>2
  <1>2. ASSUME NEW m \in Nat, m \in S PROVE m + 1 \in S
    <2>1. PICK a : Gathering(a, c, records, m)
      BY <1>2
    <2> DEFINE F(h, k) == IF k = 0 THEN c ELSE Collect(h[k - 1], records[k])
               b == [k \in 0..(m + 1) |-> IF k = m + 1 THEN Collect(a[m], records[m + 1]) ELSE a[k]]
    <2>2. b[m + 1] = Collect(a[m], records[m + 1]) /\ \A k \in 0..m : b[k] = a[k]
      OBVIOUS
    <2>3. \A k \in 0..m : a[k] = F(a, k)
      BY <2>1 DEF Gathering
    <2>4. ASSUME NEW k \in 0..(m + 1) PROVE b[k] = F(b, k)
      <3> HIDE DEF b
      <3>1. CASE k = m + 1
        BY <2>2, <3>1
      <3>2. CASE k = 0
        BY <2>2, <2>3, <3>2
      <3>3. CASE k # m + 1 /\ k # 0
        <4>1. k \in 0..m /\ k - 1 \in 0..m
          BY <3>3
        <4> QED
          BY <2>2, <2>3, <3>3, <4>1
      <3> QED
        BY <3>1, <3>2, <3>3
    <2>5. b = [k \in 0..(m + 1) |-> b[k]]
      OBVIOUS
    <2>6. b = [k \in 0..(m + 1) |-> F(b, k)]
      <3> HIDE DEF b, F
      <3> QED
        BY <2>4, <2>5
    <2>7. Gathering(b, c, records, m + 1)
      BY <2>6 DEF Gathering
    <2> QED
      BY <2>7
  <1> HIDE DEF S
  <1>3. Nat \subseteq S
    BY <1>1, <1>2, UpTo
  <1> QED
    BY <1>3 DEF S

CollectedRun(a, c, records) ==
  /\ Collected(c, records) = a[Len(records)]
  /\ a[0] = c
  /\ \A k \in 1..Len(records) : a[k] = Collect(a[k - 1], records[k])

LEMMA CollectedRuns ==
  ASSUME NEW c, NEW records, Len(records) \in Nat
  PROVE  \E a : CollectedRun(a, c, records)
  <1> DEFINE a == CHOOSE a : Gathering(a, c, records, Len(records))
  <1>1. Gathering(a, c, records, Len(records))
    BY GatheringExists
  <1>2. Collected(c, records) = a[Len(records)]
    BY DEF Collected, Gathering
  <1> HIDE DEF a
  <1>3. a[0] = c /\ \A k \in 1..Len(records) : a[k] = Collect(a[k - 1], records[k])
    BY <1>1 DEF Gathering
  <1>4. CollectedRun(a, c, records)
    BY <1>2, <1>3 DEF CollectedRun
  <1> QED
    BY <1>4

\* `a` is what is left of each prefix of `s`.
Keeping(a, s, I, m) ==
  a = [k \in 0..m |-> IF k = 0 THEN <<>> ELSE IF k \in I THEN Append(a[k - 1], s[k]) ELSE a[k - 1]]

LEMMA KeepingExists ==
  ASSUME NEW s, NEW I, NEW n \in Nat
  PROVE  \E a : Keeping(a, s, I, n)
  <1> DEFINE G(x, k) == IF k \in I THEN Append(x, s[k]) ELSE x
             S == {m \in Nat : \E a : Keeping(a, s, I, m)}
  <1>1. 0 \in S
    <2> DEFINE a == [k \in 0..0 |-> <<>>]
    <2>1. a = [k \in 0..0 |-> IF k = 0 THEN <<>> ELSE G(a[k - 1], k)]
      OBVIOUS
    <2>2. Keeping(a, s, I, 0)
      BY <2>1 DEF Keeping
    <2> QED
      BY <2>2
  <1>2. ASSUME NEW m \in Nat, m \in S PROVE m + 1 \in S
    <2>1. PICK a : Keeping(a, s, I, m)
      BY <1>2
    <2> DEFINE F(h, k) == IF k = 0 THEN <<>> ELSE G(h[k - 1], k)
               b == [k \in 0..(m + 1) |-> IF k = m + 1 THEN G(a[m], m + 1) ELSE a[k]]
    <2>3. \A k \in 0..m : a[k] = F(a, k)
      BY <2>1 DEF Keeping
    <2> HIDE DEF G
    <2>2. b[m + 1] = G(a[m], m + 1) /\ \A k \in 0..m : b[k] = a[k]
      OBVIOUS
    <2>4. ASSUME NEW k \in 0..(m + 1) PROVE b[k] = F(b, k)
      <3> HIDE DEF b
      <3>1. CASE k = m + 1
        BY <2>2, <3>1
      <3>2. CASE k = 0
        BY <2>2, <2>3, <3>2
      <3>3. CASE k # m + 1 /\ k # 0
        <4>1. k \in 0..m /\ k - 1 \in 0..m
          BY <3>3
        <4> QED
          BY <2>2, <2>3, <3>3, <4>1
      <3> QED
        BY <3>1, <3>2, <3>3
    <2>5. b = [k \in 0..(m + 1) |-> b[k]]
      OBVIOUS
    <2>6. b = [k \in 0..(m + 1) |-> F(b, k)]
      <3> HIDE DEF b, F
      <3> QED
        BY <2>4, <2>5
    <2>7. Keeping(b, s, I, m + 1)
      BY <2>6 DEF Keeping, G
    <2> QED
      BY <2>7
  <1> HIDE DEF S
  <1>3. Nat \subseteq S
    BY <1>1, <1>2, UpTo
  <1> QED
    BY <1>3 DEF S

KeptRun(a, s, I) ==
  /\ Kept(s, I) = a[Len(s)]
  /\ a[0] = <<>>
  /\ \A k \in 1..Len(s) : a[k] = IF k \in I THEN Append(a[k - 1], s[k]) ELSE a[k - 1]

LEMMA KeptRuns ==
  ASSUME NEW s, NEW I, Len(s) \in Nat
  PROVE  \E a : KeptRun(a, s, I)
  <1> DEFINE a == CHOOSE a : Keeping(a, s, I, Len(s))
  <1>1. Keeping(a, s, I, Len(s))
    BY KeepingExists
  <1>2. Kept(s, I) = a[Len(s)]
    BY DEF Kept, Keeping
  <1> HIDE DEF a
  <1> DEFINE G(x, k) == IF k \in I THEN Append(x, s[k]) ELSE x
  <1>3. \A k \in 0..Len(s) : a[k] = IF k = 0 THEN <<>> ELSE G(a[k - 1], k)
    BY <1>1 DEF Keeping
  <1> HIDE DEF G
  <1>4. a[0] = <<>> /\ \A k \in 1..Len(s) : a[k] = G(a[k - 1], k)
    BY <1>3
  <1>5. \A k \in 1..Len(s) : a[k] = IF k \in I THEN Append(a[k - 1], s[k]) ELSE a[k - 1]
    BY <1>4 DEF G
  <1>6. KeptRun(a, s, I)
    BY <1>2, <1>4, <1>5 DEF KeptRun
  <1> QED
    BY <1>6

\* What endpoints() does with one server that was found.
Add(v, d) ==
  IF \E j \in DOMAIN v : Lower[v[j].host] = Lower[Endpoint(d)]
  THEN v ELSE Append(v, [host |-> Endpoint(d), port |-> d.port])

\* `a` is the list of servers after each of the first `m` that were found.
Adding(a, found, m) ==
  a = [k \in 0..m |->
         IF k = 0 THEN Configured
         ELSE IF \E j \in DOMAIN a[k - 1] : Lower[a[k - 1][j].host] = Lower[Endpoint(found[k])]
              THEN a[k - 1]
              ELSE Append(a[k - 1], [host |-> Endpoint(found[k]), port |-> found[k].port])]

LEMMA AddingExists ==
  ASSUME NEW found, NEW n \in Nat
  PROVE  \E a : Adding(a, found, n)
  <1> DEFINE S == {m \in Nat : \E a : Adding(a, found, m)}
             F(h, k) == IF k = 0 THEN Configured ELSE Add(h[k - 1], found[k])
  <1>0. \A a, m : Adding(a, found, m) <=> a = [k \in 0..m |-> F(a, k)]
    BY DEF Adding, Add
  <1>1. 0 \in S
    <2> DEFINE a == [k \in 0..0 |-> Configured]
    <2>1. a = [k \in 0..0 |-> F(a, k)]
      OBVIOUS
    <2>2. Adding(a, found, 0)
      BY <2>1, <1>0
    <2> QED
      BY <2>2
  <1>2. ASSUME NEW m \in Nat, m \in S PROVE m + 1 \in S
    <2>1. PICK a : a = [k \in 0..m |-> F(a, k)]
      BY <1>2, <1>0
    <2> DEFINE b == [k \in 0..(m + 1) |-> IF k = m + 1 THEN Add(a[m], found[m + 1]) ELSE a[k]]
    <2>2. b[m + 1] = Add(a[m], found[m + 1]) /\ \A k \in 0..m : b[k] = a[k]
      OBVIOUS
    <2>3. \A k \in 0..m : a[k] = F(a, k)
      <3> HIDE DEF F
      <3> QED
        BY <2>1
    <2>4. ASSUME NEW k \in 0..(m + 1) PROVE b[k] = F(b, k)
      <3> HIDE DEF b
      <3>1. CASE k = m + 1
        BY <2>2, <3>1
      <3>2. CASE k = 0
        BY <2>2, <2>3, <3>2
      <3>3. CASE k # m + 1 /\ k # 0
        <4>1. k \in 0..m /\ k - 1 \in 0..m
          BY <3>3
        <4> QED
          BY <2>2, <2>3, <3>3, <4>1
      <3> QED
        BY <3>1, <3>2, <3>3
    <2>5. b = [k \in 0..(m + 1) |-> b[k]]
      OBVIOUS
    <2>6. b = [k \in 0..(m + 1) |-> F(b, k)]
      <3> HIDE DEF b, F
      <3> QED
        BY <2>4, <2>5
    <2>7. Adding(b, found, m + 1)
      <3> HIDE DEF b, F
      <3> QED
        BY <2>6, <1>0
    <2> QED
      BY <2>7
  <1> HIDE DEF S
  <1>3. Nat \subseteq S
    BY <1>1, <1>2, UpTo
  <1> QED
    BY <1>3 DEF S

EndpointsRun(a, found) ==
  /\ Endpoints(found) = a[Len(found)]
  /\ a[0] = Configured
  /\ \A k \in 1..Len(found) : a[k] = Add(a[k - 1], found[k])

LEMMA EndpointsRuns ==
  ASSUME NEW found, Len(found) \in Nat
  PROVE  \E a : EndpointsRun(a, found)
  <1> DEFINE a == CHOOSE a : Adding(a, found, Len(found))
  <1>1. Adding(a, found, Len(found))
    BY AddingExists
  <1>2. Endpoints(found) = a[Len(found)]
    BY DEF Endpoints, Adding
  <1> HIDE DEF a
  <1> DEFINE F(k) == IF k = 0 THEN Configured ELSE Add(a[k - 1], found[k])
  <1>3. a = [k \in 0..Len(found) |-> F(k)]
    BY <1>1 DEF Adding, Add
  <1>4. \A k \in 0..Len(found) : a[k] = F(k)
    <2> HIDE DEF F
    <2> QED
      BY <1>3
  <1>5. a[0] = Configured
    BY <1>4
  <1>6. ASSUME NEW k \in 1..Len(found) PROVE a[k] = Add(a[k - 1], found[k])
    BY <1>4
  <1>7. EndpointsRun(a, found)
    BY <1>2, <1>5, <1>6 DEF EndpointsRun
  <1> QED
    BY <1>7

-----------------------------------------------------------------------------
(* What the loops compute.                                                 *)

\* Nothing is left of a sequence but entries at the positions that stay.
LEMMA KeptMembers ==
  ASSUME NEW S, NEW s \in Seq(S), NEW I
  PROVE  Kept(s, I) \in Seq({s[k] : k \in {j \in 1..Len(s) : j \in I}})
  <1> DEFINE R == {s[k] : k \in {j \in 1..Len(s) : j \in I}}
  <1>9. Len(s) \in Nat
    OBVIOUS
  <1>0. PICK a : KeptRun(a, s, I)
    BY <1>9, KeptRuns, Zenon
  <1>1. /\ Kept(s, I) = a[Len(s)]
        /\ a[0] = <<>>
        /\ \A k \in 1..Len(s) : a[k] = IF k \in I THEN Append(a[k - 1], s[k]) ELSE a[k - 1]
    BY <1>0 DEF KeptRun
  <1> DEFINE T == {m \in Nat : m <= Len(s) => a[m] \in Seq(R)}
  <1>2. 0 \in T
    <2>1. a[0] \in Seq(R)
      <3> HIDE DEF R
      <3> QED
        BY <1>1, EmptySeq
    <2> QED
      BY <2>1
  <1>3. ASSUME NEW m \in Nat, m \in T PROVE m + 1 \in T
    <2>1. SUFFICES ASSUME m + 1 <= Len(s) PROVE a[m + 1] \in Seq(R)
      OBVIOUS
    <2>2. m + 1 \in 1..Len(s) /\ (m + 1) - 1 = m /\ a[m] \in Seq(R)
      BY <1>3, <2>1
    <2>3. a[m + 1] = IF m + 1 \in I THEN Append(a[m], s[m + 1]) ELSE a[m]
      BY <1>1, <2>2
    <2>4. m + 1 \in I => s[m + 1] \in R
      BY <2>2
    <2> HIDE DEF R
    <2> QED
      BY <2>2, <2>3, <2>4
  <1> HIDE DEF T
  <1>4. Nat \subseteq T
    BY <1>2, <1>3, UpTo
  <1>5. Len(s) \in T
    BY <1>4, <1>9, Zenon
  <1>6. a[Len(s)] \in Seq(R)
    <2> HIDE DEF R
    <2> QED
      BY <1>5, <1>9 DEF T
  <1> QED
    BY <1>1, <1>6, Zenon

\* Everything is left when every position stays.
LEMMA KeptAll ==
  ASSUME NEW S, NEW s \in Seq(S), NEW I, 1..Len(s) \subseteq I
  PROVE  Kept(s, I) = s
  <1>9. Len(s) \in Nat
    OBVIOUS
  <1>0. PICK a : KeptRun(a, s, I)
    BY <1>9, KeptRuns, Zenon
  <1>1. /\ Kept(s, I) = a[Len(s)]
        /\ a[0] = <<>>
        /\ \A k \in 1..Len(s) : a[k] = IF k \in I THEN Append(a[k - 1], s[k]) ELSE a[k - 1]
    BY <1>0 DEF KeptRun
  <1> DEFINE P(m) == a[m] \in Seq(S) /\ Len(a[m]) = m /\ \A i \in 1..m : a[m][i] = s[i]
             T == {m \in Nat : m <= Len(s) => P(m)}
  <1>2. 0 \in T
    <2>1. P(0)
      BY <1>1, EmptySeq
    <2> QED
      BY <2>1
  <1>3. ASSUME NEW m \in Nat, m \in T PROVE m + 1 \in T
    <2>1. SUFFICES ASSUME m + 1 <= Len(s) PROVE P(m + 1)
      <3> HIDE DEF P
      <3> QED
        OBVIOUS
    <2>2. m + 1 \in 1..Len(s) /\ (m + 1) - 1 = m /\ P(m)
      <3> HIDE DEF P
      <3> QED
        BY <1>3, <1>9, <2>1
    <2>3. a[m + 1] = Append(a[m], s[m + 1])
      BY <1>1, <2>2
    <2>4. s[m + 1] \in S
      BY <2>2
    <2> QED
      BY <2>2, <2>3, <2>4
  <1> HIDE DEF T
  <1>4. Nat \subseteq T
    BY <1>2, <1>3, UpTo
  <1>5. P(Len(s))
    <2> HIDE DEF P
    <2> QED
      BY <1>4, <1>9 DEF T
  <1> QED
    BY <1>1, <1>5, SeqEqual

\* find() has the first entry of the name.
LEMMA FirstFound ==
  ASSUME NEW S, NEW e \in Seq(S), NEW n, Named(e, n)
  PROVE  \E j \in 1..Len(e) : /\ e[j].name = n
                              /\ \A i \in 1..(j - 1) : e[i].name # n
                              /\ First(e, n) = e[j].rdata
  <1> DEFINE T == {k \in 1..Len(e) : e[k].name = n}
             P(k) == e[k].name = n /\ \A i \in 1..(k - 1) : e[i].name # n
  <1>1. T \in SUBSET Nat /\ T # {}
    BY DEF Named
  <1>2. PICK m \in T : \A k \in T : m <= k
    BY <1>1, Least
  <1>3. m \in DOMAIN e /\ P(m)
    BY <1>2
  <1> DEFINE j == CHOOSE k \in DOMAIN e : P(k)
  <1>4. j \in DOMAIN e /\ P(j)
    <2> HIDE DEF P
    <2> QED
      BY <1>3
  <1>5. First(e, n) = e[j].rdata
    BY DEF First
  <1> HIDE DEF j
  <1> QED
    BY <1>4, <1>5

Server(d) == [host |-> Endpoint(d), port |-> d.port]

\* The list of servers has the configured ones, and of those found each one that
\* has no equal in it.
LEMMA EndpointsOf ==
  ASSUME NEW D, NEW found \in Seq(D)
  PROVE  /\ Len(Endpoints(found)) \in Nat
         /\ DOMAIN Endpoints(found) = 1..Len(Endpoints(found))
         /\ \A j \in (Len(Configured) + 1)..Len(Endpoints(found)) :
              \E i \in 1..Len(found) : Endpoints(found)[j] = Server(found[i])
         /\ \A i \in 1..Len(found) : \E j \in DOMAIN Endpoints(found) :
              Lower[Endpoints(found)[j].host] = Lower[Endpoint(found[i])]
  <1>0. PICK a : EndpointsRun(a, found)
    BY EndpointsRuns
  <1>1. /\ Endpoints(found) = a[Len(found)]
        /\ a[0] = Configured
        /\ \A k \in 1..Len(found) : a[k] = Add(a[k - 1], found[k])
    BY <1>0 DEF EndpointsRun
  <1> DEFINE W == [host : DOMAIN Lower, port : Nat] \cup {Server(found[i]) : i \in 1..Len(found)}
             P(m) == /\ a[m] \in Seq(W)
                     /\ \A j \in (Len(Configured) + 1)..Len(a[m]) :
                          \E i \in 1..Len(found) : a[m][j] = Server(found[i])
                     /\ \A i \in 1..m : \E j \in 1..Len(a[m]) :
                          Lower[a[m][j].host] = Lower[Endpoint(found[i])]
             T == {m \in Nat : m <= Len(found) => P(m)}
  <1>2. 0 \in T
    <2>1. Configured \in Seq(W)
      BY ConfiguredAssumption, SeqWiden
    <2> HIDE DEF W
    <2>2. P(0)
      BY <1>1, <2>1
    <2> QED
      BY <2>2
  <1>3. ASSUME NEW m \in Nat, m \in T PROVE m + 1 \in T
    <2>1. SUFFICES ASSUME m + 1 <= Len(found) PROVE P(m + 1)
      <3> HIDE DEF P, W
      <3> QED
        OBVIOUS
    <2>2. m + 1 \in 1..Len(found) /\ (m + 1) - 1 = m /\ P(m)
      <3> HIDE DEF P, W
      <3>1. Len(found) \in Nat
        OBVIOUS
      <3>2. m + 1 \in 1..Len(found) /\ (m + 1) - 1 = m /\ m <= Len(found)
        BY <2>1, <3>1
      <3> QED
        BY <1>3, <3>2
    <2>3. a[m + 1] = Add(a[m], found[m + 1])
      BY <1>1, <2>2
    <2>4. Server(found[m + 1]) \in W
      BY <2>2
    <2>5. DOMAIN a[m] = 1..Len(a[m]) /\ Len(Configured) \in Nat /\ Len(a[m]) \in Nat
      BY <2>2, ConfiguredAssumption
    <2> HIDE DEF W
    <2>6. CASE \E j \in DOMAIN a[m] : Lower[a[m][j].host] = Lower[Endpoint(found[m + 1])]
      <3>1. a[m + 1] = a[m]
        BY <2>3, <2>6 DEF Add
      <3>2. ASSUME NEW i \in 1..(m + 1)
            PROVE  \E j \in 1..Len(a[m]) : Lower[a[m][j].host] = Lower[Endpoint(found[i])]
        <4>1. CASE i = m + 1
          BY <2>5, <2>6, <4>1
        <4>2. CASE i # m + 1
          <5>1. i \in 1..m
            BY <4>2
          <5> QED
            BY <2>2, <5>1
        <4> QED
          BY <4>1, <4>2
      <3> QED
        BY <2>2, <3>1, <3>2
    <2>7. CASE ~ \E j \in DOMAIN a[m] : Lower[a[m][j].host] = Lower[Endpoint(found[m + 1])]
      <3> DEFINE x == Server(found[m + 1])
      <3>1. a[m + 1] = Append(a[m], x)
        BY <2>3, <2>7 DEF Add, Server
      <3>2. x.host = Endpoint(found[m + 1])
        BY DEF Server
      <3> HIDE DEF x
      <3>3. x \in W
        BY <2>4 DEF x
      <3>4. /\ Append(a[m], x) \in Seq(W) /\ Len(Append(a[m], x)) = Len(a[m]) + 1
            /\ Append(a[m], x)[Len(a[m]) + 1] = x
            /\ \A j \in 1..Len(a[m]) : Append(a[m], x)[j] = a[m][j]
        BY <2>2, <3>3
      <3>5. ASSUME NEW j \in (Len(Configured) + 1)..Len(a[m + 1])
            PROVE  \E i \in 1..Len(found) : a[m + 1][j] = Server(found[i])
        <4>1. CASE j = Len(a[m]) + 1
          BY <2>2, <3>1, <3>4, <4>1 DEF x
        <4>2. CASE j # Len(a[m]) + 1
          <5>1. j \in (Len(Configured) + 1)..Len(a[m]) /\ j \in 1..Len(a[m])
            BY <2>5, <3>1, <3>4, <4>2
          <5>2. a[m + 1][j] = a[m][j]
            BY <3>1, <3>4, <5>1
          <5> QED
            BY <2>2, <5>1, <5>2
        <4> QED
          BY <4>1, <4>2
      <3>6. ASSUME NEW i \in 1..(m + 1)
            PROVE  \E j \in 1..Len(a[m + 1]) : Lower[a[m + 1][j].host] = Lower[Endpoint(found[i])]
        <4>1. CASE i = m + 1
          <5>1. Len(a[m]) + 1 \in 1..Len(a[m + 1])
            BY <2>5, <3>1, <3>4
          <5>2. Lower[a[m + 1][Len(a[m]) + 1].host] = Lower[Endpoint(found[i])]
            BY <3>1, <3>2, <3>4, <4>1
          <5> QED
            BY <5>1, <5>2
        <4>2. CASE i # m + 1
          <5>1. i \in 1..m
            BY <4>2
          <5>2. PICK j \in 1..Len(a[m]) : Lower[a[m][j].host] = Lower[Endpoint(found[i])]
            BY <2>2, <5>1
          <5>3. j \in 1..Len(a[m + 1]) /\ a[m + 1][j] = a[m][j]
            BY <2>5, <3>1, <3>4, <5>2
          <5> QED
            BY <5>2, <5>3
        <4> QED
          BY <4>1, <4>2
      <3> QED
        BY <3>1, <3>4, <3>5, <3>6
    <2> QED
      BY <2>6, <2>7
  <1> HIDE DEF T
  <1>4. Nat \subseteq T
    BY <1>2, <1>3, UpTo
  <1>5. P(Len(found))
    <2> HIDE DEF P
    <2>1. Len(found) \in Nat
      OBVIOUS
    <2>2. Len(found) \in T
      BY <1>4, <2>1, Zenon
    <2> QED
      BY <2>1, <2>2 DEF T
  <1> HIDE DEF W
  <1> DEFINE e == a[Len(found)]
  <1>6. Endpoints(found) = e
    BY <1>1, Zenon
  <1>7. /\ e \in Seq(W)
        /\ \A j \in (Len(Configured) + 1)..Len(e) : \E i \in 1..Len(found) : e[j] = Server(found[i])
        /\ \A i \in 1..Len(found) : \E j \in 1..Len(e) : Lower[e[j].host] = Lower[Endpoint(found[i])]
    BY <1>5, Zenon
  <1> HIDE DEF e
  <1>8. Len(e) \in Nat /\ DOMAIN e = 1..Len(e)
    BY <1>7
  <1> QED
    BY <1>6, <1>7, <1>8, Zenon

-----------------------------------------------------------------------------
(* The invariant.                                                          *)

\* The records an offer is told in.
SrvOf(o) == [name |-> InstanceFqdn(o.instance), rdata |-> SrvRdata(o.port, HostFqdn(o.host))]
TxtOf(o) == [name |-> InstanceFqdn(o.instance), rdata |-> o.txt]
AddrsOf(o) == {[name |-> HostFqdn(o.host), rdata |-> a] : a \in o.addrs}

\* What was gathered was offered, and an SRV record and the TXT record that came
\* with it are at the same place of their lists.
Belongs(c, O) ==
  /\ c \in [instances : Seq({InstanceFqdn(o.instance) : o \in O}),
            srv : Seq({SrvOf(o) : o \in O}),
            txts : Seq({TxtOf(o) : o \in O}),
            addrs : Seq(UNION {AddrsOf(o) : o \in O})]
  /\ Len(c.srv) = Len(c.txts)
  /\ \A k \in 1..Len(c.srv) : \E o \in O : c.srv[k] = SrvOf(o) /\ c.txts[k] = TxtOf(o)

\* Each instance that was heard of is listed, once and under a name that an SRV
\* record has, letter by letter.
Complete(c, h) ==
  /\ \A k \in 1..Len(c.instances) : Named(c.srv, c.instances[k])
  /\ \A i, j \in 1..Len(c.instances) : SameName(c.instances[i], c.instances[j]) => i = j
  /\ \A n \in h : \E k \in 1..Len(c.instances) : SameName(c.instances[k], InstanceFqdn(n))

-----------------------------------------------------------------------------
(* The result of a browse.                                                 *)

LEMMA DiscoveredName == ASSUME NEW c, NEW i PROVE Discovered(c, i).instance = i[2]
  BY DEF Discovered

\* No instance is dropped, neither for want of an SRV record nor as a duplicate.
LEMMA FoundAll ==
  ASSUME NEW c, NEW O, NEW h, Belongs(c, O), Complete(c, h)
  PROVE  /\ Len(c.instances) \in Nat
         /\ Found(c) = [k \in 1..Len(c.instances) |-> Discovered(c, c.instances[k])]
  <1> DEFINE N == {InstanceFqdn(o.instance) : o \in O}
             s == c.instances
             I == {k \in DOMAIN s : Named(c.srv, s[k])}
             f == [k \in 1..Len(s) |-> Discovered(c, s[k])]
             J == {k \in DOMAIN f : k = 1 \/ f[k - 1].instance # f[k].instance}
             F == {Discovered(c, s[k]) : k \in 1..Len(s)}
  <1>1. s \in Seq(N)
    BY DEF Belongs
  <1>2. DOMAIN s = 1..Len(s) /\ Len(s) \in Nat
    <2> HIDE DEF N, s
    <2> QED
      BY <1>1
  <1>3. 1..Len(s) \subseteq I
    BY <1>2 DEF Complete
  <1>4. Kept(s, I) = s
    <2> HIDE DEF N, s, I
    <2> QED
      BY <1>1, <1>3, KeptAll
  <1>5. Found(c) = Dedup(f)
    <2>1. Found(c) = Dedup([k \in DOMAIN Kept(s, I) |-> Discovered(c, Kept(s, I)[k])])
      BY DEF Found
    <2> HIDE DEF s, I
    <2> QED
      BY <1>2, <1>4, <2>1
  <1>6. f \in Seq(F) /\ Len(f) = Len(s) /\ DOMAIN f = 1..Len(s)
    <2> HIDE DEF s
    <2> QED
      BY <1>2
  <1>7. ASSUME NEW k \in 1..Len(f), k # 1 PROVE f[k - 1].instance # f[k].instance
    <2>1. k \in 1..Len(s) /\ k - 1 \in 1..Len(s) /\ k - 1 # k
      BY <1>2, <1>6, <1>7
    <2>2. f[k] = Discovered(c, s[k]) /\ f[k - 1] = Discovered(c, s[k - 1])
      BY <2>1
    <2>3. f[k].instance = s[k][2] /\ f[k - 1].instance = s[k - 1][2]
      <3> HIDE DEF f, s
      <3> QED
        BY <2>2, DiscoveredName
    <2>4. s[k][1] = "instance" /\ s[k - 1][1] = "instance"
      <3>1. s[k] \in N /\ s[k - 1] \in N
        <4> HIDE DEF N, s
        <4> QED
          BY <1>1, <2>1
      <3> QED
        BY <3>1 DEF InstanceFqdn
    <2>5. s[k][2] # s[k - 1][2]
      BY <2>1, <2>4 DEF Complete, SameName
    <2> QED
      BY <2>3, <2>5
  <1>8. Dedup(f) = Kept(f, J)
    BY DEF Dedup
  <1> HIDE DEF f
  <1>9. 1..Len(f) \subseteq J
    BY <1>6, <1>7
  <1>10. Kept(f, J) = f
    <2> HIDE DEF J, F
    <2> QED
      BY <1>6, <1>9, KeptAll
  <1> QED
    BY <1>2, <1>5, <1>8, <1>10 DEF f

\* The parts of an entry come from one offer, its addresses from offers of its host.
LEMMA DiscoveredIsOffered ==
  ASSUME NEW c, NEW O, Belongs(c, O), NEW i, i[1] = "instance", Named(c.srv, i)
  PROVE  LET d == Discovered(c, i)
         IN  /\ d.instance = i[2]
             /\ \E o \in O : /\ o.instance = d.instance /\ o.host = d.host
                             /\ o.port = d.port /\ o.txt = d.txt
             /\ \A k \in DOMAIN d.addrs : \E o \in O :
                  Lower[o.host] = Lower[d.host] /\ d.addrs[k] \in o.addrs
  <1> DEFINE d == Discovered(c, i)
             X == {SrvOf(o) : o \in O}
             Y == {TxtOf(o) : o \in O}
             Z == UNION {AddrsOf(o) : o \in O}
  <1>1. c.srv \in Seq(X) /\ c.txts \in Seq(Y) /\ c.addrs \in Seq(Z)
    BY DEF Belongs
  <1>2. PICK j \in 1..Len(c.srv) : /\ c.srv[j].name = i
                                   /\ \A l \in 1..(j - 1) : c.srv[l].name # i
                                   /\ First(c.srv, i) = c.srv[j].rdata
    <2> HIDE DEF X
    <2> QED
      BY <1>1, FirstFound
  <1>3. /\ Len(c.txts) = Len(c.srv)
        /\ \A k \in 1..Len(c.srv) : c.txts[k].name = c.srv[k].name
    <2>1. ASSUME NEW k \in 1..Len(c.srv) PROVE c.txts[k].name = c.srv[k].name
      <3>1. PICK o \in O : c.srv[k] = SrvOf(o) /\ c.txts[k] = TxtOf(o)
        BY DEF Belongs
      <3>2. SrvOf(o).name = TxtOf(o).name
        BY DEF SrvOf, TxtOf
      <3> QED
        BY <3>1, <3>2
    <2>2. Len(c.txts) = Len(c.srv)
      BY DEF Belongs
    <2> QED
      BY <2>1, <2>2
  <1>4. DOMAIN c.srv = 1..Len(c.srv) /\ DOMAIN c.txts = 1..Len(c.txts) /\ Len(c.srv) \in Nat
    <2> HIDE DEF X, Y
    <2> QED
      BY <1>1
  <1>5. Named(c.txts, i)
    BY <1>2, <1>3, <1>4 DEF Named
  <1>6. PICK m \in 1..Len(c.txts) : /\ c.txts[m].name = i
                                    /\ \A l \in 1..(m - 1) : c.txts[l].name # i
                                    /\ First(c.txts, i) = c.txts[m].rdata
    <2> HIDE DEF Y
    <2> QED
      BY <1>1, <1>5, FirstFound
  <1>7. m = j
    <2>1. m \in 1..Len(c.srv) /\ c.srv[m].name = i
      BY <1>3, <1>6
    <2>2. ~(m < j)
      BY <1>2, <1>4, <2>1
    <2>3. c.txts[j].name = i
      BY <1>2, <1>3
    <2>4. ~(j < m)
      BY <1>2, <1>4, <1>6, <2>3
    <2> QED
      BY <1>4, <1>2, <2>1, <2>2, <2>4
  <1>8. PICK o \in O : c.srv[j] = SrvOf(o) /\ c.txts[j] = TxtOf(o)
    BY <1>2 DEF Belongs
  <1>9. First(c.srv, i) = SrvRdata(o.port, HostFqdn(o.host)) /\ First(c.txts, i) = o.txt
    BY <1>2, <1>6, <1>7, <1>8 DEF SrvOf, TxtOf
  <1>10. i = InstanceFqdn(o.instance)
    BY <1>2, <1>8 DEF SrvOf
  <1> DEFINE K == {k \in DOMAIN c.addrs : SameName(c.addrs[k].name, HostFqdn(o.host))}
             ips == Kept(c.addrs, K)
  <1>11. d = [instance |-> i[2], host |-> o.host, port |-> o.port,
              addrs |-> [k \in DOMAIN ips |-> ips[k].rdata], txt |-> o.txt]
    BY <1>5, <1>9 DEF Discovered, SrvRdata, HostFqdn
  <1>12. i[2] = o.instance
    BY <1>10 DEF InstanceFqdn
  <1> DEFINE A == {c.addrs[k] : k \in {l \in 1..Len(c.addrs) : l \in K}}
  <1>13. ips \in Seq(A)
    <2> HIDE DEF Z, K
    <2> QED
      BY <1>1, KeptMembers
  <1>14. ASSUME NEW k \in DOMAIN ips
         PROVE  \E p \in O : Lower[p.host] = Lower[o.host] /\ ips[k].rdata \in p.addrs
    <2>1. ips[k] \in A
      <3> HIDE DEF A, ips
      <3> QED
        BY <1>13
    <2>2. PICK l \in 1..Len(c.addrs) : l \in K /\ ips[k] = c.addrs[l]
      <3> HIDE DEF K, ips
      <3> QED
        BY <2>1
    <2>3. SameName(ips[k].name, HostFqdn(o.host))
      <3> HIDE DEF ips
      <3> QED
        BY <2>2
    <2>4. ips[k] \in Z
      <3> HIDE DEF ips, Z, K
      <3> QED
        BY <1>1, <2>2
    <2> HIDE DEF ips
    <2>5. PICK p \in O : ips[k] \in AddrsOf(p)
      BY <2>4
    <2>6. PICK a \in p.addrs : ips[k] = [name |-> HostFqdn(p.host), rdata |-> a]
      BY <2>5 DEF AddrsOf
    <2>7. ips[k].name = HostFqdn(p.host) /\ ips[k].rdata \in p.addrs
      BY <2>6
    <2>8. Lower[p.host] = Lower[o.host]
      BY <2>3, <2>7 DEF SameName, HostFqdn
    <2> QED
      BY <2>7, <2>8
  <1> HIDE DEF ips
  <1>15. /\ d.instance = i[2] /\ d.host = o.host /\ d.port = o.port /\ d.txt = o.txt
         /\ DOMAIN d.addrs = DOMAIN ips /\ \A k \in DOMAIN ips : d.addrs[k] = ips[k].rdata
    BY <1>11
  <1> HIDE DEF d
  <1>16. /\ d.instance = i[2]
         /\ \E q \in O : /\ q.instance = d.instance /\ q.host = d.host
                         /\ q.port = d.port /\ q.txt = d.txt
    BY <1>12, <1>15
  <1>17. \A k \in DOMAIN d.addrs : \E q \in O :
           Lower[q.host] = Lower[d.host] /\ d.addrs[k] \in q.addrs
    BY <1>14, <1>15
  <1> QED
    BY <1>16, <1>17 DEF d

\* The list of servers a browse ends with.
Tried(c, v) == v = Endpoints(Found(c))

\* What a browse has gathered is a result as FoundIsOffered and HeardIsFound say,
\* and so is the list of servers made of it.
LEMMA ResultIsOffered ==
  ASSUME NEW c, NEW O, NEW h, Belongs(c, O), Complete(c, h)
  PROVE  LET found == Found(c)
         IN  /\ \A k \in DOMAIN found :
                  /\ \E o \in O : /\ o.instance = found[k].instance /\ o.host = found[k].host
                                  /\ o.port = found[k].port /\ o.txt = found[k].txt
                  /\ \A i \in DOMAIN found[k].addrs : \E o \in O :
                       Lower[o.host] = Lower[found[k].host] /\ found[k].addrs[i] \in o.addrs
             /\ \A n \in h :
                  Cardinality({k \in DOMAIN found : Lower[found[k].instance] = Lower[n]}) = 1
  <1> DEFINE found == Found(c)
             s == c.instances
  <1>1. Len(s) \in Nat /\ found = [k \in 1..Len(s) |-> Discovered(c, s[k])]
    BY FoundAll
  <1> HIDE DEF found
  <1>2. DOMAIN found = 1..Len(s) /\ \A k \in 1..Len(s) : found[k] = Discovered(c, s[k])
    BY <1>1
  <1>3. ASSUME NEW k \in 1..Len(s) PROVE s[k][1] = "instance" /\ Named(c.srv, s[k])
    <2> DEFINE N == {InstanceFqdn(o.instance) : o \in O}
    <2>1. s \in Seq(N)
      BY DEF Belongs
    <2>2. s[k] \in N
      <3> HIDE DEF N, s
      <3> QED
        BY <2>1
    <2> QED
      BY <2>2 DEF Complete, InstanceFqdn
  <1>4. ASSUME NEW k \in DOMAIN found
        PROVE  /\ \E o \in O : /\ o.instance = found[k].instance /\ o.host = found[k].host
                               /\ o.port = found[k].port /\ o.txt = found[k].txt
               /\ \A i \in DOMAIN found[k].addrs : \E o \in O :
                    Lower[o.host] = Lower[found[k].host] /\ found[k].addrs[i] \in o.addrs
    <2>1. k \in 1..Len(s) /\ found[k] = Discovered(c, s[k])
      BY <1>2
    <2>2. s[k][1] = "instance" /\ Named(c.srv, s[k])
      BY <1>3, <2>1
    <2> HIDE DEF s
    <2> QED
      BY <2>1, <2>2, DiscoveredIsOffered
  <1>5. ASSUME NEW n \in h
        PROVE  Cardinality({k \in DOMAIN found : Lower[found[k].instance] = Lower[n]}) = 1
    <2>1. PICK m \in 1..Len(s) : SameName(s[m], InstanceFqdn(n))
      BY DEF Complete
    <2>2. ASSUME NEW k \in 1..Len(s)
          PROVE  Lower[found[k].instance] = Lower[n] <=> k = m
      <3>1. found[k].instance = s[k][2]
        <4> HIDE DEF s
        <4> QED
          BY <1>2, DiscoveredName
      <3>2. s[k][1] = "instance" /\ s[m][1] = "instance" /\ Lower[s[m][2]] = Lower[n]
        BY <1>3, <2>1 DEF SameName, InstanceFqdn
      <3>3. SameName(s[k], s[m]) => k = m
        BY DEF Complete
      <3> QED
        BY <3>1, <3>2, <3>3 DEF SameName
    <2>3. {k \in DOMAIN found : Lower[found[k].instance] = Lower[n]} = {m}
      BY <1>2, <2>2
    <2> QED
      BY <2>3, FS_Singleton
  <1> QED
    BY <1>4, <1>5 DEF found

LEMMA ServersAreFound ==
  ASSUME NEW c, NEW O, NEW h, NEW v, Belongs(c, O), Complete(c, h), Tried(c, v)
  PROVE  LET found == Found(c)
         IN  /\ \A k \in (Len(Configured) + 1)..Len(v) :
                  \E d \in Range(found) : v[k] = [host |-> Endpoint(d), port |-> d.port]
             /\ \A k \in DOMAIN found : \E j \in DOMAIN v :
                  Lower[v[j].host] = Lower[Endpoint(found[k])]
  <1> DEFINE found == Found(c)
             s == c.instances
             D == {Discovered(c, s[k]) : k \in 1..Len(s)}
  <1>1. Len(s) \in Nat /\ found = [k \in 1..Len(s) |-> Discovered(c, s[k])]
    BY FoundAll
  <1> HIDE DEF found
  <1>2. found \in Seq(D)
    <2> HIDE DEF s
    <2> QED
      BY <1>1
  <1>3. DOMAIN found = 1..Len(found)
    <2> HIDE DEF D
    <2> QED
      BY <1>2
  <1>4. v = Endpoints(found)
    BY DEF Tried, found
  <1>5. /\ \A j \in (Len(Configured) + 1)..Len(v) :
             \E i \in 1..Len(found) : v[j] = Server(found[i])
        /\ \A i \in 1..Len(found) : \E j \in DOMAIN v :
             Lower[v[j].host] = Lower[Endpoint(found[i])]
    <2> HIDE DEF D
    <2> QED
      BY <1>2, <1>4, EndpointsOf
  <1>6. \A i \in 1..Len(found) : found[i] \in Range(found)
    BY <1>3 DEF Range
  <1> QED
    BY <1>3, <1>5, <1>6 DEF Server, found

-----------------------------------------------------------------------------
(* An answer is received, whole or cut off behind its third record.        *)

\* Answer, record by record.
LEMMA AnswerRecords ==
  ASSUME NEW r \in Responders, NEW p
  PROVE  LET A == Answer(r, p, TRUE, TTL_HOST, TTL_PTR)
             o == Offer(r, p)
             n == Len(Advert[r].addrs)
         IN  /\ n \in Nat /\ Len(A) = 3 + n /\ DOMAIN A = 1..(3 + n)
             /\ A[1] = Rec(SERVICE, "PTR", TTL_PTR, InstanceFqdn(o.instance))
             /\ A[2] = Rec(InstanceFqdn(o.instance), "SRV", TTL_HOST,
                           SrvRdata(o.port, HostFqdn(o.host)))
             /\ A[3] = Rec(InstanceFqdn(o.instance), "TXT", TTL_HOST, o.txt)
             /\ \A k \in 4..(3 + n) : \E x \in o.addrs :
                  A[k] = Rec(HostFqdn(o.host), "A", TTL_HOST, x)
  <1> DEFINE a == Advert[r].addrs
             n == Len(a)
             o == Offer(r, p)
             i == InstanceFqdn(o.instance)
             h == HostFqdn(o.host)
             x1 == Rec(SERVICE, "PTR", TTL_PTR, i)
             x2 == Rec(i, "SRV", TTL_HOST, SrvRdata(o.port, h))
             x3 == Rec(i, "TXT", TTL_HOST, o.txt)
             rest == [k \in DOMAIN a |-> Rec(h, "A", TTL_HOST, a[k])]
             A == Answer(r, p, TRUE, TTL_HOST, TTL_PTR)
  <1>1. /\ o.instance = OnWire(Advert[r].instance) /\ o.host = OnWire(Advert[r].host)
        /\ o.port = p /\ o.txt = Advert[r].txt /\ o.addrs = Range(a)
    BY DEF Offer
  <1>2. A = <<x1>> \o <<x2, x3>> \o rest
    <2> HIDE DEF o
    <2> QED
      BY <1>1 DEF Answer
  <1>3. a \in Seq(DOMAIN Lower)
    BY AdvertAssumption
  <1>4. n \in Nat /\ DOMAIN a = 1..n
    <2> HIDE DEF a
    <2> QED
      BY <1>3
  <1> DEFINE U == {x1, x2, x3} \cup {Rec(h, "A", TTL_HOST, a[k]) : k \in 1..n}
  <1>5. rest \in Seq(U) /\ Len(rest) = n /\ \A k \in 1..n : rest[k] = Rec(h, "A", TTL_HOST, a[k])
    <2> HIDE DEF a, h
    <2> QED
      BY <1>4
  <1>6. x1 \in U /\ x2 \in U /\ x3 \in U
    OBVIOUS
  <1> HIDE DEF x1, x2, x3, rest, U, A
  <1>7. /\ <<x1>> \o <<x2, x3>> \o rest \in Seq(U)
        /\ Len(<<x1>> \o <<x2, x3>> \o rest) = 3 + n
        /\ (<<x1>> \o <<x2, x3>> \o rest)[1] = x1
        /\ (<<x1>> \o <<x2, x3>> \o rest)[2] = x2
        /\ (<<x1>> \o <<x2, x3>> \o rest)[3] = x3
        /\ \A k \in 1..n : (<<x1>> \o <<x2, x3>> \o rest)[3 + k] = rest[k]
    <2> HIDE DEF n
    <2> QED
      BY <1>4, <1>5, <1>6
  <1>8. A \in Seq(U) /\ Len(A) = 3 + n /\ A[1] = x1 /\ A[2] = x2 /\ A[3] = x3
    BY <1>2, <1>7
  <1>9. DOMAIN A = 1..(3 + n)
    BY <1>8, <1>4
  <1>10. ASSUME NEW k \in 4..(3 + n)
         PROVE  \E x \in o.addrs : A[k] = Rec(h, "A", TTL_HOST, x)
    <2>1. k - 3 \in 1..n /\ 3 + (k - 3) = k
      BY <1>4
    <2>2. A[k] = Rec(h, "A", TTL_HOST, a[k - 3])
      BY <1>2, <1>5, <1>7, <2>1
    <2>3. a[k - 3] \in Range(a)
      BY <1>4, <2>1 DEF Range
    <2> QED
      BY <1>1, <2>2, <2>3
  <1> QED
    BY <1>4, <1>8, <1>9, <1>10 DEF x1, x2, x3, A

Tells(d, r, p) == d.records = Answer(r, p, TRUE, TTL_HOST, TTL_PTR)

\* Three records at least come through.
LEMMA ReadableOf ==
  ASSUME NEW r \in Responders, NEW p, NEW d, Tells(d, r, p)
  PROVE  /\ Len(Readable(d)) \in 3..(3 + Len(Advert[r].addrs))
         /\ DOMAIN Readable(d) = 1..Len(Readable(d))
         /\ \A k \in 1..Len(Readable(d)) : Readable(d)[k] = d.records[k]
  <1> DEFINE A == Answer(r, p, TRUE, TTL_HOST, TTL_PTR)
             n == Len(Advert[r].addrs)
             m == IF Len(A) < MaxRecords THEN Len(A) ELSE MaxRecords
             S == {A[k] : k \in 1..m}
  <1>1. n \in Nat /\ Len(A) = 3 + n /\ DOMAIN A = 1..(3 + n)
    BY AnswerRecords
  <1>2. MaxRecords \in Nat /\ MaxRecords >= 3
    BY BoundsAssumption, RecordsAssumption
  <1>3. Readable(d) = SubSeq(A, 1, m) /\ d.records = A
    BY DEF Readable, Tells
  <1> HIDE DEF A
  <1>4. m \in 3..(3 + n)
    BY <1>1, <1>2
  <1> HIDE DEF m
  <1>5. \A k \in 1..m : A[k] \in S
    OBVIOUS
  <1> HIDE DEF S, n
  <1>6. /\ SubSeq(A, 1, m) \in Seq(S)
        /\ Len(SubSeq(A, 1, m)) = IF 1 <= m THEN m - 1 + 1 ELSE 0
        /\ \A k \in 1..(m - 1 + 1) : SubSeq(A, 1, m)[k] = A[1 + k - 1]
    BY <1>1, <1>4, <1>5, SubSeqProperties
  <1>7. Len(Readable(d)) = m /\ \A k \in 1..m : Readable(d)[k] = A[k]
    BY <1>1, <1>3, <1>4, <1>6
  <1>8. DOMAIN Readable(d) = 1..Len(Readable(d))
    BY <1>3, <1>6
  <1> QED
    BY <1>3, <1>4, <1>7, <1>8 DEF n

\* What collect adds, by the type of the record.
WithInstance(c, i) ==
  IF \E k \in DOMAIN c.instances : SameName(c.instances[k], i)
  THEN c ELSE [c EXCEPT !.instances = Append(@, i)]
WithSrv(c, e) == [c EXCEPT !.srv = Append(@, e)]
WithTxt(c, e) == [c EXCEPT !.txts = Append(@, e)]
WithAddr(c, e) == [c EXCEPT !.addrs = Append(@, e)]

LEMMA CollectByType ==
  ASSUME NEW c, NEW name, NEW ttl, NEW rdata
  PROVE  /\ Collect(c, Rec(SERVICE, "PTR", ttl, rdata)) = WithInstance(c, rdata)
         /\ Collect(c, Rec(name, "SRV", ttl, rdata)) = WithSrv(c, [name |-> name, rdata |-> rdata])
         /\ Collect(c, Rec(name, "TXT", ttl, rdata)) = WithTxt(c, [name |-> name, rdata |-> rdata])
         /\ Collect(c, Rec(name, "A", ttl, rdata)) = WithAddr(c, [name |-> name, rdata |-> rdata])
  BY DEF Collect, Rec, WithInstance, WithSrv, WithTxt, WithAddr

Lists(N, X, Y, Z) == [instances : Seq(N), srv : Seq(X), txts : Seq(Y), addrs : Seq(Z)]

\* A record of four fields, one of which is replaced.
LEMMA FourFields ==
  ASSUME NEW A, NEW B, NEW C, NEW D, NEW c \in [instances : A, srv : B, txts : C, addrs : D],
         NEW v
  PROVE  LET x1 == [c EXCEPT !.instances = v]
             x2 == [c EXCEPT !.srv = v]
             x3 == [c EXCEPT !.txts = v]
             x4 == [c EXCEPT !.addrs = v]
         IN  /\ c.instances \in A /\ c.srv \in B /\ c.txts \in C /\ c.addrs \in D
             /\ v \in A => /\ x1 \in [instances : A, srv : B, txts : C, addrs : D]
                           /\ x1.instances = v /\ x1.srv = c.srv /\ x1.txts = c.txts
             /\ v \in B => /\ x2 \in [instances : A, srv : B, txts : C, addrs : D]
                           /\ x2.instances = c.instances /\ x2.srv = v /\ x2.txts = c.txts
             /\ v \in C => /\ x3 \in [instances : A, srv : B, txts : C, addrs : D]
                           /\ x3.instances = c.instances /\ x3.srv = c.srv /\ x3.txts = v
             /\ v \in D => /\ x4 \in [instances : A, srv : B, txts : C, addrs : D]
                           /\ x4.instances = c.instances /\ x4.srv = c.srv /\ x4.txts = c.txts
  OBVIOUS

LEMMA WithTypes ==
  ASSUME NEW N, NEW X, NEW Y, NEW Z, NEW c \in Lists(N, X, Y, Z)
  PROVE  /\ \A i \in N : /\ WithInstance(c, i) \in Lists(N, X, Y, Z)
                         /\ WithInstance(c, i).srv = c.srv /\ WithInstance(c, i).txts = c.txts
                         /\ WithInstance(c, i).instances =
                              IF \E k \in DOMAIN c.instances : SameName(c.instances[k], i)
                              THEN c.instances ELSE Append(c.instances, i)
         /\ \A e \in X : /\ WithSrv(c, e) \in Lists(N, X, Y, Z)
                         /\ WithSrv(c, e).instances = c.instances /\ WithSrv(c, e).txts = c.txts
                         /\ WithSrv(c, e).srv = Append(c.srv, e)
         /\ \A e \in Y : /\ WithTxt(c, e) \in Lists(N, X, Y, Z)
                         /\ WithTxt(c, e).instances = c.instances /\ WithTxt(c, e).srv = c.srv
                         /\ WithTxt(c, e).txts = Append(c.txts, e)
         /\ \A e \in Z : /\ WithAddr(c, e) \in Lists(N, X, Y, Z)
                         /\ WithAddr(c, e).instances = c.instances
                         /\ WithAddr(c, e).srv = c.srv /\ WithAddr(c, e).txts = c.txts
  <1>0. c.instances \in Seq(N) /\ c.srv \in Seq(X) /\ c.txts \in Seq(Y) /\ c.addrs \in Seq(Z)
    BY DEF Lists
  <1>1. ASSUME NEW e \in X
        PROVE  /\ WithSrv(c, e) \in Lists(N, X, Y, Z)
               /\ WithSrv(c, e).instances = c.instances /\ WithSrv(c, e).txts = c.txts
               /\ WithSrv(c, e).srv = Append(c.srv, e)
    <2> DEFINE v == Append(c.srv, e)
               w == [c EXCEPT !.srv = v]
    <2>1. v \in Seq(X)
      BY <1>0
    <2>2. WithSrv(c, e) = w
      BY DEF WithSrv
    <2> HIDE DEF v
    <2>3. c \in [instances : Seq(N), srv : Seq(X), txts : Seq(Y), addrs : Seq(Z)]
      BY DEF Lists
    <2>4. w \in Lists(N, X, Y, Z) /\ w.instances = c.instances /\ w.srv = v /\ w.txts = c.txts
      BY <2>1, <2>3, FourFields DEF Lists
    <2> HIDE DEF w
    <2> QED
      BY <2>2, <2>4 DEF v
  <1>2. ASSUME NEW e \in Y
        PROVE  /\ WithTxt(c, e) \in Lists(N, X, Y, Z)
               /\ WithTxt(c, e).instances = c.instances /\ WithTxt(c, e).srv = c.srv
               /\ WithTxt(c, e).txts = Append(c.txts, e)
    <2> DEFINE v == Append(c.txts, e)
               w == [c EXCEPT !.txts = v]
    <2>1. v \in Seq(Y)
      BY <1>0
    <2>2. WithTxt(c, e) = w
      BY DEF WithTxt
    <2> HIDE DEF v
    <2>3. c \in [instances : Seq(N), srv : Seq(X), txts : Seq(Y), addrs : Seq(Z)]
      BY DEF Lists
    <2>4. w \in Lists(N, X, Y, Z) /\ w.instances = c.instances /\ w.srv = c.srv /\ w.txts = v
      BY <2>1, <2>3, FourFields DEF Lists
    <2> HIDE DEF w
    <2> QED
      BY <2>2, <2>4 DEF v
  <1>3. ASSUME NEW e \in Z
        PROVE  /\ WithAddr(c, e) \in Lists(N, X, Y, Z)
               /\ WithAddr(c, e).instances = c.instances
               /\ WithAddr(c, e).srv = c.srv /\ WithAddr(c, e).txts = c.txts
    <2> DEFINE v == Append(c.addrs, e)
               w == [c EXCEPT !.addrs = v]
    <2>1. v \in Seq(Z)
      BY <1>0
    <2>2. WithAddr(c, e) = w
      BY DEF WithAddr
    <2> HIDE DEF v
    <2>3. c \in [instances : Seq(N), srv : Seq(X), txts : Seq(Y), addrs : Seq(Z)]
      BY DEF Lists
    <2>4. w \in Lists(N, X, Y, Z) /\ w.instances = c.instances /\ w.srv = c.srv /\ w.txts = c.txts
      BY <2>1, <2>3, FourFields DEF Lists
    <2> HIDE DEF w
    <2> QED
      BY <2>2, <2>4 DEF v
  <1>4. ASSUME NEW i \in N
        PROVE  /\ WithInstance(c, i) \in Lists(N, X, Y, Z)
               /\ WithInstance(c, i).srv = c.srv /\ WithInstance(c, i).txts = c.txts
               /\ WithInstance(c, i).instances =
                    IF \E k \in DOMAIN c.instances : SameName(c.instances[k], i)
                    THEN c.instances ELSE Append(c.instances, i)
    <2> DEFINE known == \E k \in DOMAIN c.instances : SameName(c.instances[k], i)
               w == [c EXCEPT !.instances = Append(@, i)]
    <2>1. WithInstance(c, i) = IF known THEN c ELSE w
      BY DEF WithInstance
    <2>2. w \in Lists(N, X, Y, Z) /\ w.srv = c.srv /\ w.txts = c.txts
          /\ w.instances = Append(c.instances, i)
      <3> DEFINE v == Append(c.instances, i)
      <3>1. v \in Seq(N)
        BY <1>0
      <3>2. w = [c EXCEPT !.instances = v]
        OBVIOUS
      <3> HIDE DEF v
      <3>3. c \in [instances : Seq(N), srv : Seq(X), txts : Seq(Y), addrs : Seq(Z)]
        BY DEF Lists
      <3> QED
        BY <3>1, <3>2, <3>3, FourFields DEF Lists, v
    <2> HIDE DEF known, w
    <2>3. /\ WithInstance(c, i) \in Lists(N, X, Y, Z)
          /\ WithInstance(c, i).srv = c.srv /\ WithInstance(c, i).txts = c.txts
          /\ WithInstance(c, i).instances = IF known THEN c.instances ELSE Append(c.instances, i)
      <3>1. CASE known
        BY <2>1, <3>1
      <3>2. CASE ~known
        BY <2>1, <2>2, <3>2
      <3> QED
        BY <3>1, <3>2
    <2> QED
      BY <2>3 DEF known
  <1> QED
    BY <1>1, <1>2, <1>3, <1>4

\* `x` is what is gathered when an answer that tells of `o` comes to what is in `c`.
Parts(x, c, O, o) ==
  /\ x \in Lists({InstanceFqdn(q.instance) : q \in O}, {SrvOf(q) : q \in O},
                 {TxtOf(q) : q \in O}, UNION {AddrsOf(q) : q \in O})
  /\ x.instances =
       IF \E k \in DOMAIN c.instances : SameName(c.instances[k], InstanceFqdn(o.instance))
       THEN c.instances ELSE Append(c.instances, InstanceFqdn(o.instance))
  /\ x.srv = Append(c.srv, SrvOf(o))
  /\ x.txts = Append(c.txts, TxtOf(o))

\* The addresses behind the third record change no other list.
LEMMA CollectedParts ==
  ASSUME NEW c, NEW O, Belongs(c, O), NEW r \in Responders, NEW p, Offer(r, p) \in O,
         NEW d, Tells(d, r, p)
  PROVE  Parts(Collected(c, Readable(d)), c, O, Offer(r, p))
  <1> DEFINE o == Offer(r, p)
             i == InstanceFqdn(o.instance)
             R == Readable(d)
             N == {InstanceFqdn(q.instance) : q \in O}
             X == {SrvOf(q) : q \in O}
             Y == {TxtOf(q) : q \in O}
             Z == UNION {AddrsOf(q) : q \in O}
             B == Lists(N, X, Y, Z)
             known == \E k \in DOMAIN c.instances : SameName(c.instances[k], i)
             ins == IF known THEN c.instances ELSE Append(c.instances, i)
  <1>1. c \in B
    BY DEF Belongs, Lists
  <1>2. i \in N /\ SrvOf(o) \in X /\ TxtOf(o) \in Y /\ \A e \in AddrsOf(o) : e \in Z
    OBVIOUS
  <1>3. /\ Len(R) \in Nat /\ Len(R) >= 3
        /\ R[1] = Rec(SERVICE, "PTR", TTL_PTR, i)
        /\ R[2] = Rec(i, "SRV", TTL_HOST, SrvRdata(o.port, HostFqdn(o.host)))
        /\ R[3] = Rec(i, "TXT", TTL_HOST, o.txt)
        /\ \A k \in 4..Len(R) : \E x \in o.addrs : R[k] = Rec(HostFqdn(o.host), "A", TTL_HOST, x)
    <2> DEFINE A == Answer(r, p, TRUE, TTL_HOST, TTL_PTR)
               n == Len(Advert[r].addrs)
    <2>1. /\ n \in Nat
          /\ A[1] = Rec(SERVICE, "PTR", TTL_PTR, i)
          /\ A[2] = Rec(i, "SRV", TTL_HOST, SrvRdata(o.port, HostFqdn(o.host)))
          /\ A[3] = Rec(i, "TXT", TTL_HOST, o.txt)
          /\ \A k \in 4..(3 + n) : \E x \in o.addrs : A[k] = Rec(HostFqdn(o.host), "A", TTL_HOST, x)
      BY AnswerRecords
    <2>7. Len(R) \in 3..(3 + n) /\ \A k \in 1..Len(R) : R[k] = d.records[k]
      <3> HIDE DEF R, n
      <3> QED
        BY ReadableOf DEF R, n
    <2>2. Len(R) \in 3..(3 + n) /\ \A k \in 1..Len(R) : R[k] = A[k]
      BY <2>7 DEF Tells
    <2> HIDE DEF A, n, o, i, R
    <2>3. Len(R) \in Nat /\ Len(R) >= 3
      BY <2>1, <2>2
    <2>4. \A k \in 4..Len(R) : k \in 4..(3 + n) /\ k \in 1..Len(R)
      BY <2>1, <2>2
    <2>5. 1 \in 1..Len(R) /\ 2 \in 1..Len(R) /\ 3 \in 1..Len(R)
      BY <2>3
    <2>6. ASSUME NEW k \in 4..Len(R)
          PROVE  \E x \in o.addrs : R[k] = Rec(HostFqdn(o.host), "A", TTL_HOST, x)
      BY <2>1, <2>2, <2>4
    <2> QED
      BY <2>1, <2>2, <2>3, <2>5, <2>6
  <1>4. PICK a : CollectedRun(a, c, R)
    <2> HIDE DEF R
    <2> QED
      BY <1>3, CollectedRuns, Zenon
  <1>5. /\ Collected(c, R) = a[Len(R)]
        /\ a[0] = c
        /\ \A k \in 1..Len(R) : a[k] = Collect(a[k - 1], R[k])
    BY <1>4 DEF CollectedRun
  <1> HIDE DEF R
  <1> DEFINE y == SrvRdata(o.port, HostFqdn(o.host))
  <1>6. a[1] = WithInstance(c, i)
    <2>1. a[1] = Collect(c, R[1])
      BY <1>3, <1>5
    <2>2. Collect(c, Rec(SERVICE, "PTR", TTL_PTR, i)) = WithInstance(c, i)
      BY CollectByType
    <2> QED
      BY <1>3, <2>1, <2>2
  <1>7. a[2] = WithSrv(a[1], SrvOf(o))
    <2>1. a[2] = Collect(a[1], R[2])
      BY <1>3, <1>5
    <2>2. SrvOf(o) = [name |-> i, rdata |-> y]
      BY DEF SrvOf
    <2> HIDE DEF i, o, y
    <2>3. Collect(a[1], Rec(i, "SRV", TTL_HOST, y)) = WithSrv(a[1], [name |-> i, rdata |-> y])
      BY CollectByType
    <2> QED
      BY <1>3, <2>1, <2>2, <2>3 DEF y
  <1>8. a[3] = WithTxt(a[2], TxtOf(o))
    <2>1. a[3] = Collect(a[2], R[3])
      BY <1>3, <1>5
    <2>2. TxtOf(o) = [name |-> i, rdata |-> o.txt]
      BY DEF TxtOf
    <2> HIDE DEF i, o
    <2>3. Collect(a[2], Rec(i, "TXT", TTL_HOST, o.txt)) = WithTxt(a[2], [name |-> i, rdata |-> o.txt])
      BY CollectByType
    <2> QED
      BY <1>3, <2>1, <2>2, <2>3
  <1>9. ASSUME NEW k \in 4..Len(R)
        PROVE  \E e \in AddrsOf(o) : a[k] = WithAddr(a[k - 1], e)
    <2>1. PICK x \in o.addrs : R[k] = Rec(HostFqdn(o.host), "A", TTL_HOST, x)
      BY <1>3
    <2>2. a[k] = Collect(a[k - 1], R[k])
      BY <1>3, <1>5
    <2> DEFINE e == [name |-> HostFqdn(o.host), rdata |-> x]
    <2>3. e \in AddrsOf(o)
      BY DEF AddrsOf
    <2>4. Collect(a[k - 1], Rec(HostFqdn(o.host), "A", TTL_HOST, x)) = WithAddr(a[k - 1], e)
      <3> HIDE DEF o
      <3> QED
        BY CollectByType
    <2> HIDE DEF e
    <2> QED
      BY <2>1, <2>2, <2>3, <2>4
  <1> HIDE DEF N, X, Y, Z, B, i, o, known, y
  <1>17. ASSUME NEW v \in B
         PROVE  /\ WithSrv(v, SrvOf(o)) \in B /\ WithSrv(v, SrvOf(o)).instances = v.instances
                /\ WithSrv(v, SrvOf(o)).txts = v.txts
                /\ WithSrv(v, SrvOf(o)).srv = Append(v.srv, SrvOf(o))
    <2>1. v \in Lists(N, X, Y, Z)
      BY DEF B
    <2>2. \A e \in X : /\ WithSrv(v, e) \in Lists(N, X, Y, Z)
                       /\ WithSrv(v, e).instances = v.instances /\ WithSrv(v, e).txts = v.txts
                       /\ WithSrv(v, e).srv = Append(v.srv, e)
      BY <2>1, WithTypes
    <2> QED
      BY <1>2, <2>2 DEF B
  <1>18. ASSUME NEW v \in B
         PROVE  /\ WithTxt(v, TxtOf(o)) \in B /\ WithTxt(v, TxtOf(o)).instances = v.instances
                /\ WithTxt(v, TxtOf(o)).srv = v.srv
                /\ WithTxt(v, TxtOf(o)).txts = Append(v.txts, TxtOf(o))
    <2>1. v \in Lists(N, X, Y, Z)
      BY DEF B
    <2>2. \A e \in Y : /\ WithTxt(v, e) \in Lists(N, X, Y, Z)
                       /\ WithTxt(v, e).instances = v.instances /\ WithTxt(v, e).srv = v.srv
                       /\ WithTxt(v, e).txts = Append(v.txts, e)
      BY <2>1, WithTypes
    <2> QED
      BY <1>2, <2>2 DEF B
  <1>19. ASSUME NEW v \in B, NEW e \in AddrsOf(o)
         PROVE  /\ WithAddr(v, e) \in B /\ WithAddr(v, e).instances = v.instances
                /\ WithAddr(v, e).srv = v.srv /\ WithAddr(v, e).txts = v.txts
    <2>1. v \in Lists(N, X, Y, Z)
      BY DEF B
    <2>2. \A f \in Z : /\ WithAddr(v, f) \in Lists(N, X, Y, Z)
                       /\ WithAddr(v, f).instances = v.instances
                       /\ WithAddr(v, f).srv = v.srv /\ WithAddr(v, f).txts = v.txts
      BY <2>1, WithTypes
    <2> QED
      BY <1>2, <2>2 DEF B
  <1>10. a[1] \in B /\ a[1].instances = ins /\ a[1].srv = c.srv /\ a[1].txts = c.txts
    BY <1>1, <1>2, <1>6, WithTypes DEF B, ins, known
  <1> HIDE DEF ins
  <1>11. a[2] \in B /\ a[2].instances = ins /\ a[2].srv = Append(c.srv, SrvOf(o)) /\ a[2].txts = c.txts
    BY <1>17, <1>7, <1>10
  <1>12. /\ a[3] \in B /\ a[3].instances = ins /\ a[3].srv = Append(c.srv, SrvOf(o))
         /\ a[3].txts = Append(c.txts, TxtOf(o))
    <2>1. /\ WithTxt(a[2], TxtOf(o)) \in B /\ WithTxt(a[2], TxtOf(o)).instances = a[2].instances
          /\ WithTxt(a[2], TxtOf(o)).srv = a[2].srv
          /\ WithTxt(a[2], TxtOf(o)).txts = Append(a[2].txts, TxtOf(o))
      BY <1>18, <1>11
    <2> QED
      BY <2>1, <1>8, <1>11, Zenon
  <1> DEFINE P(k) == /\ a[k] \in B /\ a[k].instances = ins
                     /\ a[k].srv = Append(c.srv, SrvOf(o)) /\ a[k].txts = Append(c.txts, TxtOf(o))
             T == {m \in Nat : m + 3 <= Len(R) => P(m + 3)}
  <1>13. 0 \in T
    BY <1>12
  <1>14. ASSUME NEW m \in Nat, m \in T PROVE m + 1 \in T
    <2>1. SUFFICES ASSUME (m + 1) + 3 <= Len(R) PROVE P((m + 1) + 3)
      <3> HIDE DEF P, R
      <3> QED
        OBVIOUS
    <2> DEFINE k == (m + 1) + 3
    <2>2. k \in 4..Len(R) /\ k - 1 = m + 3 /\ m + 3 <= Len(R)
      BY <1>3, <2>1
    <2>3. P(k - 1)
      <3> HIDE DEF P, k
      <3> QED
        BY <1>14, <2>2
    <2>4. PICK e \in AddrsOf(o) : a[k] = WithAddr(a[k - 1], e)
      BY <1>9, <2>2
    <2> HIDE DEF k
    <2>5. P(k)
      <3>1. /\ WithAddr(a[k - 1], e) \in B /\ WithAddr(a[k - 1], e).instances = a[k - 1].instances
            /\ WithAddr(a[k - 1], e).srv = a[k - 1].srv /\ WithAddr(a[k - 1], e).txts = a[k - 1].txts
        BY <1>19, <2>3
      <3> QED
        BY <2>3, <2>4, <3>1, Zenon
    <2> QED
      BY <2>5 DEF k
  <1> HIDE DEF T
  <1>15. Nat \subseteq T
    BY <1>13, <1>14, UpTo
  <1>16. P(Len(R))
    <2> HIDE DEF P
    <2>1. Len(R) - 3 \in Nat /\ (Len(R) - 3) + 3 = Len(R)
      BY <1>3
    <2> QED
      BY <1>15, <2>1 DEF T
  <1> QED
    BY <1>5, <1>16 DEF Parts, B, N, X, Y, Z, i, o, known, ins, R

\* An answer that is received keeps what was gathered together.
LEMMA CollectedBelongs ==
  ASSUME NEW c, NEW O, Belongs(c, O), NEW r \in Responders, NEW p, Offer(r, p) \in O,
         NEW d, Tells(d, r, p)
  PROVE  Belongs(Collected(c, Readable(d)), O)
  <1> DEFINE o == Offer(r, p)
             x == Collected(c, Readable(d))
             X == {SrvOf(q) : q \in O}
             Y == {TxtOf(q) : q \in O}
  <1>0. Parts(x, c, O, o)
    BY CollectedParts
  <1>1. x \in [instances : Seq({InstanceFqdn(q.instance) : q \in O}),
               srv : Seq({SrvOf(q) : q \in O}),
               txts : Seq({TxtOf(q) : q \in O}),
               addrs : Seq(UNION {AddrsOf(q) : q \in O})]
    BY <1>0 DEF Parts, Lists
  <1>2. x.srv = Append(c.srv, SrvOf(o)) /\ x.txts = Append(c.txts, TxtOf(o))
    BY <1>0 DEF Parts
  <1> HIDE DEF x
  <1>3. c.srv \in Seq(X) /\ c.txts \in Seq(Y) /\ Len(c.srv) = Len(c.txts)
    BY DEF Belongs
  <1>4. o \in O
    OBVIOUS
  <1> HIDE DEF X, Y, o
  <1>5. /\ Len(x.srv) = Len(c.srv) + 1 /\ Len(x.txts) = Len(c.srv) + 1 /\ Len(c.srv) \in Nat
        /\ x.srv[Len(c.srv) + 1] = SrvOf(o) /\ x.txts[Len(c.srv) + 1] = TxtOf(o)
        /\ \A k \in 1..Len(c.srv) : x.srv[k] = c.srv[k] /\ x.txts[k] = c.txts[k]
    BY <1>2, <1>3
  <1>6. ASSUME NEW k \in 1..Len(x.srv)
        PROVE  \E q \in O : x.srv[k] = SrvOf(q) /\ x.txts[k] = TxtOf(q)
    <2>1. CASE k = Len(c.srv) + 1
      BY <1>4, <1>5, <2>1
    <2>2. CASE k # Len(c.srv) + 1
      <3>1. k \in 1..Len(c.srv)
        BY <1>5, <2>2
      <3>2. PICK q \in O : c.srv[k] = SrvOf(q) /\ c.txts[k] = TxtOf(q)
        BY <3>1 DEF Belongs
      <3> QED
        BY <1>5, <3>1, <3>2
    <2> QED
      BY <2>1, <2>2
  <1>7. Belongs(x, O)
    BY <1>1, <1>5, <1>6 DEF Belongs
  <1> QED
    BY <1>7 DEF x

\* Its instance is listed afterwards, and no instance twice.
LEMMA CollectedComplete ==
  ASSUME NEW c, NEW O, NEW h, Belongs(c, O), Complete(c, h), NEW r \in Responders, NEW p,
         Offer(r, p) \in O, NEW d, Tells(d, r, p)
  PROVE  Complete(Collected(c, Readable(d)), h \cup {Offer(r, p).instance})
  <1> DEFINE o == Offer(r, p)
             i == InstanceFqdn(o.instance)
             x == Collected(c, Readable(d))
             s == c.instances
             N == {InstanceFqdn(q.instance) : q \in O}
             X == {SrvOf(q) : q \in O}
             known == \E k \in DOMAIN s : SameName(s[k], i)
  <1>1. Parts(x, c, O, o)
    BY CollectedParts
  <1>2. /\ x.instances = IF known THEN s ELSE Append(s, i)
        /\ x.srv = Append(c.srv, SrvOf(o))
    BY <1>1 DEF Parts
  <1>3. s \in Seq(N) /\ c.srv \in Seq(X) /\ i \in N /\ SrvOf(o) \in X
    BY DEF Belongs
  <1>4. SrvOf(o).name = i
    BY DEF SrvOf
  <1>5. SameName(i, i) /\ \A a, b : SameName(a, b) => SameName(b, a)
    BY DEF SameName
  <1>6. SameName(i, InstanceFqdn(o.instance))
    BY <1>5
  <1>7. /\ \A k \in 1..Len(s) : Named(c.srv, s[k])
        /\ \A k, l \in 1..Len(s) : SameName(s[k], s[l]) => k = l
        /\ \A n \in h : \E k \in 1..Len(s) : SameName(s[k], InstanceFqdn(n))
    BY DEF Complete
  <1> HIDE DEF x, N, X, o, s, known
  <1>8. Len(s) \in Nat /\ DOMAIN s = 1..Len(s)
    BY <1>3
  <1>9. Named(x.srv, i) /\ \A n : Named(c.srv, n) => Named(x.srv, n)
    <2>1. /\ Len(c.srv) \in Nat /\ DOMAIN c.srv = 1..Len(c.srv) /\ DOMAIN x.srv = 1..(Len(c.srv) + 1)
          /\ x.srv[Len(c.srv) + 1] = SrvOf(o) /\ \A k \in 1..Len(c.srv) : x.srv[k] = c.srv[k]
      BY <1>2, <1>3
    <2>2. Len(c.srv) + 1 \in DOMAIN x.srv /\ \A k \in DOMAIN c.srv : k \in DOMAIN x.srv
      BY <2>1
    <2>3. Named(x.srv, i)
      BY <1>4, <2>1, <2>2 DEF Named
    <2>4. ASSUME NEW n, Named(c.srv, n) PROVE Named(x.srv, n)
      <3>1. PICK k \in DOMAIN c.srv : c.srv[k].name = n
        BY <2>4 DEF Named
      <3> QED
        BY <2>1, <2>2, <3>1 DEF Named
    <2> QED
      BY <2>3, <2>4
  <1> DEFINE t == x.instances
             G == /\ \A k \in 1..Len(t) : Named(x.srv, t[k])
                  /\ \A k, l \in 1..Len(t) : SameName(t[k], t[l]) => k = l
                  /\ \A n \in h \cup {o.instance} : \E k \in 1..Len(t) : SameName(t[k], InstanceFqdn(n))
  <1>10. ASSUME known PROVE G
    <2>1. t = s
      BY <1>2, <1>10
    <2>2. \E k \in 1..Len(s) : SameName(s[k], i)
      BY <1>8, <1>10 DEF known
    <2> HIDE DEF t
    <2>3. ASSUME NEW n \in h \cup {o.instance}
          PROVE  \E k \in 1..Len(t) : SameName(t[k], InstanceFqdn(n))
      <3>1. CASE n \in h
        BY <1>7, <2>1, <3>1
      <3>2. CASE n = o.instance
        BY <2>1, <2>2, <3>2
      <3> QED
        BY <3>1, <3>2
    <2>4. (\A k \in 1..Len(t) : Named(x.srv, t[k]))
          /\ \A k, l \in 1..Len(t) : SameName(t[k], t[l]) => k = l
      BY <1>7, <1>9, <2>1
    <2> QED
      BY <2>3, <2>4
  <1>11. ASSUME ~known PROVE G
    <2>1. /\ Len(t) = Len(s) + 1 /\ t[Len(s) + 1] = i
          /\ \A k \in 1..Len(s) : t[k] = s[k]
      <3> HIDE DEF i
      <3>1. t = Append(s, i)
        BY <1>2, <1>11
      <3> QED
        BY <1>3, <3>1
    <2>2. \A k \in 1..Len(s) : ~SameName(s[k], i)
      BY <1>8, <1>11 DEF known
    <2> HIDE DEF t
    <2>3. \A k \in 1..Len(t) : k = Len(s) + 1 \/ k \in 1..Len(s)
      BY <1>8, <2>1
    <2>4. \A k \in 1..Len(s) : k \in 1..Len(t)
      BY <1>8, <2>1
    <2>5. Len(s) + 1 \in 1..Len(t)
      BY <1>8, <2>1
    <2> HIDE DEF i
    <2>6. ASSUME NEW k \in 1..Len(t) PROVE Named(x.srv, t[k])
      <3>1. CASE k = Len(s) + 1
        BY <1>9, <2>1, <3>1
      <3>2. CASE k \in 1..Len(s)
        BY <1>7, <1>9, <2>1, <3>2
      <3> QED
        BY <2>3, <3>1, <3>2
    <2>7. ASSUME NEW k \in 1..Len(t), NEW l \in 1..Len(t), SameName(t[k], t[l]) PROVE k = l
      <3>1. CASE k = Len(s) + 1 /\ l \in 1..Len(s)
        BY <1>5, <2>1, <2>2, <2>7, <3>1
      <3>2. CASE l = Len(s) + 1 /\ k \in 1..Len(s)
        BY <2>1, <2>2, <2>7, <3>2
      <3>3. CASE k \in 1..Len(s) /\ l \in 1..Len(s)
        BY <1>7, <2>1, <2>7, <3>3
      <3> QED
        BY <2>3, <3>1, <3>2, <3>3
    <2>8. ASSUME NEW n \in h \cup {o.instance}
          PROVE  \E k \in 1..Len(t) : SameName(t[k], InstanceFqdn(n))
      <3>1. CASE n \in h
        <4>1. PICK k \in 1..Len(s) : SameName(s[k], InstanceFqdn(n))
          BY <1>7, <3>1
        <4> QED
          BY <2>1, <2>4, <4>1
      <3>2. CASE n = o.instance
        BY <1>6, <2>1, <2>5, <3>2
      <3> QED
        BY <3>1, <3>2
    <2> QED
      BY <2>6, <2>7, <2>8
  <1>12. G
    BY <1>10, <1>11
  <1> QED
    BY <1>12 DEF Complete, x, o

\* What the history adds: the one instance the answer tells of.
LEMMA HeardOfOne ==
  ASSUME NEW r \in Responders, NEW p, NEW d, Tells(d, r, p)
  PROVE  {d.records[k].rdata[2] : k \in {i \in DOMAIN Readable(d) : d.records[i].rtype = "PTR"}}
           \subseteq {Offer(r, p).instance}
  <1> DEFINE A == Answer(r, p, TRUE, TTL_HOST, TTL_PTR)
             o == Offer(r, p)
             i == InstanceFqdn(o.instance)
             n == Len(Advert[r].addrs)
             y == SrvRdata(o.port, HostFqdn(o.host))
  <1>1. /\ n \in Nat
        /\ A[1] = Rec(SERVICE, "PTR", TTL_PTR, i)
        /\ A[2] = Rec(i, "SRV", TTL_HOST, y)
        /\ A[3] = Rec(i, "TXT", TTL_HOST, o.txt)
        /\ \A k \in 4..(3 + n) : \E x \in o.addrs : A[k] = Rec(HostFqdn(o.host), "A", TTL_HOST, x)
    BY AnswerRecords
  <1>2. Len(Readable(d)) \in 3..(3 + n) /\ DOMAIN Readable(d) = 1..Len(Readable(d))
    BY ReadableOf
  <1>3. d.records = A
    BY DEF Tells
  <1>4. i[2] = o.instance
    BY DEF InstanceFqdn
  <1> HIDE DEF A, o, i, n, y
  <1>5. ASSUME NEW k \in DOMAIN Readable(d), d.records[k].rtype = "PTR"
        PROVE  d.records[k].rdata[2] = o.instance
    <2>1. k = 1 \/ k = 2 \/ k = 3 \/ k \in 4..(3 + n)
      BY <1>1, <1>2
    <2>2. k # 2 /\ k # 3
      BY <1>1, <1>3, <1>5 DEF Rec
    <2>3. ~(k \in 4..(3 + n))
      <3>1. SUFFICES ASSUME k \in 4..(3 + n) PROVE FALSE
        OBVIOUS
      <3>2. PICK x \in o.addrs : A[k] = Rec(HostFqdn(o.host), "A", TTL_HOST, x)
        BY <1>1, <3>1
      <3>3. A[k].rtype = "A"
        BY <3>2 DEF Rec
      <3> QED
        BY <1>3, <1>5, <3>3
    <2>4. k = 1
      BY <2>1, <2>2, <2>3
    <2> QED
      BY <1>1, <1>3, <1>4, <2>4 DEF Rec
  <1> QED
    BY <1>5 DEF o

-----------------------------------------------------------------------------
(* The steps.                                                              *)

\* What an exporter has on offer counts as offered since the browse began.
OnOffer == \A r \in Responders : pc[r] = "poll" => port[r] \in Ports /\ Offer(r, port[r]) \in offered

\* An answer to this browse tells of something that was offered since it began;
\* the sockets of earlier browses are not read, and those of later ones are unknown.
Datagrams ==
  \A d \in net :
    /\ ~d.response => \/ d.from = STRANGER
                      \/ d.questions = BrowseQuestions /\ \E n \in 1..round : d.from = Socket(n)
    /\ \/ d.to \in {GROUP, STRANGER}
       \/ \E n \in 1..round :
            /\ d.to = Socket(n)
            /\ n = round => \E r \in Responders, p \in Ports :
                              Tells(d, r, p) /\ Offer(r, p) \in offered

\* When a browse is over, the list was made of what it gathered; before the first
\* one there is no list.
Listed ==
  ~browsing => \/ Tried(col, servers)
               \/ servers = <<>> /\ heard = {} /\ col = NothingYet

IInv ==
  /\ TypeOK /\ OnOffer /\ Datagrams
  /\ Belongs(col, offered) /\ Complete(col, heard) /\ Listed

\* Nothing gathered is nothing to be wrong about.
LEMMA NothingBelongs ==
  ASSUME NEW O
  PROVE  Belongs(NothingYet, O) /\ Complete(NothingYet, {})
  <1> DEFINE N == {InstanceFqdn(o.instance) : o \in O}
             X == {SrvOf(o) : o \in O}
             Y == {TxtOf(o) : o \in O}
             Z == UNION {AddrsOf(o) : o \in O}
  <1>1. <<>> \in Seq(N) /\ <<>> \in Seq(X) /\ <<>> \in Seq(Y) /\ <<>> \in Seq(Z)
    <2> HIDE DEF N, X, Y, Z
    <2> QED
      BY EmptySeq
  <1>2. NothingYet.instances = <<>> /\ NothingYet.srv = <<>> /\ NothingYet.txts = <<>>
    BY DEF NothingYet
  <1>3. NothingYet \in [instances : Seq(N), srv : Seq(X), txts : Seq(Y), addrs : Seq(Z)]
    <2> HIDE DEF N, X, Y, Z
    <2> QED
      BY <1>1 DEF NothingYet
  <1>4. Len(<<>>) = 0 /\ 1..0 = {}
    OBVIOUS
  <1>5. Belongs(NothingYet, O)
    BY <1>2, <1>3, <1>4 DEF Belongs
  <1>6. Complete(NothingYet, {})
    BY <1>2, <1>4 DEF Complete
  <1> QED
    BY <1>5, <1>6

\* More on offer takes nothing away.
LEMMA MoreOffered ==
  ASSUME NEW c, NEW O, NEW P, O \subseteq P, Belongs(c, O)
  PROVE  Belongs(c, P)
  <1> DEFINE N(Q) == {InstanceFqdn(o.instance) : o \in Q}
             X(Q) == {SrvOf(o) : o \in Q}
             Y(Q) == {TxtOf(o) : o \in Q}
             Z(Q) == UNION {AddrsOf(o) : o \in Q}
  <1>1. c \in [instances : Seq(N(O)), srv : Seq(X(O)), txts : Seq(Y(O)), addrs : Seq(Z(O))]
    BY DEF Belongs
  <1>2. N(O) \subseteq N(P) /\ X(O) \subseteq X(P) /\ Y(O) \subseteq Y(P) /\ Z(O) \subseteq Z(P)
    OBVIOUS
  <1> HIDE DEF N, X, Y, Z
  <1>3. /\ Seq(N(O)) \subseteq Seq(N(P)) /\ Seq(X(O)) \subseteq Seq(X(P))
        /\ Seq(Y(O)) \subseteq Seq(Y(P)) /\ Seq(Z(O)) \subseteq Seq(Z(P))
    BY <1>2, SeqWiden
  <1>4. c \in [instances : Seq(N(P)), srv : Seq(X(P)), txts : Seq(Y(P)), addrs : Seq(Z(P))]
    <2> DEFINE A == Seq(N(O))  B == Seq(X(O))  C == Seq(Y(O))  D == Seq(Z(O))
               E == Seq(N(P))  F == Seq(X(P))  G == Seq(Y(P))  H == Seq(Z(P))
    <2>1. c \in [instances : A, srv : B, txts : C, addrs : D]
      BY <1>1
    <2>2. A \subseteq E /\ B \subseteq F /\ C \subseteq G /\ D \subseteq H
      BY <1>3
    <2> HIDE DEF A, B, C, D, E, F, G, H
    <2>3. c \in [instances : E, srv : F, txts : G, addrs : H]
      BY <2>1, <2>2
    <2> QED
      BY <2>3 DEF E, F, G, H
  <1>5. /\ Len(c.srv) = Len(c.txts)
        /\ \A k \in 1..Len(c.srv) : \E o \in P : c.srv[k] = SrvOf(o) /\ c.txts[k] = TxtOf(o)
    BY DEF Belongs
  <1> QED
    BY <1>4, <1>5 DEF Belongs, N, X, Y, Z

\* Both parts are about the exporters, the datagrams and the round alone.
LEMMA SameNet ==
  ASSUME OnOffer, Datagrams, UNCHANGED <<port, net, round, offered>>,
         \A r \in Responders : pc'[r] = "poll" => pc[r] = "poll"
  PROVE  OnOffer' /\ Datagrams'
  <1>1. OnOffer'
    BY DEF OnOffer, Offer
  <1>2. Datagrams'
    BY DEF Datagrams, Tells, Answer, Offer
  <1> QED
    BY <1>1, <1>2

LEMMA InitIInv == Init => IInv
  <1> SUFFICES ASSUME Init PROVE IInv
    OBVIOUS
  <1>1. TypeOK
    <2>1. browsing \in BOOLEAN
      BY Zenon DEF Init
    <2> QED
      BY <2>1, BoundsAssumption DEF Init, TypeOK
  <1>2. OnOffer /\ Datagrams /\ Listed
    BY DEF Init, OnOffer, Datagrams, Listed
  <1>3. Belongs(col, offered) /\ Complete(col, heard)
    BY NothingBelongs DEF Init
  <1> QED
    BY <1>1, <1>2, <1>3 DEF IInv

LEMMA Sockets ==
  /\ \A m, n : Socket(m) = Socket(n) => m = n
  /\ \A n : Socket(n) # GROUP /\ Socket(n) # STRANGER
  BY DEF Socket, GROUP, STRANGER

\* An exporter starts: there is more on offer.
LEMMA StartIInv ==
  ASSUME IInv, NEW r \in Responders, Start(r)
  PROVE  IInv'
  <1> USE DEF IInv
  <1>1. offered \subseteq offered' /\ UNCHANGED <<net, browsing, round, reads, col, servers, heard>>
    BY DEF Start, browser
  <1>2. TypeOK'
    <2>1. starts' \in [Responders -> 0..MaxStarts]
      BY BoundsAssumption DEF TypeOK, Start
    <2>2. port' \in [Responders -> Ports \cup {0}] /\ pc' \in [Responders -> {"off", "poll"}]
      BY DEF TypeOK, Start
    <2>3. browsing' \in BOOLEAN /\ round' \in 0..MaxBrowses /\ reads' \in 0..MaxReads
      BY <1>1, Zenon DEF TypeOK
    <2> QED
      BY <2>1, <2>2, <2>3 DEF TypeOK
  <1>3. OnOffer'
    <2>1. ASSUME NEW q \in Responders, pc'[q] = "poll"
          PROVE  port'[q] \in Ports /\ Offer(q, port'[q]) \in offered'
      <3>1. CASE q = r
        BY <3>1 DEF Start, TypeOK
      <3>2. CASE q # r
        <4>1. pc'[q] = pc[q] /\ port'[q] = port[q]
          BY <3>2 DEF Start, TypeOK
        <4> QED
          BY <1>1, <2>1, <4>1 DEF OnOffer
      <3> QED
        BY <3>1, <3>2
    <2> QED
      BY <2>1 DEF OnOffer, Offer
  <1>4. Datagrams'
    BY <1>1 DEF Datagrams, Tells, Answer, Offer
  <1>5. Belongs(col, offered)'
    BY <1>1, MoreOffered
  <1>6. Complete(col, heard)' /\ Listed'
    BY <1>1 DEF Listed
  <1> QED
    BY <1>2, <1>3, <1>4, <1>5, <1>6

\* A datagram goes out that keeps Datagrams.
LEMMA SendIInv ==
  ASSUME IInv, NEW d, net' = net \cup {d}, UNCHANGED <<port, starts, browser, offered>>,
         pc' \in [Responders -> {"off", "poll"}],
         \A r \in Responders : pc'[r] = "poll" => pc[r] = "poll",
         ~d.response => d.from = STRANGER,
         \/ d.to \in {GROUP, STRANGER}
         \/ \E n \in 1..round :
              /\ d.to = Socket(n)
              /\ n = round => \E r \in Responders, p \in Ports :
                                Tells(d, r, p) /\ Offer(r, p) \in offered
  PROVE  IInv'
  <1> USE DEF IInv, browser
  <1>1. TypeOK'
    BY DEF TypeOK
  <1>2. OnOffer'
    BY DEF OnOffer, Offer
  <1>3. Datagrams'
    BY DEF Datagrams, Tells, Answer, Offer
  <1>4. Belongs(col, offered)' /\ Complete(col, heard)' /\ Listed'
    BY DEF Listed
  <1> QED
    BY <1>1, <1>2, <1>3, <1>4

\* An answer to a browse's query has the PTR record, and goes to the browse's socket.
LEMMA PollOnceIInv ==
  ASSUME IInv, NEW r \in Responders, PollOnce(r)
  PROVE  IInv'
  <1>1. PICK q \in net :
          /\ q.to = GROUP /\ ~q.response
          /\ LET w == Wants(r, q)
                 to == IF w.unicast THEN q.from ELSE GROUP
             IN  /\ w.ptr \/ w.service
                 /\ Send(Response(Answer(r, port[r], w.ptr, TTL_HOST, TTL_PTR), to))
    BY DEF PollOnce
  <1> DEFINE w == Wants(r, q)
             to == IF w.unicast THEN q.from ELSE GROUP
             d == Response(Answer(r, port[r], w.ptr, TTL_HOST, TTL_PTR), to)
  <1>2. net' = net \cup {d}
    BY <1>1 DEF Send
  <1>3. pc[r] = "poll" /\ UNCHANGED <<pc, port, starts, browser, offered>>
    BY DEF PollOnce, exporters
  <1>4. d.response = TRUE /\ d.to = to
    BY DEF Response
  <1>5. to = GROUP \/ to = q.from
    OBVIOUS
  <1>6. \/ q.from = STRANGER
        \/ q.questions = BrowseQuestions /\ \E n \in 1..round : q.from = Socket(n)
    BY <1>1 DEF IInv, Datagrams
  <1>7. ASSUME q.questions = BrowseQuestions PROVE Tells(d, r, port[r])
    <2>1. w.ptr
      BY <1>7 DEF Wants, BrowseQuestions
    <2>2. d.records = Answer(r, port[r], w.ptr, TTL_HOST, TTL_PTR)
      BY DEF Response
    <2> HIDE DEF w, d
    <2>3. Answer(r, port[r], w.ptr, TTL_HOST, TTL_PTR) = Answer(r, port[r], TRUE, TTL_HOST, TTL_PTR)
      BY <2>1 DEF Answer
    <2> QED
      BY <2>2, <2>3 DEF Tells
  <1>8. port[r] \in Ports /\ Offer(r, port[r]) \in offered
    BY <1>3 DEF IInv, OnOffer
  <1> HIDE DEF d, to
  <1>9. \/ d.to \in {GROUP, STRANGER}
        \/ \E n \in 1..round :
             /\ d.to = Socket(n)
             /\ n = round => \E s \in Responders, p \in Ports :
                               Tells(d, s, p) /\ Offer(s, p) \in offered
    <2>1. CASE q.from = STRANGER \/ to = GROUP
      BY <1>4, <1>5, <2>1
    <2>2. CASE q.questions = BrowseQuestions /\ (\E n \in 1..round : q.from = Socket(n)) /\ to = q.from
      BY <1>4, <1>7, <1>8, <2>2
    <2> QED
      BY <1>5, <1>6, <2>1, <2>2
  <1>10. pc' \in [Responders -> {"off", "poll"}] /\ \A s \in Responders : pc'[s] = "poll" => pc[s] = "poll"
    BY <1>3 DEF IInv, TypeOK
  <1>11. d.response
    BY <1>4
  <1> QED
    BY <1>2, <1>3, <1>9, <1>10, <1>11, SendIInv

\* What goes to the group is read by no browse.
LEMMA GroupIInv ==
  ASSUME IInv, NEW r \in Responders, Announce(r) \/ Leave(r) \/ Exit(r)
  PROVE  IInv'
  <1>0. TypeOK
    BY DEF IInv
  <1>1. CASE Announce(r)
    <2>1. net' = net \cup {Announcement(r)} /\ UNCHANGED <<pc, port, starts, browser, offered>>
      BY <1>1 DEF Announce, Send, exporters
    <2>2. Announcement(r).response /\ Announcement(r).to = GROUP
      BY DEF Announcement, Response
    <2>3. pc' \in [Responders -> {"off", "poll"}] /\ \A s \in Responders : pc'[s] = "poll" => pc[s] = "poll"
      BY <1>0, <2>1 DEF TypeOK
    <2> QED
      BY <2>1, <2>2, <2>3, SendIInv
  <1>2. CASE Leave(r)
    <2>1. net' = net \cup {Goodbye(r)} /\ UNCHANGED <<port, starts, browser, offered>>
      BY <1>2 DEF Leave, Send
    <2>2. Goodbye(r).response /\ Goodbye(r).to = GROUP
      BY DEF Goodbye, Response
    <2>3. pc' \in [Responders -> {"off", "poll"}] /\ \A s \in Responders : pc'[s] = "poll" => pc[s] = "poll"
      BY <1>0, <1>2 DEF TypeOK, Leave
    <2> QED
      BY <2>1, <2>2, <2>3, SendIInv
  <1>3. CASE Exit(r)
    <2> USE DEF IInv, browser
    <2>1. UNCHANGED <<port, starts, net, browser, offered>>
      BY <1>3 DEF Exit
    <2>2. pc' \in [Responders -> {"off", "poll"}] /\ \A s \in Responders : pc'[s] = "poll" => pc[s] = "poll"
      BY <1>0, <1>3 DEF TypeOK, Exit
    <2>3. TypeOK'
      BY <2>1, <2>2 DEF TypeOK
    <2>4. OnOffer' /\ Datagrams'
      BY <2>1, <2>2, SameNet
    <2>5. Belongs(col, offered)' /\ Complete(col, heard)' /\ Listed'
      BY <2>1 DEF Listed
    <2> QED
      BY <2>3, <2>4, <2>5
  <1> QED
    BY <1>1, <1>2, <1>3

LEMMA AskIInv == ASSUME IInv, Ask PROVE IInv'
  <1>0. TypeOK
    BY DEF IInv
  <1>1. PICK x \in Asked : net' = net \cup {Query(x, STRANGER, GROUP)}
    BY DEF Ask, Send
  <1> DEFINE d == Query(x, STRANGER, GROUP)
  <1>2. d.from = STRANGER /\ d.to = GROUP
    BY DEF Query
  <1>3. UNCHANGED <<pc, port, starts, browser, offered>>
    BY DEF Ask, exporters
  <1>4. pc' \in [Responders -> {"off", "poll"}] /\ \A s \in Responders : pc'[s] = "poll" => pc[s] = "poll"
    BY <1>0, <1>3 DEF TypeOK
  <1> HIDE DEF d
  <1>5. net' = net \cup {d}
    BY <1>1 DEF d
  <1> QED
    BY <1>2, <1>3, <1>4, <1>5, SendIInv

\* A browse begins, with nothing gathered and a socket that nobody has heard of.
LEMMA BrowseIInv ==
  ASSUME IInv, Browse
  PROVE  IInv'
  <1> DEFINE d == Query(BrowseQuestions, Socket(round'), GROUP)
  <1>1. /\ round' = round + 1 /\ round < MaxBrowses /\ reads' = 0 /\ col' = NothingYet /\ heard' = {}
        /\ offered' = Offers /\ net' = net \cup {d} /\ UNCHANGED <<pc, port, starts, servers>>
    BY DEF Browse, Send, exporters
  <1>2. browsing'
    BY DEF Browse
  <1>3. TypeOK'
    <2>1. round' \in 0..MaxBrowses /\ reads' \in 0..MaxReads
      BY <1>1, BoundsAssumption DEF IInv, TypeOK
    <2>2. browsing' \in BOOLEAN
      BY Zenon DEF Browse
    <2> QED
      BY <1>1, <2>1, <2>2 DEF IInv, TypeOK
  <1>4. OnOffer'
    <2>1. ASSUME NEW r \in Responders, pc[r] = "poll"
          PROVE  port[r] \in Ports /\ Offer(r, port[r]) \in Offers
      BY <2>1 DEF IInv, OnOffer, Offers
    <2> QED
      BY <1>1, <2>1 DEF OnOffer, Offer
  <1>5. Datagrams'
    <2>1. round \in Nat /\ round' \in 1..round'
      BY <1>1, BoundsAssumption DEF IInv, TypeOK
    <2>2. d.from = Socket(round') /\ d.questions = BrowseQuestions /\ d.to = GROUP
      BY DEF Query
    <2> HIDE DEF d
    <2>3. ASSUME NEW e \in net'
          PROVE  /\ ~e.response => \/ e.from = STRANGER
                                   \/ e.questions = BrowseQuestions /\ \E n \in 1..round' : e.from = Socket(n)
                 /\ \/ e.to \in {GROUP, STRANGER}
                    \/ \E n \in 1..round' :
                         /\ e.to = Socket(n)
                         /\ n = round' => \E r \in Responders, p \in Ports :
                                            Tells(e, r, p) /\ Offer(r, p) \in offered'
      <3>1. CASE e = d
        BY <2>1, <2>2, <3>1
      <3>2. CASE e \in net
        <4>1. \A n \in 1..round : n \in 1..round' /\ n # round'
          BY <1>1, <2>1
        <4>2. /\ ~e.response => \/ e.from = STRANGER
                                \/ e.questions = BrowseQuestions /\ \E n \in 1..round : e.from = Socket(n)
              /\ \/ e.to \in {GROUP, STRANGER}
                 \/ \E n \in 1..round : e.to = Socket(n)
          BY <3>2 DEF IInv, Datagrams
        <4> QED
          BY <4>1, <4>2
      <3> QED
        BY <1>1, <3>1, <3>2
    <2> QED
      BY <2>3 DEF Datagrams, Tells, Answer, Offer
  <1>6. Belongs(col, offered)' /\ Complete(col, heard)'
    BY <1>1, NothingBelongs
  <1>7. Listed'
    BY <1>2 DEF Listed
  <1> QED
    BY <1>3, <1>4, <1>5, <1>6, <1>7 DEF IInv

\* A datagram is read from the browse's socket: an answer to this browse.
LEMMA ReceiveIInv ==
  ASSUME IInv, Receive
  PROVE  IInv'
  <1> DEFINE H(d) == {d.records[k].rdata[2] : k \in {i \in DOMAIN Readable(d) : d.records[i].rtype = "PTR"}}
  <1>1. PICK d \in net : d.to = Socket(round) /\ col' = Collected(col, Readable(d)) /\ heard' = heard \cup H(d)
    BY DEF Receive
  <1>2. /\ reads < MaxReads /\ reads' = reads + 1
        /\ UNCHANGED <<pc, port, starts, net, round, servers, offered>>
    BY DEF Receive, exporters
  <1>3. browsing /\ browsing' = browsing
    BY DEF Receive
  <1>4. PICK r \in Responders, p \in Ports : Tells(d, r, p) /\ Offer(r, p) \in offered
    <2>1. \E n \in 1..round : /\ d.to = Socket(n)
                              /\ n = round => \E r \in Responders, p \in Ports :
                                                Tells(d, r, p) /\ Offer(r, p) \in offered
      BY <1>1, Sockets DEF IInv, Datagrams
    <2> QED
      BY <1>1, <2>1, Sockets
  <1>5. Belongs(col', offered)
    BY <1>1, <1>4, CollectedBelongs DEF IInv
  <1>6. Complete(col', heard \cup {Offer(r, p).instance})
    BY <1>1, <1>4, CollectedComplete DEF IInv
  <1>7. H(d) \subseteq {Offer(r, p).instance}
    BY <1>4, HeardOfOne
  <1> HIDE DEF H
  <1>8. Complete(col', heard')
    BY <1>1, <1>6, <1>7 DEF Complete
  <1>9. TypeOK'
    <2>1. reads' \in 0..MaxReads
      BY <1>2, BoundsAssumption DEF IInv, TypeOK
    <2>2. browsing' \in BOOLEAN
      BY <1>3, Zenon DEF IInv, TypeOK
    <2> QED
      BY <1>2, <2>1, <2>2 DEF IInv, TypeOK
  <1>10. OnOffer' /\ Datagrams'
    BY <1>2, SameNet DEF IInv
  <1>11. Listed'
    BY <1>3 DEF Listed
  <1>12. Belongs(col, offered)' /\ Complete(col, heard)'
    BY <1>2, <1>5, <1>8
  <1> QED
    BY <1>9, <1>10, <1>11, <1>12 DEF IInv

\* Nothing gathered is nothing found.
LEMMA NothingTried == Tried(NothingYet, Configured)
  <1> DEFINE f == Found(NothingYet)
  <1>1. Belongs(NothingYet, {}) /\ Complete(NothingYet, {})
    BY NothingBelongs
  <1>2. f = [k \in 1..Len(NothingYet.instances) |-> Discovered(NothingYet, NothingYet.instances[k])]
    BY <1>1, FoundAll
  <1>3. Len(NothingYet.instances) = 0
    BY DEF NothingYet
  <1> HIDE DEF f
  <1>4. f = <<>>
    BY <1>2, <1>3
  <1>5. Len(f) = 0
    BY <1>4
  <1>6. PICK a : EndpointsRun(a, f)
    BY <1>5, EndpointsRuns
  <1>7. Endpoints(f) = Configured
    BY <1>5, <1>6 DEF EndpointsRun
  <1> QED
    BY <1>7 DEF Tried, f

\* A browse ends.
LEMMA EndIInv ==
  ASSUME IInv, Deadline \/ BrowseFails
  PROVE  IInv'
  <1>1. UNCHANGED <<pc, port, starts, net, round, reads, offered>> /\ browsing' = FALSE
    BY DEF Deadline, BrowseFails, exporters
  <1>2. TypeOK'
    <2>1. browsing' \in BOOLEAN
      BY <1>1, Zenon
    <2> QED
      BY <1>1, <2>1 DEF IInv, TypeOK
  <1>3. OnOffer' /\ Datagrams'
    BY <1>1, SameNet DEF IInv
  <1>4. CASE Deadline
    <2>1. col' = col /\ heard' = heard /\ Tried(col, servers')
      BY <1>4 DEF Deadline, Tried
    <2>2. Tried(col, servers)'
      BY <2>1
    <2>3. Belongs(col, offered)' /\ Complete(col, heard)'
      BY <1>1, <2>1 DEF IInv
    <2> QED
      BY <1>2, <1>3, <2>2, <2>3 DEF IInv, Listed
  <1>5. CASE BrowseFails
    <2>1. col' = NothingYet /\ heard' = {} /\ servers' = Configured
      BY <1>5 DEF BrowseFails
    <2>2. Tried(col, servers)'
      BY <2>1, NothingTried
    <2>3. Belongs(col, offered)' /\ Complete(col, heard)'
      BY <2>1, NothingBelongs
    <2> QED
      BY <1>2, <1>3, <2>2, <2>3 DEF IInv, Listed
  <1> QED
    BY <1>4, <1>5

LEMMA NextIInv == IInv /\ [Next]_vars => IInv'
  <1> SUFFICES ASSUME IInv, [Next]_vars PROVE IInv'
    OBVIOUS
  <1>1. CASE UNCHANGED vars
    <2>1. UNCHANGED <<pc, port, starts, net, browsing, round, reads, col, servers, heard, offered>>
      BY <1>1 DEF vars, exporters, browser
    <2>2. TypeOK' /\ OnOffer' /\ Datagrams'
      BY <2>1, SameNet DEF IInv, TypeOK
    <2>3. Belongs(col, offered)' /\ Complete(col, heard)' /\ Listed'
      BY <2>1 DEF IInv, Listed
    <2> QED
      BY <2>2, <2>3 DEF IInv
  <1>2. CASE \E r \in Responders : Start(r)
    BY <1>2, StartIInv
  <1>3. CASE \E r \in Responders : Announce(r) \/ Leave(r) \/ Exit(r)
    BY <1>3, GroupIInv
  <1>4. CASE \E r \in Responders : PollOnce(r)
    BY <1>4, PollOnceIInv
  <1>5. CASE Ask
    BY <1>5, AskIInv
  <1>6. CASE Browse
    BY <1>6, BrowseIInv
  <1>7. CASE Receive
    BY <1>7, ReceiveIInv
  <1>8. CASE Deadline \/ BrowseFails
    BY <1>8, EndIInv
  <1> QED
    BY <1>1, <1>2, <1>3, <1>4, <1>5, <1>6, <1>7, <1>8 DEF Next

\* What browse() has gathered was offered since it began, SRV and TXT records side by
\* side, and is complete for the instances it has heard of (mdns.rs browse, collect).
THEOREM GatheredTogether == Spec => []IInv
  BY InitIInv, NextIInv, PTL DEF Spec

\* An entry of browse()'s result has the name, host, port and text of one offer and
\* addresses of that host, and the daemon tries no other server beyond the configured ones.
THEOREM FoundWasOffered == Spec => []FoundIsOffered
  <1>1. IInv => FoundIsOffered
    <2> SUFFICES ASSUME IInv PROVE FoundIsOffered
      OBVIOUS
    <2> DEFINE found == Found(col)
    <2>1. \A k \in DOMAIN found :
            /\ \E o \in offered : /\ o.instance = found[k].instance /\ o.host = found[k].host
                                  /\ o.port = found[k].port /\ o.txt = found[k].txt
            /\ \A i \in DOMAIN found[k].addrs : \E o \in offered :
                 Lower[o.host] = Lower[found[k].host] /\ found[k].addrs[i] \in o.addrs
      BY ResultIsOffered DEF IInv
    <2>2. ASSUME NEW k \in (Len(Configured) + 1)..Len(servers), ~browsing
          PROVE  \E d \in Range(found) : servers[k] = [host |-> Endpoint(d), port |-> d.port]
      <3>1. CASE Tried(col, servers)
        BY <3>1, ServersAreFound DEF IInv
      <3>2. CASE servers = <<>>
        <4>1. Len(servers) = 0 /\ Len(Configured) \in Nat
          BY <3>2, ConfiguredAssumption
        <4> QED
          BY <4>1
      <3> QED
        BY <2>2, <3>1, <3>2 DEF IInv, Listed
    <2> HIDE DEF found
    <2> QED
      BY <2>1, <2>2 DEF FoundIsOffered, found
  <1> QED
    BY <1>1, GatheredTogether, PTL

\* Each instance a browse has heard of is in its result once, and when it is over the
\* daemon has its address among the servers to try (browse, Daemon::endpoints).
THEOREM HeardWasFound == Spec => []HeardIsFound
  <1>1. IInv => HeardIsFound
    <2> SUFFICES ASSUME IInv PROVE HeardIsFound
      OBVIOUS
    <2> DEFINE found == Found(col)
    <2>1. \A n \in heard : Cardinality({k \in DOMAIN found : Lower[found[k].instance] = Lower[n]}) = 1
      BY ResultIsOffered DEF IInv
    <2>2. ASSUME NEW n \in heard, ~browsing, NEW k \in DOMAIN found
          PROVE  \E j \in DOMAIN servers : Lower[servers[j].host] = Lower[Endpoint(found[k])]
      <3>1. Tried(col, servers)
        BY <2>2 DEF IInv, Listed
      <3> QED
        BY <3>1, ServersAreFound DEF IInv
    <2> HIDE DEF found
    <2> QED
      BY <2>1, <2>2 DEF HeardIsFound, found
  <1> QED
    BY <1>1, GatheredTogether, PTL
=============================================================================
