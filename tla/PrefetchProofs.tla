--------------------------- MODULE PrefetchProofs ---------------------------
(***************************************************************************)
(* Proofs about Prefetch, for any number of endpoints, any DEPTH, any      *)
(* range of seqnums and any bounds.                                        *)
(***************************************************************************)
EXTENDS Prefetch, TLAPS

EpRecord ==
  [inFlight : ISeqs \cup {0}, captured : Seq(1..MaxReports), waiting : 0..MaxSubmits,
   errors : 0..MaxErrors, disabled : BOOLEAN]

UrbRecord ==
  [state : {"none", "flying", "done"}, ep : Eps \cup {0}, data : 0..MaxReports,
   unlinked : BOOLEAN]

\* A record of Inner.eps; one that gave up has no URB.
Sound(e) ==
  /\ e \in EpRecord /\ Len(e.captured) <= Depth
  /\ e.disabled \/ e.errors < MaxErrors
  /\ e.disabled => e.inFlight = 0

\* The prefetcher's own state.
Inner ==
  /\ ep \in [Eps -> EpRecord] /\ \A a \in Eps : Sound(ep[a])
  /\ nextSeq \in ISeqs
  /\ urb \in [ISeqs -> UrbRecord]
  /\ \A q \in ISeqs : urb[q].state # "none" => urb[q].ep \in Eps

LEMMA SeqnumsPositive == ISeqs \subseteq Nat /\ 0 \notin ISeqs /\ Base \in ISeqs
  BY SeqnumAssumption DEF ISeqs

(***************************************************************************)
(* What arm_one does to an endpoint whose record has become e: the record  *)
(* keeps its reports and its waiter, and the endpoint gets the next seqnum *)
(* or none.                                                                *)
(***************************************************************************)
Flying(a) == [state |-> "flying", ep |-> a, data |-> 0, unlinked |-> FALSE]

LEMMA ArmEffect ==
  ASSUME Inner, NEW a \in Eps, NEW e, Sound(e), ArmOne(a, e)
  PROVE  /\ Inner'
         /\ \A b \in Eps : b # a => ep'[b] = ep[b]
         /\ ep'[a].captured = e.captured /\ ep'[a].waiting = e.waiting
         /\ e.disabled => ep'[a].disabled
         /\ \/ ep'[a].inFlight = e.inFlight /\ urb' = urb /\ nextSeq' = nextSeq
            \/ /\ CanArm(e) /\ urb[nextSeq].state = "none"
               /\ ep'[a].inFlight = nextSeq /\ ~ep'[a].disabled
               /\ urb' = [urb EXCEPT ![nextSeq] = Flying(a)]
               /\ nextSeq' = AfterSeq(nextSeq)
  <1> USE DEF Inner
  <1>0. e \in EpRecord
    BY DEF Sound
  <1>1. CASE ArmSkipped(a, e)
    BY <1>0, <1>1 DEF ArmSkipped
  <1>2. CASE ArmOk(a, e)
    <2> DEFINE n == [e EXCEPT !.inFlight = nextSeq]
    <2>1. n \in EpRecord /\ n.inFlight = nextSeq /\ n.captured = e.captured
          /\ n.waiting = e.waiting /\ n.errors = e.errors /\ n.disabled = e.disabled
      BY <1>0 DEF EpRecord
    <2>2. CanArm(e) /\ ~e.disabled /\ urb[nextSeq].state = "none" /\ ep' = [ep EXCEPT ![a] = n]
          /\ urb' = [urb EXCEPT ![nextSeq] = Flying(a)] /\ nextSeq' = AfterSeq(nextSeq)
      BY <1>2 DEF ArmOk, Flying, CanArm
    <2>3. Sound(n)
      BY <2>1, <2>2 DEF Sound
    <2>4. AfterSeq(nextSeq) \in ISeqs
      BY SeqnumAssumption DEF AfterSeq, ISeqs
    <2>5. Flying(a) \in UrbRecord /\ Flying(a).ep = a
      BY BoundAssumption DEF Flying, UrbRecord
    <2> HIDE DEF n
    <2>6. ep' \in [Eps -> EpRecord] /\ \A b \in Eps : ep'[b] = IF b = a THEN n ELSE ep[b]
      BY <2>1, <2>2
    <2>7. /\ urb' \in [ISeqs -> UrbRecord]
          /\ \A q \in ISeqs : urb'[q] = IF q = nextSeq THEN Flying(a) ELSE urb[q]
      BY <2>2, <2>5
    <2>8. Inner'
      BY <2>2, <2>3, <2>4, <2>5, <2>6, <2>7 DEF Sound
    <2> QED
      BY <2>1, <2>2, <2>6, <2>8
  <1>3. CASE ArmRefused(a, e)
    <2> DEFINE n == [e EXCEPT !.errors = @ + 1, !.disabled = e.errors + 1 >= MaxErrors]
    <2>1. ~e.disabled /\ e.inFlight = 0 /\ ep' = [ep EXCEPT ![a] = n]
          /\ urb' = urb /\ nextSeq' = nextSeq
      BY <1>3 DEF ArmRefused, CanArm
    <2>2. e.errors \in Nat /\ MaxErrors \in Nat /\ e.errors < MaxErrors
          /\ e.errors + 1 \in 0..MaxErrors
      <3>1. e.errors \in 0..MaxErrors /\ MaxErrors \in Nat
        BY <1>0, DepthAssumption DEF EpRecord
      <3>2. e.errors < MaxErrors
        BY <2>1 DEF Sound
      <3> QED
        BY <3>1, <3>2
    <2> DEFINE full == e.errors + 1 >= MaxErrors
    <2>f. full \in BOOLEAN /\ (~full => e.errors + 1 < MaxErrors)
      BY <2>2
    <2>3. n \in EpRecord /\ n.inFlight = e.inFlight /\ n.captured = e.captured
          /\ n.waiting = e.waiting /\ n.errors = e.errors + 1 /\ n.disabled = full
      <3> HIDE DEF full
      <3> DEFINE m == [e EXCEPT !.errors = @ + 1, !.disabled = full]
      <3>1. m \in EpRecord /\ m.inFlight = e.inFlight /\ m.captured = e.captured
            /\ m.waiting = e.waiting /\ m.errors = e.errors + 1 /\ m.disabled = full
        BY <1>0, <2>2, <2>f DEF EpRecord
      <3> QED
        BY <3>1 DEF full
    <2> HIDE DEF n, full
    <2>4. Sound(n)
      BY <2>1, <2>2, <2>f, <2>3 DEF Sound
    <2>n. ep' = [ep EXCEPT ![a] = n]
      BY <2>1 DEF n
    <2>5. ep' \in [Eps -> EpRecord] /\ \A b \in Eps : ep'[b] = IF b = a THEN n ELSE ep[b]
      BY <2>n, <2>3
    <2> QED
      BY <2>1, <2>3, <2>4, <2>5 DEF Sound
  <1>4. CASE ArmFatal(a, e)
    <2> DEFINE n == [e EXCEPT !.disabled = TRUE]
    <2>1. ~e.disabled /\ e.inFlight = 0 /\ ep' = [ep EXCEPT ![a] = n]
          /\ urb' = urb /\ nextSeq' = nextSeq
      BY <1>4 DEF ArmFatal, CanArm
    <2>2. n \in EpRecord /\ n.inFlight = e.inFlight /\ n.captured = e.captured
          /\ n.waiting = e.waiting /\ n.disabled
      BY <1>0 DEF EpRecord
    <2>3. Sound(n)
      BY <2>1, <2>2 DEF Sound
    <2> HIDE DEF n
    <2>4. ep' \in [Eps -> EpRecord] /\ \A b \in Eps : ep'[b] = IF b = a THEN n ELSE ep[b]
      BY <2>1, <2>2
    <2> QED
      BY <2>1, <2>2, <2>3, <2>4 DEF Sound
  <1> QED
    BY <1>1, <1>2, <1>3, <1>4 DEF ArmOne

(***************************************************************************)
(* Types of the rest, and what the two threads hold: a reply only while    *)
(* posting it, a reaped completion only until it is delivered.             *)
(***************************************************************************)
Outer ==
  /\ gone \in BOOLEAN
  /\ made \in [Eps -> 0..MaxReports]
  /\ toArm \subseteq Eps
  /\ rdPc \in {"arm", "read", "post", "stop", "down"}
  /\ rpPc \in {"reap", "deliver", "post", "dead"}
  /\ rdHand \subseteq ReplySet /\ rpHand \subseteq ReplySet
  /\ \A m \in rdHand \cup rpHand : m.kind = "data" => m.data # 0
  /\ rpUrb \subseteq [seq : ISeqs, data : 0..MaxReports]
  /\ count \in 0..MaxSubmits
  /\ target \in [Submits -> Eps \cup {0}]
  /\ \A c \in 1..count : target[c] \in Eps
  /\ asked \subseteq Submits /\ settled \subseteq Submits
  /\ wire \in [Eps -> Seq(1..MaxReports)]

AtMostOne(S) == \A x, y \in S : x = y

Hands ==
  /\ rdPc # "post" => rdHand = {}
  /\ rpPc # "post" => rpHand = {}
  /\ rpPc # "deliver" => rpUrb = {}
  /\ AtMostOne(rdHand) /\ AtMostOne(rpHand) /\ AtMostOne(rpUrb)

\* A registered submit is one the client has made, for that endpoint.
Waiters ==
  /\ rdPc = "arm" => count = 0
  /\ \A a \in Eps : ep[a].waiting # 0 =>
       ep[a].waiting \in 1..count /\ target[ep[a].waiting] = a

\* Only shutdown() unlinks an internal URB, and after it no endpoint gets one.
Cancelled ==
  /\ rdPc = "down" => \A a \in Eps : ep[a].disabled
  /\ \A q \in ISeqs : urb[q].unlinked => rdPc = "down"

TInv == Inner /\ Outer /\ Hands /\ Waiters /\ Cancelled /\ NoneHeldFromWaiter

(***************************************************************************)
(* The seqnums.  A completion that the reaper has taken out of the table   *)
(* and not yet delivered is known by its seqnum only, and the table cannot *)
(* refuse that seqnum any more.  The proofs assume that the counter is not *)
(* at it while some endpoint could be armed; OneEndpointRests and          *)
(* NoWrapRests say when that is so.                                        *)
(***************************************************************************)
SeqnumRests ==
  \A u \in rpUrb : u.seq = nextSeq => \A b \in Eps : ~CanArm(ep[b])

Known ==
  /\ UrbsAreKnown
  /\ \A u \in rpUrb : urb[u.seq].state = "none"
  /\ \A u \in rpUrb : rdPc = "down" \/ \E a \in Eps : ep[a].inFlight = u.seq
  /\ \A a \in Eps : ep[a].inFlight # 0 =>
       \/ /\ urb[ep[a].inFlight].state # "none" /\ urb[ep[a].inFlight].ep = a
          /\ ~urb[ep[a].inFlight].unlinked
       \/ \E u \in rpUrb : u.seq = ep[a].inFlight
  /\ \A a, b \in Eps : ep[a].inFlight # 0 /\ ep[a].inFlight = ep[b].inFlight => a = b

(***************************************************************************)
(* The reports of an endpoint on their way: posted (wire), in a thread's   *)
(* hand, held (captured), and in the completion of its URB.                *)
(***************************************************************************)
Reports == 1..MaxReports

Data(a) == {m.data : m \in {n \in rdHand \cup rpHand : n.kind = "data" /\ n.ep = a}}

Due(a) ==
  {x \in Reports :
     /\ ep[a].inFlight # 0
     /\ \/ urb[ep[a].inFlight].state = "done" /\ urb[ep[a].inFlight].data = x
        \/ \E u \in rpUrb : u.seq = ep[a].inFlight /\ u.data = x}

\* The threads never have a report of one endpoint each.
OneHand ==
  \A a \in Eps :
    /\ \A m \in rdHand : (m.kind = "data" /\ m.ep = a) =>
         ep[a].waiting = 0 /\ \A n \in rpHand : ~(n.kind = "data" /\ n.ep = a)
    /\ \A m \in rpHand : (m.kind = "data" /\ m.ep = a) => ep[a].captured = <<>>

Rising(s) == \A i, j \in 1..Len(s) : i < j => s[i] < s[j]

\* The reports posted are s, in hand H, held k, due P, and made so far n.
Ordered(s, H, k, P, n) ==
  /\ Rising(s) /\ Rising(k)
  /\ \A i \in 1..Len(s) :
       /\ s[i] <= n
       /\ \A x \in H \cup P : s[i] < x
       /\ \A j \in 1..Len(k) : s[i] < k[j]
  /\ \A x \in H :
       /\ x <= n
       /\ \A y \in P : x < y
       /\ \A j \in 1..Len(k) : x < k[j]
  /\ \A j \in 1..Len(k) : k[j] <= n /\ \A x \in P : k[j] < x
  /\ \A x \in P : x <= n

Order == \A a \in Eps : Ordered(wire[a], Data(a), ep[a].captured, Due(a), made[a])

\* l is the last report handed out.
LastIs(s, H, l) ==
  \/ H = {l}
  \/ H = {} /\ s = <<>> /\ l = 0
  \/ H = {} /\ s # <<>> /\ l = s[Len(s)]

\* Nothing is missing: what is held is a run, it starts right after l unless
\* the buffer is full, and at most the report that is due has not been seen.
Unbroken(l, k, P, n) ==
  LET seen == IF k = <<>> THEN l ELSE k[Len(k)] IN
  /\ (k # <<>> /\ Len(k) < Depth) => k[1] = l + 1
  /\ P = {} => n = seen
  /\ \A x \in P : x = n /\ x = seen + 1

Run(k) == \A i \in 1..Len(k) : k[i] = k[1] + i - 1

Gapless(s, H, k, P, n, off) ==
  /\ Run(k)
  /\ ~off => \E l \in 0..MaxReports : LastIs(s, H, l) /\ Unbroken(l, k, P, n)

Live == rdPc \in {"arm", "read", "post"} /\ rpPc # "dead"

Fresh ==
  Live => \A a \in Eps :
            Gapless(wire[a], Data(a), ep[a].captured, Due(a), made[a], ep[a].disabled)

(***************************************************************************)
(* A call that ends in arm_one leaves endpoint a with the reports and the  *)
(* waiter given, and with the URB fl or, when it has none, perhaps a new   *)
(* one.                                                                    *)
(***************************************************************************)
Rearmed(a, captured, waiting, fl) ==
  /\ Inner'
  /\ \A b \in Eps : b # a => ep'[b] = ep[b]
  /\ ep'[a].captured = captured /\ ep'[a].waiting = waiting
  /\ ep[a].disabled => ep'[a].disabled
  /\ \/ ep'[a].inFlight = fl /\ urb' = urb /\ nextSeq' = nextSeq
     \/ /\ fl = 0 /\ ~ep[a].disabled /\ urb[nextSeq].state = "none"
        /\ ep'[a].inFlight = nextSeq /\ ~ep'[a].disabled
        /\ urb' = [urb EXCEPT ![nextSeq] = Flying(a)]
        /\ nextSeq' = AfterSeq(nextSeq)

LEMMA ArmRearms ==
  ASSUME Inner, NEW a \in Eps, NEW e, Sound(e), ep[a].disabled => e.disabled, ArmOne(a, e)
  PROVE  Rearmed(a, e.captured, e.waiting, e.inFlight) /\ (e.disabled => ep'[a].disabled)
  BY ArmEffect DEF Rearmed, CanArm

\* What Capture makes of a buffer.
LEMMA CaptureAppends ==
  ASSUME NEW s \in Seq(1..MaxReports), Len(s) <= Depth, NEW x \in 1..MaxReports
  PROVE  /\ Capture(s, x) \in Seq(1..MaxReports)
         /\ Len(s) = Depth =>
              /\ Len(Capture(s, x)) = Len(s)
              /\ \A i \in 1..Len(s) :
                   Capture(s, x)[i] = IF i = Len(s) THEN x ELSE s[i + 1]
         /\ Len(s) < Depth =>
              /\ Len(Capture(s, x)) = Len(s) + 1
              /\ \A i \in 1..(Len(s) + 1) :
                   Capture(s, x)[i] = IF i = Len(s) + 1 THEN x ELSE s[i]
  <1>1. CASE Len(s) = Depth
    <2>1. s # <<>>
      BY <1>1, DepthAssumption
    <2>2. Tail(s) \in Seq(1..MaxReports) /\ Len(Tail(s)) = Len(s) - 1
          /\ \A i \in 1..(Len(s) - 1) : Tail(s)[i] = s[i + 1]
      BY <2>1
    <2> DEFINE t == Tail(s)
    <2>3. Capture(s, x) = Append(t, x)
      BY <1>1 DEF Capture
    <2> HIDE DEF t
    <2>4. t \in Seq(1..MaxReports) /\ Len(t) = Len(s) - 1 /\ Len(s) \in Nat /\ Len(s) > 0
          /\ \A i \in 1..(Len(s) - 1) : t[i] = s[i + 1]
      BY <2>1, <2>2 DEF t
    <2>5. Append(t, x) \in Seq(1..MaxReports) /\ Len(Append(t, x)) = Len(s)
          /\ \A i \in 1..Len(s) : Append(t, x)[i] = IF i = Len(s) THEN x ELSE t[i]
      BY <2>4
    <2> QED
      BY <1>1, <2>3, <2>4, <2>5
  <1>2. CASE Len(s) # Depth
    <2>1. Capture(s, x) = Append(s, x)
      BY <1>2 DEF Capture
    <2> QED
      BY <1>2, <2>1
  <1> QED
    BY <1>1, <1>2

LEMMA ElementOf ==
  ASSUME NEW S, NEW s \in Seq(S), NEW i \in 1..Len(s)
  PROVE  s[i] \in S
  OBVIOUS

LEMMA TailIs ==
  ASSUME NEW s \in Seq(1..MaxReports), s # <<>>
  PROVE  /\ Tail(s) \in Seq(1..MaxReports) /\ Len(Tail(s)) = Len(s) - 1
         /\ Len(s) \in Nat /\ Len(s) > 0 /\ Head(s) = s[1] /\ s[1] \in 1..MaxReports
         /\ \A i \in 1..(Len(s) - 1) : Tail(s)[i] = s[i + 1]
  <1>1. Len(s) \in Nat /\ Len(s) > 0 /\ Head(s) = s[1]
    OBVIOUS
  <1>3. s[1] \in 1..MaxReports
    <2>1. 1 \in 1..Len(s)
      BY <1>1
    <2> QED
      BY <2>1, ElementOf, Zenon
  <1>2. Tail(s) \in Seq(1..MaxReports) /\ Len(Tail(s)) = Len(s) - 1
        /\ \A i \in 1..(Len(s) - 1) : Tail(s)[i] = s[i + 1]
    OBVIOUS
  <1> QED
    BY <1>1, <1>2, <1>3

-----------------------------------------------------------------------------
(* The calls, one by one.                                                  *)

LEMMA ArmStep ==
  ASSUME Inner, NEW a \in Eps, Arm(a)
  PROVE  Rearmed(a, ep[a].captured, ep[a].waiting, ep[a].inFlight)
  <1>1. Sound(ep[a]) /\ ArmOne(a, ep[a])
    BY DEF Inner, Arm
  <1> QED
    BY <1>1, ArmRearms

LEMMA TakeReadyStep ==
  ASSUME Inner, NEW a \in Eps, TakeReady(a)
  PROVE  Rearmed(a, Tail(ep[a].captured), ep[a].waiting, ep[a].inFlight)
  <1> DEFINE e == [ep[a] EXCEPT !.captured = Tail(@)]
  <1>1. ArmOne(a, e) /\ ep[a].captured # <<>>
    BY DEF TakeReady
  <1>2. ep[a] \in EpRecord /\ Sound(ep[a]) /\ ep[a].captured \in Seq(1..MaxReports)
    BY DEF Inner, EpRecord
  <1>3. Tail(ep[a].captured) \in Seq(1..MaxReports)
        /\ Len(Tail(ep[a].captured)) = Len(ep[a].captured) - 1 /\ Len(ep[a].captured) \in Nat
    BY <1>1, <1>2, TailIs
  <1>4. e \in EpRecord /\ e.captured = Tail(ep[a].captured) /\ e.waiting = ep[a].waiting
        /\ e.inFlight = ep[a].inFlight /\ e.errors = ep[a].errors /\ e.disabled = ep[a].disabled
    BY <1>2, <1>3 DEF EpRecord
  <1> HIDE DEF e
  <1>5. Sound(e)
    BY <1>2, <1>3, <1>4, DepthAssumption DEF Sound
  <1> QED
    BY <1>1, <1>4, <1>5, ArmRearms

LEMMA TakeWaitingStep ==
  ASSUME Inner, Outer, NEW a \in Eps, TakeWaiting(a)
  PROVE  Rearmed(a, ep[a].captured, count + 1, ep[a].inFlight) /\ ep[a].captured = <<>>
  <1> DEFINE e == [ep[a] EXCEPT !.waiting = count + 1]
  <1>1. ArmOne(a, e) /\ count < MaxSubmits /\ ep[a].captured = <<>>
    BY DEF TakeWaiting, ReadSubmit
  <1>2. ep[a] \in EpRecord /\ Sound(ep[a])
    BY DEF Inner
  <1>3. count + 1 \in 0..MaxSubmits
    BY <1>1, BoundAssumption DEF Outer
  <1>4. e \in EpRecord /\ e.captured = ep[a].captured /\ e.waiting = count + 1
        /\ e.inFlight = ep[a].inFlight /\ e.errors = ep[a].errors /\ e.disabled = ep[a].disabled
    BY <1>2, <1>3 DEF EpRecord
  <1> HIDE DEF e
  <1>5. Sound(e)
    BY <1>2, <1>4 DEF Sound
  <1> QED
    BY <1>1, <1>4, <1>5, ArmRearms

LEMMA DeliverErrorStep ==
  ASSUME Inner, Outer, NEW a \in Eps, NEW u \in rpUrb, DeliverError(a, u)
  PROVE  \/ Rearmed(a, ep[a].captured, 0, 0)
         \/ Rearmed(a, <<>>, 0, 0) /\ ep'[a].disabled
  <1> DEFINE errors == ep[a].errors + 1
             giveUp == errors >= MaxErrors
             kept == IF giveUp THEN <<>> ELSE ep[a].captured
             off == ep[a].disabled \/ giveUp
             e == [ep[a] EXCEPT !.inFlight = 0, !.errors = errors, !.waiting = 0,
                                !.disabled = off, !.captured = kept]
  <1>1. ArmOne(a, e) /\ ep[a].inFlight = u.seq
    BY DEF DeliverError, Deliverable
  <1>2. ep[a] \in EpRecord /\ Sound(ep[a]) /\ u.seq # 0
    BY SeqnumsPositive DEF Inner, Outer
  <1>3. ~ep[a].disabled /\ ep[a].errors < MaxErrors
    BY <1>1, <1>2 DEF Sound
  <1>4. ep[a].errors \in 0..MaxErrors /\ MaxErrors \in Nat /\ 0 \in 0..MaxSubmits
    BY <1>2, DepthAssumption, BoundAssumption DEF EpRecord
  <1>5. errors \in 0..MaxErrors /\ giveUp \in BOOLEAN /\ (~giveUp => errors < MaxErrors)
    BY <1>3, <1>4
  <1>6. (giveUp => kept = <<>>) /\ (~giveUp => kept = ep[a].captured)
    OBVIOUS
  <1>7. off = giveUp
    BY <1>3, <1>5
  <1>c. ep[a].captured \in Seq(1..MaxReports) /\ Len(ep[a].captured) <= Depth
    BY <1>2 DEF Sound, EpRecord
  <1> HIDE DEF errors, giveUp, kept, off
  <1>k. kept \in Seq(1..MaxReports) /\ Len(kept) <= Depth
    <2>1. CASE giveUp
      BY <2>1, <1>6, DepthAssumption
    <2>2. CASE ~giveUp
      BY <2>2, <1>6, <1>c
    <2> QED
      BY <2>1, <2>2
  <1>8. e \in EpRecord /\ e.captured = kept /\ e.waiting = 0 /\ e.inFlight = 0
        /\ e.errors = errors /\ e.disabled = off
    BY <1>2, <1>4, <1>5, <1>7, <1>k DEF EpRecord
  <1> HIDE DEF e
  <1>9. Sound(e)
    BY <1>5, <1>7, <1>8, <1>k DEF Sound
  <1>10. Rearmed(a, kept, 0, 0) /\ (off => ep'[a].disabled)
    BY <1>1, <1>3, <1>8, <1>9, ArmRearms
  <1> QED
    BY <1>5, <1>6, <1>7, <1>10

LEMMA DeliverReportStep ==
  ASSUME Inner, Outer, NEW a \in Eps, NEW u \in rpUrb, DeliverReport(a, u)
  PROVE  /\ u.data \in 1..MaxReports
         /\ ep[a].waiting # 0 => Rearmed(a, ep[a].captured, 0, 0)
         /\ ep[a].waiting = 0 => Rearmed(a, Capture(ep[a].captured, u.data), 0, 0)
  <1> DEFINE kept == IF ep[a].waiting # 0 THEN ep[a].captured
                     ELSE Capture(ep[a].captured, u.data)
             e == [ep[a] EXCEPT !.inFlight = 0, !.errors = 0, !.waiting = 0,
                                !.captured = kept]
  <1>1. ArmOne(a, e) /\ ep[a].inFlight = u.seq /\ u.data # 0
    BY DEF DeliverReport, Deliverable
  <1>2. ep[a] \in EpRecord /\ Sound(ep[a]) /\ u.seq # 0 /\ u.data \in 0..MaxReports
    BY SeqnumsPositive DEF Inner, Outer
  <1>3. u.data \in 1..MaxReports /\ 0 \in 0..MaxSubmits /\ 0 \in 0..MaxErrors /\ 0 < MaxErrors
    BY <1>1, <1>2, BoundAssumption, DepthAssumption
  <1>4. ep[a].captured \in Seq(1..MaxReports) /\ Len(ep[a].captured) <= Depth
    BY <1>2 DEF Sound, EpRecord
  <1>5. kept \in Seq(1..MaxReports) /\ Len(kept) <= Depth
    <2>1. Capture(ep[a].captured, u.data) \in Seq(1..MaxReports)
          /\ Len(Capture(ep[a].captured, u.data)) <= Depth
      BY <1>3, <1>4, CaptureAppends, DepthAssumption
    <2> QED
      BY <1>4, <2>1
  <1>6. (ep[a].waiting # 0 => kept = ep[a].captured)
        /\ (ep[a].waiting = 0 => kept = Capture(ep[a].captured, u.data))
    OBVIOUS
  <1> HIDE DEF kept
  <1>8. e \in EpRecord /\ e.captured = kept /\ e.waiting = 0 /\ e.inFlight = 0
        /\ e.errors = 0 /\ e.disabled = ep[a].disabled
    BY <1>2, <1>3, <1>5 DEF EpRecord
  <1> HIDE DEF e
  <1>9. Sound(e)
    BY <1>3, <1>5, <1>8 DEF Sound
  <1>10. Rearmed(a, kept, 0, 0)
    BY <1>1, <1>8, <1>9, ArmRearms
  <1> QED
    BY <1>3, <1>6, <1>10

-----------------------------------------------------------------------------
(* Every step keeps TInv.                                                  *)

LEMMA ReplyIs ==
  ASSUME NEW kind \in {"data", "error", "unlink"}, NEW a \in Eps, NEW c \in Submits,
         NEW x \in 0..MaxReports
  PROVE  /\ Reply(kind, a, c, x) \in ReplySet
         /\ Reply(kind, a, c, x).kind = kind /\ Reply(kind, a, c, x).ep = a
         /\ Reply(kind, a, c, x).seq = c /\ Reply(kind, a, c, x).data = x
  BY DEF Reply, ReplySet

LEMMA TypeInit == Init => TInv
  <1> SUFFICES ASSUME Init PROVE TInv
    OBVIOUS
  <1>1. NewEndpoint \in EpRecord /\ Sound(NewEndpoint) /\ NewEndpoint.captured = <<>>
        /\ NewEndpoint.waiting = 0 /\ NewEndpoint.inFlight = 0 /\ ~NewEndpoint.disabled
    <2>1. <<>> \in Seq(1..MaxReports) /\ Len(<<>>) = 0 /\ 0 \in 0..MaxSubmits
          /\ 0 \in 0..MaxErrors /\ 0 < MaxErrors /\ 0 <= Depth
      BY DepthAssumption, BoundAssumption
    <2> QED
      BY <2>1 DEF NewEndpoint, EpRecord, Sound
  <1>2. NoUrb \in UrbRecord /\ NoUrb.state = "none" /\ ~NoUrb.unlinked
    BY BoundAssumption DEF NoUrb, UrbRecord
  <1>3. ep \in [Eps -> EpRecord] /\ \A a \in Eps : ep[a] = NewEndpoint
    BY <1>1 DEF Init
  <1>4. urb \in [ISeqs -> UrbRecord] /\ \A q \in ISeqs : urb[q] = NoUrb
    BY <1>2 DEF Init
  <1>5. Inner
    BY <1>1, <1>2, <1>3, <1>4, SeqnumsPositive DEF Inner, Init
  <1>6. Outer
    <2>1. wire \in [Eps -> Seq(1..MaxReports)]
      BY DEF Init
    <2>2. made \in [Eps -> 0..MaxReports] /\ target \in [Submits -> Eps \cup {0}]
          /\ count \in 0..MaxSubmits /\ 1..count = {}
      BY BoundAssumption DEF Init
    <2> QED
      BY <2>1, <2>2 DEF Outer, Init
  <1>7. Hands /\ Waiters /\ Cancelled /\ NoneHeldFromWaiter
    BY <1>1, <1>2, <1>3, <1>4
    DEF Hands, AtMostOne, Waiters, Cancelled, NoneHeldFromWaiter, Init
  <1> QED
    BY <1>5, <1>6, <1>7 DEF TInv

\* The endpoints are left alone.
LEMMA CompleteTypes ==
  ASSUME TInv, NEW q \in ISeqs, NEW x \in 0..MaxReports, Complete(q, x),
         made' \in [Eps -> 0..MaxReports]
  PROVE  /\ TInv'
         /\ \A r \in ISeqs : r # q => urb'[r] = urb[r]
         /\ urb[q].state = "flying" /\ urb'[q].state = "done" /\ urb'[q].data = x
         /\ urb'[q].ep = urb[q].ep /\ urb'[q].unlinked = urb[q].unlinked
  <1>1. urb \in [ISeqs -> UrbRecord] /\ urb[q].state = "flying" /\ urb[q].ep \in Eps
        /\ urb' = [urb EXCEPT ![q].state = "done", ![q].data = x]
    BY DEF TInv, Inner, Complete
  <1> DEFINE n == [urb[q] EXCEPT !.state = "done", !.data = x]
  <1>2. n \in UrbRecord /\ n.state = "done" /\ n.data = x /\ n.ep = urb[q].ep
        /\ n.unlinked = urb[q].unlinked
    BY <1>1 DEF UrbRecord
  <1>3. urb' = [urb EXCEPT ![q] = n]
    BY <1>1
  <1> HIDE DEF n
  <1>4. urb' \in [ISeqs -> UrbRecord] /\ \A r \in ISeqs : urb'[r] = IF r = q THEN n ELSE urb[r]
    BY <1>1, <1>2, <1>3
  <1>5. ep' = ep /\ nextSeq' = nextSeq
    BY DEF Complete
  <1>6. Inner'
    BY <1>1, <1>2, <1>4, <1>5 DEF TInv, Inner
  <1>7. Outer'
    BY DEF TInv, Outer, Complete, reader, reaper, client
  <1>8. Hands' /\ Waiters' /\ Cancelled' /\ NoneHeldFromWaiter'
    BY <1>2, <1>4, <1>5
    DEF TInv, Hands, Waiters, Cancelled, NoneHeldFromWaiter, Complete, reader, reaper, client
  <1> QED
    BY <1>1, <1>2, <1>4, <1>6, <1>7, <1>8 DEF TInv

LEMMA DeviceReportIs ==
  ASSUME TInv, NEW q \in ISeqs, DeviceReport(q)
  PROVE  /\ urb[q].ep \in Eps /\ made[urb[q].ep] + 1 \in 1..MaxReports
         /\ Complete(q, made[urb[q].ep] + 1)
         /\ made' = [made EXCEPT ![urb[q].ep] = @ + 1]
         /\ made' \in [Eps -> 0..MaxReports]
  <1>1. urb[q].ep \in Eps /\ made \in [Eps -> 0..MaxReports] /\ made[urb[q].ep] < MaxReports
        /\ made' = [made EXCEPT ![urb[q].ep] = @ + 1] /\ Complete(q, made[urb[q].ep] + 1)
    BY DEF TInv, Inner, Outer, DeviceReport
  <1>2. made[urb[q].ep] + 1 \in 1..MaxReports
    BY <1>1, BoundAssumption
  <1> DEFINE y == made[urb[q].ep] + 1
  <1>3. made' = [made EXCEPT ![urb[q].ep] = y] /\ y \in 0..MaxReports
    BY <1>1, <1>2
  <1>4. made' \in [Eps -> 0..MaxReports]
    <2> HIDE DEF y
    <2> QED BY <1>1, <1>3
  <1> QED
    BY <1>1, <1>2, <1>4

LEMMA DeviceTypes == TInv /\ (Device \/ Unplug) => TInv'
  <1> SUFFICES ASSUME TInv, Device \/ Unplug PROVE TInv'
    OBVIOUS
  <1>1. ASSUME NEW q \in ISeqs, DeviceReport(q) PROVE TInv'
    <2>1. made[urb[q].ep] + 1 \in 0..MaxReports
      BY <1>1, DeviceReportIs, BoundAssumption
    <2> QED
      BY <1>1, <2>1, DeviceReportIs, CompleteTypes
  <1>2. ASSUME NEW q \in ISeqs, DeviceError(q) PROVE TInv'
    <2>1. made' \in [Eps -> 0..MaxReports] /\ Complete(q, 0) /\ 0 \in 0..MaxReports
      BY <1>2, BoundAssumption DEF TInv, Outer, DeviceError
    <2> QED
      BY <2>1, CompleteTypes
  <1>3. CASE Unplug
    BY <1>3 DEF Unplug, TInv, Inner, Outer, Hands, Waiters, Cancelled, NoneHeldFromWaiter,
                reader, reaper, client
  <1> QED
    BY <1>1, <1>2, <1>3 DEF Device

\* The reader has read a submit for a: the client's side of it.
LEMMA SubmitTypes ==
  ASSUME TInv, NEW a \in Eps, ReadSubmit(a)
  PROVE  /\ count + 1 \in Submits /\ count' = count + 1 /\ count \in Nat
         /\ count' \in 0..MaxSubmits
         /\ target' \in [Submits -> Eps \cup {0}] /\ target'[count + 1] = a
         /\ \A c \in 1..count : target'[c] = target[c]
         /\ \A c \in 1..count' : target'[c] \in Eps
         /\ rdPc = "read" /\ rdHand = {}
  <1>1. count \in 0..MaxSubmits /\ count < MaxSubmits /\ target \in [Submits -> Eps \cup {0}]
        /\ count' = count + 1 /\ target' = [target EXCEPT ![count + 1] = a] /\ rdPc = "read"
        /\ \A c \in 1..count : target[c] \in Eps
    BY DEF TInv, Outer, ReadSubmit
  <1>2. count + 1 \in Submits /\ count' \in 0..MaxSubmits /\ count \in Nat
        /\ \A c \in 1..count : c \in Submits /\ c # count + 1
    BY <1>1, BoundAssumption DEF Submits
  <1>3. target' \in [Submits -> Eps \cup {0}]
        /\ \A c \in Submits : target'[c] = IF c = count + 1 THEN a ELSE target[c]
    BY <1>1, <1>2
  <1>4. \A c \in 1..count' : c \in 1..count \/ c = count + 1
    BY <1>1, <1>2
  <1> QED
    BY <1>1, <1>2, <1>3, <1>4 DEF TInv, Hands

\* What a call that ends in arm_one does to the parts of TInv about endpoints.
LEMMA RearmTypes ==
  ASSUME TInv, NEW a \in Eps, NEW k, NEW w, NEW f, Rearmed(a, k, w, f), rdPc' # "down"
  PROVE  /\ Inner'
         /\ \A b \in Eps : b # a => ep'[b] = ep[b]
         /\ ep'[a].captured = k /\ ep'[a].waiting = w
         /\ Cancelled' \/ rdPc = "down"
         /\ (w # 0 => k = <<>>) => NoneHeldFromWaiter'
  <1>1. Inner' /\ (\A b \in Eps : b # a => ep'[b] = ep[b])
        /\ ep'[a].captured = k /\ ep'[a].waiting = w
    BY DEF Rearmed
  <1>2. ASSUME rdPc # "down" PROVE Cancelled'
    <2>1. \A q \in ISeqs : ~urb[q].unlinked
      BY <1>2 DEF TInv, Cancelled
    <2>2. \A q \in ISeqs : ~urb'[q].unlinked
      <3>1. CASE urb' = urb
        BY <2>1, <3>1
      <3>2. CASE urb' = [urb EXCEPT ![nextSeq] = Flying(a)]
        BY <2>1, <3>2 DEF TInv, Inner, Flying
      <3> QED
        BY <3>1, <3>2 DEF Rearmed
    <2> QED
      BY <2>2 DEF Cancelled
  <1>3. (w # 0 => k = <<>>) => NoneHeldFromWaiter'
    BY <1>1 DEF TInv, NoneHeldFromWaiter
  <1> QED
    BY <1>1, <1>2, <1>3

LEMMA ArmTypes ==
  ASSUME TInv, NEW a \in Eps, Arm(a)
  PROVE  TInv'
  <1>0. Inner
    BY DEF TInv
  <1>1. Rearmed(a, ep[a].captured, ep[a].waiting, ep[a].inFlight)
    BY <1>0, ArmStep
  <1>2. rdPc' \in {"arm", "read"} /\ rdPc = "arm"
    BY DEF Arm
  <1>3. Inner' /\ Cancelled' /\ NoneHeldFromWaiter'
        /\ (\A b \in Eps : ep'[b].waiting = ep[b].waiting)
    BY <1>1, <1>2, RearmTypes DEF TInv, NoneHeldFromWaiter
  <1>4. Outer'
    BY <1>2 DEF TInv, Outer, Arm, reaper, client
  <1>5. Hands' /\ Waiters'
    BY <1>2, <1>3 DEF TInv, Hands, Waiters, Arm, reaper, client
  <1> QED
    BY <1>3, <1>4, <1>5 DEF TInv

LEMMA TakeReadyTypes ==
  ASSUME TInv, NEW a \in Eps, TakeReady(a)
  PROVE  /\ TInv'
         /\ \E m \in ReplySet : /\ rdHand' = {m} /\ m.kind = "data" /\ m.ep = a
                                /\ m.seq = count + 1 /\ m.data = ep[a].captured[1]
  <1>0. ReadSubmit(a) /\ ep[a].captured # <<>> /\ Inner
    BY DEF TakeReady, TInv
  <1>1. Rearmed(a, Tail(ep[a].captured), ep[a].waiting, ep[a].inFlight)
    BY <1>0, TakeReadyStep
  <1>2. rdPc' = "post" /\ settled' = settled
        /\ rdHand' = {Reply("data", a, count + 1, Head(ep[a].captured))}
    BY DEF TakeReady
  <1>3. ep[a].captured \in Seq(1..MaxReports) /\ ep[a].waiting = 0
    BY <1>0 DEF TInv, Inner, EpRecord, NoneHeldFromWaiter
  <1>4. Head(ep[a].captured) = ep[a].captured[1] /\ ep[a].captured[1] \in 1..MaxReports
    BY <1>0, <1>3, TailIs
  <1>5. Head(ep[a].captured) \in 0..MaxReports /\ Head(ep[a].captured) # 0
    BY <1>4, BoundAssumption
  <1>6. count + 1 \in Submits /\ count' = count + 1 /\ count \in Nat
        /\ count' \in 0..MaxSubmits
        /\ target' \in [Submits -> Eps \cup {0}]
        /\ (\A c \in 1..count : target'[c] = target[c])
        /\ (\A c \in 1..count' : target'[c] \in Eps)
        /\ rdPc = "read"
    BY <1>0, SubmitTypes
  <1> DEFINE m == Reply("data", a, count + 1, Head(ep[a].captured))
  <1>7. m \in ReplySet /\ m.kind = "data" /\ m.ep = a /\ m.seq = count + 1
        /\ m.data = Head(ep[a].captured) /\ rdHand' = {m}
    BY <1>2, <1>5, <1>6, ReplyIs
  <1> HIDE DEF m
  <1>8. Inner' /\ Cancelled' /\ NoneHeldFromWaiter'
        /\ (\A b \in Eps : ep'[b].waiting = ep[b].waiting)
    BY <1>1, <1>2, <1>3, <1>6, RearmTypes DEF TInv
  <1>9. Outer'
    BY <1>0, <1>2, <1>5, <1>6, <1>7 DEF TInv, Outer, ReadSubmit, reaper
  <1>10. Hands'
    BY <1>0, <1>2, <1>7 DEF TInv, Hands, AtMostOne, ReadSubmit, reaper
  <1>11. Waiters'
    BY <1>2, <1>6, <1>8 DEF TInv, Waiters
  <1> QED
    BY <1>4, <1>7, <1>8, <1>9, <1>10, <1>11 DEF TInv

LEMMA TakeWaitingTypes ==
  ASSUME TInv, NEW a \in Eps, TakeWaiting(a)
  PROVE  TInv'
  <1>0. ReadSubmit(a) /\ ep[a].captured = <<>> /\ Inner /\ Outer
    BY DEF TakeWaiting, TInv
  <1>1. Rearmed(a, ep[a].captured, count + 1, ep[a].inFlight)
    BY <1>0, TakeWaitingStep
  <1>2. rdPc' = rdPc /\ settled' = settled /\ rdHand' = rdHand
    BY DEF TakeWaiting, reader
  <1>6. count + 1 \in Submits /\ count' = count + 1 /\ count \in Nat
        /\ count' \in 0..MaxSubmits
        /\ target' \in [Submits -> Eps \cup {0}] /\ target'[count + 1] = a
        /\ (\A c \in 1..count : target'[c] = target[c])
        /\ (\A c \in 1..count' : target'[c] \in Eps)
        /\ rdPc = "read"
    BY <1>0, SubmitTypes
  <1>8. Inner' /\ Cancelled' /\ NoneHeldFromWaiter' /\ ep'[a].waiting = count + 1
        /\ (\A b \in Eps : b # a => ep'[b].waiting = ep[b].waiting)
    BY <1>0, <1>1, <1>2, <1>6, RearmTypes DEF TInv
  <1>9. Outer'
    BY <1>0, <1>2, <1>6 DEF Outer, ReadSubmit, reaper
  <1>10. Hands'
    BY <1>0, <1>2 DEF TInv, Hands, ReadSubmit, reaper
  <1>11. Waiters'
    <2>1. \A c \in 1..count : c \in 1..count'
      BY <1>6
    <2>2. count + 1 \in 1..count'
      BY <1>6
    <2> QED
      BY <1>2, <1>6, <1>8, <2>1, <2>2 DEF TInv, Waiters
  <1> QED
    BY <1>8, <1>9, <1>10, <1>11 DEF TInv

LEMMA PassThroughTypes ==
  ASSUME TInv, NEW a \in Eps, TakePassThrough(a)
  PROVE  TInv'
  <1>0. ReadSubmit(a) /\ rdPc' = rdPc /\ rdHand' = rdHand /\ ep' = ep /\ urb' = urb
        /\ nextSeq' = nextSeq /\ settled' = settled \cup {count + 1}
    BY DEF TakePassThrough, reader
  <1>6. count + 1 \in Submits /\ count' = count + 1 /\ count \in Nat
        /\ count' \in 0..MaxSubmits
        /\ target' \in [Submits -> Eps \cup {0}]
        /\ (\A c \in 1..count : target'[c] = target[c])
        /\ (\A c \in 1..count' : target'[c] \in Eps)
        /\ rdPc = "read"
    BY <1>0, SubmitTypes
  <1>8. Inner' /\ Cancelled' /\ NoneHeldFromWaiter'
    BY <1>0 DEF TInv, Inner, Cancelled, NoneHeldFromWaiter
  <1>9. Outer'
    BY <1>0, <1>6 DEF TInv, Outer, ReadSubmit, reaper
  <1>10. Hands'
    BY <1>0 DEF TInv, Hands, ReadSubmit, reaper
  <1>11. Waiters'
    <2>1. \A c \in 1..count : c \in 1..count'
      BY <1>6
    <2> QED
      BY <1>0, <1>6, <2>1 DEF TInv, Waiters
  <1> QED
    BY <1>8, <1>9, <1>10, <1>11 DEF TInv

LEMMA UnlinkTypes ==
  ASSUME TInv, NEW c \in Submits, Unlink(c)
  PROVE  /\ TInv'
         /\ \A a \in Eps :
              /\ ep'[a].captured = ep[a].captured /\ ep'[a].inFlight = ep[a].inFlight
              /\ ep'[a].disabled = ep[a].disabled
              /\ ep'[a].waiting = IF ep[a].waiting = c THEN 0 ELSE ep[a].waiting
         /\ \E m \in ReplySet : rdHand' = {m} /\ m.kind = "unlink" /\ m.seq = c
  <1>0. c \in 1..count /\ rdPc = "read" /\ rdPc' = "post" /\ nextSeq' = nextSeq /\ urb' = urb
        /\ count' = count /\ target' = target
        /\ rdHand' = {Reply("unlink", target[c], c, 0)}
    BY DEF Unlink, kernel
  <1> DEFINE off(a) == [ep[a] EXCEPT !.waiting = 0]
             n(a) == IF ep[a].waiting = c THEN off(a) ELSE ep[a]
  <1>1. ASSUME NEW a \in Eps
        PROVE  /\ n(a) \in EpRecord /\ Sound(n(a))
               /\ n(a).captured = ep[a].captured /\ n(a).inFlight = ep[a].inFlight
               /\ n(a).disabled = ep[a].disabled
               /\ n(a).waiting = IF ep[a].waiting = c THEN 0 ELSE ep[a].waiting
    <2>1. ep[a] \in EpRecord /\ Sound(ep[a]) /\ 0 \in 0..MaxSubmits
      BY BoundAssumption DEF TInv, Inner
    <2>2. off(a) \in EpRecord /\ off(a).captured = ep[a].captured
          /\ off(a).inFlight = ep[a].inFlight /\ off(a).disabled = ep[a].disabled
          /\ off(a).waiting = 0 /\ off(a).errors = ep[a].errors
      BY <2>1 DEF EpRecord
    <2> HIDE DEF off
    <2>3. Sound(off(a))
      BY <2>1, <2>2 DEF Sound
    <2> QED
      BY <2>1, <2>2, <2>3
  <1>2. ep' = [a \in Eps |-> n(a)]
    BY DEF Unlink
  <1> HIDE DEF n
  <1>3. ep' \in [Eps -> EpRecord] /\ \A a \in Eps : ep'[a] = n(a)
    BY <1>1, <1>2
  <1>4. Inner'
    BY <1>0, <1>1, <1>3 DEF TInv, Inner
  <1>5. Cancelled' /\ NoneHeldFromWaiter' /\ Waiters'
    BY <1>0, <1>1, <1>3 DEF TInv, Cancelled, NoneHeldFromWaiter, Waiters
  <1> DEFINE m == Reply("unlink", target[c], c, 0)
  <1>6. m \in ReplySet /\ m.kind = "unlink" /\ m.seq = c /\ rdHand' = {m}
    <2>1. target[c] \in Eps /\ 0 \in 0..MaxReports
      BY <1>0, BoundAssumption DEF TInv, Outer
    <2> QED
      BY <1>0, <2>1, ReplyIs
  <1> HIDE DEF m
  <1>7. Outer'
    BY <1>0, <1>6 DEF TInv, Outer, Unlink, kernel, reaper
  <1>8. Hands'
    BY <1>0, <1>6 DEF TInv, Hands, AtMostOne, Unlink, reaper
  <1> QED
    BY <1>1, <1>3, <1>4, <1>5, <1>6, <1>7, <1>8 DEF TInv

LEMMA PostTypes ==
  ASSUME TInv, NEW m \in rdHand \cup rpHand, Post(m)
  PROVE  /\ wire' \in [Eps -> Seq(1..MaxReports)]
         /\ settled' = settled \cup {m.seq} /\ settled' \subseteq Submits
         /\ m \in ReplySet
         /\ m.kind # "data" => wire' = wire
         /\ m.kind = "data" =>
              /\ m.data \in 1..MaxReports
              /\ \A a \in Eps : a # m.ep => wire'[a] = wire[a]
              /\ wire'[m.ep] = Append(wire[m.ep], m.data)
  <1>1. m \in ReplySet /\ wire \in [Eps -> Seq(1..MaxReports)] /\ settled \subseteq Submits
        /\ (m.kind = "data" => m.data # 0)
    BY DEF TInv, Outer
  <1>2. m.ep \in Eps /\ m.seq \in Submits /\ m.data \in 0..MaxReports
    BY <1>1 DEF ReplySet
  <1>3. m.kind = "data" => m.data \in 1..MaxReports
    BY <1>1, <1>2, BoundAssumption
  <1>4. settled' = settled \cup {m.seq} /\ settled' \subseteq Submits
    BY <1>1, <1>2 DEF Post
  <1>5. CASE m.kind = "data"
    <2> DEFINE S == Seq(1..MaxReports)
               n == Append(wire[m.ep], m.data)
    <2>1. n \in S
      BY <1>1, <1>2, <1>3, <1>5
    <2>2. wire' = [wire EXCEPT ![m.ep] = n] /\ wire \in [Eps -> S]
      BY <1>1, <1>5 DEF Post
    <2> HIDE DEF S, n
    <2>3. wire' \in [Eps -> S] /\ wire'[m.ep] = n /\ \A a \in Eps : a # m.ep => wire'[a] = wire[a]
      BY <1>2, <2>1, <2>2
    <2> QED
      BY <1>1, <1>3, <1>4, <1>5, <2>3 DEF S, n
  <1>6. CASE m.kind # "data"
    BY <1>1, <1>4, <1>6 DEF Post
  <1> QED
    BY <1>5, <1>6

LEMMA RdPostTypes == TInv /\ RdPost => TInv'
  <1> SUFFICES ASSUME TInv, RdPost PROVE TInv'
    OBVIOUS
  <1>1. PICK m \in rdHand : Post(m)
    BY DEF RdPost
  <1>2. wire' \in [Eps -> Seq(1..MaxReports)] /\ settled' \subseteq Submits
    BY <1>1, PostTypes
  <1>3. Outer'
    BY <1>2 DEF TInv, Outer, RdPost, kernel, reaper, client
  <1>4. Inner' /\ Hands' /\ Waiters' /\ Cancelled' /\ NoneHeldFromWaiter'
    BY DEF TInv, Inner, Hands, AtMostOne, Waiters, Cancelled, NoneHeldFromWaiter, RdPost,
           kernel, reaper, client
  <1> QED
    BY <1>3, <1>4 DEF TInv

LEMMA RpPostTypes == TInv /\ RpPost => TInv'
  <1> SUFFICES ASSUME TInv, RpPost PROVE TInv'
    OBVIOUS
  <1>1. PICK m \in rpHand : Post(m)
    BY DEF RpPost
  <1>2. wire' \in [Eps -> Seq(1..MaxReports)] /\ settled' \subseteq Submits
    BY <1>1, PostTypes
  <1>3. Outer'
    BY <1>2 DEF TInv, Outer, RpPost, kernel, reader, client
  <1>4. Inner' /\ Hands' /\ Waiters' /\ Cancelled' /\ NoneHeldFromWaiter'
    BY DEF TInv, Inner, Hands, AtMostOne, Waiters, Cancelled, NoneHeldFromWaiter, RpPost,
           kernel, reader, client
  <1> QED
    BY <1>3, <1>4 DEF TInv

LEMMA LeaveTypes == TInv /\ (RdLeave \/ RpLeave \/ DeliverNone \/ UNCHANGED vars) => TInv'
  <1> USE DEF TInv, Inner, Outer, Hands, AtMostOne, Waiters, Cancelled, NoneHeldFromWaiter,
              kernel, reader, reaper, client
  <1>1. TInv /\ RdLeave => TInv'
    BY DEF RdLeave
  <1>2. TInv /\ RpLeave => TInv'
    BY DEF RpLeave
  <1>3. TInv /\ DeliverNone => TInv'
    BY DEF DeliverNone
  <1>4. TInv /\ UNCHANGED vars => TInv'
    BY DEF vars
  <1> QED
    BY <1>1, <1>2, <1>3, <1>4

LEMMA ShutdownTypes ==
  ASSUME TInv, Shutdown
  PROVE  /\ TInv'
         /\ \A a \in Eps : ep'[a].inFlight = 0 /\ ep'[a].captured = <<>>
         /\ \A q \in ISeqs :
              /\ urb'[q].state = urb[q].state
              /\ (urb[q].state # "none" /\ \E a \in Eps : ep[a].inFlight = q)
                   => urb'[q].unlinked
  <1> DEFINE n(a) == [ep[a] EXCEPT !.disabled = TRUE, !.waiting = 0,
                                   !.captured = <<>>, !.inFlight = 0]
             t(q) == urb[q].state # "none" /\ \E a \in Eps : ep[a].inFlight = q
             m(q) == [urb[q] EXCEPT !.unlinked = TRUE]
  <1>1. ASSUME NEW a \in Eps
        PROVE  n(a) \in EpRecord /\ Sound(n(a)) /\ n(a).disabled /\ n(a).waiting = 0
               /\ n(a).captured = <<>> /\ n(a).inFlight = 0
    <2>1. ep[a] \in EpRecord /\ 0 \in 0..MaxSubmits /\ <<>> \in Seq(1..MaxReports)
          /\ Len(<<>>) <= Depth
      BY BoundAssumption, DepthAssumption DEF TInv, Inner
    <2>2. n(a) \in EpRecord /\ n(a).disabled /\ n(a).waiting = 0
          /\ n(a).captured = <<>> /\ n(a).inFlight = 0
      BY <2>1 DEF EpRecord
    <2> HIDE DEF n
    <2> QED
      BY <2>1, <2>2 DEF Sound
  <1>2. ASSUME NEW q \in ISeqs
        PROVE  m(q) \in UrbRecord /\ m(q).state = urb[q].state /\ m(q).ep = urb[q].ep
               /\ m(q).unlinked
    BY DEF TInv, Inner, UrbRecord
  <1>3. /\ ep' = [a \in Eps |-> n(a)]
        /\ urb' = [q \in ISeqs |-> IF t(q) THEN m(q) ELSE urb[q]]
        /\ rdPc' = "down" /\ rdPc = "stop" /\ nextSeq' = nextSeq
    BY DEF Shutdown
  <1> HIDE DEF n, m, t
  <1>4. ep' \in [Eps -> EpRecord] /\ \A a \in Eps : ep'[a] = n(a)
    BY <1>1, <1>3
  <1>5. urb' \in [ISeqs -> UrbRecord]
        /\ \A q \in ISeqs : urb'[q] = IF t(q) THEN m(q) ELSE urb[q]
    BY <1>2, <1>3 DEF TInv, Inner
  <1>6. Inner'
    BY <1>1, <1>2, <1>3, <1>4, <1>5 DEF TInv, Inner
  <1>7. Outer'
    BY <1>3 DEF TInv, Outer, Shutdown, reaper, client
  <1>8. Hands' /\ Waiters' /\ Cancelled' /\ NoneHeldFromWaiter'
    <2>1. Hands'
      BY <1>3 DEF TInv, Hands, AtMostOne, Shutdown, reaper
    <2>2. \A a \in Eps : ep'[a].disabled /\ ep'[a].waiting = 0
      BY <1>1, <1>4
    <2> QED
      BY <1>3, <2>1, <2>2 DEF Waiters, Cancelled, NoneHeldFromWaiter
  <1>9. \A q \in ISeqs : urb'[q].state = urb[q].state /\ (t(q) => urb'[q].unlinked)
    BY <1>2, <1>5
  <1> QED
    BY <1>1, <1>4, <1>6, <1>7, <1>8, <1>9 DEF TInv, t

LEMMA ReapTypes ==
  ASSUME TInv, NEW q \in ISeqs, Reap(q)
  PROVE  /\ TInv'
         /\ urb[q].state = "done" /\ urb'[q].state = "none"
         /\ \A r \in ISeqs : r # q => urb'[r] = urb[r]
         /\ rpUrb = {}
         /\ \/ urb[q].unlinked /\ rpUrb' = {}
            \/ ~urb[q].unlinked /\ \E u \in rpUrb' : /\ rpUrb' = {u} /\ u.seq = q
                                                     /\ u.data = urb[q].data
  <1>1. urb \in [ISeqs -> UrbRecord] /\ urb[q].state = "done" /\ rpPc = "reap"
        /\ urb' = [urb EXCEPT ![q] = NoUrb] /\ rpUrb = {} /\ rpHand = {} /\ ep' = ep
        /\ rdPc' = rdPc /\ nextSeq' = nextSeq /\ urb[q].unlinked \in BOOLEAN
        /\ urb[q].data \in 0..MaxReports
    BY DEF TInv, Inner, Hands, Reap, reader, UrbRecord
  <1>2. NoUrb \in UrbRecord /\ NoUrb.state = "none" /\ ~NoUrb.unlinked
    BY BoundAssumption DEF NoUrb, UrbRecord
  <1>3. urb' \in [ISeqs -> UrbRecord]
        /\ \A r \in ISeqs : urb'[r] = IF r = q THEN NoUrb ELSE urb[r]
    BY <1>1, <1>2
  <1> DEFINE u == [seq |-> q, data |-> urb[q].data]
  <1>4. u \in [seq : ISeqs, data : 0..MaxReports] /\ u.seq = q /\ u.data = urb[q].data
    BY <1>1
  <1>5. \/ urb[q].unlinked /\ rpUrb' = {} /\ rpPc' = rpPc
        \/ ~urb[q].unlinked /\ rpUrb' = {u} /\ rpPc' = "deliver"
    BY <1>1 DEF Reap
  <1> HIDE DEF u
  <1>6. Inner'
    BY <1>1, <1>2, <1>3 DEF TInv, Inner
  <1>7. Outer'
    BY <1>1, <1>4, <1>5 DEF TInv, Outer, Reap, reader, client
  <1>8. Hands'
    BY <1>1, <1>4, <1>5 DEF TInv, Hands, AtMostOne, Reap, reader
  <1>9. Waiters' /\ Cancelled' /\ NoneHeldFromWaiter'
    BY <1>1, <1>2, <1>3
    DEF TInv, Waiters, Cancelled, NoneHeldFromWaiter, Reap, client
  <1> QED
    BY <1>1, <1>2, <1>3, <1>4, <1>5, <1>6, <1>7, <1>8, <1>9 DEF TInv

\* The reaper has called deliver() for u, whose endpoint is a.
LEMMA OweTypes ==
  ASSUME TInv, NEW a \in Eps, NEW u \in rpUrb, Deliverable(a, u),
         NEW kind \in {"data", "error"}, NEW x \in 0..MaxReports, kind = "data" => x # 0,
         Owe(kind, a, x), NEW k, Rearmed(a, k, 0, 0)
  PROVE  /\ TInv'
         /\ rpUrb = {u} /\ rpHand = {}
         /\ ep[a].waiting = 0 => rpHand' = {}
         /\ ep[a].waiting # 0 =>
              \E m \in ReplySet : /\ rpHand' = {m} /\ m.kind = kind /\ m.ep = a
                                  /\ m.seq = ep[a].waiting /\ m.data = x
  <1>1. rpPc = "deliver" /\ rpUrb = {u} /\ rpHand = {} /\ ep[a].inFlight = u.seq /\ u.seq # 0
    BY SeqnumsPositive DEF TInv, Hands, AtMostOne, Deliverable, Outer
  <1>2. ~ep[a].disabled /\ ep[a].waiting \in 0..MaxSubmits
    BY <1>1 DEF TInv, Inner, Sound, EpRecord
  <1>3. rdPc # "down" /\ rdPc' = rdPc /\ rdHand' = rdHand /\ rpUrb' = {}
    BY <1>2 DEF TInv, Cancelled, Owe, reader
  <1>4. Inner' /\ Cancelled' /\ NoneHeldFromWaiter' /\ ep'[a].waiting = 0
        /\ (\A b \in Eps : b # a => ep'[b] = ep[b])
    BY <1>3, RearmTypes
  <1> DEFINE m == Reply(kind, a, ep[a].waiting, x)
  <1>5. CASE ep[a].waiting = 0
    <2>1. rpHand' = {} /\ rpPc' = "reap"
      BY <1>5 DEF Owe
    <2>2. Outer'
      BY <1>3, <2>1 DEF TInv, Outer, Owe, client
    <2>3. Hands' /\ Waiters'
      BY <1>3, <1>4, <2>1 DEF TInv, Hands, AtMostOne, Waiters, Owe, client
    <2> QED
      BY <1>1, <1>4, <1>5, <2>1, <2>2, <2>3 DEF TInv
  <1>6. CASE ep[a].waiting # 0
    <2>1. rpHand' = {m} /\ rpPc' = "post"
      BY <1>6 DEF Owe
    <2>2. ep[a].waiting \in Submits
      BY <1>2, <1>6, BoundAssumption DEF Submits
    <2>3. m \in ReplySet /\ m.kind = kind /\ m.ep = a /\ m.seq = ep[a].waiting /\ m.data = x
      BY <2>2, ReplyIs
    <2> HIDE DEF m
    <2>4. Outer'
      BY <1>3, <2>1, <2>3 DEF TInv, Outer, Owe, client
    <2>5. Hands' /\ Waiters'
      BY <1>3, <1>4, <2>1 DEF TInv, Hands, AtMostOne, Waiters, Owe, client
    <2> QED
      BY <1>1, <1>4, <1>6, <2>1, <2>3, <2>4, <2>5 DEF TInv
  <1> QED
    BY <1>5, <1>6

LEMMA DeliverErrorTypes ==
  ASSUME TInv, NEW a \in Eps, NEW u \in rpUrb, DeliverError(a, u)
  PROVE  /\ TInv'
         /\ rpUrb = {u} /\ rpUrb' = {} /\ rpHand = {} /\ ep[a].inFlight = u.seq /\ u.data = 0
         /\ ep[a].waiting = 0 => rpHand' = {}
         /\ ep[a].waiting # 0 =>
              \E m \in ReplySet : /\ rpHand' = {m} /\ m.kind = "error" /\ m.ep = a
                                  /\ m.seq = ep[a].waiting
         /\ \/ Rearmed(a, ep[a].captured, 0, 0)
            \/ Rearmed(a, <<>>, 0, 0) /\ ep'[a].disabled
  <1>1. PICK k : Rearmed(a, k, 0, 0) /\ (k = ep[a].captured \/ (k = <<>> /\ ep'[a].disabled))
    BY DeliverErrorStep DEF TInv
  <1>2. Deliverable(a, u) /\ Owe("error", a, 0) /\ 0 \in 0..MaxReports /\ u.data = 0
    BY BoundAssumption DEF DeliverError
  <1>3. rpUrb' = {} /\ ep[a].inFlight = u.seq
    BY <1>2 DEF Owe, Deliverable
  <1> QED
    BY <1>1, <1>2, <1>3, OweTypes

LEMMA DeliverReportTypes ==
  ASSUME TInv, NEW a \in Eps, NEW u \in rpUrb, DeliverReport(a, u)
  PROVE  /\ TInv'
         /\ rpUrb = {u} /\ rpUrb' = {} /\ rpHand = {} /\ ep[a].inFlight = u.seq
         /\ u.data \in 1..MaxReports
         /\ ep[a].waiting = 0 => rpHand' = {} /\ Rearmed(a, Capture(ep[a].captured, u.data), 0, 0)
         /\ ep[a].waiting # 0 =>
              /\ Rearmed(a, ep[a].captured, 0, 0)
              /\ \E m \in ReplySet : /\ rpHand' = {m} /\ m.kind = "data" /\ m.ep = a
                                     /\ m.seq = ep[a].waiting /\ m.data = u.data
  <1>1. /\ u.data \in 1..MaxReports
        /\ ep[a].waiting # 0 => Rearmed(a, ep[a].captured, 0, 0)
        /\ ep[a].waiting = 0 => Rearmed(a, Capture(ep[a].captured, u.data), 0, 0)
    BY DeliverReportStep DEF TInv
  <1>2. PICK k : Rearmed(a, k, 0, 0)
    BY <1>1
  <1>3. Deliverable(a, u) /\ Owe("data", a, u.data)
    BY DEF DeliverReport
  <1>4. u.data \in 0..MaxReports /\ u.data # 0
    BY <1>1, BoundAssumption
  <1>5. rpUrb' = {} /\ ep[a].inFlight = u.seq
    BY <1>3 DEF Owe, Deliverable
  <1> QED
    BY <1>1, <1>2, <1>3, <1>4, <1>5, OweTypes

LEMMA NextTypes == TInv /\ [Next]_vars => TInv'
  <1> SUFFICES ASSUME TInv, [Next]_vars PROVE TInv'
    OBVIOUS
  <1>1. CASE Device \/ Unplug
    BY <1>1, DeviceTypes
  <1>2. CASE ReaderStep
    BY <1>2, ArmTypes, TakeReadyTypes, TakeWaitingTypes, PassThroughTypes, UnlinkTypes,
       RdPostTypes, LeaveTypes, ShutdownTypes DEF ReaderStep
  <1>3. CASE ReaperStep
    BY <1>3, ReapTypes, LeaveTypes, DeliverErrorTypes, DeliverReportTypes, RpPostTypes
    DEF ReaperStep
  <1>4. CASE SessionOver \/ UNCHANGED vars
    BY <1>4, LeaveTypes DEF SessionOver
  <1> QED
    BY <1>1, <1>2, <1>3, <1>4 DEF Next

LEMMA TypesAlways == Spec => []TInv
  BY TypeInit, NextTypes, PTL DEF Spec

\* The prefetcher's records keep their types, at most DEPTH reports are held
\* per endpoint and one in use has not used up its errors, whatever the number
\* of endpoints (prefetch.rs Inner).
THEOREM PrefetchTypes == Spec => []TypeOK
  <1>1. TInv => TypeOK
    BY DEF TInv, Inner, Outer, TypeOK, EpRecord, UrbRecord, Sound
  <1> QED
    BY <1>1, TypesAlways, PTL

\* No client waits on an endpoint while a report is held for it, for any
\* number of endpoints, submits in flight and errors (prefetch.rs take,
\* deliver).
THEOREM WaiterIsServed == Spec => []NoneHeldFromWaiter
  BY TypesAlways, PTL DEF TInv

-----------------------------------------------------------------------------
(* No submit is forgotten.                                                 *)

Accounted(c) ==
  \/ c \in settled
  \/ \E a \in Eps : ep[a].waiting = c
  \/ \E m \in rdHand \cup rpHand : m.seq = c

LEMMA ForgottenIs ==
  NoSubmitForgotten <=> ((OneUrb /\ Running) => \A c \in 1..count : Accounted(c))
  BY DEF NoSubmitForgotten, Accounted

\* A client with one submit per endpoint replaces no submit that is still owed.
LEMMA ReaderRemembers ==
  ASSUME TInv, NoSubmitForgotten, OneUrb, Running', ReaderStep, NEW c \in 1..count'
  PROVE  Accounted(c)'
  <1>0. count \in Nat
    BY BoundAssumption DEF TInv, Outer
  <1>1. ASSUME NEW a \in Eps, Arm(a) PROVE FALSE
    BY <1>0, <1>1 DEF Arm, client, TInv, Waiters
  <1>2. ASSUME rdPc \in {"read", "post"}, rpPc' = rpPc, c \in 1..count PROVE Accounted(c)
    BY <1>2, ForgottenIs DEF Running
  <1>3. ASSUME NEW a \in Eps, ReadSubmit(a)
        PROVE  c \in 1..count \/ c = count + 1
    BY <1>0, <1>3 DEF ReadSubmit
  <1>4. ASSUME NEW a \in Eps, ReadSubmit(a)
        PROVE  rdPc = "read" /\ rpPc' = rpPc /\ rpHand' = rpHand /\ rdHand = {}
    BY <1>4 DEF ReadSubmit, reaper, TInv, Hands
  <1>5. ASSUME NEW a \in Eps, TakeReady(a) PROVE Accounted(c)'
    <2>1. ReadSubmit(a) /\ settled' = settled
      BY <1>5 DEF TakeReady
    <2>2. PICK m \in ReplySet : rdHand' = {m} /\ m.seq = count + 1
      BY <1>5, TakeReadyTypes
    <2>3. \A b \in Eps : ep'[b].waiting = ep[b].waiting
      BY <1>5, TakeReadyStep DEF Rearmed, TInv
    <2> QED
      BY <1>2, <1>3, <1>4, <2>1, <2>2, <2>3 DEF Accounted
  <1>6. ASSUME NEW a \in Eps, TakeWaiting(a) PROVE Accounted(c)'
    <2>1. ReadSubmit(a) /\ settled' = settled /\ rdHand' = rdHand
      BY <1>6 DEF TakeWaiting, reader
    <2>2. ep'[a].waiting = count + 1 /\ \A b \in Eps : b # a => ep'[b] = ep[b]
      BY <1>6, TakeWaitingStep DEF Rearmed, TInv
    <2>3. c \in 1..count => (ep[a].waiting = c => c \in settled)
      <3>1. \A d \in 1..count : target[d] = a => d \in settled
        BY <2>1 DEF ReadSubmit, MaySubmit
      <3> QED
        BY <1>0, <3>1 DEF TInv, Waiters
    <2> QED
      BY <1>2, <1>3, <1>4, <2>1, <2>2, <2>3 DEF Accounted
  <1>7. ASSUME NEW a \in Eps, TakePassThrough(a) PROVE Accounted(c)'
    <2>1. ReadSubmit(a) /\ settled' = settled \cup {count + 1} /\ rdHand' = rdHand /\ ep' = ep
      BY <1>7 DEF TakePassThrough, reader
    <2> QED
      BY <1>2, <1>3, <1>4, <2>1 DEF Accounted
  <1>8. ASSUME NEW d \in Submits, Unlink(d) PROVE Accounted(c)'
    <2>1. rdPc = "read" /\ rpPc' = rpPc /\ rpHand' = rpHand /\ rdHand = {} /\ settled' = settled
          /\ count' = count
      BY <1>8 DEF Unlink, reaper, TInv, Hands
    <2>2. PICK m \in ReplySet : rdHand' = {m} /\ m.seq = d
      BY <1>8, UnlinkTypes
    <2>3. \A a \in Eps : ep'[a].waiting = IF ep[a].waiting = d THEN 0 ELSE ep[a].waiting
      BY <1>8, UnlinkTypes
    <2> QED
      BY <1>2, <2>1, <2>2, <2>3 DEF Accounted
  <1>9. CASE RdPost
    <2>1. PICK m \in rdHand : Post(m)
      BY <1>9 DEF RdPost
    <2>2. settled' = settled \cup {m.seq} /\ \A n \in rdHand : n = m
      BY <2>1 DEF Post, TInv, Hands, AtMostOne
    <2>3. rdPc = "post" /\ rpPc' = rpPc /\ rpHand' = rpHand /\ ep' = ep /\ count' = count
      BY <1>9 DEF RdPost, reaper, client
    <2> QED
      BY <1>2, <2>2, <2>3 DEF Accounted
  <1>10. CASE RdLeave \/ Shutdown
    BY <1>10 DEF RdLeave, Shutdown, Running
  <1> QED
    BY <1>1, <1>5, <1>6, <1>7, <1>8, <1>9, <1>10 DEF ReaderStep

LEMMA ReaperRemembers ==
  ASSUME TInv, NoSubmitForgotten, OneUrb, Running', ReaperStep, NEW c \in 1..count'
  PROVE  Accounted(c)'
  <1>0. rdPc' = rdPc /\ rdHand' = rdHand /\ count' = count
    BY DEF ReaperStep, Reap, DeliverNone, DeliverError, DeliverReport, Owe, RpPost, RpLeave,
           reader, client
  <1>1. rpPc # "dead" => Accounted(c)
    BY <1>0, ForgottenIs DEF Running
  <1>2. ASSUME NEW q \in ISeqs, Reap(q) PROVE Accounted(c)'
    BY <1>0, <1>1, <1>2 DEF Reap, Accounted
  <1>3. CASE DeliverNone
    BY <1>0, <1>1, <1>3 DEF DeliverNone, Accounted
  <1>4. ASSUME NEW a \in Eps, NEW u \in rpUrb, DeliverError(a, u) \/ DeliverReport(a, u)
        PROVE  Accounted(c)'
    <2>1. /\ rpPc = "deliver" /\ settled' = settled /\ rpHand = {}
      BY <1>4, DeliverErrorTypes, DeliverReportTypes
      DEF DeliverError, DeliverReport, Deliverable, Owe
    <2>2. \A b \in Eps : b # a => ep'[b] = ep[b]
      BY <1>4, DeliverErrorTypes, DeliverReportTypes DEF Rearmed
    <2>3. ep[a].waiting # 0 => \E m \in rpHand' : m.seq = ep[a].waiting
      BY <1>4, DeliverErrorTypes, DeliverReportTypes
    <2>4. c # 0
      BY <1>0, BoundAssumption DEF TInv, Outer
    <2> QED
      BY <1>0, <1>1, <2>1, <2>2, <2>3, <2>4 DEF Accounted
  <1>5. CASE RpPost
    <2>1. PICK m \in rpHand : Post(m)
      BY <1>5 DEF RpPost
    <2>2. settled' = settled \cup {m.seq} /\ \A n \in rpHand : n = m
      BY <2>1 DEF Post, TInv, Hands, AtMostOne
    <2>3. rpPc = "post" /\ ep' = ep
      BY <1>5 DEF RpPost
    <2> QED
      BY <1>0, <1>1, <2>2, <2>3 DEF Accounted
  <1>6. CASE RpLeave
    BY <1>6 DEF RpLeave, Running
  <1> QED
    BY <1>2, <1>3, <1>4, <1>5, <1>6 DEF ReaperStep

LEMMA OthersRemember ==
  ASSUME NoSubmitForgotten, Device \/ Unplug \/ SessionOver \/ UNCHANGED vars
  PROVE  NoSubmitForgotten'
  <1>1. UNCHANGED <<ep, rdPc, rdHand, rpPc, rpHand, count, settled>>
    BY DEF Device, DeviceReport, DeviceError, Complete, Unplug, SessionOver, vars, reader,
           reaper, client
  <1> QED
    BY <1>1 DEF NoSubmitForgotten, Running

\* With one submit per endpoint no submit is ever forgotten while both threads
\* run, for any number of endpoints: take() replaces only a waiter that has
\* been settled, and deliver() and unlink() answer for every waiter they
\* remove (prefetch.rs:182-188).
THEOREM SubmitsAreRemembered == Spec => []NoSubmitForgotten
  <1>1. Init => NoSubmitForgotten
    BY DEF Init, NoSubmitForgotten, Running
  <1>2. TInv /\ NoSubmitForgotten /\ [Next]_vars => NoSubmitForgotten'
    <2> SUFFICES ASSUME TInv, NoSubmitForgotten, [Next]_vars PROVE NoSubmitForgotten'
      OBVIOUS
    <2>1. CASE ReaderStep \/ ReaperStep
      <3>1. ((OneUrb /\ Running) => \A c \in 1..count : Accounted(c))'
        BY <2>1, ReaderRemembers, ReaperRemembers
      <3> QED
        BY <3>1 DEF NoSubmitForgotten, Accounted
    <2> QED
      BY <2>1, OthersRemember DEF Next
  <1> QED
    BY <1>1, <1>2, TypesAlways, PTL DEF Spec

-----------------------------------------------------------------------------
(* The internal URBs and the seqnums.                                      *)

LEMMA FlyingIs ==
  ASSUME TInv, NEW a \in Eps, urb' = [urb EXCEPT ![nextSeq] = Flying(a)]
  PROVE  /\ \A q \in ISeqs : q # nextSeq => urb'[q] = urb[q]
         /\ urb'[nextSeq].state = "flying" /\ urb'[nextSeq].ep = a
         /\ urb'[nextSeq].data = 0 /\ ~urb'[nextSeq].unlinked
         /\ nextSeq \in ISeqs /\ nextSeq # 0
  BY SeqnumsPositive DEF TInv, Inner, Flying

\* arm() and take(): the reaper's completion, if it has one, stays with it.
LEMMA KnownTake ==
  ASSUME TInv, Known, SeqnumRests, NEW a \in Eps, NEW k, NEW w,
         Rearmed(a, k, w, ep[a].inFlight), rpUrb' = rpUrb, rdPc # "down", rdPc' # "down"
  PROVE  Known'
  <1>0. \A b \in Eps : b # a => ep'[b] = ep[b]
    BY DEF Rearmed
  <1>1. CASE ep'[a].inFlight = ep[a].inFlight /\ urb' = urb
    <2>1. \A b \in Eps : ep'[b].inFlight = ep[b].inFlight
      BY <1>0, <1>1
    <2> QED
      BY <1>1, <2>1 DEF Known, UrbsAreKnown, TInv, Inner
  <1>2. CASE /\ ep[a].inFlight = 0 /\ ~ep[a].disabled /\ urb[nextSeq].state = "none"
             /\ ep'[a].inFlight = nextSeq /\ urb' = [urb EXCEPT ![nextSeq] = Flying(a)]
    <2>1. /\ \A q \in ISeqs : q # nextSeq => urb'[q] = urb[q]
          /\ urb'[nextSeq].state = "flying" /\ urb'[nextSeq].ep = a /\ ~urb'[nextSeq].unlinked
          /\ nextSeq \in ISeqs /\ nextSeq # 0
      BY <1>2, FlyingIs
    <2>2. \A u \in rpUrb : u.seq # nextSeq
      BY <1>2 DEF SeqnumRests, CanArm
    <2>3. \A b \in Eps : ep[b].inFlight # nextSeq
      BY <1>2, <2>1, <2>2 DEF Known
    <2>4. UrbsAreKnown'
      <3> SUFFICES ASSUME NEW q \in ISeqs, urb'[q].state # "none", ~urb'[q].unlinked
                   PROVE  ep'[urb'[q].ep].inFlight = q
        BY DEF UrbsAreKnown
      <3>1. CASE q = nextSeq
        BY <1>2, <2>1, <3>1
      <3>2. CASE q # nextSeq
        <4>1. urb'[q] = urb[q] /\ ep[urb[q].ep].inFlight = q /\ urb[q].ep \in Eps /\ q # 0
          BY <2>1, <3>2, SeqnumsPositive DEF Known, UrbsAreKnown, TInv, Inner
        <4> QED
          BY <1>0, <1>2, <4>1
      <3> QED
        BY <3>1, <3>2
    <2>5. \A u \in rpUrb' : urb'[u.seq].state = "none" /\ \E b \in Eps : ep'[b].inFlight = u.seq
      <3> SUFFICES ASSUME NEW u \in rpUrb
                   PROVE  urb'[u.seq].state = "none" /\ \E b \in Eps : ep'[b].inFlight = u.seq
        OBVIOUS
      <3>1. u.seq \in ISeqs /\ u.seq # 0 /\ urb[u.seq].state = "none"
            /\ \E b \in Eps : ep[b].inFlight = u.seq
        BY SeqnumsPositive DEF TInv, Outer, Known
      <3>2. urb'[u.seq] = urb[u.seq]
        BY <2>1, <2>2, <3>1
      <3> QED
        BY <1>0, <1>2, <3>1, <3>2
    <2>6. \A b \in Eps : ep'[b].inFlight # 0 =>
            \/ /\ urb'[ep'[b].inFlight].state # "none" /\ urb'[ep'[b].inFlight].ep = b
               /\ ~urb'[ep'[b].inFlight].unlinked
            \/ \E u \in rpUrb' : u.seq = ep'[b].inFlight
      <3> SUFFICES ASSUME NEW b \in Eps, ep'[b].inFlight # 0
                   PROVE  \/ /\ urb'[ep'[b].inFlight].state # "none" /\ urb'[ep'[b].inFlight].ep = b
                             /\ ~urb'[ep'[b].inFlight].unlinked
                          \/ \E u \in rpUrb' : u.seq = ep'[b].inFlight
        OBVIOUS
      <3>1. CASE b = a
        BY <1>2, <2>1, <3>1
      <3>2. CASE b # a
        <4>1. ep'[b] = ep[b] /\ ep[b].inFlight \in ISeqs /\ ep[b].inFlight # nextSeq
          BY <1>0, <2>3, <3>2 DEF TInv, Inner, EpRecord
        <4>2. urb'[ep[b].inFlight] = urb[ep[b].inFlight]
          BY <2>1, <4>1
        <4> QED
          BY <4>1, <4>2 DEF Known
      <3> QED
        BY <3>1, <3>2
    <2>7. \A b, c \in Eps : ep'[b].inFlight # 0 /\ ep'[b].inFlight = ep'[c].inFlight => b = c
      BY <1>0, <1>2, <2>3 DEF Known
    <2> QED
      BY <2>4, <2>5, <2>6, <2>7 DEF Known
  <1> QED
    BY <1>1, <1>2 DEF Rearmed

\* deliver(): the endpoint whose completion u was gets another URB or none.
LEMMA KnownDeliver ==
  ASSUME TInv, Known, NEW a \in Eps, NEW u \in rpUrb, ep[a].inFlight = u.seq,
         rpUrb = {u}, rpUrb' = {}, rdPc' = rdPc, NEW k, Rearmed(a, k, 0, 0)
  PROVE  Known'
  <1>0. \A b \in Eps : b # a => ep'[b] = ep[b]
    BY DEF Rearmed
  <1>1. u.seq \in ISeqs /\ u.seq # 0 /\ urb[u.seq].state = "none"
        /\ \A b \in Eps : ep[b].inFlight = u.seq => b = a
    BY SeqnumsPositive DEF TInv, Outer, Known
  <1>2. ~ep[a].disabled
    BY <1>1 DEF TInv, Inner, Sound
  <1>3. \A b \in Eps : (b # a /\ ep[b].inFlight # 0) =>
          /\ urb[ep[b].inFlight].state # "none" /\ urb[ep[b].inFlight].ep = b
          /\ ~urb[ep[b].inFlight].unlinked
    BY <1>1 DEF Known
  <1>4. \A q \in ISeqs : (urb[q].state # "none" /\ ~urb[q].unlinked) =>
          rdPc # "down" /\ urb[q].ep \in Eps /\ urb[q].ep # a /\ ep[urb[q].ep].inFlight = q
    BY <1>1 DEF Known, UrbsAreKnown, TInv, Inner
  <1>5. CASE ep'[a].inFlight = 0 /\ urb' = urb
    <2>1. UrbsAreKnown'
      BY <1>0, <1>4, <1>5 DEF UrbsAreKnown
    <2>2. \A b \in Eps : ep'[b].inFlight # 0 => b # a /\ ep'[b] = ep[b]
      BY <1>0, <1>5
    <2> QED
      BY <1>3, <1>5, <2>1, <2>2 DEF Known
  <1>6. CASE /\ urb[nextSeq].state = "none"
             /\ ep'[a].inFlight = nextSeq /\ urb' = [urb EXCEPT ![nextSeq] = Flying(a)]
    <2>1. /\ \A q \in ISeqs : q # nextSeq => urb'[q] = urb[q]
          /\ urb'[nextSeq].state = "flying" /\ urb'[nextSeq].ep = a /\ ~urb'[nextSeq].unlinked
          /\ nextSeq \in ISeqs /\ nextSeq # 0
      BY <1>6, FlyingIs
    <2>2. \A b \in Eps : b # a => ep[b].inFlight # nextSeq
      BY <1>3, <1>6, <2>1
    <2>3. UrbsAreKnown'
      <3>1. rdPc # "down"
        BY <1>2 DEF TInv, Cancelled
      <3> QED
        BY <1>0, <1>4, <1>6, <2>1, <3>1 DEF UrbsAreKnown
    <2>4. \A b \in Eps : ep'[b].inFlight # 0 =>
            /\ urb'[ep'[b].inFlight].state # "none" /\ urb'[ep'[b].inFlight].ep = b
            /\ ~urb'[ep'[b].inFlight].unlinked
      <3> SUFFICES ASSUME NEW b \in Eps, b # a, ep[b].inFlight # 0
                   PROVE  /\ urb'[ep[b].inFlight].state # "none" /\ urb'[ep[b].inFlight].ep = b
                          /\ ~urb'[ep[b].inFlight].unlinked
        BY <1>0, <1>6, <2>1
      <3>1. ep[b].inFlight \in ISeqs
        BY DEF TInv, Inner, EpRecord
      <3> QED
        BY <1>3, <2>1, <2>2, <3>1
    <2>5. \A b, c \in Eps : ep'[b].inFlight # 0 /\ ep'[b].inFlight = ep'[c].inFlight => b = c
      BY <1>0, <1>6, <2>2 DEF Known
    <2> QED
      BY <2>3, <2>4, <2>5 DEF Known
  <1> QED
    BY <1>5, <1>6 DEF Rearmed

LEMMA KnownReader ==
  ASSUME TInv, Known, SeqnumRests, ReaderStep
  PROVE  Known'
  <1>1. ASSUME NEW a \in Eps, Arm(a) PROVE Known'
    <2>1. rpUrb' = rpUrb /\ rdPc = "arm" /\ rdPc' \in {"arm", "read"}
      BY <1>1 DEF Arm, reaper
    <2> QED
      BY <1>1, <2>1, ArmStep, KnownTake DEF TInv
  <1>2. ASSUME NEW a \in Eps, TakeReady(a) PROVE Known'
    <2>1. rpUrb' = rpUrb /\ rdPc = "read" /\ rdPc' = "post"
      BY <1>2 DEF TakeReady, ReadSubmit, reaper
    <2> QED
      BY <1>2, <2>1, TakeReadyStep, KnownTake DEF TInv
  <1>3. ASSUME NEW a \in Eps, TakeWaiting(a) PROVE Known'
    <2>1. rpUrb' = rpUrb /\ rdPc = "read" /\ rdPc' = "read"
      BY <1>3 DEF TakeWaiting, ReadSubmit, reaper, reader
    <2> QED
      BY <1>3, <2>1, TakeWaitingStep, KnownTake DEF TInv
  <1>4. ASSUME NEW c \in Submits, Unlink(c) PROVE Known'
    <2>1. urb' = urb /\ rpUrb' = rpUrb /\ rdPc = "read" /\ rdPc' = "post"
      BY <1>4 DEF Unlink, kernel, reaper
    <2>2. \A a \in Eps : ep'[a].inFlight = ep[a].inFlight
      BY <1>4, UnlinkTypes
    <2> QED
      BY <2>1, <2>2 DEF Known, UrbsAreKnown, TInv, Inner
  <1>5. ASSUME ep' = ep, urb' = urb, rpUrb' = rpUrb, rdPc # "down", rdPc' # "down" PROVE Known'
    BY <1>5 DEF Known, UrbsAreKnown
  <1>6. CASE (\E a \in Eps : TakePassThrough(a)) \/ RdPost \/ RdLeave
    BY <1>5, <1>6 DEF TakePassThrough, ReadSubmit, RdPost, RdLeave, kernel, reader, reaper
  <1>7. CASE Shutdown
    <2>1. rdPc = "stop" /\ rdPc' = "down" /\ rpUrb' = rpUrb
      BY <1>7 DEF Shutdown, reaper
    <2>2. /\ \A a \in Eps : ep'[a].inFlight = 0
          /\ \A q \in ISeqs :
              /\ urb'[q].state = urb[q].state
              /\ (urb[q].state # "none" /\ \E a \in Eps : ep[a].inFlight = q)
                   => urb'[q].unlinked
      BY <1>7, ShutdownTypes
    <2>3. \A q \in ISeqs : urb[q].state # "none" => \E a \in Eps : ep[a].inFlight = q
      BY <2>1 DEF TInv, Inner, Cancelled, Known, UrbsAreKnown
    <2>4. UrbsAreKnown'
      BY <2>2, <2>3 DEF UrbsAreKnown
    <2>5. \A u \in rpUrb' : urb'[u.seq].state = "none"
      BY <2>1, <2>2 DEF TInv, Outer, Known
    <2> QED
      BY <2>1, <2>2, <2>4, <2>5 DEF Known
  <1> QED
    BY <1>1, <1>2, <1>3, <1>4, <1>6, <1>7 DEF ReaderStep

LEMMA KnownReaper ==
  ASSUME TInv, Known, ReaperStep
  PROVE  Known'
  <1>1. ASSUME NEW q \in ISeqs, Reap(q) PROVE Known'
    <2>1. ep' = ep /\ rdPc' = rdPc
      BY <1>1 DEF Reap, reader
    <2>2. /\ urb[q].state = "done" /\ urb'[q].state = "none" /\ rpUrb = {}
          /\ \A r \in ISeqs : r # q => urb'[r] = urb[r]
      BY <1>1, ReapTypes
    <2>3. UrbsAreKnown'
      BY <2>1, <2>2 DEF Known, UrbsAreKnown
    <2>4. \A a \in Eps : ep[a].inFlight # 0 /\ ep[a].inFlight # q =>
            /\ urb'[ep[a].inFlight].state # "none" /\ urb'[ep[a].inFlight].ep = a
            /\ ~urb'[ep[a].inFlight].unlinked
      BY <2>2 DEF Known, TInv, Inner, EpRecord
    <2>5. CASE urb[q].unlinked
      <3>1. rpUrb' = {} /\ \A a \in Eps : ep[a].inFlight = 0
        BY <1>1, <2>5, ReapTypes DEF TInv, Inner, Sound, Cancelled
      <3> QED
        BY <2>1, <2>3, <3>1 DEF Known
    <2>6. CASE ~urb[q].unlinked
      <3>1. PICK u \in rpUrb' : rpUrb' = {u} /\ u.seq = q
        BY <1>1, <2>6, ReapTypes
      <3>2. urb[q].ep \in Eps /\ ep[urb[q].ep].inFlight = q
        BY <2>2, <2>6 DEF Known, UrbsAreKnown, TInv, Inner
      <3> QED
        BY <2>1, <2>2, <2>3, <2>4, <3>1, <3>2 DEF Known
    <2> QED
      BY <2>5, <2>6
  <1>2. CASE DeliverNone
    <2>1. ep' = ep /\ urb' = urb /\ rdPc' = rdPc /\ rpUrb' = {}
          /\ \A u \in rpUrb : \A a \in Eps : ep[a].inFlight # u.seq
      BY <1>2 DEF DeliverNone, kernel, reader
    <2> QED
      BY <2>1 DEF Known, UrbsAreKnown
  <1>3. ASSUME NEW a \in Eps, NEW u \in rpUrb, DeliverError(a, u) \/ DeliverReport(a, u)
        PROVE  Known'
    <2>1. rdPc' = rdPc
      BY <1>3 DEF DeliverError, DeliverReport, Owe, reader
    <2>2. rpUrb = {u} /\ rpUrb' = {} /\ ep[a].inFlight = u.seq
      BY <1>3, DeliverErrorTypes, DeliverReportTypes
    <2>3. PICK k : Rearmed(a, k, 0, 0)
      BY <1>3, DeliverErrorTypes, DeliverReportTypes
    <2> QED
      BY <2>1, <2>2, <2>3, KnownDeliver
  <1>4. CASE RpPost \/ RpLeave
    BY <1>4 DEF RpPost, RpLeave, kernel, reader, Known, UrbsAreKnown
  <1> QED
    BY <1>1, <1>2, <1>3, <1>4 DEF ReaperStep

LEMMA KnownOthers ==
  ASSUME TInv, Known, Device \/ Unplug \/ SessionOver \/ UNCHANGED vars
  PROVE  Known'
  <1>1. ASSUME NEW q \in ISeqs, NEW x \in 0..MaxReports, Complete(q, x),
               made' \in [Eps -> 0..MaxReports]
        PROVE  Known'
    <2>1. ep' = ep /\ rdPc' = rdPc /\ rpUrb' = rpUrb
      BY <1>1 DEF Complete, reader, reaper
    <2>2. /\ \A r \in ISeqs : r # q => urb'[r] = urb[r]
          /\ urb[q].state = "flying" /\ urb'[q].state = "done"
          /\ urb'[q].ep = urb[q].ep /\ urb'[q].unlinked = urb[q].unlinked
      BY <1>1, CompleteTypes
    <2>3. \A r \in ISeqs : (urb'[r].state = "none" <=> urb[r].state = "none")
            /\ urb'[r].ep = urb[r].ep /\ urb'[r].unlinked = urb[r].unlinked
      BY <2>2
    <2>4. UrbsAreKnown' /\ \A u \in rpUrb' : urb'[u.seq].state = "none"
      <3>1. \A u \in rpUrb : u.seq \in ISeqs /\ urb[u.seq].state = "none"
        BY DEF Known, TInv, Outer
      <3>2. \A u \in rpUrb' : urb'[u.seq].state = "none"
        BY <2>1, <2>3, <3>1
      <3>3. UrbsAreKnown'
        BY <2>1, <2>3 DEF Known, UrbsAreKnown
      <3> QED
        BY <3>2, <3>3
    <2>5. \A a \in Eps : ep'[a].inFlight # 0 => ep'[a].inFlight \in ISeqs
      BY <2>1 DEF TInv, Inner, EpRecord
    <2> QED
      BY <2>1, <2>3, <2>4, <2>5 DEF Known
  <1>2. ASSUME NEW q \in ISeqs, DeviceReport(q) PROVE Known'
    <2>1. made[urb[q].ep] + 1 \in 0..MaxReports
      BY <1>2, DeviceReportIs, BoundAssumption
    <2> QED
      BY <1>1, <1>2, <2>1, DeviceReportIs
  <1>3. ASSUME NEW q \in ISeqs, DeviceError(q) PROVE Known'
    <2>1. made' \in [Eps -> 0..MaxReports] /\ Complete(q, 0) /\ 0 \in 0..MaxReports
      BY <1>3, BoundAssumption DEF TInv, Outer, DeviceError
    <2> QED
      BY <1>1, <2>1
  <1>4. CASE Unplug \/ SessionOver \/ UNCHANGED vars
    BY <1>4 DEF Unplug, SessionOver, vars, kernel, reader, reaper, Known, UrbsAreKnown
  <1> QED
    BY <1>2, <1>3, <1>4 DEF Device

LEMMA KnownInit == Init => Known
  BY SeqnumsPositive DEF Init, Known, UrbsAreKnown, NewEndpoint, NoUrb

LEMMA KnownNext == TInv /\ Known /\ SeqnumRests /\ [Next]_vars => Known'
  BY KnownReader, KnownReaper, KnownOthers DEF Next

\* Every internal URB that the reaper would deliver is the one its endpoint
\* has in flight, and none is left after shutdown(), for any number of
\* endpoints, provided the counter does not come round to a seqnum whose
\* completion has been reaped and not yet delivered (prefetch.rs:275-289,
\* 316).
THEOREM UrbsStayKnown == Spec /\ []SeqnumRests => []UrbsAreKnown
  <1>1. Spec /\ []SeqnumRests => []Known
    BY KnownInit, KnownNext, TypesAlways, PTL DEF Spec
  <1>2. Known => UrbsAreKnown
    BY DEF Known
  <1> QED
    BY <1>1, <1>2, PTL

\* With one endpoint the seqnum of an undelivered completion is safe however
\* often the counter comes round: the endpoint that could be armed with it is
\* the one that waits for it (prefetch.rs arm_one).
THEOREM OneEndpointRests ==
  ASSUME \A a, b \in Eps : a = b
  PROVE  Spec => []SeqnumRests
  <1>1. TInv /\ Known => SeqnumRests
    <2> SUFFICES ASSUME TInv, Known, NEW u \in rpUrb, NEW b \in Eps PROVE ~CanArm(ep[b])
      BY DEF SeqnumRests
    <2>1. CASE rdPc = "down"
      BY <2>1 DEF TInv, Cancelled, CanArm
    <2>2. CASE \E a \in Eps : ep[a].inFlight = u.seq
      <3>1. u.seq # 0
        BY SeqnumsPositive DEF TInv, Outer
      <3> QED
        BY <2>2, <3>1 DEF CanArm
    <2> QED
      BY <2>1, <2>2 DEF Known
  <1> QED
    BY <1>1, KnownInit, KnownNext, TypesAlways, PTL DEF Spec

\* Every seqnum in use is below the counter.
Below ==
  /\ \A q \in ISeqs : urb[q].state # "none" => q < nextSeq
  /\ \A u \in rpUrb : u.seq < nextSeq

LEMMA BelowRearmed ==
  ASSUME TInv, Below, nextSeq # Top, NEW a \in Eps, NEW k, NEW w, NEW f, Rearmed(a, k, w, f),
         rpUrb' \subseteq rpUrb
  PROVE  Below'
  <1>1. CASE urb' = urb /\ nextSeq' = nextSeq
    BY <1>1 DEF Below
  <1>2. CASE urb' = [urb EXCEPT ![nextSeq] = Flying(a)] /\ nextSeq' = AfterSeq(nextSeq)
    <2>1. \A q \in ISeqs : q # nextSeq => urb'[q] = urb[q]
      BY <1>2, FlyingIs
    <2>2. nextSeq' = nextSeq + 1
      BY <1>2 DEF AfterSeq
    <2>3. nextSeq \in Nat /\ (\A q \in ISeqs : q \in Nat) /\ \A u \in rpUrb : u.seq \in ISeqs
      BY SeqnumsPositive DEF TInv, Inner, Outer
    <2> QED
      BY <2>1, <2>2, <2>3 DEF Below
  <1> QED
    BY <1>1, <1>2 DEF Rearmed

LEMMA BelowNext == TInv /\ Below /\ nextSeq # Top /\ [Next]_vars => Below'
  <1> SUFFICES ASSUME TInv, Below, nextSeq # Top, [Next]_vars PROVE Below'
    OBVIOUS
  <1>1. ASSUME NEW q \in ISeqs, NEW x \in 0..MaxReports, Complete(q, x),
               made' \in [Eps -> 0..MaxReports]
        PROVE  Below'
    BY <1>1, CompleteTypes DEF Complete, reaper, Below
  <1>2. CASE Device
    <2>1. ASSUME NEW q \in ISeqs, DeviceReport(q) PROVE Below'
      <3>1. made[urb[q].ep] + 1 \in 0..MaxReports
        BY <2>1, DeviceReportIs, BoundAssumption
      <3> QED
        BY <1>1, <2>1, <3>1, DeviceReportIs
    <2>2. ASSUME NEW q \in ISeqs, DeviceError(q) PROVE Below'
      <3>1. made' \in [Eps -> 0..MaxReports] /\ Complete(q, 0) /\ 0 \in 0..MaxReports
        BY <2>2, BoundAssumption DEF TInv, Outer, DeviceError
      <3> QED
        BY <1>1, <3>1
    <2> QED
      BY <1>2, <2>1, <2>2 DEF Device
  <1>3. ASSUME UNCHANGED <<urb, nextSeq>>, rpUrb' \subseteq rpUrb PROVE Below'
    BY <1>3 DEF Below
  <1>4. CASE Unplug \/ SessionOver \/ UNCHANGED vars
    BY <1>3, <1>4 DEF Unplug, SessionOver, vars, kernel, reaper
  <1>5. CASE ReaderStep
    <2>1. rpUrb' = rpUrb
      BY <1>5 DEF ReaderStep, Arm, TakeReady, TakeWaiting, TakePassThrough, ReadSubmit, Unlink,
                  RdPost, RdLeave, Shutdown, reaper
    <2>2. ASSUME NEW a \in Eps, Arm(a) \/ TakeReady(a) \/ TakeWaiting(a) PROVE Below'
      <3>1. \E k, w, f : Rearmed(a, k, w, f)
        BY <2>2, ArmStep, TakeReadyStep, TakeWaitingStep DEF TInv
      <3> QED
        BY <2>1, <3>1, BelowRearmed
    <2>3. CASE Shutdown
      <3>1. nextSeq' = nextSeq /\ \A q \in ISeqs : urb'[q].state = urb[q].state
        BY <2>3, ShutdownTypes DEF Shutdown
      <3> QED
        BY <2>1, <3>1 DEF Below
    <2>4. CASE (\E a \in Eps : TakePassThrough(a)) \/ (\E c \in Submits : Unlink(c))
               \/ RdPost \/ RdLeave
      BY <1>3, <2>1, <2>4 DEF TakePassThrough, Unlink, RdPost, RdLeave, kernel
    <2> QED
      BY <1>5, <2>2, <2>3, <2>4 DEF ReaderStep
  <1>6. CASE ReaperStep
    <2>1. ASSUME NEW q \in ISeqs, Reap(q) PROVE Below'
      <3>1. nextSeq' = nextSeq
        BY <2>1 DEF Reap
      <3>2. /\ urb[q].state = "done" /\ urb'[q].state = "none"
            /\ \A r \in ISeqs : r # q => urb'[r] = urb[r]
            /\ rpUrb' = {} \/ \E u \in rpUrb' : rpUrb' = {u} /\ u.seq = q
        BY <2>1, ReapTypes
      <3> QED
        BY <3>1, <3>2 DEF Below
    <2>2. ASSUME NEW a \in Eps, NEW u \in rpUrb, DeliverError(a, u) \/ DeliverReport(a, u)
          PROVE  Below'
      <3>1. rpUrb' = {} /\ \E k, w, f : Rearmed(a, k, w, f)
        BY <2>2, DeliverErrorTypes, DeliverReportTypes
      <3> QED
        BY <3>1, BelowRearmed
    <2>3. CASE DeliverNone \/ RpPost \/ RpLeave
      BY <1>3, <2>3 DEF DeliverNone, RpPost, RpLeave, kernel
    <2> QED
      BY <1>6, <2>1, <2>2, <2>3 DEF ReaperStep
  <1> QED
    BY <1>2, <1>4, <1>5, <1>6 DEF Next

\* With any number of endpoints the seqnum of an undelivered completion is safe
\* until the counter has used up its range, 2^31 URBs (prefetch.rs:316).
THEOREM NoWrapRests == Spec /\ [](nextSeq # Top) => []SeqnumRests
  <1>1. Init => Below
    BY DEF Init, Below, NoUrb
  <1>2. TInv /\ Below => SeqnumRests
    <2> SUFFICES ASSUME TInv, Below, NEW u \in rpUrb PROVE u.seq # nextSeq
      BY DEF SeqnumRests
    <2>1. u.seq \in Nat /\ nextSeq \in Nat /\ u.seq < nextSeq
      BY SeqnumsPositive DEF TInv, Inner, Outer, Below
    <2> QED
      BY <2>1
  <1> QED
    BY <1>1, <1>2, BelowNext, TypesAlways, PTL DEF Spec

-----------------------------------------------------------------------------
(* The order of an endpoint's reports.                                     *)

LEMMA OrderedShrinks ==
  ASSUME NEW s \in Seq(Reports), NEW H \in SUBSET Reports, NEW k \in Seq(Reports),
         NEW P \in SUBSET Reports, NEW n \in Nat, Ordered(s, H, k, P, n),
         NEW H2 \in SUBSET H, NEW P2 \in SUBSET P, NEW n2 \in Nat, n2 >= n
  PROVE  Ordered(s, H2, k, P2, n2) /\ Ordered(s, H2, <<>>, P2, n2)
  <1>1. \A i \in 1..Len(s) : s[i] \in Nat
    BY BoundAssumption, ElementOf DEF Reports
  <1>2. \A j \in 1..Len(k) : k[j] \in Nat
    BY BoundAssumption, ElementOf DEF Reports
  <1>3. (\A x \in H : x \in Nat) /\ \A x \in P : x \in Nat
    BY DEF Reports
  <1>4. Ordered(s, H2, k, P2, n2)
    BY <1>1, <1>2, <1>3 DEF Ordered
  <1>5. Len(<<>>) = 0 /\ 1..0 = {}
    OBVIOUS
  <1>6. Ordered(s, H2, <<>>, P2, n2)
    BY <1>4, <1>5 DEF Ordered, Rising
  <1> QED
    BY <1>4, <1>6

LEMMA OrderedTakes ==
  ASSUME NEW s \in Seq(Reports), NEW k \in Seq(Reports), NEW P \in SUBSET Reports,
         NEW n \in Nat, Ordered(s, {}, k, P, n), k # <<>>
  PROVE  Ordered(s, {k[1]}, Tail(k), P, n)
  <1>1. /\ Tail(k) \in Seq(Reports) /\ Len(Tail(k)) = Len(k) - 1
        /\ Len(k) \in Nat /\ Len(k) > 0
        /\ \A i \in 1..(Len(k) - 1) : Tail(k)[i] = k[i + 1]
    BY TailIs DEF Reports
  <1> DEFINE t == Tail(k)
  <1>2. Len(t) = Len(k) - 1 /\ \A i \in 1..Len(t) : t[i] = k[i + 1] /\ i + 1 \in 1..Len(k)
    BY <1>1
  <1>3. 1 \in 1..Len(k)
    BY <1>1
  <1> HIDE DEF t
  <1>4. Rising(t)
    BY <1>1, <1>2 DEF Ordered, Rising
  <1>5. \A j \in 1..Len(t) : k[1] < t[j]
    BY <1>1, <1>2, <1>3 DEF Ordered, Rising
  <1>6. Ordered(s, {k[1]}, t, P, n)
    BY <1>2, <1>3, <1>4, <1>5 DEF Ordered
  <1> QED
    BY <1>6 DEF t

LEMMA OrderedCaptures ==
  ASSUME NEW s \in Seq(Reports), NEW H \in SUBSET Reports, NEW k \in Seq(Reports),
         Len(k) <= Depth, NEW P \in SUBSET Reports, NEW n \in Nat, Ordered(s, H, k, P, n),
         NEW x \in P
  PROVE  Ordered(s, H, Capture(k, x), {}, n)
  <1>0. x \in Reports /\ Len(k) \in Nat /\ Depth \in Nat /\ Depth > 0
    BY DepthAssumption
  <1> DEFINE t == Capture(k, x)
  <1>a. /\ Len(k) = Depth =>
             /\ Len(t) = Len(k)
             /\ \A i \in 1..Len(k) : t[i] = IF i = Len(k) THEN x ELSE k[i + 1]
        /\ Len(k) < Depth =>
             /\ Len(t) = Len(k) + 1
             /\ \A i \in 1..(Len(k) + 1) : t[i] = IF i = Len(k) + 1 THEN x ELSE k[i]
    BY <1>0, CaptureAppends DEF Reports
  <1> HIDE DEF t
  <1>1. \A j \in 1..Len(t) :
          \/ j = Len(t) /\ t[j] = x
          \/ j < Len(t) /\ Len(k) = Depth /\ j + 1 \in 1..Len(k) /\ t[j] = k[j + 1]
          \/ j < Len(t) /\ Len(k) < Depth /\ j \in 1..Len(k) /\ t[j] = k[j]
    <2>1. CASE Len(k) = Depth
      BY <1>0, <1>a, <2>1
    <2>2. CASE Len(k) < Depth
      BY <1>0, <1>a, <2>2
    <2> QED
      BY <1>0, <2>1, <2>2
  <1>2. \A j \in 1..Len(t) : t[j] = x \/ \E i \in 1..Len(k) : t[j] = k[i]
    BY <1>1
  <1>3. \A i \in 1..Len(k) : k[i] < x
    BY DEF Ordered
  <1>4. Rising(t)
    <2> SUFFICES ASSUME NEW i \in 1..Len(t), NEW j \in 1..Len(t), i < j PROVE t[i] < t[j]
      BY DEF Rising
    <2>1. i < Len(t) /\ i \in Nat /\ j \in Nat
      BY <1>0, <1>1
    <2>2. CASE j = Len(t)
      BY <1>1, <1>3, <2>1, <2>2
    <2>3. CASE j # Len(t)
      BY <1>0, <1>1, <2>1, <2>3 DEF Ordered, Rising
    <2> QED
      BY <2>2, <2>3
  <1>5. Ordered(s, H, t, {}, n)
    BY <1>2, <1>4 DEF Ordered
  <1> QED
    BY <1>5 DEF t

LEMMA OrderedAnswers ==
  ASSUME NEW s \in Seq(Reports), NEW P \in SUBSET Reports, NEW n \in Nat,
         Ordered(s, {}, <<>>, P, n), NEW x \in P
  PROVE  Ordered(s, {x}, <<>>, {}, n)
  <1>1. Len(<<>>) = 0 /\ 1..0 = {}
    OBVIOUS
  <1> QED
    BY <1>1 DEF Ordered, Rising

LEMMA OrderedPosts ==
  ASSUME NEW s \in Seq(Reports), NEW x \in Reports, NEW k \in Seq(Reports),
         NEW P \in SUBSET Reports, NEW n \in Nat, Ordered(s, {x}, k, P, n)
  PROVE  Ordered(Append(s, x), {}, k, P, n)
  <1> DEFINE t == Append(s, x)
  <1>1. Len(t) = Len(s) + 1 /\ Len(s) \in Nat
        /\ \A i \in 1..Len(t) : (i \in 1..Len(s) /\ t[i] = s[i]) \/ (i = Len(t) /\ t[i] = x)
    OBVIOUS
  <1> HIDE DEF t
  <1>2. Rising(t)
    BY <1>1 DEF Ordered, Rising
  <1>3. Ordered(t, {}, k, P, n)
    BY <1>1, <1>2 DEF Ordered
  <1> QED
    BY <1>3 DEF t

LEMMA OrderedMakes ==
  ASSUME NEW s \in Seq(Reports), NEW H \in SUBSET Reports, NEW k \in Seq(Reports),
         NEW n \in Nat, Ordered(s, H, k, {}, n)
  PROVE  Ordered(s, H, k, {n + 1}, n + 1)
  <1>1. \A i \in 1..Len(s) : s[i] \in Nat
    BY BoundAssumption, ElementOf DEF Reports
  <1>2. \A j \in 1..Len(k) : k[j] \in Nat
    BY BoundAssumption, ElementOf DEF Reports
  <1>3. \A x \in H : x \in Nat
    BY DEF Reports
  <1> QED
    BY <1>1, <1>2, <1>3 DEF Ordered

-----------------------------------------------------------------------------
(* What a step does to the reports that are due on an endpoint.            *)

LEMMA DueTake ==
  ASSUME TInv, Known, SeqnumRests, NEW a \in Eps, NEW k, NEW w,
         Rearmed(a, k, w, ep[a].inFlight), rpUrb' = rpUrb
  PROVE  \A b \in Eps : Due(b)' = Due(b)
  <1>0. \A b \in Eps : b # a => ep'[b] = ep[b]
    BY DEF Rearmed
  <1>1. CASE ep'[a].inFlight = ep[a].inFlight /\ urb' = urb
    BY <1>0, <1>1 DEF Due
  <1>2. CASE /\ ep[a].inFlight = 0 /\ ~ep[a].disabled /\ urb[nextSeq].state = "none"
             /\ ep'[a].inFlight = nextSeq /\ urb' = [urb EXCEPT ![nextSeq] = Flying(a)]
    <2>1. /\ \A q \in ISeqs : q # nextSeq => urb'[q] = urb[q]
          /\ urb'[nextSeq].state = "flying"
      BY <1>2, FlyingIs
    <2>2. \A u \in rpUrb : u.seq # nextSeq
      BY <1>2 DEF SeqnumRests, CanArm
    <2>3. Due(a)' = {} /\ Due(a) = {}
      BY <1>2, <2>1, <2>2 DEF Due
    <2>4. ASSUME NEW b \in Eps, b # a PROVE Due(b)' = Due(b)
      <3>1. ep'[b] = ep[b] /\ ep[b].inFlight \in ISeqs \cup {0}
        BY <1>0, <2>4 DEF TInv, Inner, EpRecord
      <3> QED
        BY <1>2, <2>1, <3>1 DEF Due
    <2> QED
      BY <2>3, <2>4
  <1> QED
    BY <1>1, <1>2 DEF Rearmed

LEMMA DueDeliver ==
  ASSUME TInv, Known, NEW a \in Eps, NEW u \in rpUrb, ep[a].inFlight = u.seq,
         rpUrb = {u}, rpUrb' = {}, NEW k, Rearmed(a, k, 0, 0)
  PROVE  /\ \A b \in Eps : b # a => Due(b)' = Due(b)
         /\ Due(a)' = {} /\ Due(a) = {u.data} \cap Reports
  <1>0. \A b \in Eps : b # a => ep'[b] = ep[b]
    BY DEF Rearmed
  <1>1. u.seq \in ISeqs /\ u.seq # 0 /\ urb[u.seq].state = "none"
        /\ \A b \in Eps : b # a => ep[b].inFlight # u.seq
    BY SeqnumsPositive DEF TInv, Outer, Known
  <1>2. Due(a) = {u.data} \cap Reports
    BY <1>1 DEF Due
  <1>3. CASE ep'[a].inFlight = 0 /\ urb' = urb
    BY <1>0, <1>1, <1>2, <1>3 DEF Due
  <1>4. CASE /\ urb[nextSeq].state = "none"
             /\ ep'[a].inFlight = nextSeq /\ urb' = [urb EXCEPT ![nextSeq] = Flying(a)]
    <2>1. /\ \A q \in ISeqs : q # nextSeq => urb'[q] = urb[q]
          /\ urb'[nextSeq].state = "flying"
      BY <1>4, FlyingIs
    <2>3. Due(a)' = {}
      BY <1>4, <2>1 DEF Due
    <2>4. ASSUME NEW b \in Eps, b # a PROVE Due(b)' = Due(b)
      <3>1. ep'[b] = ep[b] /\ ep[b].inFlight \in ISeqs \cup {0}
        BY <1>0, <2>4 DEF TInv, Inner, EpRecord
      <3> QED
        BY <1>1, <1>4, <2>1, <2>4, <3>1 DEF Due
    <2> QED
      BY <1>2, <2>3, <2>4
  <1> QED
    BY <1>3, <1>4 DEF Rearmed

LEMMA DueReap ==
  ASSUME TInv, Known, NEW q \in ISeqs, Reap(q)
  PROVE  \A b \in Eps : Due(b)' = Due(b)
  <1>1. ep' = ep
    BY DEF Reap
  <1>2. /\ urb[q].state = "done" /\ urb'[q].state = "none" /\ rpUrb = {}
        /\ \A r \in ISeqs : r # q => urb'[r] = urb[r]
    BY ReapTypes
  <1>3. \A b \in Eps : ep[b].inFlight \in ISeqs \cup {0}
    BY DEF TInv, Inner, EpRecord
  <1>4. CASE urb[q].unlinked
    <2>1. \A b \in Eps : ep[b].inFlight = 0
      BY <1>4 DEF TInv, Inner, Sound, Cancelled
    <2> QED
      BY <1>1, <2>1 DEF Due
  <1>5. CASE ~urb[q].unlinked
    <2>1. PICK u \in rpUrb' : rpUrb' = {u} /\ u.seq = q /\ u.data = urb[q].data
      BY <1>5, ReapTypes
    <2> QED
      BY <1>1, <1>2, <1>3, <2>1 DEF Due
  <1> QED
    BY <1>4, <1>5

\* Nothing is due on an endpoint whose URB is flying.
LEMMA DueComplete ==
  ASSUME TInv, Known, NEW q \in ISeqs, NEW x \in 0..MaxReports, Complete(q, x),
         made' \in [Eps -> 0..MaxReports], NEW a \in Eps, a = urb[q].ep
  PROVE  /\ \A b \in Eps : b # a => Due(b)' = Due(b)
         /\ Due(a) = {}
         /\ rdPc # "down" => Due(a)' = {x} \cap Reports
         /\ rdPc = "down" => Due(a)' = {}
  <1>1. ep' = ep /\ rpUrb' = rpUrb /\ rdPc' = rdPc
    BY DEF Complete, reaper, reader
  <1>2. /\ \A r \in ISeqs : r # q => urb'[r] = urb[r]
        /\ urb[q].state = "flying" /\ urb'[q].state = "done" /\ urb'[q].data = x
    BY CompleteTypes
  <1>3. /\ q # 0 /\ \A u \in rpUrb : u.seq # q
        /\ \A b \in Eps : ep[b].inFlight \in ISeqs \cup {0}
    BY <1>2, SeqnumsPositive DEF TInv, Inner, EpRecord, Known
  <1>4. \A b \in Eps : b # a => ep[b].inFlight # q
    BY <1>3 DEF Known
  <1>5. ASSUME NEW b \in Eps, b # a PROVE Due(b)' = Due(b)
    BY <1>1, <1>2, <1>3, <1>4, <1>5 DEF Due
  <1>6. CASE rdPc = "down"
    <2>1. \A b \in Eps : ep[b].inFlight = 0
      BY <1>6 DEF TInv, Inner, Sound, Cancelled
    <2>2. \A b \in Eps : Due(b)' = {} /\ Due(b) = {}
      BY <1>1, <2>1 DEF Due
    <2> QED
      BY <1>6, <2>2
  <1>7. CASE rdPc # "down"
    <2>1. ep[a].inFlight = q /\ ep'[a].inFlight = q
      BY <1>1, <1>2, <1>7 DEF TInv, Cancelled, Known, UrbsAreKnown
    <2>2. Due(a) = {}
      BY <1>2, <1>3, <2>1 DEF Due
    <2>3. Due(a)' = {x} \cap Reports
      <3>1. \A y \in Reports : y \in Due(a)' <=> y = x
        BY <1>1, <1>2, <1>3, <2>1 DEF Due
      <3>2. Due(a)' \subseteq Reports
        BY DEF Due
      <3> QED
        BY <3>1, <3>2
    <2> QED
      BY <1>5, <1>7, <2>2, <2>3
  <1> QED
    BY <1>6, <1>7

-----------------------------------------------------------------------------
(* OneHand.                                                                *)

LEMMA HandReader ==
  ASSUME TInv, OneHand, ReaderStep
  PROVE  OneHand'
  <1>0. rpHand' = rpHand
    BY DEF ReaderStep, Arm, TakeReady, TakeWaiting, TakePassThrough, ReadSubmit, Unlink,
           RdPost, RdLeave, Shutdown, reaper
  <1>1. ASSUME rdHand' = {} \/ (\A m \in rdHand' : m.kind # "data"),
               \A b \in Eps : ep'[b].captured = ep[b].captured \/ ep'[b].captured = <<>>
        PROVE  OneHand'
    BY <1>0, <1>1 DEF OneHand
  <1>2. ASSUME NEW a \in Eps, Arm(a) PROVE OneHand'
    <2>1. rdHand' = {}
      BY <1>2 DEF Arm, TInv, Hands
    <2>2. \A b \in Eps : ep'[b].captured = ep[b].captured
      BY <1>2, ArmStep DEF TInv, Rearmed
    <2> QED
      BY <1>1, <2>1, <2>2
  <1>3. ASSUME NEW a \in Eps, TakeReady(a) PROVE OneHand'
    <2>1. PICK m \in ReplySet : rdHand' = {m} /\ m.kind = "data" /\ m.ep = a
      BY <1>3, TakeReadyTypes
    <2>2. /\ \A b \in Eps : b # a => ep'[b] = ep[b]
          /\ ep'[a].waiting = ep[a].waiting
      BY <1>3, TakeReadyStep DEF TInv, Rearmed
    <2>3. ep[a].captured # <<>> /\ ep[a].waiting = 0
      BY <1>3 DEF TakeReady, TInv, NoneHeldFromWaiter
    <2>4. \A n \in rpHand : ~(n.kind = "data" /\ n.ep = a)
      BY <2>3 DEF OneHand
    <2> QED
      BY <1>0, <2>1, <2>2, <2>3, <2>4 DEF OneHand
  <1>4. ASSUME NEW a \in Eps, TakeWaiting(a) PROVE OneHand'
    <2>1. rdHand' = {}
      BY <1>4 DEF TakeWaiting, ReadSubmit, reader, TInv, Hands
    <2>2. \A b \in Eps : ep'[b].captured = ep[b].captured
      BY <1>4, TakeWaitingStep DEF TInv, Rearmed
    <2> QED
      BY <1>1, <2>1, <2>2
  <1>5. ASSUME NEW c \in Submits, Unlink(c) PROVE OneHand'
    BY <1>1, <1>5, UnlinkTypes
  <1>6. CASE (\E a \in Eps : TakePassThrough(a)) \/ RdPost \/ RdLeave
    <2>1. ep' = ep /\ rdHand' \subseteq rdHand
      BY <1>6 DEF TakePassThrough, RdPost, RdLeave, reader
    <2> QED
      BY <1>0, <2>1 DEF OneHand
  <1>7. CASE Shutdown
    <2>1. rdHand' = {}
      BY <1>7 DEF Shutdown, TInv, Hands
    <2> QED
      BY <1>1, <1>7, <2>1, ShutdownTypes
  <1> QED
    BY <1>2, <1>3, <1>4, <1>5, <1>6, <1>7 DEF ReaderStep

LEMMA HandReaper ==
  ASSUME TInv, OneHand, ReaperStep
  PROVE  OneHand'
  <1>0. rdHand' = rdHand
    BY DEF ReaperStep, Reap, DeliverNone, DeliverError, DeliverReport, Owe, RpPost, RpLeave,
           reader
  <1>1. ASSUME NEW a \in Eps, NEW u \in rpUrb, DeliverError(a, u) PROVE OneHand'
    <2>1. \A m \in rpHand' : m.kind # "data"
      BY <1>1, DeliverErrorTypes
    <2>2. \A b \in Eps : ep'[b].waiting = ep[b].waiting \/ ep'[b].waiting = 0
      BY <1>1, DeliverErrorTypes DEF Rearmed
    <2> QED
      BY <1>0, <2>1, <2>2 DEF OneHand
  <1>2. ASSUME NEW a \in Eps, NEW u \in rpUrb, DeliverReport(a, u) PROVE OneHand'
    <2>1. CASE ep[a].waiting = 0
      <3>1. rpHand' = {} /\ (\A b \in Eps : ep'[b].waiting = ep[b].waiting)
        BY <1>2, <2>1, DeliverReportTypes DEF Rearmed
      <3> QED
        BY <1>0, <3>1 DEF OneHand
    <2>2. CASE ep[a].waiting # 0
      <3>1. PICK m \in ReplySet : rpHand' = {m} /\ m.kind = "data" /\ m.ep = a
        BY <1>2, <2>2, DeliverReportTypes
      <3>2. /\ \A b \in Eps : b # a => ep'[b] = ep[b]
            /\ ep'[a].captured = ep[a].captured /\ ep'[a].waiting = 0
        BY <1>2, <2>2, DeliverReportTypes DEF Rearmed
      <3>3. ep[a].captured = <<>>
        BY <2>2 DEF TInv, NoneHeldFromWaiter
      <3>4. \A n \in rdHand : ~(n.kind = "data" /\ n.ep = a)
        BY <2>2 DEF OneHand
      <3> QED
        BY <1>0, <3>1, <3>2, <3>3, <3>4 DEF OneHand
    <2> QED
      BY <2>1, <2>2
  <1>3. CASE (\E q \in ISeqs : Reap(q)) \/ DeliverNone \/ RpPost \/ RpLeave
    <2>1. ep' = ep /\ rpHand' \subseteq rpHand
      BY <1>3 DEF Reap, DeliverNone, RpPost, RpLeave
    <2> QED
      BY <1>0, <2>1 DEF OneHand
  <1> QED
    BY <1>1, <1>2, <1>3 DEF ReaperStep

LEMMA HandNext == TInv /\ OneHand /\ [Next]_vars => OneHand'
  <1>1. ASSUME OneHand, Device \/ Unplug \/ SessionOver \/ UNCHANGED vars PROVE OneHand'
    <2>1. UNCHANGED <<ep, rdHand, rpHand>>
      BY <1>1 DEF Device, DeviceReport, DeviceError, Complete, Unplug, SessionOver, vars, reader,
                  reaper
    <2> QED
      BY <1>1, <2>1 DEF OneHand
  <1> QED
    BY <1>1, HandReader, HandReaper DEF Next

-----------------------------------------------------------------------------
(* What a step does to the reports of endpoint b: one of eight moves.      *)

Same(b) == wire'[b] = wire[b] /\ made'[b] = made[b] /\ (ep[b].disabled => ep'[b].disabled)

Idle(b) ==
  /\ Same(b) /\ Data(b)' = Data(b) /\ Due(b)' = Due(b) /\ ep'[b].captured = ep[b].captured

Taken(b) ==
  /\ Same(b) /\ Due(b)' = Due(b)
  /\ ep[b].captured # <<>> /\ ep'[b].captured = Tail(ep[b].captured)
  /\ Data(b) = {} /\ Data(b)' = {ep[b].captured[1]}

Captured(b) ==
  /\ Same(b) /\ Data(b)' = Data(b) /\ Due(b)' = {}
  /\ \E x \in Due(b) : ep'[b].captured = Capture(ep[b].captured, x)

Answered(b) ==
  /\ Same(b) /\ Due(b)' = {} /\ ep[b].captured = <<>> /\ ep'[b].captured = <<>>
  /\ Data(b) = {} /\ \E x \in Due(b) : Data(b)' = {x}

Posted(b) ==
  /\ made'[b] = made[b] /\ ep'[b] = ep[b] /\ Due(b)' = Due(b)
  /\ Data(b)' = {}
  /\ \E x \in Reports : Data(b) = {x} /\ wire'[b] = Append(wire[b], x)

Made(b) ==
  /\ wire'[b] = wire[b] /\ ep'[b] = ep[b] /\ Data(b)' = Data(b)
  /\ Due(b) = {} /\ made'[b] = made[b] + 1 /\ Due(b)' = {made[b] + 1}

Dropped(b) ==
  /\ Same(b) /\ Data(b)' = Data(b) /\ Due(b)' = {}
  /\ ep'[b].captured = <<>> /\ ep'[b].disabled

Ended(b) ==
  /\ wire'[b] = wire[b] /\ Data(b)' \subseteq Data(b) /\ Due(b)' \subseteq Due(b)
  /\ made'[b] \in {made[b], made[b] + 1}
  /\ ep'[b].captured \in {ep[b].captured, <<>>}
  /\ ~Live'

Move(b) == Idle(b) \/ Taken(b) \/ Captured(b) \/ Answered(b) \/ Posted(b) \/ Made(b)
           \/ Dropped(b) \/ Ended(b)

LEMMA MoveDevice ==
  ASSUME TInv, Known, Device \/ Unplug \/ SessionOver \/ UNCHANGED vars
  PROVE  \A b \in Eps : Move(b)
  <1>1. UNCHANGED <<ep, rdPc, rdHand, rpPc, rpHand, rpUrb, wire>>
    BY DEF Device, DeviceReport, DeviceError, Complete, Unplug, SessionOver, vars, reader,
           reaper
  <1>2. \A b \in Eps : Data(b)' = Data(b)
    BY <1>1 DEF Data
  <1>3. ASSUME NEW q \in ISeqs, DeviceReport(q) PROVE \A b \in Eps : Move(b)
    <2> DEFINE a == urb[q].ep
               x == made[a] + 1
    <2>1. a \in Eps /\ x \in 1..MaxReports /\ Complete(q, x)
          /\ made' = [made EXCEPT ![a] = @ + 1] /\ made' \in [Eps -> 0..MaxReports]
      BY <1>3, DeviceReportIs
    <2>2. x \in 0..MaxReports
      BY <2>1, BoundAssumption
    <2>3. a = urb[q].ep /\ x = made[a] + 1
      OBVIOUS
    <2>4. made'[a] = x /\ \A b \in Eps : b # a => made'[b] = made[b]
      BY <2>1 DEF TInv, Outer
    <2> HIDE DEF a, x
    <2>5. PICK c \in Eps : c = a
      BY <2>1
    <2>6. /\ \A b \in Eps : b # c => Due(b)' = Due(b)
          /\ Due(c) = {}
          /\ rdPc # "down" => Due(c)' = {x} \cap Reports
          /\ rdPc = "down" => Due(c)' = {}
      BY <2>1, <2>2, <2>3, <2>5, DueComplete
    <2>7. \A b \in Eps : b # c => Idle(b)
      BY <1>1, <1>2, <2>4, <2>5, <2>6 DEF Idle, Same
    <2>8. CASE rdPc = "down"
      <3>1. Ended(c)
        BY <1>1, <1>2, <2>3, <2>4, <2>5, <2>6, <2>8 DEF Ended, Live
      <3> QED
        BY <2>7, <3>1 DEF Move
    <2>9. CASE rdPc # "down"
      <3>1. {x} \cap Reports = {x}
        BY <2>1 DEF Reports
      <3>2. Made(c)
        BY <1>1, <1>2, <2>3, <2>4, <2>5, <2>6, <2>9, <3>1 DEF Made
      <3> QED
        BY <2>7, <3>2 DEF Move
    <2> QED
      BY <2>8, <2>9
  <1>4. ASSUME NEW q \in ISeqs, DeviceError(q) PROVE \A b \in Eps : Move(b)
    <2>1. made' = made /\ Complete(q, 0) /\ 0 \in 0..MaxReports
          /\ made' \in [Eps -> 0..MaxReports]
      BY <1>4, BoundAssumption DEF TInv, Outer, DeviceError
    <2>2. PICK a \in Eps : a = urb[q].ep
      BY <2>1 DEF TInv, Inner, Complete
    <2>3. {0} \cap Reports = {}
      BY BoundAssumption DEF Reports
    <2>4. \A b \in Eps : Due(b)' = Due(b)
      BY <2>1, <2>2, <2>3, DueComplete
    <2> QED
      BY <1>1, <1>2, <2>1, <2>4 DEF Move, Idle, Same
  <1>5. CASE Unplug \/ SessionOver \/ UNCHANGED vars
    <2>1. made' = made /\ urb' = urb
      BY <1>5 DEF Unplug, SessionOver, vars, kernel
    <2>2. \A b \in Eps : Due(b)' = Due(b)
      BY <1>1, <2>1 DEF Due
    <2> QED
      BY <1>1, <1>2, <2>1, <2>2 DEF Move, Idle, Same
  <1> QED
    BY <1>3, <1>4, <1>5 DEF Device

LEMMA MoveReader ==
  ASSUME TInv, Known, SeqnumRests, OneHand, ReaderStep
  PROVE  \A b \in Eps : Move(b)
  <1>1. made' = made /\ rpHand' = rpHand /\ rpUrb' = rpUrb
    BY DEF ReaderStep, Arm, TakeReady, TakeWaiting, TakePassThrough, ReadSubmit, Unlink,
           RdPost, RdLeave, Shutdown, reaper, kernel
  <1>2. ASSUME NEW a \in Eps, Arm(a) \/ TakeWaiting(a) PROVE \A b \in Eps : Move(b)
    <2>1. wire' = wire /\ rdHand' = rdHand
      BY <1>2 DEF Arm, TakeWaiting, ReadSubmit, reader
    <2>2. \E w : Rearmed(a, ep[a].captured, w, ep[a].inFlight)
      BY <1>2, ArmStep, TakeWaitingStep DEF TInv
    <2>3. \A b \in Eps : Due(b)' = Due(b)
      BY <1>1, <2>2, DueTake
    <2>4. \A b \in Eps : ep'[b].captured = ep[b].captured /\ (ep[b].disabled => ep'[b].disabled)
      BY <2>2 DEF Rearmed
    <2>5. \A b \in Eps : Data(b)' = Data(b)
      BY <1>1, <2>1 DEF Data
    <2> QED
      BY <1>1, <2>1, <2>3, <2>4, <2>5 DEF Move, Idle, Same
  <1>3. ASSUME NEW a \in Eps, TakeReady(a) PROVE \A b \in Eps : Move(b)
    <2>1. wire' = wire /\ rdHand = {} /\ ep[a].captured # <<>>
      BY <1>3 DEF TakeReady, ReadSubmit, TInv, Hands
    <2>2. Rearmed(a, Tail(ep[a].captured), ep[a].waiting, ep[a].inFlight)
      BY <1>3, TakeReadyStep DEF TInv
    <2>3. \A b \in Eps : Due(b)' = Due(b)
      BY <1>1, <2>2, DueTake
    <2>4. /\ \A b \in Eps : b # a => ep'[b] = ep[b]
          /\ ep'[a].captured = Tail(ep[a].captured)
          /\ ep[a].disabled => ep'[a].disabled
      BY <2>2 DEF Rearmed
    <2>5. PICK m \in ReplySet : rdHand' = {m} /\ m.kind = "data" /\ m.ep = a
                                /\ m.data = ep[a].captured[1]
      BY <1>3, TakeReadyTypes
    <2>6. \A b \in Eps : b # a => Data(b)' = Data(b)
      BY <1>1, <2>1, <2>5 DEF Data
    <2>7. \A n \in rpHand : ~(n.kind = "data" /\ n.ep = a)
      BY <2>1 DEF OneHand
    <2>8. Data(a) = {} /\ Data(a)' = {m.data}
      BY <1>1, <2>1, <2>5, <2>7 DEF Data
    <2>9. Taken(a)
      BY <1>1, <2>1, <2>3, <2>4, <2>5, <2>8 DEF Taken, Same
    <2> QED
      BY <1>1, <2>1, <2>3, <2>4, <2>6, <2>9 DEF Move, Idle, Same
  <1>4. ASSUME ep' = ep, urb' = urb, wire' = wire, rdHand' = rdHand PROVE \A b \in Eps : Move(b)
    BY <1>1, <1>4 DEF Move, Idle, Same, Data, Due
  <1>5. CASE \E a \in Eps : TakePassThrough(a)
    BY <1>4, <1>5 DEF TakePassThrough, ReadSubmit, reader
  <1>6. ASSUME NEW c \in Submits, Unlink(c) PROVE \A b \in Eps : Move(b)
    <2>1. wire' = wire /\ rdHand = {} /\ urb' = urb
      BY <1>6 DEF Unlink, kernel, TInv, Hands
    <2>2. \A a \in Eps :
            /\ ep'[a].captured = ep[a].captured /\ ep'[a].inFlight = ep[a].inFlight
            /\ ep'[a].disabled = ep[a].disabled
      BY <1>6, UnlinkTypes
    <2>3. \A m \in rdHand' : m.kind # "data"
      BY <1>6, UnlinkTypes
    <2>4. \A b \in Eps : Data(b)' = Data(b)
      BY <1>1, <2>1, <2>3 DEF Data
    <2>5. \A b \in Eps : Due(b)' = Due(b)
      BY <1>1, <2>1, <2>2 DEF Due
    <2> QED
      BY <1>1, <2>1, <2>2, <2>4, <2>5 DEF Move, Idle, Same
  <1>7. CASE RdPost
    <2>1. PICK m \in rdHand : Post(m)
      BY <1>7 DEF RdPost
    <2>2. ep' = ep /\ urb' = urb /\ rdHand' = {} /\ rdHand = {m}
      BY <1>7, <2>1 DEF RdPost, kernel, TInv, Hands, AtMostOne
    <2>3. \A b \in Eps : Due(b)' = Due(b)
      BY <1>1, <2>2 DEF Due
    <2>4. CASE m.kind # "data"
      <3>1. wire' = wire
        BY <2>1, <2>4, PostTypes
      <3>2. \A b \in Eps : Data(b)' = Data(b)
        BY <1>1, <2>2, <2>4 DEF Data
      <3> QED
        BY <1>1, <2>2, <2>3, <3>1, <3>2 DEF Move, Idle, Same
    <2>5. CASE m.kind = "data"
      <3>1. /\ m \in ReplySet /\ m.data \in Reports
            /\ \A a \in Eps : a # m.ep => wire'[a] = wire[a]
            /\ wire'[m.ep] = Append(wire[m.ep], m.data)
        BY <2>1, <2>5, PostTypes DEF Reports
      <3>2. PICK a \in Eps : a = m.ep
        BY <3>1 DEF ReplySet
      <3>3. \A b \in Eps : b # a => Data(b)' = Data(b)
        BY <1>1, <2>2, <3>2 DEF Data
      <3>4. \A n \in rpHand : ~(n.kind = "data" /\ n.ep = a)
        BY <2>2, <2>5, <3>2 DEF OneHand
      <3>5. Data(a) = {m.data} /\ Data(a)' = {}
        BY <1>1, <2>2, <2>5, <3>2, <3>4 DEF Data
      <3>6. Posted(a)
        BY <1>1, <2>2, <2>3, <3>1, <3>2, <3>5 DEF Posted
      <3> QED
        BY <1>1, <2>2, <2>3, <3>1, <3>2, <3>3, <3>6 DEF Move, Idle, Same
    <2> QED
      BY <2>4, <2>5
  <1>8. CASE RdLeave
    <2>1. ep' = ep /\ urb' = urb /\ rdHand' = {} /\ wire' = wire /\ ~Live'
      BY <1>8 DEF RdLeave, kernel, Live
    <2>2. \A b \in Eps : Due(b)' = Due(b) /\ Data(b)' \subseteq Data(b)
      BY <1>1, <2>1 DEF Due, Data
    <2> QED
      BY <1>1, <2>1, <2>2 DEF Move, Ended
  <1>9. CASE Shutdown
    <2>1. rdHand' = rdHand /\ wire' = wire /\ ~Live'
      BY <1>9 DEF Shutdown, Live
    <2>2. \A b \in Eps : ep'[b].inFlight = 0 /\ ep'[b].captured = <<>>
      BY <1>9, ShutdownTypes
    <2>3. \A b \in Eps : Due(b)' = {} /\ Data(b)' = Data(b)
      BY <1>1, <2>1, <2>2 DEF Due, Data
    <2> QED
      BY <1>1, <2>1, <2>2, <2>3 DEF Move, Ended
  <1> QED
    BY <1>2, <1>3, <1>5, <1>6, <1>7, <1>8, <1>9 DEF ReaderStep

LEMMA MoveReaper ==
  ASSUME TInv, Known, OneHand, ReaperStep
  PROVE  \A b \in Eps : Move(b)
  <1>1. made' = made /\ rdHand' = rdHand
    BY DEF ReaperStep, Reap, DeliverNone, DeliverError, DeliverReport, Owe, RpPost, RpLeave,
           kernel, reader
  <1>2. ASSUME NEW q \in ISeqs, Reap(q) PROVE \A b \in Eps : Move(b)
    <2>1. ep' = ep /\ wire' = wire /\ rpHand' = rpHand
      BY <1>2 DEF Reap
    <2>2. \A b \in Eps : Due(b)' = Due(b) /\ Data(b)' = Data(b)
      BY <1>1, <1>2, <2>1, DueReap DEF Data
    <2> QED
      BY <1>1, <2>1, <2>2 DEF Move, Idle, Same
  <1>3. CASE DeliverNone
    <2>1. ep' = ep /\ wire' = wire /\ rpHand' = rpHand /\ urb' = urb /\ rpUrb' = {}
          /\ \A u \in rpUrb : \A a \in Eps : ep[a].inFlight # u.seq
      BY <1>3 DEF DeliverNone, kernel
    <2>2. \A b \in Eps : Due(b)' = Due(b) /\ Data(b)' = Data(b)
      BY <1>1, <2>1 DEF Due, Data
    <2> QED
      BY <1>1, <2>1, <2>2 DEF Move, Idle, Same
  <1>4. ASSUME NEW a \in Eps, NEW u \in rpUrb, DeliverError(a, u) PROVE \A b \in Eps : Move(b)
    <2>1. wire' = wire
      BY <1>4 DEF DeliverError, Owe
    <2>2. rpUrb = {u} /\ rpUrb' = {} /\ ep[a].inFlight = u.seq /\ u.data = 0 /\ rpHand = {}
      BY <1>4, DeliverErrorTypes
    <2>3. PICK k : Rearmed(a, k, 0, 0) /\ (k = ep[a].captured \/ (k = <<>> /\ ep'[a].disabled))
      BY <1>4, DeliverErrorTypes
    <2>4. {0} \cap Reports = {}
      BY BoundAssumption DEF Reports
    <2>5. /\ \A b \in Eps : b # a => Due(b)' = Due(b)
          /\ Due(a)' = {} /\ Due(a) = {}
      BY <2>2, <2>3, <2>4, DueDeliver
    <2>6. \A m \in rpHand' : m.kind # "data"
      BY <1>4, DeliverErrorTypes
    <2>7. \A b \in Eps : Data(b)' = Data(b)
      BY <1>1, <2>2, <2>6 DEF Data
    <2>8. /\ \A b \in Eps : b # a => ep'[b] = ep[b]
          /\ ep'[a].captured = k /\ (ep[a].disabled => ep'[a].disabled)
      BY <2>3 DEF Rearmed
    <2>9. Idle(a) \/ Dropped(a)
      BY <1>1, <2>1, <2>3, <2>5, <2>7, <2>8 DEF Idle, Dropped, Same
    <2> QED
      BY <1>1, <2>1, <2>5, <2>7, <2>8, <2>9 DEF Move, Idle, Same
  <1>5. ASSUME NEW a \in Eps, NEW u \in rpUrb, DeliverReport(a, u) PROVE \A b \in Eps : Move(b)
    <2>1. wire' = wire
      BY <1>5 DEF DeliverReport, Owe
    <2>2. rpUrb = {u} /\ rpUrb' = {} /\ ep[a].inFlight = u.seq /\ rpHand = {}
          /\ u.data \in Reports
      BY <1>5, DeliverReportTypes DEF Reports
    <2>3. CASE ep[a].waiting = 0
      <3>1. rpHand' = {} /\ Rearmed(a, Capture(ep[a].captured, u.data), 0, 0)
        BY <1>5, <2>3, DeliverReportTypes
      <3>2. /\ \A b \in Eps : b # a => Due(b)' = Due(b)
            /\ Due(a)' = {} /\ Due(a) = {u.data}
        BY <2>2, <3>1, DueDeliver
      <3>3. \A b \in Eps : Data(b)' = Data(b)
        BY <1>1, <2>2, <3>1 DEF Data
      <3>4. /\ \A b \in Eps : b # a => ep'[b] = ep[b]
            /\ ep'[a].captured = Capture(ep[a].captured, u.data)
            /\ ep[a].disabled => ep'[a].disabled
        BY <3>1 DEF Rearmed
      <3>5. Captured(a)
        BY <1>1, <2>1, <3>2, <3>3, <3>4 DEF Captured, Same
      <3> QED
        BY <1>1, <2>1, <3>2, <3>3, <3>4, <3>5 DEF Move, Idle, Same
    <2>4. CASE ep[a].waiting # 0
      <3>1. PICK m \in ReplySet : rpHand' = {m} /\ m.kind = "data" /\ m.ep = a /\ m.data = u.data
        BY <1>5, <2>4, DeliverReportTypes
      <3>2. Rearmed(a, ep[a].captured, 0, 0)
        BY <1>5, <2>4, DeliverReportTypes
      <3>3. /\ \A b \in Eps : b # a => Due(b)' = Due(b)
            /\ Due(a)' = {} /\ Due(a) = {u.data}
        BY <2>2, <3>2, DueDeliver
      <3>4. \A n \in rdHand : ~(n.kind = "data" /\ n.ep = a)
        BY <2>4 DEF OneHand
      <3>5. \A b \in Eps : b # a => Data(b)' = Data(b)
        BY <1>1, <2>2, <3>1 DEF Data
      <3>6. Data(a) = {} /\ Data(a)' = {u.data}
        BY <1>1, <2>2, <3>1, <3>4 DEF Data
      <3>7. /\ \A b \in Eps : b # a => ep'[b] = ep[b]
            /\ ep'[a].captured = ep[a].captured /\ ep[a].captured = <<>>
            /\ ep[a].disabled => ep'[a].disabled
        BY <2>4, <3>2 DEF Rearmed, TInv, NoneHeldFromWaiter
      <3>8. Answered(a)
        BY <1>1, <2>1, <3>3, <3>6, <3>7 DEF Answered, Same
      <3> QED
        BY <1>1, <2>1, <3>3, <3>5, <3>7, <3>8 DEF Move, Idle, Same
    <2> QED
      BY <2>3, <2>4
  <1>6. CASE RpPost
    <2>1. PICK m \in rpHand : Post(m)
      BY <1>6 DEF RpPost
    <2>2. ep' = ep /\ urb' = urb /\ rpUrb' = rpUrb /\ rpHand' = {} /\ rpHand = {m}
      BY <1>6, <2>1 DEF RpPost, kernel, TInv, Hands, AtMostOne
    <2>3. \A b \in Eps : Due(b)' = Due(b)
      BY <2>2 DEF Due
    <2>4. CASE m.kind # "data"
      <3>1. wire' = wire
        BY <2>1, <2>4, PostTypes
      <3>2. \A b \in Eps : Data(b)' = Data(b)
        BY <1>1, <2>2, <2>4 DEF Data
      <3> QED
        BY <1>1, <2>2, <2>3, <3>1, <3>2 DEF Move, Idle, Same
    <2>5. CASE m.kind = "data"
      <3>1. /\ m \in ReplySet /\ m.data \in Reports
            /\ \A a \in Eps : a # m.ep => wire'[a] = wire[a]
            /\ wire'[m.ep] = Append(wire[m.ep], m.data)
        BY <2>1, <2>5, PostTypes DEF Reports
      <3>2. PICK a \in Eps : a = m.ep
        BY <3>1 DEF ReplySet
      <3>3. \A b \in Eps : b # a => Data(b)' = Data(b)
        BY <1>1, <2>2, <3>2 DEF Data
      <3>4. \A n \in rdHand : ~(n.kind = "data" /\ n.ep = a)
        BY <2>2, <2>5, <3>2 DEF OneHand
      <3>5. Data(a) = {m.data} /\ Data(a)' = {}
        BY <1>1, <2>2, <2>5, <3>2, <3>4 DEF Data
      <3>6. Posted(a)
        BY <1>1, <2>2, <2>3, <3>1, <3>2, <3>5 DEF Posted
      <3> QED
        BY <1>1, <2>2, <2>3, <3>1, <3>2, <3>3, <3>6 DEF Move, Idle, Same
    <2> QED
      BY <2>4, <2>5
  <1>7. CASE RpLeave
    <2>1. ep' = ep /\ urb' = urb /\ rpHand' = {} /\ rpUrb' = rpUrb /\ wire' = wire /\ ~Live'
      BY <1>7 DEF RpLeave, kernel, Live
    <2>2. \A b \in Eps : Due(b)' = Due(b) /\ Data(b)' \subseteq Data(b)
      BY <1>1, <2>1 DEF Due, Data
    <2> QED
      BY <1>1, <2>1, <2>2 DEF Move, Ended
  <1> QED
    BY <1>2, <1>3, <1>4, <1>5, <1>6, <1>7 DEF ReaperStep

LEMMA EveryMove ==
  ASSUME TInv, Known, SeqnumRests, OneHand, [Next]_vars
  PROVE  \A b \in Eps : Move(b)
  BY MoveDevice, MoveReader, MoveReaper DEF Next

LEMMA ViewTypes ==
  ASSUME TInv, NEW b \in Eps
  PROVE  /\ wire[b] \in Seq(Reports) /\ Data(b) \in SUBSET Reports
         /\ ep[b].captured \in Seq(Reports) /\ Len(ep[b].captured) <= Depth
         /\ Due(b) \in SUBSET Reports /\ made[b] \in 0..MaxReports /\ made[b] \in Nat
  <1>1. wire[b] \in Seq(Reports) /\ ep[b].captured \in Seq(Reports)
        /\ Len(ep[b].captured) <= Depth
    BY DEF TInv, Inner, Outer, Sound, EpRecord, Reports
  <1>2. made[b] \in 0..MaxReports /\ made[b] \in Nat
    BY BoundAssumption DEF TInv, Outer
  <1>3. Due(b) \in SUBSET Reports
    BY DEF Due
  <1>4. Data(b) \in SUBSET Reports
    <2> SUFFICES ASSUME NEW m \in rdHand \cup rpHand, m.kind = "data" PROVE m.data \in Reports
      BY DEF Data
    <2>1. m.data \in 0..MaxReports /\ m.data # 0
      BY DEF TInv, Outer, ReplySet
    <2> QED
      BY <2>1, BoundAssumption DEF Reports
  <1> QED
    BY <1>1, <1>2, <1>3, <1>4

LEMMA MoveOrdered ==
  ASSUME TInv, NEW b \in Eps, Move(b), made'[b] \in Nat,
         Ordered(wire[b], Data(b), ep[b].captured, Due(b), made[b])
  PROVE  Ordered(wire'[b], Data(b)', ep'[b].captured, Due(b)', made'[b])
  <1> DEFINE s == wire[b]
             H == Data(b)
             k == ep[b].captured
             P == Due(b)
             n == made[b]
  <1>0. /\ s \in Seq(Reports) /\ H \in SUBSET Reports /\ k \in Seq(Reports) /\ Len(k) <= Depth
        /\ P \in SUBSET Reports /\ n \in Nat /\ Ordered(s, H, k, P, n)
    BY ViewTypes
  <1>1. CASE Idle(b)
    BY <1>1, <1>0 DEF Idle, Same
  <1>2. CASE Taken(b)
    <2>1. wire'[b] = s /\ made'[b] = n /\ Due(b)' = P /\ k # <<>>
          /\ ep'[b].captured = Tail(k) /\ H = {} /\ Data(b)' = {k[1]}
      BY <1>2 DEF Taken, Same
    <2> HIDE DEF s, H, k, P, n
    <2>2. Ordered(s, {k[1]}, Tail(k), P, n)
      BY <1>0, <2>1, OrderedTakes
    <2> QED
      BY <2>1, <2>2
  <1>3. CASE Captured(b)
    <2>1. PICK x \in P : wire'[b] = s /\ made'[b] = n /\ Due(b)' = {} /\ Data(b)' = H
                         /\ ep'[b].captured = Capture(k, x)
      BY <1>3 DEF Captured, Same
    <2> HIDE DEF s, H, k, P, n
    <2>2. Ordered(s, H, Capture(k, x), {}, n)
      BY <1>0, <2>1, OrderedCaptures
    <2> QED
      BY <2>1, <2>2
  <1>4. CASE Answered(b)
    <2>1. PICK x \in P : wire'[b] = s /\ made'[b] = n /\ Due(b)' = {} /\ H = {} /\ Data(b)' = {x}
                         /\ k = <<>> /\ ep'[b].captured = <<>>
      BY <1>4 DEF Answered, Same
    <2> HIDE DEF s, H, k, P, n
    <2>2. Ordered(s, {x}, <<>>, {}, n)
      BY <1>0, <2>1, OrderedAnswers
    <2> QED
      BY <2>1, <2>2
  <1>5. CASE Posted(b)
    <2>1. PICK x \in Reports : wire'[b] = Append(s, x) /\ made'[b] = n /\ Due(b)' = P /\ H = {x}
                               /\ Data(b)' = {} /\ ep'[b].captured = k
      BY <1>5 DEF Posted
    <2> HIDE DEF s, H, k, P, n
    <2>2. Ordered(Append(s, x), {}, k, P, n)
      BY <1>0, <2>1, OrderedPosts
    <2> QED
      BY <2>1, <2>2
  <1>6. CASE Made(b)
    <2>1. wire'[b] = s /\ made'[b] = n + 1 /\ P = {} /\ Due(b)' = {n + 1} /\ Data(b)' = H
          /\ ep'[b].captured = k
      BY <1>6 DEF Made
    <2> HIDE DEF s, H, k, P, n
    <2>2. Ordered(s, H, k, {n + 1}, n + 1)
      BY <1>0, <2>1, OrderedMakes
    <2> QED
      BY <2>1, <2>2
  <1>7. CASE Dropped(b) \/ Ended(b)
    <2>1. wire'[b] = s /\ made'[b] \in {n, n + 1} /\ Due(b)' \in SUBSET P
          /\ Data(b)' \in SUBSET H /\ ep'[b].captured \in {k, <<>>}
      BY <1>7 DEF Dropped, Ended, Same
    <2>2. made'[b] \in Nat /\ made'[b] >= n
      BY <1>0, <2>1
    <2> HIDE DEF s, H, k, P, n
    <2>3. Ordered(s, Data(b)', k, Due(b)', made'[b]) /\ Ordered(s, Data(b)', <<>>, Due(b)', made'[b])
      BY <1>0, <2>1, <2>2, OrderedShrinks
    <2> QED
      BY <2>1, <2>3
  <1> QED
    BY <1>1, <1>2, <1>3, <1>4, <1>5, <1>6, <1>7 DEF Move

OInv == TInv /\ Known /\ OneHand /\ Order

LEMMA OrderNext == OInv /\ SeqnumRests /\ [Next]_vars => OInv'
  <1> SUFFICES ASSUME OInv, SeqnumRests, [Next]_vars PROVE OInv'
    OBVIOUS
  <1>1. TInv' /\ Known' /\ OneHand'
    BY NextTypes, KnownNext, HandNext DEF OInv
  <1>2. ASSUME NEW b \in Eps
        PROVE  Ordered(wire'[b], Data(b)', ep'[b].captured, Due(b)', made'[b])
    <2>1. Move(b) /\ TInv /\ Ordered(wire[b], Data(b), ep[b].captured, Due(b), made[b])
      BY EveryMove DEF OInv, Order
    <2>2. made'[b] \in Nat
      BY <1>1, BoundAssumption DEF TInv, Outer
    <2> QED
      BY <2>1, <2>2, MoveOrdered
  <1>3. Order'
    BY <1>2 DEF Order
  <1> QED
    BY <1>1, <1>3 DEF OInv

LEMMA OrderInit == Init => OInv
  <1> SUFFICES ASSUME Init PROVE OInv
    OBVIOUS
  <1>1. TInv /\ Known
    BY TypeInit, KnownInit
  <1>2. OneHand
    BY DEF Init, OneHand
  <1>3. \A a \in Eps : wire[a] = <<>> /\ ep[a].captured = <<>> /\ made[a] = 0 /\ Data(a) = {}
                       /\ Due(a) = {}
    BY DEF Init, NewEndpoint, Data, Due
  <1>4. Ordered(<<>>, {}, <<>>, {}, 0)
    <2>1. Len(<<>>) = 0 /\ 1..0 = {}
      OBVIOUS
    <2> QED
      BY <2>1 DEF Ordered, Rising
  <1>5. Order
    BY <1>3, <1>4 DEF Order
  <1> QED
    BY <1>1, <1>2, <1>5 DEF OInv

\* The reports of every endpoint reach the client in the order the device
\* made them and none twice, for any number of endpoints and any DEPTH,
\* although the reader and the reaper post without a common lock: the two
\* never have a report of one endpoint each (prefetch.rs take, deliver).
THEOREM ReportsStayInOrder == Spec /\ []SeqnumRests => []ReportsInOrder
  <1>1. Spec /\ []SeqnumRests => []OInv
    BY OrderInit, OrderNext, PTL DEF Spec
  <1>2. OInv => ReportsInOrder
    BY DEF OInv, Order, Ordered, Rising, ReportsInOrder
  <1> QED
    BY <1>1, <1>2, PTL

-----------------------------------------------------------------------------
(* What is held is an unbroken run of the newest reports.                  *)

LEMMA RunTakes ==
  ASSUME NEW k \in Seq(Reports), k # <<>>, Run(k)
  PROVE  /\ Run(Tail(k))
         /\ Tail(k) # <<>> => Tail(k)[1] = k[1] + 1 /\ Tail(k)[Len(Tail(k))] = k[Len(k)]
         /\ Tail(k) = <<>> => k[1] = k[Len(k)]
  <1>1. /\ Tail(k) \in Seq(Reports) /\ Len(Tail(k)) = Len(k) - 1
        /\ Len(k) \in Nat /\ Len(k) > 0 /\ k[1] \in Nat
        /\ \A i \in 1..(Len(k) - 1) : Tail(k)[i] = k[i + 1]
    BY TailIs, BoundAssumption DEF Reports
  <1> DEFINE t == Tail(k)
  <1>2. /\ t \in Seq(Reports) /\ Len(t) = Len(k) - 1
        /\ \A i \in 1..Len(t) : t[i] = k[i + 1] /\ i + 1 \in 1..Len(k) /\ 1 \in 1..Len(t)
    BY <1>1
  <1>3. (t = <<>> <=> Len(t) = 0) /\ Len(t) \in Nat
    BY <1>2
  <1> HIDE DEF t
  <1>4. \A i \in 1..Len(t) : t[i] = k[1] + i
    BY <1>1, <1>2 DEF Run
  <1>5. Run(t)
    BY <1>1, <1>2, <1>4 DEF Run
  <1>6. k[Len(k)] = k[1] + Len(k) - 1
    BY <1>1 DEF Run
  <1>7. t # <<>> => t[1] = k[1] + 1 /\ t[Len(t)] = k[Len(k)]
    BY <1>1, <1>2, <1>3, <1>4, <1>6
  <1>8. t = <<>> => k[1] = k[Len(k)]
    <2>1. Len(t) = Len(k) - 1 /\ Len(k) \in Nat
      BY <1>1, <1>2
    <2>2. Len(t) = 0 => Len(k) = 1
      BY <2>1
    <2> QED
      BY <1>3, <2>2
  <1> QED
    BY <1>5, <1>7, <1>8 DEF t

LEMMA RunCaptures ==
  ASSUME NEW k \in Seq(Reports), Len(k) <= Depth, Run(k), NEW x \in Reports,
         k # <<>> => x = k[Len(k)] + 1
  PROVE  /\ Run(Capture(k, x)) /\ Capture(k, x) # <<>>
         /\ Capture(k, x)[Len(Capture(k, x))] = x
         /\ Len(Capture(k, x)) < Depth => Len(k) < Depth
         /\ k = <<>> => Capture(k, x)[1] = x
         /\ (k # <<>> /\ Len(k) < Depth) => Capture(k, x)[1] = k[1]
  <1> DEFINE t == Capture(k, x)
  <1>0. Depth \in Nat /\ Depth > 0 /\ Len(k) \in Nat /\ x \in Nat
        /\ (k = <<>> <=> Len(k) = 0)
    BY DepthAssumption DEF Reports
  <1>1. /\ t \in Seq(Reports)
        /\ Len(k) = Depth =>
             /\ Len(t) = Len(k)
             /\ \A i \in 1..Len(k) : t[i] = IF i = Len(k) THEN x ELSE k[i + 1]
        /\ Len(k) < Depth =>
             /\ Len(t) = Len(k) + 1
             /\ \A i \in 1..(Len(k) + 1) : t[i] = IF i = Len(k) + 1 THEN x ELSE k[i]
    BY CaptureAppends DEF Reports
  <1>2. Len(k) # 0 => /\ k[1] \in Nat /\ \A i \in 1..Len(k) : k[i] = k[1] + i - 1
                      /\ x = k[1] + Len(k)
    <2> SUFFICES ASSUME Len(k) # 0 PROVE /\ k[1] \in Nat /\ k[Len(k)] = k[1] + Len(k) - 1
                                         /\ \A i \in 1..Len(k) : k[i] = k[1] + i - 1
      BY <1>0
    <2>1. 1 \in 1..Len(k) /\ Len(k) \in 1..Len(k)
      BY <1>0
    <2>2. k[1] \in Reports
      BY <2>1, ElementOf
    <2> QED
      BY <2>1, <2>2 DEF Run, Reports
  <1>3. t # <<>> /\ Len(t) \in Nat /\ Len(t) > 0
    BY <1>0, <1>1
  <1> HIDE DEF t
  <1>4. CASE Len(k) = Depth
    <2>1. Len(t) = Len(k) /\ Len(k) # 0
      BY <1>0, <1>1, <1>4
    <2>2. \A i \in 1..Len(t) : t[i] = k[1] + i
      BY <1>0, <1>1, <1>2, <1>4, <2>1
    <2> QED
      BY <1>0, <1>1, <1>2, <1>3, <1>4, <2>1, <2>2 DEF Run, t
  <1>5. CASE Len(k) < Depth /\ Len(k) # 0
    <2>1. Len(t) = Len(k) + 1
      BY <1>0, <1>1, <1>5
    <2>2. \A i \in 1..Len(t) : t[i] = k[1] + i - 1
      <3> SUFFICES ASSUME NEW i \in 1..Len(t) PROVE t[i] = k[1] + i - 1
        OBVIOUS
      <3>1. i \in 1..(Len(k) + 1) /\ t[i] = IF i = Len(k) + 1 THEN x ELSE k[i]
        BY <1>1, <1>5, <2>1
      <3>2. CASE i = Len(k) + 1
        BY <1>0, <1>2, <1>5, <3>1, <3>2
      <3>3. CASE i # Len(k) + 1
        <4>1. i \in 1..Len(k)
          BY <1>0, <3>1, <3>3
        <4> QED
          BY <1>2, <1>5, <3>1, <3>3, <4>1
      <3> QED
        BY <3>2, <3>3
    <2>3. t[1] = k[1] /\ t[Len(t)] = x
      BY <1>0, <1>2, <1>3, <1>5, <2>1, <2>2
    <2> QED
      BY <1>0, <1>3, <1>5, <2>1, <2>2, <2>3 DEF Run, t
  <1>6. CASE Len(k) = 0
    <2>1. Len(t) = 1 /\ t[1] = x
      BY <1>0, <1>1, <1>6
    <2> QED
      BY <1>0, <1>3, <1>6, <2>1 DEF Run, t
  <1> QED
    BY <1>0, <1>4, <1>5, <1>6

LEMMA UnbrokenTakes ==
  ASSUME NEW k \in Seq(Reports), k # <<>>, Run(k), NEW l, NEW P, NEW n, Unbroken(l, k, P, n)
  PROVE  Unbroken(k[1], Tail(k), P, n)
  <1> DEFINE t == Tail(k)
  <1>1. /\ t # <<>> => t[1] = k[1] + 1 /\ t[Len(t)] = k[Len(k)]
        /\ t = <<>> => k[1] = k[Len(k)]
    BY RunTakes
  <1> HIDE DEF t
  <1>2. Unbroken(k[1], t, P, n)
    BY <1>1 DEF Unbroken
  <1> QED
    BY <1>2 DEF t

LEMMA UnbrokenCaptures ==
  ASSUME NEW k \in Seq(Reports), Len(k) <= Depth, Run(k), NEW l, NEW P \in SUBSET Reports,
         NEW n, Unbroken(l, k, P, n), NEW x \in P
  PROVE  Run(Capture(k, x)) /\ Unbroken(l, Capture(k, x), {}, n)
  <1> DEFINE t == Capture(k, x)
  <1>1. x = n /\ x \in Reports /\ (k # <<>> => x = k[Len(k)] + 1) /\ (k = <<>> => x = l + 1)
    BY DEF Unbroken
  <1>2. /\ Run(t) /\ t # <<>> /\ t[Len(t)] = x
        /\ Len(t) < Depth => Len(k) < Depth
        /\ k = <<>> => t[1] = x
        /\ (k # <<>> /\ Len(k) < Depth) => t[1] = k[1]
    BY <1>1, RunCaptures
  <1> HIDE DEF t
  <1>3. Unbroken(l, t, {}, n)
    BY <1>1, <1>2 DEF Unbroken
  <1> QED
    BY <1>2, <1>3 DEF t

LEMMA MoveGapless ==
  ASSUME TInv, NEW b \in Eps, Move(b), Live',
         Gapless(wire[b], Data(b), ep[b].captured, Due(b), made[b], ep[b].disabled)
  PROVE  Gapless(wire'[b], Data(b)', ep'[b].captured, Due(b)', made'[b], ep'[b].disabled)
  <1> DEFINE s == wire[b]
             H == Data(b)
             k == ep[b].captured
             P == Due(b)
             n == made[b]
             off == ep[b].disabled
  <1>0. /\ s \in Seq(Reports) /\ H \in SUBSET Reports /\ k \in Seq(Reports) /\ Len(k) <= Depth
        /\ P \in SUBSET Reports /\ n \in Nat /\ Gapless(s, H, k, P, n, off)
        /\ MaxReports \in Nat /\ off \in BOOLEAN
    BY ViewTypes, BoundAssumption DEF TInv, Inner, EpRecord
  <1>a. \A x \in P : ~off
    BY DEF Due, TInv, Inner, Sound
  <1>b. \A x \in Reports : x \in 0..MaxReports
    BY <1>0 DEF Reports
  <1>1. CASE Idle(b)
    BY <1>1, <1>0 DEF Idle, Same, Gapless
  <1>2. CASE Taken(b)
    <2>1. wire'[b] = s /\ made'[b] = n /\ Due(b)' = P /\ k # <<>>
          /\ ep'[b].captured = Tail(k) /\ Data(b)' = {k[1]} /\ (off => ep'[b].disabled)
      BY <1>2 DEF Taken, Same
    <2> HIDE DEF s, H, k, P, n, off
    <2>2. Run(k) /\ Run(Tail(k)) /\ k[1] \in Reports
      <3>1. Run(k)
        BY <1>0 DEF Gapless
      <3>2. k[1] \in Reports
        BY <1>0, <2>1, TailIs DEF Reports
      <3> QED
        BY <1>0, <2>1, <3>1, <3>2, RunTakes
    <2>3. ~off => Unbroken(k[1], Tail(k), P, n)
      BY <1>0, <2>1, <2>2, UnbrokenTakes DEF Gapless
    <2>4. LastIs(s, {k[1]}, k[1]) /\ k[1] \in 0..MaxReports
      BY <1>b, <2>2 DEF LastIs
    <2> QED
      BY <2>1, <2>2, <2>3, <2>4 DEF Gapless
  <1>3. CASE Captured(b)
    <2>1. PICK x \in P : wire'[b] = s /\ made'[b] = n /\ Due(b)' = {} /\ Data(b)' = H
                         /\ ep'[b].captured = Capture(k, x)
      BY <1>3 DEF Captured, Same
    <2> HIDE DEF s, H, k, P, n, off
    <2>2. PICK l \in 0..MaxReports : Run(k) /\ LastIs(s, H, l) /\ Unbroken(l, k, P, n)
      BY <1>0, <1>a, <2>1 DEF Gapless
    <2>3. Run(Capture(k, x)) /\ Unbroken(l, Capture(k, x), {}, n)
      BY <1>0, <2>1, <2>2, UnbrokenCaptures
    <2> QED
      BY <2>1, <2>2, <2>3 DEF Gapless
  <1>4. CASE Answered(b)
    <2>1. PICK x \in P : wire'[b] = s /\ made'[b] = n /\ Due(b)' = {} /\ Data(b)' = {x}
                         /\ k = <<>> /\ ep'[b].captured = <<>>
      BY <1>4 DEF Answered, Same
    <2> HIDE DEF s, H, k, P, n, off
    <2>2. PICK l \in 0..MaxReports : Run(k) /\ Unbroken(l, k, P, n)
      BY <1>0, <1>a, <2>1 DEF Gapless
    <2>3. Unbroken(x, <<>>, {}, n) /\ LastIs(s, {x}, x) /\ x \in 0..MaxReports
      BY <1>0, <1>b, <2>1, <2>2 DEF Unbroken, LastIs
    <2> QED
      BY <2>1, <2>2, <2>3 DEF Gapless
  <1>5. CASE Posted(b)
    <2>1. PICK x \in Reports : wire'[b] = Append(s, x) /\ made'[b] = n /\ Due(b)' = P /\ H = {x}
                               /\ Data(b)' = {} /\ ep'[b].captured = k /\ ep'[b].disabled = off
      BY <1>5 DEF Posted
    <2> HIDE DEF s, H, k, P, n, off
    <2>2. ~off => Unbroken(x, k, P, n)
      BY <1>0, <2>1 DEF Gapless, LastIs
    <2> DEFINE t == Append(s, x)
    <2>3. t # <<>> /\ t[Len(t)] = x
      <3>1. Len(t) = Len(s) + 1 /\ Len(s) \in Nat /\ t[Len(s) + 1] = x /\ t \in Seq(Reports)
        BY <1>0, <2>1
      <3> QED
        BY <3>1
    <2>4. wire'[b] = t
      BY <2>1
    <2> HIDE DEF t
    <2>5. LastIs(t, {}, x) /\ x \in 0..MaxReports
      BY <1>b, <2>3 DEF LastIs
    <2> QED
      BY <1>0, <2>1, <2>2, <2>4, <2>5 DEF Gapless
  <1>6. CASE Made(b)
    <2>1. wire'[b] = s /\ made'[b] = n + 1 /\ P = {} /\ Due(b)' = {n + 1} /\ Data(b)' = H
          /\ ep'[b].captured = k /\ ep'[b].disabled = off
      BY <1>6 DEF Made
    <2> HIDE DEF s, H, k, P, n, off
    <2>2. \A l \in 0..MaxReports : Unbroken(l, k, P, n) => Unbroken(l, k, {n + 1}, n + 1)
      BY <2>1 DEF Unbroken
    <2> QED
      BY <1>0, <2>1, <2>2 DEF Gapless
  <1>7. CASE Dropped(b)
    <2>1. ep'[b].captured = <<>> /\ ep'[b].disabled
      BY <1>7 DEF Dropped
    <2>2. Len(<<>>) = 0 /\ 1..0 = {}
      OBVIOUS
    <2> QED
      BY <2>1, <2>2 DEF Gapless, Run
  <1>8. CASE Ended(b)
    BY <1>8 DEF Ended
  <1> QED
    BY <1>1, <1>2, <1>3, <1>4, <1>5, <1>6, <1>7, <1>8 DEF Move

\* A thread that has ended does not come back.
LEMMA LiveBefore == [Next]_vars /\ Live' => Live
  <1> SUFFICES ASSUME [Next]_vars, Live' PROVE Live
    OBVIOUS
  <1> USE DEF Live
  <1>1. CASE Device \/ Unplug \/ SessionOver \/ UNCHANGED vars
    BY <1>1 DEF Device, DeviceReport, DeviceError, Complete, Unplug, SessionOver, vars, reader,
                reaper
  <1>2. CASE ReaderStep
    <2>1. rpPc' = rpPc
      BY <1>2 DEF ReaderStep, Arm, TakeReady, TakeWaiting, TakePassThrough, ReadSubmit, Unlink,
                  RdPost, RdLeave, Shutdown, reaper
    <2>2. rdPc \in {"arm", "read", "post"}
      BY <1>2 DEF ReaderStep, Arm, TakeReady, TakeWaiting, TakePassThrough, ReadSubmit, Unlink,
                  RdPost, RdLeave, Shutdown
    <2> QED
      BY <2>1, <2>2
  <1>3. CASE ReaperStep
    BY <1>3 DEF ReaperStep, Reap, DeliverNone, DeliverError, DeliverReport, Deliverable, Owe,
                RpPost, RpLeave, reader
  <1> QED
    BY <1>1, <1>2, <1>3 DEF Next

LEMMA FreshNext == OInv /\ Fresh /\ SeqnumRests /\ [Next]_vars => Fresh'
  <1> SUFFICES ASSUME OInv, Fresh, SeqnumRests, [Next]_vars, Live', NEW b \in Eps
               PROVE  Gapless(wire'[b], Data(b)', ep'[b].captured, Due(b)', made'[b],
                              ep'[b].disabled)
    BY DEF Fresh
  <1>1. Move(b) /\ TInv
    BY EveryMove DEF OInv
  <1>2. Gapless(wire[b], Data(b), ep[b].captured, Due(b), made[b], ep[b].disabled)
    BY LiveBefore DEF Fresh
  <1> QED
    BY <1>1, <1>2, MoveGapless

LEMMA FreshInit == Init => Fresh
  <1> SUFFICES ASSUME Init PROVE Fresh
    OBVIOUS
  <1>1. \A a \in Eps : wire[a] = <<>> /\ ep[a].captured = <<>> /\ made[a] = 0 /\ Data(a) = {}
                       /\ Due(a) = {}
    BY DEF Init, NewEndpoint, Data, Due
  <1>2. Len(<<>>) = 0 /\ 1..0 = {} /\ 0 \in 0..MaxReports
    BY BoundAssumption
  <1>3. LastIs(<<>>, {}, 0) /\ Unbroken(0, <<>>, {}, 0) /\ Run(<<>>)
    BY <1>2 DEF LastIs, Unbroken, Run
  <1> QED
    BY <1>1, <1>2, <1>3 DEF Fresh, Gapless

LEMMA LastHandedIs ==
  ASSUME NEW a \in Eps, NEW l, LastIs(wire[a], Data(a), l)
  PROVE  LastHanded(a) = l
  <1> DEFINE I == {m \in rdHand \cup rpHand : m.kind = "data" /\ m.ep = a}
  <1>1. Data(a) = {m.data : m \in I}
    BY DEF Data
  <1>2. LastHanded(a) = IF I # {} THEN (CHOOSE m \in I : TRUE).data
                        ELSE IF wire[a] = <<>> THEN 0 ELSE wire[a][Len(wire[a])]
    BY DEF LastHanded
  <1> HIDE DEF I
  <1>3. CASE I = {}
    <2>1. Data(a) = {}
      BY <1>1, <1>3
    <2> QED
      BY <1>2, <1>3, <2>1 DEF LastIs
  <1>4. CASE I # {}
    <2>1. (CHOOSE m \in I : TRUE) \in I
      BY <1>4
    <2>2. (CHOOSE m \in I : TRUE).data \in Data(a)
      BY <1>1, <2>1
    <2> QED
      BY <1>2, <1>4, <2>2 DEF LastIs
  <1> QED
    BY <1>3, <1>4

\* While both threads run, what is held for an endpoint is an unbroken run of
\* its newest reports, for any number of endpoints and any DEPTH: it ends at
\* the last one the reaper has seen, and starts right after the last one
\* handed out unless a full buffer dropped its oldest (prefetch.rs:36-44).
THEOREM HeldStayFreshest == Spec /\ []SeqnumRests => []HeldAreFreshest
  <1>1. Spec /\ []SeqnumRests => [](OInv /\ Fresh)
    BY OrderInit, OrderNext, FreshInit, FreshNext, PTL DEF Spec
  <1>2. OInv /\ Fresh => HeldAreFreshest
    <2> SUFFICES ASSUME OInv, Fresh, NEW a \in Eps, Running, ep[a].captured # <<>>
                 PROVE  LET held == ep[a].captured IN
                        /\ \A i \in 1..Len(held) : held[i] = held[1] + i - 1
                        /\ Len(held) = Depth \/ ep[a].disabled \/ held[1] = LastHanded(a) + 1
                        /\ (\E q \in ISeqs : ep[a].inFlight = q /\ urb[q].state = "flying")
                             => held[Len(held)] = made[a]
      BY DEF HeldAreFreshest
    <2> DEFINE k == ep[a].captured
    <2>1. Gapless(wire[a], Data(a), k, Due(a), made[a], ep[a].disabled)
      BY DEF Fresh, Live, Running
    <2>2. k \in Seq(Reports) /\ Len(k) <= Depth
      BY ViewTypes DEF OInv
    <2>3. Len(k) \in Nat /\ Depth \in Nat
      BY <2>2, DepthAssumption
    <2>4. Run(k)
      BY <2>1 DEF Gapless
    <2>5. ASSUME ~ep[a].disabled
          PROVE  /\ Len(k) = Depth \/ k[1] = LastHanded(a) + 1
                 /\ Due(a) = {} => made[a] = k[Len(k)]
      <3>1. PICK l \in 0..MaxReports : LastIs(wire[a], Data(a), l)
                                       /\ Unbroken(l, k, Due(a), made[a])
        BY <2>1, <2>5 DEF Gapless
      <3>2. LastHanded(a) = l
        BY <3>1, LastHandedIs
      <3> QED
        BY <2>2, <2>3, <3>1, <3>2 DEF Unbroken
    <2>6. ASSUME NEW q \in ISeqs, ep[a].inFlight = q, urb[q].state = "flying"
          PROVE  ~ep[a].disabled /\ Due(a) = {}
      <3>1. q # 0 /\ \A u \in rpUrb : u.seq # q
        BY <2>6, SeqnumsPositive DEF OInv, Known
      <3>2. ~ep[a].disabled
        BY <2>6, <3>1 DEF OInv, TInv, Inner, Sound
      <3>3. Due(a) = {}
        BY <2>6, <3>1 DEF Due
      <3> QED
        BY <3>2, <3>3
    <2> QED
      BY <2>4, <2>5, <2>6 DEF Run
  <1> QED
    BY <1>1, <1>2, PTL

\* With one interrupt IN endpoint all of this holds without any condition,
\* however often the counter comes round (prefetch.rs arm_one, deliver).
THEOREM OneEndpointIsSafe ==
  ASSUME \A a, b \in Eps : a = b
  PROVE  Spec => [](UrbsAreKnown /\ ReportsInOrder /\ HeldAreFreshest)
  BY OneEndpointRests, UrbsStayKnown, ReportsStayInOrder, HeldStayFreshest, PTL

\* With any number of endpoints it holds until the counter of internal seqnums
\* has used up its range (prefetch.rs:316).
THEOREM SafeUntilWrap ==
  Spec /\ [](nextSeq # Top) => [](UrbsAreKnown /\ ReportsInOrder /\ HeldAreFreshest)
  BY NoWrapRests, UrbsStayKnown, ReportsStayInOrder, HeldStayFreshest, PTL
=============================================================================
