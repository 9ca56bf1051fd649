-------------------------- MODULE ToggleChordProofs --------------------------
(***************************************************************************)
(* One press of the chord toggles the device at most once, for any number  *)
(* of buttons, interfaces and reports under way.                           *)
(***************************************************************************)
EXTENDS ToggleChord, FiniteSetTheorems, WellFoundedInduction, TLAPS

-----------------------------------------------------------------------------
(* Induction, as a fact about sets of numbers.                             *)

LEMMA LeastMember ==
  ASSUME NEW T \in SUBSET Nat, T # {}
  PROVE  \E m \in T : \A k \in T : m <= k
  <1> DEFINE R == OpToRel(<, Nat)
  <1>1. IsWellFoundedOn(R, Nat)
    BY NatLessThanWellFounded
  <1>2. \E m \in T : \A k \in T : ~(<<k, m>> \in R)
    <2> HIDE DEF R
    <2> QED BY <1>1, WFMin
  <1>3. PICK m \in T : \A k \in T : ~(<<k, m>> \in R)
    BY <1>2
  <1>4. ASSUME NEW k \in T PROVE m <= k
    <2>1. ~(<<k, m>> \in R)
      BY <1>3
    <2>2. k \in Nat /\ m \in Nat
      OBVIOUS
    <2> QED
      BY <2>1, <2>2 DEF OpToRel
  <1> QED
    BY <1>4

LEMMA Induction ==
  ASSUME NEW S, 0 \in S, \A n \in Nat : n \in S => n + 1 \in S
  PROVE  Nat \subseteq S
  <1>1. SUFFICES ASSUME NEW T \in SUBSET Nat, T = Nat \ S, T # {} PROVE FALSE
    OBVIOUS
  <1>2. PICK m \in T : \A k \in T : m <= k
    BY <1>1, LeastMember
  <1>3. m # 0 /\ m - 1 \in Nat /\ (m - 1) + 1 = m
    BY <1>1
  <1>4. m - 1 \notin T
    BY <1>2, <1>3
  <1> QED
    BY <1>1, <1>3, <1>4
-----------------------------------------------------------------------------
(* What a batch of reports does to a detector: FeedAll.                    *)

\* The chord is not, or is, down in report `r`.
Up(r) == r.state /\ ~HeldIn(r.buttons)
Held(r) == r.state /\ HeldIn(r.buttons)

\* `v` says what the detector `d` has made of each prefix of the reports.
Course(v, d, reports, m) ==
  v = [n \in 0..m |-> IF n = 0 THEN Unfed(d) ELSE FeedNext(v[n - 1], reports[n])]

LEMMA CourseExists ==
  ASSUME NEW d, NEW reports
  PROVE  \A m \in Nat : \E v : Course(v, d, reports, m)
  <1> DEFINE S == {m \in Nat : \E v : Course(v, d, reports, m)}
  <1>1. 0 \in S
    <2>1. Course([n \in 0..0 |-> Unfed(d)], d, reports, 0)
      BY DEF Course
    <2> QED
      BY <2>1
  <1>2. ASSUME NEW m \in Nat, m \in S PROVE m + 1 \in S
    <2>1. PICK v : Course(v, d, reports, m)
      BY <1>2
    <2> DEFINE w == [n \in 0..(m + 1) |->
                       IF n = 0 THEN Unfed(d) ELSE FeedNext(v[n - 1], reports[n])]
    <2>2. \A n \in 0..m : w[n] = v[n]
      BY <2>1 DEF Course
    <2>3. \A n \in 0..(m + 1) :
            n # 0 => FeedNext(v[n - 1], reports[n]) = FeedNext(w[n - 1], reports[n])
      BY <2>2
    <2>4. w = [n \in 0..(m + 1) |-> IF n = 0 THEN Unfed(d) ELSE FeedNext(w[n - 1], reports[n])]
      BY <2>3
    <2> HIDE DEF w
    <2> QED
      BY <2>4 DEF Course
  <1> HIDE DEF S
  <1>3. Nat \subseteq S
    BY <1>1, <1>2, Induction
  <1> QED
    BY <1>3 DEF S

LEMMA FeedAllCourse ==
  ASSUME NEW d, NEW reports, Len(reports) \in Nat
  PROVE  \E v : Course(v, d, reports, Len(reports)) /\ FeedAll(d, reports) = v[Len(reports)]
  <1> DEFINE v == CHOOSE v : Course(v, d, reports, Len(reports))
  <1>1. Course(v, d, reports, Len(reports))
    BY CourseExists
  <1>2. FeedAll(d, reports) = v[Len(reports)]
    BY DEF FeedAll, Course
  <1> QED
    BY <1>1, <1>2
\* A detector fires on a report in which the chord is down, and only if it was
\* armed; a report with the chord up, and nothing else, arms it.
LEMMA FeedEffect ==
  ASSUME NEW d \in Detector, NEW r \in Report
  PROVE  /\ Feed(d, r).det \in Detector /\ Feed(d, r).fired \in BOOLEAN
         /\ Feed(d, r).fired => Held(r) /\ d.armed /\ ~Feed(d, r).det.armed
         /\ Feed(d, r).det.armed => d.armed \/ Up(r)
  <1> USE NumbersAssumption
  <1>1. CASE ~r.state
    BY <1>1 DEF Feed, Verdict
  <1>2. CASE r.state /\ ~HeldIn(r.buttons)
    BY <1>2 DEF Feed, Verdict, Detector, Up
  <1>3. CASE r.state /\ HeldIn(r.buttons)
    <2> DEFINE held == IF d.age = -1 THEN 0 ELSE d.age
               fired == d.armed /\ held >= Hold
    <2>1. Feed(d, r) = Verdict([armed |-> d.armed /\ ~fired, age |-> held], fired)
      BY <1>3 DEF Feed
    <2>2. d.armed \in BOOLEAN /\ held \in -1..Hold
      BY DEF Detector
    <2>3. fired \in BOOLEAN /\ (d.armed /\ ~fired) \in BOOLEAN
      BY <2>2
    <2>4. /\ Feed(d, r).fired = fired
          /\ Feed(d, r).det = [armed |-> d.armed /\ ~fired, age |-> held]
      BY <2>1 DEF Verdict
    <2>5. Feed(d, r).det \in Detector
      BY <2>2, <2>3, <2>4 DEF Detector
    <2>6. Feed(d, r).det.armed = (d.armed /\ ~fired)
      BY <2>4
    <2> HIDE DEF held
    <2> QED
      BY <1>3, <2>2, <2>3, <2>4, <2>5, <2>6 DEF Held
  <1> QED
    BY <1>1, <1>2, <1>3 DEF Report

\* The same of a batch.
Batch(v, d, reports, n) ==
  /\ v.det \in Detector /\ v.fired \in BOOLEAN
  /\ v.det.armed => d.armed \/ \E j \in 1..n : Up(reports[j])
  /\ v.fired =>
       /\ ~v.det.armed
       /\ \E i \in 1..n : /\ Held(reports[i]) /\ v.by = reports[i].press
                          /\ d.armed \/ \E j \in 1..(i - 1) : Up(reports[j])

LEMMA BatchEffect ==
  ASSUME NEW d \in Detector, NEW reports \in Seq(Report)
  PROVE  Batch(FeedAll(d, reports), d, reports, Len(reports))
  <1>1. PICK v : Course(v, d, reports, Len(reports)) /\ FeedAll(d, reports) = v[Len(reports)]
    BY FeedAllCourse
  <1> DEFINE S == {n \in Nat : n <= Len(reports) => Batch(v[n], d, reports, n)}
  <1>2. 0 \in S
    <2>1. v[0] = Unfed(d)
      BY <1>1 DEF Course
    <2>2. v[0].det = d /\ v[0].fired = FALSE
      BY <2>1 DEF Unfed
    <2>3. Batch(v[0], d, reports, 0)
      BY <2>2 DEF Batch
    <2> QED
      BY <2>3
  <1>3. ASSUME NEW n \in Nat, n \in S PROVE n + 1 \in S
    <2>1. SUFFICES ASSUME n + 1 <= Len(reports) PROVE Batch(v[n + 1], d, reports, n + 1)
      OBVIOUS
    <2>2. Batch(v[n], d, reports, n)
      BY <1>3, <2>1
    <2>3. v[n + 1] = FeedNext(v[n], reports[n + 1])
      BY <1>1, <2>1 DEF Course
    <2>4. reports[n + 1] \in Report
      BY <2>1
    <2>5. 1..n \subseteq 1..(n + 1) /\ n + 1 \in 1..(n + 1) /\ (n + 1) - 1 = n
      OBVIOUS
    <2>6. CASE v[n].fired
      BY <2>2, <2>3, <2>5, <2>6 DEF FeedNext, Batch
    <2>7. CASE ~v[n].fired
      <3> DEFINE f == Feed(v[n].det, reports[n + 1])
      <3>1. v[n + 1] = [det |-> f.det, fired |-> f.fired, by |-> reports[n + 1].press]
        BY <2>3, <2>7 DEF FeedNext
      <3>2. /\ f.det \in Detector /\ f.fired \in BOOLEAN
            /\ f.fired => Held(reports[n + 1]) /\ v[n].det.armed /\ ~f.det.armed
            /\ f.det.armed => v[n].det.armed \/ Up(reports[n + 1])
        BY <2>2, <2>4, FeedEffect DEF Batch
      <3> HIDE DEF f
      <3> QED
        BY <2>2, <2>5, <3>1, <3>2 DEF Batch
    <2> QED
      BY <2>2, <2>6, <2>7 DEF Batch
  <1> HIDE DEF S
  <1>4. Nat \subseteq S
    BY <1>2, <1>3, Induction
  <1> QED
    BY <1>1, <1>4 DEF S
-----------------------------------------------------------------------------
(* The invariant.                                                          *)

\* Whoever reads the queue has it alone: a session has evicted the drivers, so
\* that the watcher's tap is closed or dead; and a watcher about to read has
\* a tap.
Ears ==
  /\ sess = "live" => nodes = {} /\ (tap = {} \/ tapDead)
  /\ wPc = "read" => tap # {}

\* A report behind place `i` of the queue, or the next one to be sent, shows
\* the chord held in press `p`.
Coming(i, p) ==
  \/ HeldIn(down) /\ p = press
  \/ \E j \in DOMAIN queue : j > i /\ Held(queue[j]) /\ p = queue[j].press

\* Behind a report that shows the chord released are presses that have not
\* toggled anything, and none that was seen before that report.
SpentAreOver ==
  \A i \in DOMAIN queue : Up(queue[i]) => \A p \in spent : ~Coming(i, p)
PressesDiffer ==
  \A i, k \in DOMAIN queue :
    k < i /\ Up(queue[i]) /\ Held(queue[k]) => ~Coming(i, queue[k].press)

\* No press that an armed detector can still see has toggled the device.
Armed == (sess = "live" /\ sdet.armed) \/ (tap # {} /\ ~tapDead /\ wdet.armed)
ArmedIsFresh == Armed => \A p \in spent : ~Coming(0, p)

PInv == TypeOK /\ Ears /\ SpentAreOver /\ PressesDiffer /\ ArmedIsFresh /\ OnePressOneToggle
-----------------------------------------------------------------------------
(* A new press has a number of its own, and the variables keep their types. *)

Used == {press} \cup {queue[i].press : i \in DOMAIN queue}

\* There is one number more than a full queue and the current press can use.
LEMMA FreshPress ==
  ASSUME TypeOK
  PROVE  \E p \in Presses : p \notin Used
  <1> USE NumbersAssumption
  <1> DEFINE n == Len(queue)
  <1>1. n \in Nat /\ n <= QueueLen /\ DOMAIN queue = 1..n
    BY DEF TypeOK
  <1>2. SUFFICES ASSUME \A p \in Presses : p \in Used PROVE FALSE
    OBVIOUS
  <1> DEFINE place == [p \in Presses |->
                         IF p = press THEN 0 ELSE CHOOSE i \in 1..n : queue[i].press = p]
  <1>3. \A p \in Presses : p # press => /\ place[p] \in 1..n
                                         /\ queue[place[p]].press = p
    BY <1>1, <1>2 DEF Used
  <1>4. \A p \in Presses : p = press => place[p] = 0
    OBVIOUS
  <1>5. place \in [Presses -> 0..n]
    BY <1>1, <1>3, <1>4
  <1> HIDE DEF place
  <1>6. /\ IsFiniteSet(Presses) /\ Cardinality(Presses) = QueueLen + 2
        /\ IsFiniteSet(0..n) /\ Cardinality(0..n) = n + 1
    <2>1. QueueLen + 1 \in Int /\ 0 \in Int /\ n \in Int
      BY <1>1
    <2> QED
      BY <1>1, <2>1, FS_Interval DEF Presses
  <1>7. PICK p, q \in Presses : p # q /\ place[p] = place[q]
    <2>1. Cardinality(0..n) < Cardinality(Presses)
      BY <1>1, <1>6
    <2> QED
      BY <1>5, <1>6, <2>1, FS_PigeonHole
  <1>8. p # press /\ q # press
    BY <1>1, <1>3, <1>4, <1>7
  <1> QED
    BY <1>3, <1>7, <1>8

LEMMA NewReports ==
  ASSUME TypeOK
  PROVE  /\ Foreign \in Report
         /\ [state |-> TRUE, buttons |-> down, press |-> press] \in Report
         /\ NewDetector \in Detector
         /\ Older(sdet) \in Detector /\ Older(wdet) \in Detector
         /\ Older(sdet).armed = sdet.armed /\ Older(wdet).armed = wdet.armed
  <1> USE NumbersAssumption
  <1>1. ASSUME NEW d \in Detector
        PROVE  Older(d) \in Detector /\ Older(d).armed = d.armed
    BY DEF Older, Detector
  <1> QED
    BY <1>1 DEF TypeOK, Foreign, Report, Presses, NewDetector, Detector

LEMMA InitPInv == Init => PInv
  <1> SUFFICES ASSUME Init PROVE PInv
    OBVIOUS
  <1> USE NumbersAssumption
  <1>1. <<>> \in Seq(Report) /\ Len(<<>>) = 0 /\ DOMAIN <<>> = {}
    OBVIOUS
  <1>2. NewDetector \in Detector
    BY DEF NewDetector, Detector
  <1>3. 0 \in Presses /\ 1 \in 1..(NumIfs + 1) /\ 0 <= QueueLen
    BY DEF Presses
  <1>4. TypeOK
    BY <1>1, <1>2, <1>3 DEF Init, TypeOK
  <1> QED
    BY <1>1, <1>4 DEF Init, PInv, Ears, SpentAreOver, PressesDiffer, ArmedIsFresh, Armed,
       OnePressOneToggle
-----------------------------------------------------------------------------
(* Each action keeps the invariant.                                        *)

\* The actions that leave the buttons, the queue and the history alone.
LEMMA QuietPInv ==
  ASSUME PInv, UNCHANGED <<person, history, queue>>, TypeOK', Ears', Armed' => Armed
  PROVE  PInv'
  <1>1. \A i, p : Coming(i, p)' <=> Coming(i, p)
    BY DEF Coming, person
  <1> QED
    BY <1>1 DEF PInv, SpentAreOver, PressesDiffer, ArmedIsFresh, OnePressOneToggle, person, history

\* The actions that also empty the queue.
LEMMA EmptiedPInv ==
  ASSUME PInv, UNCHANGED <<person, history>>, queue' = <<>>, TypeOK', Ears', Armed' => Armed
  PROVE  PInv'
  <1>1. DOMAIN queue' = {}
    OBVIOUS
  <1>2. \A i, p : Coming(i, p)' => Coming(i, p)
    BY <1>1 DEF Coming, person
  <1> QED
    BY <1>1, <1>2
    DEF PInv, SpentAreOver, PressesDiffer, ArmedIsFresh, OnePressOneToggle, history

LEMMA OutsidePInv ==
  ASSUME PInv, Tick \/ Hangup PROVE PInv'
  <1>1. TypeOK
    BY DEF PInv
  <1>2. UNCHANGED <<person, history, queue, sess, nodes, wPc, tap, tapDead>>
    BY DEF Tick, Hangup, session, watcher
  <1>3. sdet'.armed = sdet.armed /\ wdet'.armed = wdet.armed
    BY <1>1, NewReports DEF Tick, Hangup, session, watcher
  <1>4. TypeOK'
    <2>1. sdet' \in Detector /\ wdet' \in Detector
      BY <1>1, NewReports DEF Tick, Hangup, TypeOK, session, watcher
    <2>2. UNCHANGED <<next, willFire, suspended, watched, look>> /\ hangup' \in BOOLEAN
      BY <1>1 DEF Tick, Hangup, TypeOK, session, watcher
    <2> QED
      BY <1>1, <1>2, <2>1, <2>2 DEF TypeOK, person, history
  <1>5. Ears' /\ (Armed' => Armed)
    BY <1>2, <1>3 DEF PInv, Ears, Armed
  <1> QED
    BY <1>2, <1>4, <1>5, QuietPInv

LEMMA HandOverPInv ==
  ASSUME PInv, Reconnect \/ Released PROVE PInv'
  <1> USE NumbersAssumption
  <1>1. TypeOK
    BY DEF PInv
  <1>2. UNCHANGED <<person, history, queue, sdet, wdet, wPc, tap, tapDead>>
    BY DEF Reconnect, Released, watcher
  <1>3. nodes' \subseteq Ifs /\ next' \in 1..(NumIfs + 1)
    <2>1. CASE Reconnect
      <3>1. next \in Ifs /\ next' = next + 1
        BY <1>1, <2>1 DEF Reconnect, TypeOK, Ifs
      <3>2. nodes' = nodes \cup {next} \/ nodes' = nodes
        BY <2>1 DEF Reconnect
      <3>3. nodes' \subseteq Ifs
        BY <1>1, <3>1, <3>2 DEF TypeOK
      <3>4. next' \in 1..(NumIfs + 1)
        BY <3>1 DEF Ifs
      <3> QED
        BY <3>3, <3>4
    <2>2. CASE Released
      BY <1>1, <2>2 DEF Released, TypeOK
    <2> QED
      BY <2>1, <2>2
  <1>4. TypeOK'
    BY <1>1, <1>3 DEF Reconnect, Released, TypeOK, person, history, watcher
  <1>5. sess' # "live"
    BY DEF Reconnect, Released
  <1>6. Ears' /\ (Armed' => Armed)
    BY <1>2, <1>5 DEF PInv, Ears, Armed
  <1> QED
    BY <1>2, <1>4, <1>6, QuietPInv

LEMMA WatchPInv ==
  ASSUME PInv, WTop \/ WList \/ WLook \/ WStop PROVE PInv'
  <1>1. TypeOK
    BY DEF PInv
  <1>2. UNCHANGED <<person, history, queue, session, nodes, tapDead>>
    BY DEF WTop, WList, WLook, WStop
  <1>3. (tap' = tap /\ wdet' = wdet) \/ tap' = {}
    BY DEF WTop, WList, WLook, WStop
  <1>4. TypeOK'
    BY <1>1, NewReports DEF WTop, WList, WLook, WStop, TypeOK, person, history, session
  <1>5. wPc' = "read" => tap' # {}
    BY DEF WTop, WList, WLook, WStop
  <1>6. Ears' /\ (Armed' => Armed)
    BY <1>2, <1>3, <1>5 DEF PInv, Ears, Armed, session
  <1> QED
    BY <1>2, <1>4, <1>6, QuietPInv

LEMMA ImportPInv ==
  ASSUME PInv, Import PROVE PInv'
  <1>1. TypeOK
    BY DEF PInv
  <1>2. UNCHANGED <<person, history>> /\ queue' = <<>>
    BY DEF Import
  <1>3. TypeOK'
    <2>1. (tap # {}) \in BOOLEAN /\ <<>> \in Seq(Report) /\ Len(<<>>) <= QueueLen
      BY NumbersAssumption
    <2> QED
      BY <1>1, <2>1, NewReports DEF Import, TypeOK, person, history, watcher
  <1>4. Ears' /\ ~Armed'
    BY DEF Import, PInv, Ears, Armed, NewDetector, watcher
  <1> QED
    BY <1>2, <1>3, <1>4, EmptiedPInv

LEMMA EndPInv ==
  ASSUME PInv, Suspend \/ Detach PROVE PInv'
  <1>1. TypeOK
    BY DEF PInv
  <1>2. UNCHANGED <<person, history>> /\ queue' = <<>>
    BY DEF Suspend, Detach, EndSession
  <1>3. TypeOK'
    <2>1. <<>> \in Seq(Report) /\ Len(<<>>) <= QueueLen
      BY NumbersAssumption
    <2> QED
      BY <1>1, <2>1, NewReports
      DEF Suspend, Detach, EndSession, TypeOK, person, history, watcher
  <1>4. Ears' /\ (Armed' => Armed)
    BY DEF Suspend, Detach, EndSession, PInv, Ears, Armed, watcher
  <1> QED
    BY <1>2, <1>3, <1>4, EmptiedPInv

\* Tap::open over an evicted device finds nothing; otherwise the detector is new.
LEMMA OpenPInv ==
  ASSUME PInv, WOpen PROVE PInv'
  <1>1. TypeOK
    BY DEF PInv
  <1>2. tap' \subseteq nodes /\ UNCHANGED <<person, history, session, nodes>>
    BY DEF WOpen, Opened
  <1>3. TypeOK'
    <2>1. <<>> \in Seq(Report) /\ Len(<<>>) <= QueueLen
      BY NumbersAssumption
    <2> QED
      BY <1>1, <1>2, <2>1, NewReports DEF WOpen, TypeOK, person, history, session
  <1>4. CASE tap' = {}
    BY <1>2, <1>3, <1>4, QuietPInv DEF WOpen, PInv, Ears, Armed, session
  <1>5. CASE tap' # {}
    <2>1. sess' # "live"
      BY <1>2, <1>5 DEF PInv, Ears, session
    <2>2. Ears' /\ ~Armed'
      BY <1>5, <2>1 DEF WOpen, Ears, Armed, NewDetector
    <2> QED
      BY <1>2, <1>3, <1>5, <2>2, EmptiedPInv DEF WOpen
  <1> QED
    BY <1>4, <1>5
\* A report joins the queue.  What is behind an earlier report is what was
\* coming before, for the report shows the buttons as they are.
LEMMA ReportPInv ==
  ASSUME PInv, StateReport \/ ForeignReport PROVE PInv'
  <1>1. TypeOK
    BY DEF PInv
  <1>2. PICK r \in Report :
          /\ Queue(r)
          /\ (Up(r) => ~HeldIn(down)) /\ (Held(r) => HeldIn(down) /\ r.press = press)
    <2>1. CASE StateReport
      BY <1>1, <2>1, NewReports DEF StateReport, Up, Held
    <2>2. CASE ForeignReport
      BY <1>1, <2>2, NewReports DEF ForeignReport, Foreign, Up, Held
    <2> QED
      BY <2>1, <2>2
  <1>3. PICK n \in Nat :
        /\ n = Len(queue) /\ DOMAIN queue = 1..n /\ n < QueueLen
        /\ queue' \in Seq(Report) /\ Len(queue') = n + 1 /\ DOMAIN queue' = 1..(n + 1)
        /\ \A j \in 1..n : queue'[j] = queue[j]
        /\ queue'[n + 1] = r
    BY <1>1, <1>2 DEF Queue, TypeOK
  <1>4. UNCHANGED <<person, history, session, nodes, suspended, hangup, watcher, tapDead>>
    BY <1>2 DEF Queue
  <1>5. TypeOK'
    <2>1. Len(queue') <= QueueLen
      BY <1>3, NumbersAssumption
    <2> QED
      BY <1>1, <1>3, <1>4, <2>1 DEF TypeOK, person, history, session, watcher
  <1>6. ASSUME NEW i \in 0..n, NEW p PROVE Coming(i, p)' <=> Coming(i, p)
    <2>1. ASSUME NEW j \in 1..(n + 1), Held(queue'[j]), p = queue'[j].press
          PROVE  j \in 1..n \/ (HeldIn(down) /\ p = press)
      BY <1>2, <1>3, <2>1
    <2> QED
      BY <1>3, <1>4, <2>1 DEF Coming, person
  <1>7. ASSUME Up(r), NEW p PROVE ~Coming(n + 1, p)'
    BY <1>2, <1>3, <1>4, <1>7 DEF Coming, person
  <1>8. SpentAreOver'
    <2>1. ASSUME NEW i \in 1..(n + 1), Up(queue'[i]), NEW p \in spent PROVE ~Coming(i, p)'
      <3>1. CASE i \in 1..n
        BY <1>3, <1>6, <2>1, <3>1 DEF PInv, SpentAreOver
      <3>2. CASE i = n + 1
        BY <1>3, <1>7, <2>1, <3>2
      <3> QED
        BY <1>3, <3>1, <3>2
    <2> QED
      BY <1>3, <1>4, <2>1 DEF SpentAreOver, history
  <1>9. PressesDiffer'
    <2>1. ASSUME NEW i \in 1..(n + 1), NEW k \in 1..(n + 1), NEW p,
                 k < i, Up(queue'[i]), Held(queue'[k]), p = queue'[k].press
          PROVE  ~Coming(i, p)'
      <3>1. CASE i \in 1..n
        <4>1. k \in 1..n
          BY <1>3, <2>1, <3>1
        <4> QED
          BY <1>3, <1>6, <2>1, <3>1, <4>1 DEF PInv, PressesDiffer
      <3>2. CASE i = n + 1
        BY <1>3, <1>7, <2>1, <3>2
      <3> QED
        BY <1>3, <3>1, <3>2
    <2> QED
      BY <1>3, <2>1 DEF PressesDiffer
  <1>10. Ears' /\ (Armed' <=> Armed)
    BY <1>4 DEF PInv, Ears, Armed, session, watcher
  <1>11. ArmedIsFresh'
    BY <1>3, <1>4, <1>6, <1>10 DEF PInv, ArmedIsFresh, history
  <1> QED
    BY <1>4, <1>5, <1>8, <1>9, <1>10, <1>11 DEF PInv, OnePressOneToggle, history

\* The buttons change.  A new press has a number that no report and no spent
\* press has.
LEMMA ButtonsPInv ==
  ASSUME PInv, NEW m \in Masks, Buttons(m) PROVE PInv'
  <1> DEFINE fresh == CHOOSE p \in Presses : p \notin Used
  <1>1. TypeOK
    BY DEF PInv
  <1>2. fresh \in Presses /\ fresh \notin Used
    BY <1>1, FreshPress
  <1>3. UNCHANGED <<again, queue, session, nodes, suspended, hangup, watcher, tapDead>>
    BY DEF Buttons
  <1>4. /\ down' = m
        /\ \/ ~HeldIn(down) /\ press' = fresh /\ spent' = spent \cap Used
           \/ (HeldIn(m) => HeldIn(down)) /\ press' = press /\ spent' = spent
    BY DEF Buttons, Used
  <1> HIDE DEF fresh
  <1>5. TypeOK'
    BY <1>1, <1>2, <1>3, <1>4 DEF TypeOK, session, watcher
  <1>6. \A i, p : Coming(i, p)' =>
          Coming(i, p) \/ (press' = fresh /\ p = fresh /\ spent' = spent \cap Used)
    BY <1>3, <1>4 DEF Coming
  <1>7. spent' \subseteq spent
    BY <1>4
  <1>8. \A i, p : p \in spent' /\ Coming(i, p)' => Coming(i, p)
    BY <1>2, <1>6
  <1>9. \A k \in DOMAIN queue : queue[k].press # fresh
    BY <1>2 DEF Used
  <1>10. Ears' /\ (Armed' <=> Armed)
    BY <1>3 DEF PInv, Ears, Armed, session, watcher
  <1>11. SpentAreOver' /\ ArmedIsFresh'
    BY <1>3, <1>7, <1>8, <1>10 DEF PInv, SpentAreOver, ArmedIsFresh
  <1>12. PressesDiffer'
    BY <1>3, <1>6, <1>9 DEF PInv, PressesDiffer
  <1> QED
    BY <1>3, <1>5, <1>10, <1>11, <1>12 DEF PInv, OnePressOneToggle
\* The reaper feeds the first report.  An armed detector fires only for a press
\* that has toggled nothing; one that is armed by this report has only new
\* presses before it.
LEMMA ReapPInv ==
  ASSUME PInv, Reap PROVE PInv'
  <1>1. TypeOK
    BY DEF PInv
  <1>2. PICK n \in Nat :
        /\ Len(queue) = n + 1 /\ DOMAIN queue = 1..(n + 1)
        /\ queue' \in Seq(Report) /\ Len(queue') = n /\ DOMAIN queue' = 1..n
        /\ \A j \in 1..n : queue'[j] = queue[j + 1]
        /\ queue[1] \in Report /\ Head(queue) = queue[1]
    <2>1. queue \in Seq(Report) /\ queue # <<>>
      BY <1>1 DEF Reap, TypeOK
    <2>2. Len(queue) \in Nat /\ Len(queue) # 0
      BY <2>1
    <2>3. Len(queue) - 1 \in Nat /\ (Len(queue) - 1) + 1 = Len(queue)
      BY <2>2
    <2>4. queue' = Tail(queue)
      BY DEF Reap
    <2>5. /\ queue' \in Seq(Report) /\ Len(queue') = Len(queue) - 1
          /\ \A j \in 1..(Len(queue) - 1) : queue'[j] = queue[j + 1]
      BY <2>1, <2>4
    <2>6. queue[1] \in Report /\ Head(queue) = queue[1]
      BY <2>1, <2>2
    <2>7. DOMAIN queue = 1..((Len(queue) - 1) + 1) /\ DOMAIN queue' = 1..(Len(queue) - 1)
      BY <2>1, <2>3, <2>5
    <2> WITNESS Len(queue) - 1 \in Nat
    <2> QED
      BY <2>3, <2>5, <2>6, <2>7
  <1>3. PICK r : r = queue[1]
    OBVIOUS
  <1>4. PICK v : v = Feed(sdet, r)
    OBVIOUS
  <1>5. /\ sess = "live"
        /\ UNCHANGED <<sess, person, next, nodes, suspended, hangup, watcher, tapDead>>
        /\ sdet' = v.det /\ willFire' = (willFire \/ v.fired)
        /\ spent' = (IF v.fired THEN spent \cup {r.press} ELSE spent)
        /\ again' = (again \/ (v.fired /\ r.press \in spent))
    BY <1>2, <1>3, <1>4 DEF Reap, Toggled
  <1>6. /\ v.det \in Detector /\ v.fired \in BOOLEAN
        /\ v.fired => Held(r) /\ sdet.armed /\ ~v.det.armed
        /\ v.det.armed => sdet.armed \/ Up(r)
    BY <1>1, <1>2, <1>3, <1>4, FeedEffect DEF TypeOK
  <1>7. r.press \in Presses
    BY <1>2, <1>3 DEF Report
  <1>8. ASSUME NEW i \in 0..n, NEW p PROVE Coming(i, p)' <=> Coming(i + 1, p)
    <2>1. ASSUME NEW j \in 1..(n + 1), j > i + 1
          PROVE  j - 1 \in 1..n /\ j - 1 > i /\ (j - 1) + 1 = j
      BY <2>1
    <2>2. ASSUME NEW j \in 1..n, j > i PROVE j + 1 \in 1..(n + 1) /\ j + 1 > i + 1
      BY <2>2
    <2>3. ASSUME NEW j \in 1..n, j > i, Held(queue'[j]), p = queue'[j].press
          PROVE  Coming(i + 1, p)
      BY <1>2, <2>2, <2>3 DEF Coming
    <2>4. ASSUME NEW j \in 1..(n + 1), j > i + 1, Held(queue[j]), p = queue[j].press
          PROVE  Coming(i, p)'
      <3>1. PICK k \in 1..n : k > i /\ k + 1 = j
        BY <2>1, <2>4
      <3>2. Held(queue'[k]) /\ p = queue'[k].press
        BY <1>2, <2>4, <3>1
      <3> QED
        BY <1>2, <3>1, <3>2 DEF Coming
    <2>5. HeldIn(down) /\ p = press => Coming(i, p)' /\ Coming(i + 1, p)
      BY <1>5 DEF Coming, person
    <2>6. Coming(i, p)' => Coming(i + 1, p)
      BY <1>2, <1>5, <2>3, <2>5 DEF Coming, person
    <2>7. Coming(i + 1, p) => Coming(i, p)'
      BY <1>2, <2>4, <2>5 DEF Coming
    <2> QED
      BY <2>6, <2>7
  <1>9. ~again'
    <2>1. SUFFICES ASSUME v.fired PROVE r.press \notin spent
      BY <1>5, <1>6 DEF PInv, OnePressOneToggle
    <2>2. Coming(0, r.press)
      <3>1. 1 \in 1..(n + 1)
        OBVIOUS
      <3> QED
        BY <1>2, <1>3, <1>6, <2>1, <3>1 DEF Coming
    <2> QED
      BY <1>5, <1>6, <2>1, <2>2 DEF PInv, ArmedIsFresh, Armed
  <1>10. Ears'
    BY <1>5 DEF PInv, Ears, watcher
  <1>11. TypeOK'
    <2>1. spent' \subseteq Presses /\ again' \in BOOLEAN /\ willFire' \in BOOLEAN
      BY <1>1, <1>5, <1>6, <1>7 DEF TypeOK
    <2>2. queue' \in Seq(Report) /\ Len(queue') <= QueueLen
      BY <1>1, <1>2, NumbersAssumption DEF TypeOK
    <2> QED
      BY <1>1, <1>5, <1>6, <2>1, <2>2 DEF TypeOK, person, watcher
  <1>12. SpentAreOver'
    <2>1. ASSUME NEW i \in 1..n, Up(queue'[i]), NEW p \in spent' PROVE ~Coming(i, p)'
      <3>1. i + 1 \in 1..(n + 1) /\ 1 \in 1..(n + 1) /\ 1 < i + 1 /\ i \in 0..n
        OBVIOUS
      <3>2. Up(queue[i + 1])
        BY <1>2, <2>1
      <3>3. p \in spent => ~Coming(i + 1, p)
        BY <1>2, <3>1, <3>2 DEF PInv, SpentAreOver
      <3>4. v.fired => ~Coming(i + 1, r.press)
        BY <1>2, <1>3, <1>6, <3>1, <3>2 DEF PInv, PressesDiffer
      <3> QED
        BY <1>5, <1>8, <2>1, <3>1, <3>3, <3>4
    <2> QED
      BY <1>2, <2>1 DEF SpentAreOver
  <1>13. PressesDiffer'
    <2>1. ASSUME NEW i \in 1..n, NEW k \in 1..n, NEW p,
                 k < i, Up(queue'[i]), Held(queue'[k]), p = queue'[k].press
          PROVE  ~Coming(i, p)'
      <3>1. i + 1 \in 1..(n + 1) /\ k + 1 \in 1..(n + 1) /\ k + 1 < i + 1 /\ i \in 0..n
        BY <2>1
      <3>2. Up(queue[i + 1]) /\ Held(queue[k + 1]) /\ p = queue[k + 1].press
        BY <1>2, <2>1
      <3>3. ~Coming(i + 1, p)
        BY <1>2, <3>1, <3>2 DEF PInv, PressesDiffer
      <3> QED
        BY <1>8, <3>1, <3>3
    <2> QED
      BY <1>2, <2>1 DEF PressesDiffer
  <1>14. ArmedIsFresh'
    <2>1. SUFFICES ASSUME Armed', NEW p \in spent' PROVE ~Coming(0, p)'
      BY DEF ArmedIsFresh
    <2>2. v.det.armed
      BY <1>5, <2>1 DEF PInv, Ears, Armed, watcher
    <2>3. p \in spent
      BY <1>5, <1>6, <2>1, <2>2
    <2>4. Coming(1, p) => Coming(0, p)
      BY <1>2 DEF Coming
    <2>5. sdet.armed => ~Coming(0, p)
      BY <1>5, <2>3 DEF PInv, ArmedIsFresh, Armed
    <2>6. Up(r) => ~Coming(1, p)
      <3>1. 1 \in 1..(n + 1)
        OBVIOUS
      <3> QED
        BY <1>2, <1>3, <2>3, <3>1 DEF PInv, SpentAreOver
    <2>7. Coming(0, p)' => Coming(1, p)
      <3>1. 0 \in 0..n /\ 0 + 1 = 1
        OBVIOUS
      <3> QED
        BY <1>8, <3>1
    <2> QED
      BY <1>6, <2>2, <2>4, <2>5, <2>6, <2>7
  <1> QED
    BY <1>9, <1>10, <1>11, <1>12, <1>13, <1>14 DEF PInv, OnePressOneToggle

\* The watcher feeds all there is at one instant.
LEMMA ReadPInv ==
  ASSUME PInv, WRead PROVE PInv'
  <1>1. TypeOK /\ tap # {}
    BY DEF PInv, Ears, WRead
  <1>2. UNCHANGED <<person, session, nodes, hangup, watched, look, tapDead>> /\ wPc' = "top"
    BY DEF WRead
  <1>3. CASE tapDead
    <2>1. tap' = {} /\ UNCHANGED <<queue, history, suspended, wdet>>
      BY <1>3 DEF WRead, TapRead
    <2>2. TypeOK'
      BY <1>1, <1>2, <2>1 DEF TypeOK, person, history, session
    <2>3. Ears' /\ (Armed' => Armed)
      BY <1>2, <2>1 DEF PInv, Ears, Armed, session
    <2> QED
      BY <1>2, <2>1, <2>2, <2>3, QuietPInv
  <1>4. CASE ~tapDead
    <2>1. PICK v : v = FeedAll(wdet, queue)
      OBVIOUS
    <2>2. /\ wdet' = v.det /\ queue' = <<>> /\ tap' = tap
          /\ spent' = (IF v.fired THEN spent \cup {v.by} ELSE spent)
          /\ again' = (again \/ (v.fired /\ v.by \in spent))
          /\ suspended' = (suspended /\ ~v.fired)
      BY <1>4, <2>1 DEF WRead, TapRead, Toggled
    <2>3. sess # "live"
      BY <1>1, <1>4 DEF PInv, Ears
    <2>4. DOMAIN queue = 1..Len(queue) /\ Len(queue) \in Nat
          /\ \A i \in 1..Len(queue) : queue[i] \in Report
      BY <1>1 DEF TypeOK
    <2>5. Batch(v, wdet, queue, Len(queue))
      BY <1>1, <2>1, BatchEffect DEF TypeOK
    <2>6. wdet.armed => \A p \in spent : ~Coming(0, p)
      BY <1>1, <1>4 DEF PInv, ArmedIsFresh, Armed
    <2>7. v.fired => v.by \in Presses /\ v.by \notin spent
      <3>1. SUFFICES ASSUME v.fired PROVE v.by \in Presses /\ v.by \notin spent
        OBVIOUS
      <3>2. PICK i \in 1..Len(queue) :
              /\ Held(queue[i]) /\ v.by = queue[i].press
              /\ wdet.armed \/ \E j \in 1..(i - 1) : Up(queue[j])
        BY <2>5, <3>1 DEF Batch
      <3>3. v.by \in Presses
        BY <2>4, <3>2 DEF Report
      <3>4. ASSUME wdet.armed PROVE v.by \notin spent
        <4>1. Coming(0, v.by)
          BY <2>4, <3>2 DEF Coming
        <4> QED
          BY <2>6, <3>4, <4>1
      <3>5. ASSUME NEW j \in 1..(i - 1), Up(queue[j]) PROVE v.by \notin spent
        <4>1. j \in 1..Len(queue) /\ i > j
          BY <2>4, <3>2
        <4>2. Coming(j, v.by)
          BY <2>4, <3>2, <4>1 DEF Coming
        <4> QED
          BY <2>4, <3>5, <4>1, <4>2 DEF PInv, SpentAreOver
      <3> QED
        BY <3>2, <3>3, <3>4, <3>5
    <2>8. TypeOK'
      <3>1. spent' \subseteq Presses /\ again' \in BOOLEAN /\ suspended' \in BOOLEAN
        BY <1>1, <2>2, <2>5, <2>7 DEF TypeOK, Batch
      <3>2. queue' \in Seq(Report) /\ Len(queue') <= QueueLen
        BY <2>2, NumbersAssumption
      <3>3. wdet' \in Detector
        BY <2>2, <2>5 DEF Batch
      <3> QED
        BY <1>1, <1>2, <2>2, <3>1, <3>2, <3>3 DEF TypeOK, person, session
    <2>9. DOMAIN queue' = {}
      BY <2>2
    <2>10. SpentAreOver' /\ PressesDiffer'
      BY <2>9 DEF SpentAreOver, PressesDiffer
    <2>11. ~again'
      BY <2>2, <2>5, <2>7 DEF PInv, OnePressOneToggle, Batch
    <2>12. ArmedIsFresh'
      <3>1. SUFFICES ASSUME Armed', NEW p \in spent' PROVE ~Coming(0, p)'
        BY DEF ArmedIsFresh
      <3>2. v.det.armed
        BY <1>2, <2>2, <2>3, <3>1 DEF Armed, session
      <3>3. p \in spent /\ (wdet.armed \/ \E j \in 1..Len(queue) : Up(queue[j]))
        BY <2>2, <2>5, <3>1, <3>2 DEF Batch
      <3>4. Coming(0, p)' => HeldIn(down) /\ p = press
        BY <1>2, <2>9 DEF Coming, person
      <3>5. HeldIn(down) /\ p = press => \A j : Coming(j, p)
        BY DEF Coming
      <3> QED
        BY <2>4, <2>6, <3>3, <3>4, <3>5 DEF PInv, SpentAreOver
    <2>13. Ears'
      BY <1>2, <2>2, <2>3 DEF Ears, session
    <2> QED
      BY <2>8, <2>10, <2>11, <2>12, <2>13 DEF PInv, OnePressOneToggle
  <1> QED
    BY <1>3, <1>4

LEMMA NextPInv == PInv /\ [Next]_vars => PInv'
  <1> SUFFICES ASSUME PInv, [Next]_vars PROVE PInv'
    OBVIOUS
  <1>1. CASE UNCHANGED vars
    <2>1. TypeOK' /\ Ears' /\ (Armed' => Armed)
      BY <1>1 DEF PInv, TypeOK, Ears, Armed, vars, person, history, session, watcher
    <2> QED
      BY <1>1, <2>1, QuietPInv DEF vars
  <1> QED
    BY <1>1, OutsidePInv, HandOverPInv, WatchPInv, ImportPInv, EndPInv, OpenPInv, ReportPInv,
       ButtonsPInv, ReapPInv, ReadPInv DEF Next, Session, Watcher

-----------------------------------------------------------------------------
\* The session and the watcher keep their types, and a press always finds a
\* number of its own (chord.rs Detector, toggle.rs Watched).
THEOREM ChordTypes == Spec => []TypeOK
  <1>1. PInv => TypeOK
    BY DEF PInv
  <1> QED
    BY <1>1, InitPInv, NextPInv, PTL DEF Spec

\* One press of the chord toggles the device at most once, for any chord, hold
\* time, number of interfaces and reports under way: each reader of the buttons
\* starts with a detector that has to see the chord released, and behind the
\* report that shows the release there are only later presses (chord.rs
\* Detector::feed, toggle.rs attach_tap, session.rs reaper_loop).
THEOREM OneTogglePerPress == Spec => []OnePressOneToggle
  <1>1. PInv => OnePressOneToggle
    BY DEF PInv
  <1> QED
    BY <1>1, InitPInv, NextPInv, PTL DEF Spec
=============================================================================
