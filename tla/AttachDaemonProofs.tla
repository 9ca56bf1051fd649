------------------------- MODULE AttachDaemonProofs -------------------------
(***************************************************************************)
(* Proofs about AttachDaemon, for any servers, bus ids and ports and any   *)
(* delays.  Each theorem says which outside events it excludes, if any.    *)
(***************************************************************************)
EXTENDS AttachDaemon, FiniteSetTheorems, WellFoundedInduction, TLAPS

\* Ports are numbers, so that there is a first one among those that are free.
LEMMA MinPort == ASSUME NEW S \in SUBSET Ports, S # {} PROVE Min(S) \in S
  <1> DEFINE R == {ss \in Nat \X Nat : ss[1] < ss[2]}
  <1>1. S \subseteq Nat
    BY PortsAssumption
  <1>2. IsWellFoundedOn(R, Nat)
    BY NatLessThanWellFounded DEF OpToRel
  <1>3. PICK x \in S : \A y \in S : ~(<<y, x>> \in R)
    BY <1>1, <1>2, WFMin
  <1>4. ASSUME NEW y \in S PROVE x <= y
    <2>1. x \in Nat /\ y \in Nat
      BY <1>1
    <2>2. <<y, x>> \in Nat \X Nat /\ <<y, x>>[1] = y /\ <<y, x>>[2] = x
      BY <2>1
    <2>3. ~(y < x)
      BY <1>3, <2>2
    <2> QED
      BY <2>1, <2>3
  <1> QED
    BY <1>3, <1>4 DEF Min

\* The port that `usbip attach` takes is free, and the one that newly_used finds
\* was not in the snapshot.
LEMMA FreePort == ASSUME UsbipOk PROVE Min(Ports \ Occupied) \in Ports \ Occupied
  <1>1. Ports \ Occupied \in SUBSET Ports /\ Ports \ Occupied # {}
    BY DEF UsbipOk, Occupied
  <1> QED
    BY <1>1, MinPort

LEMMA NewPort == ASSUME Settled PROVE Min(Occupied \ before) \in Occupied \ before
  <1>1. Occupied \ before \in SUBSET Ports /\ Occupied \ before # {}
    BY DEF Settled, Occupied
  <1> QED
    BY <1>1, MinPort

LEMMA MinOfTwo ==
  ASSUME NEW a \in Nat, NEW b \in Nat PROVE Min({a, b}) = IF a <= b THEN a ELSE b
  <1>1. CASE a <= b
    BY <1>1 DEF Min
  <1>2. CASE ~(a <= b)
    BY <1>2 DEF Min
  <1> QED
    BY <1>1, <1>2

LEMMA MaxOfTwo ==
  ASSUME NEW a \in Nat, NEW b \in Nat PROVE Max({a, b}) = IF a >= b THEN a ELSE b
  <1>1. CASE a >= b
    BY <1>1 DEF Max
  <1>2. CASE ~(a >= b)
    BY <1>2 DEF Max
  <1> QED
    BY <1>1, <1>2

-----------------------------------------------------------------------------
(* Types, and the delays between the retries.                              *)

Backoffs == [delay : {0} \cup RetryMin..RetryMax, wait : 0..RetryMax]

DType == TypeOK /\ backoff \in [Servers -> Backoffs]

\* A failure at any delay gives one between the floor and the ceiling.
LEMMA DelayBounds ==
  ASSUME NEW d \in {0} \cup RetryMin..RetryMax
  PROVE  /\ NextDelay(d) \in RetryMin..RetryMax
         /\ (IF d = 0 THEN RetryMin ELSE d) \in 0..RetryMax
  <1> USE RetryAssumption
  <1> DEFINE twice == 2 * (IF d = 0 THEN RetryMin ELSE d)
  <1>1. twice \in Nat /\ twice >= RetryMin
    OBVIOUS
  <1>2. NextDelay(d) = IF twice <= RetryMax THEN twice ELSE RetryMax
    BY <1>1, MinOfTwo DEF NextDelay
  <1> QED
    BY <1>1, <1>2

LEMMA FailureBackoff ==
  ASSUME backoff \in [Servers -> Backoffs], NEW s \in Servers, RecordFailure(s)
  PROVE  backoff' \in [Servers -> Backoffs]
  <1>1. backoff[s].delay \in {0} \cup RetryMin..RetryMax
    BY DEF Backoffs
  <1> QED
    BY <1>1, DelayBounds DEF RecordFailure, Backoffs

LEMMA ClearBackoff ==
  ASSUME backoff \in [Servers -> Backoffs], NEW s \in Servers, ClearFailure(s)
  PROVE  backoff' \in [Servers -> Backoffs]
  BY RetryAssumption DEF ClearFailure, Backoffs

LEMMA BackoffType ==
  ASSUME backoff \in [Servers -> Backoffs]
  PROVE  /\ \A s \in Servers : backoff[s].delay \in {0} \cup RetryMin..RetryMax
         /\ \A s \in Servers : backoff[s].wait \in 0..RetryMax
  BY DEF Backoffs

LEMMA EnvironmentType == ASSUME DType, Environment PROVE DType'
  <1> USE DEF DType, TypeOK, exporters, vhci, work
  <1>1. ASSUME NEW s \in Servers, ServerFlips(s) PROVE DType'
    BY <1>1 DEF ServerFlips
  <1>2. ASSUME NEW s \in Servers, NEW b \in Busids, OfferFlips(s, b) PROVE DType'
    BY <1>2 DEF OfferFlips
  <1>3. ASSUME NEW p \in Ports, PortUp(p) \/ PortDrop(p) \/ PortError(p) \/ ForeignAttach(p)
        PROVE  DType'
    BY <1>3 DEF PortUp, PortDrop, PortError, ForeignAttach
  <1>4. CASE DetachAll
    BY <1>4 DEF DetachAll, Detached
  <1>5. CASE Stop
    <2>1. backoff' \in [Servers -> Backoffs]
      BY <1>5, RetryAssumption DEF Stop, NoBackoff, Backoffs
    <2> QED
      BY <1>5, <2>1, RetryAssumption DEF Stop, NoBackoff
  <1> QED
    BY <1>1, <1>2, <1>3, <1>4, <1>5 DEF Environment

LEMMA DaemonType == ASSUME DType, DaemonStep PROVE DType'
  <1> USE DEF DType, TypeOK, exporters, vhci, work
  <1>1. CASE Start
    <2>1. attached' \subseteq Trackable
      BY <1>1 DEF Start, AdoptExisting, Snapshots, Occupied, Tracked, Trackable
    <2> QED
      BY <1>1, <2>1 DEF Start
  <1>2. CASE Prune \/ PruneSkipped \/ AfterPrune \/ ServersDone
    BY <1>2 DEF Prune, PruneSkipped, AfterPrune, ServersDone
  <1>3. ASSUME NEW t \in broken, PruneDetach(t) \/ PruneDetachFails(t) PROVE DType'
    BY <1>3 DEF PruneDetach, PruneDetachFails, Detached
  <1>4. ASSUME NEW s \in Servers, TrySkip(s) PROVE DType'
    BY <1>4 DEF TrySkip
  <1>5. ASSUME NEW s \in Servers, TryUnreachable(s) PROVE DType'
    <2>1. backoff' \in [Servers -> Backoffs]
      BY <1>5, FailureBackoff DEF TryUnreachable
    <2>2. /\ \A r \in Servers : backoff'[r].delay \in {0} \cup RetryMin..RetryMax
          /\ \A r \in Servers : backoff'[r].wait \in 0..RetryMax
      BY <2>1 DEF Backoffs
    <2> QED
      BY <1>5, <2>1, <2>2 DEF TryUnreachable
  <1>6. ASSUME NEW s \in Servers, TryNothing(s) PROVE DType'
    <2>1. backoff' \in [Servers -> Backoffs]
      BY <1>6, ClearBackoff DEF TryNothing
    <2>2. /\ \A r \in Servers : backoff'[r].delay \in {0} \cup RetryMin..RetryMax
          /\ \A r \in Servers : backoff'[r].wait \in 0..RetryMax
      BY <2>1 DEF Backoffs
    <2> QED
      BY <1>6, <2>1, <2>2 DEF TryNothing
  <1>7. ASSUME NEW s \in Servers, NEW b \in Busids, TryAttach(s, b) PROVE DType'
    <2>1. backoff' \in [Servers -> Backoffs]
      BY <1>7, ClearBackoff DEF TryAttach
    <2>2. /\ \A r \in Servers : backoff'[r].delay \in {0} \cup RetryMin..RetryMax
          /\ \A r \in Servers : backoff'[r].wait \in 0..RetryMax
      BY <2>1 DEF Backoffs
    <2>3. before' \subseteq Ports
      BY <1>7 DEF TryAttach, Snapshots, Occupied
    <2>4. cur' \in Remotes /\ cur' # Nothing
      BY <1>7, NothingAssumption DEF TryAttach, Remotes
    <2> QED
      BY <1>7, <2>1, <2>2, <2>3, <2>4 DEF TryAttach
  <1>8. CASE UsbipOk
    <2>1. Min(Ports \ Occupied) \in Ports \ Occupied
      BY <1>8, FreePort
    <2>2. /\ cur \in Remotes /\ cur # Nothing /\ pc' = "settle"
          /\ UNCHANGED <<exporters, attached, backoff, work>>
      BY <1>8 DEF UsbipOk
    <2>3. PICK p \in Ports :
            /\ st' = [st EXCEPT ![p] = "notassigned"]
            /\ remote' = [remote EXCEPT ![p] = cur]
            /\ rec' = IF Records THEN [rec EXCEPT ![p] = cur] ELSE rec
      BY <1>8, <2>1 DEF UsbipOk
    <2> QED
      BY <2>2, <2>3
  <1>9. CASE UsbipFails
    <2>1. cur \in Remotes /\ cur[1] \in Servers
      BY <1>9 DEF UsbipFails, Remotes
    <2>2. backoff' \in [Servers -> Backoffs]
      BY <1>9, <2>1, FailureBackoff DEF UsbipFails
    <2>3. /\ \A r \in Servers : backoff'[r].delay \in {0} \cup RetryMin..RetryMax
          /\ \A r \in Servers : backoff'[r].wait \in 0..RetryMax
      BY <2>2 DEF Backoffs
    <2> QED
      BY <1>9, <2>2, <2>3 DEF UsbipFails
  <1>10. CASE Settled
    <2>1. Min(Occupied \ before) \in Ports
      BY <1>10, NewPort DEF Occupied
    <2>2. attached' \subseteq Trackable
      BY <1>10, <2>1 DEF Settled, Tracked, Trackable
    <2> QED
      BY <1>10, <2>2 DEF Settled
  <1>11. CASE SettleTimeout
    BY <1>11 DEF SettleTimeout
  <1>12. CASE Nap
    <2>1. \A s \in Servers : Max({backoff[s].wait, 1}) - 1 \in 0..RetryMax
      BY MaxOfTwo, RetryAssumption
    <2>2. backoff' \in [Servers -> Backoffs]
      BY <1>12, <2>1 DEF Nap, Backoffs
    <2>3. /\ \A r \in Servers : backoff'[r].delay \in {0} \cup RetryMin..RetryMax
          /\ \A r \in Servers : backoff'[r].wait \in 0..RetryMax
      BY <2>2 DEF Backoffs
    <2> QED
      BY <1>12, <2>2, <2>3 DEF Nap
  <1> QED
    BY <1>1, <1>2, <1>3, <1>4, <1>5, <1>6, <1>7, <1>8, <1>9, <1>10, <1>11, <1>12
    DEF DaemonStep

LEMMA InitDType == Init => DType
  <1> SUFFICES ASSUME Init PROVE DType
    OBVIOUS
  <1>1. backoff \in [Servers -> Backoffs]
    BY RetryAssumption DEF Init, NoBackoff, Backoffs
  <1> QED
    BY <1>1, BackoffType DEF Init, DType, TypeOK

LEMMA NextDType == DType /\ [Next]_vars => DType'
  <1>1. DType /\ UNCHANGED vars => DType'
    BY DEF DType, TypeOK, vars, exporters, vhci, work
  <1> QED
    BY <1>1, EnvironmentType, DaemonType DEF Next

\* The daemon's state keeps its types; in particular the delay before a retry
\* stays between retry_min and retry_max (main.rs record_failure).
THEOREM DaemonTypes == Spec => []TypeOK
  <1>1. DType => TypeOK
    BY DEF DType
  <1> QED
    BY <1>1, InitDType, NextDType, PTL DEF Spec

-----------------------------------------------------------------------------
(* What prune() has put aside to detach: only while it is detaching, and   *)
(* none of it works, unless somebody else has taken the port meanwhile.    *)
Condemned ==
  /\ pc # "detach" => broken = {}
  /\ \A t \in broken : t.port \in Alive => remote[t.port] = Foreign

LEMMA NextCondemned == DType /\ Condemned /\ [Next]_vars => Condemned'
  <1> SUFFICES ASSUME DType, Condemned, [Next]_vars PROVE Condemned'
    OBVIOUS
  <1>0. \A t \in broken : t.port \in Ports
    BY DEF DType, TypeOK, Trackable
  <1> USE DEF DType, TypeOK, Condemned, Alive, exporters, vhci, work
  <1>1. CASE Environment
    <2>1. ASSUME NEW s \in Servers, NEW b \in Busids, OfferFlips(s, b) PROVE Condemned'
      BY <2>1 DEF OfferFlips
    <2>2. ASSUME NEW s \in Servers, ServerFlips(s) PROVE Condemned'
      BY <2>2 DEF ServerFlips
    <2>3. ASSUME NEW p \in Ports, PortUp(p) \/ PortDrop(p) \/ PortError(p) \/ ForeignAttach(p)
          PROVE  Condemned'
      BY <1>0, <2>3 DEF PortUp, PortDrop, PortError, ForeignAttach
    <2>4. CASE DetachAll
      BY <1>0, <2>4 DEF DetachAll, Detached
    <2>5. CASE Stop
      BY <2>5 DEF Stop
    <2> QED
      BY <1>1, <2>1, <2>2, <2>3, <2>4, <2>5 DEF Environment
  <1>2. CASE Start \/ PruneSkipped \/ AfterPrune \/ ServersDone \/ Nap
    BY <1>2 DEF Start, PruneSkipped, AfterPrune, ServersDone, Nap
  <1>3. CASE Prune
    BY <1>3 DEF Prune
  <1>4. ASSUME NEW t \in broken, PruneDetach(t) \/ PruneDetachFails(t) PROVE Condemned'
    BY <1>0, <1>4 DEF PruneDetach, PruneDetachFails, Detached
  <1>5. ASSUME NEW s \in Servers, TrySkip(s) \/ TryUnreachable(s) \/ TryNothing(s)
        PROVE  Condemned'
    BY <1>5 DEF TrySkip, TryUnreachable, TryNothing
  <1>6. ASSUME NEW s \in Servers, NEW b \in Busids, TryAttach(s, b) PROVE Condemned'
    BY <1>6 DEF TryAttach
  <1>7. CASE UsbipOk \/ UsbipFails \/ Settled \/ SettleTimeout
    <2>1. broken' = {}
      BY <1>7 DEF UsbipOk, UsbipFails, Settled, SettleTimeout
    <2> QED
      BY <2>1
  <1>8. CASE UNCHANGED vars
    BY <1>8 DEF vars
  <1> QED
    BY <1>1, <1>2, <1>3, <1>4, <1>5, <1>6, <1>7, <1>8 DEF Next, DaemonStep

\* prune() decides on what it read and detaches one port after the other; none of
\* them is a working connection to a server by then, whatever has happened to
\* the ports and to the daemon before (main.rs prune).
THEOREM PruneSparesHealthy == Spec => HealthyNeverDetached
  <1>1. Init => DType /\ Condemned
    BY InitDType DEF Init, Condemned
  <1>2. DType /\ Condemned /\ [Next]_vars => (DType /\ Condemned)'
    BY NextDType, NextCondemned
  <1>3. DType /\ Condemned /\ [Next]_vars
          => [\A t \in broken :
                PruneDetach(t) => (t.port \notin Alive \/ remote[t.port] = Foreign)]_vars
    BY DEF Condemned
  <1> QED
    BY <1>1, <1>2, <1>3, PTL DEF Spec, HealthyNeverDetached

-----------------------------------------------------------------------------
(* What the daemon tracks, when nobody else uses vhci and its status can   *)
(* be read.                                                                *)

Undisturbed == "foreign" \notin Events /\ "statusFails" \notin Events

TrackedPort(p) == \E t \in attached : t.port = p

\* A working port is tracked, or is the one that attach() is waiting for.  That
\* one may have been in the snapshot, dropped and been taken again: it is
\* then tracked under its former entry.
AliveTracked ==
  /\ pc # "down" => \A p \in Alive : TrackedPort(p) \/ (pc = "settle" /\ p \notin before)
  /\ pc = "usbip" => Occupied \subseteq before
  /\ pc = "settle" => \A p, q \in Occupied \ before : p = q
  /\ pc \in {"usbip", "settle"} => \A p \in before : TrackedPort(p) \/ st[p] = "error"

\* The steps that change neither what is tracked nor where attach() stands, and
\* bring no port up.
LEMMA PortsFadeAlive ==
  ASSUME DType, AliveTracked, pc' = pc, attached' = attached, before' = before,
         \A p \in Ports : /\ st'[p] # "null" => st[p] # "null"
                          /\ st'[p] \in {"notassigned", "used"} => st[p] \in {"notassigned", "used"}
                          /\ st[p] = "error" => st'[p] = "error"
  PROVE  AliveTracked'
  <1>1. Alive' \subseteq Alive /\ Occupied' \subseteq Occupied
    BY DEF Alive, Occupied
  <1>2. \A p \in before : st[p] = "error" => st'[p] = "error"
    BY DEF DType, TypeOK
  <1> QED
    BY <1>1, <1>2 DEF AliveTracked, TrackedPort

\* Past prune(), and before the snapshot, every working port is tracked.
LEMMA RestingAlive ==
  ASSUME AliveTracked, pc \in {"prune", "detach", "servers", "nap"}
  PROVE  \A p \in Alive : TrackedPort(p)
  BY DEF AliveTracked

LEMMA NextAliveTracked ==
  ASSUME Undisturbed, DType, Condemned, AliveTracked, [Next]_vars PROVE AliveTracked'
  <1> USE DEF exporters, vhci, work
  <1>0. Snapshots = {Occupied}
    BY DEF Undisturbed, Snapshots
  <1>1. CASE Environment
    <2>1. ASSUME NEW s \in Servers, NEW b \in Busids, OfferFlips(s, b) PROVE AliveTracked'
      BY <2>1, PortsFadeAlive DEF OfferFlips
    <2>2. ASSUME NEW s \in Servers, ServerFlips(s) PROVE AliveTracked'
      BY <2>2, PortsFadeAlive DEF ServerFlips
    <2>3. ASSUME NEW p \in Ports, PortUp(p) \/ PortDrop(p) \/ PortError(p) \/ ForeignAttach(p)
          PROVE  AliveTracked'
      BY <2>3, PortsFadeAlive
      DEF DType, TypeOK, PortUp, PortDrop, PortError, ForeignAttach, Undisturbed
    <2>4. CASE DetachAll
      <3>1. PICK gone \in SUBSET {p \in Ports : st[p] = "used"} : Detached(gone)
        BY <2>4 DEF DetachAll
      <3>2. pc' = pc /\ attached' = attached /\ before' = before
        BY <2>4 DEF DetachAll
      <3> QED
        BY <3>1, <3>2, PortsFadeAlive DEF Detached
    <2>5. CASE Stop
      BY <2>5 DEF Stop, AliveTracked
    <2> QED
      BY <1>1, <2>1, <2>2, <2>3, <2>4, <2>5 DEF Environment
  <1>2. CASE Start
    <2>1. attached' = AdoptExisting(Occupied) /\ pc' = "prune" /\ st' = st
      BY <1>0, <1>2 DEF Start
    <2>2. \A p \in Occupied : Tracked(rec[p], p) \in attached' /\ Tracked(rec[p], p).port = p
      BY <2>1 DEF AdoptExisting, Tracked
    <2>3. \A p \in Occupied : TrackedPort(p)'
      BY <2>2 DEF TrackedPort
    <2> QED
      BY <2>1, <2>3 DEF AliveTracked, Alive, Occupied
  <1>3. CASE Prune
    <2>1. \A p \in Alive : TrackedPort(p)
      BY <1>3, RestingAlive DEF Prune
    <2> QED
      BY <1>3, <2>1 DEF Prune, AliveTracked, TrackedPort, Alive
  <1>4. CASE PruneSkipped \/ AfterPrune \/ ServersDone \/ Nap
    <2>1. \A p \in Alive : TrackedPort(p)
      BY <1>4, RestingAlive DEF PruneSkipped, AfterPrune, ServersDone, Nap
    <2> QED
      BY <1>4, <2>1
      DEF PruneSkipped, AfterPrune, ServersDone, Nap, AliveTracked, TrackedPort, Alive
  <1>5. ASSUME NEW t \in broken, PruneDetach(t) \/ PruneDetachFails(t) PROVE AliveTracked'
    <2>1. \A p \in Alive : TrackedPort(p)
      BY <1>5, RestingAlive DEF PruneDetach, PruneDetachFails
    <2>2. Alive' \subseteq Alive
      BY <1>5 DEF PruneDetach, PruneDetachFails, Detached, Alive
    <2> QED
      BY <1>5, <2>1, <2>2 DEF PruneDetach, PruneDetachFails, AliveTracked, TrackedPort
  <1>6. ASSUME NEW s \in Servers, TrySkip(s) \/ TryUnreachable(s) \/ TryNothing(s)
        PROVE  AliveTracked'
    BY <1>6, PortsFadeAlive DEF TrySkip, TryUnreachable, TryNothing
  <1>7. ASSUME NEW s \in Servers, NEW b \in Busids, TryAttach(s, b) PROVE AliveTracked'
    <2>1. \A p \in Alive : TrackedPort(p)
      BY <1>7, RestingAlive DEF TryAttach
    <2>2. before' = Occupied /\ st' = st /\ attached' = attached /\ pc' = "usbip"
      BY <1>0, <1>7 DEF TryAttach
    <2>3. \A p \in Occupied : p \in Alive \/ st[p] = "error"
      BY DEF DType, TypeOK, Occupied, Alive
    <2> QED
      BY <2>1, <2>2, <2>3 DEF AliveTracked, TrackedPort, Occupied, Alive
  <1>8. CASE UsbipOk
    <2>1. PICK p \in Ports \ Occupied : st' = [st EXCEPT ![p] = "notassigned"]
      BY <1>8, FreePort DEF UsbipOk
    <2>2. pc = "usbip" /\ pc' = "settle" /\ attached' = attached /\ before' = before
      BY <1>8 DEF UsbipOk
    <2>3. \A q \in Ports : st'[q] = IF q = p THEN "notassigned" ELSE st[q]
      BY <2>1 DEF DType, TypeOK
    <2>4. st[p] = "null"
      BY <2>1 DEF Occupied
    <2>5. p \in before => TrackedPort(p)
      BY <2>2, <2>4 DEF AliveTracked
    <2>6. \A q \in Occupied' \ before' : q = p
      BY <2>2, <2>3 DEF AliveTracked, Occupied
    <2>7. \A q \in Alive' : TrackedPort(q)' \/ q \notin before'
      BY <2>2, <2>3, <2>5 DEF AliveTracked, TrackedPort, Alive
    <2>8. \A q \in before' : TrackedPort(q)' \/ st'[q] = "error"
      BY <2>2, <2>3, <2>5 DEF AliveTracked, TrackedPort, DType, TypeOK
    <2> QED
      BY <2>2, <2>6, <2>7, <2>8 DEF AliveTracked
  <1>9. CASE UsbipFails
    <2>1. \A p \in Alive : TrackedPort(p)
      BY <1>9 DEF UsbipFails, AliveTracked
    <2> QED
      BY <1>9, <2>1 DEF UsbipFails, AliveTracked, TrackedPort, Alive
  <1>10. CASE Settled
    <2>1. /\ pc = "settle" /\ pc' \in {"nap", "servers"} /\ st' = st
          /\ attached' = attached \cup {Tracked(cur, Min(Occupied \ before))}
      BY <1>10 DEF Settled
    <2>2. \A p \in Occupied \ before : p = Min(Occupied \ before)
      BY <1>10, <2>1, NewPort DEF AliveTracked
    <2>3. \A p \in Alive : TrackedPort(p)'
      <3> SUFFICES ASSUME NEW p \in Alive PROVE TrackedPort(p)'
        OBVIOUS
      <3>1. CASE TrackedPort(p)
        BY <2>1, <3>1 DEF TrackedPort
      <3>2. CASE p \notin before
        <4>1. p = Min(Occupied \ before)
          BY <2>2, <3>2 DEF Alive, Occupied
        <4>2. Tracked(cur, p) \in attached' /\ Tracked(cur, p).port = p
          BY <2>1, <4>1 DEF Tracked
        <4> QED
          BY <4>2 DEF TrackedPort
      <3> QED
        BY <2>1, <3>1, <3>2 DEF AliveTracked
    <2> QED
      BY <2>1, <2>3 DEF AliveTracked, Alive
  <1>11. CASE SettleTimeout
    <2>1. Occupied \subseteq before /\ pc = "settle"
      BY <1>0, <1>11 DEF SettleTimeout
    <2>2. \A p \in Alive : TrackedPort(p)
      BY <2>1 DEF AliveTracked, Alive, Occupied
    <2> QED
      BY <1>11, <2>2 DEF SettleTimeout, AliveTracked, TrackedPort, Alive
  <1>12. CASE UNCHANGED vars
    BY <1>12, PortsFadeAlive DEF vars
  <1> QED
    BY <1>1, <1>2, <1>3, <1>4, <1>5, <1>6, <1>7, <1>8, <1>9, <1>10, <1>11, <1>12
    DEF Next, DaemonStep

\* When the daemon rests, it will notice if any port that it or a predecessor
\* brought up drops; a port that dropped and was taken again during an attach
\* included (main.rs attach, newly_used, adopt_existing).
THEOREM AttachmentsAreTracked == ASSUME Undisturbed PROVE Spec => []AttachmentsTracked
  <1> DEFINE Inv == DType /\ Condemned /\ AliveTracked
  <1>1. Init => Inv
    BY InitDType DEF Init, Condemned, AliveTracked
  <1>2. Inv /\ [Next]_vars => Inv'
    BY NextDType, NextCondemned, NextAliveTracked
  <1>3. Inv => AttachmentsTracked
    BY DEF AttachmentsTracked, AliveTracked, TrackedPort
  <1> QED
    BY <1>1, <1>2, <1>3, PTL DEF Spec

-----------------------------------------------------------------------------
(* The failed ports, when `usbip detach` works too.                        *)

\* A failed port is tracked, or about to be detached, or the one that attach() is
\* waiting for; and everything in attach()'s snapshot is tracked.
FailedTracked ==
  /\ pc # "down" =>
       \A p \in Ports : st[p] = "error" =>
         \/ TrackedPort(p)
         \/ \E t \in broken : t.port = p
         \/ pc = "settle" /\ p \notin before
  /\ pc \in {"usbip", "settle"} => \A p \in before : TrackedPort(p)

\* A step that leaves the daemon where it is and lets no untracked port fail.
LEMMA PortsFadeFailed ==
  ASSUME DType, AliveTracked, FailedTracked,
         pc' = pc, attached' = attached, before' = before, broken' = broken,
         \A p \in Ports : st'[p] = "error" => st[p] = "error" \/ p \in Alive
  PROVE  FailedTracked'
  BY DEF FailedTracked, AliveTracked, TrackedPort, DType, TypeOK

LEMMA NextFailedTracked ==
  ASSUME Undisturbed, "detachFails" \notin Events,
         DType, Condemned, AliveTracked, FailedTracked, [Next]_vars
  PROVE  FailedTracked'
  <1> USE DEF exporters, vhci, work
  <1>0. Snapshots = {Occupied}
    BY DEF Undisturbed, Snapshots
  <1>1. CASE Environment
    <2>1. ASSUME NEW s \in Servers, NEW b \in Busids, OfferFlips(s, b) PROVE FailedTracked'
      BY <2>1, PortsFadeFailed DEF OfferFlips
    <2>2. ASSUME NEW s \in Servers, ServerFlips(s) PROVE FailedTracked'
      BY <2>2, PortsFadeFailed DEF ServerFlips
    <2>3. ASSUME NEW p \in Ports, PortUp(p) \/ PortDrop(p) \/ PortError(p) \/ ForeignAttach(p)
          PROVE  FailedTracked'
      BY <2>3, PortsFadeFailed
      DEF DType, TypeOK, PortUp, PortDrop, PortError, ForeignAttach, Alive
    <2>4. CASE DetachAll
      <3>1. PICK gone \in SUBSET {p \in Ports : st[p] = "used"} : Detached(gone)
        BY <2>4 DEF DetachAll
      <3>2. pc' = pc /\ attached' = attached /\ before' = before /\ broken' = broken
        BY <2>4 DEF DetachAll
      <3> QED
        BY <3>1, <3>2, PortsFadeFailed DEF Detached
    <2>5. CASE Stop
      BY <2>5 DEF Stop, FailedTracked
    <2> QED
      BY <1>1, <2>1, <2>2, <2>3, <2>4, <2>5 DEF Environment
  <1>2. CASE Start
    <2>1. attached' = AdoptExisting(Occupied) /\ pc' = "prune" /\ st' = st
      BY <1>0, <1>2 DEF Start
    <2>2. \A p \in Occupied : Tracked(rec[p], p) \in attached' /\ Tracked(rec[p], p).port = p
      BY <2>1 DEF AdoptExisting, Tracked
    <2>3. \A p \in Occupied : TrackedPort(p)'
      BY <2>2 DEF TrackedPort
    <2> QED
      BY <2>1, <2>3 DEF FailedTracked, Occupied
  <1>3. CASE Prune
    BY <1>3 DEF Prune, Condemned, FailedTracked, TrackedPort
  <1>4. CASE PruneSkipped \/ AfterPrune \/ ServersDone \/ Nap
    BY <1>4 DEF PruneSkipped, AfterPrune, ServersDone, Nap, Condemned, FailedTracked, TrackedPort
  <1>5. ASSUME NEW t \in broken, PruneDetach(t) \/ PruneDetachFails(t) PROVE FailedTracked'
    <2>1. /\ pc = "detach" /\ pc' = "detach" /\ attached' = attached /\ broken' = broken \ {t}
      BY <1>5 DEF PruneDetach, PruneDetachFails
    <2>2. \A p \in Ports : st'[p] = "error" => st[p] = "error" /\ p # t.port
      BY <1>5 DEF PruneDetach, PruneDetachFails, Detached, Occupied
    <2> QED
      BY <2>1, <2>2 DEF FailedTracked, TrackedPort
  <1>6. ASSUME NEW s \in Servers, TrySkip(s) \/ TryUnreachable(s) \/ TryNothing(s)
        PROVE  FailedTracked'
    BY <1>6, PortsFadeFailed DEF TrySkip, TryUnreachable, TryNothing
  <1>7. ASSUME NEW s \in Servers, NEW b \in Busids, TryAttach(s, b) PROVE FailedTracked'
    <2>1. /\ before' = Occupied /\ st' = st /\ attached' = attached /\ pc = "servers"
          /\ pc' = "usbip" /\ broken' = broken
      BY <1>0, <1>7 DEF TryAttach
    <2>2. \A p \in Occupied : p \in Alive \/ st[p] = "error"
      BY DEF DType, TypeOK, Occupied, Alive
    <2>3. \A p \in Occupied : TrackedPort(p)
      BY <2>1, <2>2, RestingAlive DEF FailedTracked, Condemned, Occupied
    <2> QED
      BY <2>1, <2>3 DEF FailedTracked, TrackedPort, Occupied
  <1>8. CASE UsbipOk
    <2>1. PICK p \in Ports : st' = [st EXCEPT ![p] = "notassigned"]
      BY <1>8, FreePort DEF UsbipOk
    <2>2. pc = "usbip" /\ pc' = "settle" /\ attached' = attached /\ before' = before
          /\ broken' = broken
      BY <1>8 DEF UsbipOk
    <2>3. \A q \in Ports : st'[q] = "error" => st[q] = "error"
      BY <2>1 DEF DType, TypeOK
    <2> QED
      BY <2>2, <2>3 DEF FailedTracked, TrackedPort
  <1>9. CASE UsbipFails
    BY <1>9 DEF UsbipFails, FailedTracked, TrackedPort
  <1>10. CASE Settled
    <2>1. /\ pc = "settle" /\ pc' \in {"nap", "servers"} /\ st' = st /\ broken' = broken
          /\ attached' = attached \cup {Tracked(cur, Min(Occupied \ before))}
      BY <1>10 DEF Settled
    <2>2. \A p \in Occupied \ before : p = Min(Occupied \ before)
      BY <1>10, <2>1, NewPort DEF AliveTracked
    <2>3. ASSUME NEW p \in Occupied \ before PROVE TrackedPort(p)'
      <3>1. Tracked(cur, p) \in attached' /\ Tracked(cur, p).port = p
        BY <2>1, <2>2 DEF Tracked
      <3> QED
        BY <3>1 DEF TrackedPort
    <2>4. \A p \in Ports : TrackedPort(p) => TrackedPort(p)'
      BY <2>1 DEF TrackedPort
    <2>5. broken = {}
      BY <2>1 DEF Condemned
    <2>6. \A p \in Ports : st'[p] = "error" => TrackedPort(p)'
      BY <2>1, <2>3, <2>4, <2>5 DEF FailedTracked, Occupied
    <2> QED
      BY <2>1, <2>6 DEF FailedTracked
  <1>11. CASE SettleTimeout
    <2>1. Occupied \subseteq before /\ pc = "settle"
      BY <1>0, <1>11 DEF SettleTimeout
    <2>2. \A p \in Ports : st[p] = "error" => TrackedPort(p)
      BY <2>1 DEF FailedTracked, Occupied
    <2> QED
      BY <1>11, <2>2 DEF SettleTimeout, FailedTracked, TrackedPort
  <1>12. CASE UNCHANGED vars
    BY <1>12, PortsFadeFailed DEF vars
  <1> QED
    BY <1>1, <1>2, <1>3, <1>4, <1>5, <1>6, <1>7, <1>8, <1>9, <1>10, <1>11, <1>12
    DEF Next, DaemonStep

\* A port that failed at any moment of a tick is tracked when the tick is over, so
\* that the next prune() detaches it and it is not leaked (main.rs:360-361).
\* This needs `usbip detach` to work: prune() forgets the port either way.
THEOREM FailedPortsAreTracked ==
  ASSUME Undisturbed, "detachFails" \notin Events PROVE Spec => []FailedPortsTracked
  <1> DEFINE Inv == DType /\ Condemned /\ AliveTracked /\ FailedTracked
  <1>1. Init => Inv
    BY InitDType DEF Init, Condemned, AliveTracked, FailedTracked
  <1>2. Inv /\ [Next]_vars => Inv'
    BY NextDType, NextCondemned, NextAliveTracked, NextFailedTracked
  <1>3. Inv => FailedPortsTracked
    BY DEF FailedPortsTracked, FailedTracked, Condemned, TrackedPort
  <1> QED
    BY <1>1, <1>2, <1>3, PTL DEF Spec

-----------------------------------------------------------------------------
(* stop_after_first.                                                       *)

\* While a server is asked nothing is tracked, hence nothing works, and what is
\* attached then is alone.
Single ==
  /\ pc \in {"servers", "usbip", "settle"} => attached = {}
  /\ \A p, q \in Alive : p = q

LEMMA NextSingle ==
  ASSUME StopAfterFirst, Undisturbed, DType, AliveTracked, Single, [Next]_vars
  PROVE  Single'
  <1> USE DEF exporters, vhci, work
  <1>1. CASE UsbipOk
    <2>1. Alive = {}
      BY <1>1 DEF UsbipOk, AliveTracked, Single, TrackedPort
    <2>2. PICK p \in Ports : st' = [st EXCEPT ![p] = "notassigned"]
      BY <1>1, FreePort DEF UsbipOk
    <2>3. \A q \in Alive' : q = p
      BY <2>1, <2>2 DEF Alive, DType, TypeOK
    <2> QED
      BY <1>1, <2>3 DEF UsbipOk, Single
  <1>2. CASE ~UsbipOk
    <2>1. Alive' \subseteq Alive
      <3>1. CASE Environment
        <4>1. ASSUME NEW p \in Ports, PortUp(p) \/ PortDrop(p) \/ PortError(p) \/ ForeignAttach(p)
              PROVE  Alive' \subseteq Alive
          BY <4>1 DEF DType, TypeOK, PortUp, PortDrop, PortError, ForeignAttach, Undisturbed, Alive
        <4> QED
          BY <3>1, <4>1
          DEF Environment, ServerFlips, OfferFlips, DetachAll, Detached, Stop, Alive
      <3>2. ASSUME NEW t \in broken, PruneDetach(t) PROVE Alive' \subseteq Alive
        BY <3>2 DEF PruneDetach, Detached, Alive
      <3>3. CASE ~Environment /\ ~\E t \in broken : PruneDetach(t)
        BY <1>2, <3>3
        DEF Next, DaemonStep, Start, Prune, PruneSkipped, AfterPrune, ServersDone,
            PruneDetachFails, TrySkip, TryUnreachable, TryNothing, TryAttach, UsbipFails,
            Settled, SettleTimeout, Nap, vars, Alive
      <3> QED
        BY <3>1, <3>2, <3>3
    <2>2. pc' \in {"servers", "usbip", "settle"} => attached' = {}
      <3>1. CASE Environment
        BY <3>1 DEF Environment, ServerFlips, OfferFlips, PortUp, PortDrop, PortError,
                    ForeignAttach, DetachAll, Stop, Single
      <3>2. CASE ~Environment
        BY <1>2, <3>2
        DEF Next, DaemonStep, Start, Prune, PruneSkipped, PruneDetach, AfterPrune, Satisfied,
            ServersDone, PruneDetachFails, TrySkip, TryUnreachable, TryNothing, TryAttach,
            UsbipFails, Settled, SettleTimeout, Nap, vars, Single
      <3> QED
        BY <3>1, <3>2
    <2> QED
      BY <2>1, <2>2 DEF Single
  <1> QED
    BY <1>1, <1>2

\* However often the daemon dies between `usbip attach` and the moment it would
\* have tracked the port, and whatever drops and fails, there is one controller
\* (main.rs adopt_existing, satisfied, attach).  The status file has to be
\* readable: without it the daemon cannot tell that it has one.
THEOREM OneControllerOnly == ASSUME "statusFails" \notin Events PROVE Spec => []OneController
  <1> DEFINE Inv == DType /\ Condemned /\ (Undisturbed => AliveTracked)
                    /\ (Undisturbed /\ StopAfterFirst => Single)
  <1>1. Init => Inv
    BY InitDType DEF Init, Condemned, AliveTracked, Single, Alive
  <1>2. Inv /\ [Next]_vars => Inv'
    <2> SUFFICES ASSUME Inv, [Next]_vars PROVE Inv'
      OBVIOUS
    <2>1. DType' /\ Condemned'
      BY NextDType, NextCondemned
    <2>2. Undisturbed => AliveTracked'
      BY NextAliveTracked
    <2>3. Undisturbed /\ StopAfterFirst => Single'
      BY NextSingle
    <2> QED
      BY <2>1, <2>2, <2>3 DEF Undisturbed
  <1>3. Inv => OneController
    <2> SUFFICES ASSUME Single PROVE Cardinality(Alive) <= 1
      BY DEF OneController, Undisturbed
    <2>1. CASE Alive = {}
      BY <2>1, FS_EmptySet
    <2>2. CASE Alive # {}
      <3>1. PICK p \in Alive : Alive = {p}
        BY <2>2 DEF Single
      <3> QED
        BY <3>1, FS_Singleton
    <2> QED
      BY <2>1, <2>2
  <1> QED
    BY <1>1, <1>2, <1>3, PTL DEF Spec
=============================================================================
