--------------------------- MODULE ExporterProofs ---------------------------
(***************************************************************************)
(* Proofs about Exporter, for any number of connections and devices, any   *)
(* MAX_SESSIONS and any choice of events.  The lemmas on leases hold of     *)
(* the handlers whichever process they run in.  The second half is about   *)
(* AndroidService, for any number of stale handlers: there they are put    *)
(* together with the starts and stops of the service and with the handlers *)
(* of earlier runs.                                                        *)
(***************************************************************************)
EXTENDS AndroidService, FiniteSetTheorems, TLAPS

(* The values of the state that a process of either kind keeps.            *)
Threads ==
  /\ accPc \in {"loop", "drain", "wait", "ended", "cut", "exited", "aborted"}
  /\ shutting \in BOOLEAN
  /\ live \subseteq Conns /\ shut \subseteq Conns /\ closed \subseteq Conns
  /\ pc \in [Conns -> {"none", "done", "killed"} \cup Handling]
  /\ dev \in [Conns -> Devs]
  /\ busy \subseteq Devs /\ suspended \subseteq Devs

\* OneImporter, and a handler past Registry::acquire has its device in busy.
Leases ==
  /\ OneImporter
  /\ \A c \in Conns : pc[c] \in Leased => dev[c] \in busy

\* What a connection may do while the accept loop runs, besides being handled.
ClientStep(c) ==
  \/ ClientClose(c) \/ Accept(c) \/ AcceptSpawnFails(c) \/ AcceptRefused(c)

LoopStep == AcceptPollFails \/ AcceptStop \/ DrainShut \/ DrainDone \/ DrainTimeout

LEMMA ClientThreads ==
  ASSUME Threads, NEW c \in Conns, ClientStep(c) PROVE Threads'
  <1> USE DEF Threads, Handling, Leased, accept, socket, handler
  <1>1. CASE ClientClose(c)
    BY <1>1 DEF ClientClose
  <1>2. CASE Accept(c)
    BY <1>2 DEF Accept
  <1>3. CASE AcceptSpawnFails(c) \/ AcceptRefused(c)
    BY <1>3 DEF AcceptSpawnFails, AcceptRefused
  <1> QED
    BY <1>1, <1>2, <1>3 DEF ClientStep

LEMMA LoopThreads == ASSUME Threads, LoopStep PROVE Threads'
  BY DEF Threads, LoopStep, AcceptPollFails, AcceptStop, DrainShut, DrainDone, DrainTimeout,
         accept, socket, handler

LEMMA HandlerThreads ==
  ASSUME Threads, NEW c \in Conns, HandlerStep(c) \/ SessionNoticesStop(c) \/ ChordFires(c)
  PROVE  Threads'
  <1> USE DEF Threads, Handling, Leased, accept, socket, handler, Goto
  <1>1. CASE HandshakeOther(c) \/ HandshakeImport(c) \/ ListCheck(c) \/ Open(c)
    BY <1>1 DEF HandshakeOther, HandshakeImport, ListCheck, Open
  <1>2. CASE Acquire(c)
    BY <1>2 DEF Acquire
  <1>3. CASE Claim(c) \/ ClaimFails(c) \/ ReplyOk(c) \/ ReplyFails(c)
    BY <1>3 DEF Claim, ClaimFails, ReplyOk, ReplyFails
  <1>4. CASE SessionStops(c) \/ SessionNoticesStop(c) \/ SessionReturns(c)
    BY <1>4 DEF SessionStops, SessionNoticesStop, SessionReturns
  <1>5. CASE ChordFires(c)
    BY <1>5 DEF ChordFires
  <1>6. CASE Release(c) \/ DropLocals(c) \/ Unlease(c)
    BY <1>6 DEF Release, DropLocals, Unlease
  <1>7. CASE Leave(c) \/ Uncount(c)
    BY <1>7 DEF Leave, Uncount
  <1> QED
    BY <1>1, <1>2, <1>3, <1>4, <1>5, <1>6, <1>7 DEF HandlerStep

-----------------------------------------------------------------------------
(* The leases.                                                             *)

LEMMA LeasesKept ==
  ASSUME Leases, dev' = dev, busy' = busy,
         \A c \in Conns : pc'[c] \in Leased <=> pc[c] \in Leased
  PROVE  Leases'
  BY DEF Leases, OneImporter

LEMMA ClientLeases ==
  ASSUME Threads, Leases, NEW c \in Conns, ClientStep(c) PROVE Leases'
  <1>1. \A e \in Conns : pc'[e] \in Leased <=> pc[e] \in Leased
    BY DEF Threads, ClientStep, ClientClose, Accept, AcceptSpawnFails, AcceptRefused, Leased,
           handler
  <1>2. dev' = dev /\ busy' = busy
    BY DEF ClientStep, ClientClose, Accept, AcceptSpawnFails, AcceptRefused, handler
  <1> QED
    BY <1>1, <1>2, LeasesKept

LEMMA LoopLeases == ASSUME Leases, LoopStep PROVE Leases'
  BY LeasesKept DEF LoopStep, AcceptPollFails, AcceptStop, DrainShut, DrainDone, DrainTimeout,
                    handler

\* The steps of a handler that neither take nor return a lease.
LEMMA HandlerKeepsLease ==
  ASSUME Threads, NEW c \in Conns, HandlerStep(c) \/ SessionNoticesStop(c) \/ ChordFires(c),
         ~Acquire(c), ~Unlease(c)
  PROVE  /\ dev' = dev /\ busy' = busy
         /\ \A e \in Conns : pc'[e] \in Leased <=> pc[e] \in Leased
  <1> USE DEF Threads, Leased, Goto
  <1>1. CASE HandshakeOther(c) \/ HandshakeImport(c) \/ ListCheck(c) \/ Open(c)
    BY <1>1 DEF HandshakeOther, HandshakeImport, ListCheck, Open
  <1>2. CASE Claim(c) \/ ClaimFails(c) \/ ReplyOk(c) \/ ReplyFails(c)
    BY <1>2 DEF Claim, ClaimFails, ReplyOk, ReplyFails
  <1>3. CASE SessionStops(c) \/ SessionNoticesStop(c) \/ SessionReturns(c) \/ ChordFires(c)
    BY <1>3 DEF SessionStops, SessionNoticesStop, SessionReturns, ChordFires
  <1>4. CASE Release(c) \/ DropLocals(c) \/ Leave(c) \/ Uncount(c)
    BY <1>4 DEF Release, DropLocals, Leave, Uncount
  <1> QED
    BY <1>1, <1>2, <1>3, <1>4 DEF HandlerStep

\* Registry::acquire and the lease's drop are the two steps that matter: the one
\* refuses a device that is in busy, the other is taken by its only lessee.
LEMMA HandlerLeases ==
  ASSUME Threads, Leases, NEW c \in Conns,
         HandlerStep(c) \/ SessionNoticesStop(c) \/ ChordFires(c)
  PROVE  Leases'
  <1>1. CASE Acquire(c)
    <2>1. CASE dev[c] \in busy
      BY <1>1, <2>1, LeasesKept DEF Threads, Acquire, Goto, Leased
    <2>2. CASE dev[c] \notin busy
      <3>1. \A e \in Conns : pc'[e] \in Leased <=> (pc[e] \in Leased \/ e = c)
        BY <1>1, <2>2 DEF Threads, Acquire, Goto, Leased
      <3>2. dev' = dev /\ busy' = busy \cup {dev[c]}
        BY <1>1 DEF Acquire
      <3>3. \A e \in Conns : pc[e] \in Leased => dev[e] # dev[c]
        BY <2>2 DEF Leases
      <3> QED
        BY <3>1, <3>2, <3>3 DEF Leases, OneImporter
    <2> QED
      BY <2>1, <2>2
  <1>2. CASE Unlease(c)
    <2>1. pc[c] \in Leased
      BY <1>2 DEF Unlease, Leased
    <2>2. \A e \in Conns : pc'[e] \in Leased <=> (pc[e] \in Leased /\ e # c)
      BY <1>2 DEF Threads, Unlease, Goto, Leased
    <2>3. dev' = dev /\ busy' = busy \ {dev[c]}
      BY <1>2 DEF Unlease
    <2> QED
      BY <2>1, <2>2, <2>3 DEF Leases, OneImporter
  <1>3. CASE ~Acquire(c) /\ ~Unlease(c)
    BY <1>3, HandlerKeepsLease, LeasesKept
  <1> QED
    BY <1>1, <1>2, <1>3

-----------------------------------------------------------------------------
(* The connections being handled, and the counter that drain() waits on.   *)

Handled == {c \in Conns : pc[c] \in Handling}

\* `sessions` is exact until the process is over, and nobody is handled once the
\* drain has seen it at 0.
Counted ==
  /\ IsFiniteSet(Handled) /\ count \in 0..MaxSessions
  /\ accPc \notin {"exited", "aborted"} => count = Cardinality(Handled)
  /\ accPc \in {"ended", "exited", "aborted"} => Handled = {}
  /\ accPc \in {"exited", "aborted"} => ~Persistent

(* Who holds a device.  A descriptor's claim is between claim_all and the  *)
(* release, and is of the device its handler asked for.                    *)

Holder == {"reply", "session", "windup", "release", "drop"}

Holding ==
  /\ held \in [Devs -> Conns \cup Others]
  /\ \A d \in Devs : held[d] = "none" => accPc = "aborted"
  /\ ~Persistent =>
       \A d \in Devs :
         /\ held[d] # "app"
         /\ held[d] \in Conns => pc[held[d]] \in Holder /\ dev[held[d]] = d

\* The inductive invariant of the Linux process.
LInv == Threads /\ Leases /\ Counted /\ Holding /\ SuspendedNotImported

-----------------------------------------------------------------------------
LEMMA CountKept ==
  ASSUME Counted, Handled' = Handled, count' = count, accPc' = accPc PROVE Counted'
  BY DEF Counted

\* What the accept loop does to the counter: a connection is counted before its
\* thread exists, one more than before.
LEMMA ClientCounted ==
  ASSUME Threads, Counted, NEW c \in Conns, ClientStep(c) PROVE Counted'
  <1> USE MaxSessionsAssumption DEF Threads
  <1>1. CASE ClientClose(c)
    BY <1>1, CountKept DEF ClientClose, Handled, accept, handler
  <1>2. CASE Accept(c)
    <2>1. Handled' = Handled \cup {c} /\ c \notin Handled
      BY <1>2 DEF Accept, Handled, Handling, Leased
    <2>2. IsFiniteSet(Handled') /\ Cardinality(Handled') = Cardinality(Handled) + 1
      BY <2>1, FS_AddElement DEF Counted
    <2>3. accPc' = "loop" /\ accPc = "loop" /\ count' = count + 1 /\ count < MaxSessions
      BY <1>2 DEF Accept
    <2> QED
      BY <2>2, <2>3 DEF Counted
  <1>3. CASE AcceptSpawnFails(c) \/ AcceptRefused(c)
    <2>1. Handled' = Handled
      BY <1>3 DEF AcceptSpawnFails, AcceptRefused, Handled, Handling, Leased
    <2> QED
      BY <1>3, <2>1, CountKept DEF AcceptSpawnFails, AcceptRefused, accept
  <1> QED
    BY <1>1, <1>2, <1>3 DEF ClientStep

LEMMA LoopCounted == ASSUME Threads, Counted, LoopStep PROVE Counted'
  <1>1. Handled' = Handled /\ count' = count
    BY DEF LoopStep, AcceptPollFails, AcceptStop, DrainShut, DrainDone, DrainTimeout, Handled,
           handler
  <1>2. accPc \in {"loop", "drain", "wait"} /\ accPc' \in {"drain", "wait", "ended", "cut"}
    BY DEF LoopStep, AcceptPollFails, AcceptStop, DrainShut, DrainDone, DrainTimeout
  <1>3. accPc' = "ended" => count = 0
    BY DEF LoopStep, AcceptPollFails, AcceptStop, DrainShut, DrainDone, DrainTimeout
  <1>4. accPc' = "ended" => Handled = {}
    BY <1>2, <1>3, FS_EmptySet DEF Counted
  <1> QED
    BY <1>1, <1>2, <1>4 DEF Counted

\* A handler is counted until its last step, whichever way it got there.
LEMMA HandlerStaysCounted ==
  ASSUME Threads, NEW c \in Conns, HandlerStep(c) \/ SessionNoticesStop(c) \/ ChordFires(c),
         ~Uncount(c)
  PROVE  Handled' = Handled /\ count' = count /\ accPc' = accPc
  <1> USE DEF Threads, Handled, Handling, Leased, Goto, accept
  <1>1. CASE HandshakeOther(c) \/ HandshakeImport(c) \/ ListCheck(c) \/ Open(c)
    BY <1>1 DEF HandshakeOther, HandshakeImport, ListCheck, Open
  <1>2. CASE Acquire(c)
    BY <1>2 DEF Acquire
  <1>3. CASE Claim(c) \/ ClaimFails(c) \/ ReplyOk(c) \/ ReplyFails(c)
    BY <1>3 DEF Claim, ClaimFails, ReplyOk, ReplyFails
  <1>4. CASE SessionStops(c) \/ SessionNoticesStop(c) \/ SessionReturns(c) \/ ChordFires(c)
    BY <1>4 DEF SessionStops, SessionNoticesStop, SessionReturns, ChordFires
  <1>5. CASE Release(c) \/ DropLocals(c) \/ Unlease(c) \/ Leave(c)
    BY <1>5 DEF Release, DropLocals, Unlease, Leave
  <1> QED
    BY <1>1, <1>2, <1>3, <1>4, <1>5 DEF HandlerStep

LEMMA HandlerCounted ==
  ASSUME Threads, Counted, NEW c \in Conns,
         HandlerStep(c) \/ SessionNoticesStop(c) \/ ChordFires(c)
  PROVE  Counted'
  <1>1. CASE Uncount(c)
    <2>1. Handled' = Handled \ {c} /\ c \in Handled
      BY <1>1 DEF Threads, Uncount, Goto, Handled, Handling, Leased
    <2>2. /\ IsFiniteSet(Handled')
          /\ Cardinality(Handled') = Cardinality(Handled) - 1
          /\ Cardinality(Handled') \in Nat
      BY <2>1, FS_RemoveElement, FS_CardinalityType DEF Counted
    <2>3. accPc \notin {"ended", "exited", "aborted"}
      BY <2>1 DEF Counted
    <2>4. accPc' = accPc /\ count' = count - 1
      BY <1>1 DEF Uncount
    <2> QED
      BY <2>2, <2>3, <2>4, MaxSessionsAssumption DEF Counted
  <1>2. CASE ~Uncount(c)
    BY <1>2, HandlerStaysCounted, CountKept
  <1> QED
    BY <1>1, <1>2

LEMMA ExitCounted == ASSUME Threads, Counted, Exit PROVE Counted'
  <1>1. Handled' = {}
    BY DEF Threads, Exit, Handled, Handling, Leased
  <1>2. accPc' \in {"exited", "aborted"} /\ count' = count /\ ~Persistent
    BY DEF Exit
  <1> QED
    BY <1>1, <1>2, FS_EmptySet DEF Counted

-----------------------------------------------------------------------------
(* Who holds what.                                                         *)

LEMMA ClientHolding ==
  ASSUME Threads, Holding, NEW c \in Conns, ClientStep(c) PROVE Holding'
  <1>1. held' = held /\ dev' = dev /\ accPc' = accPc
    BY DEF ClientStep, ClientClose, Accept, AcceptSpawnFails, AcceptRefused, accept, handler
  <1>2. \A e \in Conns : pc[e] \in Holder => pc'[e] \in Holder
    BY DEF Threads, ClientStep, ClientClose, Accept, AcceptSpawnFails, AcceptRefused, Holder,
           handler
  <1> QED
    BY <1>1, <1>2 DEF Holding

LEMMA LoopHolding == ASSUME Holding, LoopStep PROVE Holding'
  BY DEF Holding, LoopStep, AcceptPollFails, AcceptStop, DrainShut, DrainDone, DrainTimeout,
         handler

\* A handler claims only the device it asked for, and passes HandBack on every
\* way out of the states in which its descriptor may hold something.
LEMMA HandlerHolding ==
  ASSUME Threads, Holding, NEW c \in Conns,
         HandlerStep(c) \/ SessionNoticesStop(c) \/ ChordFires(c)
  PROVE  Holding'
  <1> USE ConnsAssumption DEF Threads, Others
  <1>0. dev' = dev /\ accPc' = accPc
    BY DEF HandlerStep, HandshakeOther, HandshakeImport, ListCheck, Acquire, Open, Claim,
           ClaimFails, ReplyOk, ReplyFails, SessionStops, SessionNoticesStop, SessionReturns,
           ChordFires, Release, DropLocals, Unlease, Leave, Uncount, accept
  <1>1. CASE Claim(c) \/ (ClaimFails(c) /\ held' # held)
    <2>1. held' = [held EXCEPT ![dev[c]] = Owner(c)]
      BY <1>1 DEF Claim, ClaimFails
    <2>2. pc'[c] \in Holder /\ \A e \in Conns : pc[e] \in Holder => pc'[e] \in Holder
      BY <1>1 DEF Claim, ClaimFails, Goto, Holder
    <2>3. Owner(c) \in Conns \cup Others /\ Owner(c) # "none"
      BY DEF Owner
    <2> QED
      BY <1>0, <2>1, <2>2, <2>3 DEF Holding, Owner
  <1>2. CASE Release(c) \/ (DropLocals(c) /\ ~Persistent)
    <2>1. PICK left \in {"driver", "unbound"} :
            held' = [held EXCEPT ![dev[c]] = IF @ = Owner(c) THEN left ELSE @]
      BY <1>2 DEF Release, DropLocals, HandBack
    <2>2. \A e \in Conns \ {c} : pc'[e] = pc[e]
      BY <1>2 DEF Release, DropLocals, Goto
    <2>3. held' \in [Devs -> Conns \cup Others]
      BY <2>1 DEF Holding
    <2>4. \A d \in Devs : held'[d] # held[d] => held'[d] \in {"driver", "unbound"}
      BY <2>1 DEF Holding
    <2>5. ~Persistent => \A d \in Devs : held'[d] # c
      BY <2>1, <2>4 DEF Holding, Owner
    <2> QED
      BY <1>0, <2>2, <2>3, <2>4, <2>5 DEF Holding
  <1>3. CASE DropLocals(c) /\ Persistent
    BY <1>0, <1>3 DEF Holding, DropLocals
  <1>4. CASE ~Claim(c) /\ ~(ClaimFails(c) /\ held' # held) /\ ~Release(c) /\ ~DropLocals(c)
    <2>1. held' = held
      BY <1>4 DEF HandlerStep, HandshakeOther, HandshakeImport, ListCheck, Acquire, Open,
           ReplyOk, ReplyFails, SessionStops, SessionNoticesStop, SessionReturns, ChordFires,
           Unlease, Leave, Uncount
    <2>2. \A e \in Conns : pc[e] \in Holder => pc'[e] \in Holder
      BY <1>4 DEF HandlerStep, HandshakeOther, HandshakeImport, ListCheck, Acquire, Open,
           ClaimFails, ReplyOk, ReplyFails, SessionStops, SessionNoticesStop, SessionReturns,
           ChordFires, Unlease, Leave, Uncount, Goto, Holder
    <2> QED
      BY <1>0, <2>1, <2>2 DEF Holding
  <1> QED
    BY <1>1, <1>2, <1>3, <1>4

\* The exit that follows a drain to 0 finds nothing to take away; the other is
\* "aborted".
LEMMA ExitHolding == ASSUME Threads, Counted, Holding, Exit PROVE Holding'
  <1> USE ConnsAssumption DEF Others
  <1>1. held' = [d \in Devs |-> IF held[d] \in Others THEN held[d] ELSE "none"] /\ ~Persistent
    BY DEF Exit
  <1>2. \A d \in Devs : held'[d] \in Others /\ held'[d] # "app"
    BY <1>1 DEF Holding
  <1>3. CASE accPc = "cut"
    BY <1>1, <1>2, <1>3 DEF Holding, Exit
  <1>4. CASE accPc = "ended"
    <2>1. \A c \in Conns : pc[c] \notin Holder
      BY <1>4 DEF Counted, Handled, Handling, Leased, Holder
    <2>2. \A d \in Devs : held[d] \in Others
      BY <1>1, <2>1 DEF Holding
    <2>3. held' = held
      BY <1>1, <2>2 DEF Holding
    <2> QED
      BY <1>1, <1>2, <1>4, <2>3 DEF Holding
  <1> QED
    BY <1>3, <1>4 DEF Exit

-----------------------------------------------------------------------------
\* The gate: Open looks at the suspended set once more with the lease in hand,
\* and only the lessee of a device can suspend it.
LEMMA HandlerSuspended ==
  ASSUME Threads, Leases, SuspendedNotImported, NEW c \in Conns,
         HandlerStep(c) \/ SessionNoticesStop(c) \/ ChordFires(c)
  PROVE  SuspendedNotImported'
  <1> USE DEF Threads, SuspendedNotImported, Goto
  <1>1. CASE ChordFires(c)
    <2>1. \A e \in Conns : pc[e] \in Leased /\ dev[e] = dev[c] => e = c
      BY <1>1 DEF ChordFires, Leases, OneImporter, Leased
    <2>2. \A e \in Conns \ {c} : dev[e] = dev[c] => pc[e] \notin {"claim", "reply", "session"}
      BY <2>1 DEF Leased
    <2> QED
      BY <1>1, <2>2 DEF ChordFires
  <1>2. CASE Open(c)
    BY <1>2 DEF Open, Listed
  <1>3. CASE ~ChordFires(c) /\ ~Open(c)
    <2>1. dev' = dev /\ suspended' = suspended
      BY <1>3 DEF HandlerStep, HandshakeOther, HandshakeImport, ListCheck, Acquire, Claim,
           ClaimFails, ReplyOk, ReplyFails, SessionStops, SessionNoticesStop, SessionReturns,
           Release, DropLocals, Unlease, Leave, Uncount
    <2>2. \A e \in Conns : pc'[e] \in {"claim", "reply", "session"}
                             => pc[e] \in {"claim", "reply", "session"}
      BY <1>3 DEF HandlerStep, HandshakeOther, HandshakeImport, ListCheck, Acquire, Claim,
           ClaimFails, ReplyOk, ReplyFails, SessionStops, SessionNoticesStop, SessionReturns,
           Release, DropLocals, Unlease, Leave, Uncount
    <2> QED
      BY <2>1, <2>2
  <1> QED
    BY <1>1, <1>2, <1>3

\* Every other step leaves each handler where it is or outside an import, and
\* suspends nothing.
LEMMA OutsideSuspended ==
  ASSUME SuspendedNotImported, dev' = dev, suspended' \subseteq suspended,
         \A c \in Conns : pc'[c] = pc[c] \/ pc'[c] \notin {"claim", "reply", "session"}
  PROVE  SuspendedNotImported'
  BY DEF SuspendedNotImported

-----------------------------------------------------------------------------
LEMMA InitLInv == Init => LInv
  <1> SUFFICES ASSUME Init PROVE LInv
    OBVIOUS
  <1> USE DEF Init, InitAt
  <1>1. \A c \in Conns : pc[c] = "none"
    OBVIOUS
  <1>2. Handled = {}
    BY <1>1 DEF Handled, Handling, Leased
  <1>3. Threads /\ Leases /\ SuspendedNotImported
    BY <1>1 DEF Threads, Leases, OneImporter, Leased, SuspendedNotImported
  <1>4. Counted
    BY <1>2, FS_EmptySet, MaxSessionsAssumption DEF Counted
  <1>5. Holding
    BY ConnsAssumption DEF Holding, Others
  <1> QED
    BY <1>3, <1>4, <1>5 DEF LInv

LEMMA ClientLInv == ASSUME LInv, NEW c \in Conns, ClientStep(c) PROVE LInv'
  <1> USE DEF LInv
  <1>1. SuspendedNotImported'
    <2>1. dev' = dev /\ suspended' = suspended
      BY DEF ClientStep, ClientClose, Accept, AcceptSpawnFails, AcceptRefused, handler
    <2>2. \A e \in Conns : pc'[e] = pc[e] \/ pc'[e] \in {"handshake", "done"}
      BY DEF Threads, ClientStep, ClientClose, Accept, AcceptSpawnFails, AcceptRefused, handler
    <2> QED
      BY <2>1, <2>2, OutsideSuspended
  <1> QED
    BY <1>1, ClientThreads, ClientLeases, ClientCounted, ClientHolding

LEMMA LoopLInv == ASSUME LInv, LoopStep PROVE LInv'
  <1> USE DEF LInv
  <1>1. dev' = dev /\ suspended' = suspended /\ pc' = pc
    BY DEF LoopStep, AcceptPollFails, AcceptStop, DrainShut, DrainDone, DrainTimeout, handler
  <1>2. SuspendedNotImported'
    BY <1>1, OutsideSuspended
  <1> QED
    BY <1>2, LoopThreads, LoopLeases, LoopCounted, LoopHolding

LEMMA HandlerLInv ==
  ASSUME LInv, NEW c \in Conns, HandlerStep(c) \/ SessionNoticesStop(c) \/ ChordFires(c)
  PROVE  LInv'
  BY HandlerThreads, HandlerLeases, HandlerCounted, HandlerHolding, HandlerSuspended DEF LInv

LEMMA ExitLInv == ASSUME LInv, Exit PROVE LInv'
  <1> USE DEF LInv
  <1>1. \A c \in Conns : pc'[c] \in {"none", "done", "killed"}
    BY DEF Threads, Exit
  <1>2. dev' = dev /\ suspended' = suspended /\ busy' = {}
    BY DEF Exit
  <1>3. Threads'
    BY <1>2 DEF Threads, Exit, socket
  <1>4. Leases'
    BY <1>1, <1>2 DEF Leases, OneImporter, Leased
  <1>5. SuspendedNotImported'
    BY <1>1, <1>2, OutsideSuspended
  <1> QED
    BY <1>3, <1>4, <1>5, ExitCounted, ExitHolding

\* The device, the signals and the watcher: no thread moves.
LEMMA OutsideLInv ==
  ASSUME LInv,
         \/ \E d \in Devs : Unplug(d) \/ Replug(d) \/ WatcherResume(d)
         \/ Terminate \/ Hangup \/ UNCHANGED vars
  PROVE  LInv'
  <1> USE DEF LInv, Unplug, Replug, WatcherResume, Terminate, Hangup, vars, accept, socket,
              handler
  <1>1. Threads'
    BY DEF Threads
  <1>2. Leases'
    BY LeasesKept
  <1>3. Counted'
    BY CountKept DEF Handled
  <1>4. Holding'
    BY ConnsAssumption DEF Holding, Others
  <1>5. SuspendedNotImported'
    BY OutsideSuspended
  <1> QED
    BY <1>1, <1>2, <1>3, <1>4, <1>5

LEMMA NextLInv == LInv /\ [Next]_vars => LInv'
  BY ClientLInv, LoopLInv, HandlerLInv, ExitLInv, OutsideLInv
  DEF Next, ClientStep, LoopStep, AcceptStep, Waiting

\* `sessions` counts the handlers exactly and never passes MAX_SESSIONS, whatever
\* path a handler leaves by (lib.rs accept_loop).
THEOREM ExporterTypes == Spec => []TypeOK
  <1>1. LInv => TypeOK
    BY DEF LInv, Threads, Counted, Holding, Handled, TypeOK
  <1> QED
    BY <1>1, InitLInv, NextLInv, PTL DEF Spec

\* However many connections ask for a device, one handler at a time is between
\* Registry::acquire and the lease's drop, and each lease has such a handler
\* (registry.rs, lib.rs import).
THEOREM OneImporterPerDevice == Spec => []OneImporter
  <1>1. LInv => OneImporter
    BY DEF LInv, Leases
  <1> QED
    BY <1>1, InitLInv, NextLInv, PTL DEF Spec

\* A device that the chord has suspended is in no import, although Gated::list
\* and Gated::open look at the set at different moments (toggle.rs, lib.rs
\* import).
THEOREM SuspendedStaysOff == Spec => []SuspendedNotImported
  <1>1. LInv => SuspendedNotImported
    BY DEF LInv
  <1> QED
    BY <1>1, InitLInv, NextLInv, PTL DEF Spec

\* With SysfsDevices, whose handlers own their descriptor, a device without a
\* lease is in no handler's hands (lib.rs import, usbfs.rs Drop).
THEOREM LeaseCoversClaim == ASSUME ~Persistent PROVE Spec => []HandedBack
  <1>1. LInv => HandedBack
    <2> SUFFICES ASSUME LInv, NEW d \in Devs, Claimed(d) PROVE d \in busy
      BY DEF HandedBack
    <2>1. held[d] \in Conns
      BY DEF LInv, Holding, Claimed
    <2> QED
      BY <2>1 DEF LInv, Holding, Leases, Holder, Leased
  <1> QED
    BY <1>1, InitLInv, NextLInv, PTL DEF Spec

\* A process that drained has left no device claimed and none without its driver
\* having been asked back (lib.rs accept_loop, drain).
THEOREM DrainedExitRestores == Spec => []ExitRestores
  <1>1. LInv => ExitRestores
    <2> SUFFICES ASSUME LInv, accPc = "exited", NEW d \in Devs
                 PROVE  held[d] # "none" /\ ~Claimed(d)
      BY DEF ExitRestores
    <2>1. ~Persistent /\ \A c \in Conns : pc[c] \notin Holder
      BY DEF LInv, Counted, Handled, Handling, Leased, Holder
    <2> QED
      BY <2>1 DEF LInv, Holding, Claimed
  <1> QED
    BY <1>1, InitLInv, NextLInv, PTL DEF Spec

-----------------------------------------------------------------------------
(* The service on Android.                                                 *)

\* Who can hold the device while the app has it open.
AppHolders == {"driver", "app", "java", "unbound", "unplugged", "old"}

\* While the service is idle there is no run: the accept thread is gone, and the
\* handlers that outlived it are stale ones.
IdleIsOver ==
  svc = "idle" => accPc = "exited" /\ \A c \in Conns : pc[c] = "none"

\* Nothing that the app claimed is still claimed while the service is idle, except
\* by a handler of an earlier run that will let it go.
Hands ==
  /\ held \in [Devs -> AppHolders]
  /\ svc = "idle" => \A d \in Devs : held[d] \notin {"app", "java"}
  /\ (\E d \in Devs : held[d] = "old") => \E h \in stale : h[2] = "claimed"

Service == svc \in {"idle", "up", "join", "close"} /\ running \in BOOLEAN

\* The inductive invariant of the service.
AInv == AndroidOptions /\ Threads /\ Leases /\ Service /\ IdleIsOver /\ Hands

LEMMA InitAInv == AInit => AInv
  <1> SUFFICES ASSUME AInit PROVE AInv
    OBVIOUS
  <1> USE DEF AInit, InitAt
  <1>1. Threads /\ Leases
    BY DEF Threads, Leases, OneImporter, Leased
  <1>2. Service /\ IdleIsOver /\ Hands
    BY DEF Service, IdleIsOver, Hands, AppHolders
  <1> QED
    BY <1>1, <1>2 DEF AInv

-----------------------------------------------------------------------------
(* The steps of the run.                                                   *)

\* An idle service has no handler to take a step; a session's claims are the
\* duplicate's, and go back to the driver.
LEMMA HandlerHands ==
  ASSUME AInv, NEW c \in Conns, HandlerStep(c) \/ SessionNoticesStop(c), UNCHANGED service
  PROVE  svc # "idle" /\ Hands'
  <1> USE DEF AInv, service
  <1>1. pc[c] # "none"
    BY DEF HandlerStep, HandshakeOther, HandshakeImport, ListCheck, Acquire, Open, Claim,
           ClaimFails, ReplyOk, ReplyFails, SessionStops, SessionNoticesStop, SessionReturns,
           Release, DropLocals, Unlease, Leave, Uncount
  <1>2. svc # "idle" /\ svc' # "idle" /\ stale' = stale
    BY <1>1 DEF IdleIsOver
  <1>3. /\ held' \in [Devs -> AppHolders]
        /\ \A d \in Devs : held'[d] = "old" => held[d] = "old"
    <2> USE DEF Threads, Hands, AppHolders
    <2>1. CASE Claim(c) \/ ClaimFails(c)
      BY <2>1 DEF AndroidOptions, Claim, ClaimFails, Owner
    <2>2. CASE Release(c) \/ DropLocals(c)
      BY <2>2 DEF AndroidOptions, Release, DropLocals, HandBack
    <2>3. CASE ~Claim(c) /\ ~ClaimFails(c) /\ ~Release(c) /\ ~DropLocals(c)
      BY <2>3 DEF HandlerStep, HandshakeOther, HandshakeImport, ListCheck, Acquire, Open,
           ReplyOk, ReplyFails, SessionStops, SessionNoticesStop, SessionReturns, Unlease,
           Leave, Uncount
    <2> QED
      BY <2>1, <2>2, <2>3
  <1> QED
    BY <1>2, <1>3 DEF Hands

LEMMA ExporterAInv == ASSUME AInv, ExporterStep, UNCHANGED service PROVE AInv'
  <1> USE DEF AInv, service
  <1>1. ASSUME NEW c \in Conns, HandlerStep(c) \/ SessionNoticesStop(c) PROVE AInv'
    BY <1>1, HandlerHands, HandlerThreads, HandlerLeases DEF Service, IdleIsOver
  <1>2. ASSUME NEW c \in Conns, ClientStep(c) PROVE AInv'
    <2>1. Threads' /\ Leases'
      BY <1>2, ClientThreads, ClientLeases
    <2>2. held' = held
      BY <1>2 DEF ClientStep, ClientClose, Accept, AcceptSpawnFails, AcceptRefused
    <2>3. IdleIsOver'
      BY <1>2 DEF ClientStep, ClientClose, Accept, AcceptSpawnFails, AcceptRefused, IdleIsOver,
                  Handling, Leased, accept, handler
    <2> QED
      BY <2>1, <2>2, <2>3 DEF Service, Hands
  <1>3. ASSUME LoopStep PROVE AInv'
    <2>1. Threads' /\ Leases'
      BY <1>3, LoopThreads, LoopLeases
    <2>2. held' = held /\ svc # "idle"
      BY <1>3 DEF LoopStep, AcceptPollFails, AcceptStop, DrainShut, DrainDone, DrainTimeout,
                  IdleIsOver
    <2> QED
      BY <2>1, <2>2 DEF Service, Hands, IdleIsOver
  <1>4. ASSUME DropDevice PROVE AInv'
    <2>1. Threads' /\ Leases'
      BY <1>4, LeasesKept DEF DropDevice, Threads, socket, handler
    <2>2. svc # "idle"
      BY <1>4 DEF DropDevice, IdleIsOver
    <2>3. Hands'
      BY <1>4, <2>2 DEF DropDevice, Hands, AppHolders
    <2> QED
      BY <2>1, <2>2, <2>3 DEF Service, IdleIsOver
  <1>5. ASSUME NEW d \in Devs, Unplug(d) PROVE AInv'
    <2>1. Threads' /\ Leases'
      BY <1>5, LeasesKept DEF Unplug, Threads, accept, socket, handler
    <2>2. Hands' /\ IdleIsOver'
      BY <1>5 DEF Unplug, Hands, AppHolders, IdleIsOver, accept, handler
    <2> QED
      BY <2>1, <2>2 DEF Service
  <1> QED
    BY <1>1, <1>2, <1>3, <1>4, <1>5 DEF ExporterStep, ClientStep, LoopStep

-----------------------------------------------------------------------------
(* The service and the stale handlers.                                     *)

LEMMA ServiceAInv ==
  ASSUME AInv, ServiceStep \/ BeginFails \/ Reattach PROVE AInv'
  <1> USE DEF AInv, service, accept, socket, handler
  <1>1. CASE Begin
    <2>1. Threads' /\ Leases'
      BY <1>1, LeasesKept DEF Begin, Threads
    <2>2. Hands'
      BY <1>1 DEF Begin, Hands, AppHolders
    <2> QED
      BY <1>1, <2>1, <2>2 DEF Begin, Service, IdleIsOver
  <1>2. CASE Stop
    <2>1. Threads' /\ Leases'
      BY <1>2, LeasesKept DEF Stop, Threads
    <2> QED
      BY <1>2, <2>1 DEF Stop, Service, IdleIsOver, Hands
  <1>3. CASE Join
    <2>1. Threads' /\ Leases'
      BY <1>3, LeasesKept DEF Join, Threads, vars
    <2> QED
      BY <1>3, <2>1 DEF Join, Service, IdleIsOver, Hands, vars
  <1>4. CASE Close
    <2>1. Threads'
      BY <1>4 DEF Close, Threads
    <2>2. Leases'
      BY <1>4 DEF Close, Leases, OneImporter, Leased
    <2>3. stale \subseteq stale'
      BY <1>4 DEF Close
    <2>4. Hands'
      BY <1>4, <2>3 DEF Close, Hands, AppHolders
    <2> QED
      BY <1>4, <2>1, <2>2, <2>4 DEF Close, Service, IdleIsOver
  <1>5. CASE BeginFails \/ Reattach
    <2>1. Threads' /\ Leases'
      BY <1>5, LeasesKept DEF BeginFails, Reattach, Threads
    <2>2. Hands'
      BY <1>5 DEF BeginFails, Reattach, Hands, AppHolders
    <2> QED
      BY <1>5, <2>1, <2>2 DEF BeginFails, Reattach, Service, IdleIsOver
  <1> QED
    BY <1>1, <1>2, <1>3, <1>4, <1>5 DEF ServiceStep

\* A claim that an old handler has made is "old" until an old handler ends, and
\* the one that claimed has not ended.
LEMMA StaleAInv == ASSUME AInv, StaleStep PROVE AInv'
  <1> USE DEF AInv
  <1>1. PICK h \in stale : StaleClaims(h) \/ StaleEnds(h)
    BY DEF StaleStep
  <1>2. UNCHANGED <<accept, socket, handler, busy, suspended, svc, running>>
    BY <1>1 DEF StaleClaims, StaleEnds
  <1>3. Threads' /\ Leases' /\ Service' /\ IdleIsOver'
    BY <1>2, LeasesKept DEF Threads, Service, IdleIsOver, accept, socket, handler
  <1>4. CASE StaleClaims(h)
    <2>1. <<h[1], "claimed">> \in stale'
      BY <1>4 DEF StaleClaims
    <2> QED
      BY <1>3, <1>4, <2>1 DEF StaleClaims, Hands, AppHolders
  <1>5. CASE StaleEnds(h)
    <2>1. CASE h[2] = "claimed"
      <3>1. \A d \in Devs : held'[d] # "old"
        BY <1>5, <2>1 DEF StaleEnds
      <3> QED
        BY <1>3, <1>5, <3>1 DEF StaleEnds, Hands, AppHolders
    <2>2. CASE h[2] # "claimed"
      <3>1. held' = held /\ \A g \in stale : g[2] = "claimed" => g \in stale'
        BY <1>5, <2>2 DEF StaleEnds, Hands
      <3> QED
        BY <1>3, <1>5, <3>1 DEF StaleEnds, Hands
    <2> QED
      BY <2>1, <2>2
  <1> QED
    BY <1>1, <1>4, <1>5

LEMMA NextAInv == AInv /\ [ANext]_avars => AInv'
  <1> SUFFICES ASSUME AInv, [ANext]_avars PROVE AInv'
    OBVIOUS
  <1>1. CASE UNCHANGED avars
    BY <1>1, LeasesKept DEF AInv, Threads, Service, IdleIsOver, Hands, avars, vars, service,
                            accept, socket, handler
  <1> QED
    BY <1>1, ExporterAInv, ServiceAInv, StaleAInv DEF ANext

-----------------------------------------------------------------------------
\* One Registry per run: over any number of starts and stops, no two handlers of
\* a run have a lease on the device, and no lease is left behind for the next
\* run to be refused (registry.rs, jni lib.rs start).
THEOREM OneImporterPerRun == ASpec => []OneImporter
  <1>1. AInv => OneImporter
    BY DEF AInv, Leases
  <1> QED
    BY <1>1, InitAInv, NextAInv, PTL DEF ASpec

\* With the service idle and no handler of an earlier run alive, the device is its
\* driver's, refused by it, or gone (jni lib.rs stop, ForwardService cleanup).
THEOREM StopGivesBack == ASpec => []StopRestores
  <1>1. AInv => StopRestores
    BY DEF AInv, Hands, AppHolders, StopRestores
  <1> QED
    BY <1>1, InitAInv, NextAInv, PTL DEF ASpec

\* Whatever the other handlers of the run and the surviving ones of earlier runs
\* do, an importing session loses its interfaces only with the device, unless an
\* old handler has yet to claim (registry.rs, usbfs.rs release_all).
LEMMA KeepsDevice ==
  ASSUME AInv, [ANext]_avars, NEW c \in Conns,
         pc[c] = "session", pc'[c] = "session", held[dev[c]] = "app",
         \A h \in stale : h[2] # "before"
  PROVE  held'[dev[c]] \in {"app", "unplugged"}
  <1> USE DEF AInv
  <1>0. dev[c] \in Devs /\ pc[c] \in Leased /\ pc[c] \in Handling /\ svc # "idle"
    BY DEF Threads, Leased, Handling, IdleIsOver
  <1>1. ASSUME NEW e \in Conns, HandlerStep(e) \/ SessionNoticesStop(e)
        PROVE  held'[dev[c]] \in {"app", "unplugged"}
    <2>1. CASE Claim(e) \/ ClaimFails(e)
      BY <1>0, <2>1 DEF AndroidOptions, Claim, ClaimFails, Owner, Hands
    <2>2. CASE Release(e)
      <3>1. pc[e] \in Leased /\ e # c
        BY <2>2 DEF Release, Leased
      <3>2. dev[e] # dev[c]
        BY <1>0, <3>1 DEF Leases, OneImporter
      <3> QED
        BY <1>0, <2>2, <3>2 DEF Release, HandBack, Hands
    <2>3. CASE ~Claim(e) /\ ~ClaimFails(e) /\ ~Release(e)
      BY <1>1, <2>3
      DEF AndroidOptions, HandlerStep, HandshakeOther, HandshakeImport, ListCheck, Acquire, Open,
          ReplyOk, ReplyFails, SessionStops, SessionNoticesStop, SessionReturns, DropLocals,
          Unlease, Leave, Uncount
    <2> QED
      BY <2>1, <2>2, <2>3
  <1>2. ASSUME NEW e \in Conns, ClientStep(e) PROVE held' = held
    BY <1>2 DEF ClientStep, ClientClose, Accept, AcceptSpawnFails, AcceptRefused
  <1>3. ASSUME LoopStep PROVE held' = held
    BY <1>3 DEF LoopStep, AcceptPollFails, AcceptStop, DrainShut, DrainDone, DrainTimeout
  <1>4. ~DropDevice
    BY <1>0 DEF DropDevice
  <1>5. ASSUME NEW d \in Devs, Unplug(d) PROVE held'[dev[c]] \in {"app", "unplugged"}
    BY <1>0, <1>5 DEF Unplug, Hands
  <1>6. ASSUME ServiceStep \/ BeginFails \/ Reattach PROVE held' = held
    BY <1>0, <1>6 DEF ServiceStep, Begin, BeginFails, Reattach, Stop, Join, Close, vars
  <1>7. ASSUME NEW h \in stale, StaleClaims(h) \/ StaleEnds(h)
        PROVE  held'[dev[c]] \in {"app", "unplugged"}
    BY <1>0, <1>7 DEF StaleClaims, StaleEnds
  <1>8. CASE UNCHANGED avars
    BY <1>8 DEF avars, vars
  <1> QED
    BY <1>1, <1>2, <1>3, <1>4, <1>5, <1>6, <1>7, <1>8
    DEF ANext, ExporterStep, StaleStep, ClientStep, LoopStep

\* SessionKeepsDevice for any number of handlers, old ones included: the lease is
\* what keeps another handler's release away from the session's interfaces, and
\* release_all touches only what its own descriptor holds.
THEOREM SessionsKeepDevice == ASpec => SessionKeepsDevice
  <1>1. AInv /\ [ANext]_avars
          => [\A c \in Conns :
                /\ pc[c] = "session" /\ pc'[c] = "session" /\ held[dev[c]] = "app"
                /\ \A h \in stale : h[2] # "before"
                => held'[dev[c]] \in {"app", "unplugged"}]_avars
    BY KeepsDevice
  <1> QED
    BY <1>1, InitAInv, NextAInv, PTL DEF ASpec, SessionKeepsDevice
=============================================================================
