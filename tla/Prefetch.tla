------------------------------- MODULE Prefetch -------------------------------
(***************************************************************************)
(* The interrupt IN prefetcher (prefetch.rs) inside one session: the       *)
(* reader calls take() and unlink(), the reaper reaps an internal URB and  *)
(* then calls deliver(), and session::run calls arm() before and           *)
(* shutdown() after.  Each call is atomic (the Mutex around Inner); what   *)
(* happens between two calls of one thread is not, and in particular both  *)
(* threads put their replies on the wire after having dropped the lock.    *)
(*                                                                         *)
(* A report is the number of its place in the order in which the device    *)
(* produced it; truncation to the client's length is left out.  The table  *)
(* of internal URBs stands for usbfs.rs's pending table together with the  *)
(* kernel's (module UrbPump: TableMatchesKernel).                          *)
(***************************************************************************)
EXTENDS Naturals, Sequences

CONSTANTS
  Eps,          \* the interrupt IN endpoints, by address
  Depth,        \* DEPTH, the reports held per endpoint
  MaxErrors,    \* MAX_CONSECUTIVE_ERRORS
  Base, Top,    \* INTERNAL_BASE, and the largest seqnum (u32::MAX)
  OneUrb,       \* TRUE: the client keeps one submit per endpoint, as usbhid does
  Refusals,     \* TRUE: a URB may be refused or fail, and the device be unplugged
  MaxReports,   \* bound on the reports of an endpoint
  MaxSubmits    \* bound on the client's submits

ASSUME DepthAssumption == Depth \in Nat \ {0} /\ MaxErrors \in Nat \ {0}
ASSUME SeqnumAssumption ==
  /\ Base \in Nat \ {0} /\ Top \in Nat /\ Base <= Top
ASSUME ClientAssumption == OneUrb \in BOOLEAN /\ Refusals \in BOOLEAN
ASSUME BoundAssumption == MaxReports \in Nat /\ MaxSubmits \in Nat

VARIABLES
  ep,           \* Inner.eps: the prefetcher's record of each endpoint
  nextSeq,      \* Inner.next_seqnum
  urb,          \* the internal URBs, by seqnum
  gone,         \* the device has been unplugged
  made,         \* external: reports the device has produced, per endpoint
  toArm,        \* endpoints arm() has still to visit
  rdPc, rdHand, \* the reader, and the reply it is about to post
  rpPc, rpUrb, rpHand, \* the reaper, its reaped completion, its reply
  count,        \* submits the client has made; they are numbered from 1
  target,       \* the endpoint of each submit, 0 before it is made
  asked,        \* submits the client asked to unlink
  wire,         \* history: the reports posted for an endpoint, in order
  settled       \* history: submits answered, unlinked or passed through

kernel == <<urb, gone, made>>
reader == <<rdPc, rdHand>>
reaper == <<rpPc, rpUrb, rpHand>>
client == <<count, target, asked>>
vars == <<ep, nextSeq, kernel, toArm, reader, reaper, client, wire, settled>>

ISeqs == Base..Top
Submits == 1..MaxSubmits

NoUrb == [state |-> "none", ep |-> 0, data |-> 0, unlinked |-> FALSE]

\* Endpoint as Prefetch::new makes it; 0 stands for None.
NewEndpoint == [inFlight |-> 0, captured |-> <<>>, waiting |-> 0, errors |-> 0,
                disabled |-> FALSE]

\* A reply to submit seq: kind "data" with a report, "error", or "unlink".
Reply(kind, a, seq, data) == [kind |-> kind, ep |-> a, seq |-> seq, data |-> data]

Init ==
  /\ ep = [a \in Eps |-> NewEndpoint]
  /\ nextSeq = Base
  /\ urb = [q \in ISeqs |-> NoUrb]
  /\ gone = FALSE
  /\ made = [a \in Eps |-> 0]
  /\ toArm = Eps
  /\ rdPc = "arm" /\ rdHand = {}
  /\ rpPc = "reap" /\ rpUrb = {} /\ rpHand = {}
  /\ count = 0
  /\ target = [c \in Submits |-> 0]
  /\ asked = {}
  /\ wire = [a \in Eps |-> <<>>]
  /\ settled = {}

-----------------------------------------------------------------------------
(* The device.                                                             *)

Complete(q, data) ==
  /\ urb[q].state = "flying"
  /\ urb' = [urb EXCEPT ![q].state = "done", ![q].data = data]
  /\ UNCHANGED <<ep, nextSeq, gone, toArm, reader, reaper, client, wire, settled>>

DeviceReport(q) ==
  LET a == urb[q].ep IN
  /\ urb[q].state = "flying" /\ ~gone /\ made[a] < MaxReports
  /\ Complete(q, made[a] + 1)
  /\ made' = [made EXCEPT ![a] = @ + 1]

\* A failed transfer, a cancelled URB, or one the disconnect killed.
DeviceError(q) ==
  /\ Refusals \/ gone \/ urb[q].unlinked
  /\ Complete(q, 0)
  /\ UNCHANGED made

Unplug ==
  /\ Refusals /\ ~gone
  /\ gone' = TRUE
  /\ UNCHANGED <<ep, nextSeq, urb, made, toArm, reader, reaper, client, wire,
                 settled>>

-----------------------------------------------------------------------------
(* arm_one: endpoint a, whose record has become e, gets a URB if it may.   *)

CanArm(e) == ~e.disabled /\ e.inFlight = 0

AfterSeq(q) == IF q = Top THEN Base ELSE q + 1

ArmSkipped(a, e) ==
  /\ ~CanArm(e)
  /\ ep' = [ep EXCEPT ![a] = e]
  /\ UNCHANGED <<nextSeq, urb>>

ArmOk(a, e) ==
  /\ CanArm(e) /\ ~gone /\ urb[nextSeq].state = "none"
  /\ ep' = [ep EXCEPT ![a] = [e EXCEPT !.inFlight = nextSeq]]
  /\ urb' = [urb EXCEPT ![nextSeq] =
               [state |-> "flying", ep |-> a, data |-> 0, unlinked |-> FALSE]]
  /\ nextSeq' = AfterSeq(nextSeq)

\* The kernel refuses, or the seqnum is still in use (EBUSY).
ArmRefused(a, e) ==
  /\ CanArm(e) /\ (Refusals \/ urb[nextSeq].state # "none")
  /\ ep' = [ep EXCEPT ![a] = [e EXCEPT !.errors = @ + 1,
                                       !.disabled = e.errors + 1 >= MaxErrors]]
  /\ UNCHANGED <<nextSeq, urb>>

ArmFatal(a, e) ==
  /\ CanArm(e) /\ gone
  /\ ep' = [ep EXCEPT ![a] = [e EXCEPT !.disabled = TRUE]]
  /\ UNCHANGED <<nextSeq, urb>>

ArmOne(a, e) ==
  ArmSkipped(a, e) \/ ArmOk(a, e) \/ ArmRefused(a, e) \/ ArmFatal(a, e)

\* arm(): every endpoint once, before the threads start.
Arm(a) ==
  /\ rdPc = "arm" /\ a \in toArm
  /\ ArmOne(a, ep[a])
  /\ toArm' = toArm \ {a}
  /\ rdPc' = IF toArm = {a} THEN "read" ELSE "arm"
  /\ UNCHANGED <<gone, made, rdHand, reaper, client, wire, settled>>

-----------------------------------------------------------------------------
(* The reader.                                                             *)

MaySubmit(a) ==
  OneUrb => \A c \in 1..count : target[c] = a => c \in settled

\* The reader has read the client's next submit, for endpoint a.
ReadSubmit(a) ==
  /\ rdPc = "read" /\ count < MaxSubmits /\ MaySubmit(a)
  /\ count' = count + 1
  /\ target' = [target EXCEPT ![count + 1] = a]
  /\ UNCHANGED <<gone, made, toArm, reaper, asked, wire>>

\* Fault: the newest report is handed out first.
TakeReadyNewest(a) ==
  LET held == ep[a].captured IN
  /\ ReadSubmit(a)
  /\ ~ep[a].disabled /\ held # <<>>
  /\ ArmOne(a, [ep[a] EXCEPT !.captured = SubSeq(@, 1, Len(@) - 1)])
  /\ rdHand' = {Reply("data", a, count + 1, held[Len(held)])}
  /\ rdPc' = "post"
  /\ UNCHANGED settled

TakeReady(a) ==
  /\ ReadSubmit(a)
  /\ ~ep[a].disabled /\ ep[a].captured # <<>>
  /\ ArmOne(a, [ep[a] EXCEPT !.captured = Tail(@)])
  /\ rdHand' = {Reply("data", a, count + 1, Head(ep[a].captured))}
  /\ rdPc' = "post"
  /\ UNCHANGED settled

\* Registered; a second submit replaces the first.
TakeWaiting(a) ==
  /\ ReadSubmit(a)
  /\ ~ep[a].disabled /\ ep[a].captured = <<>>
  /\ ArmOne(a, [ep[a] EXCEPT !.waiting = count + 1])
  /\ UNCHANGED <<reader, settled>>

\* The endpoint gave up: the submit becomes a URB of the client's own.
TakePassThrough(a) ==
  /\ ReadSubmit(a)
  /\ ep[a].disabled
  /\ settled' = settled \cup {count + 1}
  /\ UNCHANGED <<ep, nextSeq, urb, reader>>

\* Fault: the waiter is dropped without comparing its seqnum.
UnlinkAnyWaiter(c) ==
  /\ rdPc = "read" /\ c \in 1..count /\ c \notin asked
  /\ asked' = asked \cup {c}
  /\ ep' = [a \in Eps |-> [ep[a] EXCEPT !.waiting = 0]]
  /\ rdHand' = {Reply("unlink", target[c], c, 0)}
  /\ rdPc' = "post"
  /\ UNCHANGED <<nextSeq, kernel, toArm, reaper, count, target, wire, settled>>

\* CMD_UNLINK of submit c: unlink(), and for anything else the device's own
\* unlink, which leaves the internal URBs alone.
Unlink(c) ==
  /\ rdPc = "read" /\ c \in 1..count /\ c \notin asked
  /\ asked' = asked \cup {c}
  /\ ep' = [a \in Eps |-> IF ep[a].waiting = c
                          THEN [ep[a] EXCEPT !.waiting = 0] ELSE ep[a]]
  /\ rdHand' = {Reply("unlink", target[c], c, 0)}
  /\ rdPc' = "post"
  /\ UNCHANGED <<nextSeq, kernel, toArm, reaper, count, target, wire, settled>>

\* A reply enters the outbox.
Post(m) ==
  /\ wire' = IF m.kind = "data"
             THEN [wire EXCEPT ![m.ep] = Append(@, m.data)] ELSE wire
  /\ settled' = settled \cup {m.seq}

RdPost ==
  /\ rdPc = "post"
  /\ \E m \in rdHand : Post(m)
  /\ rdPc' = "read" /\ rdHand' = {}
  /\ UNCHANGED <<ep, nextSeq, kernel, toArm, reaper, client>>

\* reader_loop returns, from read_pdu or because post() gave up.
RdLeave ==
  /\ rdPc \in {"read", "post"}
  /\ rdPc' = "stop" /\ rdHand' = {}
  /\ UNCHANGED <<ep, nextSeq, kernel, toArm, reaper, client, wire, settled>>

\* Fault: the URBs are cancelled and the bookkeeping is left as it was.
ShutdownCancelsOnly ==
  /\ rdPc = "stop"
  /\ urb' = [q \in ISeqs |->
               IF urb[q].state # "none" /\ \E a \in Eps : ep[a].inFlight = q
               THEN [urb[q] EXCEPT !.unlinked = TRUE] ELSE urb[q]]
  /\ rdPc' = "down"
  /\ UNCHANGED <<ep, nextSeq, gone, made, toArm, rdHand, reaper, client, wire,
                 settled>>

\* shutdown(), while the reaper may still be at work.
Shutdown ==
  /\ rdPc = "stop"
  /\ ep' = [a \in Eps |-> [ep[a] EXCEPT !.disabled = TRUE, !.waiting = 0,
                                        !.captured = <<>>, !.inFlight = 0]]
  /\ urb' = [q \in ISeqs |->
               IF urb[q].state # "none" /\ \E a \in Eps : ep[a].inFlight = q
               THEN [urb[q] EXCEPT !.unlinked = TRUE] ELSE urb[q]]
  /\ rdPc' = "down"
  /\ UNCHANGED <<nextSeq, gone, made, toArm, rdHand, reaper, client, wire,
                 settled>>

-----------------------------------------------------------------------------
(* The reaper.                                                             *)

\* reap() removes the URB; the lock is not held when deliver() is called.
Reap(q) ==
  /\ rdPc # "arm" /\ rpPc = "reap" /\ urb[q].state = "done"
  /\ urb' = [urb EXCEPT ![q] = NoUrb]
  /\ IF urb[q].unlinked
     THEN UNCHANGED <<rpPc, rpUrb>>
     ELSE rpPc' = "deliver" /\ rpUrb' = {[seq |-> q, data |-> urb[q].data]}
  /\ UNCHANGED <<ep, nextSeq, gone, made, toArm, reader, rpHand, client, wire,
                 settled>>

\* No endpoint has this URB in flight any more.
DeliverNone ==
  /\ rpPc = "deliver"
  /\ \A u \in rpUrb : \A a \in Eps : ep[a].inFlight # u.seq
  /\ rpPc' = "reap" /\ rpUrb' = {}
  /\ UNCHANGED <<ep, nextSeq, kernel, toArm, reader, rpHand, client, wire,
                 settled>>

\* The reaper owes the waiter, if there is one, a reply.
Owe(kind, a, data) ==
  /\ rpHand' = IF ep[a].waiting = 0 THEN {}
               ELSE {Reply(kind, a, ep[a].waiting, data)}
  /\ rpPc' = IF ep[a].waiting = 0 THEN "reap" ELSE "post"
  /\ rpUrb' = {}
  /\ UNCHANGED <<gone, made, toArm, reader, client, wire, settled>>

Deliverable(a, u) == rpPc = "deliver" /\ u \in rpUrb /\ ep[a].inFlight = u.seq

\* Fault: a failed transfer discards the waiter without an answer.
DeliverErrorSilently(a, u) ==
  /\ Deliverable(a, u) /\ u.data = 0
  /\ ArmOne(a, [ep[a] EXCEPT !.inFlight = 0, !.errors = @ + 1, !.waiting = 0,
                             !.disabled = @ \/ ep[a].errors + 1 >= MaxErrors])
  /\ rpPc' = "reap" /\ rpUrb' = {}
  /\ UNCHANGED <<gone, made, toArm, reader, rpHand, client, wire, settled>>

DeliverError(a, u) ==
  LET errors == ep[a].errors + 1
      giveUp == errors >= MaxErrors
  IN
  /\ Deliverable(a, u) /\ u.data = 0
  /\ ArmOne(a, [ep[a] EXCEPT !.inFlight = 0, !.errors = errors, !.waiting = 0,
                             !.disabled = @ \/ giveUp,
                             !.captured = IF giveUp THEN <<>> ELSE @])
  /\ Owe("error", a, 0)

\* Fault: the newest report is dropped.
CaptureOldest(captured, data) ==
  IF Len(captured) = Depth THEN captured ELSE Append(captured, data)

\* A full buffer drops its oldest report.
Capture(captured, data) ==
  Append(IF Len(captured) = Depth THEN Tail(captured) ELSE captured, data)

\* Fault: a report is captured without looking for a waiter.
DeliverReportHeld(a, u) ==
  /\ Deliverable(a, u) /\ u.data # 0
  /\ ArmOne(a, [ep[a] EXCEPT !.inFlight = 0, !.errors = 0,
                             !.captured = Capture(@, u.data)])
  /\ rpPc' = "reap" /\ rpUrb' = {}
  /\ UNCHANGED <<gone, made, toArm, reader, rpHand, client, wire, settled>>

DeliverReport(a, u) ==
  /\ Deliverable(a, u) /\ u.data # 0
  /\ ArmOne(a, [ep[a] EXCEPT !.inFlight = 0, !.errors = 0, !.waiting = 0,
                             !.captured = IF ep[a].waiting # 0 THEN @
                                          ELSE Capture(@, u.data)])
  /\ Owe("data", a, u.data)

RpPost ==
  /\ rpPc = "post"
  /\ \E m \in rpHand : Post(m)
  /\ rpPc' = "reap" /\ rpHand' = {}
  /\ UNCHANGED <<ep, nextSeq, kernel, toArm, reader, rpUrb, client>>

\* The reaper ends: stopped, device gone, or post() gave up.
RpLeave ==
  /\ rdPc # "arm" /\ rpPc \in {"reap", "post"}
  /\ rpPc' = "dead" /\ rpHand' = {}
  /\ UNCHANGED <<ep, nextSeq, kernel, toArm, reader, rpUrb, client, wire, settled>>

-----------------------------------------------------------------------------
Device == \E q \in ISeqs : DeviceReport(q) \/ DeviceError(q)

ReaderStep ==
  \/ \E a \in Eps : Arm(a) \/ TakeReady(a) \/ TakeWaiting(a) \/ TakePassThrough(a)
  \/ \E c \in Submits : Unlink(c)
  \/ RdPost \/ RdLeave \/ Shutdown

ReaperStep ==
  \/ \E q \in ISeqs : Reap(q)
  \/ DeliverNone
  \/ \E a \in Eps : \E u \in rpUrb : DeliverError(a, u) \/ DeliverReport(a, u)
  \/ RpPost \/ RpLeave

\* Both threads have ended; session::run goes on to cancel what is left.
SessionOver == rdPc = "down" /\ rpPc = "dead" /\ UNCHANGED vars

Next == Device \/ Unplug \/ ReaderStep \/ ReaperStep \/ SessionOver

Spec == Init /\ [][Next]_vars

\* The reaper runs, and posts get through: neither waits for the client's next
\* command.
FairSpec ==
  /\ Spec
  /\ WF_vars(\E q \in ISeqs : Reap(q))
  /\ WF_vars(DeliverNone \/ \E a \in Eps : \E u \in rpUrb :
                             DeliverError(a, u) \/ DeliverReport(a, u))
  /\ WF_vars(RpPost) /\ WF_vars(RdPost)

-----------------------------------------------------------------------------
(* Properties.                                                             *)

ReplySet == [kind : {"data", "error", "unlink"}, ep : Eps, seq : Submits,
             data : 0..MaxReports]

\* The values of the prefetcher's state; at most DEPTH reports are held per
\* endpoint, and an endpoint in use has not used up its errors (prefetch.rs).
TypeOK ==
  /\ ep \in [Eps -> [inFlight : ISeqs \cup {0}, captured : Seq(1..MaxReports),
                     waiting : 0..MaxSubmits, errors : 0..MaxErrors,
                     disabled : BOOLEAN]]
  /\ \A a \in Eps : Len(ep[a].captured) <= Depth
  /\ \A a \in Eps : ep[a].disabled \/ ep[a].errors < MaxErrors
  /\ nextSeq \in ISeqs
  /\ urb \in [ISeqs -> [state : {"none", "flying", "done"}, ep : Eps \cup {0},
                        data : 0..MaxReports, unlinked : BOOLEAN]]
  /\ gone \in BOOLEAN
  /\ made \in [Eps -> 0..MaxReports]
  /\ toArm \subseteq Eps
  /\ rdPc \in {"arm", "read", "post", "stop", "down"}
  /\ rpPc \in {"reap", "deliver", "post", "dead"}
  /\ rdHand \subseteq ReplySet /\ rpHand \subseteq ReplySet
  /\ rpUrb \subseteq [seq : ISeqs, data : 0..MaxReports]
  /\ count \in 0..MaxSubmits
  /\ target \in [Submits -> Eps \cup {0}]
  /\ asked \subseteq Submits /\ settled \subseteq Submits
  /\ wire \in [Eps -> Seq(1..MaxReports)]

\* The reports of an endpoint reach the client in the order the device made
\* them and none twice, although the reader and the reaper post them without a
\* common lock (prefetch.rs take and deliver, session.rs post).
ReportsInOrder ==
  \A a \in Eps : \A i, j \in 1..Len(wire[a]) : i < j => wire[a][i] < wire[a][j]

\* No client waits for a report while one is held for it (prefetch.rs take,
\* deliver).
NoneHeldFromWaiter == \A a \in Eps : ep[a].waiting # 0 => ep[a].captured = <<>>

Running == rdPc \in {"read", "post"} /\ rpPc # "dead"

\* The report most lately put into a reply on endpoint a.
LastHanded(a) ==
  LET inHand == {m \in rdHand \cup rpHand : m.kind = "data" /\ m.ep = a}
  IN  IF inHand # {} THEN (CHOOSE m \in inHand : TRUE).data
      ELSE IF wire[a] = <<>> THEN 0 ELSE wire[a][Len(wire[a])]

\* What is held is an unbroken run of the newest reports: it ends at the last
\* one the reaper has seen, and starts right after the last one handed out
\* unless the buffer is full and its oldest were dropped (prefetch.rs:36-44).
HeldAreFreshest ==
  \A a \in Eps :
    LET held == ep[a].captured IN
    (Running /\ held # <<>>) =>
      /\ \A i \in 1..Len(held) : held[i] = held[1] + i - 1
      /\ Len(held) = Depth \/ ep[a].disabled \/ held[1] = LastHanded(a) + 1
      /\ (\E q \in ISeqs : ep[a].inFlight = q /\ urb[q].state = "flying")
           => held[Len(held)] = made[a]

\* Every internal URB that deliver() would be called for is the one its
\* endpoint has in flight, so that no report is thrown away as nobody's and no
\* endpoint has two, although seqnums come round again; and after shutdown()
\* there is none, not even one armed by a deliver() that was already under way
\* (prefetch.rs deliver, arm_one, 275-289).
UrbsAreKnown ==
  \A q \in ISeqs :
    (urb[q].state # "none" /\ ~urb[q].unlinked)
      => rdPc # "down" /\ ep[urb[q].ep].inFlight = q

\* With one submit per endpoint no submit is forgotten: it is registered, in
\* the hands of a thread, or settled (prefetch.rs:182-188).
NoSubmitForgotten ==
  (OneUrb /\ Running) =>
    \A c \in 1..count :
      \/ c \in settled
      \/ \E a \in Eps : ep[a].waiting = c
      \/ \E m \in rdHand \cup rpHand : m.seq = c

\* A completed URB settles the submit that waits on its endpoint, even when
\* the transfer failed (prefetch.rs deliver, session.rs reaper_loop).
CompletionSettlesWaiter ==
  \A a \in Eps : \A c \in Submits :
    (/\ ep[a].waiting = c
     /\ \E q \in ISeqs : urb[q].state = "done" /\ ep[a].inFlight = q)
      ~> (c \in settled \/ ~Running)
=============================================================================
