------------------------------- MODULE UrbPump -------------------------------
(***************************************************************************)
(* The URB pump of one imported device: session.rs (reader, reaper and     *)
(* writer threads around one socket and one bounded outbox) on top of the  *)
(* pending table of usbfs.rs, for a sequence of sessions on that device.   *)
(* Prefetching is off here (Prefetch::disabled(): take() passes through,   *)
(* unlink() is FALSE, no internal URB exists); module Prefetch has the     *)
(* prefetcher itself.                                                      *)
(*                                                                         *)
(* A PDU arriving from the importer is an input of the reader: the command *)
(* may have been sent at any earlier time, so the importer may ask to      *)
(* unlink a submit whose answer is already on its way.  The kernel side of *)
(* usbfs is external: a URB flies until it completes, and stays reapable   *)
(* afterwards.                                                             *)
(***************************************************************************)
EXTENDS Naturals, Sequences

CONSTANTS
  Seqs,         \* seqnums one importer may use for its submits
  MaxSessions,  \* bound on the number of imports of the device
  OutboxDepth,  \* OUTBOX_DEPTH, the capacity of the reply channel
  Persistent,   \* TRUE: one device object outlives every session (Android)
  Hotkey,       \* TRUE: a toggle chord is configured
  Events        \* bound: which of the outside events below may happen

ASSUME SessionsAssumption == MaxSessions \in Nat
ASSUME OutboxAssumption   == OutboxDepth \in Nat \ {0}
ASSUME OptionsAssumption  == Persistent \in BOOLEAN /\ Hotkey \in BOOLEAN
ASSUME EventsAssumption   == Events \subseteq {"unplug", "close", "terminate", "pollError"}

VARIABLES
  gone,         \* the device has been unplugged
  pending,      \* State.pending: "free", or the entry's unlinked flag
  owner,        \* history: the session that submitted the pending URB
  kernel,       \* external: the kernel's view of the URB with that seqnum
  suspended,    \* the device is in Toggle's suspended set
  shutting,     \* shutting_down()
  sess,         \* number of the current or latest session
  stop,         \* the session's stop flag
  shut,         \* the server's end of the socket has been shut down
  closed,       \* the importer closed or reset its end
  outbox,       \* the sync_channel of encoded replies
  rdPc, rdHand, \* the thread in session::run / reader_loop, and its reply
  rpPc, rpHand, \* the reaper thread, and its reply
  rpChord,      \* reaper_loop's chord_fired
  rpGone,       \* reaper_loop's wake.gone
  wrPc,         \* the writer thread
  sent,         \* history: submits read in this session
  asked,        \* history: submits the importer asked to unlink
  replied,      \* history: number of RET_SUBMITs queued for a submit
  unlinkReply   \* history: the RET_UNLINK queued for a submit

device  == <<gone, pending, owner, kernel>>
toggle  == <<suspended, shutting>>
socket  == <<shut, closed>>
reader  == <<rdPc, rdHand>>
reaper  == <<rpPc, rpHand, rpChord, rpGone>>
inputs  == <<sent, asked>>
history == <<replied, unlinkReply>>
vars == <<device, toggle, sess, stop, socket, outbox, reader, reaper, wrPc,
          inputs, history>>

(***************************************************************************)
(* Replies.  "ret_submit" answers a completed URB, "ret_error" is a        *)
(* RET_SUBMIT synthesised by encode_error, "ret_unlink" answers            *)
(* CMD_UNLINK with -ECONNRESET (caught) or 0.  The wire carries the        *)
(* seqnum only: sess is history, the session whose submit is answered.     *)
(***************************************************************************)
Reply == [type : {"ret_submit", "ret_error", "ret_unlink"}, seq : Seqs,
          sess : 0..MaxSessions, caught : BOOLEAN]

RetSubmit(s, k) == [type |-> "ret_submit", seq |-> s, sess |-> k, caught |-> FALSE]
RetError(s, k) == [type |-> "ret_error", seq |-> s, sess |-> k, caught |-> FALSE]
RetUnlink(s, k, caught) ==
  [type |-> "ret_unlink", seq |-> s, sess |-> k, caught |-> caught]

Answers(m, s) == m.type \in {"ret_submit", "ret_error"} /\ m.seq = s

\* Where run() stands once reader_loop has returned.
WindDown == {"stop", "shutdown", "join", "cancel", "drain"}

Init ==
  /\ gone = FALSE
  /\ pending = [s \in Seqs |-> "free"]
  /\ owner = [s \in Seqs |-> 0]
  /\ kernel = [s \in Seqs |-> "idle"]
  /\ suspended = FALSE /\ shutting = FALSE
  /\ sess = 0
  /\ stop = FALSE /\ shut = FALSE /\ closed = FALSE
  /\ outbox = <<>>
  /\ rdPc = "idle" /\ rdHand = {}
  /\ rpPc = "dead" /\ rpHand = {} /\ rpChord = FALSE /\ rpGone = FALSE
  /\ wrPc = "dead"
  /\ sent = {} /\ asked = {}
  /\ replied = [s \in Seqs |-> 0]
  /\ unlinkReply = [s \in Seqs |-> "none"]

-----------------------------------------------------------------------------
(* The environment: the kernel, the cable, the importer, the operator.     *)

\* The kernel finishes a URB, normally or because it was discarded.
KernelComplete(s) ==
  /\ kernel[s] = "flying"
  /\ kernel' = [kernel EXCEPT ![s] = "done"]
  /\ UNCHANGED <<gone, pending, owner, toggle, sess, stop, socket, outbox,
                 reader, reaper, wrPc, inputs, history>>

Unplug ==
  /\ "unplug" \in Events /\ ~gone /\ rdPc # "idle"
  /\ gone' = TRUE
  /\ UNCHANGED <<pending, owner, kernel, toggle, sess, stop, socket, outbox,
                 reader, reaper, wrPc, inputs, history>>

ClientClose ==
  /\ "close" \in Events /\ ~closed /\ rdPc # "idle"
  /\ closed' = TRUE
  /\ UNCHANGED <<device, toggle, sess, stop, shut, outbox, reader, reaper,
                 wrPc, inputs, history>>

\* SIGTERM or SIGINT.
Terminate ==
  /\ "terminate" \in Events /\ ~shutting
  /\ shutting' = TRUE
  /\ UNCHANGED <<device, suspended, sess, stop, socket, outbox, reader, reaper,
                 wrPc, inputs, history>>

\* drain() in the accept loop shuts every live session's socket down.
DrainSocket ==
  /\ shutting /\ rdPc # "idle" /\ ~shut
  /\ shut' = TRUE
  /\ UNCHANGED <<device, toggle, sess, stop, closed, outbox, reader, reaper,
                 wrPc, inputs, history>>

\* The watcher saw the chord again, or SIGHUP resumed every device.
Resume ==
  /\ suspended
  /\ suspended' = FALSE
  /\ UNCHANGED <<device, shutting, sess, stop, socket, outbox, reader, reaper,
                 wrPc, inputs, history>>

-----------------------------------------------------------------------------
(* session::run: start, and the three threads.                             *)

\* An import was accepted and its interfaces claimed, so the device is there.
StartSession ==
  /\ rdPc = "idle" /\ sess < MaxSessions
  /\ ~suspended /\ ~shutting /\ ~(Persistent /\ gone)
  /\ gone' = FALSE
  /\ sess' = sess + 1
  /\ stop' = FALSE /\ shut' = FALSE /\ closed' = FALSE
  /\ outbox' = <<>>
  /\ rdPc' = "check" /\ rpPc' = "check" /\ wrPc' = "recv"
  /\ rdHand' = {} /\ rpHand' = {}
  /\ rpChord' = FALSE /\ rpGone' = FALSE
  /\ sent' = {} /\ asked' = {}
  /\ replied' = [s \in Seqs |-> 0]
  /\ unlinkReply' = [s \in Seqs |-> "none"]
  /\ UNCHANGED <<pending, owner, kernel, toggle>>

\* Fault: an unbounded channel.
QueueUnbounded(m) ==
  /\ wrPc # "dead"
  /\ outbox' = Append(outbox, m)
  /\ IF m.type = "ret_unlink"
     THEN /\ unlinkReply' = [unlinkReply EXCEPT ![m.seq] =
                               IF m.caught THEN "reset" ELSE "zero"]
          /\ UNCHANGED replied
     ELSE /\ replied' = [replied EXCEPT ![m.seq] = @ + 1]
          /\ UNCHANGED unlinkReply

\* post(): try_send, and when it gives up.  A full outbox that is not stopped
\* is retried after a millisecond, which changes nothing.
Queue(m) ==
  /\ wrPc # "dead" /\ Len(outbox) < OutboxDepth
  /\ outbox' = Append(outbox, m)
  /\ IF m.type = "ret_unlink"
     THEN /\ unlinkReply' = [unlinkReply EXCEPT ![m.seq] =
                               IF m.caught THEN "reset" ELSE "zero"]
          /\ UNCHANGED replied
     ELSE /\ replied' = [replied EXCEPT ![m.seq] = @ + 1]
          /\ UNCHANGED unlinkReply

PostFails == wrPc = "dead" \/ (Len(outbox) >= OutboxDepth /\ stop)

\* The head of reader_loop.
RdCheck ==
  /\ rdPc = "check"
  /\ rdPc' = IF stop \/ shutting THEN "stop" ELSE "read"
  /\ UNCHANGED <<device, toggle, sess, stop, socket, outbox, rdHand, reaper,
                 wrPc, inputs, history>>

\* read_pdu fails: end of file, a reset, or an error; reader_loop returns.
RdReadEnd ==
  /\ rdPc = "read" /\ (shut \/ closed)
  /\ rdPc' = "stop"
  /\ UNCHANGED <<device, toggle, sess, stop, socket, outbox, rdHand, reaper,
                 wrPc, inputs, history>>

\* The reader has read CMD_SUBMIT s.
Submit(s) ==
  /\ rdPc = "read" /\ s \notin sent
  /\ sent' = sent \cup {s}
  /\ UNCHANGED <<gone, toggle, sess, stop, socket, outbox, reaper, wrPc, asked,
                 history>>

\* The kernel accepts the URB.
RdSubmitOk(s) ==
  /\ Submit(s)
  /\ pending[s] = "free" /\ ~gone
  /\ pending' = [pending EXCEPT ![s] = "live"]
  /\ owner' = [owner EXCEPT ![s] = sess]
  /\ kernel' = [kernel EXCEPT ![s] = "flying"]
  /\ rdPc' = "check" /\ UNCHANGED rdHand

\* The seqnum is still in the pending table: EBUSY.
RdSubmitBusy(s) ==
  /\ Submit(s)
  /\ pending[s] # "free"
  /\ rdPc' = "post" /\ rdHand' = {RetError(s, sess)}
  /\ UNCHANGED <<pending, owner, kernel>>

\* Fault: a refused submit is answered and registered all the same.
RdSubmitRefusedKeepsUrb(s) ==
  /\ Submit(s)
  /\ pending[s] = "free"
  /\ pending' = [pending EXCEPT ![s] = "live"]
  /\ owner' = [owner EXCEPT ![s] = sess]
  /\ kernel' = [kernel EXCEPT ![s] = "flying"]
  /\ rdPc' = "post" /\ rdHand' = {RetError(s, sess)}

\* Answered without a URB: isochronous, an unknown endpoint, too long, an
\* errno of the ioctl, or a request handled through an ioctl of its own.
RdSubmitRefused(s) ==
  /\ Submit(s)
  /\ rdPc' = "post" /\ rdHand' = {RetError(s, sess)}
  /\ UNCHANGED <<pending, owner, kernel>>

\* ENODEV or ESHUTDOWN is fatal: reader_loop returns.
RdSubmitFatal(s) ==
  /\ Submit(s)
  /\ gone
  /\ rdPc' = "stop"
  /\ UNCHANGED <<pending, owner, kernel, rdHand>>

\* Faults: the unlinked flag is not set; the entry is removed at once.
RdUnlinkForgetsFlag(s) ==
  /\ rdPc = "read" /\ s \in sent \ asked
  /\ asked' = asked \cup {s}
  /\ rdHand' = {RetUnlink(s, sess, pending[s] # "free" /\ kernel[s] = "flying")}
  /\ rdPc' = "post"
  /\ UNCHANGED <<device, toggle, sess, stop, socket, outbox, reaper, wrPc, sent,
                 history>>

RdUnlinkRemoves(s) ==
  /\ rdPc = "read" /\ s \in sent \ asked
  /\ asked' = asked \cup {s}
  /\ pending' = [pending EXCEPT ![s] = "free"]
  /\ rdHand' = {RetUnlink(s, sess, pending[s] # "free" /\ kernel[s] = "flying")}
  /\ rdPc' = "post"
  /\ UNCHANGED <<gone, owner, kernel, toggle, sess, stop, socket, outbox, reaper,
                 wrPc, sent, history>>

\* CMD_UNLINK of s: UsbfsDevice::unlink, then RET_UNLINK.
RdUnlink(s) ==
  /\ rdPc = "read" /\ s \in sent \ asked
  /\ asked' = asked \cup {s}
  /\ pending' = [pending EXCEPT ![s] = IF @ = "free" THEN @ ELSE "unlinked"]
  /\ rdHand' = {RetUnlink(s, sess, pending[s] # "free" /\ kernel[s] = "flying")}
  /\ rdPc' = "post"
  /\ UNCHANGED <<gone, owner, kernel, toggle, sess, stop, socket, outbox, reaper,
                 wrPc, sent, history>>

RdPostOk ==
  /\ rdPc = "post"
  /\ \E m \in rdHand : Queue(m)
  /\ rdPc' = "check" /\ rdHand' = {}
  /\ UNCHANGED <<device, toggle, sess, stop, socket, reaper, wrPc, inputs>>

RdPostFails ==
  /\ rdPc = "post" /\ PostFails
  /\ rdPc' = "stop" /\ rdHand' = {}
  /\ UNCHANGED <<device, toggle, sess, stop, socket, outbox, reaper, wrPc,
                 inputs, history>>

\* run() winds down: stop flag, then the socket and its own sender, then join.
RdStop ==
  /\ rdPc = "stop"
  /\ stop' = TRUE
  /\ rdPc' = "shutdown"
  /\ UNCHANGED <<device, toggle, sess, socket, outbox, rdHand, reaper, wrPc,
                 inputs, history>>

RdShutdown ==
  /\ rdPc = "shutdown"
  /\ shut' = TRUE
  /\ rdPc' = "join"
  /\ UNCHANGED <<device, toggle, sess, stop, closed, outbox, rdHand, reaper,
                 wrPc, inputs, history>>

\* Fault: the reaper is not joined.
RdJoinWriterOnly ==
  /\ rdPc = "join" /\ wrPc = "dead"
  /\ rdPc' = "cancel"
  /\ UNCHANGED <<device, toggle, sess, stop, socket, outbox, rdHand, reaper,
                 wrPc, inputs, history>>

RdJoin ==
  /\ rdPc = "join" /\ rpPc = "dead" /\ wrPc = "dead"
  /\ rdPc' = "cancel"
  /\ UNCHANGED <<device, toggle, sess, stop, socket, outbox, rdHand, reaper,
                 wrPc, inputs, history>>

\* Fault: the session ends without cancelling what is in flight.
RdCancelNothing ==
  /\ rdPc = "cancel"
  /\ rdPc' = "drain"
  /\ UNCHANGED <<device, toggle, sess, stop, socket, outbox, rdHand, reaper,
                 wrPc, inputs, history>>

\* cancel_pending: unlink everything, then a bounded drain.
RdCancel ==
  /\ rdPc = "cancel"
  /\ pending' = [s \in Seqs |->
                   IF pending[s] = "free" THEN "free" ELSE "unlinked"]
  /\ rdPc' = "drain"
  /\ UNCHANGED <<gone, owner, kernel, toggle, sess, stop, socket, outbox, rdHand,
                 reaper, wrPc, inputs, history>>

RdDrain(s) ==
  /\ rdPc = "drain" /\ kernel[s] = "done"
  /\ kernel' = [kernel EXCEPT ![s] = "idle"]
  /\ pending' = [pending EXCEPT ![s] = "free"]
  /\ UNCHANGED <<gone, owner, toggle, sess, stop, socket, outbox, reader, reaper,
                 wrPc, inputs, history>>

\* The table is empty, or 250 ms have passed, or the reap failed.  On Linux
\* the import drops the last reference: Drop closes the descriptor.
RdEnd ==
  /\ rdPc = "drain"
  /\ rdPc' = "idle"
  /\ pending' = IF Persistent THEN pending ELSE [s \in Seqs |-> "free"]
  /\ kernel' = IF Persistent THEN kernel ELSE [s \in Seqs |-> "idle"]
  /\ UNCHANGED <<gone, owner, toggle, sess, stop, socket, outbox, rdHand, reaper,
                 wrPc, inputs, history>>

-----------------------------------------------------------------------------
(* reaper_loop.                                                            *)

RpCheck ==
  /\ rpPc = "check"
  /\ rpPc' = IF stop THEN "exit" ELSE "wait"
  /\ UNCHANGED <<device, toggle, sess, stop, socket, outbox, reader, rpHand,
                 rpChord, rpGone, wrPc, inputs, history>>

\* dev.wait returned: POLLOUT when something is reapable, POLLHUP when gone.
RpWait ==
  /\ rpPc = "wait"
  /\ rpPc' = IF \E s \in Seqs : kernel[s] = "done" THEN "reap" ELSE "after"
  /\ rpGone' = gone /\ rpChord' = FALSE
  /\ UNCHANGED <<device, toggle, sess, stop, socket, outbox, reader, rpHand,
                 wrPc, inputs, history>>

RpWaitFails ==
  /\ "pollError" \in Events /\ rpPc = "wait"
  /\ rpPc' = "exit"
  /\ UNCHANGED <<device, toggle, sess, stop, socket, outbox, reader, rpHand,
                 rpChord, rpGone, wrPc, inputs, history>>

\* reap() takes one completion out of the table and drops the lock.
Reap(s) ==
  /\ rpPc = "reap" /\ kernel[s] = "done"
  /\ kernel' = [kernel EXCEPT ![s] = "idle"]
  /\ pending' = [pending EXCEPT ![s] = "free"]
  /\ UNCHANGED <<gone, owner, toggle, sess, stop, socket, outbox, reader, rpGone,
                 wrPc, inputs, history>>

RpReapUnlinked(s) ==
  /\ Reap(s) /\ pending[s] = "unlinked"
  /\ UNCHANGED <<rpPc, rpHand, rpChord>>

\* screen() may see the chord held long enough in this report.
RpReap(s) ==
  /\ Reap(s) /\ pending[s] # "unlinked"
  /\ rpHand' = {RetSubmit(s, owner[s])}
  /\ rpPc' = "post"
  /\ \E fired \in {FALSE, Hotkey} : rpChord' = (rpChord \/ fired)

RpReapNone ==
  /\ rpPc = "reap" /\ \A s \in Seqs : kernel[s] # "done"
  /\ rpPc' = "after"
  /\ UNCHANGED <<device, toggle, sess, stop, socket, outbox, reader, rpHand,
                 rpChord, rpGone, wrPc, inputs, history>>

\* Nothing left to reap on a device that is gone is an error, not EAGAIN.
RpReapFails ==
  /\ rpPc = "reap" /\ gone /\ \A s \in Seqs : kernel[s] # "done"
  /\ stop' = TRUE
  /\ rpPc' = "after"
  /\ UNCHANGED <<device, toggle, sess, socket, outbox, reader, rpHand, rpChord,
                 rpGone, wrPc, inputs, history>>

RpPostOk ==
  /\ rpPc = "post"
  /\ \E m \in rpHand : Queue(m)
  /\ rpPc' = "reap" /\ rpHand' = {}
  /\ UNCHANGED <<device, toggle, sess, stop, socket, reader, rpChord, rpGone,
                 wrPc, inputs>>

\* Fault: a full outbox drops the reply.
RpPostDrops ==
  /\ rpPc = "post" /\ Len(outbox) >= OutboxDepth
  /\ rpPc' = "reap" /\ rpHand' = {}
  /\ UNCHANGED <<device, toggle, sess, stop, socket, outbox, reader, rpChord,
                 rpGone, wrPc, inputs, history>>

RpPostFails ==
  /\ rpPc = "post" /\ PostFails
  /\ stop' = TRUE
  /\ rpPc' = "after" /\ rpHand' = {}
  /\ UNCHANGED <<device, toggle, sess, socket, outbox, reader, rpChord, rpGone,
                 wrPc, inputs, history>>

\* The chord is acted on once the reap loop has drained.
RpSuspend ==
  /\ rpPc = "after" /\ rpChord
  /\ suspended' = TRUE
  /\ rpPc' = "exit"
  /\ UNCHANGED <<device, shutting, sess, stop, socket, outbox, reader, rpHand,
                 rpChord, rpGone, wrPc, inputs, history>>

RpAfter ==
  /\ rpPc = "after" /\ ~rpChord
  /\ rpPc' = IF rpGone THEN "exit" ELSE "check"
  /\ UNCHANGED <<device, toggle, sess, stop, socket, outbox, reader, rpHand,
                 rpChord, rpGone, wrPc, inputs, history>>

RpStop ==
  /\ rpPc = "exit"
  /\ stop' = TRUE
  /\ rpPc' = "shutdown"
  /\ UNCHANGED <<device, toggle, sess, socket, outbox, reader, rpHand, rpChord,
                 rpGone, wrPc, inputs, history>>

\* Fault: the reaper leaves without unblocking the reader.
RpShutdownKeepsSocket ==
  /\ rpPc = "shutdown"
  /\ rpPc' = "dead"
  /\ UNCHANGED <<device, toggle, sess, stop, socket, outbox, reader, rpHand,
                 rpChord, rpGone, wrPc, inputs, history>>

RpShutdown ==
  /\ rpPc = "shutdown"
  /\ shut' = TRUE
  /\ rpPc' = "dead"
  /\ UNCHANGED <<device, toggle, sess, stop, closed, outbox, reader, rpHand,
                 rpChord, rpGone, wrPc, inputs, history>>

-----------------------------------------------------------------------------
(* writer_loop.                                                            *)

WrTake ==
  /\ wrPc = "recv" /\ outbox # <<>>
  /\ outbox' = Tail(outbox)
  /\ wrPc' = "write"
  /\ UNCHANGED <<device, toggle, sess, stop, socket, reader, reaper, inputs,
                 history>>

\* The queue is empty and both senders are gone.
WrClosed ==
  /\ wrPc = "recv" /\ outbox = <<>>
  /\ rdPc = "join" /\ rpPc = "dead"
  /\ wrPc' = "exit"
  /\ UNCHANGED <<device, toggle, sess, stop, socket, outbox, reader, reaper,
                 inputs, history>>

\* write_all returns once the importer's window has taken the reply.
WrWriteOk ==
  /\ wrPc = "write" /\ ~shut
  /\ wrPc' = "recv"
  /\ UNCHANGED <<device, toggle, sess, stop, socket, outbox, reader, reaper,
                 inputs, history>>

WrWriteFails ==
  /\ wrPc = "write" /\ (shut \/ closed)
  /\ wrPc' = "exit"
  /\ UNCHANGED <<device, toggle, sess, stop, socket, outbox, reader, reaper,
                 inputs, history>>

WrStop ==
  /\ wrPc = "exit"
  /\ stop' = TRUE
  /\ wrPc' = "shutdown"
  /\ UNCHANGED <<device, toggle, sess, socket, outbox, reader, reaper, inputs,
                 history>>

\* The receiver, and whatever is still queued, goes with the thread.
WrShutdown ==
  /\ wrPc = "shutdown"
  /\ shut' = TRUE
  /\ outbox' = <<>>
  /\ wrPc' = "dead"
  /\ UNCHANGED <<device, toggle, sess, stop, closed, reader, reaper, inputs,
                 history>>

-----------------------------------------------------------------------------
ReaderInput ==
  \E s \in Seqs :
    \/ RdSubmitOk(s) \/ RdSubmitBusy(s) \/ RdSubmitRefused(s)
    \/ RdSubmitFatal(s) \/ RdUnlink(s)

\* What the reader does without waiting for the importer.
ReaderStep ==
  \/ RdCheck \/ RdReadEnd \/ RdPostOk \/ RdPostFails
  \/ RdStop \/ RdShutdown \/ RdJoin \/ RdCancel
  \/ (\E s \in Seqs : RdDrain(s)) \/ RdEnd

ReaperStep ==
  \/ RpCheck \/ RpWait \/ RpWaitFails
  \/ (\E s \in Seqs : RpReapUnlinked(s) \/ RpReap(s))
  \/ RpReapNone \/ RpReapFails \/ RpPostOk \/ RpPostFails
  \/ RpSuspend \/ RpAfter \/ RpStop \/ RpShutdown

\* What the writer does without waiting for the importer's window.
WriterStep == WrTake \/ WrClosed \/ WrWriteFails \/ WrStop \/ WrShutdown

Environment ==
  \/ (\E s \in Seqs : KernelComplete(s)) \/ Unplug \/ ClientClose
  \/ Terminate \/ DrainSocket \/ Resume \/ StartSession

\* No importer is connected: the accept loop waits for one.
NoImporter == rdPc = "idle" /\ UNCHANGED vars

Next ==
  \/ ReaderInput \/ ReaderStep \/ ReaperStep \/ WriterStep \/ WrWriteOk
  \/ Environment \/ NoImporter

Spec == Init /\ [][Next]_vars

\* Each thread runs; nothing is assumed of the importer, the network or the
\* device.
ThreadFairness ==
  /\ WF_vars(ReaderStep) /\ WF_vars(ReaperStep) /\ WF_vars(WriterStep)

ThreadFairSpec == Spec /\ ThreadFairness

\* The network takes what is written (keepalive and TCP's own timeouts bound a
\* stall of write_all), and the accept loop gets to drain() once the process is
\* told to end.
NetworkFairness == WF_vars(WrWriteOk) /\ WF_vars(DrainSocket)

-----------------------------------------------------------------------------
(* Properties.                                                             *)

\* The values the pump's state can take (session.rs, usbfs.rs State).
TypeOK ==
  /\ gone \in BOOLEAN /\ suspended \in BOOLEAN /\ shutting \in BOOLEAN
  /\ pending \in [Seqs -> {"free", "live", "unlinked"}]
  /\ owner \in [Seqs -> 0..MaxSessions]
  /\ kernel \in [Seqs -> {"idle", "flying", "done"}]
  /\ sess \in 0..MaxSessions
  /\ stop \in BOOLEAN /\ shut \in BOOLEAN /\ closed \in BOOLEAN
  /\ outbox \in Seq(Reply) /\ Len(outbox) <= OutboxDepth
  /\ rdPc \in {"idle", "check", "read", "post"} \cup WindDown
  /\ rpPc \in {"check", "wait", "reap", "post", "after", "exit", "shutdown",
               "dead"}
  /\ wrPc \in {"recv", "write", "exit", "shutdown", "dead"}
  /\ rdHand \subseteq Reply /\ rpHand \subseteq Reply
  /\ rpChord \in BOOLEAN /\ rpGone \in BOOLEAN
  /\ sent \subseteq Seqs /\ asked \subseteq Seqs
  /\ replied \in [Seqs -> Nat]
  /\ unlinkReply \in [Seqs -> {"none", "zero", "reset"}]

\* A submit is answered at most once, whichever of the two threads answers it
\* and whatever becomes of its URB (session.rs reader_loop and reaper_loop).
AnsweredAtMostOnce == \A s \in Seqs : replied[s] <= 1

\* Once the importer has been told -ECONNRESET for a submit, no RET_SUBMIT for
\* it is queued any more (session.rs:323-328, usbfs.rs unlink).
NoAnswerAfterReset ==
  [][\A s \in Seqs : unlinkReply[s] = "reset" => replied'[s] <= replied[s]]_vars

\* Every reply on its way belongs to the session it is sent in, although the
\* pending table may still hold URBs of an earlier session (session.rs:124-130).
RepliesAreOwn ==
  /\ \A i \in 1..Len(outbox) : outbox[i].sess = sess
  /\ \A m \in rdHand \cup rpHand : m.sess = sess

\* The threads of the session have begun to leave.
Ending ==
  \/ stop \/ rdPc \in WindDown \/ rdPc = "idle"
  \/ rpPc \in {"exit", "shutdown", "dead"} \/ wrPc \in {"exit", "shutdown", "dead"}

\* While a session runs, every submit it has read is in flight, in the hands of
\* a thread about to answer it, answered, or unlinked by the importer: none is
\* dropped between the threads (session.rs reader_loop, reaper_loop, post).
NoSubmitLost ==
  \A s \in sent :
    \/ pending[s] = "live"
    \/ replied[s] = 1
    \/ s \in asked
    \/ \E m \in rdHand \cup rpHand : Answers(m, s)
    \/ Ending

\* Between sessions no thread is left and no URB is left that a later reaper
\* would answer (session.rs:114-130).
QuietBetweenSessions ==
  rdPc = "idle" =>
    /\ rpPc = "dead" /\ wrPc = "dead"
    /\ \A s \in Seqs : pending[s] # "live"

\* The table and the kernel agree on which URBs exist, which is what lets reap
\* free an allocation and unlink trust one (usbfs.rs submit, unlink, reap).
TableMatchesKernel == \A s \in Seqs : pending[s] = "free" <=> kernel[s] = "idle"

\* A session ends. The stop flag ends it even if the importer has stopped reading
\* and the device never completes another URB (session.rs:114-122); an unplugged
\* device and the end of the process do if only the network takes what is
\* written (session.rs:147, 378-383, lib.rs drain).
SessionEnds ==
  /\ stop ~> (rdPc = "idle" \/ ~stop)
  /\ NetworkFairness => ((gone \/ shutting) ~> rdPc = "idle")

\* A URB that completed while its session runs is answered or unlinked, or the
\* session is ending (session.rs reaper_loop).
CompletionAnswered ==
  NetworkFairness =>
    \A s \in Seqs :
      (s \in sent /\ pending[s] = "live" /\ kernel[s] = "done")
        ~> (replied[s] = 1 \/ s \in asked \/ Ending)

\* The pump as its importer sees it.
Ledger ==
  INSTANCE UrbLedger WITH
    up <- rdPc # "idle",
    read <- sent,
    answered <- {s \in Seqs : replied[s] = 1},
    reset <- {s \in Seqs : unlinkReply[s] = "reset"}

\* Reader, reaper, writer, pending table and kernel together keep the promise of
\* UrbLedger: each of their steps is one of its steps, or none (session.rs run).
KeepsLedger == Ledger!Spec
=============================================================================
