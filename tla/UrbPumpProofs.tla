---------------------------- MODULE UrbPumpProofs ----------------------------
(***************************************************************************)
(* Proofs about UrbPump, for every set of seqnums, outbox depth, number of *)
(* sessions and choice of options: its invariants, and that it implements  *)
(* UrbLedger.                                                              *)
(***************************************************************************)
EXTENDS UrbPump, TLAPS

LEMMA QueueType ==
  ASSUME TypeOK, NEW m \in Reply, Queue(m)
  PROVE  /\ outbox' \in Seq(Reply) /\ Len(outbox') <= OutboxDepth
         /\ replied' \in [Seqs -> Nat]
         /\ unlinkReply' \in [Seqs -> {"none", "zero", "reset"}]
  <1>1. outbox \in Seq(Reply) /\ outbox' = Append(outbox, m) /\ Len(outbox) < OutboxDepth
    BY DEF TypeOK, Queue
  <1>2. outbox' \in Seq(Reply) /\ Len(outbox') <= OutboxDepth
    BY <1>1, OutboxAssumption
  <1>3. m.seq \in Seqs
    BY DEF Reply
  <1>4. replied' \in [Seqs -> Nat]
    BY <1>3 DEF TypeOK, Queue
  <1>5. unlinkReply' \in [Seqs -> {"none", "zero", "reset"}]
    BY <1>3 DEF TypeOK, Queue
  <1> QED
    BY <1>2, <1>4, <1>5

LEMMA InitType == Init => TypeOK
  <1> SUFFICES ASSUME Init PROVE TypeOK
    OBVIOUS
  <1> USE DEF Init
  <1>1. /\ gone \in BOOLEAN /\ suspended \in BOOLEAN /\ shutting \in BOOLEAN
        /\ stop \in BOOLEAN /\ shut \in BOOLEAN /\ closed \in BOOLEAN
        /\ rpChord \in BOOLEAN /\ rpGone \in BOOLEAN
    OBVIOUS
  <1>2. sess \in 0..MaxSessions /\ owner \in [Seqs -> 0..MaxSessions]
    BY SessionsAssumption
  <1>3. outbox \in Seq(Reply) /\ Len(outbox) <= OutboxDepth
    BY OutboxAssumption
  <1>4. /\ pending \in [Seqs -> {"free", "live", "unlinked"}]
        /\ kernel \in [Seqs -> {"idle", "flying", "done"}]
        /\ replied \in [Seqs -> Nat]
        /\ unlinkReply \in [Seqs -> {"none", "zero", "reset"}]
    OBVIOUS
  <1> QED
    BY <1>1, <1>2, <1>3, <1>4 DEF TypeOK

LEMMA EnvironmentType == TypeOK /\ Environment => TypeOK'
  <1> SUFFICES ASSUME TypeOK, Environment PROVE TypeOK'
    OBVIOUS
  <1> USE SessionsAssumption, OutboxAssumption
          DEF TypeOK, WindDown, device, toggle, socket, reader, reaper, inputs,
              history
  <1>1. ASSUME NEW s \in Seqs, KernelComplete(s) PROVE TypeOK'
    BY <1>1 DEF KernelComplete
  <1>2. CASE Unplug
    BY <1>2 DEF Unplug
  <1>3. CASE ClientClose
    BY <1>3 DEF ClientClose
  <1>4. CASE Terminate
    BY <1>4 DEF Terminate
  <1>5. CASE DrainSocket
    BY <1>5 DEF DrainSocket
  <1>6. CASE Resume
    <2>1. suspended' \in BOOLEAN
      BY <1>6 DEF Resume
    <2> QED
      BY <1>6, <2>1 DEF Resume
  <1>7. CASE StartSession
    <2>1. /\ gone' \in BOOLEAN /\ stop' \in BOOLEAN /\ shut' \in BOOLEAN
          /\ closed' \in BOOLEAN /\ rpChord' \in BOOLEAN /\ rpGone' \in BOOLEAN
      BY <1>7 DEF StartSession
    <2>2. sess' \in 0..MaxSessions
      BY <1>7 DEF StartSession
    <2>3. outbox' \in Seq(Reply) /\ Len(outbox') <= OutboxDepth
      BY <1>7 DEF StartSession
    <2>4. rdHand' \subseteq Reply /\ rpHand' \subseteq Reply
      BY <1>7 DEF StartSession
    <2> QED
      BY <1>7, <2>1, <2>2, <2>3, <2>4 DEF StartSession
  <1> QED
    BY <1>1, <1>2, <1>3, <1>4, <1>5, <1>6, <1>7 DEF Environment

LEMMA ReaderInputType == TypeOK /\ ReaderInput => TypeOK'
  <1> SUFFICES ASSUME TypeOK, NEW s \in Seqs,
                      \/ RdSubmitOk(s) \/ RdSubmitBusy(s) \/ RdSubmitRefused(s)
                      \/ RdSubmitFatal(s) \/ RdUnlink(s)
               PROVE  TypeOK'
    BY DEF ReaderInput
  <1> USE SessionsAssumption, OutboxAssumption
          DEF TypeOK, WindDown, toggle, socket, reaper, history
  <1>1. CASE RdSubmitOk(s)
    BY <1>1 DEF RdSubmitOk, Submit
  <1>2. CASE RdSubmitBusy(s)
    BY <1>2 DEF RdSubmitBusy, Submit, RetError, Reply
  <1>3. CASE RdSubmitRefused(s)
    BY <1>3 DEF RdSubmitRefused, Submit, RetError, Reply
  <1>4. CASE RdSubmitFatal(s)
    BY <1>4 DEF RdSubmitFatal, Submit
  <1>5. CASE RdUnlink(s)
    BY <1>5 DEF RdUnlink, RetUnlink, Reply
  <1> QED
    BY <1>1, <1>2, <1>3, <1>4, <1>5

LEMMA ReaderStepType == TypeOK /\ ReaderStep => TypeOK'
  <1> SUFFICES ASSUME TypeOK, ReaderStep PROVE TypeOK'
    OBVIOUS
  <1> USE SessionsAssumption, OutboxAssumption
          DEF TypeOK, WindDown, device, toggle, socket, reader, reaper, inputs,
              history
  <1>1. CASE RdCheck
    BY <1>1 DEF RdCheck
  <1>2. CASE RdReadEnd
    BY <1>2 DEF RdReadEnd
  <1>3. CASE RdPostOk
    <2> PICK m \in rdHand : Queue(m)
      BY <1>3 DEF RdPostOk
    <2> m \in Reply
      OBVIOUS
    <2> QED
      BY <1>3, QueueType DEF RdPostOk
  <1>4. CASE RdPostFails
    BY <1>4 DEF RdPostFails
  <1>5. CASE RdStop
    BY <1>5 DEF RdStop
  <1>6. CASE RdShutdown
    BY <1>6 DEF RdShutdown
  <1>7. CASE RdJoin
    BY <1>7 DEF RdJoin
  <1>8. CASE RdCancel
    BY <1>8 DEF RdCancel
  <1>9. ASSUME NEW s \in Seqs, RdDrain(s) PROVE TypeOK'
    BY <1>9 DEF RdDrain
  <1>10. CASE RdEnd
    BY <1>10 DEF RdEnd
  <1> QED
    BY <1>1, <1>2, <1>3, <1>4, <1>5, <1>6, <1>7, <1>8, <1>9, <1>10
       DEF ReaderStep

LEMMA ReaperStepType == TypeOK /\ ReaperStep => TypeOK'
  <1> SUFFICES ASSUME TypeOK, ReaperStep PROVE TypeOK'
    OBVIOUS
  <1> USE SessionsAssumption, OutboxAssumption
          DEF TypeOK, WindDown, device, toggle, socket, reader, inputs, history
  <1>1. CASE RpCheck
    BY <1>1 DEF RpCheck
  <1>2. CASE RpWait
    <2>1. rpGone' \in BOOLEAN /\ rpChord' \in BOOLEAN
      BY <1>2 DEF RpWait
    <2>2. rpPc' \in {"reap", "after"}
      BY <1>2 DEF RpWait
    <2>3. UNCHANGED <<device, toggle, sess, stop, socket, outbox, reader, rpHand,
                      wrPc, inputs, history>>
      BY <1>2 DEF RpWait
    <2> QED
      BY <2>1, <2>2, <2>3
  <1>3. CASE RpWaitFails
    BY <1>3 DEF RpWaitFails
  <1>4. ASSUME NEW s \in Seqs, RpReapUnlinked(s) PROVE TypeOK'
    BY <1>4 DEF RpReapUnlinked, Reap
  <1>5. ASSUME NEW s \in Seqs, RpReap(s) PROVE TypeOK'
    BY <1>5, OptionsAssumption DEF RpReap, Reap, RetSubmit, Reply
  <1>6. CASE RpReapNone
    BY <1>6 DEF RpReapNone
  <1>7. CASE RpReapFails
    BY <1>7 DEF RpReapFails
  <1>8. CASE RpPostOk
    <2> PICK m \in rpHand : Queue(m)
      BY <1>8 DEF RpPostOk
    <2> m \in Reply
      OBVIOUS
    <2> QED
      BY <1>8, QueueType DEF RpPostOk
  <1>9. CASE RpPostFails
    BY <1>9 DEF RpPostFails
  <1>10. CASE RpSuspend
    BY <1>10 DEF RpSuspend
  <1>11. CASE RpAfter
    BY <1>11 DEF RpAfter
  <1>12. CASE RpStop
    BY <1>12 DEF RpStop
  <1>13. CASE RpShutdown
    BY <1>13 DEF RpShutdown
  <1> QED
    BY <1>1, <1>2, <1>3, <1>4, <1>5, <1>6, <1>7, <1>8, <1>9, <1>10, <1>11,
       <1>12, <1>13 DEF ReaperStep

LEMMA WriterStepType == TypeOK /\ (WriterStep \/ WrWriteOk) => TypeOK'
  <1> SUFFICES ASSUME TypeOK, WriterStep \/ WrWriteOk PROVE TypeOK'
    OBVIOUS
  <1> USE SessionsAssumption, OutboxAssumption
          DEF TypeOK, WindDown, device, toggle, socket, reader, reaper, inputs,
              history
  <1>1. CASE WrTake
    <2>1. outbox' \in Seq(Reply) /\ Len(outbox') <= OutboxDepth
      BY <1>1 DEF WrTake
    <2> QED
      BY <1>1, <2>1 DEF WrTake
  <1>2. CASE WrClosed
    BY <1>2 DEF WrClosed
  <1>3. CASE WrWriteOk
    BY <1>3 DEF WrWriteOk
  <1>4. CASE WrWriteFails
    BY <1>4 DEF WrWriteFails
  <1>5. CASE WrStop
    BY <1>5 DEF WrStop
  <1>6. CASE WrShutdown
    BY <1>6 DEF WrShutdown
  <1> QED
    BY <1>1, <1>2, <1>3, <1>4, <1>5, <1>6 DEF WriterStep

LEMMA StutterType == TypeOK /\ UNCHANGED vars => TypeOK'
  BY DEF TypeOK, vars, device, toggle, socket, reader, reaper, inputs, history

\* Every variable of the pump keeps its type, and the outbox its bound, in
\* every session (session.rs, usbfs.rs).
THEOREM TypeCorrect == Spec => []TypeOK
  <1>1. TypeOK /\ [Next]_vars => TypeOK'
    BY EnvironmentType, ReaderInputType, ReaderStepType, ReaperStepType,
       WriterStepType, StutterType DEF Next, NoImporter
  <1> QED
    BY InitType, <1>1, PTL DEF Spec

-----------------------------------------------------------------------------
(* The inductive invariant.  A submit has at most one holder: the pending  *)
(* table (entry "live"), the reader's hand or the reaper's hand; whoever   *)
(* holds it, it has not been answered, and it was read in this session.    *)

Holds(hand, s) == \E m \in hand : Answers(m, s)

HandsMatchPcs ==
  /\ rdHand # {} => rdPc = "post"
  /\ rpHand # {} => rpPc = "post"
  /\ \A m, n \in rdHand : m = n
  /\ \A m, n \in rpHand : m = n
  /\ \A m \in rpHand : m.type = "ret_submit"

ThreadsJoined ==
  /\ rdPc \in {"cancel", "drain", "idle"} => rpPc = "dead" /\ wrPc = "dead"
  /\ rdPc \in {"drain", "idle"} => \A s \in Seqs : pending[s] # "live"

LiveUnanswered ==
  \A s \in Seqs : pending[s] = "live" =>
    /\ owner[s] = sess /\ s \in sent /\ replied[s] = 0
    /\ ~Holds(rdHand, s) /\ ~Holds(rpHand, s)

HeldUnanswered ==
  \A s \in Seqs :
    /\ Holds(rdHand, s) => s \in sent /\ replied[s] = 0 /\ ~Holds(rpHand, s)
    /\ Holds(rpHand, s) => s \in sent /\ replied[s] = 0 /\ pending[s] = "free"

UnreadUnanswered == \A s \in Seqs : s \notin sent => replied[s] = 0

HandsAreOwn == \A m \in rdHand \cup rpHand : m.sess = sess

OutboxIsOwn == \A i \in 1..Len(outbox) : outbox[i].sess = sess

\* Told, or about to be told, -ECONNRESET.
Reset(s) ==
  \/ unlinkReply[s] = "reset"
  \/ \E m \in rdHand : m.type = "ret_unlink" /\ m.caught /\ m.seq = s

ResetIsFinal ==
  \A s \in Seqs : Reset(s) =>
    s \in sent /\ pending[s] # "live" /\ ~Holds(rdHand, s) /\ ~Holds(rpHand, s)

Core ==
  /\ AnsweredAtMostOnce /\ HandsMatchPcs /\ ThreadsJoined /\ TableMatchesKernel
  /\ LiveUnanswered /\ HeldUnanswered /\ UnreadUnanswered /\ HandsAreOwn
  /\ ResetIsFinal

IInv == TypeOK /\ Core /\ OutboxIsOwn
LEMMA InitCore == Init => Core /\ OutboxIsOwn
  BY DEF Init, Core, AnsweredAtMostOnce, HandsMatchPcs, ThreadsJoined,
         TableMatchesKernel, LiveUnanswered, HeldUnanswered, UnreadUnanswered,
         HandsAreOwn, ResetIsFinal, Reset, Holds, OutboxIsOwn

\* What putting a reply into the outbox does to the two histories.
LEMMA QueueEffect ==
  ASSUME TypeOK, NEW m \in Reply, Queue(m)
  PROVE  /\ \A s \in Seqs : replied'[s] = IF Answers(m, s) THEN replied[s] + 1
                                                             ELSE replied[s]
         /\ \A s \in Seqs : unlinkReply'[s] = "reset" =>
              \/ unlinkReply[s] = "reset"
              \/ m.type = "ret_unlink" /\ m.caught /\ m.seq = s
         /\ outbox' = Append(outbox, m)
  <1>1. m.seq \in Seqs /\ m.type \in {"ret_submit", "ret_error", "ret_unlink"}
    BY DEF Reply
  <1>2. CASE m.type = "ret_unlink"
    BY <1>1, <1>2 DEF TypeOK, Queue, Answers
  <1>3. CASE m.type # "ret_unlink"
    BY <1>1, <1>3 DEF TypeOK, Queue, Answers
  <1> QED
    BY <1>2, <1>3

LEMMA QueueOfUnanswered ==
  ASSUME TypeOK, AnsweredAtMostOnce, UnreadUnanswered, sent' = sent,
         NEW m \in Reply, Queue(m),
         \A s \in Seqs : Answers(m, s) => replied[s] = 0 /\ s \in sent
  PROVE  AnsweredAtMostOnce' /\ UnreadUnanswered'
  <1>1. \A s \in Seqs : replied'[s] = IF Answers(m, s) THEN replied[s] + 1
                                                      ELSE replied[s]
    BY QueueEffect
  <1>2. ASSUME NEW s \in Seqs
        PROVE  replied'[s] <= 1 /\ (s \notin sent' => replied'[s] = 0)
    BY <1>1 DEF AnsweredAtMostOnce, UnreadUnanswered
  <1> QED
    BY <1>2 DEF AnsweredAtMostOnce, UnreadUnanswered

LEMMA EnvironmentCore == TypeOK /\ Core /\ Environment => Core'
  <1> SUFFICES ASSUME TypeOK, Core, Environment PROVE Core'
    OBVIOUS
  <1> USE DEF TypeOK, WindDown, Core, AnsweredAtMostOnce, HandsMatchPcs,
              ThreadsJoined, TableMatchesKernel, LiveUnanswered, HeldUnanswered,
              UnreadUnanswered, HandsAreOwn, ResetIsFinal, Reset, Holds, Answers,
              device, toggle, socket, reader, reaper, inputs, history
  <1>1. ASSUME NEW s \in Seqs, KernelComplete(s) PROVE Core'
    BY <1>1 DEF KernelComplete
  <1>2. CASE Unplug
    BY <1>2 DEF Unplug
  <1>3. CASE ClientClose
    BY <1>3 DEF ClientClose
  <1>4. CASE Terminate
    BY <1>4 DEF Terminate
  <1>5. CASE DrainSocket
    BY <1>5 DEF DrainSocket
  <1>6. CASE Resume
    BY <1>6 DEF Resume
  <1>7. CASE StartSession
    BY <1>7 DEF StartSession
  <1> QED
    BY <1>1, <1>2, <1>3, <1>4, <1>5, <1>6, <1>7 DEF Environment

LEMMA ReaderInputCore == TypeOK /\ Core /\ ReaderInput => Core'
  <1> SUFFICES ASSUME TypeOK, Core, ReaderInput PROVE Core'
    OBVIOUS
  <1> USE DEF TypeOK, WindDown, Core, AnsweredAtMostOnce, HandsMatchPcs,
              ThreadsJoined, TableMatchesKernel, LiveUnanswered, HeldUnanswered,
              UnreadUnanswered, HandsAreOwn, ResetIsFinal, Reset, Holds, Answers,
              device, toggle, socket, reader, reaper, inputs, history
  <1>1. ASSUME NEW s \in Seqs, RdSubmitOk(s) PROVE Core'
    BY <1>1 DEF RdSubmitOk, Submit
  <1>2. ASSUME NEW s \in Seqs, RdSubmitBusy(s) PROVE Core'
    BY <1>2 DEF RdSubmitBusy, Submit, RetError
  <1>3. ASSUME NEW s \in Seqs, RdSubmitRefused(s) PROVE Core'
    BY <1>3 DEF RdSubmitRefused, Submit, RetError
  <1>4. ASSUME NEW s \in Seqs, RdSubmitFatal(s) PROVE Core'
    BY <1>4 DEF RdSubmitFatal, Submit
  <1>5. ASSUME NEW s \in Seqs, RdUnlink(s) PROVE Core'
    <2> DEFINE caught == pending[s] # "free" /\ kernel[s] = "flying"
    <2>1. rdHand = {} /\ rdHand' = {RetUnlink(s, sess, caught)} /\ rdPc' = "post"
      BY <1>5 DEF RdUnlink
    <2>2. \A r \in Seqs : ~Holds(rdHand', r)
      BY <2>1 DEF RetUnlink
    <2>3. ResetIsFinal'
      <3> SUFFICES ASSUME NEW r \in Seqs, Reset(r)'
                   PROVE  /\ r \in sent' /\ pending'[r] # "live"
                          /\ ~Holds(rpHand', r)
        BY <2>2
      <3>1. CASE unlinkReply[r] = "reset"
        BY <1>5, <3>1 DEF RdUnlink
      <3>2. CASE unlinkReply[r] # "reset"
        <4>1. r = s /\ caught
          <5> DEFINE m == RetUnlink(s, sess, caught)
          <5>1. m.caught /\ m.seq = r
            BY <1>5, <2>1, <3>2 DEF RdUnlink
          <5>2. m.caught = caught /\ m.seq = s
            BY DEF RetUnlink
          <5> QED
            BY <5>1, <5>2
        <4> QED
          BY <1>5, <4>1 DEF RdUnlink
      <3> QED
        BY <3>1, <3>2
    <2>4. LiveUnanswered' /\ HeldUnanswered'
      BY <1>5, <2>2 DEF RdUnlink
    <2>5. AnsweredAtMostOnce' /\ UnreadUnanswered' /\ TableMatchesKernel'
      BY <1>5 DEF RdUnlink
    <2>6. HandsMatchPcs' /\ ThreadsJoined' /\ HandsAreOwn'
      BY <1>5, <2>1 DEF RdUnlink, RetUnlink
    <2> QED
      BY <2>3, <2>4, <2>5, <2>6
  <1> QED
    BY <1>1, <1>2, <1>3, <1>4, <1>5 DEF ReaderInput

LEMMA ReaderStepCore == TypeOK /\ Core /\ ReaderStep => Core'
  <1> SUFFICES ASSUME TypeOK, Core, ReaderStep PROVE Core'
    OBVIOUS
  <1> USE DEF TypeOK, WindDown, Core, AnsweredAtMostOnce, HandsMatchPcs,
              ThreadsJoined, TableMatchesKernel, LiveUnanswered, HeldUnanswered,
              UnreadUnanswered, HandsAreOwn, ResetIsFinal, Reset, Holds, Answers,
              device, toggle, socket, reader, reaper, inputs, history
  <1>1. CASE RdCheck
    BY <1>1 DEF RdCheck
  <1>2. CASE RdReadEnd
    BY <1>2 DEF RdReadEnd
  <1>3. CASE RdPostOk
    <2> PICK m \in rdHand : Queue(m)
      BY <1>3 DEF RdPostOk
    <2>1. m \in Reply /\ rdHand = {m}
      OBVIOUS
    <2> HIDE DEF Answers
    <2>2. \A s \in Seqs : Answers(m, s) => replied[s] = 0 /\ s \in sent
      BY <2>1
    <2>3. /\ \A s \in Seqs : replied'[s] = IF Answers(m, s) THEN replied[s] + 1
                                                              ELSE replied[s]
          /\ \A s \in Seqs : unlinkReply'[s] = "reset" => Reset(s)
      BY <2>1, QueueEffect
    <2>4. AnsweredAtMostOnce' /\ UnreadUnanswered'
      BY <1>3, <2>1, <2>2, QueueOfUnanswered DEF RdPostOk
    <2>5. LiveUnanswered' /\ HeldUnanswered'
      BY <1>3, <2>1, <2>3 DEF RdPostOk
    <2>6. ResetIsFinal'
      BY <1>3, <2>3 DEF RdPostOk
    <2>7. HandsMatchPcs' /\ ThreadsJoined' /\ TableMatchesKernel' /\ HandsAreOwn'
      BY <1>3 DEF RdPostOk
    <2> QED
      BY <2>4, <2>5, <2>6, <2>7
  <1>4. CASE RdPostFails
    BY <1>4 DEF RdPostFails, PostFails
  <1>5. CASE RdStop
    BY <1>5 DEF RdStop
  <1>6. CASE RdShutdown
    BY <1>6 DEF RdShutdown
  <1>7. CASE RdJoin
    BY <1>7 DEF RdJoin
  <1>8. CASE RdCancel
    BY <1>8 DEF RdCancel
  <1>9. ASSUME NEW s \in Seqs, RdDrain(s) PROVE Core'
    BY <1>9 DEF RdDrain
  <1>10. CASE RdEnd
    BY <1>10 DEF RdEnd
  <1> QED
    BY <1>1, <1>2, <1>3, <1>4, <1>5, <1>6, <1>7, <1>8, <1>9, <1>10 DEF ReaderStep

LEMMA ReaperStepCore == TypeOK /\ Core /\ ReaperStep => Core'
  <1> SUFFICES ASSUME TypeOK, Core, ReaperStep PROVE Core'
    OBVIOUS
  <1> USE DEF TypeOK, WindDown, Core, AnsweredAtMostOnce, HandsMatchPcs,
              ThreadsJoined, TableMatchesKernel, LiveUnanswered, HeldUnanswered,
              UnreadUnanswered, HandsAreOwn, ResetIsFinal, Reset, Holds, Answers,
              device, toggle, socket, reader, reaper, inputs, history
  <1>1. CASE RpCheck
    BY <1>1 DEF RpCheck
  <1>2. CASE RpWait
    BY <1>2 DEF RpWait
  <1>3. CASE RpWaitFails
    BY <1>3 DEF RpWaitFails
  <1>4. ASSUME NEW s \in Seqs, RpReapUnlinked(s) PROVE Core'
    BY <1>4 DEF RpReapUnlinked, Reap
  <1>5. ASSUME NEW s \in Seqs, RpReap(s) PROVE Core'
    BY <1>5 DEF RpReap, Reap, RetSubmit
  <1>6. CASE RpReapNone
    BY <1>6 DEF RpReapNone
  <1>7. CASE RpReapFails
    BY <1>7 DEF RpReapFails
  <1>8. CASE RpPostOk
    <2> PICK m \in rpHand : Queue(m)
      BY <1>8 DEF RpPostOk
    <2>1. m \in Reply /\ rpHand = {m}
      OBVIOUS
    <2> HIDE DEF Answers
    <2>2. \A s \in Seqs : Answers(m, s) => replied[s] = 0 /\ s \in sent
      BY <2>1
    <2>3. /\ \A s \in Seqs : replied'[s] = IF Answers(m, s) THEN replied[s] + 1
                                                              ELSE replied[s]
          /\ \A s \in Seqs : unlinkReply'[s] = "reset" =>
               \/ unlinkReply[s] = "reset"
               \/ m.type = "ret_unlink"
      BY <2>1, QueueEffect
    <2>4. AnsweredAtMostOnce' /\ UnreadUnanswered'
      BY <1>8, <2>1, <2>2, QueueOfUnanswered DEF RpPostOk
    <2>5. LiveUnanswered' /\ HeldUnanswered'
      BY <1>8, <2>1, <2>3 DEF RpPostOk
    <2>6. ResetIsFinal'
      BY <1>8, <2>1, <2>3 DEF RpPostOk
    <2>7. HandsMatchPcs' /\ ThreadsJoined' /\ TableMatchesKernel' /\ HandsAreOwn'
      BY <1>8 DEF RpPostOk
    <2> QED
      BY <2>4, <2>5, <2>6, <2>7
  <1>9. CASE RpPostFails
    BY <1>9 DEF RpPostFails, PostFails
  <1>10. CASE RpSuspend
    BY <1>10 DEF RpSuspend
  <1>11. CASE RpAfter
    BY <1>11 DEF RpAfter
  <1>12. CASE RpStop
    BY <1>12 DEF RpStop
  <1>13. CASE RpShutdown
    BY <1>13 DEF RpShutdown
  <1> QED
    BY <1>1, <1>2, <1>3, <1>4, <1>5, <1>6, <1>7, <1>8, <1>9, <1>10, <1>11, <1>12, <1>13 DEF ReaperStep

LEMMA WriterStepCore == TypeOK /\ Core /\ WriterStep => Core'
  <1> SUFFICES ASSUME TypeOK, Core, WriterStep PROVE Core'
    OBVIOUS
  <1> USE DEF TypeOK, WindDown, Core, AnsweredAtMostOnce, HandsMatchPcs,
              ThreadsJoined, TableMatchesKernel, LiveUnanswered, HeldUnanswered,
              UnreadUnanswered, HandsAreOwn, ResetIsFinal, Reset, Holds, Answers,
              device, toggle, socket, reader, reaper, inputs, history
  <1>1. CASE WrTake
    BY <1>1 DEF WrTake
  <1>2. CASE WrClosed
    BY <1>2 DEF WrClosed
  <1>3. CASE WrWriteFails
    BY <1>3 DEF WrWriteFails
  <1>4. CASE WrStop
    BY <1>4 DEF WrStop
  <1>5. CASE WrShutdown
    BY <1>5 DEF WrShutdown
  <1> QED
    BY <1>1, <1>2, <1>3, <1>4, <1>5 DEF WriterStep

LEMMA WrWriteOkCore == TypeOK /\ Core /\ WrWriteOk => Core'
  BY DEF TypeOK, Core, AnsweredAtMostOnce, HandsMatchPcs, ThreadsJoined,
         TableMatchesKernel, LiveUnanswered, HeldUnanswered, UnreadUnanswered,
         HandsAreOwn, ResetIsFinal, Reset, Holds, WrWriteOk, device, toggle,
         socket, reader, reaper, inputs, history

LEMMA StutterCore == Core /\ UNCHANGED vars => Core'
  BY DEF Core, AnsweredAtMostOnce, HandsMatchPcs, ThreadsJoined,
         TableMatchesKernel, LiveUnanswered, HeldUnanswered, UnreadUnanswered,
         HandsAreOwn, ResetIsFinal, Reset, Holds, vars, device, toggle,
         socket, reader, reaper, inputs, history

LEMMA NextCore == TypeOK /\ Core /\ [Next]_vars => Core'
  BY EnvironmentCore, ReaderInputCore, ReaderStepCore, ReaperStepCore,
     WriterStepCore, WrWriteOkCore, StutterCore DEF Next, NoImporter

\* What a step may do to the outbox: nothing, while the session stays the same;
\* empty it; take its head; or append a reply some thread has in hand.
OutboxStep ==
  \/ outbox' = outbox /\ sess' = sess
  \/ outbox' = <<>>
  \/ outbox # <<>> /\ outbox' = Tail(outbox) /\ sess' = sess
  \/ \E m \in rdHand \cup rpHand : outbox' = Append(outbox, m) /\ sess' = sess

LEMMA NextOutbox == [Next]_vars => OutboxStep
  <1> SUFFICES ASSUME [Next]_vars PROVE OutboxStep
    OBVIOUS
  <1> USE DEF OutboxStep
  <1>1. CASE Environment
    BY <1>1 DEF Environment, KernelComplete, Unplug, ClientClose, Terminate,
                DrainSocket, Resume, StartSession
  <1>2. CASE ReaderInput
    BY <1>2 DEF ReaderInput, RdSubmitOk, RdSubmitBusy, RdSubmitRefused,
                RdSubmitFatal, RdUnlink, Submit
  <1>3. CASE ReaderStep
    BY <1>3 DEF ReaderStep, RdCheck, RdReadEnd, RdPostOk, RdPostFails, RdStop,
                RdShutdown, RdJoin, RdCancel, RdDrain, RdEnd, Queue
  <1>4. CASE ReaperStep
    BY <1>4 DEF ReaperStep, RpCheck, RpWait, RpWaitFails, RpReapUnlinked, RpReap,
                Reap, RpReapNone, RpReapFails, RpPostOk, RpPostFails, RpSuspend,
                RpAfter, RpStop, RpShutdown, Queue
  <1>5. CASE WriterStep \/ WrWriteOk
    BY <1>5 DEF WriterStep, WrTake, WrClosed, WrWriteOk, WrWriteFails, WrStop,
                WrShutdown
  <1>6. CASE NoImporter \/ UNCHANGED vars
    BY <1>6 DEF NoImporter, vars
  <1> QED
    BY <1>1, <1>2, <1>3, <1>4, <1>5, <1>6 DEF Next

LEMMA NextOutboxIsOwn ==
  TypeOK /\ Core /\ OutboxIsOwn /\ [Next]_vars => OutboxIsOwn'
  <1> SUFFICES ASSUME TypeOK, Core, OutboxIsOwn, [Next]_vars PROVE OutboxIsOwn'
    OBVIOUS
  <1>0. outbox \in Seq(Reply) /\ OutboxStep
    BY NextOutbox DEF TypeOK
  <1>1. CASE outbox' = outbox /\ sess' = sess
    BY <1>1 DEF OutboxIsOwn
  <1>2. CASE outbox' = <<>>
    BY <1>2 DEF OutboxIsOwn
  <1>3. CASE outbox # <<>> /\ outbox' = Tail(outbox) /\ sess' = sess
    <2>1. /\ Len(outbox') = Len(outbox) - 1
          /\ \A i \in 1..Len(outbox') : outbox'[i] = outbox[i + 1]
      BY <1>0, <1>3
    <2> QED
      BY <1>0, <1>3, <2>1 DEF OutboxIsOwn
  <1>4. ASSUME NEW m \in rdHand \cup rpHand,
               outbox' = Append(outbox, m), sess' = sess
        PROVE  OutboxIsOwn'
    <2>1. m \in Reply /\ m.sess = sess
      BY DEF TypeOK, Core, HandsAreOwn
    <2>2. /\ Len(outbox') = Len(outbox) + 1
          /\ outbox'[Len(outbox) + 1] = m
          /\ \A i \in 1..Len(outbox) : outbox'[i] = outbox[i]
      BY <1>0, <1>4, <2>1
    <2> QED
      BY <1>0, <1>4, <2>1, <2>2 DEF OutboxIsOwn
  <1> QED
    BY <1>0, <1>1, <1>2, <1>3, <1>4 DEF OutboxStep

LEMMA InvariantHolds == Spec => []IInv
  <1>1. Init => IInv
    BY InitType, InitCore DEF IInv
  <1>2. TypeOK /\ [Next]_vars => TypeOK'
    BY EnvironmentType, ReaderInputType, ReaderStepType, ReaperStepType,
       WriterStepType, StutterType DEF Next, NoImporter
  <1>3. IInv /\ [Next]_vars => IInv'
    BY <1>2, NextCore, NextOutboxIsOwn DEF IInv
  <1> QED
    BY <1>1, <1>3, PTL DEF Spec

\* No submit is answered twice, in any session and whatever the interleaving
\* of reader, reaper, writer and kernel (session.rs, usbfs.rs).
THEOREM AnsweredOnce == Spec => []AnsweredAtMostOnce
  <1>1. IInv => AnsweredAtMostOnce
    BY DEF IInv, Core
  <1> QED
    BY <1>1, InvariantHolds, PTL

\* No reply carries the seqnum of another session's submit, although the
\* pending table outlives the session (session.rs:124-130).
THEOREM OwnReplies == Spec => []RepliesAreOwn
  <1>1. IInv => RepliesAreOwn
    BY DEF IInv, Core, HandsAreOwn, OutboxIsOwn, RepliesAreOwn
  <1> QED
    BY <1>1, InvariantHolds, PTL

\* When session::run returns no thread and no answerable URB is left behind
\* (session.rs:114-130).
THEOREM QuietAtEnd == Spec => []QuietBetweenSessions
  <1>1. IInv => QuietBetweenSessions
    BY DEF IInv, Core, ThreadsJoined, QuietBetweenSessions
  <1> QED
    BY <1>1, InvariantHolds, PTL

\* The pending table names exactly the URBs the kernel holds (usbfs.rs submit,
\* unlink, reap and cancel_pending).
THEOREM TableIsExact == Spec => []TableMatchesKernel
  <1>1. IInv => TableMatchesKernel
    BY DEF IInv, Core
  <1> QED
    BY <1>1, InvariantHolds, PTL
-----------------------------------------------------------------------------
(* What a step may do to the history of answers: nothing, start afresh, or *)
(* count the reply some thread has in hand.                                *)

RepliedStep ==
  \/ replied' = replied
  \/ replied' = [s \in Seqs |-> 0]
  \/ \E m \in rdHand \cup rpHand : Queue(m)

LEMMA NextReplied == [Next]_vars => RepliedStep
  <1> SUFFICES ASSUME [Next]_vars PROVE RepliedStep
    OBVIOUS
  <1> USE DEF RepliedStep, history
  <1>1. CASE Environment
    BY <1>1 DEF Environment, KernelComplete, Unplug, ClientClose, Terminate,
                DrainSocket, Resume, StartSession
  <1>2. CASE ReaderInput
    BY <1>2 DEF ReaderInput, RdSubmitOk, RdSubmitBusy, RdSubmitRefused,
                RdSubmitFatal, RdUnlink, Submit
  <1>3. CASE ReaderStep
    BY <1>3 DEF ReaderStep, RdCheck, RdReadEnd, RdPostOk, RdPostFails, RdStop,
                RdShutdown, RdJoin, RdCancel, RdDrain, RdEnd
  <1>4. CASE ReaperStep
    BY <1>4 DEF ReaperStep, RpCheck, RpWait, RpWaitFails, RpReapUnlinked, RpReap,
                Reap, RpReapNone, RpReapFails, RpPostOk, RpPostFails, RpSuspend,
                RpAfter, RpStop, RpShutdown
  <1>5. CASE WriterStep \/ WrWriteOk
    BY <1>5 DEF WriterStep, WrTake, WrClosed, WrWriteOk, WrWriteFails, WrStop,
                WrShutdown
  <1>6. CASE NoImporter \/ UNCHANGED vars
    BY <1>6 DEF NoImporter, vars
  <1> QED
    BY <1>1, <1>2, <1>3, <1>4, <1>5, <1>6 DEF Next

\* A submit the importer was told is cancelled is never answered afterwards
\* (session.rs:323-328, usbfs.rs unlink).
THEOREM ResetSilences == Spec => NoAnswerAfterReset
  <1>1. IInv /\ [Next]_vars =>
          [\A s \in Seqs : unlinkReply[s] = "reset" => replied'[s] <= replied[s]]_vars
    <2> SUFFICES ASSUME IInv, [Next]_vars, NEW s \in Seqs, unlinkReply[s] = "reset"
                 PROVE  replied'[s] <= replied[s]
      OBVIOUS
    <2>0. /\ TypeOK /\ replied[s] \in Nat /\ RepliedStep
          /\ ~Holds(rdHand, s) /\ ~Holds(rpHand, s)
      BY NextReplied DEF IInv, TypeOK, Core, ResetIsFinal, Reset
    <2>1. ASSUME NEW m \in rdHand \cup rpHand, Queue(m)
          PROVE  replied'[s] = replied[s]
      <3>1. m \in Reply /\ ~Answers(m, s)
        BY <2>0 DEF TypeOK, Holds
      <3> QED
        BY <2>0, <2>1, <3>1, QueueEffect
    <2> QED
      BY <2>0, <2>1 DEF RepliedStep
  <1> QED
    BY <1>1, InvariantHolds, PTL DEF Spec, NoAnswerAfterReset
-----------------------------------------------------------------------------
(* No submit is lost: whatever takes a submit away from one holder gives it *)
(* to another, or the session is ending, and an ending session ends.       *)

LEMMA EndingStays == Ending /\ [Next]_vars => Ending' \/ sent' = {}
  <1> SUFFICES ASSUME Ending, [Next]_vars PROVE Ending' \/ sent' = {}
    OBVIOUS
  <1> USE DEF Ending, WindDown, device, toggle, socket, reader, reaper, inputs,
              history
  <1>1. CASE Environment
    BY <1>1 DEF Environment, KernelComplete, Unplug, ClientClose, Terminate,
                DrainSocket, Resume, StartSession
  <1>2. CASE ReaderInput
    BY <1>2 DEF ReaderInput, RdSubmitOk, RdSubmitBusy, RdSubmitRefused,
                RdSubmitFatal, RdUnlink, Submit
  <1>3. CASE ReaderStep
    BY <1>3 DEF ReaderStep, RdCheck, RdReadEnd, RdPostOk, RdPostFails, RdStop,
                RdShutdown, RdJoin, RdCancel, RdDrain, RdEnd
  <1>4. CASE ReaperStep
    BY <1>4 DEF ReaperStep, RpCheck, RpWait, RpWaitFails, RpReapUnlinked, RpReap,
                Reap, RpReapNone, RpReapFails, RpPostOk, RpPostFails, RpSuspend,
                RpAfter, RpStop, RpShutdown
  <1>5. CASE WriterStep \/ WrWriteOk
    BY <1>5 DEF WriterStep, WrTake, WrClosed, WrWriteOk, WrWriteFails, WrStop,
                WrShutdown
  <1>6. CASE NoImporter \/ UNCHANGED vars
    BY <1>6 DEF NoImporter, vars
  <1> QED
    BY <1>1, <1>2, <1>3, <1>4, <1>5, <1>6 DEF Next

\* A submit that has been read is accounted for, or the session is ending.
Accounted(s) ==
  \/ pending[s] = "live" \/ replied[s] = 1 \/ s \in asked
  \/ Holds(rdHand, s) \/ Holds(rpHand, s)

LEMMA EnvironmentAccounts ==
  ASSUME TypeOK, Core, ~Ending, \A s \in sent : Accounted(s), Environment
  PROVE  \A s \in sent' : Accounted(s)' \/ Ending'
  <1> USE DEF TypeOK, Core, HandsMatchPcs, ThreadsJoined, HeldUnanswered,
              Accounted, Ending, WindDown, device, toggle, socket, reader,
              reaper, inputs, history
  <1>1. ASSUME NEW r \in Seqs, KernelComplete(r)
        PROVE  \A s \in sent' : Accounted(s)' \/ Ending'
    BY <1>1 DEF KernelComplete
  <1>2. CASE Unplug
    BY <1>2 DEF Unplug, Holds
  <1>3. CASE ClientClose
    BY <1>3 DEF ClientClose, Holds
  <1>4. CASE Terminate
    BY <1>4 DEF Terminate, Holds
  <1>5. CASE DrainSocket
    BY <1>5 DEF DrainSocket, Holds
  <1>6. CASE Resume
    BY <1>6 DEF Resume, Holds
  <1>7. CASE StartSession
    BY <1>7 DEF StartSession, Holds
  <1> QED
    BY <1>1, <1>2, <1>3, <1>4, <1>5, <1>6, <1>7 DEF Environment

LEMMA ReaderInputAccounts ==
  ASSUME TypeOK, Core, ~Ending, \A s \in sent : Accounted(s), ReaderInput
  PROVE  \A s \in sent' : Accounted(s)' \/ Ending'
  <1> USE DEF TypeOK, Core, HandsMatchPcs, ThreadsJoined, HeldUnanswered,
              Accounted, Ending, WindDown, device, toggle, socket, reader,
              reaper, inputs, history
  <1>1. ASSUME NEW r \in Seqs, RdSubmitOk(r)
        PROVE  \A s \in sent' : Accounted(s)' \/ Ending'
    BY <1>1 DEF RdSubmitOk, Submit
  <1>2. ASSUME NEW r \in Seqs, RdSubmitBusy(r)
        PROVE  \A s \in sent' : Accounted(s)' \/ Ending'
    BY <1>2 DEF RdSubmitBusy, Submit, RetError, Holds, Answers
  <1>3. ASSUME NEW r \in Seqs, RdSubmitRefused(r)
        PROVE  \A s \in sent' : Accounted(s)' \/ Ending'
    BY <1>3 DEF RdSubmitRefused, Submit, RetError, Holds, Answers
  <1>4. ASSUME NEW r \in Seqs, RdSubmitFatal(r)
        PROVE  \A s \in sent' : Accounted(s)' \/ Ending'
    BY <1>4 DEF RdSubmitFatal, Submit
  <1>5. ASSUME NEW r \in Seqs, RdUnlink(r)
        PROVE  \A s \in sent' : Accounted(s)' \/ Ending'
    BY <1>5 DEF RdUnlink, Holds
  <1> QED
    BY <1>1, <1>2, <1>3, <1>4, <1>5 DEF ReaderInput

LEMMA ReaderStepAccounts ==
  ASSUME TypeOK, Core, ~Ending, \A s \in sent : Accounted(s), ReaderStep
  PROVE  \A s \in sent' : Accounted(s)' \/ Ending'
  <1> USE DEF TypeOK, Core, HandsMatchPcs, ThreadsJoined, HeldUnanswered,
              Accounted, Ending, WindDown, device, toggle, socket, reader,
              reaper, inputs, history
  <1>1. CASE RdCheck
    BY <1>1 DEF RdCheck, Holds
  <1>2. CASE RdReadEnd
    BY <1>2 DEF RdReadEnd, Holds
  <1>3. CASE RdPostOk
    <2> PICK m \in rdHand : Queue(m)
      BY <1>3 DEF RdPostOk
    <2>1. m \in Reply /\ rdHand = {m}
      OBVIOUS
    <2>2. \A s \in Seqs : replied'[s] = IF Answers(m, s) THEN replied[s] + 1
                                                         ELSE replied[s]
      BY <2>1, QueueEffect
    <2>3. \A s \in Seqs : Holds(rdHand, s) => Answers(m, s) /\ replied'[s] = 1
      BY <2>1, <2>2 DEF Holds
    <2>4. \A s \in Seqs : replied[s] = 1 => replied'[s] = 1
      BY <2>1, <2>2 DEF Holds
    <2> QED
      BY <1>3, <2>3, <2>4 DEF RdPostOk, Holds
  <1>4. CASE RdPostFails
    BY <1>4 DEF RdPostFails, Holds
  <1>5. CASE RdStop
    BY <1>5 DEF RdStop, Holds
  <1>6. CASE RdShutdown
    BY <1>6 DEF RdShutdown, Holds
  <1>7. CASE RdJoin
    BY <1>7 DEF RdJoin, Holds
  <1>8. CASE RdCancel
    BY <1>8 DEF RdCancel, Holds
  <1>9. ASSUME NEW r \in Seqs, RdDrain(r)
        PROVE  \A s \in sent' : Accounted(s)' \/ Ending'
    BY <1>9 DEF RdDrain
  <1>10. CASE RdEnd
    BY <1>10 DEF RdEnd, Holds
  <1> QED
    BY <1>1, <1>2, <1>3, <1>4, <1>5, <1>6, <1>7, <1>8, <1>9, <1>10 DEF ReaderStep

LEMMA ReaperStepAccounts ==
  ASSUME TypeOK, Core, ~Ending, \A s \in sent : Accounted(s), ReaperStep
  PROVE  \A s \in sent' : Accounted(s)' \/ Ending'
  <1> USE DEF TypeOK, Core, HandsMatchPcs, ThreadsJoined, HeldUnanswered,
              Accounted, Ending, WindDown, device, toggle, socket, reader,
              reaper, inputs, history
  <1>1. CASE RpCheck
    BY <1>1 DEF RpCheck, Holds
  <1>2. CASE RpWait
    BY <1>2 DEF RpWait, Holds
  <1>3. CASE RpWaitFails
    BY <1>3 DEF RpWaitFails, Holds
  <1>4. ASSUME NEW r \in Seqs, RpReapUnlinked(r)
        PROVE  \A s \in sent' : Accounted(s)' \/ Ending'
    BY <1>4 DEF RpReapUnlinked, Reap
  <1>5. ASSUME NEW r \in Seqs, RpReap(r)
        PROVE  \A s \in sent' : Accounted(s)' \/ Ending'
    <2> DEFINE m == RetSubmit(r, owner[r])
    <2>1. rpHand' = {m} /\ Answers(m, r)
      BY <1>5 DEF RpReap, RetSubmit, Answers
    <2>2. Holds(rpHand, r)'
      BY <2>1 DEF Holds, Answers
    <2>3. rpHand = {} /\ \A s \in Seqs : ~Holds(rpHand, s)
      BY <1>5 DEF RpReap, Reap, Holds
    <2>4. \A s \in sent \ {r} : Accounted(s)'
      BY <1>5, <2>3 DEF RpReap, Reap, Holds
    <2> QED
      BY <1>5, <2>2, <2>4 DEF RpReap, Reap
  <1>6. CASE RpReapNone
    BY <1>6 DEF RpReapNone, Holds
  <1>7. CASE RpReapFails
    BY <1>7 DEF RpReapFails, Holds
  <1>8. CASE RpPostOk
    <2> PICK m \in rpHand : Queue(m)
      BY <1>8 DEF RpPostOk
    <2>1. m \in Reply /\ rpHand = {m}
      OBVIOUS
    <2>2. \A s \in Seqs : replied'[s] = IF Answers(m, s) THEN replied[s] + 1
                                                         ELSE replied[s]
      BY <2>1, QueueEffect
    <2>3. \A s \in Seqs : Holds(rpHand, s) => Answers(m, s) /\ replied'[s] = 1
      BY <2>1, <2>2 DEF Holds
    <2>4. \A s \in Seqs : replied[s] = 1 => replied'[s] = 1
      BY <2>1, <2>2 DEF Holds
    <2> QED
      BY <1>8, <2>3, <2>4 DEF RpPostOk, Holds
  <1>9. CASE RpPostFails
    BY <1>9 DEF RpPostFails, Holds
  <1>10. CASE RpSuspend
    BY <1>10 DEF RpSuspend, Holds
  <1>11. CASE RpAfter
    BY <1>11 DEF RpAfter, Holds
  <1>12. CASE RpStop
    BY <1>12 DEF RpStop, Holds
  <1>13. CASE RpShutdown
    BY <1>13 DEF RpShutdown, Holds
  <1> QED
    BY <1>1, <1>2, <1>3, <1>4, <1>5, <1>6, <1>7, <1>8, <1>9, <1>10, <1>11, <1>12, <1>13 DEF ReaperStep

LEMMA WriterStepAccounts ==
  ASSUME TypeOK, Core, ~Ending, \A s \in sent : Accounted(s), WriterStep
  PROVE  \A s \in sent' : Accounted(s)' \/ Ending'
  <1> USE DEF TypeOK, Core, HandsMatchPcs, ThreadsJoined, HeldUnanswered,
              Accounted, Ending, WindDown, device, toggle, socket, reader,
              reaper, inputs, history
  <1>1. CASE WrTake
    BY <1>1 DEF WrTake, Holds
  <1>2. CASE WrClosed
    BY <1>2 DEF WrClosed, Holds
  <1>3. CASE WrWriteFails
    BY <1>3 DEF WrWriteFails, Holds
  <1>4. CASE WrStop
    BY <1>4 DEF WrStop, Holds
  <1>5. CASE WrShutdown
    BY <1>5 DEF WrShutdown, Holds
  <1> QED
    BY <1>1, <1>2, <1>3, <1>4, <1>5 DEF WriterStep

LEMMA NextNoSubmitLost ==
  TypeOK /\ Core /\ NoSubmitLost /\ [Next]_vars => NoSubmitLost'
  <1> SUFFICES ASSUME TypeOK, Core, NoSubmitLost, [Next]_vars PROVE NoSubmitLost'
    OBVIOUS
  <1>0. SUFFICES \A s \in sent' : Accounted(s)' \/ Ending'
    BY DEF NoSubmitLost, Accounted, Holds
  <1>1. CASE Ending
    BY <1>1, EndingStays
  <1>2. CASE ~Ending
    <2>1. \A s \in sent : Accounted(s)
      BY <1>2 DEF NoSubmitLost, Accounted, Holds
    <2>2. CASE WrWriteOk \/ NoImporter \/ UNCHANGED vars
      BY <2>1, <2>2 DEF WrWriteOk, NoImporter, vars, Accounted, Holds, Ending,
         device, toggle, socket, reader, reaper, inputs, history
    <2> QED
      BY <1>2, <2>1, <2>2, EnvironmentAccounts, ReaderInputAccounts,
         ReaderStepAccounts, ReaperStepAccounts, WriterStepAccounts DEF Next
  <1> QED
    BY <1>1, <1>2

\* While a session runs no submit falls between its threads (session.rs).
THEOREM NothingLost == Spec => []NoSubmitLost
  <1>1. Init => NoSubmitLost
    BY DEF Init, NoSubmitLost
  <1>2. IInv /\ NoSubmitLost /\ [Next]_vars => NoSubmitLost'
    BY NextNoSubmitLost DEF IInv
  <1> QED
    BY <1>1, <1>2, InvariantHolds, PTL DEF Spec

-----------------------------------------------------------------------------
(* The refinement: UrbPump implements UrbLedger.                           *)

Answered == {s \in Seqs : replied[s] = 1}
WasReset == {s \in Seqs : unlinkReply[s] = "reset"}

-----------------------------------------------------------------------------
(* What the invariant of UrbPumpProofs does not say: an unlink is answered *)
(* once.  Without it a second answer could take a reset back.              *)

UnlinkedOnce ==
  /\ \A s \in Seqs : unlinkReply[s] # "none" => s \in asked
  /\ \A m \in rdHand : m.type = "ret_unlink" =>
       m.seq \in asked /\ unlinkReply[m.seq] = "none"

LEMMA InitUnlinkedOnce == Init => UnlinkedOnce
  BY DEF Init, UnlinkedOnce

\* An answer to an unlink only comes out of the reader's hand.
LEMMA QueueUnlinkReply ==
  ASSUME TypeOK, NEW m \in Reply, Queue(m)
  PROVE  /\ m.type # "ret_unlink" => unlinkReply' = unlinkReply
         /\ m.type = "ret_unlink" =>
              /\ unlinkReply' = [unlinkReply EXCEPT ![m.seq] =
                                   IF m.caught THEN "reset" ELSE "zero"]
              /\ replied' = replied
         /\ m.type # "ret_unlink" => replied' = [replied EXCEPT ![m.seq] = @ + 1]
         /\ m.seq \in Seqs
  BY DEF Queue, Reply

LEMMA NextUnlinkedOnce == IInv /\ UnlinkedOnce /\ [Next]_vars => UnlinkedOnce'
  <1> SUFFICES ASSUME IInv, UnlinkedOnce, [Next]_vars PROVE UnlinkedOnce'
    OBVIOUS
  <1>0. TypeOK /\ HandsMatchPcs
    BY DEF IInv, Core
  <1> USE DEF UnlinkedOnce, device, toggle, socket, reader, reaper, inputs, history
  <1>1. CASE Environment
    BY <1>1 DEF Environment, KernelComplete, Unplug, ClientClose, Terminate,
                DrainSocket, Resume, StartSession
  <1>2. CASE ReaderInput
    <2>1. ASSUME NEW s \in Seqs, RdUnlink(s) PROVE UnlinkedOnce'
      BY <2>1 DEF RdUnlink, RetUnlink
    <2>2. ASSUME NEW s \in Seqs,
                 RdSubmitOk(s) \/ RdSubmitBusy(s) \/ RdSubmitRefused(s) \/ RdSubmitFatal(s)
          PROVE  UnlinkedOnce'
      BY <2>2 DEF RdSubmitOk, RdSubmitBusy, RdSubmitRefused, RdSubmitFatal, Submit, RetError
    <2> QED
      BY <1>2, <2>1, <2>2 DEF ReaderInput
  <1>3. CASE RdPostOk
    <2> PICK m \in rdHand : Queue(m)
      BY <1>3 DEF RdPostOk
    <2>1. m \in Reply /\ rdHand' = {} /\ asked' = asked
      BY <1>0, <1>3 DEF TypeOK, RdPostOk
    <2>2. \A s \in Seqs : unlinkReply'[s] # "none" =>
            unlinkReply[s] # "none" \/ (m.type = "ret_unlink" /\ m.seq = s)
      BY <1>0, <2>1, QueueUnlinkReply DEF TypeOK
    <2> QED
      BY <2>1, <2>2
  <1>4. CASE RpPostOk
    <2> PICK m \in rpHand : Queue(m)
      BY <1>4 DEF RpPostOk
    <2>1. m \in Reply /\ m.type = "ret_submit"
      BY <1>0 DEF TypeOK, HandsMatchPcs
    <2>2. unlinkReply' = unlinkReply
      BY <1>0, <2>1, QueueUnlinkReply
    <2> QED
      BY <1>4, <2>2 DEF RpPostOk
  <1>5. CASE ReaderStep /\ ~RdPostOk
    BY <1>5 DEF ReaderStep, RdCheck, RdReadEnd, RdPostFails, RdStop,
                RdShutdown, RdJoin, RdCancel, RdDrain, RdEnd
  <1>6. CASE ReaperStep /\ ~RpPostOk
    BY <1>6 DEF ReaperStep, RpCheck, RpWait, RpWaitFails, RpReapUnlinked, RpReap,
                Reap, RpReapNone, RpReapFails, RpPostFails, RpSuspend,
                RpAfter, RpStop, RpShutdown
  <1>7. CASE WriterStep \/ WrWriteOk
    BY <1>7 DEF WriterStep, WrTake, WrClosed, WrWriteOk, WrWriteFails, WrStop,
                WrShutdown
  <1>8. CASE NoImporter \/ UNCHANGED vars
    BY <1>8 DEF NoImporter, vars
  <1> QED
    BY <1>1, <1>2, <1>3, <1>4, <1>5, <1>6, <1>7, <1>8 DEF Next

LEMMA UnlinkedOnceHolds == Spec => [](IInv /\ UnlinkedOnce)
  <1> QED
    BY InvariantHolds, InitUnlinkedOnce, NextUnlinkedOnce, PTL DEF Spec

-----------------------------------------------------------------------------
(* The refinement.  Most steps are none of the ledger's.                   *)

\* The mapped variables stay as they are.
Silent ==
  /\ (rdPc' # "idle") <=> (rdPc # "idle")
  /\ sent' = sent /\ replied' = replied /\ unlinkReply' = unlinkReply

LEMMA SilentStutters == Silent => UNCHANGED Ledger!ledger
  BY DEF Silent, Ledger!ledger

LEMMA InitRefines == Init => Ledger!Init
  BY DEF Init, Ledger!Init

\* A reply that some thread had in hand reaches the outbox.
LEMMA QueueRefines ==
  ASSUME IInv, UnlinkedOnce, NEW m \in rdHand \cup rpHand, Queue(m),
         rdPc # "idle", rdPc' # "idle", sent' = sent
  PROVE  [Ledger!Next]_(Ledger!ledger)
  <1>0. /\ TypeOK /\ m \in Reply /\ m.seq \in Seqs
        /\ m.type \in {"ret_submit", "ret_error", "ret_unlink"}
    BY DEF IInv, TypeOK, Reply
  <1>1. CASE m.type # "ret_unlink"
    <2>1. Answers(m, m.seq) /\ (Holds(rdHand, m.seq) \/ Holds(rpHand, m.seq))
      BY <1>0, <1>1 DEF Answers, Holds
    <2>2. m.seq \in sent /\ replied[m.seq] = 0 /\ unlinkReply[m.seq] # "reset"
      BY <1>0, <2>1 DEF IInv, Core, HeldUnanswered, ResetIsFinal, Reset
    <2>3. unlinkReply' = unlinkReply /\ replied' = [replied EXCEPT ![m.seq] = @ + 1]
      BY <1>0, <1>1, QueueUnlinkReply
    <2>4. Answered' = Answered \cup {m.seq} /\ m.seq \notin Answered
      BY <1>0, <2>2, <2>3 DEF Answered, TypeOK
    <2>5. WasReset' = WasReset /\ m.seq \notin WasReset
      BY <2>2, <2>3 DEF WasReset
    <2>6. Ledger!Answer(m.seq)
      BY <2>2, <2>4, <2>5 DEF Ledger!Answer, Answered, WasReset
    <2> QED
      BY <1>0, <2>6 DEF Ledger!Next
  <1>2. CASE m.type = "ret_unlink"
    <2>1. /\ replied' = replied
          /\ unlinkReply' = [unlinkReply EXCEPT ![m.seq] = IF m.caught THEN "reset" ELSE "zero"]
      BY <1>0, <1>2, QueueUnlinkReply
    <2>2. m \in rdHand /\ unlinkReply[m.seq] = "none"
      BY <1>2 DEF IInv, Core, HandsMatchPcs, UnlinkedOnce
    <2>3. CASE m.caught
      <3>1. m.seq \in sent
        BY <1>0, <1>2, <2>2, <2>3 DEF IInv, Core, ResetIsFinal, Reset
      <3>2. WasReset' = WasReset \cup {m.seq} /\ m.seq \notin WasReset
        BY <1>0, <2>1, <2>2, <2>3 DEF WasReset, TypeOK
      <3>3. Ledger!Reset(m.seq)
        BY <2>1, <3>1, <3>2 DEF Ledger!Reset, WasReset
      <3> QED
        BY <1>0, <3>3 DEF Ledger!Next
    <2>4. CASE ~m.caught
      <3>1. WasReset' = WasReset
        BY <1>0, <2>1, <2>2, <2>4 DEF WasReset, TypeOK
      <3> QED
        BY <2>1, <3>1 DEF Ledger!ledger, WasReset
    <2> QED
      BY <2>3, <2>4
  <1> QED
    BY <1>1, <1>2

LEMMA EnvironmentRefines ==
  Environment => [Ledger!Next]_(Ledger!ledger)
  <1> SUFFICES ASSUME Environment PROVE [Ledger!Next]_(Ledger!ledger)
    OBVIOUS
  <1>1. CASE StartSession
    <2>1. Answered' = {} /\ WasReset' = {} /\ sent' = {} /\ rdPc = "idle" /\ rdPc' # "idle"
      BY <1>1 DEF StartSession, Answered, WasReset
    <2>2. Ledger!Begin
      BY <2>1 DEF Ledger!Begin, Answered, WasReset
    <2> QED
      BY <2>2 DEF Ledger!Next
  <1>2. CASE ~StartSession
    <2>1. Silent
      BY <1>2 DEF Silent, Environment, KernelComplete, Unplug, ClientClose, Terminate,
                  DrainSocket, Resume, reader, inputs, history
    <2> QED
      BY <2>1, SilentStutters
  <1> QED
    BY <1>1, <1>2

LEMMA ReaderInputRefines ==
  ReaderInput => [Ledger!Next]_(Ledger!ledger)
  <1> SUFFICES ASSUME NEW s \in Seqs,
                      \/ RdSubmitOk(s) \/ RdSubmitBusy(s) \/ RdSubmitRefused(s)
                      \/ RdSubmitFatal(s) \/ RdUnlink(s)
               PROVE  [Ledger!Next]_(Ledger!ledger)
    BY DEF ReaderInput
  <1>1. CASE RdUnlink(s)
    <2>1. Silent
      BY <1>1 DEF Silent, RdUnlink, history
    <2> QED
      BY <2>1, SilentStutters
  <1>2. CASE RdSubmitOk(s) \/ RdSubmitBusy(s) \/ RdSubmitRefused(s) \/ RdSubmitFatal(s)
    <2>1. /\ Submit(s) /\ rdPc' # "idle"
          /\ replied' = replied /\ unlinkReply' = unlinkReply
      BY <1>2 DEF RdSubmitOk, RdSubmitBusy, RdSubmitRefused, RdSubmitFatal, Submit, history
    <2>2. Ledger!Read(s)
      BY <2>1 DEF Submit, Ledger!Read
    <2> QED
      BY <2>2 DEF Ledger!Next
  <1> QED
    BY <1>1, <1>2

LEMMA ReaderStepRefines ==
  IInv /\ UnlinkedOnce /\ ReaderStep => [Ledger!Next]_(Ledger!ledger)
  <1> SUFFICES ASSUME IInv, UnlinkedOnce, ReaderStep PROVE [Ledger!Next]_(Ledger!ledger)
    OBVIOUS
  <1>1. CASE RdPostOk
    <2>1. /\ rdPc # "idle" /\ rdPc' # "idle" /\ sent' = sent
          /\ \E m \in rdHand : Queue(m)
      BY <1>1 DEF RdPostOk, inputs
    <2> QED
      BY <2>1, QueueRefines
  <1>2. CASE RdEnd
    <2>1. /\ rdPc # "idle" /\ rdPc' = "idle" /\ sent' = sent
          /\ replied' = replied /\ unlinkReply' = unlinkReply
      BY <1>2 DEF RdEnd, inputs, history
    <2>2. Ledger!End
      BY <2>1 DEF Ledger!End
    <2> QED
      BY <2>2 DEF Ledger!Next
  <1>3. CASE ~RdPostOk /\ ~RdEnd
    <2>1. Silent
      BY <1>3 DEF Silent, ReaderStep, RdCheck, RdReadEnd, RdPostFails, RdStop, RdShutdown,
                  RdJoin, RdCancel, RdDrain, reader, inputs, history
    <2> QED
      BY <2>1, SilentStutters
  <1> QED
    BY <1>1, <1>2, <1>3

LEMMA ReaperStepRefines ==
  IInv /\ UnlinkedOnce /\ ReaperStep => [Ledger!Next]_(Ledger!ledger)
  <1> SUFFICES ASSUME IInv, UnlinkedOnce, ReaperStep PROVE [Ledger!Next]_(Ledger!ledger)
    OBVIOUS
  <1>1. CASE RpPostOk
    <2>1. rdPc # "idle"
      BY <1>1 DEF RpPostOk, IInv, Core, ThreadsJoined
    <2>2. rdPc' = rdPc /\ sent' = sent /\ \E m \in rpHand : Queue(m)
      BY <1>1 DEF RpPostOk, reader, inputs
    <2> QED
      BY <2>1, <2>2, QueueRefines
  <1>2. CASE ~RpPostOk
    <2>1. Silent
      BY <1>2 DEF Silent, ReaperStep, RpCheck, RpWait, RpWaitFails, RpReapUnlinked, RpReap,
                  Reap, RpReapNone, RpReapFails, RpPostFails, RpSuspend, RpAfter, RpStop,
                  RpShutdown, reader, inputs, history
    <2> QED
      BY <2>1, SilentStutters
  <1> QED
    BY <1>1, <1>2

LEMMA OtherStepRefines ==
  WriterStep \/ WrWriteOk \/ NoImporter \/ UNCHANGED vars => [Ledger!Next]_(Ledger!ledger)
  <1>1. WriterStep \/ WrWriteOk \/ NoImporter \/ UNCHANGED vars => Silent
    BY DEF Silent, WriterStep, WrTake, WrClosed, WrWriteOk, WrWriteFails, WrStop, WrShutdown,
           NoImporter, vars, reader, inputs, history
  <1> QED
    BY <1>1, SilentStutters

\* The session implements UrbLedger: whatever reader, reaper, writer, kernel and
\* importer do, each of their steps is a step of the ledger or none of its
\* (session.rs, usbfs.rs).
THEOREM PumpKeepsLedger == Spec => KeepsLedger
  <1>1. IInv /\ UnlinkedOnce /\ [Next]_vars => [Ledger!Next]_(Ledger!ledger)
    BY EnvironmentRefines, ReaderInputRefines, ReaderStepRefines, ReaperStepRefines,
       OtherStepRefines DEF Next
  <1> QED
    BY <1>1, InitRefines, UnlinkedOnceHolds, PTL DEF Spec, KeepsLedger, Ledger!Spec
=============================================================================
