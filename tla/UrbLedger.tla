------------------------------ MODULE UrbLedger ------------------------------
(***************************************************************************)
(* What an importer may rely on, session by session, whatever the threads, *)
(* the kernel and the cable do: a submit is answered once or not at all,   *)
(* only while its session is up, only after it was read, and never again   *)
(* after the importer was told that it was cancelled.                      *)
(***************************************************************************)
CONSTANT Seqs  \* the seqnums of submits

VARIABLES
  up,        \* a session is up
  read,      \* the submits it has read
  answered,  \* those it has answered with a RET_SUBMIT
  reset      \* those it has reported as cancelled in a RET_UNLINK

ledger == <<up, read, answered, reset>>

Init == up = FALSE /\ read = {} /\ answered = {} /\ reset = {}

Begin ==
  /\ ~up /\ up' = TRUE
  /\ read' = {} /\ answered' = {} /\ reset' = {}

Read(s) ==
  /\ up /\ s \notin read
  /\ read' = read \cup {s}
  /\ UNCHANGED <<up, answered, reset>>

Answer(s) ==
  /\ up /\ s \in read \ (answered \cup reset)
  /\ answered' = answered \cup {s}
  /\ UNCHANGED <<up, read, reset>>

\* A submit answered a moment ago may be unlinked all the same.
Reset(s) ==
  /\ up /\ s \in read \ reset
  /\ reset' = reset \cup {s}
  /\ UNCHANGED <<up, read, answered>>

End ==
  /\ up /\ up' = FALSE
  /\ UNCHANGED <<read, answered, reset>>

Next ==
  \/ Begin \/ End
  \/ \E s \in Seqs : Read(s) \/ Answer(s) \/ Reset(s)

Spec == Init /\ [][Next]_ledger
=============================================================================
