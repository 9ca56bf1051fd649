----------------------------- MODULE ToggleChord -----------------------------
(***************************************************************************)
(* The chord that takes one device off offer and puts it back: the         *)
(* detector (chord.rs), the reaper that feeds it during a session          *)
(* (session.rs), the hand-over of the interfaces one by one (usbfs.rs), and *)
(* the watcher that reads hidraw nodes meanwhile (toggle.rs, hidraw.rs).   *)
(*                                                                         *)
(* Time is what detectors see of it: a tick ages every hold that has begun. *)
(* A report is the button mask it carries, or Foreign where the header     *)
(* check refuses it; `press` numbers the presses of the chord and tags the *)
(* reports for the properties alone.                                       *)
(***************************************************************************)
EXTENDS Naturals, Integers, Sequences

CONSTANTS
  Masks,     \* the button masks the device may report, each a set of buttons
  Chord,     \* Chord.mask
  Hold,      \* Hotkey.hold, in ticks
  NumIfs,    \* HID interfaces of the device, rebound in this order
  Speaker,   \* the one whose reports carry the buttons
  QueueLen,  \* bound: reports a reader of the device may be behind
  Events     \* bound: which of the outside events below may happen

ASSUME ChordAssumption == Chord # {} /\ \E m \in Masks : Chord \subseteq m
ASSUME NumbersAssumption ==
  /\ Hold \in Nat \ {0} /\ NumIfs \in Nat \ {0} /\ QueueLen \in Nat \ {0}
  /\ Speaker \in 1..NumIfs
ASSUME EventsAssumption ==
  Events \subseteq {"detach", "hangup", "rebindFails", "denied", "terminate"}

VARIABLES
  down,       \* external: the buttons held on the device
  press,      \* history: the current or last press of the chord
  spent,      \* history: presses that have toggled the device
  again,      \* history: one of them did so a second time
  queue,      \* reports not yet read, by the reaper or through the tap
  sess,       \* the session over the device and the hand-over after it
  next,       \* the interface release_all reconnects next
  sdet,       \* the session's detector
  willFire,   \* chord_fired in reaper_loop
  nodes,      \* external: interfaces that have a hidraw node
  suspended,  \* Toggle.suspended contains the device
  hangup,     \* HANGUP, a SIGHUP not yet taken
  wPc,        \* the watcher thread
  watched,    \* the watcher has an entry for the device
  look,       \* nodes as nodes_for_busid listed them
  tap,        \* Watched.tap: the nodes it has open, {} for None
  tapDead,    \* external: a node of the tap went away
  wdet        \* the watcher's detector

person  == <<down, press>>
history == <<spent, again>>
session == <<sess, next, sdet, willFire>>
watcher == <<wPc, watched, look, tap, wdet>>
vars == <<person, history, queue, session, nodes, suspended, hangup, watcher, tapDead>>

Ifs == 1..NumIfs
Presses == 0..(QueueLen + 1)
Foreign == [state |-> FALSE, buttons |-> {}, press |-> 0]
Report == [state : BOOLEAN, buttons : Masks \cup {{}}, press : Presses]
Detector == [armed : BOOLEAN, age : -1..Hold]

\* Chord::held_in: a subset match, whatever else is down.
HeldIn(buttons) == Chord \subseteq buttons

\* Detector::new: disarmed, and no hold has begun (age -1 is `since` None).
NewDetector == [armed |-> FALSE, age |-> -1]

(***************************************************************************)
(* Detector::feed.  The verdict is the detector afterwards and whether the *)
(* chord has fired; a report that is not a state report changes nothing.   *)
(***************************************************************************)
Verdict(d, fired) == [det |-> d, fired |-> fired]

\* Fault: a detector that may fire before it has seen the chord released.
FeedUnarmed(d, r) ==
  IF ~r.state THEN Verdict(d, FALSE)
  ELSE IF ~HeldIn(r.buttons) THEN Verdict([armed |-> TRUE, age |-> -1], FALSE)
  ELSE LET held == IF d.age = -1 THEN 0 ELSE d.age
       IN Verdict([armed |-> FALSE, age |-> held], held >= Hold)

Feed(d, r) ==
  IF ~r.state THEN Verdict(d, FALSE)
  ELSE IF ~HeldIn(r.buttons) THEN Verdict([armed |-> TRUE, age |-> -1], FALSE)
  ELSE LET held  == IF d.age = -1 THEN 0 ELSE d.age
           fired == d.armed /\ held >= Hold
       IN Verdict([armed |-> d.armed /\ ~fired, age |-> held], fired)

\* A batch of reports read at one instant, up to the one that fires; `by` is
\* the press that report belongs to.
Unfed(d) == [det |-> d, fired |-> FALSE, by |-> 0]
FeedNext(v, r) ==
  IF v.fired THEN v
  ELSE LET f == Feed(v.det, r) IN [det |-> f.det, fired |-> f.fired, by |-> r.press]
FeedAll(d, reports) ==
  LET after[n \in 0..Len(reports)] ==
        IF n = 0 THEN Unfed(d) ELSE FeedNext(after[n - 1], reports[n])
  IN  after[Len(reports)]

Init ==
  /\ down = {} /\ press = 0 /\ spent = {} /\ again = FALSE
  /\ queue = <<>>
  /\ sess = "none" /\ next = 1 /\ sdet = NewDetector /\ willFire = FALSE
  /\ nodes = Ifs /\ suspended = FALSE /\ hangup = FALSE
  /\ wPc = "top" /\ watched = FALSE /\ look = {} /\ tap = {} /\ tapDead = FALSE
  /\ wdet = NewDetector

(***************************************************************************)
(* The person and the device.                                              *)
(***************************************************************************)
\* The buttons change.  A press begins when the chord is complete; its number
\* is one that no report still under way carries.
Buttons(m) ==
  LET used  == {press} \cup {queue[i].press : i \in DOMAIN queue}
      fresh == CHOOSE p \in Presses : p \notin used
  IN /\ m # down /\ down' = m
     /\ IF HeldIn(m) /\ ~HeldIn(down)
        THEN press' = fresh /\ spent' = spent \cap used
        ELSE UNCHANGED <<press, spent>>
     /\ UNCHANGED <<again, queue, session, nodes, suspended, hangup, watcher, tapDead>>

\* Somebody reads interface `i`: the session has them all, a tap those it opened.
Heard(i) == sess = "live" \/ (i \in tap /\ ~tapDead)

Queue(r) ==
  /\ Len(queue) < QueueLen
  /\ queue' = Append(queue, r)
  /\ UNCHANGED <<person, history, session, nodes, suspended, hangup, watcher, tapDead>>

StateReport == Heard(Speaker) /\ Queue([state |-> TRUE, buttons |-> down, press |-> press])

ForeignReport == (\E i \in Ifs : Heard(i)) /\ Queue(Foreign)

Older(d) == IF d.age \in 0..(Hold - 1) THEN [d EXCEPT !.age = @ + 1] ELSE d

Tick ==
  /\ <<sdet, wdet>> # <<Older(sdet), Older(wdet)>>
  /\ sdet' = Older(sdet) /\ wdet' = Older(wdet)
  /\ UNCHANGED <<person, history, queue, sess, next, willFire, nodes, suspended, hangup,
                 wPc, watched, look, tap, tapDead>>

Hangup ==
  /\ "hangup" \in Events /\ ~hangup /\ hangup' = TRUE
  /\ UNCHANGED <<person, history, queue, session, nodes, suspended, watcher, tapDead>>

\* The report of press `p` toggled the device, or did not.
Toggled(fired, p) ==
  /\ spent' = IF fired THEN spent \cup {p} ELSE spent
  /\ again' = (again \/ (fired /\ p \in spent))

(***************************************************************************)
(* The session: import behind the gate, the reaper, and release_all.       *)
(***************************************************************************)
\* Claiming evicts the drivers, and with them their hidraw nodes.
Import ==
  /\ sess = "none" /\ ~suspended
  /\ sess' = "live" /\ sdet' = NewDetector /\ willFire' = FALSE
  /\ nodes' = {} /\ tapDead' = (tap # {}) /\ queue' = <<>>
  /\ UNCHANGED <<person, history, next, suspended, hangup, watcher>>

\* One turn of the reap loop: screen() feeds what was reaped.
Reap ==
  /\ sess = "live" /\ queue # <<>>
  /\ LET v == Feed(sdet, Head(queue))
     IN /\ sdet' = v.det
        /\ willFire' = (willFire \/ v.fired)
        /\ Toggled(v.fired, Head(queue).press)
  /\ queue' = Tail(queue)
  /\ UNCHANGED <<person, sess, next, nodes, suspended, hangup, watcher, tapDead>>

EndSession ==
  /\ sess' = "rebind" /\ queue' = <<>> /\ sdet' = NewDetector
  /\ UNCHANGED <<person, history, next, nodes, hangup, watcher, tapDead>>

\* The reap loop has drained, or could not post, and chord_fired is set.
Suspend ==
  /\ sess = "live" /\ willFire
  /\ queue = <<>> \/ "detach" \in Events
  /\ willFire' = FALSE /\ suspended' = TRUE
  /\ EndSession

\* The importer detaches: the same way out, and the device stays on offer.
Detach ==
  /\ "detach" \in Events
  /\ sess = "live" /\ ~willFire
  /\ EndSession
  /\ UNCHANGED <<willFire, suspended>>

\* reconnect_one: the driver's probe makes the node, or all retries fail.
Reconnect ==
  /\ sess = "rebind" /\ next <= NumIfs
  /\ \/ nodes' = nodes \cup {next}
     \/ "rebindFails" \in Events /\ UNCHANGED nodes
  /\ next' = next + 1
  /\ UNCHANGED <<person, history, queue, sess, sdet, willFire, suspended, hangup, watcher, tapDead>>

\* The lease goes, and with it the way for the next import is free.
Released ==
  /\ sess = "rebind" /\ next > NumIfs
  /\ sess' = "none" /\ next' = 1
  /\ UNCHANGED <<person, history, queue, sdet, willFire, nodes, suspended, hangup,
                 watcher, tapDead>>

(***************************************************************************)
(* The watcher thread: watch() and Watched::step().                        *)
(***************************************************************************)
WTop ==
  /\ wPc = "top" /\ wPc' = "list"
  /\ hangup' = FALSE
  /\ suspended' = (suspended /\ ~hangup)
  /\ UNCHANGED <<person, history, queue, session, nodes, watched, look, tap, wdet, tapDead>>

\* toggle.list() and watched.retain(): an entry lasts as long as the
\* suspension does, as far as the watcher sees it.
WList ==
  /\ wPc = "list"
  /\ watched' = suspended
  /\ IF ~suspended
     THEN wPc' = "top" /\ tap' = {} /\ wdet' = NewDetector
     ELSE IF watched
     THEN wPc' = (IF tap = {} THEN "look" ELSE "read") /\ UNCHANGED <<tap, wdet>>
     ELSE wPc' = "look" /\ tap' = {} /\ wdet' = NewDetector
  /\ UNCHANGED <<person, history, queue, session, nodes, suspended, hangup, look, tapDead>>

\* attach_tap: list the nodes there are ...
WLook ==
  /\ wPc = "look"
  /\ look' = nodes
  /\ wPc' = IF nodes = {} THEN "top" ELSE "open"
  /\ UNCHANGED <<person, history, queue, session, nodes, suspended, hangup, watched, tap,
                 wdet, tapDead>>

\* Tap::open: the nodes that are still there, less those it may not read.
Opened ==
  {t \in SUBSET (look \cap nodes) : t = look \cap nodes \/ "denied" \in Events}

\* ... then open them, with a fresh detector.
WOpen ==
  /\ wPc = "open" /\ look' = {}
  /\ tap' \in Opened
  /\ IF tap' = {}
     THEN wPc' = "top" /\ UNCHANGED <<queue, wdet, tapDead>>
     ELSE wPc' = "read" /\ tapDead' = FALSE /\ queue' = <<>> /\ wdet' = NewDetector
  /\ UNCHANGED <<person, history, session, nodes, suspended, hangup, watched>>

\* Tap::read: all that is queued, or nothing where a node went away.
TapRead == IF tapDead THEN {} ELSE {queue}

\* Fault: a node that went away is not noticed, and the tap is kept.
WReadKeepsDead ==
  /\ wPc = "read" /\ wPc' = "top"
  /\ LET v == FeedAll(wdet, IF tapDead THEN <<>> ELSE queue)
     IN /\ wdet' = v.det /\ queue' = (IF tapDead THEN queue ELSE <<>>)
        /\ Toggled(v.fired, v.by)
        /\ suspended' = (suspended /\ ~v.fired)
  /\ UNCHANGED <<person, session, nodes, hangup, watched, look, tap, tapDead>>

\* Watched::step over the reports of Tap::read; a node that went away drops the
\* tap.  Firing resumes the device and leaves the rest of the batch unread.
WRead ==
  /\ wPc = "read" /\ wPc' = "top"
  /\ IF TapRead = {}
     THEN tap' = {} /\ UNCHANGED <<queue, history, suspended, wdet>>
     ELSE LET v == FeedAll(wdet, queue)
          IN /\ wdet' = v.det /\ queue' = <<>>
             /\ Toggled(v.fired, v.by)
             /\ suspended' = (suspended /\ ~v.fired)
             /\ UNCHANGED tap
  /\ UNCHANGED <<person, session, nodes, hangup, watched, look, tapDead>>

WStop ==
  /\ "terminate" \in Events
  /\ wPc = "top" /\ wPc' = "off"
  /\ UNCHANGED <<person, history, queue, session, nodes, suspended, hangup, watched, look, tap,
                 wdet, tapDead>>

Session == Import \/ Reap \/ Suspend \/ Detach \/ Reconnect \/ Released
Watcher == WTop \/ WList \/ WLook \/ WOpen \/ WRead
Next ==
  \/ \E m \in Masks : Buttons(m)
  \/ StateReport \/ ForeignReport \/ Tick \/ Hangup
  \/ Session \/ Watcher \/ WStop

(***************************************************************************)
(* The watcher runs, a session that was told to end hands the device back, *)
(* the device goes on sending what its buttons are, and time passes.       *)
(***************************************************************************)
Fairness ==
  /\ WF_vars(Watcher)
  /\ WF_vars(Reap \/ Suspend) /\ WF_vars(Reconnect \/ Released)
  /\ WF_vars(StateReport) /\ WF_vars(Tick)

Spec == Init /\ [][Next]_vars
FairSpec == Spec /\ Fairness

-----------------------------------------------------------------------------
\* The variables have their types (ToggleChord's state as declared above).
TypeOK ==
  /\ down \in Masks \cup {{}} /\ press \in Presses
  /\ spent \subseteq Presses /\ again \in BOOLEAN
  /\ queue \in Seq(Report) /\ Len(queue) <= QueueLen
  /\ sess \in {"none", "live", "rebind"} /\ next \in 1..(NumIfs + 1)
  /\ sdet \in Detector /\ willFire \in BOOLEAN
  /\ nodes \subseteq Ifs /\ suspended \in BOOLEAN /\ hangup \in BOOLEAN
  /\ wPc \in {"top", "list", "look", "open", "read", "off"} /\ watched \in BOOLEAN
  /\ look \subseteq Ifs /\ tap \subseteq Ifs /\ tapDead \in BOOLEAN /\ wdet \in Detector

\* One press of the chord toggles the device at most once, however long it is
\* held and whoever watches the device meanwhile: the reaper that suspends it,
\* the watcher that takes over while the buttons are still down, a new session
\* (Detector::new, Detector::feed, attach_tap).
OnePressOneToggle == ~again

\* The person who wants the device back holds the chord long enough: once the
\* watcher hears the buttons, no longer up or down than it takes to be seen.
Patient ==
  suspended /\ Heard(Speaker) =>
    IF wdet.armed THEN HeldIn(down) => HeldIn(down') ELSE ~HeldIn(down) => ~HeldIn(down')
Holds == \E m \in Masks : Buttons(m) /\ HeldIn(m)
LetsGo == \E m \in Masks : Buttons(m) /\ ~HeldIn(m)

\* That person goes on trying, drivers come back, the nodes may be read, and
\* the process lives.
WayBack ==
  /\ <>[][Patient]_vars /\ SF_vars(Holds) /\ SF_vars(LetsGo)
  /\ <>[](sess = "none" => Speaker \in nodes)
  /\ []<>(tap # {}) \/ []<>~suspended
  /\ [](wPc # "off")

\* A suspended device comes back on offer when the chord is held again
\* (toggle.rs: watch, step, attach_tap), provided the tap is not one that was
\* opened half way through the rebinding.
ChordResumes ==
  WayBack /\ ~<>[](tap # {} /\ Speaker \notin tap) => []<>~suspended

\* The same without that proviso, as the log line of toggle.rs:152-155 has it:
\* "hold ... to suspend a forward; the same chord resumes it".
SameChordResumes == WayBack => []<>~suspended
=============================================================================
