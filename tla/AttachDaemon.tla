---------------------------- MODULE AttachDaemon ----------------------------
(***************************************************************************)
(* usbfwd-attach: the daemon that keeps devices attached (main.rs), the    *)
(* vhci-hcd ports it reads from sysfs and changes through `usbip` (vhci.rs) *)
(* and the exporters it asks (client.rs).                                  *)
(*                                                                         *)
(* The daemon is one thread, but every look at the kernel, every call of   *)
(* `usbip` and every request to an exporter is a step of its own: ports    *)
(* drop, fail, and come up, and exporters come and go, between any two.    *)
(* Time passes in nap(); a delay is a number of polls.                     *)
(***************************************************************************)
EXTENDS Naturals, FiniteSets, FiniteSetsExt

CONSTANTS
  Servers,      \* endpoints(): the servers with auto_attach
  Busids,       \* bus ids of matching devices, per server
  Ports,        \* vhci ports, in the order of the status file
  StopAfterFirst, \* attach.stop_after_first
  Records,      \* TRUE: this build of `usbip` writes its record files
  RetryMin, RetryMax, \* attach.retry_min and retry_max, in polls
  Nothing,      \* no remote device, no server
  Foreign,      \* whatever someone else attached
  Events        \* bound: which of the outside events below may happen

ASSUME PortsAssumption == Ports \subseteq Nat
ASSUME RetryAssumption ==
  RetryMin \in Nat \ {0} /\ RetryMax \in Nat /\ RetryMin <= RetryMax
ASSUME NothingAssumption == Nothing \notin Servers \X Busids
ASSUME OptionsAssumption == StopAfterFirst \in BOOLEAN /\ Records \in BOOLEAN
ASSUME EventsAssumption ==
  Events \subseteq {"restart", "drop", "error", "serverDown", "withdraw",
                    "foreign", "detachFails", "attachFails", "statusFails",
                    "detachAll"}

VARIABLES
  up, on,       \* external: which servers answer, and what each has on offer
  st, remote,   \* external: status of each vhci port, and what is on it
  rec,          \* external: the record file `usbip attach` left for a port
  pc,           \* the daemon; "down" when it does not run
  attached,     \* Daemon.attached
  backoff,      \* Daemon.backoff: delay 0 for no entry; wait until next_try
  todo,         \* servers this tick has still to try
  broken,       \* entries whose port prune() has still to detach
  cur,          \* the device attach() is attaching
  before        \* attach()'s first snapshot of the occupied ports

exporters == <<up, on>>
vhci == <<st, remote, rec>>
work == <<todo, broken, cur, before>>
vars == <<exporters, vhci, pc, attached, backoff, work>>

Remotes == Servers \X Busids
Trackable == [remote : Remotes \cup {Nothing}, port : Ports]
Tracked(r, p) == [remote |-> r, port |-> p]

\* Fault: a port that is still being enumerated counts as free.
OccupiedInUse == {p \in Ports : st[p] = "used"}

\* Port::occupied: a port still being enumerated, or in error, is not free.
Occupied == {p \in Ports : st[p] # "null"}

\* occupied_ports().unwrap_or_default(): when vhci's status cannot be read the
\* caller goes on with an empty list.
Snapshots == {Occupied} \cup (IF "statusFails" \in Events THEN {{}} ELSE {})

\* External: ports with a working connection, and those with one to r.
Alive == {p \in Ports : st[p] \in {"notassigned", "used"}}
OnPort(r) == {p \in Alive : remote[p] = r}

NoBackoff == [s \in Servers |-> [delay |-> 0, wait |-> 0]]

Init ==
  /\ up \in [Servers -> BOOLEAN]
  /\ on = [s \in Servers |-> Busids]
  /\ st = [p \in Ports |-> "null"]
  /\ remote = [p \in Ports |-> Nothing]
  /\ rec = [p \in Ports |-> Nothing]
  /\ pc = "down"
  /\ attached = {} /\ backoff = NoBackoff
  /\ todo = {} /\ broken = {} /\ cur = Nothing /\ before = {}

-----------------------------------------------------------------------------
(* The exporters, the kernel, and other users of vhci.                     *)

ServerFlips(s) ==
  /\ "serverDown" \in Events \/ ~up[s]
  /\ up' = [up EXCEPT ![s] = ~@]
  /\ UNCHANGED <<on, vhci, pc, attached, backoff, work>>

\* A device leaves the list (unplugged, suspended) or comes back.
OfferFlips(s, b) ==
  /\ "withdraw" \in Events \/ b \notin on[s]
  /\ on' = [on EXCEPT ![s] = IF b \in @ THEN @ \ {b} ELSE @ \cup {b}]
  /\ UNCHANGED <<up, vhci, pc, attached, backoff, work>>

\* Enumeration is complete.
PortUp(p) ==
  /\ st[p] = "notassigned"
  /\ st' = [st EXCEPT ![p] = "used"]
  /\ UNCHANGED <<exporters, remote, rec, pc, attached, backoff, work>>

\* The connection is gone and the port frees itself; the record file stays.
PortDrop(p) ==
  /\ "drop" \in Events /\ st[p] \in {"notassigned", "used"}
  /\ st' = [st EXCEPT ![p] = "null"]
  /\ remote' = [remote EXCEPT ![p] = Nothing]
  /\ UNCHANGED <<exporters, rec, pc, attached, backoff, work>>

PortError(p) ==
  /\ "error" \in Events /\ st[p] \in {"notassigned", "used"}
  /\ st' = [st EXCEPT ![p] = "error"]
  /\ UNCHANGED <<exporters, remote, rec, pc, attached, backoff, work>>

\* Someone else attaches something.
ForeignAttach(p) ==
  /\ "foreign" \in Events /\ st[p] = "null"
  /\ st' = [st EXCEPT ![p] = "used"]
  /\ remote' = [remote EXCEPT ![p] = Foreign]
  /\ UNCHANGED <<exporters, rec, pc, attached, backoff, work>>

\* `usbip detach` of the given ports: they are freed and their records removed.
Detached(gone) ==
  /\ st' = [p \in Ports |-> IF p \in gone THEN "null" ELSE st[p]]
  /\ remote' = [p \in Ports |-> IF p \in gone THEN Nothing ELSE remote[p]]
  /\ rec' = [p \in Ports |-> IF p \in gone THEN Nothing ELSE rec[p]]

\* usbfwd-attach --detach-all, run by the operator: every port in use.
DetachAll ==
  /\ "detachAll" \in Events /\ Occupied # {}
  /\ LET inUse == {p \in Ports : st[p] = "used"} IN
     \E failed \in IF "detachFails" \in Events THEN SUBSET inUse ELSE {{}} :
       Detached(inUse \ failed)
  /\ UNCHANGED <<exporters, pc, attached, backoff, work>>

-----------------------------------------------------------------------------
(* Daemon: start and stop.                                                 *)

\* Fault: only the ports with a record are adopted.
AdoptRecorded(used) ==
  {Tracked(rec[p], p) : p \in {q \in used : rec[q] # Nothing}}

\* adopt_existing: occupied ports, by their record where there is one.
AdoptExisting(used) == {Tracked(rec[p], p) : p \in used}

Start ==
  /\ pc = "down"
  /\ \E used \in Snapshots : attached' = AdoptExisting(used)
  /\ pc' = "prune"
  /\ UNCHANGED <<exporters, vhci, backoff, work>>

\* The daemon is stopped or dies; attached devices stay where they are.
Stop ==
  /\ "restart" \in Events /\ pc # "down"
  /\ pc' = "down"
  /\ attached' = {} /\ backoff' = NoBackoff
  /\ todo' = {} /\ broken' = {} /\ cur' = Nothing /\ before' = {}
  /\ UNCHANGED <<exporters, vhci>>

-----------------------------------------------------------------------------
(* tick(): prune, then each server.                                        *)

\* Faults: a port that has dropped is kept; one still being enumerated counts as
\* failed; a failed one is only forgotten.
PruneKeepsDropped ==
  /\ pc = "prune"
  /\ attached' = {t \in attached : st[t.port] # "error"}
  /\ broken' = {t \in attached : st[t.port] = "error"}
  /\ pc' = "detach"
  /\ UNCHANGED <<exporters, vhci, backoff, todo, cur, before>>

PruneBreaksUnassigned ==
  /\ pc = "prune"
  /\ attached' = {t \in attached : st[t.port] = "used"}
  /\ broken' = {t \in attached : st[t.port] \notin {"null", "used"}}
  /\ pc' = "detach"
  /\ UNCHANGED <<exporters, vhci, backoff, todo, cur, before>>

PruneForgetsFailed ==
  /\ pc = "prune"
  /\ attached' = {t \in attached : st[t.port] \notin {"null", "error"}}
  /\ pc' = "detach"
  /\ UNCHANGED <<exporters, vhci, backoff, work>>

Prune ==
  /\ pc = "prune"
  /\ attached' = {t \in attached : st[t.port] \notin {"null", "error"}}
  /\ broken' = {t \in attached : st[t.port] = "error"}
  /\ pc' = "detach"
  /\ UNCHANGED <<exporters, vhci, backoff, todo, cur, before>>

\* vhci's status cannot be read: nothing is pruned.
PruneSkipped ==
  /\ "statusFails" \in Events /\ pc = "prune"
  /\ pc' = "detach"
  /\ UNCHANGED <<exporters, vhci, attached, backoff, work>>

\* Two entries may name the same port; it is then detached twice.
PruneDetach(t) ==
  /\ pc = "detach" /\ t \in broken /\ t.port \in Occupied
  /\ Detached({t.port})
  /\ broken' = broken \ {t}
  /\ UNCHANGED <<exporters, pc, attached, backoff, todo, cur, before>>

PruneDetachFails(t) ==
  /\ pc = "detach" /\ t \in broken
  /\ "detachFails" \in Events \/ t.port \notin Occupied
  /\ broken' = broken \ {t}
  /\ UNCHANGED <<exporters, vhci, pc, attached, backoff, todo, cur, before>>

Satisfied == StopAfterFirst /\ attached # {}

AfterPrune ==
  /\ pc = "detach" /\ broken = {}
  /\ IF Satisfied THEN pc' = "nap" /\ UNCHANGED todo
                  ELSE pc' = "servers" /\ todo' = Servers
  /\ UNCHANGED <<exporters, vhci, attached, backoff, broken, cur, before>>

ServersDone ==
  /\ pc = "servers" /\ todo = {}
  /\ pc' = "nap"
  /\ UNCHANGED <<exporters, vhci, attached, backoff, work>>

-----------------------------------------------------------------------------
(* try_server.                                                             *)

\* The delay an entry holds after a failure: doubled, up to the ceiling.
NextDelay(delay) == Min({2 * (IF delay = 0 THEN RetryMin ELSE delay), RetryMax})

RecordFailure(s) ==
  backoff' = [backoff EXCEPT ![s] =
                [delay |-> NextDelay(@.delay),
                 wait |-> IF @.delay = 0 THEN RetryMin ELSE @.delay]]

ClearFailure(s) == backoff' = [backoff EXCEPT ![s] = [delay |-> 0, wait |-> 0]]

TrySkip(s) ==
  /\ pc = "servers" /\ s \in todo /\ backoff[s].wait > 0
  /\ todo' = todo \ {s}
  /\ UNCHANGED <<exporters, vhci, pc, attached, backoff, broken, cur, before>>

TryUnreachable(s) ==
  /\ pc = "servers" /\ s \in todo /\ backoff[s].wait = 0
  /\ ~up[s]
  /\ RecordFailure(s)
  /\ todo' = todo \ {s}
  /\ UNCHANGED <<exporters, vhci, pc, attached, broken, cur, before>>

Candidates(s) ==
  {b \in on[s] : \A t \in attached : t.remote # <<s, b>>}

TryNothing(s) ==
  /\ pc = "servers" /\ s \in todo /\ backoff[s].wait = 0
  /\ up[s] /\ Candidates(s) = {}
  /\ ClearFailure(s)
  /\ todo' = todo \ {s}
  /\ UNCHANGED <<exporters, vhci, pc, attached, broken, cur, before>>

\* A candidate is found; attach() takes its first snapshot.
TryAttach(s, b) ==
  /\ pc = "servers" /\ s \in todo /\ backoff[s].wait = 0
  /\ up[s] /\ b \in Candidates(s)
  /\ ClearFailure(s)
  /\ todo' = todo \ {s}
  /\ cur' = <<s, b>>
  /\ before' \in Snapshots
  /\ pc' = "usbip"
  /\ UNCHANGED <<exporters, vhci, attached, broken>>

-----------------------------------------------------------------------------
(* attach: `usbip attach`, then the wait for a port.                       *)

\* External: the exporter is there, has the device, and nobody has imported it.
Importable == up[cur[1]] /\ cur[2] \in on[cur[1]] /\ OnPort(cur) = {}

\* The kernel takes the first free port.
UsbipOk ==
  /\ pc = "usbip" /\ Importable /\ Occupied # Ports
  /\ LET p == Min(Ports \ Occupied) IN
     /\ st' = [st EXCEPT ![p] = "notassigned"]
     /\ remote' = [remote EXCEPT ![p] = cur]
     /\ rec' = IF Records THEN [rec EXCEPT ![p] = cur] ELSE rec
  /\ pc' = "settle"
  /\ UNCHANGED <<exporters, attached, backoff, work>>

UsbipFails ==
  /\ pc = "usbip"
  /\ ~Importable \/ Occupied = Ports \/ "attachFails" \in Events
  /\ RecordFailure(cur[1])
  /\ pc' = "servers" /\ cur' = Nothing /\ before' = {}
  /\ UNCHANGED <<exporters, vhci, attached, todo, broken>>

\* newly_used: the first port that is occupied now and was not before.
Settled ==
  /\ pc = "settle" /\ Occupied \ before # {}
  /\ attached' = attached \cup {Tracked(cur, Min(Occupied \ before))}
  /\ pc' = IF StopAfterFirst THEN "nap" ELSE "servers"
  /\ cur' = Nothing /\ before' = {}
  /\ UNCHANGED <<exporters, vhci, backoff, todo, broken>>

\* PORT_SETTLE_TIMEOUT passes and no port became busy.
SettleTimeout ==
  /\ pc = "settle" /\ \E after \in Snapshots : after \ before = {}
  /\ pc' = "servers" /\ cur' = Nothing /\ before' = {}
  /\ UNCHANGED <<exporters, vhci, attached, backoff, todo, broken>>

Nap ==
  /\ pc = "nap"
  /\ backoff' = [s \in Servers |-> [backoff[s] EXCEPT !.wait = Max({@, 1}) - 1]]
  /\ todo' = {}
  /\ pc' = "prune"
  /\ UNCHANGED <<exporters, vhci, attached, broken, cur, before>>

-----------------------------------------------------------------------------
DaemonStep ==
  \/ Start \/ Prune \/ PruneSkipped \/ AfterPrune \/ ServersDone
  \/ \E t \in broken : PruneDetach(t) \/ PruneDetachFails(t)
  \/ \E s \in Servers : TrySkip(s) \/ TryUnreachable(s) \/ TryNothing(s)
  \/ \E s \in Servers, b \in Busids : TryAttach(s, b)
  \/ UsbipOk \/ UsbipFails \/ Settled \/ SettleTimeout \/ Nap

Environment ==
  \/ \E s \in Servers : ServerFlips(s)
  \/ \E s \in Servers, b \in Busids : OfferFlips(s, b)
  \/ \E p \in Ports : PortUp(p) \/ PortDrop(p) \/ PortError(p) \/ ForeignAttach(p)
  \/ DetachAll \/ Stop

Next == DaemonStep \/ Environment

Spec == Init /\ [][Next]_vars

\* The daemon runs: it is restarted when it stops (systemd), and neither
\* `usbip` nor a request to an exporter hangs (connect_timeout).
FairSpec == Spec /\ WF_vars(DaemonStep)

-----------------------------------------------------------------------------
(* Properties.                                                             *)

\* The values of the daemon's state and of the ports; a delay stays within
\* retry_min and retry_max (main.rs record_failure).
TypeOK ==
  /\ up \in [Servers -> BOOLEAN] /\ on \in [Servers -> SUBSET Busids]
  /\ st \in [Ports -> {"null", "notassigned", "used", "error"}]
  /\ remote \in [Ports -> Remotes \cup {Nothing, Foreign}]
  /\ rec \in [Ports -> Remotes \cup {Nothing}]
  /\ pc \in {"down", "prune", "detach", "servers", "usbip", "settle", "nap"}
  /\ attached \subseteq Trackable
  /\ \A s \in Servers : backoff[s].delay \in {0} \cup RetryMin..RetryMax
  /\ \A s \in Servers : backoff[s].wait \in 0..RetryMax
  /\ todo \subseteq Servers /\ broken \subseteq Trackable /\ before \subseteq Ports
  /\ cur \in Remotes \cup {Nothing}
  /\ pc \in {"usbip", "settle"} => cur # Nothing

\* With stop_after_first there is one controller, however often the daemon is
\* restarted and wherever in an attach it was stopped (main.rs adopt_existing,
\* satisfied, attach).
OneController ==
  (StopAfterFirst /\ "foreign" \notin Events) => Cardinality(Alive) <= 1

\* Whenever the daemon rests, each port that came up through it is tracked, so
\* that it will notice when the port drops (main.rs attach, adopt_existing).
AttachmentsTracked ==
  pc = "nap" => \A p \in Alive : \E t \in attached : t.port = p

\* main.rs:360-361 has prune() detach a failed port because it "never frees
\* itself, and the next attach would take a different one and leak this":
\* whenever the daemon rests, a failed port is one it will detach.
FailedPortsTracked ==
  pc = "nap" =>
    \A p \in Ports : st[p] = "error" => \E t \in attached : t.port = p

\* prune() reads the ports first and detaches some of them later: a working
\* connection to one of the servers is never among those, however stale what
\* the daemon tracks is (main.rs prune).
HealthyNeverDetached ==
  [][\A t \in broken :
       PruneDetach(t) => (t.port \notin Alive \/ remote[t.port] = Foreign)]_vars

\* README.md:43-45 promises that the daemon "re-attaches whenever the network
\* drops": as long as it runs, a device that stays on offer is attached again
\* and again.
Reattaches ==
  \A s \in Servers, b \in Busids :
    <>[](up[s] /\ b \in on[s] /\ pc # "down") =>
      []<>(OnPort(<<s, b>>) # {} \/ (StopAfterFirst /\ Alive # {}))
=============================================================================
