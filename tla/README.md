# padwire in TLA+

padwire (crates `usbfwd-*`) forwards a USB game controller over a network.
`usbfwd-server`, the exporter, takes the device away from the local drivers
through usbfs and serves it over USB/IP; on Android it runs inside the app.
`usbfwd-attach`, the importer's daemon, keeps the device attached on the host
through the kernel's `vhci-hcd`. These modules model the parts of the two
programs that keep state, check them with TLC on small instances, and prove
their safety properties with TLAPS for every value of their constants.

Line numbers in comments refer to files under `src/`.

## The system

| part | state | operations | talks to |
|---|---|---|---|
| Session: `session.rs` | stop flag, outbox (bounded channel), one reader, one reaper, one writer thread | `run`, `reader_loop`, `reaper_loop`, `writer_loop`, `post` | socket, backend, prefetcher, toggle |
| usbfs backend: `usbfs.rs` | pending table of URBs by seqnum, claimed interfaces | `submit`, `unlink`, `wait`, `reap`, `cancel_pending`, `claim_all`, `release_all`, `Drop` | the kernel's usbfs |
| Prefetcher: `prefetch.rs` | per interrupt IN endpoint: URB in flight, captured reports, waiting client, errors | `arm`, `take`, `deliver`, `unlink`, `shutdown` | called by reader and reaper under one lock |
| Exporter: server `lib.rs` | session counter, live sockets | `accept_loop`, `handle`, `import`, `drain`, `run` | registry, device source, sessions |
| Registry: `registry.rs` | leased bus ids | `acquire`, `Drop for Lease` | `import` |
| Toggle: `toggle.rs`, `chord.rs`, `hidraw.rs` | suspended bus ids; a detector per session and per watched device; taps on hidraw nodes | `suspend`, `resume`, `resume_all`, `Gated`, `watch`, `Detector::feed` | reaper (suspends), watcher thread (resumes), device source |
| Attach daemon: attach `main.rs` | tracked attachments, backoff per server | `adopt_existing`, `tick`, `prune`, `try_server`, `attach`, `detach_all` | vhci, exporters |
| vhci interface: `vhci.rs` | none of its own: ports and record files belong to the kernel and `usbip` | `ports`, `occupied_ports`, `records`, `attach`, `detach`, `newly_used` | sysfs, `usbip` |
| Android service: `usbfwd-jni`, Kotlin | the running exporter, the service's lifecycle flags | `start`, `stop`, `onStartCommand`, `watchForDetach`, `cleanup` | exporter |
| Protocol: `usbip-proto` | none: two byte streams | `read_pdu`, `read_ret_submit`, `read_op_request`, `read_devlist_reply`, `encode_*` | socket |
| Discovery: `mdns.rs`, `endpoints()` | the responder's socket and port; what a browse has collected | `announce`, `poll_once`, `goodbye`, `browse`, `collect` | multicast group, attach daemon |
| Descriptors, filters, configuration, logging | none | parsing and formatting | all |

What is hard here, and what makes each part correct:

* **Session and backend.** Three threads and the kernel share a table, a flag
  and a channel. A submit must be answered exactly once or have been unlinked;
  nothing of one session may be answered in the next, although on Android the
  table outlives the session; and the session must end when it is told to, with
  an importer that has stopped reading and a device that is silent.
* **Prefetcher.** Two threads take reports out under a lock and post them after
  having dropped it. Reports must keep their order, the newest must survive,
  and no client may be left waiting.
* **Exporter, registry, toggle.** Handler threads race for a device, for its
  suspension and with the end of the process. One importer per device, nothing
  suspended is forwarded, and the device goes back to its driver before anyone
  else may lease it and before the process ends.
* **Attach daemon.** One thread, but everything it looks at changes between two
  looks. It must not attach a second controller, must know what it attached
  across restarts, and must attach again whatever dropped.
* **Claims.** One driver may own several interfaces, a probe may fail a few
  times or for good, claiming may stop half way. Every interface must get its
  driver back unless the device itself refuses, and the kernel's idea of address,
  configuration and data toggles must not drift from the device's.
* **Chord.** One person, two readers of the same buttons (the session's reaper,
  the watcher's tap) and a hand-over between them while the buttons are down.
* **Android service.** Start and stop overlap with a drain that timed out; a
  handler of an earlier run may still have the device.
* **Protocol.** Nothing in a stream says where a message ends: both sides must
  agree on every length, for refused, blanked, short and oversized transfers.
* **Discovery.** Datagrams are lost, repeated, reordered and late; a browse must
  not mix the port of one exporter with the address of another.

`PROJECT.json` lists the hazards one by one with the line at which each bites
and the properties that would catch it.

## The modules

### `UrbPump`: session.rs over usbfs.rs

One action per step of a thread at which another can come between: the reader
(`Rd...`) checks the flags, reads a PDU, submits or unlinks, posts, and after
`reader_loop` winds the session down step by step (stop flag, socket, join,
cancel, drain); the reaper (`Rp...`) waits, reaps one completion, posts it,
looks at the chord and the unplug; the writer (`Wr...`) receives and writes.
`rdPc`, `rpPc` and `wrPc` are the threads' places, `rdHand` and `rpHand` the
reply a thread has built and not yet posted. `pending` is the table of
`usbfs.rs` with its `unlinked` flag, `kernel` the kernel's side of the same
URBs. `owner`, `sent`, `asked`, `replied`, `unlinkReply` and the field `sess`
of a reply are history: nothing reads them but properties.

Abstracted: transfer data, endpoint and direction; special control requests are
a submit answered at once (`RdSubmitRefused`); prefetching is off. A PDU is an
input of the reader, so an unlink may arrive for anything already submitted.

### `Prefetch`: prefetch.rs within a session

Each call is one action, since it runs under the lock. Between the calls the
reader and the reaper are separate: what they carry away is in `rdHand` and
`rpHand` and reaches `wire` by `RdPost` and `RpPost`. A report is its number in
the device's order. `Base..Top` are the internal seqnums, with the wrap-round.
`OneUrb` restricts the client to one submit per endpoint, as usbhid does.

### `Exporter`: lib.rs, registry.rs, the gate and watcher of toggle.rs

`accPc` is the thread of `accept_loop` through `drain` to the end of the
process, `pc[c]` the handler of connection `c` through `handle` and `import`,
one step per call it makes on shared state, including the returns through `?`
and `refuse` with the order in which locals are dropped. A session is one state
of its handler; that it ends is what `UrbPump` shows. `held` says who has a
device's interfaces: its driver, the handler's own descriptor (Linux), the app's
(Android, `Persistent`), nobody. Interfaces of a device are taken together; a
claim that fails half way leaves the device claimed.

### `AttachDaemon`: main.rs, vhci.rs

`pc` is the daemon's place in a tick; a look at the ports, a call of `usbip` and
a request to an exporter are steps, and ports and exporters change in between.
`st`, `remote` and `rec` are the kernel's ports and the record files of `usbip`.
Time is counted in polls: `Nap` lets one pass. Servers, and the devices of one
server, are tried in any order rather than in the listed one. mDNS only adds
servers to the list and is left out. `Events` selects what may go wrong, a
status file that cannot be read included (`Snapshots`).

### `UrbLedger`: what an importer may rely on

Four variables: a session is up or not, and which submits it has read, answered
and reported as cancelled. `UrbPump` implements it under the mapping in its
definition `Ledger`, and `KeepsLedger` is the refinement. The ledger allows one
thing that is not obvious: a submit that has been answered may still be reported
as reset. A seqnum refused with EBUSY because an entry of the same number is
still in the table is answered at once, and an unlink then finds that older
entry and answers `-ECONNRESET`.

### `AndroidService`: usbfwd-jni, ForwardService.kt, over `Exporter`

EXTENDS `Exporter` and composes it with the main thread of the app (`svc`):
`Begin`, `Stop`, `Join` and `Close` are `begin()` and the steps of `cleanup()`
and `nativeStop`. Each start has a Registry of its own, so the exporter's state
is cleared when a run is over, and whichever of its handlers are still going
after a timed out drain move to `stale`, with what they are about to do: their
import still before them, or their hand-back. `held[d]` says through whose
descriptor the interfaces are held: `"java"`, `"app"` or `"old"`.

### `ToggleChord`: chord.rs, hidraw.rs, toggle.rs, the reaper's side of it

One device, the person who holds its buttons, the detector of the session and
the one of the watcher, and between them the hand-over interface by interface
(`Reconnect`). A report is its button mask. Time is what a detector sees of it:
`Tick` ages every hold that has begun. `press` numbers the presses of the chord;
numbers are reused when no report under way carries them, so that the state
stays finite without bounding the number of presses.

### `InterfaceClaims`: claiming, rebinding and special requests of usbfs.rs

`bound[i]` is the kernel's record of who has interface `i`; `Lead[i]` is the
interface whose driver binds it, so a family of interfaces shares one driver.
`claim_all` and `release_all` are loops with one action per ioctl, so another
program (`Grab`) or an unplug comes in between. A probe may fail as often as the
device likes; after the last attempt the interface is in `lost`, for the warning
at usbfs.rs:509-515. `Lead[i] <= i` is an assumption about devices: a driver
binds several interfaces from its lowest one, as `cdc_acm` does on the puck; then
the second pass of `release_all`, which goes upwards, finds the others bound
already.

During a session the importer sends SETUP packets. `Classify` matches their bytes
as `Special::classify` does; what it names is carried out by an ioctl, of which
the device and the kernel's record both hear (`Ioctl`), and all else goes to the
device alone (`Forward`). What a device does with a packet (`Obeyed`) is taken
from the USB specification and decodes the type by its fields, so that it knows
nothing of `Classify`: only if the two agree on which packets move the address, the
configuration or a toggle do `dev` and `kern` stay equal.

Of the kernel three things are taken as usbfs.rs has them: a probe that fails is an
error of `USBDEVFS_CONNECT` (a kernel that reports it as 0, as if no driver
matched, would see neither a retry nor a warning); an ioctl that fails has not
reached the device; and another program that lets an interface go asks for its
driver back, as `release_all` does, because releasing alone does not
(usbfs.rs:291-293). A program that does not leaves the interface without a
driver, which is not this code's to mend.

### `Wire`: usbip-proto, the reading ends of session.rs and client.rs

Two sequences of numbers, one number for each integer field, character and
payload byte. The client writes, `read_pdu` decides from the fields it has read
how much more belongs to the message, and the exporter's answers go back the
same way. Widths are constants (`Word`, `Byte`, `Nibble`, field lengths), with
wrap-round and sign as in the code; the order of the bytes of one integer is left out.
A client may send lengths, packet counts and commands the exporter refuses.

### `Discovery`: mdns.rs, start_mdns, endpoints()

`net` is the set of datagrams sent; receiving does not remove one, and nothing
forces a reception, so datagrams are lost, repeated, reordered and late. The
source port of a browse is `Socket(round)`. Names are compared in lower case and
cut to a label on the wire. The bound `MaxRecords` stands for MAX_PACKET.

### The proof modules and the MC modules

`UrbPumpProofs` (with the refinement of `UrbLedger`), `PrefetchProofs`,
`ExporterProofs` (with those of `AndroidService`, which use its lemmas),
`AttachDaemonProofs`, `InterfaceClaimsProofs`, `ToggleChordProofs`, `WireProofs`
and `DiscoveryProofs` have the theorems; see below. The MC modules add symmetry
sets and constant definitions for TLC and nothing else.

In every module an operator whose comment begins with "Fault:" is not part of
the specification: it is a plausible mistake in the operation after it, kept to
show that the properties notice it.

## The runs

| run | checks | shows |
|---|---|---|
| `UrbPump_safe` | `TypeOK`, `AnsweredAtMostOnce`, `RepliesAreOwn`, `QuietBetweenSessions`, `TableMatchesKernel`, `NoSubmitLost`, `NoAnswerAfterReset`, `KeepsLedger` | two sessions in a row on one device object, hotkey, all outside events; the pump implements `UrbLedger` |
| `UrbPump_live` | `SessionEnds`, `CompletionAnswered` | a device per session; the session ends under fairness of its threads alone once the stop flag is set, and the rest where the network takes what is written |
| `Prefetch_hid` | `ReportsInOrder`, `NoneHeldFromWaiter`, `HeldAreFreshest`, `UrbsAreKnown`, `NoSubmitForgotten`, `CompletionSettlesWaiter` | one endpoint, usbhid's habit, refused and failed URBs, unplug, a seqnum counter that wraps |
| `Exporter_linux` | `SuspendedNotImported`, `HandedBack`, `ExitRestores` | three connections, two devices, every failure, a stop at any moment |
| `AndroidService` | `OneImporter`, `StopRestores`, `SessionKeepsDevice`, `StopReturns`, `DrainEnds` | any number of starts and stops over one device, timed out drains, failed polls, handlers of earlier runs |
| `AttachDaemon_one` | `OneController`, `AttachmentsTracked`, `FailedPortsTracked`, `Reattaches` | `stop_after_first`, two servers, restarts anywhere, no record files |
| `AttachDaemon_all` | `HealthyNeverDetached` | several devices, other users of vhci, unreadable status, failing detaches |
| `ToggleChord_one` | `OnePressOneToggle`, `ChordResumes` | a session and the watcher around one device of two interfaces; SIGHUP, failing rebinds, nodes that may not be read |
| `InterfaceClaims` | `DriversRestored`, `ClaimsMatchKernel`, `KernelInStep` | a comms pair with one driver, a HID interface and one without a driver; both ways of claiming, probes that fail once, twice or for good, other programs, unplug; 288 SETUP packets, standard and class, writing and reading |
| `Wire` | `HeardAsSent`, `GotAsPosted`, `RepliesFit`, `ListedAsExported` | a whole connection with two commands, over all combinations of direction, endpoint, length, wLength and packet count |
| `Discovery` | `FoundIsOffered`, `HeardIsFound` | two exporters that come, go and move to other ports, two browses |

One further run is expected to fail: it states what the log line of
toggle.rs:153 tells the user, and TLC shows a behaviour of the code that
disagrees. In `ToggleChord_half`, `SameChordResumes` is violated: the watcher
looks for hidraw nodes while `release_all` is still rebinding (toggle.rs:247),
opens the ones that are there, and keeps that tap as long as none of its nodes
goes away, although the interface that carries the buttons came later. SIGHUP
still resumes the device. `ChordResumes` is the same statement without that case.

### What the passing properties leave out

Where a property has a premise, or a bound excludes something, the code does
behave otherwise beyond it:

* A RET_SUBMIT may follow RET_UNLINK(0) for the same submit: the reaper had
  taken the URB out of the table and not posted yet, so the unlink found nothing.
  The comment at session.rs:248-250 speaks of the backend suppressing it.
  `NoAnswerAfterReset` is about RET_UNLINK(-ECONNRESET).
* A re-arm refused inside `take` (prefetch.rs:191) leaves a registered client on
  an endpoint without a URB; `CompletionSettlesWaiter` is about endpoints that
  have one.
* With two endpoints and a wrapped counter (prefetch.rs:316, after 2^31
  reports) the seqnum of an idle endpoint's URB is met again: the arm is refused
  with EBUSY and counts as an error, and a seqnum reaped but not yet delivered
  may be used again, so that `deliver` takes the report for one of the other
  endpoint (TLC finds `UrbsAreKnown` violated with two endpoints and such a
  counter). One endpoint does not meet itself; the theorems below say exactly
  that, and that nothing of the kind happens before the counter wraps.
* A device that fails all of the `RECONNECT_ATTEMPTS` probes of an interface
  leaves it without a driver until it is plugged in again or forwarded again
  (usbfs.rs:334, 509-515); `DriversRestored` has this as its exception. `Exporter`
  does not look at single interfaces: there a device is handed back when
  `release_all` has run.
* When the import reply cannot be written (lib.rs:511) `?` skips
  `release_all`: on Linux the descriptor goes with the handler, on Android the
  device stays claimed until the next import or the stop.
* On Linux `ExitRestores` is about an exit that is not cut short: a drain that
  times out, or a poll error (lib.rs:357, which skips the drain), ends the
  process with sessions running (`accPc` is then `"aborted"`).
* A handler left over by a timed out drain with its claim still before it takes
  the interfaces from the new run's session; `SessionKeepsDevice` excludes it.
* `FailedPortsTracked` and `Reattaches` assume that `usbip detach` works: an
  entry is forgotten before its port is detached (main.rs:366-382).
  `OneController` assumes that vhci's status can be read. `--detach-all` leaves
  ports that are in error or being enumerated.
* Without `stop_after_first` a device whose port drops and is taken by the next
  server's device before the next `prune` stays in `attached` and is not
  attached again (main.rs:369); two entries for one port make `prune` detach it
  twice. `AttachDaemon_one` checks `Reattaches` with it.
* `run` does not join the mDNS thread, so a goodbye may never be sent, and
  `collect` ignores the TTL, so a goodbye would be taken for an announcement if
  it reached a browse; it does not, since answers to a browse are unicast to a
  port of its own. `endpoints` compares hosts and not ports, so a second exporter
  on one host is not tried. A name longer than 63 bytes is cut on the wire but
  compared uncut, so a direct query for it is not answered.

### Bounds

Two seqnums and two sessions are the smallest instance in which a leftover of
one session meets another, in which two submits compete for the outbox, and in
which a seqnum is used again; the outbox has one place, so that it is full as
soon as anything waits in it (the theorems hold for any number and depth). Four
reports against a depth of two make the capture buffer overflow twice; three
internal seqnums make the counter wrap. Three connections with `MaxSessions` of
two reach the limit while two handlers race; two devices make the drain wait for
two claims. Two vhci ports let a port be reused while another is busy, and a
retry range of 1 to 3 polls has a first delay, a doubled one and the ceiling;
`AttachDaemon_all` runs with one server offering two devices and a ceiling of 2
to stay small. Prefetching is checked with one endpoint: two have more than
14 million states at these depths.

In `AndroidService` two connections per run and at most one stale handler when
a new run begins let two handlers race in each run and an old one meet a new
session. In `ToggleChord` one report may be waiting and a hold lasts one tick,
which separates a report before the hold from one after it; two interfaces let
the tap open between them. In `InterfaceClaims` four interfaces are the puck's
shape, and three attempts (`RECONNECT_ATTEMPTS` is larger) have a first, a
middle and a last. In `Wire` a u32 has 8 values and a u8 has 4, so that wrap and
sign happen; lengths go from -1 to one past the limit, and two commands let the
second be misread because of the first. In `Discovery` five datagrams, two reads
per browse and two starts let an answer to the first browse, or of an earlier
start, arrive in the second. Symmetry is used only in runs without liveness
(`KeepsLedger` is a safety property), over seqnums, connections and devices,
which no action orders or names.

### Fairness

* `UrbPump!ThreadFairSpec`: each of the three threads keeps running; nothing is
  assumed of importer, network or device. The threads only block in calls that
  the specification makes wait. The part of `SessionEnds` about an unplug and a
  termination, and `CompletionAnswered`, have `NetworkFairness` as a premise:
  `write_all` returns (keepalive and TCP's own timeouts bound a stall), and the
  accept loop gets to `drain`.
* `Prefetch!FairSpec`: the reaper runs and posts get through.
* `AndroidService!AFairSpec`: the accept thread and the main thread run.
  `StopReturns` adds that time passes (`DrainTimeout`) and nothing about
  handlers; `DrainEnds` adds that handlers run (`Exporter!HandlersRun`) and
  nothing about time: the handshake has a read timeout and a session ends once
  its socket is shut, which is `SessionEnds` of `UrbPump`.
* `ToggleChord!Fairness`: the watcher, the reaper and the hand-over run, the
  device goes on reporting its buttons, time passes. `ChordResumes` has
  `WayBack` as its premise: the person goes on trying and holds the chord long
  enough to be seen, the driver of the speaking interface comes back, its node
  may be read, and the process lives.
* `AttachDaemon!FairSpec`: the daemon runs, and is started again when it stops
  (systemd); requests to exporters have a timeout, and `usbip` is assumed to
  return. `Reattaches` speaks of a daemon that is no longer stopped.

## The proofs

Each proof module proves its theorems for all constants that satisfy the
assumptions of the module it extends: any number of seqnums, endpoints,
connections, devices, servers, ports or interfaces, any depth or limit. The
assumptions say that limits are positive numbers, that `Lead[i] <= i`, that a
pseudo-value such as `Nothing` is not a value, and the like. Those that say
something about the program:

* `Wire`: the exported devices have fields of the widths the code gives them, a
  text has no NUL in it (paths and bus ids come from sysfs), the list is no longer
  than `MaxDevlist`, and that is less than a u32 holds; a request's lengths and
  counts are i32, and so are the errno values of replies.
* `InterfaceClaims`: a SETUP packet's type and request are bytes, its value and
  index numbers (`SetupsAssumption`).
* `Discovery`: three records fit into the receive buffer (`RecordsAssumption`).
  MAX_PACKET is 9000 bytes, names are cut to labels of 63 bytes, and the TXT
  record has the one string `allow=...`, cut to 255.
* `AndroidOptions` is a conjunct of `AInit` and no assumption, so that the
  theorems on `Exporter` in the same module are about every choice of options.

| module | theorem | states |
|---|---|---|
| `UrbPumpProofs` | `TypeCorrect` | `Spec => []TypeOK` |
| | `AnsweredOnce` | `Spec => []AnsweredAtMostOnce` |
| | `OwnReplies` | `Spec => []RepliesAreOwn` |
| | `QuietAtEnd` | `Spec => []QuietBetweenSessions` |
| | `TableIsExact` | `Spec => []TableMatchesKernel` |
| | `ResetSilences` | `Spec => NoAnswerAfterReset` |
| | `NothingLost` | `Spec => []NoSubmitLost` |
| | `PumpKeepsLedger` | `Spec => KeepsLedger`, the refinement of `UrbLedger` |
| `PrefetchProofs` | `PrefetchTypes` | `Spec => []TypeOK` |
| | `WaiterIsServed` | `Spec => []NoneHeldFromWaiter` |
| | `SubmitsAreRemembered` | `Spec => []NoSubmitForgotten` |
| | `UrbsStayKnown`, `ReportsStayInOrder`, `HeldStayFreshest` | `Spec /\ []SeqnumRests =>` `[]UrbsAreKnown`, `[]ReportsInOrder`, `[]HeldAreFreshest` |
| | `OneEndpointRests`, `NoWrapRests` | `[]SeqnumRests` with one endpoint; until the counter wraps |
| | `OneEndpointIsSafe`, `SafeUntilWrap` | the three together in these two cases |
| `ExporterProofs` | `ExporterTypes` | `Spec => []TypeOK`, the exact session count included |
| | `OneImporterPerDevice` | `Spec => []OneImporter` |
| | `SuspendedStaysOff` | `Spec => []SuspendedNotImported` |
| | `LeaseCoversClaim` | `Spec => []HandedBack`, if `~Persistent` |
| | `DrainedExitRestores` | `Spec => []ExitRestores` |
| | `OneImporterPerRun` | `ASpec => []OneImporter` |
| | `StopGivesBack` | `ASpec => []StopRestores` |
| | `SessionsKeepDevice` | `ASpec => SessionKeepsDevice` |
| `AttachDaemonProofs` | `DaemonTypes` | `Spec => []TypeOK` |
| | `PruneSparesHealthy` | `Spec => HealthyNeverDetached` |
| | `AttachmentsAreTracked` | `Spec => []AttachmentsTracked`, if `Undisturbed` |
| | `FailedPortsAreTracked` | `Spec => []FailedPortsTracked`, if also `usbip detach` works |
| | `OneControllerOnly` | `Spec => []OneController`, if the status file is readable |
| `InterfaceClaimsProofs` | `ClaimsExact` | `Spec => []ClaimsMatchKernel` |
| | `DriversComeBack` | `Spec => []DriversRestored` |
| | `RecordInStep` | `Spec => []KernelInStep` |
| `ToggleChordProofs` | `ChordTypes` | `Spec => []TypeOK` |
| | `OneTogglePerPress` | `Spec => []OnePressOneToggle` |
| `WireProofs` | `StreamsAreMessages` | `Spec => []IInv`: each stream is the encodings of the messages not read yet |
| | `CommandsHeardAsSent` | `Spec => []HeardAsSent` |
| | `RepliesGotAsPosted` | `Spec => []GotAsPosted` |
| | `RepliesAlwaysFit` | `Spec => []RepliesFit` |
| | `DevicesListedAsExported` | `Spec => []ListedAsExported` |
| `DiscoveryProofs` | `GatheredTogether` | `Spec => []IInv`: what a browse has gathered belongs together and is complete |
| | `FoundWasOffered` | `Spec => []FoundIsOffered` |
| | `HeardWasFound` | `Spec => []HeardIsFound` |

TLC checks every inductive invariant below on the constants of the runs too: a
proof module can be extended beside the MC module (`PInv` also with three
reports under way).

**`UrbPump`.** That a submit is answered once is not inductive: it needs to know
that a URB still in the table has not been answered (`LiveUnanswered`), nor one
whose reply a thread holds (`HeldUnanswered`), nor a seqnum not read yet
(`UnreadUnanswered`); that the two threads never hold a reply to the same
submit, which follows from a held reply's URB being out of the table
(`HandsMatchPcs`, `HandsAreOwn`); that the table and the kernel agree
(`TableMatchesKernel`), so that a seqnum can be reused only when the kernel is
done with it; that the reaper and the writer are gone before the URBs are
cancelled (`ThreadsJoined`), which is what makes `QuietBetweenSessions`
inductive across sessions; and that after a reset the entry is marked and stays
so (`ResetIsFinal`). `OutboxIsOwn` adds that what is in the channel belongs to
the session.

The refinement of `UrbLedger` adds one thing to that invariant, that an unlink is
answered once (`UnlinkedOnce`): without it a second RET_UNLINK could take a reset
back. Then a reply that goes from a hand into the outbox is the ledger's `Answer`
or `Reset`, the four ways of reading a submit are `Read`, `StartSession` and
`RdEnd` are `Begin` and `End`, and every other action leaves the mapped variables
alone (`Silent`).

**`Prefetch`.** `TInv` says what can be in which place: types, who may hold what
at which place of its thread, and that a waiter and a held report exclude each
other. `Known` adds the seqnums: a URB in the kernel, or reaped and not
delivered, is the one its endpoint has recorded, under a number that no other
endpoint has. Order is then a statement about one endpoint: what has gone out,
what a hand carries, what is held and what the device will make next, one after
the other, are increasing (`Ordered`); it needs that reader and reaper never
carry a report of one endpoint at the same time (`OneHand`), although they post
without a common lock. The actions are reduced to eight things that can happen
to one endpoint (`EveryMove`), and the order is proved for each of these. `Fresh`
says of the held reports that they have no gap and end at the newest.

`SeqnumRests` is a hypothesis and not an assumption: it says that the counter
does not issue a number whose completion has been reaped and not yet delivered.
The code does not check this. It follows with one endpoint, because the endpoint
that would be armed with it is the one that waits for it, and with any number of
endpoints until the counter has used up its range; both are theorems, so that
`OneEndpointIsSafe` and `SafeUntilWrap` are about the specification alone.

**`Exporter` and `AndroidService`.** `LInv`: a handler past `acquire` has a lease
of its device and no other handler has (`Leases`), `sessions` is the number of
handlers that have been counted (`Counted`), and whoever has the interfaces is
that handler (`Holding`). `HandedBack` is about descriptors that go with
their handler: with the app's one (`Persistent`) a failed reply leaves the device
claimed, as said above. `AInv` repeats this for one run of the service at a
time: the handlers of earlier runs (`stale`) have no lease in this Registry, an
idle service has none either (`IdleIsOver`), and `Hands` says through whose
descriptor the interfaces can be held.

**`AttachDaemon`.** `prune` detaches what it has condemned: `Condemned` says that
a port on that list does not work, or works for somebody else who has taken it,
until the daemon acts. `AliveTracked` says that a working port is tracked or is
the one that `attach` is waiting for; it is false when others use vhci or the
status cannot be read (`Undisturbed`), since then a port is taken that the
daemon has not looked at. `FailedTracked` says the same of ports in error, and
`Single` that a daemon which goes on trying servers has nothing attached;
`OneController` itself speaks of a vhci nobody else uses, so that of `Undisturbed`
only the readable status is left as a hypothesis.

**`InterfaceClaims`.** That the table of claims is exact needs that nothing is in
`State.claimed` while `release_all` works from its own copy
(`NoneWhileReleasing`), and that only a new device ends the absence of an old
one (`GoneStays`). `DriversRestored` needs `Lead[i] <= i`: families are taken
from their drivers as a whole (`Whole`), and while the second pass goes upwards
an interface without its driver has its leader still before it (`Awaited`), or
behind it and in `lost` (`Settled`). An interface gets there only when its last
probe failed with all of its family free, so a failure that `release_all` caused
itself, by still holding a sibling, is no excuse. `KernelInStep` rests on
`RawMovesNothing`: for every type and request byte, a packet that `Classify` has no
name for is one that `Obeyed` takes for no change.

**`ToggleChord`.** `PInv`: whoever reads the queue has it alone (`Ears`); behind a
report that shows the chord released there is no press that has toggled
(`SpentAreOver`) and none that was seen before it (`PressesDiffer`); and no
press that an armed detector can still see has toggled (`ArmedIsFresh`). The watcher
feeds all it has read at one instant, so this needs what `FeedAll` computes for
every batch (`BatchEffect`), by induction over its length. The library's
induction theorems have an operator as parameter, which the provers cannot
instantiate; `LeastMember` and `Induction` state the principle for sets of
numbers instead, from the well-foundedness of `<`, and `CourseExists` shows by
it that the recursive function in `FeedAll` is the one its equation says. That a new press
finds a number no report carries is the pigeonhole principle (`FreshPress`).

**`Wire`.** `IInv` says what each stream is made of: `CommandStream` that the bytes
on the way to the exporter are the encodings, one after the other, of the commands
sent and not heard, behind a request not yet served; `ReplyStream` the same of the way
back. A step of a writer appends one encoding. A step of a reader needs that decoding
an encoding with anything behind it gives the message back and leaves what is behind
it (`Reads` for commands, `Answers` for replies); as `read_pdu` computes from the
fields it has how much more belongs to the message, this needs that a reply's
length says how much data it has (`Fits`), which goes back to the submit it answers
(`Urbs`: what is pending has the direction and length that were asked for). The
device list is read record by record, at offsets that depend on the number of
interfaces before (`Offsets`, `ListReads`, by induction over the list), and its
text fields up to the padding (`TextRead`). The guards of the readers say in the
specification itself that a whole message is there (`DevlistThere`, `ImportThere`,
`ReplyThere`). `Cat` is `\o` under a name the provers do not take apart.

**`Discovery`.** That an entry's parts belong together is a fact about lists:
`browse()` finds the first SRV and the first TXT record of a name separately. They
come from one answer, because every answer adds one of each, so that both lists
have equal length and equal names at each place, told of one offer (`Belongs`). An
instance is listed under the first spelling heard, and an SRV record is looked up
letter by letter: `Complete` says that each listed name has one, that no two listed
names differ in case alone (so that `dedup_by` finds nothing to remove), and that
all that was heard of is listed. This holds across a cut-off datagram only if
the cut is behind the third record (`ReadableOf`). `Datagrams` says that an answer at this
browse's socket tells of an offer made since it began, whereas an older answer went
to an older socket; `OnOffer` that what an exporter will answer with has been
offered. The three loops (`Collected`, `Kept`, `Endpoints`) are recursive functions;
that each has a run which ends in its result (`CollectedRuns`, `KeptRuns`,
`EndpointsRuns`) is proved by induction over their lengths.

Only model-checked:

* all liveness properties (`SessionEnds`, `CompletionAnswered`,
  `CompletionSettlesWaiter`, `StopReturns`, `DrainEnds`, `Reattaches`,
  `ChordResumes`): fairness is defined by ENABLED, which the prover has not.

Every invariant, every safety action property and the refinement that a passing run
checks has a theorem. `HandedBack`, `AttachmentsTracked`, `FailedPortsTracked`,
`OneController` and the three of `Prefetch` are proved under the hypotheses in the
table, which the runs' constants satisfy.

## Not modelled

* Descriptors, device enumeration and filters (`descriptors.rs`, `enumerate.rs`,
  `filter.rs`, `sys.rs`): functions from bytes and sysfs files to records, without
  state or order; unit tests reach what could be wrong with them.
* Configuration, TOML and the command line: they run before the first state.
* The text of vhci's status file, chord names, mDNS name compression and the
  listing of network interfaces: text and bytes. Binding the listening addresses.
* Logging; the flags set by signal handlers are events of the modules that read
  them. Install scripts, unit files, the Android activity and its notifications.
* `session::run` failing to clone the socket or to spawn a thread after
  `prefetch.arm()` (session.rs:81): it needs `Prefetch` and `UrbPump` composed.

## Plan

Done: `UrbPump` with its refinement of `UrbLedger`, `Prefetch`, `Exporter`,
`AndroidService`, `AttachDaemon`, `ToggleChord`, `InterfaceClaims`, `Wire`,
`Discovery`, and the proofs of their safety properties. What would come next is
`Prefetch` and `UrbPump` composed, for the hazard at session.rs:81,
and `prefetch.rs` with more than one endpoint over a wrap of the counter, where
`SeqnumRests` is not guaranteed by the code.
