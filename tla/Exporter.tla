------------------------------ MODULE Exporter ------------------------------
(***************************************************************************)
(* The exporting process around the sessions: the accept loop and its      *)
(* drain (lib.rs), one handler thread per connection (handle, import), the *)
(* lease registry (registry.rs), the toggle's set of suspended devices with *)
(* its gate and watcher (toggle.rs), and who holds a device's interfaces.  *)
(*                                                                         *)
(* A session is one state of its handler here; module UrbPump has what     *)
(* happens inside it.  The interfaces of a device are taken together: a    *)
(* claim that fails half way leaves the device claimed.                    *)
(***************************************************************************)
EXTENDS Naturals, FiniteSets

CONSTANTS
  Conns,        \* connections, each made at most once
  Devs,         \* bus ids of the exportable devices
  MaxSessions,  \* MAX_SESSIONS
  Persistent,   \* TRUE: SingleDevice (Android); FALSE: SysfsDevices (Linux)
  Hotkey,       \* TRUE: a toggle chord is configured
  Events        \* bound: which of the outside events below may happen

ASSUME MaxSessionsAssumption == MaxSessions \in Nat \ {0}
ASSUME OptionsAssumption == Persistent \in BOOLEAN /\ Hotkey \in BOOLEAN
ASSUME EventsAssumption ==
  Events \subseteq {"close", "unplug", "terminate", "hangup", "pollError",
                    "cloneFails", "spawnFails", "claimFails", "rebindFails",
                    "drainTimeout"}

\* Who has a device's interfaces, besides a handler's own descriptor; nobody
\* where the driver refused to come back ("unbound") or was not asked ("none").
\* On Android "app" is the exporter's duplicate of the service's descriptor, and
\* "java" the claims of the service itself.
Others == {"driver", "app", "java", "unbound", "none", "unplugged"}
ASSUME ConnsAssumption == Conns \cap Others = {}

VARIABLES
  accPc,        \* the thread in accept_loop, and the process around it
  shutting,     \* stop(): SIGTERM, or nativeStop
  count,        \* sessions, the number of connections being handled
  live,         \* the connections whose socket drain() can reach
  shut,         \* connections whose socket was shut down by drain()
  closed,       \* connections the client closed or lost
  pc,           \* the handler thread of each connection
  dev,          \* the device a connection asked to import
  busy,         \* Registry.busy, the leased devices
  suspended,    \* Toggle.suspended
  held          \* external: who has the interfaces of each device

accept  == <<accPc, shutting, count, live>>
socket  == <<shut, closed>>
handler == <<pc, dev>>
vars == <<accept, socket, handler, busy, suspended, held>>

\* Where a handler stands while its local `lease` exists.
Leased == {"open", "claim", "reply", "session", "windup", "release", "drop",
           "unlease"}
Handling == {"handshake", "list", "acquire"} \cup Leased \cup {"leave", "uncount"}

\* The descriptor a handler claims interfaces through.
Owner(c) == IF Persistent THEN "app" ELSE c

InitAt(thread) ==
  /\ accPc = thread /\ shutting = FALSE
  /\ count = 0 /\ live = {}
  /\ shut = {} /\ closed = {}
  /\ pc = [c \in Conns |-> "none"]
  /\ dev \in [Conns -> Devs]
  /\ busy = {} /\ suspended = {}
  /\ held = [d \in Devs |-> "driver"]

Init == InitAt("loop")

-----------------------------------------------------------------------------
(* The environment.                                                        *)

ClientClose(c) ==
  /\ "close" \in Events /\ pc[c] \in Handling /\ c \notin closed
  /\ closed' = closed \cup {c}
  /\ UNCHANGED <<accept, shut, handler, busy, suspended, held>>

Terminate ==
  /\ "terminate" \in Events /\ ~shutting
  /\ shutting' = TRUE
  /\ UNCHANGED <<accPc, count, live, socket, handler, busy, suspended, held>>

Unplug(d) ==
  /\ "unplug" \in Events /\ held[d] # "unplugged"
  /\ held' = [held EXCEPT ![d] = "unplugged"]
  /\ UNCHANGED <<accept, socket, handler, busy, suspended>>

\* The device comes back under the same bus id and its driver binds.
Replug(d) ==
  /\ ~Persistent /\ held[d] = "unplugged"
  /\ held' = [held EXCEPT ![d] = "driver"]
  /\ UNCHANGED <<accept, socket, handler, busy, suspended>>

-----------------------------------------------------------------------------
(* accept_loop.                                                            *)

\* A connection is accepted, counted, and its handler spawned.  The clone of
\* the socket that drain() will need may fail, and so may the spawn.
Accept(c) ==
  /\ accPc = "loop" /\ pc[c] = "none" /\ count < MaxSessions
  /\ count' = count + 1
  /\ \E cloned \in {TRUE, "cloneFails" \notin Events} :
       live' = IF cloned THEN live \cup {c} ELSE live
  /\ pc' = [pc EXCEPT ![c] = "handshake"]
  /\ UNCHANGED <<accPc, shutting, socket, dev, busy, suspended, held>>

AcceptSpawnFails(c) ==
  /\ "spawnFails" \in Events
  /\ accPc = "loop" /\ pc[c] = "none" /\ count < MaxSessions
  /\ pc' = [pc EXCEPT ![c] = "done"]
  /\ UNCHANGED <<accept, socket, dev, busy, suspended, held>>

\* MAX_SESSIONS connections are open: the new one is dropped.
AcceptRefused(c) ==
  /\ accPc = "loop" /\ pc[c] = "none" /\ count >= MaxSessions
  /\ pc' = [pc EXCEPT ![c] = "done"]
  /\ UNCHANGED <<accept, socket, dev, busy, suspended, held>>

\* poll() on the listeners fails: the loop returns at once, without drain().
AcceptPollFails ==
  /\ "pollError" \in Events /\ accPc = "loop"
  /\ accPc' = "cut"
  /\ UNCHANGED <<shutting, count, live, socket, handler, busy, suspended, held>>

AcceptStop ==
  /\ accPc = "loop" /\ shutting
  /\ accPc' = "drain"
  /\ UNCHANGED <<shutting, count, live, socket, handler, busy, suspended, held>>

\* Fault: drain() waits without unblocking the readers.
DrainShutNothing ==
  /\ accPc = "drain"
  /\ accPc' = IF count = 0 THEN "ended" ELSE "wait"
  /\ UNCHANGED <<shutting, count, live, socket, handler, busy, suspended, held>>

\* drain(): nothing to do, or every live socket is shut down.
DrainShut ==
  /\ accPc = "drain"
  /\ accPc' = IF count = 0 THEN "ended" ELSE "wait"
  /\ shut' = IF count = 0 THEN shut ELSE shut \cup live
  /\ UNCHANGED <<shutting, count, live, closed, handler, busy, suspended, held>>

\* Fault: the drain does not wait for the sessions.
DrainDoneEarly ==
  /\ accPc = "wait"
  /\ accPc' = "ended"
  /\ UNCHANGED <<shutting, count, live, socket, handler, busy, suspended, held>>

\* The last session is over ...
DrainDone ==
  /\ accPc = "wait" /\ count = 0
  /\ accPc' = "ended"
  /\ UNCHANGED <<shutting, count, live, socket, handler, busy, suspended, held>>

\* ... or DRAIN_TIMEOUT has passed.
DrainTimeout ==
  /\ "drainTimeout" \in Events
  /\ accPc = "wait" /\ count # 0
  /\ accPc' = "cut"
  /\ UNCHANGED <<shutting, count, live, socket, handler, busy, suspended, held>>

\* Linux: run() joins the watcher, which only ends on the stop signal, and
\* returns.  Handlers die with the process; the kernel closes what they held
\* and binds no driver.
Exit ==
  /\ ~Persistent /\ accPc \in {"ended", "cut"} /\ (Hotkey => shutting)
  /\ accPc' = IF accPc = "cut" THEN "aborted" ELSE "exited"
  /\ pc' = [c \in Conns |-> IF pc[c] \in Handling THEN "killed" ELSE pc[c]]
  /\ held' = [d \in Devs |-> IF held[d] \in Others THEN held[d] ELSE "none"]
  /\ busy' = {}
  /\ UNCHANGED <<shutting, count, live, socket, dev, suspended>>

\* Android: the device object goes with the last thread that knows it.
DropDevice ==
  /\ Persistent /\ accPc \in {"ended", "cut"}
  /\ \A c \in Conns : pc[c] \notin Handling
  /\ accPc' = "exited"
  /\ held' = [d \in Devs |-> IF held[d] = "app" THEN "driver" ELSE held[d]]
  /\ UNCHANGED <<shutting, count, live, socket, handler, busy, suspended>>

-----------------------------------------------------------------------------
(* A handler thread: handle() and import().                                *)

Goto(c, next) == pc' = [pc EXCEPT ![c] = next]

\* read_op_request fails, times out, or yields nothing supported; or a device
\* list is asked for and sent.
HandshakeOther(c) ==
  /\ pc[c] = "handshake"
  /\ Goto(c, "leave")
  /\ UNCHANGED <<accept, socket, dev, busy, suspended, held>>

HandshakeImport(c) ==
  /\ pc[c] = "handshake" /\ c \notin shut
  /\ Goto(c, "list")
  /\ UNCHANGED <<accept, socket, dev, busy, suspended, held>>

\* Gated::list over the source: SingleDevice always lists its device.
Listed(d) == d \notin suspended /\ (Persistent \/ held[d] # "unplugged")

ListCheck(c) ==
  /\ pc[c] = "list"
  /\ Goto(c, IF Listed(dev[c]) THEN "acquire" ELSE "leave")
  /\ UNCHANGED <<accept, socket, dev, busy, suspended, held>>

\* Fault: the registry is not asked.
AcquireAlways(c) ==
  /\ pc[c] = "acquire"
  /\ Goto(c, "open")
  /\ busy' = busy \cup {dev[c]}
  /\ UNCHANGED <<accept, socket, dev, suspended, held>>

Acquire(c) ==
  /\ pc[c] = "acquire"
  /\ Goto(c, IF dev[c] \in busy THEN "leave" ELSE "open")
  /\ busy' = busy \cup {dev[c]}
  /\ UNCHANGED <<accept, socket, dev, suspended, held>>

\* Fault: Gated::open trusts the list.
OpenUngated(c) ==
  /\ pc[c] = "open"
  /\ Goto(c, IF Persistent \/ held[dev[c]] # "unplugged" THEN "claim" ELSE "unlease")
  /\ UNCHANGED <<accept, socket, dev, busy, suspended, held>>

\* Gated::open, then the source's open.
Open(c) ==
  /\ pc[c] = "open"
  /\ Goto(c, IF Listed(dev[c]) THEN "claim" ELSE "unlease")
  /\ UNCHANGED <<accept, socket, dev, busy, suspended, held>>

\* claim_all evicts whatever is bound, a usbfs client included.
Claim(c) ==
  /\ pc[c] = "claim" /\ held[dev[c]] # "unplugged"
  /\ held' = [held EXCEPT ![dev[c]] = Owner(c)]
  /\ Goto(c, "reply")
  /\ UNCHANGED <<accept, socket, dev, busy, suspended>>

\* It fails before or after the first interface.
ClaimFails(c) ==
  /\ pc[c] = "claim" /\ ("claimFails" \in Events \/ held[dev[c]] = "unplugged")
  /\ \/ UNCHANGED held
     \/ /\ held[dev[c]] # "unplugged"
        /\ held' = [held EXCEPT ![dev[c]] = Owner(c)]
  /\ Goto(c, "drop")
  /\ UNCHANGED <<accept, socket, dev, busy, suspended>>

ReplyOk(c) ==
  /\ pc[c] = "reply" /\ c \notin shut
  /\ Goto(c, "session")
  /\ UNCHANGED <<accept, socket, dev, busy, suspended, held>>

\* write_all fails: import() returns through `?`.
ReplyFails(c) ==
  /\ pc[c] = "reply" /\ c \in shut \cup closed
  /\ Goto(c, "drop")
  /\ UNCHANGED <<accept, socket, dev, busy, suspended, held>>

\* The reaper sees the chord: suspend, then the session winds down.
ChordFires(c) ==
  /\ Hotkey /\ pc[c] = "session" /\ held[dev[c]] = Owner(c)
  /\ suspended' = suspended \cup {dev[c]}
  /\ Goto(c, "windup")
  /\ UNCHANGED <<accept, socket, dev, busy, held>>

\* The socket or the device is gone.
SessionStops(c) ==
  /\ pc[c] = "session" /\ (c \in shut \cup closed \/ held[dev[c]] # Owner(c))
  /\ Goto(c, "windup")
  /\ UNCHANGED <<accept, socket, dev, busy, suspended, held>>

\* The reader looks at the stop flag after the client's next PDU.
SessionNoticesStop(c) ==
  /\ pc[c] = "session" /\ shutting
  /\ Goto(c, "windup")
  /\ UNCHANGED <<accept, socket, dev, busy, suspended, held>>

\* session::run returns.
SessionReturns(c) ==
  /\ pc[c] = "windup"
  /\ Goto(c, "release")
  /\ UNCHANGED <<accept, socket, dev, busy, suspended, held>>

\* What release_all leaves behind: the driver, or nothing where the rebind
\* failed.  Interfaces the descriptor does not hold are left alone.
HandBack(c) ==
  \E left \in {"driver"} \cup {r \in {"unbound"} : "rebindFails" \in Events} :
    held' = [held EXCEPT ![dev[c]] = IF @ = Owner(c) THEN left ELSE @]

\* Fault: the lease goes before the interfaces.
ReleaseAfterLease(c) ==
  /\ pc[c] = "release"
  /\ Goto(c, "drop")
  /\ busy' = busy \ {dev[c]}
  /\ UNCHANGED <<accept, socket, dev, suspended, held>>

Release(c) ==
  /\ pc[c] = "release"
  /\ HandBack(c)
  /\ Goto(c, "unlease")
  /\ UNCHANGED <<accept, socket, dev, busy, suspended>>

\* An early return: locals go in reverse order, the device before the lease.
\* On Linux that is the last reference, and Drop releases the interfaces.
DropLocals(c) ==
  /\ pc[c] = "drop"
  /\ IF Persistent THEN UNCHANGED held ELSE HandBack(c)
  /\ Goto(c, "unlease")
  /\ UNCHANGED <<accept, socket, dev, busy, suspended>>

Unlease(c) ==
  /\ pc[c] = "unlease"
  /\ busy' = busy \ {dev[c]}
  /\ Goto(c, "leave")
  /\ UNCHANGED <<accept, socket, dev, suspended, held>>

Leave(c) ==
  /\ pc[c] = "leave"
  /\ live' = live \ {c}
  /\ Goto(c, "uncount")
  /\ UNCHANGED <<accPc, shutting, count, socket, dev, busy, suspended, held>>

Uncount(c) ==
  /\ pc[c] = "uncount"
  /\ count' = count - 1
  /\ Goto(c, "done")
  /\ UNCHANGED <<accPc, shutting, live, socket, dev, busy, suspended, held>>

-----------------------------------------------------------------------------
(* The toggle's watcher.                                                   *)

WatcherRuns == Hotkey /\ ~shutting /\ accPc \notin {"exited", "aborted"}

\* The chord is read back off the hidraw node of the rebound driver.
WatcherResume(d) ==
  /\ WatcherRuns /\ d \in suspended /\ held[d] = "driver"
  /\ suspended' = suspended \ {d}
  /\ UNCHANGED <<accept, socket, handler, busy, held>>

\* SIGHUP: everything is on offer again.
Hangup ==
  /\ "hangup" \in Events /\ WatcherRuns /\ suspended # {}
  /\ suspended' = {}
  /\ UNCHANGED <<accept, socket, handler, busy, held>>

-----------------------------------------------------------------------------
HandlerStep(c) ==
  \/ HandshakeOther(c) \/ HandshakeImport(c) \/ ListCheck(c) \/ Acquire(c)
  \/ Open(c) \/ Claim(c) \/ ClaimFails(c) \/ ReplyOk(c) \/ ReplyFails(c)
  \/ SessionStops(c) \/ SessionReturns(c) \/ Release(c) \/ DropLocals(c)
  \/ Unlease(c) \/ Leave(c) \/ Uncount(c)

AcceptStep == AcceptStop \/ DrainShut \/ DrainDone \/ DrainTimeout \/ Exit

\* Every connection there is has been made, or the loop is over.
Waiting ==
  /\ \/ accPc = "loop" /\ \A c \in Conns : pc[c] # "none"
     \/ accPc \in {"wait", "ended", "cut", "exited", "aborted"}
  /\ UNCHANGED vars

\* The Linux process; module AndroidService has the one inside the app.
Next ==
  \/ \E c \in Conns :
       \/ ClientClose(c) \/ Accept(c) \/ AcceptSpawnFails(c) \/ AcceptRefused(c)
       \/ HandlerStep(c) \/ SessionNoticesStop(c) \/ ChordFires(c)
  \/ \E d \in Devs : Unplug(d) \/ Replug(d) \/ WatcherResume(d)
  \/ Terminate \/ AcceptPollFails \/ AcceptStep \/ Hangup \/ Waiting

Spec == Init /\ [][Next]_vars

-----------------------------------------------------------------------------
(* Properties.                                                             *)

\* The values of the exporter's state; at most MAX_SESSIONS connections are
\* handled, and the counter is exact whichever way a handler ends (lib.rs
\* accept_loop).
TypeOK ==
  /\ accPc \in {"loop", "drain", "wait", "ended", "cut", "exited", "aborted"}
  /\ shutting \in BOOLEAN
  /\ live \subseteq Conns /\ shut \subseteq Conns /\ closed \subseteq Conns
  /\ pc \in [Conns -> {"none", "done", "killed"} \cup Handling]
  /\ dev \in [Conns -> Devs]
  /\ busy \subseteq Devs /\ suspended \subseteq Devs
  /\ held \in [Devs -> Conns \cup Others]
  /\ count \in 0..MaxSessions
  /\ accPc \notin {"exited", "aborted"} => count = Cardinality({c \in Conns : pc[c] \in Handling})

\* USB/IP allows exactly one importer per device: no two handlers are between
\* the lease and its return for the same device, and each leased device has a
\* handler that will return it (registry.rs, lib.rs import).
OneImporter ==
  /\ \A c, e \in Conns :
       (pc[c] \in Leased /\ pc[e] \in Leased /\ dev[c] = dev[e]) => c = e
  /\ \A d \in busy : \E c \in Conns : pc[c] \in Leased /\ dev[c] = d

\* A device the chord has taken off offer is neither claimed nor forwarded,
\* although an import may have looked it up before the chord fired and another
\* session may still be winding down (toggle.rs Gated, lib.rs import).
SuspendedNotImported ==
  \A c \in Conns :
    dev[c] \in suspended => pc[c] \notin {"claim", "reply", "session"}

Claimed(d) == held[d] \in Conns \cup {"app"}

\* A device nobody has leased is in nobody's hands: the interfaces go back
\* before the lease does (lib.rs:520-521, and the early returns).
HandedBack == \A d \in Devs : Claimed(d) => d \in busy

\* The process leaves no device claimed, or driverless without having asked the
\* driver back: drain() waits for the handlers, whatever they were doing when
\* the stop came (lib.rs:408-435).  Only an exit that does not wait for them, for
\* want of a drain or of time, is "aborted" and excepted.
ExitRestores ==
  accPc = "exited" => \A d \in Devs : held[d] # "none" /\ ~Claimed(d)

\* The handlers run.  A session stops once its socket is shut or closed (module
\* UrbPump: SessionEnds), and handlers do not wait for the client anywhere
\* else without a timeout.
HandlersRun == \A c \in Conns : WF_vars(HandlerStep(c))
=============================================================================
