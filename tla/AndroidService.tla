--------------------------- MODULE AndroidService ---------------------------
(***************************************************************************)
(* The exporter inside an Android app: ForwardService (Kotlin), whose      *)
(* callbacks all run on the main thread, and nativeStart and nativeStop    *)
(* (usbfwd-jni lib.rs) around the accept loop of module Exporter.          *)
(*                                                                         *)
(* Each start is a new run with a Registry, a listener and a duplicate of  *)
(* the descriptor of its own.  A drain that times out leaves handlers of   *)
(* the old run behind; once a new run has begun they are `stale`, and the  *)
(* interfaces they hold are held by "old".                                 *)
(***************************************************************************)
EXTENDS Exporter

CONSTANT MaxStale  \* bound: handlers of earlier runs when a new one begins

ASSUME MaxStaleAssumption == MaxStale \in Nat

VARIABLES
  svc,      \* the main thread in ForwardService
  running,  \* STATE is Some: what nativeIsRunning tells
  stale     \* the handlers of an earlier run, and what they are about to do

service == <<svc, running, stale>>
avars == <<vars, service>>

Leftover == {c \in Conns : pc[c] \in Handling}

\* What a handler of a finished run may still do to the device: the whole of an
\* import, or hand back; past that it does nothing.
Stage(at) ==
  IF at \in {"handshake", "list", "acquire", "open", "claim"} THEN "before"
  ELSE IF at \in {"reply", "session", "windup", "release", "drop"} THEN "claimed"
  ELSE "after"

\* What nativeStart gives accept_loop: the one device, which stays open between
\* sessions, and no hotkey; the flag is its own, and no signal sets it.
AndroidOptions == Persistent /\ ~Hotkey /\ "terminate" \notin Events

AInit ==
  /\ AndroidOptions
  /\ InitAt("exited")
  /\ svc = "idle" /\ running = FALSE /\ stale = {}

-----------------------------------------------------------------------------
(* ForwardService.                                                         *)

\* begin(): openDevice, claimInterface with force, then nativeStart, which
\* duplicates the descriptor and spawns the accept thread.
Begin ==
  /\ svc = "idle" /\ ~running /\ Cardinality(stale) <= MaxStale
  /\ \A d \in Devs : held[d] # "unplugged"
  /\ held' = [d \in Devs |-> "java"]
  /\ svc' = "up" /\ running' = TRUE
  /\ accPc' = "loop" /\ shutting' = FALSE
  /\ UNCHANGED <<count, live, socket, handler, busy, suspended, stale>>

\* No interface can be claimed, or nativeStart returns an ERR_* code:
\* cleanup() gives the interfaces back.
BeginFails ==
  /\ svc = "idle" /\ ~running
  /\ \A d \in Devs : held[d] # "unplugged"
  /\ held' = [d \in Devs |-> "driver"]
  /\ UNCHANGED <<accept, socket, handler, busy, suspended, service>>

\* Fault: STATE is cleared and the flag is not set.
StopForgets ==
  /\ svc = "up"
  /\ svc' = "join" /\ running' = FALSE
  /\ UNCHANGED <<accept, socket, handler, busy, suspended, held, stale>>

\* ACTION_STOP, a detach broadcast or onDestroy: cleanup() calls nativeStop,
\* which takes STATE, sets the flag ...
Stop ==
  /\ svc = "up"
  /\ svc' = "join" /\ running' = FALSE
  /\ shutting' = TRUE
  /\ UNCHANGED <<accPc, count, live, socket, handler, busy, suspended, held, stale>>

\* ... and joins the accept thread, which ends with drop(dev).
Join ==
  /\ svc = "join"
  /\ accPc = "exited" \/ (accPc = "cut" /\ Leftover # {})
  /\ svc' = "close"
  /\ UNCHANGED <<vars, running, stale>>

\* Fault: the descriptor is closed with its interfaces still claimed, and no
\* driver is asked back.
CloseOnly ==
  /\ svc = "close" /\ svc' = "idle"
  /\ held' = [d \in Devs |-> IF held[d] \in {"java", "app"} THEN "none" ELSE held[d]]
  /\ stale' = stale \cup {h \in {<<c, Stage(pc[c])>> : c \in Leftover} : h[2] # "after"}
  /\ accPc' = "exited" /\ count' = 0 /\ live' = {} /\ busy' = {}
  /\ shut' = {} /\ closed' = {} /\ pc' = [c \in Conns |-> "none"]
  /\ UNCHANGED <<shutting, dev, suspended, running>>

\* The rest of cleanup(): releaseInterface, which asks the driver back, and
\* close.  What the exporter still holds is claimed through the same open file.
\* The run is over; whichever of its handlers is not goes on as a stale one.
Close ==
  /\ svc = "close" /\ svc' = "idle"
  /\ held' = [d \in Devs |-> IF held[d] \in {"java", "app"} THEN "driver" ELSE held[d]]
  /\ stale' = stale \cup {h \in {<<c, Stage(pc[c])>> : c \in Leftover} : h[2] # "after"}
  /\ accPc' = "exited" /\ count' = 0 /\ live' = {} /\ busy' = {}
  /\ shut' = {} /\ closed' = {} /\ pc' = [c \in Conns |-> "none"]
  /\ UNCHANGED <<shutting, dev, suspended, running>>

\* The device comes back: another device node, which no old descriptor means.
Reattach ==
  /\ svc = "idle"
  /\ \E d \in Devs : held[d] = "unplugged"
  /\ held' = [d \in Devs |-> "driver"] /\ stale' = {}
  /\ UNCHANGED <<accept, socket, handler, busy, suspended, svc, running>>

-----------------------------------------------------------------------------
(* Handlers of an earlier run; they have a Registry nobody else asks.      *)

\* claim_all evicts whoever is bound, the new run included.
StaleClaims(h) ==
  /\ h[2] = "before"
  /\ held' = [d \in Devs |-> IF held[d] = "unplugged" THEN held[d] ELSE "old"]
  /\ stale' = (stale \ {h}) \cup {<<h[1], "claimed">>}
  /\ UNCHANGED <<accept, socket, handler, busy, suspended, svc, running>>

\* Fault: interfaces are handed back that the descriptor no longer holds.
StaleEndsBlindly(h) ==
  /\ stale' = stale \ {h}
  /\ held' = [d \in Devs |-> IF h[2] = "claimed" THEN "driver" ELSE held[d]]
  /\ UNCHANGED <<accept, socket, handler, busy, suspended, svc, running>>

\* Release, or an early return and Drop; or the import ends where it was.
StaleEnds(h) ==
  /\ stale' = stale \ {h}
  /\ held' = [d \in Devs |-> IF h[2] = "claimed" /\ held[d] = "old" THEN "driver" ELSE held[d]]
  /\ UNCHANGED <<accept, socket, handler, busy, suspended, svc, running>>

-----------------------------------------------------------------------------
ServiceStep == Begin \/ Stop \/ Join \/ Close
StaleStep == \E h \in stale : StaleClaims(h) \/ StaleEnds(h)

ExporterStep ==
  \/ \E c \in Conns :
       \/ ClientClose(c) \/ Accept(c) \/ AcceptRefused(c)
       \/ HandlerStep(c) \/ SessionNoticesStop(c)
  \/ \E d \in Devs : Unplug(d)
  \/ AcceptPollFails \/ AcceptStop \/ DrainShut \/ DrainDone \/ DrainTimeout \/ DropDevice

ANext ==
  \/ ExporterStep /\ UNCHANGED service
  \/ ServiceStep \/ BeginFails \/ Reattach \/ StaleStep

ASpec == AInit /\ [][ANext]_avars

\* The accept thread and the main thread run.
AFairSpec ==
  /\ ASpec
  /\ WF_avars((AcceptStop \/ DrainShut \/ DrainDone \/ DropDevice) /\ UNCHANGED service)
  /\ WF_avars(Join \/ Close)

-----------------------------------------------------------------------------
(* Properties.                                                             *)

\* Stopping the service gives the device back to its driver, whatever its
\* clients were doing, unless a drain that timed out left a handler behind
\* (jni lib.rs stop, lib.rs drain, ForwardService cleanup).
StopRestores ==
  (svc = "idle" /\ stale = {}) =>
    \A d \in Devs : held[d] \in {"driver", "unbound", "unplugged"}

\* A session keeps the interfaces until it lets them go, whatever the other
\* handlers do, those of earlier runs included, as long as none of those had its
\* claim still before it (registry.rs, usbfs.rs release_all, jni lib.rs start).
SessionKeepsDevice ==
  [][\A c \in Conns :
       /\ pc[c] = "session" /\ pc'[c] = "session" /\ held[dev[c]] = "app"
       /\ \A h \in stale : h[2] # "before"
       => held'[dev[c]] \in {"app", "unplugged"}]_avars

\* cleanup() runs on the main thread, and comes to an end although a handler
\* may never do so: DRAIN_TIMEOUT passes (jni lib.rs stop, lib.rs drain).
StopReturns ==
  WF_avars(DrainTimeout /\ UNCHANGED service) => (svc = "join" ~> svc = "idle")

\* However long DRAIN_TIMEOUT is, the drain ends because every handler of the run
\* does, without help from a client (lib.rs drain, handle).
DrainEnds == HandlersRun => (accPc = "drain" ~> accPc = "exited")
=============================================================================
