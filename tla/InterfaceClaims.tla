--------------------------- MODULE InterfaceClaims ---------------------------
(***************************************************************************)
(* One UsbfsDevice (usbfs.rs) and the kernel below it: claim_all takes the *)
(* interfaces from their drivers, release_all gives them back, and in      *)
(* between the importer's control requests go to the device as they are,   *)
(* except those classify picks out for an ioctl of their own, because they *)
(* change what the exporting kernel keeps a record of.                     *)
(*                                                                         *)
(* That record is the address, the configuration and the data toggles. It  *)
(* is here twice, as the device has it and as the kernel believes it.      *)
(***************************************************************************)
EXTENDS Naturals, FiniteSets

CONSTANTS
  NumIfs,    \* interface_numbers(), ascending
  Lead,      \* external: the interface whose driver binds each one, 0 for none
  EpIf,      \* the interface of each endpoint that has a toggle, by its address
  Setups,    \* bound: the SETUP packets an importer may send
  Attempts,  \* RECONNECT_ATTEMPTS
  Keep,      \* TRUE in it: a failed import keeps the device (SingleDevice);
             \* FALSE in it: it drops the device (SysfsDevices)
  Events     \* bound: which of the outside events below may happen

Ifs == 1..NumIfs
Eps == DOMAIN EpIf

ASSUME NumbersAssumption == NumIfs \in Nat /\ Attempts \in Nat \ {0}
ASSUME DeviceAssumption ==
  /\ Lead \in [Ifs -> 0..NumIfs]
  /\ \A i \in Ifs : Lead[i] <= i /\ (Lead[i] # 0 => Lead[Lead[i]] = Lead[i])
  /\ \A e \in Eps : EpIf[e] \in Ifs
ASSUME SetupsAssumption ==
  Setups \subseteq [typ : 0..255, request : 0..255, value : Nat, index : Nat]
ASSUME OptionsAssumption ==
  /\ Keep \subseteq BOOLEAN /\ Keep # {}
  /\ Events \subseteq {"oldKernel", "grab", "refused", "flaky", "unplug", "stall"}

VARIABLES
  pc,       \* the thread that imports, forwards and releases
  next,     \* the interface its loop is at
  claimed,  \* State.claimed
  left,     \* release_all's own copy of it
  try,      \* attempt, in reconnect_one
  lost,     \* interfaces given up with a warning, the device having failed every probe
  bound,    \* external: who has each interface
  dev,      \* external: address, configuration and toggles, in the device
  kern      \* external: the same, in the exporting kernel

device == <<dev, kern>>
vars == <<pc, next, claimed, left, try, lost, bound, device>>

\* External: interfaces bound by one and the same driver.
Family(i) == IF Lead[i] = 0 THEN {i} ELSE {j \in Ifs : Lead[j] = Lead[i]}
Driven(i) == IF Lead[i] = 0 THEN "none" ELSE "driver"

Init ==
  /\ pc = "idle" /\ next = 1 /\ claimed = {} /\ left = {} /\ try = 0
  /\ lost = {}
  /\ bound = [i \in Ifs |-> Driven(i)]
  /\ dev \in [addr : {1}, cfg : {1}, tog : [Eps -> {0, 1}]] /\ kern = dev

\* External: a driver that loses one of its interfaces lets go of them all.
Evicted(i) ==
  [j \in Ifs |-> IF j = i \/ (bound[i] = "driver" /\ j \in Family(i) /\ bound[j] = "driver")
                 THEN "none" ELSE bound[j]]

Gone == \E i \in Ifs : bound[i] = "gone"

-----------------------------------------------------------------------------
(* claim_all.                                                              *)

ClaimAll ==
  /\ pc = "idle" /\ ~Gone
  /\ pc' = "claim" /\ next' = 1
  /\ UNCHANGED <<claimed, left, try, lost, bound, device>>

ClaimSkip ==
  /\ pc = "claim" /\ next \in claimed
  /\ next' = next + 1
  /\ UNCHANGED <<pc, claimed, left, try, lost, bound, device>>

Claimed(i) ==
  /\ claimed' = claimed \cup {i} /\ next' = i + 1 /\ pc' = "claim"
  /\ lost' = lost \ {i}
  /\ UNCHANGED <<left, try, device>>

\* claim_one: USBDEVFS_DISCONNECT_CLAIM evicts whoever is bound, in one step.
ClaimOne ==
  /\ pc = "claim" /\ next \in Ifs \ claimed /\ ~Gone
  /\ bound' = [Evicted(next) EXCEPT ![next] = "usbfs"]
  /\ Claimed(next)

\* The kernel does not know that ioctl: USBDEVFS_DISCONNECT, which may find
\* nothing to disconnect ...
ClaimDisconnect ==
  /\ pc = "claim" /\ next \in Ifs \ claimed /\ ~Gone
  /\ "oldKernel" \in Events
  /\ bound' = Evicted(next)
  /\ pc' = "claimOld"
  /\ UNCHANGED <<next, claimed, left, try, lost, device>>

\* ... and USBDEVFS_CLAIMINTERFACE, which fails where somebody was faster.
ClaimInterface ==
  /\ pc = "claimOld" /\ bound[next] = "none"
  /\ bound' = [bound EXCEPT ![next] = "usbfs"]
  /\ Claimed(next)

\* Fault: what was claimed before the failure is forgotten.
ClaimFailsForgets ==
  /\ pc = "claim" /\ next \in Ifs \ claimed /\ "refused" \in Events
  /\ pc' = "idle" /\ claimed' = {}
  /\ UNCHANGED <<next, left, try, lost, bound, device>>

\* The import ends.  What was claimed before stays in State.claimed; the last
\* reference to the device, if this was one, releases it.
ClaimFails ==
  /\ \/ pc = "claim" /\ next \in Ifs \ claimed /\ (Gone \/ "refused" \in Events)
     \/ pc = "claimOld" /\ bound[next] # "none"
  /\ \E keep \in Keep : pc' = IF keep THEN "idle" ELSE "releaseAll"
  /\ UNCHANGED <<next, claimed, left, try, lost, bound, device>>

ClaimDone ==
  /\ pc = "claim" /\ next > NumIfs
  /\ pc' = "session"
  /\ UNCHANGED <<next, claimed, left, try, lost, bound, device>>

-----------------------------------------------------------------------------
(* A session: what submit() does with a control request.                   *)

\* Special::classify, for the bytes of a SETUP packet.
ClassifyHaltOfDevice(s) ==
  IF s.typ >= 128 THEN "none"
  ELSE CASE s.typ = 0 /\ s.request = 5 -> "SetAddress"
         [] s.typ = 0 /\ s.request = 9 -> "SetConfiguration"
         [] s.typ = 1 /\ s.request = 11 -> "SetInterface"
         [] s.typ = 0 /\ s.request = 1 /\ s.value = 0 -> "ClearHalt"
         [] OTHER -> "none"

Classify(s) ==
  IF s.typ >= 128 THEN "none"
  ELSE CASE s.typ = 0 /\ s.request = 5 -> "SetAddress"
         [] s.typ = 0 /\ s.request = 9 -> "SetConfiguration"
         [] s.typ = 1 /\ s.request = 11 -> "SetInterface"
         [] s.typ = 2 /\ s.request = 1 /\ s.value = 0 -> "ClearHalt"
         [] OTHER -> "none"

Zeroed(d, E) == [d EXCEPT !.tog = [e \in Eps |-> IF e \in E THEN 0 ELSE d.tog[e]]]
Configured(d, v) == [Zeroed(d, Eps) EXCEPT !.cfg = v]
EpsOf(i) == {e \in Eps : EpIf[e] = i}

\* External: what becomes of a device that obeys a request (USB 2.0, 9.3 and 9.4).
\* Bit 7 of the type is the direction, bits 6 and 5 tell standard requests from
\* those of classes and vendors (SET_REPORT has the code of SET_CONFIGURATION),
\* the rest is who is addressed.
Obeyed(s, d) ==
  LET changes(to) == s.typ \div 128 = 0 /\ (s.typ \div 32) % 4 = 0 /\ s.typ % 32 = to
  IN CASE changes(0) /\ s.request = 5 -> [d EXCEPT !.addr = s.value]
       [] changes(0) /\ s.request = 9 -> Configured(d, s.value)
       [] changes(1) /\ s.request = 11 -> Zeroed(d, EpsOf(s.index))
       [] changes(2) /\ s.request = 1 /\ s.value = 0 -> Zeroed(d, {s.index})
       [] OTHER -> d

Special(s, which) ==
  /\ pc = "session" /\ ~Gone /\ Classify(s) = which
  /\ UNCHANGED <<pc, next, claimed, left, try, lost, bound>>

\* An ioctl that succeeds is a request the device has obeyed and the kernel has
\* taken note of; one that fails is neither.  The session goes on either way.
Ioctl(ok, obeyed, noted) ==
  /\ dev' = IF ok THEN obeyed ELSE dev
  /\ kern' = IF ok THEN noted ELSE kern

Stalls == IF "stall" \in Events THEN BOOLEAN ELSE {FALSE}

\* Nothing to intercept: the packet goes down in a control URB, of which the
\* kernel looks at nothing.
Forward(s) ==
  /\ Special(s, "none")
  /\ \E stall \in Stalls : dev' = IF stall THEN dev ELSE Obeyed(s, dev)
  /\ UNCHANGED kern

\* Acknowledged, and that is all.
SetAddress(s) ==
  /\ Special(s, "SetAddress")
  /\ UNCHANGED device

\* USBDEVFS_SETCONFIGURATION: refused while an interface is claimed, and
\* answered as if it had worked.
SetConfiguration(s) ==
  /\ Special(s, "SetConfiguration")
  /\ Ioctl(\A i \in Ifs : bound[i] = "none",
           Configured(dev, s.value), Configured(kern, s.value))

\* USBDEVFS_SETINTERFACE and USBDEVFS_CLEAR_HALT, for what is claimed; a failure
\* is answered as success too.
SetInterface(s) ==
  /\ Special(s, "SetInterface")
  /\ \E stall \in Stalls :
       Ioctl(~stall /\ s.index \in Ifs /\ bound[s.index] = "usbfs",
             Zeroed(dev, EpsOf(s.index)), Zeroed(kern, EpsOf(s.index)))

ClearHalt(s) ==
  /\ Special(s, "ClearHalt")
  /\ \E stall \in Stalls :
       Ioctl(~stall /\ s.index \in Eps /\ bound[EpIf[s.index]] = "usbfs",
             Zeroed(dev, {s.index}), Zeroed(kern, {s.index}))

\* External: a packet goes through an endpoint, for a driver or for the session;
\* where the toggles differ it is dropped as a duplicate.
Transfer(e) ==
  /\ bound[EpIf[e]] = "driver" \/ (bound[EpIf[e]] = "usbfs" /\ pc = "session")
  /\ dev.tog[e] = kern.tog[e]
  /\ dev' = [dev EXCEPT !.tog[e] = 1 - @] /\ kern' = [kern EXCEPT !.tog[e] = 1 - @]
  /\ UNCHANGED <<pc, next, claimed, left, try, lost, bound>>

\* A device kept after a failed import is dropped when the exporter stops.
Drop ==
  /\ pc = "idle" /\ claimed # {}
  /\ pc' = "releaseAll"
  /\ UNCHANGED <<next, claimed, left, try, lost, bound, device>>

\* The session is over: the importer went, or a request found the device gone.
SessionEnds ==
  /\ pc = "session"
  /\ pc' = "releaseAll"
  /\ UNCHANGED <<next, claimed, left, try, lost, bound, device>>

-----------------------------------------------------------------------------
(* release_all: every interface is let go before a driver is asked back.   *)

ReleaseAll ==
  /\ pc = "releaseAll"
  /\ left' = claimed /\ claimed' = {} /\ next' = 1
  /\ pc' = IF claimed = {} THEN "idle" ELSE "release"
  /\ UNCHANGED <<try, lost, bound, device>>

\* Fault: one pass, each interface rebound as it is released.
ReleaseOneRebinds ==
  /\ pc = "release" /\ next \in Ifs
  /\ bound' = LET free == IF next \in left /\ bound[next] = "usbfs"
                          THEN [bound EXCEPT ![next] = "none"] ELSE bound
                  probe == Lead[next] = next /\ \A j \in Family(next) : free[j] = "none"
              IN [j \in Ifs |-> IF probe /\ j \in Family(next) THEN "driver" ELSE free[j]]
  /\ left' = left \ {next}
  /\ next' = next + 1
  /\ UNCHANGED <<pc, claimed, try, lost, device>>

ReleaseOne ==
  /\ pc = "release" /\ next \in Ifs
  /\ bound' = IF next \in left /\ bound[next] = "usbfs"
              THEN [bound EXCEPT ![next] = "none"] ELSE bound
  /\ next' = next + 1
  /\ UNCHANGED <<pc, claimed, left, try, lost, device>>

ReleasedAll ==
  /\ pc = "release" /\ next > NumIfs
  /\ pc' = "reconnect" /\ next' = 1 /\ try' = 0
  /\ UNCHANGED <<claimed, left, lost, bound, device>>

NextInterface ==
  /\ next' = next + 1 /\ try' = 0
  /\ UNCHANGED <<pc, claimed, left, device>>

\* External: nobody is in the way of a driver.
Unclaimed(i) == \A j \in Family(i) : bound[j] = "none"

\* reconnect_one: USBDEVFS_CONNECT.  The probe of the interface that leads a
\* driver binds all of its family; nothing is bound where none matches; EBUSY,
\* where an earlier probe or somebody else was there first, is as good.
Reconnected ==
  /\ pc = "reconnect" /\ next \in left
  /\ bound[next] # "gone"
  /\ bound' = [j \in Ifs |-> IF Lead[next] = next /\ Unclaimed(next) /\ j \in Family(next)
                            THEN "driver" ELSE bound[j]]
  /\ lost' = lost \ {next}
  /\ NextInterface

\* The probe may find the device gone or one of the family in other hands, or
\* the device too slow to answer.
ProbeFails ==
  /\ pc = "reconnect" /\ next \in left
  /\ \/ bound[next] = "gone"
     \/ /\ bound[next] = "none" /\ Lead[next] = next
        /\ Unclaimed(next) => "flaky" \in Events

\* An attempt fails: once more, up to RECONNECT_ATTEMPTS, then a warning says that
\* the interface needs a replug.
ReconnectFails ==
  /\ ProbeFails
  /\ IF try + 1 < Attempts
     THEN try' = try + 1 /\ UNCHANGED <<pc, next, claimed, left, lost, device>>
     ELSE /\ NextInterface
          /\ lost' = IF Unclaimed(next) THEN lost \cup {next} ELSE lost
  /\ UNCHANGED bound

ReconnectSkip ==
  /\ pc = "reconnect" /\ next \in Ifs \ left
  /\ NextInterface /\ UNCHANGED <<lost, bound>>

ReconnectedAll ==
  /\ pc = "reconnect" /\ next > NumIfs
  /\ pc' = "idle" /\ left' = {}
  /\ UNCHANGED <<next, claimed, try, lost, bound, device>>

-----------------------------------------------------------------------------
(* The outside.                                                            *)

\* Another program takes an interface that nobody has, and lets it go: its
\* driver is asked back by whoever took it.
Grab(i) ==
  /\ "grab" \in Events /\ bound[i] = "none" /\ Lead[i] # 0
  /\ bound' = [bound EXCEPT ![i] = "other"]
  /\ UNCHANGED <<pc, next, claimed, left, try, lost, device>>

Ungrab(i) ==
  /\ bound[i] = "other"
  /\ LET free == {j \in Family(i) : bound[j] \in {"none"} \/ j = i} IN
     bound' = [j \in Ifs |-> IF free = Family(i) /\ j \in free THEN "driver"
                             ELSE IF j = i THEN "none" ELSE bound[j]]
  /\ UNCHANGED <<pc, next, claimed, left, try, lost, device>>

Unplug ==
  /\ "unplug" \in Events /\ ~Gone
  /\ bound' = [i \in Ifs |-> "gone"]
  /\ UNCHANGED <<pc, next, claimed, left, try, lost, device>>

\* A new device under the same bus id; its drivers bind, its toggles start anew.
Replug ==
  /\ Gone /\ pc = "idle" /\ claimed = {}
  /\ bound' = [i \in Ifs |-> Driven(i)]
  /\ dev' = [addr |-> 1, cfg |-> 1, tog |-> [e \in Eps |-> 0]] /\ kern' = dev'
  /\ lost' = {}
  /\ UNCHANGED <<pc, next, claimed, left, try>>

-----------------------------------------------------------------------------
Claiming == ClaimAll \/ ClaimSkip \/ ClaimOne \/ ClaimDisconnect \/ ClaimInterface
            \/ ClaimFails \/ ClaimDone
Forwarding == \/ SessionEnds
              \/ \E s \in Setups : \/ Forward(s) \/ SetAddress(s) \/ SetConfiguration(s)
                                   \/ SetInterface(s) \/ ClearHalt(s)
Releasing == Drop \/ ReleaseAll \/ ReleaseOne \/ ReleasedAll \/ Reconnected \/ ReconnectFails
             \/ ReconnectSkip \/ ReconnectedAll
Next == \/ Claiming \/ Forwarding \/ Releasing \/ Unplug \/ Replug
        \/ (\E i \in Ifs : Grab(i) \/ Ungrab(i))
        \/ \E e \in Eps : Transfer(e)

Spec == Init /\ [][Next]_vars

-----------------------------------------------------------------------------
(* Properties.                                                             *)

\* The values of the device's state; the second ioctl of the old way of claiming
\* is about an interface (usbfs.rs State, claim_one).
TypeOK ==
  /\ pc \in {"idle", "claim", "claimOld", "session", "releaseAll", "release", "reconnect"}
  /\ next \in 1..(NumIfs + 1) /\ (pc = "claimOld" => next \in Ifs)
  /\ try \in 0..(Attempts - 1)
  /\ claimed \subseteq Ifs /\ left \subseteq Ifs
  /\ bound \in [Ifs -> {"driver", "usbfs", "other", "none", "gone"}]
  /\ lost \subseteq Ifs
  /\ {dev, kern} \subseteq [addr : Nat, cfg : Nat, tog : [Eps -> {0, 1}]]

\* Once the device is handed back each interface that has a driver has it
\* again, whichever of them the claiming stopped at, although one probe binds
\* several and fails while one of them is held.  Else somebody else has one of
\* its family, or all was free and the device failed the last of its
\* RECONNECT_ATTEMPTS probes, which the log has a warning of (usbfs.rs:487-518,
\* reconnect_one).
DriversRestored ==
  (pc = "idle" /\ claimed = {} /\ ~Gone) =>
    \A i \in Ifs : \/ bound[i] = Driven(i)
                   \/ \E j \in Family(i) : bound[j] = "other"
                   \/ Lead[i] \in lost

\* What the device believes to have claimed, the kernel gave it, and there is
\* nothing it has claimed and forgotten (usbfs.rs claim_all, release_all).
ClaimsMatchKernel ==
  ~Gone => {i \in Ifs : bound[i] = "usbfs"} = IF pc = "release" THEN left \ 1..(next - 1)
                                              ELSE claimed

\* Whatever SETUP packets the importer sends, over any number of sessions, the
\* exporting kernel's record of the device is right: no request that moves the
\* address, the configuration or a data toggle gets past classify to the device
\* alone, where the mismatch "is subtly fatal" (usbfs.rs:353-430, 791-809).
KernelInStep == dev = kern
=============================================================================
