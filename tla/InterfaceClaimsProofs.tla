------------------------ MODULE InterfaceClaimsProofs ------------------------
(***************************************************************************)
(* Proofs about InterfaceClaims, for every number and grouping of          *)
(* interfaces, every set of endpoints and every choice of events.          *)
(***************************************************************************)
EXTENDS InterfaceClaims, TLAPS

LEMMA InitType == Init => TypeOK
  <1> SUFFICES ASSUME Init PROVE TypeOK
    OBVIOUS
  <1>1. next \in 1..(NumIfs + 1) /\ try \in 0..(Attempts - 1)
    BY NumbersAssumption DEF Init
  <1>2. bound \in [Ifs -> {"driver", "usbfs", "other", "none", "gone"}]
    BY DEF Init, Driven
  <1>3. {dev, kern} \subseteq [addr : Nat, cfg : Nat, tog : [Eps -> {0, 1}]]
    BY DEF Init
  <1> QED
    BY <1>1, <1>2, <1>3 DEF Init, TypeOK

LEMMA ClaimingType == TypeOK /\ Claiming => TypeOK'
  <1> SUFFICES ASSUME TypeOK, Claiming PROVE TypeOK'
    OBVIOUS
  <1> USE NumbersAssumption DEF TypeOK, Ifs, device
  <1>1. CASE ClaimAll
    BY <1>1 DEF ClaimAll
  <1>2. CASE ClaimSkip
    BY <1>2 DEF ClaimSkip
  <1>3. CASE ClaimOne
    <2>1. bound' \in [Ifs -> {"driver", "usbfs", "other", "none", "gone"}]
      BY <1>3 DEF ClaimOne, Evicted
    <2>2. next' \in 1..(NumIfs + 1) /\ claimed' \subseteq Ifs /\ pc' = "claim"
      BY <1>3 DEF ClaimOne, Claimed
    <2> QED
      BY <1>3, <2>1, <2>2 DEF ClaimOne, Claimed
  <1>4. CASE ClaimDisconnect
    BY <1>4 DEF ClaimDisconnect, Evicted
  <1>5. CASE ClaimInterface
    <2>1. next \in Ifs
      BY <1>5 DEF ClaimInterface
    <2> QED
      BY <1>5, <2>1 DEF ClaimInterface, Claimed
  <1>6. CASE ClaimFails
    BY <1>6 DEF ClaimFails
  <1>7. CASE ClaimDone
    BY <1>7 DEF ClaimDone
  <1> QED
    BY <1>1, <1>2, <1>3, <1>4, <1>5, <1>6, <1>7 DEF Claiming

\* A request leaves the claims and the bindings alone.
LEMMA ForwardingKeeps ==
  Forwarding => /\ pc = "session" /\ pc' \in {"session", "releaseAll"}
                /\ UNCHANGED <<next, claimed, left, try, lost, bound>>
  BY DEF Forwarding, Forward, SetAddress, SetConfiguration, SetInterface, ClearHalt, Special,
         SessionEnds, device

\* The device and the kernel's record of it, as values.
Devices == [addr : Nat, cfg : Nat, tog : [Eps -> {0, 1}]]

LEMMA DeviceTypes ==
  ASSUME NEW d \in Devices
  PROVE  /\ \A E : Zeroed(d, E) \in Devices
         /\ \A v \in Nat : Configured(d, v) \in Devices
         /\ \A s \in Setups : Obeyed(s, d) \in Devices
  <1>1. \A E : Zeroed(d, E) \in Devices
    BY DEF Zeroed, Devices
  <1>2. \A v \in Nat : Configured(d, v) \in Devices
    BY <1>1 DEF Configured, Devices
  <1>3. ASSUME NEW s \in Setups PROVE Obeyed(s, d) \in Devices
    <2>1. s.value \in Nat
      BY SetupsAssumption
    <2>2. [d EXCEPT !.addr = s.value] \in Devices
      BY <2>1 DEF Devices
    <2> HIDE DEF Devices
    <2> QED
      BY <1>1, <1>2, <2>1, <2>2 DEF Obeyed
  <1> QED
    BY <1>1, <1>2, <1>3

LEMMA ForwardingType == TypeOK /\ Forwarding => TypeOK'
  <1> SUFFICES ASSUME TypeOK, Forwarding PROVE TypeOK'
    OBVIOUS
  <1>0. dev \in Devices /\ kern \in Devices
    BY DEF TypeOK, Devices
  <1>1. dev' \in Devices /\ kern' \in Devices
    <2>1. CASE SessionEnds
      BY <1>0, <2>1 DEF SessionEnds, device
    <2>2. ASSUME NEW s \in Setups,
                 \/ Forward(s) \/ SetAddress(s) \/ SetConfiguration(s)
                 \/ SetInterface(s) \/ ClearHalt(s)
          PROVE  dev' \in Devices /\ kern' \in Devices
      <3>1. s.value \in Nat
        BY SetupsAssumption
      <3>2. CASE Forward(s)
        BY <1>0, <3>2, DeviceTypes DEF Forward
      <3>3. CASE SetAddress(s)
        BY <1>0, <3>3 DEF SetAddress, device
      <3>4. CASE SetConfiguration(s)
        BY <1>0, <3>1, <3>4, DeviceTypes DEF SetConfiguration, Ioctl
      <3>5. CASE SetInterface(s)
        BY <1>0, <3>5, DeviceTypes DEF SetInterface, Ioctl
      <3>6. CASE ClearHalt(s)
        BY <1>0, <3>6, DeviceTypes DEF ClearHalt, Ioctl
      <3> QED
        BY <2>2, <3>2, <3>3, <3>4, <3>5, <3>6
    <2> QED
      BY <2>1, <2>2 DEF Forwarding
  <1> QED
    BY <1>1, ForwardingKeeps DEF TypeOK, Devices

LEMMA ReleasingType == TypeOK /\ Releasing => TypeOK'
  <1> SUFFICES ASSUME TypeOK, Releasing PROVE TypeOK'
    OBVIOUS
  <1> USE NumbersAssumption DEF TypeOK, Ifs, device
  <1>1. CASE Drop
    BY <1>1 DEF Drop
  <1>2. CASE ReleaseAll
    BY <1>2 DEF ReleaseAll
  <1>3. CASE ReleaseOne
    BY <1>3 DEF ReleaseOne
  <1>4. CASE ReleasedAll
    BY <1>4 DEF ReleasedAll
  <1>5. CASE Reconnected
    <2>1. next \in Ifs
      BY <1>5 DEF Reconnected
    <2>2. bound' \in [Ifs -> {"driver", "usbfs", "other", "none", "gone"}]
      BY <1>5 DEF Reconnected
    <2> QED
      BY <1>5, <2>1, <2>2 DEF Reconnected, NextInterface
  <1>6. CASE ReconnectFails
    <2>1. next \in Ifs /\ pc = "reconnect"
      BY <1>6 DEF ReconnectFails, ProbeFails
    <2>2. CASE try + 1 < Attempts
      <3>1. try' \in 0..(Attempts - 1)
        BY <1>6, <2>2 DEF ReconnectFails
      <3> QED
        BY <1>6, <2>2, <3>1 DEF ReconnectFails
    <2>3. CASE ~(try + 1 < Attempts)
      <3>1. next' \in 1..(NumIfs + 1) /\ try' \in 0..(Attempts - 1)
        BY <1>6, <2>1, <2>3 DEF ReconnectFails, NextInterface
      <3> QED
        BY <1>6, <2>1, <2>3, <3>1 DEF ReconnectFails, NextInterface
    <2> QED
      BY <2>2, <2>3
  <1>7. CASE ReconnectSkip
    BY <1>7 DEF ReconnectSkip, NextInterface
  <1>8. CASE ReconnectedAll
    BY <1>8 DEF ReconnectedAll
  <1> QED
    BY <1>1, <1>2, <1>3, <1>4, <1>5, <1>6, <1>7, <1>8 DEF Releasing

Outside == Unplug \/ Replug \/ (\E i \in Ifs : Grab(i) \/ Ungrab(i)) \/ \E e \in Eps : Transfer(e)

LEMMA OutsideType ==
  TypeOK /\ Outside => TypeOK'
  <1> SUFFICES ASSUME TypeOK, Outside
               PROVE  TypeOK'
    OBVIOUS
  <1> USE DEF TypeOK, device
  <1>1. CASE Unplug
    BY <1>1 DEF Unplug
  <1>2. CASE Replug
    BY <1>2 DEF Replug, Driven
  <1>3. ASSUME NEW i \in Ifs, Grab(i) PROVE TypeOK'
    BY <1>3 DEF Grab
  <1>4. ASSUME NEW i \in Ifs, Ungrab(i) PROVE TypeOK'
    BY <1>4 DEF Ungrab
  <1>5. ASSUME NEW e \in Eps, Transfer(e) PROVE TypeOK'
    <2>1. dev' \in Devices /\ kern' \in Devices
      BY <1>5 DEF Transfer, Devices
    <2> QED
      BY <1>5, <2>1 DEF Transfer, Devices
  <1> QED
    BY <1>1, <1>2, <1>3, <1>4, <1>5 DEF Outside

LEMMA NextType == TypeOK /\ [Next]_vars => TypeOK'
  <1>1. TypeOK /\ UNCHANGED vars => TypeOK'
    BY DEF TypeOK, vars, device
  <1> QED
    BY <1>1, ClaimingType, ForwardingType, ReleasingType, OutsideType DEF Next, Outside

-----------------------------------------------------------------------------
(* The claims.  What release_all has taken out of State.claimed is in its  *)
(* own copy until the interface is let go, and nothing is claimed between. *)

NoneWhileReleasing == pc \in {"release", "reconnect"} => claimed = {}

\* The interfaces that are the device's, as the kernel has it.
Ours == {i \in Ifs : bound[i] = "usbfs"}

Believed == IF pc = "release" THEN left \ 1..(next - 1) ELSE claimed

CInv == TypeOK /\ NoneWhileReleasing /\ ClaimsMatchKernel

LEMMA ClaimsAre == ClaimsMatchKernel <=> (~Gone => Ours = Believed)
  BY DEF ClaimsMatchKernel, Ours, Believed

\* Only a new device ends the absence of an old one.
LEMMA GoneStays == TypeOK /\ Gone /\ [Next]_vars => Gone' \/ Replug
  <1> SUFFICES ASSUME TypeOK, NEW g \in Ifs, bound[g] = "gone", [Next]_vars, ~Replug
               PROVE  bound'[g] = "gone"
    BY DEF Gone
  <1> USE DEF TypeOK, device
  <1>1. CASE Claiming
    BY <1>1 DEF Claiming, ClaimAll, ClaimSkip, ClaimOne, ClaimDisconnect, ClaimInterface,
                ClaimFails, ClaimDone, Claimed, Gone
  <1>2. CASE Forwarding
    BY <1>2, ForwardingKeeps
  <1>3. CASE Releasing
    BY <1>3 DEF Releasing, Drop, ReleaseAll, ReleaseOne, ReleasedAll, Reconnected, Unclaimed,
                ReconnectFails, ReconnectSkip, ReconnectedAll
  <1>4. CASE Unplug
    BY <1>4 DEF Unplug
  <1>5. ASSUME NEW i \in Ifs, Grab(i) \/ Ungrab(i) PROVE bound'[g] = "gone"
    BY <1>5 DEF Grab, Ungrab
  <1>6. CASE UNCHANGED vars \/ \E e \in Eps : Transfer(e)
    BY <1>6 DEF vars, Transfer
  <1> QED
    BY <1>1, <1>2, <1>3, <1>4, <1>5, <1>6 DEF Next

LEMMA ClaimingClaims ==
  ASSUME CInv, Claiming, ~Gone, ~Gone' PROVE Ours' = Believed'
  <1>0. Ours = Believed /\ TypeOK
    BY ClaimsAre DEF CInv
  <1> USE NumbersAssumption DEF TypeOK, Ours, Believed
  <1>1. CASE ClaimAll
    BY <1>0, <1>1 DEF ClaimAll
  <1>2. CASE ClaimSkip
    BY <1>0, <1>2 DEF ClaimSkip
  <1>3. CASE ClaimOne
    <2>1. next \in Ifs /\ claimed' = claimed \cup {next} /\ pc' = "claim" /\ pc = "claim"
      BY <1>3 DEF ClaimOne, Claimed
    <2>2. \A i \in Ifs : bound'[i] = "usbfs" <=> (bound[i] = "usbfs" \/ i = next)
      BY <1>0, <1>3, <2>1 DEF ClaimOne, Evicted
    <2> QED
      BY <1>0, <2>1, <2>2
  <1>4. CASE ClaimDisconnect
    <2>1. \A i \in Ifs : bound'[i] = "usbfs" <=> bound[i] = "usbfs"
      BY <1>0, <1>4 DEF ClaimDisconnect, Evicted
    <2> QED
      BY <1>0, <1>4, <2>1 DEF ClaimDisconnect
  <1>5. CASE ClaimInterface
    <2>1. next \in Ifs /\ claimed' = claimed \cup {next} /\ pc' = "claim" /\ pc = "claimOld"
      BY <1>0, <1>5 DEF ClaimInterface, Claimed
    <2>2. \A i \in Ifs : bound'[i] = "usbfs" <=> (bound[i] = "usbfs" \/ i = next)
      BY <1>0, <1>5, <2>1 DEF ClaimInterface
    <2> QED
      BY <1>0, <2>1, <2>2
  <1>6. CASE ClaimFails
    BY <1>0, <1>6 DEF ClaimFails
  <1>7. CASE ClaimDone
    BY <1>0, <1>7 DEF ClaimDone
  <1> QED
    BY <1>1, <1>2, <1>3, <1>4, <1>5, <1>6, <1>7 DEF Claiming

LEMMA ForwardingClaims ==
  ASSUME CInv, Forwarding, ~Gone, ~Gone' PROVE Ours' = Believed'
  <1>0. Ours = Believed
    BY ClaimsAre DEF CInv
  <1>1. pc = "session" /\ pc' # "release" /\ bound' = bound /\ claimed' = claimed
    BY ForwardingKeeps
  <1> QED
    BY <1>0, <1>1 DEF Ours, Believed

LEMMA ReleasingClaims ==
  ASSUME CInv, Releasing, ~Gone, ~Gone' PROVE Ours' = Believed'
  <1>0. Ours = Believed /\ TypeOK /\ NoneWhileReleasing
    BY ClaimsAre DEF CInv
  <1> USE NumbersAssumption DEF TypeOK, NoneWhileReleasing, Ours, Believed, Ifs
  <1>1. CASE Drop
    BY <1>0, <1>1 DEF Drop
  <1>2. CASE ReleaseAll
    BY <1>0, <1>2 DEF ReleaseAll
  <1>3. CASE ReleaseOne
    <2>1. next \in Ifs /\ next' = next + 1 /\ left' = left /\ pc = "release" /\ pc' = "release"
      BY <1>3 DEF ReleaseOne
    <2>2. \A i \in Ifs : bound'[i] = "usbfs" <=> (bound[i] = "usbfs" /\ i # next)
      BY <1>0, <1>3, <2>1 DEF ReleaseOne
    <2>3. \A i \in Ifs : i \in 1..(next' - 1) <=> (i \in 1..(next - 1) \/ i = next)
      BY <1>0, <2>1
    <2> QED
      BY <1>0, <2>1, <2>2, <2>3
  <1>4. CASE ReleasedAll
    <2>1. \A i \in left : i \in 1..(next - 1)
      BY <1>0, <1>4 DEF ReleasedAll
    <2>2. left \ 1..(next - 1) = {}
      BY <2>1
    <2> QED
      BY <1>0, <1>4, <2>2 DEF ReleasedAll
  <1>5. CASE Reconnected
    <2>1. \A i \in Ifs : bound'[i] = "usbfs" <=> bound[i] = "usbfs"
      BY <1>0, <1>5 DEF Reconnected, Family
    <2> QED
      BY <1>0, <1>5, <2>1 DEF Reconnected, NextInterface
  <1>6. CASE ReconnectFails
    BY <1>0, <1>6 DEF ReconnectFails, ProbeFails, NextInterface
  <1>7. CASE ReconnectSkip
    BY <1>0, <1>7 DEF ReconnectSkip, NextInterface
  <1>8. CASE ReconnectedAll
    BY <1>0, <1>8 DEF ReconnectedAll
  <1> QED
    BY <1>1, <1>2, <1>3, <1>4, <1>5, <1>6, <1>7, <1>8 DEF Releasing

LEMMA OutsideClaims ==
  ASSUME CInv, Unplug \/ \E i \in Ifs : Grab(i) \/ Ungrab(i), ~Gone, ~Gone'
  PROVE  Ours' = Believed'
  <1>0. Ours = Believed /\ TypeOK
    BY ClaimsAre DEF CInv
  <1> USE DEF TypeOK, Ours, Believed
  <1>1. CASE Unplug
    <2>1. Ifs = {}
      BY <1>1 DEF Unplug, Gone
    <2> QED
      BY <1>0, <1>1, <2>1 DEF Unplug
  <1>2. ASSUME NEW i \in Ifs, Grab(i) PROVE Ours' = Believed'
    BY <1>0, <1>2 DEF Grab
  <1>3. ASSUME NEW i \in Ifs, Ungrab(i) PROVE Ours' = Believed'
    <2>1. \A j \in Ifs : bound'[j] = "usbfs" <=> bound[j] = "usbfs"
      BY <1>0, <1>3 DEF Ungrab
    <2> QED
      BY <1>0, <1>3, <2>1 DEF Ungrab
  <1> QED
    BY <1>1, <1>2, <1>3

LEMMA NextClaims == CInv /\ [Next]_vars => CInv'
  <1> SUFFICES ASSUME CInv, [Next]_vars PROVE CInv'
    OBVIOUS
  <1>1. TypeOK /\ TypeOK' /\ NoneWhileReleasing
    BY NextType DEF CInv
  <1>2. NoneWhileReleasing'
    <2> USE <1>1 DEF NoneWhileReleasing, device
    <2>1. CASE Claiming
      BY <2>1 DEF Claiming, ClaimAll, ClaimSkip, ClaimOne, ClaimDisconnect, ClaimInterface,
                  ClaimFails, ClaimDone, Claimed
    <2>2. CASE Forwarding
      BY <2>2, ForwardingKeeps
    <2>3. CASE Releasing
      BY <2>3 DEF Releasing, Drop, ReleaseAll, ReleaseOne, ReleasedAll, Reconnected,
                  ReconnectFails, ReconnectSkip, ReconnectedAll, NextInterface
    <2>4. CASE Outside
      BY <2>4 DEF Outside, Unplug, Replug, Grab, Ungrab, Transfer
    <2>5. CASE UNCHANGED vars
      BY <2>5 DEF vars
    <2> QED
      BY <2>1, <2>2, <2>3, <2>4, <2>5 DEF Next, Outside
  <1>3. ASSUME ~Gone' PROVE Ours' = Believed'
    <2>1. CASE Replug
      <3>1. \A i \in Ifs : bound'[i] # "usbfs"
        BY <2>1 DEF Replug, Driven
      <3> QED
        BY <2>1, <3>1 DEF Replug, Ours, Believed
    <2>2. CASE ~Replug
      <3>1. ~Gone
        BY <1>1, <1>3, <2>2, GoneStays
      <3>2. CASE UNCHANGED vars \/ \E e \in Eps : Transfer(e)
        BY <3>1, <3>2, ClaimsAre DEF CInv, Ours, Believed, vars, device, Transfer
      <3> QED
        BY <1>3, <2>2, <3>1, <3>2, ClaimingClaims, ForwardingClaims, ReleasingClaims,
           OutsideClaims DEF Next
    <2> QED
      BY <2>1, <2>2
  <1> QED
    BY <1>1, <1>2, <1>3 DEF CInv, ClaimsMatchKernel, Ours, Believed, Gone

LEMMA InitClaims == Init => CInv
  <1> SUFFICES ASSUME Init PROVE CInv
    OBVIOUS
  <1>1. \A i \in Ifs : bound[i] # "usbfs"
    BY DEF Init, Driven
  <1> QED
    BY <1>1, InitType DEF Init, CInv, NoneWhileReleasing, ClaimsMatchKernel

\* At every moment of claiming, forwarding, releasing and rebinding State.claimed
\* (or release_all's copy of it) names exactly the interfaces the kernel has
\* given this descriptor, whichever ioctl failed (usbfs.rs claim_all, release_all).
THEOREM ClaimsExact == Spec => []ClaimsMatchKernel
  <1>1. CInv => ClaimsMatchKernel
    BY DEF CInv
  <1> QED
    BY <1>1, InitClaims, NextClaims, PTL DEF Spec

-----------------------------------------------------------------------------
(* The kernel's record.                                                    *)

\* A packet that classify has no name for is one that moves nothing: the bytes
\* it matches are those of the standard requests that do.
LEMMA RawMovesNothing ==
  ASSUME NEW s \in Setups, NEW d, Classify(s) = "none"
  PROVE  Obeyed(s, d) = d
  <1>1. s.typ \in 0..255
    BY SetupsAssumption
  <1>2. ASSUME NEW to \in {0, 1, 2}, s.typ \div 128 = 0, (s.typ \div 32) % 4 = 0, s.typ % 32 = to
        PROVE  s.typ = to
    BY <1>1, <1>2
  <1>3. s.typ < 128 \/ s.typ \div 128 # 0
    BY <1>1
  <1>4. \A to \in {0, 1, 2} :
          (s.typ \div 128 = 0 /\ (s.typ \div 32) % 4 = 0 /\ s.typ % 32 = to) => s.typ = to /\ s.typ < 128
    BY <1>2, <1>3
  <1> QED
    BY <1>1, <1>4 DEF Classify, Obeyed

LEMMA NextInStep == KernelInStep /\ TypeOK /\ [Next]_vars => KernelInStep'
  <1> SUFFICES ASSUME KernelInStep, TypeOK, [Next]_vars PROVE KernelInStep'
    OBVIOUS
  <1> USE DEF KernelInStep, device
  <1>1. CASE Claiming
    BY <1>1 DEF Claiming, ClaimAll, ClaimSkip, ClaimOne, ClaimDisconnect, ClaimInterface,
                ClaimFails, ClaimDone, Claimed
  <1>2. CASE Forwarding
    <2>1. ASSUME NEW s \in Setups, Forward(s) PROVE KernelInStep'
      BY <2>1, RawMovesNothing DEF Forward, Special
    <2>2. ASSUME NEW s \in Setups, SetAddress(s) PROVE KernelInStep'
      BY <2>2 DEF SetAddress
    <2>3. ASSUME NEW s \in Setups, SetConfiguration(s) PROVE KernelInStep'
      BY <2>3 DEF SetConfiguration, Ioctl
    <2>4. ASSUME NEW s \in Setups, SetInterface(s) PROVE KernelInStep'
      BY <2>4 DEF SetInterface, Ioctl
    <2>5. ASSUME NEW s \in Setups, ClearHalt(s) PROVE KernelInStep'
      BY <2>5 DEF ClearHalt, Ioctl
    <2>6. CASE SessionEnds
      BY <2>6 DEF SessionEnds
    <2> QED
      BY <1>2, <2>1, <2>2, <2>3, <2>4, <2>5, <2>6 DEF Forwarding
  <1>3. CASE Releasing
    BY <1>3 DEF Releasing, Drop, ReleaseAll, ReleaseOne, ReleasedAll, Reconnected,
                ReconnectFails, ReconnectSkip, ReconnectedAll, NextInterface
  <1>4. CASE Outside
    BY <1>4 DEF Outside, Unplug, Replug, Grab, Ungrab, Transfer
  <1>5. CASE UNCHANGED vars
    BY <1>5 DEF vars
  <1> QED
    BY <1>1, <1>2, <1>3, <1>4, <1>5 DEF Next, Outside

\* Whatever SETUP packets the importer sends, all 65536 pairs of type and request
\* among them, the exporting kernel's record of the device stays right: of the
\* packets a device takes as a change of address, configuration or toggle none
\* is left to go down as it is (usbfs.rs classify, tweak_special_request).
THEOREM RecordInStep == Spec => []KernelInStep
  <1>1. Init => KernelInStep /\ TypeOK
    BY InitType DEF Init, KernelInStep
  <1>2. KernelInStep /\ TypeOK /\ [Next]_vars => (KernelInStep /\ TypeOK)'
    BY NextInStep, NextType
  <1> QED
    BY <1>1, <1>2, PTL DEF Spec

-----------------------------------------------------------------------------
(* The drivers.  The interfaces that one driver binds are a family, and its *)
(* probe succeeds at the one that leads it.                                *)

\* claim_all takes the interfaces in ascending order, so with an interface it
\* has, and release_all later has left, the one that leads its family.
Ascending ==
  /\ \A i \in claimed : 1..i \subseteq claimed
  /\ \A i \in left : 1..i \subseteq left
  /\ pc \in {"claim", "claimOld"} => 1..(next - 1) \subseteq claimed

\* A driver binds a family whole, and never an interface without a driver.
Whole ==
  /\ \A i \in Ifs : Lead[i] = 0 => bound[i] \in {"none", "usbfs"}
  /\ \A i \in Ifs : bound[i] = "driver" => \A j \in Family(i) : bound[j] = "driver"

Leads == {l \in Ifs : Lead[l] = l}

\* Nobody has any interface of the family: its driver is lost unless somebody
\* is going to ask it back.
Orphaned(l) == \A j \in Family(l) : bound[j] = "none"

\* Somebody is: the claim between its two ioctls, or release_all, which has the
\* leading interface still to reconnect.
Awaited(l) ==
  \/ pc = "claimOld" /\ next \in Family(l)
  \/ pc = "release" /\ l \in left
  \/ pc = "reconnect" /\ l \in left /\ next <= l

\* The last pass over it ended in a warning.
Settled(l) == Awaited(l) \/ l \in lost

DInv ==
  /\ CInv /\ Ascending
  /\ ~Gone => Whole /\ \A l \in Leads : Orphaned(l) => Settled(l)

LEMMA Families ==
  /\ \A i \in Ifs : i \in Family(i) /\ Family(i) \subseteq Ifs
  /\ \A i, j \in Ifs : j \in Family(i) => Family(j) = Family(i)
  /\ \A i \in Ifs : Lead[i] # 0 => Lead[i] \in Leads /\ i \in Family(Lead[i])
  /\ \A l \in Leads : l \in Ifs /\ l \in Family(l)
  /\ \A l \in Leads : \A i \in Family(l) : Lead[i] = l /\ Lead[i] # 0 /\ l <= i
  <1> USE NumbersAssumption, DeviceAssumption DEF Ifs
  <1>1. \A i \in Ifs : i \in Family(i) /\ Family(i) \subseteq Ifs
    BY DEF Family
  <1>2. \A i, j \in Ifs : j \in Family(i) => Family(j) = Family(i)
    BY DEF Family
  <1>3. \A i \in Ifs : Lead[i] # 0 => Lead[i] \in Leads
    BY DEF Leads
  <1>4. \A l \in Leads : l # 0 /\ Family(l) = {j \in Ifs : Lead[j] = l}
    BY DEF Leads, Family
  <1>5. \A i \in Ifs : Lead[i] # 0 => i \in Family(Lead[i])
    BY <1>3, <1>4
  <1>6. \A l \in Leads : \A i \in Family(l) : Lead[i] = l /\ Lead[i] # 0 /\ l <= i
    BY <1>4
  <1>7. \A l \in Leads : l \in Ifs /\ l \in Family(l)
    BY <1>1 DEF Leads
  <1> QED
    BY <1>1, <1>2, <1>3, <1>5, <1>6, <1>7

LEMMA AscendingNext ==
  ASSUME TypeOK, Ascending, [Next]_vars PROVE Ascending'
  <1> USE NumbersAssumption DEF TypeOK, Ascending, device, Ifs
  <1>1. CASE Claiming
    <2>1. CASE ClaimAll
      BY <1>1, <2>1 DEF ClaimAll
    <2>2. CASE ClaimSkip
      BY <2>2 DEF ClaimSkip
    <2>3. CASE ClaimOne \/ ClaimInterface
      <3>1. claimed' = claimed \cup {next} /\ next' = next + 1 /\ left' = left
        BY <2>3 DEF ClaimOne, ClaimInterface, Claimed
      <3>2. 1..(next - 1) \subseteq claimed
        BY <2>3 DEF ClaimOne, ClaimInterface
      <3>3. 1..next \subseteq claimed'
        BY <3>1, <3>2
      <3> QED
        BY <3>1, <3>3
    <2>4. CASE ClaimDisconnect \/ ClaimFails \/ ClaimDone
      BY <2>4 DEF ClaimDisconnect, ClaimFails, ClaimDone
    <2> QED
      BY <1>1, <2>1, <2>2, <2>3, <2>4 DEF Claiming
  <1>2. CASE Forwarding
    BY <1>2, ForwardingKeeps
  <1>3. CASE Releasing
    BY <1>3 DEF Releasing, Drop, ReleaseAll, ReleaseOne, ReleasedAll, Reconnected,
                ReconnectFails, ProbeFails, ReconnectSkip, ReconnectedAll, NextInterface
  <1>4. CASE Outside
    BY <1>4 DEF Outside, Unplug, Replug, Grab, Ungrab, Transfer
  <1>5. CASE UNCHANGED vars
    BY <1>5 DEF vars
  <1> QED
    BY <1>1, <1>2, <1>3, <1>4, <1>5 DEF Next, Outside

\* No family is orphaned by a step that only takes one from "none", nor waits
\* for nobody if the thread stays where it is.
LEMMA SameBound ==
  ASSUME Whole, \A l \in Leads : Orphaned(l) => Settled(l), bound' = bound,
         \A l \in Leads : Orphaned(l) /\ Settled(l) => Settled(l)'
  PROVE  Whole' /\ \A l \in Leads : Orphaned(l)' => Settled(l)'
  BY DEF Whole, Orphaned, Family

LEMMA ClaimingDrivers ==
  ASSUME DInv, Claiming, ~Gone
  PROVE  Whole' /\ \A l \in Leads : Orphaned(l)' => Settled(l)'
  <1>0. TypeOK /\ Whole /\ \A l \in Leads : Orphaned(l) => Settled(l)
    BY DEF DInv, CInv
  <1>1. CASE ClaimAll \/ ClaimSkip \/ ClaimDone \/ (pc = "claim" /\ ClaimFails)
    <2>1. pc \in {"idle", "claim"} /\ bound' = bound /\ lost' = lost
      BY <1>1 DEF ClaimAll, ClaimSkip, ClaimDone, ClaimFails, device
    <2> QED
      BY <1>0, <2>1, SameBound DEF Settled, Awaited
  <1>2. CASE ClaimOne \/ ClaimDisconnect
    <2>1. next \in Ifs /\ \A l \in Leads : Orphaned(l) => l \in lost
      BY <1>0, <1>2 DEF ClaimOne, ClaimDisconnect, Awaited, Settled
    <2>2. \A j \in Ifs : bound'[j] = Evicted(next)[j] \/ (j = next /\ bound'[j] = "usbfs")
      BY <1>2, <2>1 DEF ClaimOne, ClaimDisconnect, Evicted
    <2>3. \A j \in Ifs : Evicted(next)[j] = IF j = next \/ (bound[next] = "driver" /\ j \in Family(next))
                                            THEN "none" ELSE bound[j]
      BY <1>0, <2>1 DEF Evicted, Whole
    <2>4. \A j \in Ifs : bound'[j] = "driver" => j \notin Family(next) /\ bound[j] = "driver"
      <3> SUFFICES ASSUME NEW j \in Ifs, bound'[j] = "driver"
                   PROVE  j \notin Family(next) /\ bound[j] = "driver"
        OBVIOUS
      <3>1. j # next /\ bound[j] = "driver" /\ ~(bound[next] = "driver" /\ j \in Family(next))
        BY <1>2, <2>1, <2>2, <2>3 DEF ClaimOne, ClaimDisconnect
      <3>2. j \in Family(next) => next \in Family(j)
        BY <2>1 DEF Family
      <3> QED
        BY <1>0, <3>1, <3>2, <2>1 DEF Whole
    <2>5. \A i, j \in Ifs : j \in Family(i) => (i \in Family(next) <=> j \in Family(next))
      BY <2>1 DEF Family
    <2>6. Whole'
      <3>1. ASSUME NEW i \in Ifs, bound'[i] = "driver", NEW j \in Family(i)
            PROVE  bound'[j] = "driver"
        <4>1. j \in Ifs /\ i \notin Family(next) /\ bound[j] = "driver"
          BY <1>0, <2>4, <3>1, Families DEF Whole
        <4>2. j \notin Family(next) /\ j # next
          BY <2>1, <2>5, <3>1, <4>1, Families
        <4> QED
          BY <2>2, <2>3, <4>1, <4>2
      <3>2. ASSUME NEW i \in Ifs, Lead[i] = 0 PROVE bound'[i] \in {"none", "usbfs"}
        BY <1>0, <2>2, <2>3, <3>2 DEF Whole
      <3> QED
        BY <3>1, <3>2 DEF Whole, Family
    <2>7. ASSUME NEW l \in Leads, Orphaned(l)' PROVE Settled(l)'
      <3>1. CASE next \notin Family(l)
        <4>1. \A j \in Family(l) : j \in Ifs /\ j # next
          BY <3>1, Families
        <4>2. \A j \in Family(l) : Family(j) = Family(l)
          BY Families
        <4>3. \A j \in Family(l) : j \in Family(next) => Family(j) = Family(next)
          BY <2>1, <4>1, Families
        <4>4. \A j \in Family(l) : j \notin Family(next)
          BY <2>1, <3>1, <4>2, <4>3, Families
        <4>5. Orphaned(l)
          BY <2>2, <2>3, <2>7, <4>1, <4>4 DEF Orphaned, Family
        <4>6. l \in lost /\ l # next
          BY <2>1, <4>1, <4>5, Families
        <4>7. lost' = lost \/ lost' = lost \ {next}
          BY <1>2 DEF ClaimOne, ClaimDisconnect, Claimed
        <4> QED
          BY <4>6, <4>7 DEF Settled
      <3>2. CASE next \in Family(l)
        <4>1. bound'[next] = "none"
          BY <2>7, <3>2 DEF Orphaned, Family
        <4>2. ClaimDisconnect
          BY <1>0, <1>2, <2>1, <4>1 DEF ClaimOne, Evicted
        <4> QED
          BY <3>2, <4>2 DEF ClaimDisconnect, Awaited, Settled, Family
      <3> QED
        BY <3>1, <3>2
    <2> QED
      BY <2>6, <2>7
  <1>3. CASE pc = "claimOld"
    <2>1. next \in Ifs
      BY <1>0, <1>3 DEF TypeOK
    <2>2. CASE ClaimInterface
      <3>1. bound' = [bound EXCEPT ![next] = "usbfs"] /\ bound[next] = "none"
        BY <2>2 DEF ClaimInterface
      <3>2. Whole'
        BY <1>0, <2>1, <3>1, Families DEF Whole, TypeOK, Family
      <3>3. \A l \in Leads : next \in Family(l) => ~Orphaned(l)'
        BY <1>0, <2>1, <3>1 DEF Orphaned, TypeOK, Family
      <3>4. ASSUME NEW l \in Leads, next \notin Family(l), Orphaned(l)' PROVE Settled(l)'
        <4>1. Orphaned(l)
          BY <1>0, <3>1, <3>4, Families DEF Orphaned, TypeOK, Family
        <4>2. l \in lost /\ l # next
          BY <1>0, <1>3, <3>4, <4>1, Families DEF Awaited, Settled
        <4> QED
          BY <2>2, <4>2 DEF ClaimInterface, Claimed, Settled
      <3> QED
        BY <3>2, <3>3, <3>4
    <2>3. CASE ClaimFails
      <3>1. bound' = bound /\ lost' = lost /\ bound[next] # "none"
        BY <1>3, <2>3 DEF ClaimFails
      <3>2. \A l \in Leads : Orphaned(l) => l \in lost
        BY <1>0, <1>3, <3>1 DEF Orphaned, Awaited, Settled
      <3> QED
        BY <1>0, <3>1, <3>2, SameBound DEF Settled
    <2> QED
      BY <1>3, <2>2, <2>3 DEF Claiming, ClaimAll, ClaimSkip, ClaimOne, ClaimDisconnect, ClaimDone
  <1> QED
    BY <1>1, <1>2, <1>3 DEF Claiming, ClaimAll, ClaimSkip, ClaimFails, ClaimInterface, ClaimDone

LEMMA ForwardingDrivers ==
  ASSUME DInv, Forwarding, ~Gone
  PROVE  Whole' /\ \A l \in Leads : Orphaned(l)' => Settled(l)'
  <1>1. pc = "session" /\ bound' = bound /\ lost' = lost
    BY ForwardingKeeps
  <1> QED
    BY <1>1, SameBound DEF DInv, Settled, Awaited

LEMMA ReleasingDrivers ==
  ASSUME DInv, Releasing, ~Gone
  PROVE  Whole' /\ \A l \in Leads : Orphaned(l)' => Settled(l)'
  <1>0. TypeOK /\ Whole /\ Ascending /\ \A l \in Leads : Orphaned(l) => Settled(l)
    BY DEF DInv, CInv
  <1> USE NumbersAssumption DEF Ifs
  <1>1. CASE Drop \/ ReleaseAll
    <2>1. bound' = bound /\ lost' = lost /\ pc \in {"idle", "releaseAll"}
      BY <1>1 DEF Drop, ReleaseAll
    <2> QED
      BY <1>0, <2>1, SameBound DEF Settled, Awaited
  <1>2. CASE ReleaseOne
    <2>1. next \in Ifs /\ pc = "release" /\ pc' = "release" /\ left' = left /\ lost' = lost
      BY <1>2 DEF ReleaseOne
    <2>2. CASE bound' = bound
      BY <1>0, <2>1, <2>2, SameBound DEF Awaited, Settled
    <2>3. CASE next \in left /\ bound' = [bound EXCEPT ![next] = "none"] /\ bound[next] = "usbfs"
      <3>1. Whole'
        BY <1>0, <2>1, <2>3, Families DEF Whole, TypeOK, Family
      <3>2. ASSUME NEW l \in Leads, Orphaned(l)' PROVE l \in left \/ l \in lost
        <4>1. CASE next \in Family(l)
          <5>1. l \in 1..next
            BY <2>1, <4>1, Families DEF Leads
          <5> QED
            BY <1>0, <2>3, <5>1 DEF Ascending
        <4>2. CASE next \notin Family(l)
          <5>1. Orphaned(l)
            BY <1>0, <2>3, <3>2, <4>2, Families DEF Orphaned, TypeOK, Family
          <5> QED
            BY <1>0, <2>1, <5>1 DEF Awaited, Settled
        <4> QED
          BY <4>1, <4>2
      <3> QED
        BY <2>1, <3>1, <3>2 DEF Awaited, Settled
    <2> QED
      BY <1>2, <2>2, <2>3 DEF ReleaseOne
  <1>3. CASE ReleasedAll
    <2>1. /\ bound' = bound /\ lost' = lost /\ pc = "release" /\ pc' = "reconnect"
          /\ left' = left /\ next' = 1
      BY <1>3 DEF ReleasedAll
    <2> QED
      BY <1>0, <2>1, SameBound DEF Awaited, Settled, Leads
  <1>4. CASE Reconnected
    <2>1. /\ next \in left /\ next \in Ifs /\ pc = "reconnect" /\ pc' = "reconnect"
          /\ left' = left /\ next' = next + 1 /\ lost' = lost \ {next}
      BY <1>0, <1>4 DEF Reconnected, NextInterface, TypeOK
    <2>2. CASE ~(Lead[next] = next /\ Unclaimed(next))
      <3>1. bound' = bound
        BY <1>0, <1>4, <2>2 DEF Reconnected, TypeOK
      <3>2. next \in Leads => ~Orphaned(next)
        BY <2>2 DEF Orphaned, Unclaimed, Leads
      <3>3. \A l \in Leads : Orphaned(l) /\ Settled(l) => Settled(l)'
        BY <1>0, <2>1, <3>2 DEF Awaited, Settled, Leads
      <3> QED
        BY <1>0, <3>1, <3>3, SameBound
    <2>3. CASE Lead[next] = next /\ Unclaimed(next)
      <3>1. bound' = [j \in Ifs |-> IF j \in Family(next) THEN "driver" ELSE bound[j]]
        BY <1>4, <2>3 DEF Reconnected
      <3>2. next \in Leads
        BY <2>1, <2>3 DEF Leads
      <3>3. \A i, j \in Ifs : j \in Family(i) => (i \in Family(next) <=> j \in Family(next))
        BY <2>1 DEF Family
      <3>4. Whole'
        <4>1. ASSUME NEW i \in Ifs, bound'[i] = "driver", NEW j \in Family(i)
              PROVE  bound'[j] = "driver"
          <5>1. j \in Ifs
            BY <4>1, Families
          <5> QED
            BY <1>0, <3>1, <3>3, <4>1, <5>1 DEF Whole
        <4>2. ASSUME NEW i \in Ifs, Lead[i] = 0 PROVE bound'[i] \in {"none", "usbfs"}
          <5>1. i \notin Family(next)
            BY <3>2, <4>2, Families
          <5> QED
            BY <1>0, <3>1, <4>2, <5>1 DEF Whole
        <4> QED
          BY <4>1, <4>2 DEF Whole, Family
      <3>5. ASSUME NEW l \in Leads, Orphaned(l)' PROVE Settled(l)'
        <4>1. l # next
          BY <2>1, <3>1, <3>5, Families DEF Orphaned, Family
        <4>2. \A j \in Family(l) : j \in Ifs /\ j \notin Family(next)
          BY <3>2, <4>1, Families
        <4>3. Orphaned(l)
          BY <3>1, <3>5, <4>2 DEF Orphaned, Family
        <4> QED
          BY <1>0, <2>1, <4>1, <4>3 DEF Awaited, Settled, Leads
      <3> QED
        BY <3>4, <3>5
    <2> QED
      BY <2>2, <2>3
  <1>5. CASE ReconnectFails
    <2>1. bound' = bound /\ pc = "reconnect" /\ pc' = "reconnect" /\ left' = left /\ next \in Ifs
      BY <1>0, <1>5 DEF ReconnectFails, ProbeFails, NextInterface, TypeOK
    <2>2. CASE next' = next /\ lost' = lost
      BY <1>0, <2>1, <2>2, SameBound DEF Awaited, Settled
    <2>3. CASE next' = next + 1 /\ lost' = IF Unclaimed(next) THEN lost \cup {next} ELSE lost
      <3>1. Orphaned(next) => next \in lost'
        BY <2>3 DEF Orphaned, Unclaimed
      <3>2. lost \subseteq lost'
        BY <2>3
      <3>3. \A l \in Leads : Orphaned(l) /\ Settled(l) => Settled(l)'
        BY <1>0, <2>1, <2>3, <3>1, <3>2 DEF Awaited, Settled, Leads
      <3> QED
        BY <1>0, <2>1, <3>3, SameBound
    <2> QED
      BY <1>5, <2>2, <2>3 DEF ReconnectFails, NextInterface
  <1>6. CASE ReconnectSkip
    <2>1. /\ bound' = bound /\ lost' = lost /\ pc = "reconnect" /\ pc' = "reconnect" /\ left' = left
          /\ next \notin left /\ next' = next + 1 /\ next \in Ifs
      BY <1>6 DEF ReconnectSkip, NextInterface
    <2>2. \A l \in Leads : Orphaned(l) /\ Settled(l) => Settled(l)'
      BY <1>0, <2>1 DEF Awaited, Settled, Leads
    <2> QED
      BY <1>0, <2>1, <2>2, SameBound
  <1>7. CASE ReconnectedAll
    <2>1. bound' = bound /\ lost' = lost /\ \A l \in Leads : ~Awaited(l)
      BY <1>0, <1>7 DEF ReconnectedAll, Awaited, Leads, TypeOK
    <2> QED
      BY <1>0, <2>1, SameBound DEF Settled
  <1> QED
    BY <1>1, <1>2, <1>3, <1>4, <1>5, <1>6, <1>7 DEF Releasing

LEMMA OutsideDrivers ==
  ASSUME DInv, NEW i \in Ifs, Grab(i) \/ Ungrab(i), ~Gone
  PROVE  Whole' /\ \A l \in Leads : Orphaned(l)' => Settled(l)'
  <1>0. /\ TypeOK /\ Whole /\ \A l \in Leads : Orphaned(l) => Settled(l)
        /\ \A l \in Leads : Settled(l)' <=> Settled(l)
    BY DEF DInv, CInv, Grab, Ungrab, Awaited, Settled, Family
  <1>1. CASE Grab(i)
    <2>1. bound' = [bound EXCEPT ![i] = "other"] /\ bound[i] = "none" /\ Lead[i] # 0
      BY <1>1 DEF Grab
    <2>2. Whole'
      BY <1>0, <2>1, Families DEF Whole, TypeOK, Family
    <2>3. \A l \in Leads : Orphaned(l)' => Orphaned(l)
      BY <1>0, <2>1, Families DEF Orphaned, TypeOK, Family
    <2> QED
      BY <1>0, <2>2, <2>3
  <1>2. CASE Ungrab(i)
    <2> DEFINE free == {j \in Family(i) : bound[j] \in {"none"} \/ j = i}
    <2>1. /\ bound[i] = "other" /\ Lead[i] # 0
          /\ bound' = [j \in Ifs |-> IF free = Family(i) /\ j \in free THEN "driver"
                                     ELSE IF j = i THEN "none" ELSE bound[j]]
      BY <1>0, <1>2 DEF Ungrab, Whole
    <2>2. CASE free = Family(i)
      <3>1. \A j \in Ifs : bound'[j] = IF j \in Family(i) THEN "driver" ELSE bound[j]
        BY <2>1, <2>2, Families
      <3>2. ASSUME NEW k \in Ifs, bound'[k] = "driver", NEW j \in Family(k)
            PROVE  bound'[j] = "driver"
        <4>1. j \in Ifs /\ Family(j) = Family(k)
          BY <3>2, Families
        <4>2. CASE k \in Family(i)
          BY <3>1, <4>1, <4>2, Families
        <4>3. CASE k \notin Family(i)
          <5>1. bound[j] = "driver"
            BY <1>0, <3>1, <3>2, <4>3 DEF Whole
          <5> QED
            BY <3>1, <4>1, <5>1
        <4> QED
          BY <4>2, <4>3
      <3>3. ASSUME NEW k \in Ifs, Lead[k] = 0 PROVE bound'[k] \in {"none", "usbfs"}
        <4>1. k \notin Family(i)
          BY <2>1, <3>3 DEF Family
        <4> QED
          BY <1>0, <3>1, <3>3, <4>1 DEF Whole
      <3>4. Whole'
        BY <3>2, <3>3 DEF Whole, Family
      <3>5. ASSUME NEW l \in Leads, Orphaned(l)' PROVE Orphaned(l)
        <4>1. \A j \in Family(l) : j \in Ifs /\ bound'[j] = "none"
          BY <3>5, Families DEF Orphaned, Family
        <4> QED
          BY <3>1, <4>1 DEF Orphaned
      <3> QED
        BY <1>0, <3>4, <3>5
    <2>3. CASE free # Family(i)
      <3>1. \A j \in Ifs : bound'[j] = IF j = i THEN "none" ELSE bound[j]
        BY <2>1, <2>3
      <3>2. PICK k \in Family(i) : k # i /\ bound[k] # "none"
        BY <2>3
      <3>3. \A k1 \in Ifs : bound[k1] = "driver" => i \notin Family(k1)
        BY <1>0, <2>1 DEF Whole
      <3>4. Whole'
        <4>1. ASSUME NEW m \in Ifs, bound'[m] = "driver", NEW j \in Family(m)
              PROVE  bound'[j] = "driver"
          BY <1>0, <3>1, <3>3, <4>1, Families DEF Whole
        <4>2. ASSUME NEW m \in Ifs, Lead[m] = 0 PROVE bound'[m] \in {"none", "usbfs"}
          BY <1>0, <3>1, <4>2 DEF Whole
        <4> QED
          BY <4>1, <4>2 DEF Whole, Family
      <3>5. ASSUME NEW l \in Leads, Orphaned(l)' PROVE Orphaned(l)
        <4>1. \A j \in Family(l) : j \in Ifs /\ bound'[j] = "none"
          BY <3>5, Families DEF Orphaned, Family
        <4>2. i \notin Family(l)
          <5> SUFFICES ASSUME i \in Family(l) PROVE FALSE
            OBVIOUS
          <5>1. Family(l) = Family(i)
            BY Families
          <5> QED
            BY <3>1, <3>2, <4>1, <5>1
        <4> QED
          BY <3>1, <4>1, <4>2 DEF Orphaned
      <3> QED
        BY <1>0, <3>4, <3>5
    <2> QED
      BY <2>2, <2>3
  <1> QED
    BY <1>1, <1>2

\* A device that has just come has its drivers.
LEMMA FreshDrivers ==
  bound = [i \in Ifs |-> Driven(i)] => Whole /\ \A l \in Leads : ~Orphaned(l)
  <1> SUFFICES ASSUME bound = [i \in Ifs |-> Driven(i)]
               PROVE  Whole /\ \A l \in Leads : ~Orphaned(l)
    OBVIOUS
  <1>1. \A i \in Ifs : bound[i] = IF Lead[i] = 0 THEN "none" ELSE "driver"
    BY DEF Driven
  <1>2. Whole
    BY <1>1, Families DEF Whole, Family
  <1>3. \A l \in Leads : ~Orphaned(l)
    BY <1>1, Families DEF Orphaned
  <1> QED
    BY <1>2, <1>3

LEMMA NextDrivers == DInv /\ [Next]_vars => DInv'
  <1> SUFFICES ASSUME DInv, [Next]_vars PROVE DInv'
    OBVIOUS
  <1>1. CInv' /\ Ascending'
    BY NextClaims, AscendingNext DEF DInv, CInv
  <1>2. ASSUME ~Gone' PROVE Whole' /\ \A l \in Leads : Orphaned(l)' => Settled(l)'
    <2>1. CASE Replug
      <3>1. bound' = [i \in Ifs |-> Driven(i)]
        BY <2>1 DEF Replug
      <3>2. (bound = [i \in Ifs |-> Driven(i)] => Whole /\ \A l \in Leads : ~Orphaned(l))'
        BY FreshDrivers, PTL
      <3> QED
        BY <3>1, <3>2 DEF Driven
    <2>2. CASE ~Replug
      <3>1. ~Gone
        BY <1>2, <2>2, GoneStays DEF DInv, CInv
      <3>2. CASE Unplug
        <4>1. Ifs = {}
          BY <1>2, <3>2 DEF Unplug, Gone
        <4> QED
          BY <4>1 DEF Whole, Leads
      <3>3. CASE UNCHANGED vars \/ \E e \in Eps : Transfer(e)
        <4>1. UNCHANGED <<pc, next, left, lost, bound>>
          BY <3>3 DEF vars, Transfer
        <4> QED
          BY <3>1, <4>1, SameBound DEF DInv, Awaited, Settled, Family
      <3> QED
        BY <2>2, <3>1, <3>2, <3>3, ClaimingDrivers, ForwardingDrivers, ReleasingDrivers,
           OutsideDrivers DEF Next
    <2> QED
      BY <2>1, <2>2
  <1> QED
    BY <1>1, <1>2 DEF DInv, Whole, Orphaned, Settled, Awaited, Gone, Family

\* However the claiming ended, the device is handed back to its drivers: both
\* passes of release_all are over, no interface of it is claimed, and a family
\* without its driver has a member in somebody else's hands or a leader whose
\* last probe the device failed, with nothing in its way (usbfs.rs release_all,
\* reconnect_one).
THEOREM DriversComeBack == Spec => []DriversRestored
  <1>1. Init => DInv
    <2> SUFFICES ASSUME Init PROVE DInv
      OBVIOUS
    <2>1. Whole /\ \A l \in Leads : ~Orphaned(l)
      BY FreshDrivers DEF Init
    <2>2. Ascending
      BY DEF Init, Ascending
    <2> QED
      BY <2>1, <2>2, InitClaims DEF DInv
  <1>2. DInv => DriversRestored
    <2> SUFFICES ASSUME DInv, pc = "idle", claimed = {}, ~Gone, NEW i \in Ifs,
                        \A j \in Family(i) : bound[j] # "other", Lead[i] \notin lost
                 PROVE  bound[i] = Driven(i)
      BY DEF DriversRestored
    <2>1. \A j \in Ifs : bound[j] \in {"driver", "other", "none"}
      BY DEF DInv, CInv, ClaimsMatchKernel, TypeOK, Gone
    <2>2. CASE Lead[i] = 0
      BY <2>1, <2>2 DEF DInv, Whole, Driven
    <2>3. CASE Lead[i] # 0
      <3>1. Lead[i] \in Leads /\ Family(Lead[i]) = Family(i)
        BY <2>3, Families
      <3>2. PICK j \in Family(i) : bound[j] # "none"
        BY <3>1 DEF DInv, Awaited, Settled, Orphaned
      <3>3. j \in Ifs /\ Family(j) = Family(i) /\ i \in Family(i) /\ bound[j] = "driver"
        BY <2>1, <3>2, Families
      <3> QED
        BY <2>3, <3>3 DEF DInv, Whole, Driven
    <2> QED
      BY <2>2, <2>3
  <1> QED
    BY <1>1, <1>2, NextDrivers, PTL DEF Spec
=============================================================================
