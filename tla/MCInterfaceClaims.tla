-------------------------- MODULE MCInterfaceClaims --------------------------
(* A device shaped like the puck: a comms pair that one driver binds, a HID *)
(* interface, and one that has no driver.  The types are the standard and   *)
(* the class ones to device, interface and endpoint, and the standard ones  *)
(* that read; the requests have the codes of CLEAR_FEATURE, SET_ADDRESS,    *)
(* SET_CONFIGURATION (and SET_REPORT) and SET_INTERFACE (and SET_PROTOCOL). *)
EXTENDS InterfaceClaims, TLC

Shape == <<1, 1, 3, 0>>
Endpoints == (130 :> 1) @@ (131 :> 3)
Packets == [typ : {0, 1, 2, 32, 33, 34, 128, 129, 130}, request : {1, 5, 9, 11},
            value : {0, 2}, index : {1, 3, 130, 131}]
=============================================================================
