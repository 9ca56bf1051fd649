-------------------------- MODULE MCAndroidService --------------------------
(* The service with one device and two connections per run. *)
EXTENDS AndroidService
=============================================================================
