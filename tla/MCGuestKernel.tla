---------------------------- MODULE MCGuestKernel ----------------------------
(* The entry thread with two workers and an event, or with one worker and  *)
(* an object of each kind.                                                 *)
EXTENDS GuestKernel
=============================================================================
