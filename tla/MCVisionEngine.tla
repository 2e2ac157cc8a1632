---------------------------- MODULE MCVisionEngine ----------------------------
(* Three cells and four states: the menu that a wait at boot leads to, before  *)
(* its time is over, looks like the one that a press leads to and reacts       *)
(* otherwise.                                                                  *)
EXTENDS VisionEngine, TLC

CONSTANTS boot, menu, other, flight, neutral, wait, press

To(state, frames) == [state |-> state, frames |-> frames]
MCView == (boot :> "boot") @@ (menu :> "menu") @@ (other :> "menu") @@ (flight :> "flight")
MCHold == (neutral :> 1) @@ (wait :> 2) @@ (press :> 1)
MCAllowed == ("boot" :> Options) @@ ("menu" :> {wait, press}) @@ ("flight" :> {neutral, wait})
MCOutcome ==
    (boot :> ((neutral :> To(boot, 1)) @@ (wait :> To(menu, 1)) @@ (press :> To(other, 1))))
 @@ (menu :> ((neutral :> To(menu, 1)) @@ (wait :> To(flight, 2)) @@ (press :> To(boot, 1))))
 @@ (other :> ((neutral :> To(other, 1)) @@ (wait :> To(boot, 2)) @@ (press :> To(flight, 1))))
 @@ (flight :> ((neutral :> To(flight, 1)) @@ (wait :> To(boot, 2)) @@ (press :> To(flight, 1))))
=============================================================================
