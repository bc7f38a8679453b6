------------------------- MODULE ConfigureContract -------------------------
(***************************************************************************)
(* What alt_fpga_configure and alt_fpga_istream_configure promise their    *)
(* caller (alt_fpga_manager.h), seen from outside: a call ends with an     *)
(* outcome, and ends with SUCCESS only while the fabric holds the whole of *)
(* the image of that call.  An older image is never continued, only wiped. *)
(***************************************************************************)
CONSTANT Outcomes   \* what a call may return other than SUCCESS

VARIABLES
  phase,    \* "none", "busy" in a call, "done" after it
  outcome,  \* what the last call returned
  image     \* what the fabric holds: nothing, words of this call, or older ones

contractVars == <<phase, outcome, image>>

Success == "SUCCESS"
NoOutcome == "none"

Aged(img) == IF img = "blank" THEN "blank" ELSE "old"

Init ==
  /\ phase = "none"
  /\ outcome = NoOutcome
  /\ image \in {"blank", "old"}

\* A configuration call begins, or any other call (then phase is "none").
Begin ==
  /\ phase # "busy"
  /\ phase' \in {"busy", "none"}
  /\ outcome' = NoOutcome
  /\ image' = Aged(image)

Load ==
  /\ phase = "busy"
  /\ image \in {"blank", "part"}
  /\ image' \in {"part", "whole"}
  /\ UNCHANGED <<phase, outcome>>

\* nCONFIG, a reset at power up or a power loss clears the fabric at any time.
Wipe ==
  /\ image' = "blank"
  /\ UNCHANGED <<phase, outcome>>

Succeed ==
  /\ phase = "busy"
  /\ image = "whole"
  /\ phase' = "done"
  /\ outcome' = Success
  /\ image' = Aged(image)

Fail ==
  /\ phase = "busy"
  /\ phase' = "done"
  /\ outcome' \in Outcomes
  /\ image' = Aged(image)

\* The caller is killed; what its call had loaded stays.
Abort ==
  /\ phase = "busy"
  /\ phase' = "none"
  /\ outcome' = NoOutcome
  /\ image' = Aged(image)

Next == Begin \/ Load \/ Wipe \/ Succeed \/ Fail \/ Abort

Spec == Init /\ [][Next]_contractVars

=============================================================================
