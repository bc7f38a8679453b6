---------------------------- MODULE FpgaContract ----------------------------
(***************************************************************************)
(* FpgaManager with one tool, seen as ConfigureContract: what the phase of *)
(* a call, its outcome and the image of the contract are in the driver.    *)
(***************************************************************************)
EXTENDS FpgaManager

\* The one tool of an instance, and its call as ConfigureContract sees it.
Sole == CHOOSE p \in Tools : TRUE

CallPhase ==
  CASE ~IsConfigure(Sole) -> "none"
    [] IsConfigure(Sole) /\ pc[Sole] \in DriverLocations -> "busy"
    [] OTHER -> IF result[Sole] = None THEN "none" ELSE "done"

CallImage ==
  CASE cram = <<>> -> "blank"
    [] cram # <<>> /\ (CallPhase # "busy" \/ cram[1].call # call[Sole]) -> "old"
    [] OTHER -> IF Holds(call[Sole], ImageBytes(Sole)) THEN "whole" ELSE "part"

Contract == INSTANCE ConfigureContract WITH
  Outcomes <- Status \ {"SUCCESS"},
  phase <- CallPhase,
  outcome <- IF IsConfigure(Sole) THEN result[Sole] ELSE None,
  image <- CallImage

\* The driver implements the contract of its header: every step of tool, fabric
\* and user is one of the contract's or leaves the caller's view unchanged.
KeepsContract == Contract!Spec

=============================================================================
