---------------------------- MODULE MCResetTools ----------------------------
(***************************************************************************)
(* Instances of ResetTools for TLC.                                        *)
(***************************************************************************)
EXTENDS ResetTools, TLC

CONSTANTS p1, p2

\* Whatever the two tools are used for, they take turns at each register: a bridge and the
\* warm reset may be reset beside a fabric clear, FPGA-writeConfig runs beside neither.
TurnsAtAll == p1 :> {"config", "fwr", "lwr"} @@ p2 :> {"ffc", "hfr"}

\* Two tools that reset two different bridges: one register, two bits.
TwoBridges == p1 :> {"lwr"} @@ p2 :> {"hfr"}

ClearOnly == p1 :> {"ffc"}

=============================================================================
