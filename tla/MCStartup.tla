----------------------------- MODULE MCStartup -----------------------------
(***************************************************************************)
(* A receiver and a sender of one user, started, killed and started again  *)
(* in every order, and two ports that other programs take and leave.     *)
(***************************************************************************)
EXTENDS Startup

CONSTANTS r1, d1, k1, k2, k3, k4

=============================================================================
