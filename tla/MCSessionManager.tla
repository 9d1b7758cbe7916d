-------------------------- MODULE MCSessionManager -------------------------
(***************************************************************************)
(* Small instances of SessionManager: one file that is empty and one of    *)
(* one chunk, a timeout of one unit, a clock that reaches past it.         *)
(***************************************************************************)
EXTENDS SessionManager, TLC

CONSTANTS s1, s2, empty, big, h1

MCSize == (empty :> 0) @@ (big :> 1)

=============================================================================
