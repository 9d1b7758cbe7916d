------------------------ MODULE MCMulticastListener ------------------------
(***************************************************************************)
(* Two sockets; a device that announces itself twice, the second time      *)
(* asking for an answer, and the process's own packet.  Times are in half  *)
(* seconds, with a window of one of them.                                  *)
(***************************************************************************)
EXTENDS MulticastListener, TLC

CONSTANTS c1, c2, a1, a2, own

MCKeyOf == a1 :> "peer" @@ a2 :> "peer" @@ own :> "me"

=============================================================================
