----------------------------- MODULE MCWebShare -----------------------------
(***************************************************************************)
(* Small instances of WebShare: two shares, of one file and of none.       *)
(***************************************************************************)
EXTENDS WebShare, TLC

CONSTANTS a1, a2, c1, c2, v1, v2, x

MCShares == (a1 :> {x}) @@ (a2 :> {})

=============================================================================
