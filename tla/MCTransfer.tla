----------------------------- MODULE MCTransfer -----------------------------
(***************************************************************************)
(* One call sends f1, of one chunk, or f1 and then f2, of two; the second  *)
(* name tried for f1 is the first one tried for f2.  A file of f1's name   *)
(* and size is in the directory before.                                    *)
(***************************************************************************)
EXTENDS TransferProperties, TLC

CONSTANTS s1, f1, f2, h1, h2, p1, u1, u2, c1

MCSize == f1 :> 1 @@ f2 :> 2
MCMetaId == [f \in FileId |-> f]
MCOldLength == [p \in Existing |-> 1]
MCCandidate == f1 :> <<"a", "b", "c">> @@ f2 :> <<"b", "c", "d">>
MCUploadCall == f1 :> u1 @@ f2 :> u2
MCOrder == <<f1, f2>>

=============================================================================
