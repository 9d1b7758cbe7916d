--------------------------- MODULE MCUploadServer ---------------------------
(***************************************************************************)
(* Small instances of the upload server.  f1 is one chunk, f2 is empty;    *)
(* the second name tried for f1 is the first one tried for f2, as with     *)
(* "a.txt" and "a (1).txt".                                                *)
(***************************************************************************)
EXTENDS UploadServerProperties, TLC

CONSTANTS s1, s2, f1, f2, h1, h2, p1, p2, u1, u2, c1, c2

MCSize == [f \in FileId |-> IF f = f1 THEN 1 ELSE 0]

\* The sender keeps the file ids inside and outside the metadata the same,
\* or leaves the one of f2 out.
MCMetaId == [f \in FileId |-> f]
MCMetaIdMissing == [f \in FileId |-> IF f = f1 THEN f1 ELSE NoId]

MCOldLength == [p \in Existing |-> 1]

MCCandidate ==
  [f \in FileId |-> IF f = f1 THEN <<"a", "b", "c", "d">>
                             ELSE <<"b", "c", "d", "e">>]

Symmetry == Permutations({u1, u2}) \cup Permutations({s1, s2})
              \cup Permutations({p1, p2}) \cup Permutations({c1, c2})

=============================================================================
