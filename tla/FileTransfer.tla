---------------------------- MODULE FileTransfer ----------------------------
(***************************************************************************)
(* What one call of SendFiles promises the person who sends files, with    *)
(* the receiver, the requests and the network left out: which files the    *)
(* receiver has said it stored, what the sender was told of each file, and *)
(* whether the call is over.                                               *)
(*                                                                         *)
(*   - A file is reported sent only after it has been stored.              *)
(*   - A file reported as not accepted is not stored, and never will be.   *)
(*   - Every file has at most one report, it is final, and a failed file   *)
(*     is the last one reported.                                           *)
(*   - A file may be stored without a report, or although it was reported  *)
(*     failed, also after the call is over: its answer was lost.           *)
(***************************************************************************)
CONSTANT File

VARIABLES stored, reported, over

transferVars == <<stored, reported, over>>

Unreported == [f \in File |-> "none"]

TransferInit ==
  /\ stored = {}
  /\ reported = Unreported
  /\ over = FALSE

Failing == \E f \in File : reported[f] = "failed"

Store(files) ==
  /\ \A f \in files : reported[f] \in {"none", "failed"}
  /\ stored' = stored \cup files
  /\ UNCHANGED <<reported, over>>

ReportSent(f) ==
  /\ f \in stored
  /\ reported' = [reported EXCEPT ![f] = "sent"]
  /\ UNCHANGED <<stored, over>>

ReportNotAccepted(f) ==
  /\ f \notin stored
  /\ reported' = [reported EXCEPT ![f] = "not accepted"]
  /\ UNCHANGED <<stored, over>>

ReportFailed(f) ==
  /\ reported' = [reported EXCEPT ![f] = "failed"]
  /\ UNCHANGED <<stored, over>>

(* Every stored file at once, which ends the call: the receiver had them.  *)
ReportAllSent ==
  /\ reported = Unreported
  /\ reported' = [f \in File |-> IF f \in stored THEN "sent" ELSE "none"]
  /\ over' = TRUE
  /\ UNCHANGED stored

Return ==
  /\ over' = TRUE
  /\ UNCHANGED <<stored, reported>>

TransferNext ==
  \/ \E files \in SUBSET File : Store(files)
  \/ \E f \in File :
       /\ ~over /\ ~Failing /\ reported[f] = "none"
       /\ ReportSent(f) \/ ReportNotAccepted(f) \/ ReportFailed(f)
  \/ ~over /\ (ReportAllSent \/ Return)

TransferSpec == TransferInit /\ [][TransferNext]_transferVars

=============================================================================
