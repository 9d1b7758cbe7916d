---------------------------- MODULE SessionLife ----------------------------
(***************************************************************************)
(* What the session table promises of every session, with the requests,    *)
(* the cleanup loop, the clock and the progress of the files left out:     *)
(*                                                                         *)
(*   - A session is opened once, under terms (who sends, from where, which *)
(*     files) that never change: the handlers compare requests with them   *)
(*     through pointers they kept, and need no lock for it.                *)
(*   - It ends once, whoever ends it, and never comes back to the table.   *)
(*   - It is canceled once, and only after it has ended: an upload is not  *)
(*     told to stop while its session can still be found.                  *)
(*   - No step opens, ends or cancels two sessions.                        *)
(***************************************************************************)
CONSTANTS
  Id,    \* the session ids
  Terms  \* what a session may be opened for

VARIABLES
  stage,  \* of every id
  terms   \* what each session was opened for, NoTerms before

lifeVars == <<stage, terms>>

NoTerms == "no terms"

LifeInit ==
  /\ stage = [s \in Id |-> "unused"]
  /\ terms = [s \in Id |-> NoTerms]

Open(s) ==
  /\ stage[s] = "unused"
  /\ stage' = [stage EXCEPT ![s] = "open"]
  /\ \E t \in Terms : terms' = [terms EXCEPT ![s] = t]

End(s) ==
  /\ stage[s] = "open"
  /\ stage' = [stage EXCEPT ![s] = "ended"]
  /\ UNCHANGED terms

Cancel(s) ==
  /\ stage[s] = "ended"
  /\ stage' = [stage EXCEPT ![s] = "canceled"]
  /\ UNCHANGED terms

LifeNext == \E s \in Id : Open(s) \/ End(s) \/ Cancel(s)

LifeSpec == LifeInit /\ [][LifeNext]_lifeVars

=============================================================================
