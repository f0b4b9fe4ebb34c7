------------------------------ MODULE MCBacklog ------------------------------
(* Small instances of Backlog for TLC.                                      *)
EXTENDS Backlog

Msg(type, seq, round) == [type |-> type, seq |-> seq, round |-> round]

\* Messages of both heights and of the first and the last of the rounds, one of
\* each type among them, that are future in some view and current in another.
SomeMessages ==
  {Msg("Prepare", FirstSequence, 99), Msg("Preprepare", FirstSequence, 99),
   Msg("RoundChange", LastSequence, 1), Msg("Preprepare", LastSequence, 0),
   Msg("Commit", LastSequence, 0), Msg("Prepare", LastSequence, 0)}

\* The two messages of a proposer in the next view.
OfTheProposer ==
  {Msg("Preprepare", LastSequence, 0), Msg("Commit", LastSequence, 0)}
=============================================================================
