--------------------------- MODULE MCRunExecution ---------------------------
(* RunExecution for TLC: limits are records, which a cfg cannot write.     *)
EXTENDS RunExecution, TLC

MCLimits(messages, cap) == [monthly_messages |-> messages, monthly_token_cap |-> cap]

\* A plan whose limits an administrator raises and lowers.
MovingLimits == {MCLimits(1, 4), MCLimits(2, 6)}

Symmetry == Permutations(Requests)

=============================================================================
