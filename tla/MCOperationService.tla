-------------------------- MODULE MCOperationService --------------------------
(* Instance of OperationService: two callers, two operations, every outcome. *)
EXTENDS OperationService, TLC

CONSTANTS o1, o2, alice, bob, work, answer

MCOps == {o1, o2}
MCPrincipals == {alice, bob}
MCMetadata == {work}
MCAnswers == {answer}

Symmetry == Permutations(MCOps) \cup Permutations(MCPrincipals)
=============================================================================
