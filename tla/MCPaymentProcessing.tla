------------------------ MODULE MCPaymentProcessing ------------------------
(* PaymentProcessing on small instances. *)
EXTENDS PaymentProcessing, TLC

CONSTANTS s0, s1, s2, none

\* Session numbers other than the first are interchangeable.
SessionSymmetry == Permutations(Sessions \ {InitialSession})

=============================================================================
