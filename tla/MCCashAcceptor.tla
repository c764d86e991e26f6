--------------------------- MODULE MCCashAcceptor ---------------------------
(* CashAcceptor with one bill acceptor and one coin acceptor. *)
EXTENDS CashAcceptor

CONSTANTS bill, coin

\* The bill alone reaches the maximum when the coin came first.
FedWith == [a \in {bill, coin} |-> IF a = bill THEN 2 ELSE 1]

=============================================================================
