-------------------------- MODULE MCCashDispenser --------------------------
(* CashDispenser with two units whose nominals do not divide each other. *)
EXTENDS CashDispenser

Nominals == <<3, 2>>

=============================================================================
