--------------------------- MODULE MCUpdateEngine ---------------------------
(* The update engine alone: a library, a module that goes and comes again, a    *)
(* settings file and an optional one, in two distributions.                     *)
EXTENDS UpdateEngine

AllFiles == {"lib", "module", "settings", "extra"}

Before == [lib |-> 1, module |-> 1, settings |-> 1, extra |-> 0]

Distributions ==
    << [lib |-> 2, module |-> 0, settings |-> 2, extra |-> 1],
       [lib |-> 3, module |-> 2, settings |-> 2, extra |-> 1] >>

=============================================================================
