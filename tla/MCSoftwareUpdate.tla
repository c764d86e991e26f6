-------------------------- MODULE MCSoftwareUpdate --------------------------
(* The shipped configuration of the watch service, and a few files. *)
EXTENDS SoftwareUpdate

InOrder == <<"ekiosk", "updater">>
StartOrder == [m \in Modules |-> IF m = "ekiosk" THEN 1 ELSE 3]
CloseOrder == [m \in Modules |-> IF m = "ekiosk" THEN 1 ELSE 2]
StartLimits == [m \in Modules |-> IF m = "ekiosk" THEN 3 ELSE 1]

Before == [lib |-> 1, junk |-> 1, extra |-> 0]
Distribution == << [lib |-> 2, junk |-> 0, extra |-> 1] >>

=============================================================================
