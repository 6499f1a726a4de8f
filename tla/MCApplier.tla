------------------------------ MODULE MCApplier ------------------------------
(***************************************************************************)
(* Small instances of Applier.                                             *)
(***************************************************************************)
EXTENDS Applier

CONSTANT e1

OneSpec == {[engine |-> e1, enabled |-> TRUE, valid |-> TRUE]}
MayBeInvalid == {[engine |-> e1, enabled |-> TRUE, valid |-> b] : b \in BOOLEAN}
=============================================================================
