---------------------------- MODULE MCCoordinator ----------------------------
(* Three configs, one per strategy; two of them share the template.          *)
EXTENDS Coordinator

ThreeSettings == {[template |-> "A", strategy |-> "rigid"], [template |-> "A", strategy |-> "coarse"],
                  [template |-> "B", strategy |-> "wavefront"]}
OneSetting    == {[template |-> "A", strategy |-> "rigid"]}
=============================================================================
