---------------------------- MODULE MCGridEditor ----------------------------
(* A feeder for the model checker: a node, a meter linked to it and a node *)
(* of the meter.                                                           *)
EXTENDS GridEditor, TLC

Object(name, object, from, to, parent) ==
    [name |-> name, object |-> object, from |-> from, to |-> to, parent |-> parent]

MeterFeeder ==
    1 :> Object(1, "node", 0, 0, 0)
    @@ 2 :> Object(2, "triplex_meter", 0, 0, 0)
    @@ 3 :> Object(3, "link", 1, 2, 0)
    @@ 4 :> Object(4, "triplex_node", 0, 0, 2)
=============================================================================
