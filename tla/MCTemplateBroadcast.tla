------------------------- MODULE MCTemplateBroadcast -------------------------
(* TemplateBroadcast with one fault of each kind. *)
EXTENDS TemplateBroadcast

MCOneOfEach == [f \in Faults |-> 1]
=============================================================================
