-------------------------- MODULE MCPiControlBridge --------------------------
(* One action of each kind, in any order. *)
EXTENDS PiControlBridge, TLC

CONSTANTS e1, v1, w1

ThreeActs == {e1, v1, w1}
MCKinds == e1 :> "edit" @@ v1 :> "navigate" @@ w1 :> "reload"

=============================================================================
