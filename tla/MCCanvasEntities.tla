--------------------------- MODULE MCCanvasEntities ---------------------------
(***************************************************************************)
(* Small instances of CanvasEntities for TLC.                              *)
(***************************************************************************)
EXTENDS CanvasEntities

SomeControlModels == <<[type |-> "controlnet", base |-> "z-image"]>>

SomeRefModels == <<[type |-> "flux_redux", base |-> "flux"], [type |-> "ip_adapter", base |-> "flux"]>>

===============================================================================
