---------------------------- MODULE MCCanvasHistory ----------------------------
(***************************************************************************)
(* A small instance of CanvasHistory for TLC: two types of action, one of  *)
(* them a stroke.                                                          *)
(***************************************************************************)
EXTENDS CanvasHistory

TwoTypes == {"entityBrushLineAdded", "entityMovedBy"}
OneStroke == {"entityBrushLineAdded"}
===============================================================================
