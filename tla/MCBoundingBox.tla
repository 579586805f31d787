----------------------------- MODULE MCBoundingBox -----------------------------
(***************************************************************************)
(* Small instances of BoundingBox for TLC.                                 *)
(***************************************************************************)
EXTENDS BoundingBox, TLC

TwoPresets == <<[id |-> "1:1", w |-> 128, h |-> 128], [id |-> "16:9", w |-> 168, h |-> 96]>>

WideImage == {<<240, 100>>}

===============================================================================
