---------------------------- MODULE MCModelInstall ----------------------------
(***************************************************************************)
(* Small instances of ModelInstall.                                        *)
(***************************************************************************)
EXTENDS ModelInstall, TLC

CONSTANTS w1, w2

MCSymmetry == Permutations(Workers)

===============================================================================
