----------------------------- MODULE MCNodeEditor -----------------------------
(***************************************************************************)
(* Small instances of NodeEditor for TLC.                                  *)
(***************************************************************************)
EXTENDS NodeEditor

Type(name, cardinality) == [name |-> name, cardinality |-> cardinality]
Int == Type("IntegerField", "SINGLE")
Float == Type("FloatField", "SINGLE")
Ints == Type("IntegerField", "COLLECTION")
AnyType == Type("AnyField", "SINGLE")
ItemType == Type("CollectionItemField", "SINGLE")
ListType == Type("CollectionField", "COLLECTION")

\* A source of integers, a computation on floats, a collect node and an if
\* node.
SomeInputs ==
    [range |-> << >>, add |-> [a |-> Float],
     collect |-> [item |-> ItemType, collection |-> ListType],
     if |-> [true_input |-> AnyType, false_input |-> AnyType]]
SomeOutputs ==
    [range |-> [value |-> Int, collection |-> Ints], add |-> [value |-> Float],
     collect |-> [collection |-> ListType], if |-> [value |-> AnyType]]
SomeKinds == [range |-> "range", add |-> "add", collect |-> "collect", if |-> "if"]


CONSTANTS k1, k2

ConnectorSymmetry == Permutations(Connectors)

===============================================================================
