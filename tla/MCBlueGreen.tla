---------------------------- MODULE MCBlueGreen ----------------------------
(* Small instances of BlueGreen for TLC. *)
EXTENDS BlueGreen

CONSTANTS v1, v2, v3   \* releases

\* All releases ship the same migrations.
SameHead == [v \in Versions |-> 1]

\* Every release adds one migration.
GrowingHead == [v \in Versions |-> CASE v = v1 -> 1 [] v = v2 -> 2 [] OTHER -> 3]

=============================================================================
