--------------------------- MODULE MCTraefikUpdate ---------------------------
(* Instances of TraefikUpdate for TLC.                                     *)
EXTENDS TraefikUpdate

\* The newest release starts but never becomes healthy.
NewestBroken == {[ver |-> 4, opt |-> "a"]}

\* The second options are broken with every release.
OptionsBroken == {[ver |-> v, opt |-> "b"] : v \in Versions}

NothingBroken == {}

=============================================================================
