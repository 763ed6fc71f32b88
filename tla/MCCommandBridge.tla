-------------------------- MODULE MCCommandBridge --------------------------
EXTENDS CommandBridge

\* Nothing tells one controller, or one command id, from another.
Symmetry == Permutations(Controllers) \cup Permutations(CommandIds)
==============================================================================
