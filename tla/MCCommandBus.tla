---------------------------- MODULE MCCommandBus ----------------------------
\* Ids are interchangeable.
EXTENDS CommandBus, TLC

Symmetry == Permutations(Documents) \cup Permutations(Lines) \cup Permutations(Shipments)
              \cup Permutations(Payments) \cup Permutations(Users)
=============================================================================
