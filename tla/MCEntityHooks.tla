--------------------------- MODULE MCEntityHooks ---------------------------
EXTENDS EntityHooks, TLC

\* Slots, addresses, guids and objects are interchangeable.
Symmetry == Permutations(Slot) \cup Permutations(Address)
            \cup Permutations(Guid) \cup Permutations(Net)
=============================================================================
