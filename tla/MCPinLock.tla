------------------------------ MODULE MCPinLock ------------------------------
\* PinLock for TLC: calls, PINs and salts are interchangeable.
EXTENDS PinLock, TLC

Symmetry == Permutations(Calls) \cup Permutations(Pins) \cup Permutations(Salts)

=============================================================================
