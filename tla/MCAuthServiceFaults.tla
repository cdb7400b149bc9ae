------------------------ MODULE MCAuthServiceFaults ------------------------
\* AuthServiceFaults for TLC: accounts and tokens are interchangeable.
EXTENDS AuthServiceFaults, TLC

Symmetry == Permutations(Accounts) \cup Permutations(Tokens)

=============================================================================
