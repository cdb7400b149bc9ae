---------------------------- MODULE MCAuthService ----------------------------
\* AuthService for TLC: methods, accounts and tokens are interchangeable.
EXTENDS AuthService, TLC

Symmetry ==
    Permutations(Calls) \cup Permutations(Accounts) \cup Permutations(Tokens)

=============================================================================
