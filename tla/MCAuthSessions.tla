--------------------------- MODULE MCAuthSessions ---------------------------
\* AuthSessions for TLC: calls, agents and tokens are interchangeable.
EXTENDS AuthSessions, TLC

Symmetry ==
    Permutations(Calls) \cup Permutations(Agents) \cup Permutations(Tokens)

=============================================================================
