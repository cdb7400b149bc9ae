---------------------------- MODULE MCOtpService ----------------------------
\* OtpService for TLC: calls, code records and codes are interchangeable.
EXTENDS OtpService, TLC

Symmetry ==
    Permutations(Calls) \cup Permutations(OtpIds) \cup Permutations(Codes)

=============================================================================
