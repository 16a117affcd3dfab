------------------------------- MODULE SignUpMC -------------------------------
\* Instances of SignUp for TLC.
EXTENDS SignUp, TLC

CONSTANTS c1, acme

\* Two sign-ups can be about one company only.
MCRegistry == (c1 :> acme)

\* Workers, sign-ups, tokens, vectors and customKeys are interchangeable.
Symmetry == Permutations(Workers) \cup Permutations(SignUps)
            \cup Permutations(Tokens) \cup Permutations(IVs)
            \cup Permutations(Keys)
=============================================================================
