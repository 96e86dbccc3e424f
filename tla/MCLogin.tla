------------------------------- MODULE MCLogin -------------------------------
EXTENDS Login

CONSTANTS b1, b2, h1, h2

MCAsked == <<"/approve", "//elsewhere">>

Mail(email, primary, verified) == [email |-> email, primary |-> primary, verified |-> verified]

\* "ann" has an unverified and a secondary address before her own, "bo" only a
\* secondary one, which a cookie cannot carry.
MCEmails ==
  ("ann" :> <<Mail("old", FALSE, FALSE), Mail("side", FALSE, TRUE), Mail("Ann", TRUE, TRUE)>>)
    @@ ("bo" :> <<Mail("bo", TRUE, FALSE), Mail("b|o", FALSE, TRUE)>>)

MCLower == [e \in {"old", "side", "Ann", "bo", "b|o"} |-> IF e = "Ann" THEN "ann" ELSE e]

Symmetry == Permutations({b1, b2}) \cup Permutations({h1, h2})
=============================================================================
