---------------------------- MODULE MCAuthServer ----------------------------
(* Small instances of AuthServer for TLC: each configuration serves the    *)
(* kinds of request its question is about.                                 *)
EXTENDS AuthServer, TLC

CONSTANTS t1, t2, p1, p2, a1, a2, nobody, good, broken, forged, h1, h2

\* One approver is spelled with a capital.
OneLower == [s \in {"Ann"} |-> a1]

HandlerSymmetry == Permutations({h1, h2})
Symmetry == HandlerSymmetry \cup Permutations({p1, p2})
TokenSymmetry == Symmetry \cup Permutations({t1, t2})
=============================================================================
