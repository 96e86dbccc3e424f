-------------------------- MODULE MCResourceServer --------------------------
(* A small instance of ResourceServer for TLC: one repository, a right to  *)
(* read it and one to write it.                                            *)
EXTENDS ResourceServer

CONSTANTS fetch, push, repo, p1, p2

OneRepo == [i \in {fetch, push} |-> repo]
=============================================================================
