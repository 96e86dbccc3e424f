---------------------------- MODULE MCGrantStore ----------------------------
(* A small instance of GrantStore for TLC.  No symmetry, which TLC cannot  *)
(* combine with liveness.                                                  *)
EXTENDS GrantStore

CONSTANTS t1, t2, p1, p2, a1, i1, i2
=============================================================================
