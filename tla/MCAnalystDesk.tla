---------------------------- MODULE MCAnalystDesk ----------------------------
(* Two servers, exchangeable, serve one customer. *)
EXTENDS AnalystDesk, TLC
Symmetric == Permutations(Servers)
=============================================================================
