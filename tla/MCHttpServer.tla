---------------------------- MODULE MCHttpServer ----------------------------
(* Small instances of HttpServer. Every HTTP-LISTEN that returns takes one  *)
(* client's request, so with one more HTTP-LISTEN than clients the bound    *)
(* MaxListens is never what stops the program.                              *)
EXTENDS HttpServer, TLC

ClientSymmetry == Permutations(Clients)
=============================================================================
