------------------------------ MODULE MCWorker ------------------------------
(* Small instances of Worker for TLC.                                      *)
EXTENDS Worker, TLC

(* Requests and workers are interchangeable: fresh workers are taken in    *)
(* every order and no property names one.                                  *)
Symmetry == Permutations(Requests) \cup Permutations(Workers)
=============================================================================
