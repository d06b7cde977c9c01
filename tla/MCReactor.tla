----------------------------- MODULE MCReactor -----------------------------
(* Instances of Reactor for model checking. *)
EXTENDS ReactorService, TLC

Symmetric == Permutations(Fds) \cup Permutations(Clients) \cup Permutations(Workers)
=============================================================================
