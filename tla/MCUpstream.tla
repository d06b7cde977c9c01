----------------------------- MODULE MCUpstream -----------------------------
(* Instances of Upstream for model checking. *)
EXTENDS Upstream, TLC

Symmetric == Permutations(Workers) \cup Permutations(Fds)
                 \cup Permutations(Requests) \cup Permutations(Hosts)
=============================================================================
