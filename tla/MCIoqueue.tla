----------------------------- MODULE MCIoqueue -----------------------------
(* Ioqueue for TLC: threads, keys, descriptors and operations are alike. *)
EXTENDS Ioqueue, TLC

Symmetry ==
    Permutations(Threads) \cup Permutations(Keys) \cup Permutations(Fds) \cup Permutations(Ops)

=============================================================================
