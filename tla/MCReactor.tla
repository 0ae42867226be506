----------------------------- MODULE MCReactor -----------------------------
(* Small instances of Reactor for TLC.  Nothing tells two descriptors, two
   connections or two workers apart, so their permutations are symmetries of
   the safety runs; the liveness run does not use them. *)
EXTENDS Reactor, TLC

ReactorSymmetry ==
    Permutations(Fds) \cup Permutations(Conns) \cup Permutations(Workers)
=============================================================================
