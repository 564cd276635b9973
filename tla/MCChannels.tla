----------------------------- MODULE MCChannels -----------------------------
(* Channels for TLC.  Objects are interchangeable, and so are tags. *)
EXTENDS Channels, TLC

Symmetry == Permutations(Objs) \cup Permutations(Tags)
=============================================================================
