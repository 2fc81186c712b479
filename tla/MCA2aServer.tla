------------------------------ MODULE MCA2aServer ------------------------------
(* Instances of A2aServer for TLC. *)
EXTENDS A2aServer, TLC

CONSTANTS t1, t2, s1, s2, w1, w2, c1, c2, k1

MCCallers == Sends \cup Cancelers \cup {Loop, Listener}
MCReceivers == Sends \cup Watchers
RequestSymmetry == Permutations(Sends) \cup Permutations(Cancelers) \cup Permutations(Watchers)
=============================================================================
