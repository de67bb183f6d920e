---------------------------- MODULE MCPushSocket ----------------------------
(* One device: a few sockets and activations, two accounts, and credentials *)
(* with which no socket can be opened.                                      *)
EXTENDS PushSocket, TLC

CONSTANTS s1, s2, s3, k1, k2, k3

SocketSymmetry == Permutations(Sockets) \cup Permutations(Calls)
=============================================================================
