--------------------------- MODULE MCCloudStorage ---------------------------
(* Two or three connections; the file "n" in a collection, "f" at the root;   *)
(* a short body and a long one, so that overlapping writes can mix them.      *)
EXTENDS CloudStorage, TLC

CONSTANTS c1, c2

InOf == [f \in Files |-> IF f = "n" THEN Folders ELSE {}]
ShortAndLong == {<<1>>, <<2, 2>>}
ClientSymmetry == Permutations(Clients)
=============================================================================
