--------------------------- MODULE MCRemoteListing ---------------------------
(* Two runs of one device; Dropbox is one folder, so runs are interchangeable. *)
EXTENDS RemoteListing, TLC

Symmetry == Permutations(Runs)
=============================================================================
