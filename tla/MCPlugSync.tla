----------------------------- MODULE MCPlugSync -----------------------------
(* Small instances of PlugSync: named devices, one or two paths, and runs     *)
(* that are identified by the device they belong to and a number.             *)
EXTENDS PlugSync, TLC

CONSTANTS d1, d2

OneRunEach == {<<d, 1>> : d \in Devices}
TwoRunsOne == {<<d1, 1>>, <<d1, 2>>, <<d2, 1>>}
RunOwner   == [r \in Runs |-> r[1]]
DeviceSymmetry == Permutations(Devices)
=============================================================================
