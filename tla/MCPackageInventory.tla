------------------------- MODULE MCPackageInventory -------------------------
(* Instance of PackageInventory for TLC.                                   *)
EXTENDS PackageInventory

CONSTANTS p1, p2, v1, v2

MCPackages == {p1, p2}
MCVersions == {v1, v2}
=============================================================================
