----------------------------- MODULE MCHistories -----------------------------
(* Instance of Histories for TLC.                                            *)
EXTENDS Histories, TLC

CONSTANTS a1, a2, p1, p2, disk, cpu, w1, w2

MCAdmins    == {a1, a2}
MCProcesses == {p1}
MCSwitches  == {disk, cpu}
MCWatches   == {w1, w2}

\* The disk switch is turned off, or on while the other one is turned off.
MCBodies == {(disk :> FALSE @@ cpu :> None), (disk :> TRUE @@ cpu :> FALSE)}

\* Handlers are interchangeable, and so are watches.
MCSymmetry == Permutations(MCAdmins) \cup Permutations(MCWatches)
=============================================================================
