--------------------------- MODULE MCLibretroHost ---------------------------
(* Small instances of LibretroHost for TLC.                                *)
EXTENDS LibretroHost

CONSTANTS e1, e2

MCEnvironments == {e1, e2}

\* Two regions show every partial pin and release; more only repeat them.
MCRegions == {0, 1}

\* Unsupported (zero), supported, and the negative value the host refuses.
MCStateSizes == {-1, 0, 8}

\* No requirement, a software core, and a requirement the host does not know.
MCRequirementSets == {{}, SoftwareCore, {"Environment", "HardwareRender"}}

NoRegions == {}
FirstRegion == {0}
AllRegions == MCRegions
=============================================================================
