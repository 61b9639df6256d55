SPECIFICATION PageSpec
SYMMETRY Regions
CONSTANTS
    Public = {"a"}
    Psk = {"k"}
    Tagged = {"a", "k"}
    Region = {r1, r2}
    MaxMsgs = 1
    MaxEvents = 3
INVARIANTS OnlySelected LiveKeptUnlessEmptied PaneSettlesUnlessOvertaken ListIsNewest
CHECK_DEADLOCK FALSE
