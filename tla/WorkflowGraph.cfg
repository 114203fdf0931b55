SPECIFICATION FairSpec
CONSTANT Graphs <- MCGraphs
INVARIANTS TypeOK ReportedCyclesAreDead VerdictIsExact
PROPERTY Terminates
CHECK_DEADLOCK FALSE
