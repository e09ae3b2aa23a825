SPECIFICATION Spec
CONSTANTS
    Trees <- AllTrees
INVARIANTS
    TypeOK
    StartedIffRunning
    RunningHangsTogether
    GuardedWhileRunning
    LeftGuardsWentFirst
    OneActionRuns
