SPECIFICATION FairSpec
CONSTANTS
    NM = 2
    NN = 1
    DivideRate = 2
    KSteps = 2
    MBlocks <- MBlocksTwo
    Columns <- ColumnsTwo
INVARIANTS
    TypeOK
    NoPanelRace
    RightPanel
    NoUseAfterReturn
    NoFlagLeft
PROPERTIES
    WholeUnlessCancelled
    Termination
