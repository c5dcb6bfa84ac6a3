SPECIFICATION ChainSpec
CONSTANTS
    ChainStages <- ShortChain
    Findings <- FewFindings
CHECK_DEADLOCK FALSE
INVARIANT RunningMeansAStage
