SPECIFICATION FairChainSpec
CONSTANTS
    ChainStages <- FullChain
    Findings <- FewFindings
CHECK_DEADLOCK FALSE
INVARIANTS
    ChainTypeOK
    SlotCoversWork
    MessagesMatchStage
    ChainTellsTruth
PROPERTIES
    NoStageAfterStop
    ChainEnds
