SPECIFICATION Spec
CONSTANTS
    Names <- MCNames
    Fold <- MCFold
    Listed <- MCListed
    Symptoms <- MCSymptoms
    Anomalies <- MCAnomalies
    Edges <- MCEdges
    Rules <- MCRules
    Mentions <- MCMentions
    Recalled <- MCRecalled
    MaxAnomalies = 3
    MaxEdges = 2
    AnchorLimit = 2
    EventLimit = 2
    TopologyLimit = 1
    Now = 8
INVARIANTS
    ChronologicalTimeline
    EarliestEventsKept
    AnchorsAreStrongest
    OverrideHasEvidence
    SuggestionIsStrongest
    CausalityRaisesConfidence
    AdviceHasEvidence
CHECK_DEADLOCK FALSE
