CONSTANTS
    NegatesIds = FALSE
    MatchesProjectedIds = FALSE
    FilterSteps = 0
    UpdateSteps = 0
    ReadSteps = 0
    ExpressionSteps = 4
    PipelineSteps = 0
    Wrappings = {"$map"}
SPECIFICATION Spec
INVARIANT ExpressionMeansAsMongo
CHECK_DEADLOCK FALSE
