CONSTANTS
    NegatesIds = FALSE
    MatchesProjectedIds = FALSE
    FilterSteps = 2
    UpdateSteps = 2
    ReadSteps = 3
    ExpressionSteps = 3
    PipelineSteps = 3
    Wrappings =
       {"$add", "$multiply", "$subtract", "$divide", "$mod", "$ifNull", "$eq", "$ne",
        "$gt", "$gte", "$lt", "$lte", "$map", "$reduce", "$filter", "$let",
        "$cond", "$switch", "$arrayElemAt", "$in", "list", "document", "$dateAdd", "$dateDiff",
        "$dateTrunc", "$dayOfWeek", "$and", "$or", "$not", "$concatArrays", "$setUnion", "$setIntersection",
        "$setDifference", "$setEquals", "$setIsSubset", "$size", "$reverseArray", "$mergeObjects", "$objectToArray", "$arrayToObject"}
SPECIFICATION Spec
INVARIANTS FilterMatchesAsMongo UpdateMakesWhatMongoMakes FindReadsAPage ProjectionKeepsWhatIsNamed UpsertGetsOrCreates ExpressionMeansAsMongo PipelineMeansItsStages
CHECK_DEADLOCK FALSE
