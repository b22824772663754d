\* One rule with any predicate, or a tree of up to three levels; lists of up to
\* three of six rules at three times; and the seeded rules of three clients.
SPECIFICATION Spec
CONSTANTS
    Trees <- EngineTrees
    Height <- HeightOf
    LowerCase <- LowerCaseOfWords
    Rank <- RankOfWords
    MaxPattern = 2
    Compiles <- CompilesAsRegex
    Found <- FoundAsRegex
    NoCode = NoCode
    NoTime = NoTime
    Absent <- NoValue
    NoOrder = NoOrder
    NoPayload = NoPayload
    Calls <- AllCalls
    Keys <- EngineKeys
    Outcome <- OutcomeOf
INVARIANTS
    IllFormedRaises
    MeansItsClauses
    OppositesDisagree
    MatchedInOrder
    GreatestPriorityWins
    BadRuleStopsOrder
    SeededRulesNeverRaise
    LongTailDecides
