SPECIFICATION Spec
CONSTANTS
    Cases <- MCCases
    SchemaOf <- MCSchemaOf
    Codable <- MCCodable
    PlanOf <- MCPlanOf
    Answer <- MCAnswer
    Settings <- MCSettings
    Declarations <- MCDeclarations
    CorpusRequests <- MCCorpusRequests
    Questions <- MCQuestions
    Submitted <- MCSubmitted
    Replacements <- MCReplacements
    c1 = c1
    c2 = c2
    Callers = {c1, c2}
    MaxRuns = 2
    MaxEdits = 1
    MaxAssemblies = 1
INVARIANTS
    PlansKeepTheirProfiles
    EachCaseIsCreatedOnce
    CompleteStaysAnswered
    AssembledIsTheComparison
    ResolvedIsWhatWasNamed
CHECK_DEADLOCK FALSE
ACTION_CONSTRAINTS
    SetupFirst
    OneConcern
    FirstIsEdited
    OneMoves
    Forward
SYMMETRY CallerSymmetry
