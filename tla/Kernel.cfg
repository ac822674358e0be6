SPECIFICATION Spec
CONSTANTS
    Base = 3
    MaxDigits = 4
    DivisionScale = 2
    Nanos = 3
    MaxSec = 100000
    MaxFrac = 1
    IntMax = 7
    MaxExprDepth = 3
    MaxExprNodes = 8
    Gone = Gone
    MaxRuns = 2
    Declared <- MCDeclared
    Code <- MCCode
    Relations <- MCRelations
    Required <- MCRequired
    Requests <- MCRequests
    Initials <- MCInitials
PROPERTIES
    PlansAreWhatTheyDo
    ArtifactsAreThePlans
    AnswersAreTrue
    StructureIsKept
CHECK_DEADLOCK FALSE
