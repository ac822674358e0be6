SPECIFICATION Spec
CONSTANTS
    Base = 3
    MaxDigits = 4
    DivisionScale = 2
    Nanos = 3
    MaxSec = 100000
    MaxFrac = 1
    IntMax = 3
    MaxExprDepth = 2
    MaxNodes = 2
    MaxExprNodes = 8
    HourSeconds = 3
    MinuteSeconds = 2
    Relations <- MCRelations
    WordTrees <- MCWordTrees
    Phrases <- MCPhrases
    Stems <- MCStems
    Particles <- MCParticles
    Files <- MCFiles
    Declared <- MCDeclared
    Code <- MCCode
    Leaves <- MCLeaves
    Operands <- MCOperands
    Connectives <- MCConnectives
    Guards <- MCGuards
    Members <- MCMembers
    Words <- MCWords
    Texts <- MCTexts
    Days <- MCDays
    Instants <- MCInstants
    Spans <- MCSpans
INVARIANTS
    AcceptedExpressionsAnswer
    LanguageIsOne
    StoredFormsReadBack
    SelectionIsAPartition
    ArithmeticIsExact
PROPERTY
    TextKeepsItsMeaning
CHECK_DEADLOCK FALSE
