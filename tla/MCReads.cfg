\* One reader of each face; the index, the engine and the resident change at any time.
SPECIFICATION FairSpec
CONSTANTS
    KeyOrder <- MCKeyOrder
    EvidenceKeys <- MCEvidenceKeys
    Names <- MCNames
    Symbols <- MCSymbols
    Graphs <- MCGraphs
    RowLimit = 2
    Budgets = {0, 10, 17}
    MaxChanges = 2
    None = None
INVARIANTS
    TypeOK
    AbsenceHasVerdict
    ConclusionsHold
    BudgetTakesRows
PROPERTY McpAnswers
