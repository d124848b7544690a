SPECIFICATION Spec
CONSTANTS
    Openers <- MCOpeners
    Indents <- MCIndents
    MaxBrackets <- MCMaxBrackets
    MaxLayouts <- MCMaxLayouts
INVARIANTS
    IndentsMatchStack
    LayoutsWithinBrackets
    SuitesNestUnlessLeftOpen
PROPERTIES
    NewlinesEndStatements
