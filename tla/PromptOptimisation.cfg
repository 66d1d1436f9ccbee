SPECIFICATION Spec
CONSTANTS
    o1 = o1
    o2 = o2
    Optimisers <- MCOptimisers
    Lifespan = Lifespan
    MaxVariants = 2
    MaxOptimisations = 2
    MaxRestarts = 1
SYMMETRY MCSymmetry
INVARIANTS
    OneActivePrompt
    ActiveIsApproved
    LineageIsApproved
    ResultsMatchPrompts
    SelectionIsExplained
PROPERTIES
    VerdictIsFinal
    ImplementsRegistry
