CONSTANTS
    Self = Self
    Rival = Rival
    Nobody = Nobody
    a = a
    b = b
    Trees <- MCTrees
    NoTree = NoTree
    MaxIterations = 3
    MaxCost = 2
    Costs <- MCCosts
    MaxActions = 1
    MaxHypotheses = 1
    MaxProbes = 2
    MaxGen = 2
SPECIFICATION Spec
INVARIANT EndIsStructured
