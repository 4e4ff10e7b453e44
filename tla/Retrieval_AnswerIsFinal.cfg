SPECIFICATION Spec
CONSTANTS
    a = a  b = b  c = c  d = d  t = t
    Entities <- MCEntities
    Types = {t}
    Weights <- MCWeights
    Graphs <- MCGraphs
    Growths <- MCGrowths
    Sims <- MCSims
    Modes <- MCModes
    Scale = 12
    HnswK = 1
    Depth = 2
    MaxFound = 3
    TopN = 2
    MinScore = 36
    MaxHops = 2
    MaxNames = 2
    MaxMerges = 1
INVARIANT AnswerIsFinal
