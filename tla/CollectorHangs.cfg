SPECIFICATION FairSpec

CONSTANTS
    Masters = {m1}
    Agents = {a1}
    Leaders = {m1, other}
    Keys = {k1, k2, k3}
    OneSegment = {k3}
    Instances = {x1}
    Documents <- MCOneDocument
    Batches <- MCTwoBatches
    Contains <- MCExact
    Missing = Missing
    NotString = NotString
    Unset = Unset
    NoInstance = NoInstance
    NoDocument = NoDocument
    Nowhere = Nowhere
    m1 = m1
    a1 = a1
    other = other
    k1 = k1
    k2 = k2
    k3 = k3
    x1 = x1
    Healths = {"up", "hung"}
    Calls = {c1}

PROPERTY EveryCallReturns
