SPECIFICATION PluginSpec

CONSTANTS
    Masters = {m1}
    Agents = {a1}
    Leaders = {m1}
    Keys = {k1, k2}
    OneSegment = {}
    Instances = {x1}
    Documents <- MCDocuments
    Batches <- MCBatches
    Contains <- MCContains
    Missing = Missing
    NotString = NotString
    Unset = Unset
    NoInstance = NoInstance
    NoDocument = NoDocument
    Nowhere = Nowhere
    Healths = {"up", "down"}
    Calls = {c1}
    FrameworkKeys = {k2}
    Offers <- MCOffers
    Loads <- MCLoads
    m1 = m1
    a1 = a1
    k1 = k1
    k2 = k2
    x1 = x1

INVARIANTS
    WholeCatalog
    FreshCollects
