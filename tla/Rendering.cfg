\* The loop is over when it has returned or stopped.
CHECK_DEADLOCK FALSE

SPECIFICATION Spec

CONSTANTS
    Masters = {m1}
    Agents = {a1}
    Leaders = {m1}
    Keys = {k1, k2, k3}
    OneSegment = {k3}
    Instances <- MCInstances
    Documents <- MCDocuments
    Batches <- MCBatches
    Contains <- MCContains
    Missing = Missing
    NotString = NotString
    Unset = Unset
    NoInstance = NoInstance
    NoDocument = NoDocument
    Frameworks = {f1, f2}
    Executors = {e1}
    Orders <- MCOrders
    Star = Star
    KeyPart = KeyPart
    m1 = m1
    a1 = a1
    k1 = k1
    k2 = k2
    k3 = k3
    f1 = f1
    f2 = f2
    e1 = e1

INVARIANTS
    RequestUntouched
    RendersAll
    InOrder

PROPERTY IsOneStep
