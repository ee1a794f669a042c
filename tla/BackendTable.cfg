\* One back end, two tasks that save, delete, probe and fetch, crashes at any step
CONSTANTS
    Ids = {i1}
    Keys = {k1}
    NoKey = NoKey
    NoId = NoId
    Tasks = {t1, t2}
SPECIFICATION Spec
SYMMETRY Symmetry
INVARIANTS
    AgreedAtRest
    NeverHalfWritten
PROPERTIES
    CrashKeepsTable
    TableIsAtomic
