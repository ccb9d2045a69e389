SPECIFICATION Spec
CONSTANTS
    Client = {c1}
    Text = {t1}
    Blank = blank
    NoNode = NoNode
    NoText = NoText
    Idle = Idle
    MaxNode = 3
    MaxRevision = 2
    MaxGeneration = 2
    Type = {"person"}
    FieldName <- MCFieldName
    Field <- SymmetricSchema
    Searchable = {"person"}
SYMMETRY MCSymmetry
\* Only the bounds stop the system.
CHECK_DEADLOCK FALSE
INVARIANTS
    SingleRefHeld
    UndirectedStoredOnce
PROPERTIES
    ImplementsReferenceStore
