SPECIFICATION Spec
CONSTANTS
    Client = {c1, c2}
    Text = {t1, blank}
    Blank = blank
    NoNode = NoNode
    NoText = NoText
    Idle = Idle
    MaxNode = 2
    MaxRevision = 3
    MaxGeneration = 2
    Type = {"article", "person"}
    FieldName <- MCFieldName
    Field <- AuthorSchema
    Searchable = {"article"}
SYMMETRY MCSymmetry
\* Only the bounds stop the system.
CHECK_DEADLOCK FALSE
INVARIANTS
    IndexExact
PROPERTIES
    NoLostUpdate
