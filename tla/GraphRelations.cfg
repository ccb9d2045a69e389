SPECIFICATION Spec
CONSTANTS
    Client = {c1}
    Text = {t1}
    Blank = blank
    NoNode = NoNode
    NoText = NoText
    Idle = Idle
    MaxNode = 3
    MaxRevision = 2
    MaxGeneration = 2
    Type = {"article", "person"}
    FieldName <- MCFieldName
    Field <- ArticleSchema
    Searchable = {"article"}
SYMMETRY MCSymmetry
\* Only the bounds stop the system.
CHECK_DEADLOCK FALSE
INVARIANTS
    TypeOK
    NoDanglingEdge
    EdgeFitsSchema
    NoRelationCycle
    RequiredFilled
