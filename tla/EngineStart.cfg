SPECIFICATION Spec
CONSTANTS
    A = A
    B = B
    rel = rel
    Type = {A, B}
    FieldName = {rel}
    Text = {x, empty}
    EmptyText = empty
    Schema <- MCSchema
    Migrations = 2
    Emptying = {2}
    NoNode = NoNode
    NoText = NoText
    NoSchema = NoSchema
    MaxNode = 2
    MaxEdge = 2
INVARIANTS TypeOK MetadataMatchesSchema ServedConstraints IndexNeverStale IndexComplete ReopenIsIdempotent
PROPERTIES UnfitDatabaseUntouched StartEnds
