SPECIFICATION Spec
CONSTANTS
    Type = {"page", "item"}
    FieldName = {"up", "peers", "item"}
    Field <- MCField
    Searchable = {"page", "item"}
    NodeId = {1, 2, 3}
    Value = {1}
    Null = Null
    NoRow = NoRow
    TextOf <- MCTextOf
    FieldOps = {"equal", "ordered", "sortable"}
    Expr <- MCExpr
    MaxFilterNodes = 8
    MaxFilterDepth = 4
    MaxRelationDepth = 2
    MaxSetValues = 3
    ExpandLimit = 2
    MaxExpandPaths = 2
    MaxExpandDepth = 2
    Request <- MCRequest
    Scopes <- MCScopes
    Wheres <- MCWheres
    Listed = "page"
    Tree = "up"
    Peers = "peers"
    Sorts <- MCSorts
    Phrases <- MCPhrases
    Targets <- MCTargets
    MaxEdge = 3
    MaxTorn = 1
INVARIANT RelatedOpensItsRelation
