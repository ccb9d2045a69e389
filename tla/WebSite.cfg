SPECIFICATION Spec
CONSTANTS
    Visitor = {v1}
    Browser = {b1, b2}
    Crew <- MCCrew
    Password = {p1, p2}
    NoKey = NoKey
    Rest = Rest
    MaxKey = 2
    Type <- MCType
    FieldDef <- MCFieldDef
    Nil = Nil
    Bad = Bad
    Publication = {"page"}
    Searchable = {"page"}
    RealmType = "person"
    Nobody = Nobody
    NoNode = NoNode
    NoActor = NoActor
    MaxNode = 3
    MaxRevision = 3
    MaxEdited = 2
    MaxSeen = 3
    Site <- MCSite
    Input <- MCInput
    Revision = {0, 1, 2}
    EditorInput <- MCEditorInput
    OtherActor <- MCOtherActor
    StartNodes <- MCStartNodes
    LoggedIn <- MCLoggedIn
\* Only the bounds stop the system.
CHECK_DEADLOCK FALSE
INVARIANTS
    TypeOK
    RepliesObeyRules
    StoredFieldsValid
    PasswordChangeEndsSessions
PROPERTIES
    WritesObeyRules
