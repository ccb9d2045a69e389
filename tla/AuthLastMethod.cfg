SPECIFICATION Spec
CONSTANTS
    Client = {c1, c2}
    Type = {"user", "page"}
    AuthEnabled = {"user"}
    Credential = {email, phone}
    Token = {tok1}
    NoNode = NoNode
    Unbound = Unbound
    NotIssued = NotIssued
    Ended = Ended
    Idle = Idle
    MaxNode = 1
    MaxGeneration = 2
SYMMETRY MCSymmetry
PROPERTIES
    LastMethodStays
