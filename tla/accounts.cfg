SPECIFICATION Spec
CONSTANTS
    Requests = {r1, r2}
    Names = {admin, n1}
    AdminName = admin
    NoName = NoName
    Subjects = {g1}
    NoSubject = NoSubject
    MaxUsers = 2
    MaxTokens = 2
    MaxRequests = 4
    MaxCrashes = 1
SYMMETRY Symmetry
CHECK_DEADLOCK FALSE
INVARIANTS
    TypeOK
    OldSessionsRevoked
    GoogleLoginsAgree
PROPERTIES
    LastAdminLostOnlyInRace
