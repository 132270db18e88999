SPECIFICATION CatalogueSpec
CHECK_DEADLOCK FALSE
CONSTANTS
    Bodies <- MCBodies
    MaxRequests = 5
INVARIANTS
    LostOnlyByOverlap
    StoresAgree
    PrivateIsHonoured
