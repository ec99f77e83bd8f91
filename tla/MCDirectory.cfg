SPECIFICATION Spec
CONSTANTS
    Outcomes = {"ok", "torn", "open", "write"}
    kManifestReserved = 4
    MaxWrites = 5
INVARIANTS
    TablesSurvive
    SequencesUnique
    OpensUnlessCut
PROPERTIES
    ManifestGrows
CHECK_DEADLOCK FALSE
