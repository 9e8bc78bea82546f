\* Two or three calls of two administrators on one part of the data, with one fault.
CONSTANTS
    a1 = a1
    a2 = a2
    None = None
    Bad = Bad
    Admins = {a1, a2}
    Entities <- MCEntities
    Info <- MCInfo
    Worlds <- MCWorlds
    Values = {0, 1, 2}
    Patches <- MCPatches
    Imports <- MCImports
    MaxCalls = 3
    MaxFaults = 1
SPECIFICATION Spec
INVARIANTS
    OneActiveSemester
    AuditTrail
    AnsweredMeansDone
    ImportReport
PROPERTIES
    ActivationKeepsOne
    CallsAnswered
CHECK_DEADLOCK FALSE
