CONSTANTS
    s1 = s1  s2 = s2  g1 = g1  g2 = g2  g3 = g3
    c1 = c1  c2 = c2  p1 = p1  p2 = p2  k1 = k1
    None = None
    Unlocked = Unlocked
    Students = {s1, s2}
    Semesters = {"2026-1"}
    Groups = {g1, g2, g3}
    Keys = {k1}
    Capacities = {0, 1}
    Ids <- MCIds
    MaxElectivesPerSemester = 2
    Clients = {c1, c2}
    StudentShift <- MCStudentShift
    GroupShift <- MCGroupShift
    GroupOffering <- MCGroupOffering
    ActiveOfferings = {"A", "B"}
    Lists <- MCLists
    Budgets <- MCBudgets
    MaxFaults = 1
    DefaultPageSize = 2
    MaxPageSize = 2
    QueueRequests <- MCQueueRequests
    Completed <- MCCompleted
    Replicas = {p1, p2}
    LastVersion = 2
    MaxExports = 2
SPECIFICATION Spec
INVARIANTS
    MissedByDepartures
    RefusalsExplained
    ExportsAccounted
    SchemaFirst
PROPERTIES
    ExportsSettle
CHECK_DEADLOCK FALSE
