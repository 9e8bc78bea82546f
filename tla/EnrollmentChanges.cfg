SPECIFICATION Spec
CONSTANTS
    s1 = s1  s2 = s2  g1 = g1  g2 = g2  t1 = t1  t2 = t2
    a1 = a1  a2 = a2  k1 = k1  k2 = k2
    GroupShift <- MCGroupShift
    GroupOffering <- MCGroupOffering
    Free = Free
    NoGroup = NoGroup
    Semesters = {"2026-1"}
    MaxElectivesPerSemester = 2
    Students = {s1}
    Groups = {g1, g2}
    Keys = {k1, k2}
    Capacities = {0, 1}
    Submitters = {t1}
    Reviewers = {a1}
    Decisions = {"ACCEPT", "CAPACITY_ADJUSTMENT_ACCEPTANCE", "CREATE_GROUP_ACCEPTANCE"}
    Reasons = {TRUE}
    MaxArrival = 2
    MaxEdits = 1
SYMMETRY MCGroupSymmetry
PROPERTIES NoOverbooking NoDirectOverbooking ImplementsLedger
CHECK_DEADLOCK FALSE
