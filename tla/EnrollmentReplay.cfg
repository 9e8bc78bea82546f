SPECIFICATION Spec
CONSTANTS
    s1 = s1  s2 = s2  g1 = g1  g2 = g2  t1 = t1  t2 = t2
    a1 = a1  a2 = a2  k1 = k1  k2 = k2
    GroupShift <- MCGroupShift
    GroupOffering <- MCGroupOffering
    Free = Free
    NoGroup = NoGroup
    Semesters = {"2026-1"}
    MaxElectivesPerSemester = 1
    Students = {s1}
    Groups = {g1}
    Keys = {k1}
    Capacities = {1}
    Submitters = {t1, t2}
    Reviewers = {}
    Decisions = {}
    Reasons = {}
    MaxArrival = 2
    MaxEdits = 0
SYMMETRY MCSymmetry
PROPERTIES ReplayNotRefused
CHECK_DEADLOCK FALSE
