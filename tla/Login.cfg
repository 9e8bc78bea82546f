SPECIFICATION Spec
CONSTANTS
    c1 = c1  c2 = c2  ip1 = ip1  ip2 = ip2
    None = None  Malformed = Malformed
    Clients = {c1, c2}
    IPs = {ip1}
    MaxRequests = 2
    Period = 1
    EmailDomain = "guest"
    ConfigDomains = {"uniquindio"}
    SettingDomains <- MCSettingDomains
    InitialAccounts <- MCAccounts
    MaxOTPAttempts = 1
    OTPTTL = 3
    SessionTTL = 1
    MaxCalls = 4
    MaxEdits = 1
SYMMETRY MCSymmetry
INVARIANTS TypeOK AttemptsBounded LiveChallengesBounded SessionsPerCode RoleFresh BurstBounded DomainPolicyFailsSafe
PROPERTIES InactiveNotServed
CHECK_DEADLOCK FALSE
