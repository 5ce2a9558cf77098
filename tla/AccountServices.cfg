SPECIFICATION MCSpec
CONSTANTS
    Jtis = {one, two}
    Workers = {one, two}
    AccessLife = 2
    ShadowLife = 1
    TicksPerSecond = 2
    MaxTime = 6
    NoJti = NoJti
    one = one
    two = two
    three = three
    v1 = v1
    n1 = n1
    n2 = n2
    boss = boss
    mate = mate
    Subjects = {n1}
    ErasureCalls = {one, two}
    GraceHours = 1
    LastHour = 1
    NotDue = NotDue
    Emails = {n1}
    Permissions = {p1, p2}
    EmployeeDefaults = {p1}
    TeamCalls = {one, two}
    Organizations = {one, two}
    Slugs = {n1, n2}
    Settings = {p1}
    SettingValues = {v1, v2}
    Admins = {one, two}
    Missing = Missing
    Gone = Gone
    Users = {one, two}
    Clients = {n1}
    Secrets = {v1, v2}
    Names = {n1, n2, n3}
    Vacant = Vacant
    Zero = Zero
    MaxEdits = 2
    Readers = {one}
    Writers = {one, two}
    Tabs = {one, two}
    Fetches = {one, two}
    Refreshes = {one, two, three}
    Persons = {boss, mate}
    Admin = boss
    Nothing = Nothing
    Untouched = Untouched
INVARIANTS
    LogoutIsFinal
    NoFalseRevocation
    AccountPartsTyped
    ErasureIsComplete
    OnboardingAddsUp
    ChoiceStays
    AccessHasCause
    TenantsApart
    ProofIsOwn
    
    OldViewHasCause
    AdminRowsHold
    MissingEntryHasCause
    JarIsConsistent
    SessionIsCarriedOn
PROPERTIES
    GraceIsServed
VIEW Seen
CHECK_DEADLOCK FALSE
