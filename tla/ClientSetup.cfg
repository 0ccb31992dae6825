SPECIFICATION ClientSpec
CONSTANTS
    Projects = {p1, p2}
    Systems = {s1, s2}
    NoId = NoId
    MaxProject = 2
    MaxSystem = 2
    First <- TwoProjects
    Later <- OneSystem
    NavSize = 1
    MaxEdits = 2
    MaxChanges = 1
SYMMETRY Symmetry
INVARIANTS
    TypeOK StepEarned SystemInProject CleanIsStored SidebarIsCurrent
PROPERTIES
    ClosedStaysClosed SavedIsShown
CHECK_DEADLOCK FALSE
