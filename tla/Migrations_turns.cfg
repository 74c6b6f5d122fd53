\* Two invocations that may overlap, with failures and crashes.
SPECIFICATION MigrationsSpec
CONSTANTS
    r1 = r1  r2 = r2  r3 = r3
    a = a  b = b
    Template = Template
    Absent = Absent
    Runs = {r1, r2}
    Files = {1, 2}
    Scripts = {a}
    Overlapping = {r1, r2}
    MaxEdits = 3
INVARIANTS
    RecordsAreTrue
    OnceUnlessDisturbed
PROPERTIES
    EarlierFirst
SYMMETRY Symmetry
CHECK_DEADLOCK FALSE
