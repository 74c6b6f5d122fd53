\* A line of the applied file that was cut short swallows the next one.
SPECIFICATION MigrationsSpec
CONSTANTS
    r1 = r1  r2 = r2  r3 = r3
    a = a  b = b
    Template = Template
    Absent = Absent
    Runs = {r1, r2, r3}
    Files = {1, 2}
    Scripts = {a, b}
    Overlapping = {}
    MaxEdits = 4
INVARIANT AppliedIsNotPending
CHECK_DEADLOCK FALSE
