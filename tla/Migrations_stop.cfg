\* A database of any version with up to two rows, and one stop.
SPECIFICATION MigrationsSpec
CONSTANTS
    OldRows = {v, w}
    Absent = Absent
    MaxStops = 1
PROPERTIES EachMigrationRuns
CHECK_DEADLOCK FALSE
