SPECIFICATION JoinSpec
CONSTANTS
    Databases <- MCDatabases
    Queries <- MCQueries
    Base = "a"
    Key = "id"
    Absent = Absent
    JoinResultLimit = 3
INVARIANTS    GroupsAddUp 
CHECK_DEADLOCK FALSE
