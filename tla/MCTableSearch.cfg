SPECIFICATION SearchSpec
CONSTANTS
    Field <- MCField
    Views <- MCViews
    Filters <- MCFilters
    NoOrder = NoOrder
    PageSize = 1
    Chunk = 2
    Buffer = 2
    MaxFilters = 2
    MaxOffset = 2
INVARIANTS  NoDeadRow   OrderedPageIsRight GroupsCountTheMatches
CHECK_DEADLOCK FALSE
