SPECIFICATION PagesSpec
CONSTANTS
    RowIds <- MCRowIds
    Clock <- MCClock
    Unit = 2
    Classes = {c1, c2}
    NoClass = NoClass
    Scopes = {{c1}, {c1, c2}}
    RowBytes <- MCRowBytes
    Budget = 3
    PageSizes = {0, 1, 3}
    DefaultPageSize = 2
    MaxPageSize = 2
INVARIANTS
    PagesAreWhole
PROPERTIES
    TooLargeIsTrue
