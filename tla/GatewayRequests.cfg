CONSTANTS
    Request = {r1, r2}
    Client = {c1}
    Product = {p1}
    ApiKeys <- MCApiKeys
    DefaultLimit = 2
    AutocompleteLimit = 1
    MaxSuggestions = 2
    MaxAskable = 3
    Names = 2
    MaxCents = 1
    MaxViews = 1
    Price <- MCPrice
    MaxArrivals = 3
    MaxFaults = 1
SPECIFICATION Spec
SYMMETRY Symmetry
CHECK_DEADLOCK FALSE
INVARIANTS
    TypeOK
    BudgetHolds
    RowsReadBack
PROPERTIES
    SuccessIsCommitted
    RefusalsChangeNothing
    DoubtNeedsFault
    OnlyKeysWrite
    SuggestionsFit
