SPECIFICATION StaffSpec
CONSTANTS
    r1 = r1
    r2 = r2
    MaxAmountDigits = 3
    MaxAmount = 999
    Word = 2048
    MaxExponentDigits = 1
    LongestNumber = 4
    Products <- MCProducts
    Services <- MCServices
    Editors <- MCEditors
    Numbers <- MCNumbers
    NewNumbers <- MCNewNumbers
    Requests <- MCRequests
    NoPrice = NoPrice
    NoNumber = NoNumber
    Rows <- MCRows
    SizesAsked = {0, 1, 9}
    DefaultPageSize = 2
    MaxPageSize = 3
    MaxMoves = 3
    Emails = {"ana"}
    Passwords = {"long enough", "another one", "short"}
    AcceptableEmails = {"ana"}
    AcceptablePasswords = {"long enough", "another one"}
    Jobs = {1, 2, 3}
    Input <- MCInput
    Tries = 2
    Replicas = {1, 2}
    Skews = {0, 1}
    TTL = 2
    MaxTime = 4
    MaxTokens = 1
    NoUser = NoUser
    NoToken = NoToken
SYMMETRY EditorsAreAlike
CHECK_DEADLOCK FALSE
INVARIANTS
    PriceTypeOK
    PriceIsWhatWasSent
    PriceSurvivesTheRoundTrip
    LastPriceHolds
    QuoteIsExact
    OnlyTooLargeIsRefused
    WalkMissesAtMostLeavers
    AccessTypeOK
    ReportsAreTrue
    TokensLapse
PROPERTY AccountNeverReplaced
