\* Two operations of a panel at a time, two addresses, three issues of backup codes, two
\* credentials, three sessions.
CONSTANTS
    Slots = {s1, s2}
    Free = free
    Emails = {mail1, mail2}
    NoEmail = nomail
    MaxIssues = 3
    Ids = {k1, k2}
    NoId = nokey
    Sessions = {this, phone, tablet}
    Current = this
    NoSession = nosession
SPECIFICATION MCSpec
INVARIANTS
    CodeMatchesAddress
    NothingUnreadIsShown
    ShownCodesWork
    RegistersOnce
PROPERTIES
    RegistrationSettles
\* Signing out leaves the application.
CHECK_DEADLOCK FALSE
