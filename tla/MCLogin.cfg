\* Two accounts, one with MFA, three handlers, one sign-in elsewhere.  The page
\* may be left for good with nothing under way.
CONSTANTS
    Accounts = {ann, bob}
    NoAccount = nobody
    MfaAccounts = {ann}
    Free = free
    MaxTries = 3
    MaxForeign = 1
SPECIFICATION Spec
CHECK_DEADLOCK FALSE
INVARIANTS
    SudoKeepsSession
    ChallengeIsTyped
PROPERTIES
    ReturnsStrong
