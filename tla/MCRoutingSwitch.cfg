\* As MCRouting: switching accounts in the two deployments.
CONSTANTS
    Bases <- MCBases
    AccountTabs = {"profile"}
    Sections = {"clients", "users"}
    Unknown = "bogus"
    MaxHistory = 3
    Nothing = nothing
SPECIFICATION Spec
PROPERTIES
    SwitchReturnsToLogin
