\* Both deployments; one tab, two sections and an unknown one; three history entries.
CONSTANTS
    Bases <- MCBases
    AccountTabs = {"profile"}
    Sections = {"clients", "users"}
    Unknown = "bogus"
    MaxHistory = 3
    Nothing = nothing
SPECIFICATION Spec
INVARIANTS
    BackIsNotUndone
PROPERTIES
    ArrivesWhereAsked
    RedirectsSettle
