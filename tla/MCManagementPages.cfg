\* Two requests in flight per section, the own and another account, two clients with two
\* operations on them, two filters with up to two pages, two fields of the site settings.
CONSTANTS
    Slots = {s1, s2}
    Free = free
    None = none
    MaxOps = 2
    Accounts = {self, ann}
    Self = self
    NoAccount = nobody
    Clients = {c1, c2}
    NoClient = noclient
    Filters = {all, login}
    NoFilter = all
    PageSize = 1
    MaxLogs = 2
    Fields = {name, logo}
    Values = {v0, v1}
    Default = v0
    Null = null
    Readiness = {good, bad}
    Healthy = {good}
    Deployed = deployed
    Unavailable = unavailable
    Pending = pending
    Failed = readfailed
SPECIFICATION MCSpec
INVARIANTS
    ShownSecretWorks
    ListIsCurrent
    PageIsOfShown
    ShownMatchesFilter
    SavedIsStored
    OnlyReadIsSaved
    StatusIsCurrent
    LoadingIsAwaited
PROPERTIES
    OnlyAskedChanges
