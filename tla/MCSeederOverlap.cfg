\* Two seeders that nobody disturbs.
CONSTANTS
    s1 = s1
    s2 = s2
    s3 = s3
    Seeders = {s1, s2}
    NoSeeder = NoSeeder
    URIs = {"one", "two"}
    RedirectURIs <- MCRedirectURIs
    Misconfigured = {}
    MaxTries = 2
    MaxRuns = 1
    MaxEdits = 0
SPECIFICATION Spec
CHECK_DEADLOCK FALSE
INVARIANTS
    ConcurrentRunsSucceed
