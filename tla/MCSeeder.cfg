\* Three seeders with their own redirect URIs, the third misconfigured, each started
\* once, so that one finds the database as another left it; one edit through the
\* console at any moment; the server may come up in time, late or never.
CONSTANTS
    s1 = s1
    s2 = s2
    s3 = s3
    Seeders = {s1, s2, s3}
    NoSeeder = NoSeeder
    URIs = {"one", "two"}
    RedirectURIs <- MCRedirectURIs
    Misconfigured = {s3}
    MaxTries = 2
    MaxRuns = 1
    MaxEdits = 1
SPECIFICATION FairSpec
CHECK_DEADLOCK FALSE
INVARIANTS
    LockExcludes
    StaleSnapshotNeverCommits
    NoHalfSeed
PROPERTIES
    ImplementsPromise
    EveryRunEnds
