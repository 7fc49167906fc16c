\* One account per page, so that pages 1 and 2 exist and a third may be created;
\* two overlapping reads, and two operations of which one may be someone else's.
CONSTANTS
    self = self
    a = a
    b = b
    r1 = r1
    r2 = r2
    w1 = w1
    w2 = w2
    Accounts = {self, a, b}
    Self = self
    Listed <- MCListed
    PageSize = 1
    Reads = {r1, r2}
    Writes = {w1, w2}
    MaxChanges = 2
SPECIFICATION Spec
SYMMETRY Slots
INVARIANTS
    SelfUntouched
    TableIsCurrent
PROPERTIES
    OnlyConfirmedChanges
