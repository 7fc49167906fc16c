\* The own and another account; two passwords, three submits: one may wait in Sudo Mode
\* while another is awaited and a third reported; two roles, two operations overlapping;
\* and one of each.
CONSTANTS
    Accounts = {self, ann}
    Self = self
    NoAccount = nobody
    Passwords = {p1, p2}
    Blank = blank
    Old = old
    MaxSubmits = 3
    Roles = {r1, r2}
    NoRole = norole
    Slots = {s1, s2}
    Free = free
    MaxOps = 2
    MaxMixed = 2
SPECIFICATION MCSpec
INVARIANTS
    RightAccount
    OneAwaited
    ShownIsCurrent
PROPERTIES
    ModalUnlocks
    OnlyAskedChanges
    OwnRolesKept
    AssigningEnds
