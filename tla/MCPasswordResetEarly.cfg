\* A submit outside the grace period.
CONSTANTS
    Accounts = {self, ann, bob}
    Self = self
    NoAccount = nobody
    Passwords = {p1, p2}
    Blank = blank
    Old = old
    MaxSubmits = 2
SPECIFICATION Spec
INVARIANTS
    SuccessMeansReset
