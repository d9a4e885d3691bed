SPECIFICATION Spec
CONSTANTS
    alice = alice
    bob = bob
    bad = bad
    c1 = c1
    c2 = c2
    c3 = c3
    a1 = a1
    a2 = a2
    NoAccount = NoAccount
    Names = {alice, bob}
    BadNames = {bad}
    Creators = {c1, c2, c3}
    Admins = {a1, a2}
    Rows <- MCRows
INVARIANTS
    AccountsTypeOK
    SomeGivenPasswordWorks
    OneAccountPerPassword
CHECK_DEADLOCK FALSE
