SPECIFICATION HSpec
CONSTANTS
    Users = {u1}
    Emails = {e1}
    Tokens = {t1, t2, t3}
    Handlers = {h1, h2}
    MaxHashes = 3
    NoUser = NoUser
    NoEmail = NoEmail
    NoToken = NoToken
SYMMETRY Symmetry
INVARIANTS OneSessionPerLogin PasswordEndsSessions AnonymizedLeavesNothing
PROPERTY ForgottenForGood
CHECK_DEADLOCK FALSE
