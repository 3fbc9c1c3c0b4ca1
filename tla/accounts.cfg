SPECIFICATION Spec
CONSTANTS
    admin = admin
    imam = imam
    p1 = p1
    p2 = p2
    r1 = r1
    r2 = r2
    Requests <- MCRequests
    Names <- MCNames
    InvalidName = invalid
    Passwords <- MCPasswords
    DefaultName = admin
    DefaultPassword = default
    None = none
    MaxVersion = 4
    MaxSecrets = 2
SYMMETRY Symmetry
INVARIANTS EndedStaysEnded SessionsSurviveRestart PasswordIsKnown DefaultPasswordIsConfined
CHECK_DEADLOCK FALSE
