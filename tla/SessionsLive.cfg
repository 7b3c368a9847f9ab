SPECIFICATION SteadySpec
CONSTANTS
    Users = {u1}
    Reqs = {r1, r2, r3}
    MaxTokens = 1
    MaxPasswords = 4
PROPERTY PasswordWriteEndsSessions
CHECK_DEADLOCK FALSE
