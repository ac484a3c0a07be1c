SPECIFICATION LiveSpec
CONSTANTS
    u1 = u1
    u2 = u2
    u3 = u3
    one = one
    many = many
    None = None
    Users = {u1, u2, u3}
    TaskOf <- TaskOfUse
    Keys = {one, many}
    Serialized = {one}
    MaxProcesses = 2
    MaxLost = 1
    RestartBudget = 1
INVARIANTS
    SerializedExclusive
    UsesAccounted
PROPERTY
    CallsReturn
