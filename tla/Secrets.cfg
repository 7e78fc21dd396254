SPECIFICATION Spec
CONSTANTS
    Envs = {1, 2}
    Target = 2
    Masters = {m1, m2}
    Keys = {k1, k2}
    Rows = {1, 2}
    Batch = 1
    Inits = {i1, i2}
    Cmds = {c1, c2}
    Ops = {o1}
    None = None
SYMMETRY Interchangeable
INVARIANT TypeOK SecretsSurvive
CHECK_DEADLOCK FALSE
