SPECIFICATION Spec
CONSTANTS
    pilot = pilot
    NoToken = NoToken
    Main = main
    Characters = {pilot}
    Tokens = {k1, k2, k3, k4}
    AuthStates = {main}
    Callers = {t1, t2}
    Via <- OneStateVia
    For <- OnePilotFor
    LoginChars = {}
    Faults = {}
    MaxForgets = 1
SYMMETRY CallerSymmetry
INVARIANTS
    LogoutForgets
