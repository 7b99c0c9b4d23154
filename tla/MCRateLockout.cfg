CONSTANTS
    Caller = {p1, p2, p3}
    Limit = 3
    Window = 2
    RateTime = 5
SPECIFICATION RLSpec
PROPERTY RefusedOnlyInWindow
