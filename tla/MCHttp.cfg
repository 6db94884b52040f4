SPECIFICATION Spec
CONSTANTS
    None = None
    Cross = "b"
    p1 = p1
    p2 = p2
    Processes = {p1, p2}
    Experiments = {"login", "login_again", "read", "read_as_other", "read_in_other_run", "read_elsewhere", "differential", "transition"}
    Plan <- MCPlan
    Identities = {"a", "b"}
    OriginOf <- MCOriginOf
    MaxChanges = 1
    MaxSessionWork = 2
CONSTRAINT Bounded
SYMMETRY Symmetry
CHECK_DEADLOCK FALSE
INVARIANTS
    LoginSentOnce
    CookieOfItsOwn
    AccusationsGrounded
