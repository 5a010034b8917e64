CONSTANTS
    MaxUsers = 2
    Tokens = {t1, t2}
    Sockets = {s1}
    Requests = {q1, q2}
    None = none
SPECIFICATION Spec
INVARIANT OpenModeIsAdministered
