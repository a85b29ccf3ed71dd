SPECIFICATION Spec
CONSTANTS
  Clis = {c1}
  Emails = {e1, e2}
  Passwords = {p1, p2}
  UserIds = {u1, u2}
  Tokens = {t1, t2}
  SessionIds = {s1}
  Requests = {r1, r2}
  None = None
SYMMETRY Symmetry
INVARIANT ExpiredLoginIsShown
