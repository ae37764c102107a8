SPECIFICATION Spec
CONSTANTS
  r1 = r1
  r2 = r2
  right = right
  wrong = wrong
  Logins = {r1, r2, w1, w2}
  Auth <- Owner
  Wrong = {wrong}
  Algs = {5, 6}
  Supported = {6}
  MaxLoginFailures = 1
  MaxResets = 1
INVARIANT NonceFresh
PROPERTIES InnocentNotCounted RemoteCallSpec
CHECK_DEADLOCK FALSE
