CONSTANTS
  t1 = t1
  t2 = t2
  t3 = t3
  data = data
  code = code
  Threads = {t1, t2, t3}
  Pages = {data, code}
  Written = {data}
  Protection <- GameProtection
  Refusals = TRUE
SYMMETRY Symmetric
SPECIFICATION Spec
INVARIANTS WritesAllowed ReadsLeaveNoTrace
