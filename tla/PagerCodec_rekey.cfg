CONSTANTS
  NPages = 3
  LockPage = 2
  Keys = {k1, k2}
  Plain = Plain
  Vals = {a, b}
  Garbage = Garbage
SPECIFICATION Spec
INVARIANTS TypeOK CrashSafe ReadsCommitted KeysAgree
