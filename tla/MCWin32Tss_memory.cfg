\* two threads, two TLS indices, TlsSetValue never fails
CONSTANTS
  Threads = {t1, t2}
  Keys = {k1, k2}
  Values = {v1}
  NoValue = NoValue
  MaxNodes = 3
  TlsSetCanFail = FALSE
SPECIFICATION Spec
SYMMETRY MCSymmetry
\* The program ends when every thread has exited, or at a memory fault.
CHECK_DEADLOCK FALSE
INVARIANT MemorySafe
