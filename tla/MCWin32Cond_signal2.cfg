\* two waiters, cnd_signal
CONSTANTS
  Consumers = {c1, c2}
  Producers = {p1, p2}
  NoThread = NoThread
  Notifies = {"cnd_signal"}
  Waits = {"cnd_wait"}
  MaxTimeouts = 0
SPECIFICATION Spec
\* The program ends when every thread has finished.
CHECK_DEADLOCK FALSE
PROPERTY AllFinish
