\* three waiters, cnd_broadcast
CONSTANTS
  Consumers = {c1, c2, c3}
  Producers = {p1, p2, p3}
  NoThread = NoThread
  Notifies = {"cnd_broadcast"}
  Waits = {"cnd_wait"}
  MaxTimeouts = 0
SPECIFICATION Spec
\* The program ends when every thread has finished.
CHECK_DEADLOCK FALSE
PROPERTY AllFinish
