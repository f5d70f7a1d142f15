\* one waiter calling either wait function, producers calling either notify function
CONSTANTS
  Consumers = {c1}
  Producers = {p1, p2}
  NoThread = NoThread
  Notifies = {"cnd_signal", "cnd_broadcast"}
  Waits = {"cnd_wait", "cnd_timedwait"}
  MaxTimeouts = 2
SPECIFICATION Spec
\* The program ends when every thread has finished.
CHECK_DEADLOCK FALSE
INVARIANTS TypeOK CriticalSectionExclusive
PROPERTY AllFinish
