\* three threads racing on one once_flag
CONSTANTS
  Threads = {t1, t2, t3}
  NoThread = NoThread
SPECIFICATION Spec
\* The program ends when every call_once has returned.
CHECK_DEADLOCK FALSE
INVARIANTS TypeOK FuncOnce ReturnsAfterFunc
PROPERTIES AllReturn
