\* mtx_plain (CRITICAL_SECTION with the mAlreadyLocked flag), mtx_recursive,
\* and mtx_timed | mtx_recursive (kernel mutex, no flag)
CONSTANTS
  Threads = {t1, t2, t3}
  NoThread = NoThread
  MutexTypes <- MCTypesSound
  MaxHeld = 3
SPECIFICATION Spec
INVARIANTS MutualExclusion NonRecursiveHeldOnce LockDepthMatches
PROPERTY MutexRefined
