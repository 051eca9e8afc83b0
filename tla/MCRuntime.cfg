SPECIFICATION FairSpec
CONSTANTS
  OperationId = {o1}
  Subscriber = {s1}
  Waiter = {w1, w2}
  EventCapacity = 1
  Panics = TRUE
  MaxSubmits = 2
  MaxEmits = 2
INVARIANT ResultAfterFinished
PROPERTIES NoSilentGap WaitComesBack
CHECK_DEADLOCK FALSE
