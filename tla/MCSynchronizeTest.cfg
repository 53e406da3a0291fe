\* A missed signal blocks main() for ever: deadlock is not an error of the model.
SPECIFICATION TestSpec
CONSTANTS
  Mutexes <- Locks
  Conditions <- Signals
  Threads = {main, w1, w2, w3}
  Main = main
  Nobody = Nobody
INVARIANT TestTypeOK
PROPERTY EndsUnlessMissed
CHECK_DEADLOCK FALSE
