SPECIFICATION GateFairSpec
CONSTANTS
  MaxSentences = 2
  Callers = {page, bargeIn}
  MaxInterrupts = 2
  MaxEvents = 3
  MaxTimers = 4
INVARIANT SomebodyResumes
PROPERTY ListeningComesBack
CHECK_DEADLOCK FALSE
