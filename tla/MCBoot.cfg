SPECIFICATION ConsoleSpec
CONSTANTS
    BOOTCFG_FAIL_THRESHOLD = 3
    c1 = c1
    c2 = c2
    NoCrash = NoCrash
    KB_BUFFER_SIZE = 3
    LineMax = 2
    Crashes <- MCCrashes
SYMMETRY Interchangeable
INVARIANTS CrashNotLost CrashGoesToSafeMode FailuresBounded
  KeysInOrder TierOnce
PROPERTY SafeModeForCause
