SPECIFICATION Spec
CONSTANTS
    WdtLimit = 5
    MaxHangs = 0
INVARIANT CrashLoopHalts
