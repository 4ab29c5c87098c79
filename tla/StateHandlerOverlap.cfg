CONSTANTS
    t1 = t1
    t2 = t2
    Threads <- TwoThreads
    MaxRequests = 3
SPECIFICATION Spec
SYMMETRY ThreadSymmetry
INVARIANT NothingBeforeRegistration
INVARIANT NeverStranded
