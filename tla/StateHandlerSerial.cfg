CONSTANTS
    t1 = t1
    t2 = t2
    Threads <- OneThread
    MaxRequests = 3
SPECIFICATION FairSpec
INVARIANT TypeOK
INVARIANT ReadsIffReady
PROPERTY EventuallyReading
