SPECIFICATION FairSpec
CONSTANTS
    r1 = r1
    r2 = r2
    r3 = r3
    Resource = {r1, r2, r3}
    Batches <- OneToThree
    Verdict = {"allow", "deny", "fail", "hang"}
    batchFanOutLimit = 2
INVARIANTS
    SendNeverBlocks
    NoSendAfterClose
    CompleteAnswer
    HonestError
    QuietOnSuccess
    IInv
PROPERTIES
    ImplementsBatchCheck
    NothingLeaks
    FailsFast
    CancelUnblocks
    ReturnReleases
\* A call ends, and one whose engine hangs may wait for ever; NothingLeaks says
\* that no other stops before.
CHECK_DEADLOCK FALSE
