SPECIFICATION Spec
CONSTANTS
    r1 = r1
    r2 = r2
    r3 = r3
    Resource = {r1, r2, r3}
    Batches <- TwoOrThree
    Verdict = {"allow", "deny", "fail", "hang"}
    batchFanOutLimit = 2
INVARIANT NilErrorAnswersAll
\* A call ends.
CHECK_DEADLOCK FALSE
