\* Two generators of one batch, one that keeps its container, and the starts
\* after them; one step of a recovery fails.
SPECIFICATION FairSpec
CONSTANTS
    g1 = g1  g2 = g2
    Gen = {g1, g2}
    Later = Later
    Keep = {g2}
    MaxKills = 1
    MaxFaults = 1
    None = None
INVARIANTS PublishedOnce  PublishedAfterFinalization
PROPERTIES StagedIsPublished
CHECK_DEADLOCK FALSE
