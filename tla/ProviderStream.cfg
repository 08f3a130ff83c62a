SPECIFICATION FairSpec
CONSTANTS
    t1 = t1
    t2 = t2
    u1 = u1
    u2 = u2
    Texts <- MCTexts
    Usages <- MCUsages
    None = None
    MaxFrames = 3
INVARIANT OnlyVouchedCounts
INVARIANT UpstreamIsAborted
PROPERTY AnswersAreFaithful
PROPERTY StreamConcludes
CHECK_DEADLOCK FALSE
