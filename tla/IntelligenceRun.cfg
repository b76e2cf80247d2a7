SPECIFICATION Spec
CONSTANTS
    Terms <- MCTerms
    SignalSpan = 2
    ActiveSpan = 1
    ArchiveSpan = 2
    Runs = {r1, r2}
    Posts = {1, 2}
    Clusters = {1, 2, 3}
    CaptionsOf <- MCCaptionsOf
    FoundIn <- MCFoundIn
    SignalsOf <- MCSignalsOf
    PublishedAt <- MCPublishedAt
    Registered = {"romano"}
    Lease = 2
    DaySpan = 4
    Horizon = 3
    MaxLag = 0
    MaxStarts = 2
    MaxFaults = 1
SYMMETRY RunSymmetry
ACTION_CONSTRAINT Focus
INVARIANTS
    CitationsBelong
    SignaturesCoverMembers
    SeededOnce
PROPERTIES
    MembersStay
CHECK_DEADLOCK FALSE
