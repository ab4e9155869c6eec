SPECIFICATION AsyncSpec
CONSTANTS
    g1 = g1  g2 = g2
    Launches = {g1, g2}
    Rates = {0, 50}
    MaxTemplates = 1
    MaxJobs = 2
INVARIANTS TypeOK JobsHaveTimers
PROPERTIES JobsFollowLifecycle EverythingEnds
