\* One launch that nothing disturbs.
CONSTANTS
    Backend = {b1}
    MaxFaults = 0
SPECIFICATION Spec
INVARIANT EpisodeLinksAgree
