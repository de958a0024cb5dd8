SPECIFICATION Spec
CONSTANTS
    Releases <- MCReleases
    Charts <- MCCharts
    Community <- MCCommunity
    KeptLists <- MCKeptLists
    Additional <- MCAdditional
INVARIANTS
    ReleasedTagsEverywhere
    DefaultsMatch
    KeptParametersPublished
CHECK_DEADLOCK FALSE
