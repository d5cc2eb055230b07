CONSTANTS
    MaxStatements = 5
SPECIFICATION FairSpec
INVARIANTS TypeOK RestoresOriginal
PROPERTIES RunsLikeOriginal
