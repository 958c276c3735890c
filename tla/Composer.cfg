CONSTANTS
    MaxQueued = 2
    MaxReplies = 3
SPECIFICATION ComposerSpec
INVARIANTS
    SilencedIsBlank
    RaisedLevelIsWatched
    DroppedIsNeverSent
