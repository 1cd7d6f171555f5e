SPECIFICATION Spec
CONSTANTS
    Chars <- SomeChars
    Texts <- AllTexts
    Names <- SomeNames
    Bot <- SomeBot
    Limit = 4
    Nothing = Nothing
INVARIANTS
    NothingLost
    AuthorsFound
    MentionsFound
    MentionsMarked
CHECK_DEADLOCK FALSE
