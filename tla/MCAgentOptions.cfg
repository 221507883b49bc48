SPECIFICATION Spec
CONSTANTS
    Texts <- MCTexts
    Lists <- MCLists
    Words <- MCWords
    Names <- MCNames
    NoValue = NoValue
    Panic = Panic
INVARIANTS
    ExecIsNamed
    WrittenSettingsHold
    SpacesHaveNoMeaning
CHECK_DEADLOCK FALSE
