SPECIFICATION EditSpec
CONSTANTS
    FormatChars = {"#", "*"}
    Formats <- MCFormats
    Beyond <- MCBeyond
    FlagSets <- MCFlagSets
CHECK_DEADLOCK FALSE
PROPERTY KeysFinish
