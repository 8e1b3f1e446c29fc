CONSTANTS
    MacLen = 2
    MaxLen = 5
    Garbage = Garbage
    Chars <- MCChars
    Rest <- MCRest
SPECIFICATION BootSpec
INVARIANT MacFromParameter
CHECK_DEADLOCK FALSE
