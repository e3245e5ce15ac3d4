SPECIFICATION Spec
CONSTANTS
    Numbers <- MCNumbers
    Doubles <- MCDoubles
    Decode <- MCDecode
    Encode <- MCEncode
    Unknown <- MCUnknown
INVARIANTS
    ShownIsDocumented
    ShownIsFaithful
    AcceptedIsShownAgain
CHECK_DEADLOCK FALSE
