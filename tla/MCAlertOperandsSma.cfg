SPECIFICATION Spec
CONSTANTS
    Numbers <- MCNumbers
    Doubles <- MCDoubles
    Decode <- MCDecode
    Encode <- MCEncode
    Unknown <- MCUnknown
INVARIANTS
    DocumentedIsAccepted
CHECK_DEADLOCK FALSE
