\* Four-bit chars: every 16-bit word is one state.  WireFormat uses the width
\* only through Byte.
CONSTANTS
    Byte = 16
    Items <- AllItems
    MaxItems = 3
    Arguments <- TwoArguments
SPECIFICATION MCSpec
INVARIANTS HeaderReadBack RendersItems
PROPERTY Terminates
