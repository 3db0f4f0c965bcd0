\* What list.h says of a removal.
CONSTANTS
    Addr = {a1, a2, a3}
    Null = Null
SPECIFICATION Spec
PROPERTY
    RemovesTheGiven
