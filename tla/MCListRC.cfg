\* Loops that read, insert and remove, over four addresses.
CONSTANTS
    Addr = {a1, a2, a3, a4}
    Null = Null
SPECIFICATION Spec
INVARIANT NoDanglingNode
