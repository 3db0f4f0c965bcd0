\* Every size up to two blocks and a byte, newlines anywhere, any cuts.
SPECIFICATION FairSpec
CONSTANTS
    BUFFER_SIZE = 4
    FirstSizes = {4, 7}
    HEADER = 2
    MaxSize = 8
INVARIANTS StoresWhatIsSent NeverRefused
PROPERTIES Completes
