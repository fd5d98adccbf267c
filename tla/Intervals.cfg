\* Messages of one interval, of whole seconds.
SPECIFICATION Spec
CONSTANTS
    MaxDigits = 4
    Precision = 3
    FloatSeconds = 131072
    ShortMax = 252
    ChunkSize = 32767
    MaxFields = 1
    Fields <- WholeSeconds
INVARIANTS
    IntervalsArrive
CHECK_DEADLOCK FALSE
