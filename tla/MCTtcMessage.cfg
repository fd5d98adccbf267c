\* Every message of two fields, whole or cut, read or skipped.
SPECIFICATION Spec
CONSTANTS
    MaxDigits = 4
    Precision = 3
    FloatSeconds = 131072
    ShortMax = 2
    ChunkSize = 2
    MaxFields = 2
    Fields <- MCFields
INVARIANTS
    TypeOK
    FieldsArrive
    CutsAreNoticed
    OnlyKnownNumbersChange
    TimesArrive
\* The message has been read, or its reader gave up.
CHECK_DEADLOCK FALSE
