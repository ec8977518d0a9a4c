SPECIFICATION Spec
CONSTANTS
    Words <- WordSet
    Requests <- PlainRequests
INVARIANTS
    NoteTypeOK
    NoteMissesNothing
    NoteInventsNothing
    ClosedFormsAgree
