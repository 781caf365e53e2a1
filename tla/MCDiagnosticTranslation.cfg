CONSTANTS
    p1 = p1
    p2 = p2
    Paths = {p1, p2}
    MaxErrors = 4
SPECIFICATION Spec
INVARIANTS
    TranslationMatchesReference
