SPECIFICATION Spec
CONSTANTS
    a = a
    b = b
    None = None
    Torn = Torn
    Ignore = Ignore
    Directory = Directory
    Files = {a}
    Nested = {}
    Start <- StartAlone
    HiddenBy <- HiddenByNone
    Importers <- ImportedByNone
    Callers = {x, y}
    MaxEdits = 2
    Flaws = {}
SYMMETRY Symmetry
INVARIANTS
    TypeOK
    LabelReached
    FilesCurrent
