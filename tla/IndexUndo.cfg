SPECIFICATION Spec
CONSTANTS
    a = a
    b = b
    None = None
    Torn = Torn
    Ignore = Ignore
    Directory = Directory
    Files = {a, b}
    Nested = {}
    Start <- StartPlain
    HiddenBy <- HiddenByOdd
    Importers <- ImportedByB
    Callers = {x}
    MaxEdits = 2
    Flaws = {"undo"}
INVARIANT FilesCurrent
