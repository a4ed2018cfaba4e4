SPECIFICATION Spec
CONSTANTS
    Pullers = {q1, q2}
    base = base
    middle = middle
    top = top
    a = a
    b = b
    c = c
    Digests = {base, middle, top}
    Paths = {a, b, c}
    NoFile = NoFile
    Layer <- Layers
    Manifest <- Stacked
    Mishaps = {"killed", "cut", "disk"}
SYMMETRY Symmetry
INVARIANTS TypeOK OverlapHarmless
