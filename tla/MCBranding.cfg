CONSTANTS
    Owners = {t, p}
    Platform = p
    Kinds = {logo, icon}
    Files = {f1, f2}
    Calls = {c1, c2}
    NoOwner = NoOwner
    NoKind = NoKind
    NoFile = NoFile
SPECIFICATION Spec
SYMMETRY Symmetry
INVARIANTS TypeOK ReferencedIsStored NothingLeaks
PROPERTY OnlyOwnImage
