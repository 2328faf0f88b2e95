SPECIFICATION Spec
CONSTANTS
    p1 = p1
    p2 = p2
    s1 = s1
    s2 = s2
    a = a
    b = b
    top = top
    sub = sub
    Publishers = {p1, p2}
    Paths = {1, 2, 3, 4}
    Folder <- FolderOfPath
    Root = top
    Packages <- SmallPackages
    Inline = Inline
    Expectations = {Inline}
    UserText = UserText
    Absent = Absent
    Foreign = Foreign
    Interrupts = FALSE
    MaxPublications = 2
    MaxEdits = 1
SYMMETRY Symmetry
INVARIANTS
    TypeOK
    EndsOldOrNew
PROPERTIES
    UserFilesKept
CHECK_DEADLOCK FALSE
