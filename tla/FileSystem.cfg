\* Three clients, four names (two collide), room for two files and five bytes.
CONSTANTS
    c1 = c1  c2 = c2  c3 = c3
    fa = fa  fb = fb  fc = fc  fd = fd
    EmptyOwner = EmptyOwner
    Clients = {c1, c2, c3}
    Names = {fa, fb, fc, fd}
    KeyOf <- MCKeyOf
    NameLen <- MCNameLen
    MaxSlots = 2
    MaxBytes = 5
    MaxWaiting = 2
    WriteLens = {0, 3}
    AppendLens = {2}
    MaxAppends = 1
    MaxOpened = 2
SPECIFICATION Spec
SYMMETRY Symmetry
CHECK_DEADLOCK FALSE
INVARIANTS TypeOK ListMatchesTable CountedWithinLimits WaitersHaveOwner BlockedOnce ExactUntilAppend ReadsAsManyAsAsked
PROPERTIES WaitersAnswered HandOffInOrder EjectsLeastRecent ImplementsLockService
