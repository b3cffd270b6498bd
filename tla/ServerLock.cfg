\* Two clients and one file.
CONSTANTS
    c1 = c1  c2 = c2  c3 = c3
    fa = fa  fb = fb
    EmptyOwner = EmptyOwner
    Clients = {c1, c2}
    Names = {fa}
    KeyOf <- MCKeyOf
    NameLen <- MCNameLen
    MaxSlots = 1
    MaxBytes = 9
    MaxWaiting = 1
    WriteLens = {0}
    AppendLens = {1}
    MaxAppends = 0
    MaxOpened = 1
    Losable = {}
SPECIFICATION ServerSpec
\* Clients may wait for each other's locks.
CHECK_DEADLOCK FALSE
INVARIANT LockHeldOnlyWhileOpen
