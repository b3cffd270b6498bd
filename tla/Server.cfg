\* Two clients and two files, room for one opened file in a session and for
\* two files in the store.
CONSTANTS
    c1 = c1  c2 = c2  c3 = c3
    fa = fa  fb = fb
    EmptyOwner = EmptyOwner
    Clients = {c1, c2}
    Names = {fa, fb}
    KeyOf <- MCKeyOf
    NameLen <- MCNameLen
    MaxSlots = 2
    MaxBytes = 9
    MaxWaiting = 1
    WriteLens = {0}
    AppendLens = {1}
    MaxAppends = 1
    MaxOpened = 1
    Losable = {c1, c2}
SPECIFICATION ServerSpec
SYMMETRY Symmetry
\* Clients may wait for each other's locks.
CHECK_DEADLOCK FALSE
INVARIANTS ServerTypeOK OwnerRecorded WaiterServedOnce
