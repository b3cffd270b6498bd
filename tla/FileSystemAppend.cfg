\* One client is enough to append: does the counter follow the contents?
CONSTANTS
    c1 = c1  c2 = c2  c3 = c3
    fa = fa  fb = fb  fc = fc  fd = fd
    EmptyOwner = EmptyOwner
    Clients = {c1}
    Names = {fa, fb}
    KeyOf <- MCKeyOf
    NameLen <- MCNameLen
    MaxSlots = 2
    MaxBytes = 5
    MaxWaiting = 1
    WriteLens = {0, 3}
    AppendLens = {2}
    MaxAppends = 2
    MaxOpened = 1
SPECIFICATION Spec
CHECK_DEADLOCK FALSE
INVARIANT ByteAccounting
