CONSTANTS
    o1 = o1
    own = own
    again = again
    guest = guest
    Owners = {o1}
    Offers = {own, again, guest}
    Guests = {guest}
    OwnerOf <- MCOwnerOf
    SessionOf <- MCSessionOf
    MaxSlots = 1
    ReplayTTL = 1
    NoReload = NoReload
    Never = Never
    MaxTime = 2
    MaxChanges = 4
    MaxGens = 3
    MaxUpdates = 1
SPECIFICATION MCSpec
CHECK_DEADLOCK FALSE
INVARIANTS OwnersSound SlotsAndSessionsCounted NoReplay
PROPERTIES OwnersSettle
