CONSTANTS
    N = 6
    MaxRoom = 3
SPECIFICATION Spec
INVARIANTS
    TypeOK
    HandleCoherent
PROPERTIES
    CallReturns
    ListingSpec
