SPECIFICATION FairSpec
CONSTANT Entries = 3
INVARIANTS TypeOK SessionExclusive Handover ListingExact
PROPERTIES ImplementsListing ConnectEnds ListingEnds
CHECK_DEADLOCK FALSE
