CONSTANTS
    Lifetime = 12
    LeadTime = 5
    MaxTrip = 2
    None = None
SPECIFICATION Spec
INVARIANTS TypeOK OnlineIsNeverExpired ExpiredIsBeingRefreshed
PROPERTIES RefreshesAreSpaced
