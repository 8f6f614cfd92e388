SPECIFICATION Spec
CONSTANTS
    Fields <- MCFields
    Clients = {"Go", "TS", "Python", "Dart", "Swift", "Rust"}
    Servers = {"Go", "TS", "Rust"}
INVARIANTS
    RoundTrips
    CompatProtectsClients
    PublishedHolds
CHECK_DEADLOCK FALSE
