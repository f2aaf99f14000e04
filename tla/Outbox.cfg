CONSTANTS
    MaxEvents = 2
    NoRow = NoRow
    MaxRetries = 2
    BatchSize = 2
    MaxFaults = 2
    MaxPolls = 2

SPECIFICATION Spec

INVARIANTS
    TypeOK
    DeliveredWasPublished
    GivenUpAfterRetries
    InOrderUnlessDisturbed

PROPERTY EventsAreDelivered

CHECK_DEADLOCK FALSE
