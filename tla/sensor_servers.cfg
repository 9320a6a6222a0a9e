SPECIFICATION FairSpec
CONSTANTS
    Client = {1, 2}
    Query <- Typed
    Rows = 11
    MaxAsk <- Twice
    Kinds = {"cpp", "python", "java"}
    Nobody = Nobody
    Junk = Junk
    Greeting = Greeting
INVARIANTS
    OwnReading
    EndsForCause
PROPERTIES
    NextServed
CHECK_DEADLOCK FALSE
