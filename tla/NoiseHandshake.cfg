\* The right key, strangers' keys and the own key dialled; one act damaged
\* in any way, or the connection lost, at any point.
CONSTANTS
    InitiatorStatic = "I"
    ResponderStatic = "R"
    InitiatorEphemeral = "eI"
    ResponderEphemeral = "eR"
    Dialable = {"R", "X", "Y", "I"}
SPECIFICATION FairHandshakeSpec
INVARIANTS
    OnlyTheDialledKey
    ReadyMeansAgreed
PROPERTY
    Completes
CHECK_DEADLOCK FALSE
