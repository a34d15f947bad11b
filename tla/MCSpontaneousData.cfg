\* One master, a monitored data point and a command object, a queue for two ASDUs.
SPECIFICATION SDFairSpec
CONSTANTS
    Masters = {m1}
    Addresses = {1, 2, 3}
    Points = {1, 2}
    DataType <- ScaledAndCommand
    Reported = {1}
    Readings <- MixedReadings
    QueueSize = 2
INVARIANTS
    SDTypeOK
    MembersAgree
    ImageIsCurrent
    PointIsLastReading
PROPERTIES
    ImageCatchesUp
