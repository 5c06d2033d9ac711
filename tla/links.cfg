SPECIFICATION FairSpec
CONSTANTS
    NUMBER_INTERFACES = 2
    POLLIN_AT_EOF = TRUE
    Long = {2}
    Stale = stale
    PipeRoom = 4
    MaxFrames = 2
    MaxLines = 1
INVARIANTS
    LinksTypeOK
    FramingKept
PROPERTIES
    ImplementsDelivery
    WhatWaitsIsServed
CHECK_DEADLOCK FALSE
