SPECIFICATION Spec
INVARIANTS TypeOK StandbyIsQuiet
PROPERTY AliveOrAsleep
