SPECIFICATION CacheSpec
CONSTANT MaxWrites = 2
INVARIANTS CacheTypeOK 
PROPERTY JobIsSeenToEnd
CHECK_DEADLOCK FALSE
