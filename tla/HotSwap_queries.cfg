SPECIFICATION FairSpec
CONSTANTS
    t1 = t1  t2 = t2  t3 = t3  t4 = t4
    Tasks = {t1, t2, t3, t4}
    Nobody = Nobody
    Kind <- Queries
INVARIANTS
    TypeOK
    OneSnapshot
    SeedsKnown
PROPERTIES
    EveryoneFinishes
