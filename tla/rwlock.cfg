CONSTANT Thread = {t1, t2, t3, t4, t5}
SPECIFICATION FairSpec
INVARIANTS TypeOK Exclusion CountersExact HandOverUnique
PROPERTIES WaitersServed
