\* Two processes migrate at once and again, two interrupts, two rollbacks at any time.
CONSTANTS
    Migrator = {m1, m2}
    MaxInterrupts = 2
    MaxDowns = 2
SPECIFICATION FairSpec
INVARIANTS SchemaIsRecorded SomebodyGetsThrough
PROPERTIES UpMeansApplied RunsEnd
