\* Lists below the threshold at which idle CPUs are prodded.
CONSTANTS
    CPUs = {c1, c2}
    Elems = {e1, e2}
    Updaters = {c1, c2}
    AccelThreshold = 2
    WordMod = 8
SPECIFICATION FairSpec
INVARIANTS GraceElapsed CountExact SingleStarter OnOneList
PROPERTIES ImplementsGracePeriod 
