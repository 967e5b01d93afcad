SPECIFICATION SemaphoreFairSpec
CONSTANTS
    Tasks = {t1, t2, t3}
    Sizes = {2, 3}
    MaxConfigures = 1
    Returning = {t1, t2}
    Bypassing = {t2}
INVARIANTS SlotsOfCalls NeverStuck
PROPERTIES EveryCallReturns ExcessPasses
