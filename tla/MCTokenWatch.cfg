\* Two helpers at a time, each with the three attempts of the code.
SPECIFICATION FairSpec
CONSTANTS
    Helpers = {h1, h2}
    MaxAttempts = 3
    Coarse = TRUE
INVARIANTS RecordedBeforeUse GivesUpAfterAllAttempts RestMeansMasked
PROPERTIES EveryTokenMasked
\* The worker stops, and the helpers are done.
CHECK_DEADLOCK FALSE
