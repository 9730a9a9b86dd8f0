SPECIFICATION Spec
CONSTANTS
    Names = {n1}
    Incarnations = {1, 2}
    NotRecorded = NotRecorded
    MaxRestarts = 1
INVARIANTS TypeOK GaugesMatchMap OneHealthSeries
CHECK_DEADLOCK FALSE
