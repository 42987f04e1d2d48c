------------------------------ MODULE MCRecords ------------------------------
EXTENDS ExecutionRecords

CONSTANTS m1, l1
==============================================================================
