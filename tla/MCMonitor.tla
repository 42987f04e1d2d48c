------------------------------ MODULE MCMonitor ------------------------------
EXTENDS StrategyMonitor

CONSTANTS o1, g1, g2, j1
==============================================================================
