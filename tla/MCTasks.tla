------------------------------ MODULE MCTasks ------------------------------
EXTENDS Tasks
=============================================================================
