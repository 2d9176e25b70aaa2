------------------------------ MODULE MCAppTasks ------------------------------
EXTENDS AppTasks

CONSTANTS v1, v2

MCVersion == {v1, v2}
=============================================================================
