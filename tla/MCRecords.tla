------------------------------ MODULE MCRecords ------------------------------
EXTENDS Records
=============================================================================
