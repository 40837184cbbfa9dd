------------------------ MODULE MCTransactionManager ------------------------
EXTENDS TransactionManager
=============================================================================
