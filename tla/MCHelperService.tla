--------------------------- MODULE MCHelperService ---------------------------
EXTENDS HelperService
=============================================================================
