---------------------------- MODULE MCIpsecDaemon ----------------------------
EXTENDS IpsecDaemon
=============================================================================
