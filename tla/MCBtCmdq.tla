------------------------------ MODULE MCBtCmdq ------------------------------
EXTENDS BtCmdq
AllCauses == Causes
=============================================================================
