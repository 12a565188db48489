---------------------------- MODULE MCWorkQueue ----------------------------
EXTENDS WorkQueue

=============================================================================
