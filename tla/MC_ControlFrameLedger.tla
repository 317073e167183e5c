------------------------- MODULE MC_ControlFrameLedger -------------------------
EXTENDS ControlFrameLedger
=============================================================================
