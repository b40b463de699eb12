-------------------------- MODULE MCFirmwareLimit --------------------------
EXTENDS FirmwareLimit

MCLimits == {30, 80, 100}
MCDeltas == {5, 20}
=============================================================================
