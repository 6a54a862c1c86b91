------------------------------ MODULE MCFlight ------------------------------
\* ArbitratorFlight on the small machines of MCDevices (flight mode).
EXTENDS ArbitratorFlight, MCDevices
=============================================================================
