---------------------------- MODULE MCArbitrator ----------------------------
\* Arbitrator on the small machines of MCDevices (the core).
EXTENDS Arbitrator, MCDevices
=============================================================================
