------------------------------- MODULE MCSync -------------------------------
\* ArbitratorSync on the small machines of MCDevices (force_sync).
EXTENDS ArbitratorSync, MCDevices
=============================================================================
