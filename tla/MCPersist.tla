----------------------------- MODULE MCPersist ------------------------------
\* ArbitratorPersist on the small machines of MCDevices (persistence).
EXTENDS ArbitratorPersist, MCDevices
=============================================================================
