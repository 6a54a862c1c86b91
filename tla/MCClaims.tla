----------------------------- MODULE MCClaims -----------------------------
\* ArbitratorClaims on the small machines of MCDevices.
EXTENDS ArbitratorClaims, MCDevices
===========================================================================
