---------------------------- MODULE MCEndpointPool ----------------------------
EXTENDS EndpointPool, TLC

CONSTANTS u1, u2
=============================================================================
