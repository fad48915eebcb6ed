---------------------------- MODULE MCNegotiation ----------------------------
EXTENDS Negotiation
CONSTANTS alice, bob
===============================================================================
