------------------------------ MODULE MCInbound ------------------------------
EXTENDS Inbound
=============================================================================
