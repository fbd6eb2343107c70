-------------------------------- MODULE MCBind --------------------------------
EXTENDS Bind
=============================================================================
