---------------------- MODULE MCOperatorResourceHandler ----------------------
EXTENDS OperatorResourceHandler
==============================================================================
