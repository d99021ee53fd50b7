------------------------------ MODULE MCMtpUsb ------------------------------
EXTENDS MtpUsb
=============================================================================
