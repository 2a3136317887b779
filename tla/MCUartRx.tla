------------------------------ MODULE MCUartRx ------------------------------
EXTENDS UartRx
=============================================================================
