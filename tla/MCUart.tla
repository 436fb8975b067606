-------------------------------- MODULE MCUart --------------------------------
EXTENDS Uart
MCValues == 0..(IF MaxPut > MaxIn THEN MaxPut ELSE MaxIn)
=============================================================================
