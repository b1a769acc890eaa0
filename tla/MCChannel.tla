------------------------------ MODULE MCChannel ------------------------------
EXTENDS Channel
MCHours == <<1, 2>>
=============================================================================
