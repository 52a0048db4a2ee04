------------------------------ MODULE MCParse ------------------------------
EXTENDS Parse

MCLength == [line |-> 6, file |-> 6, number |-> 5, event |-> 0]
MCValues == {-1, 0, 1, 20}
=============================================================================
