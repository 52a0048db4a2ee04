------------------------------- MODULE MCWire -------------------------------
EXTENDS Wire

Device(codes, terminated) == [codes |-> codes, terminated |-> terminated]

Keyboard == [SYN |-> {}, KEY |-> {0, 30, 767}, MSC |-> {4}, LED |-> {0, 15}, REP |-> {}]
Gamepad  == [SYN |-> {}, KEY |-> {304}, ABS |-> {0, 1, 63}, FF |-> {80, 127}]
Lid      == [SYN |-> {}, SW |-> {0, 16}]
Beeper   == [SYN |-> {}, SND |-> {1, 7}, REL |-> {8, 15}, ABS |-> {}]

MCDevices ==
    {Device(codes, TRUE) : codes \in {Keyboard, Gamepad, Lid, Beeper}} \cup {Device(Lid, FALSE)}
=============================================================================
