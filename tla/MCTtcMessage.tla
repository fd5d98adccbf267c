---------------------------- MODULE MCTtcMessage ----------------------------
(* TtcMessage for TLC: four digits stand for forty, three for the decimal   *)
(* context's 28, 2^17 seconds for 2^34; a byte string of more than two      *)
(* bytes goes out in chunks.                                                *)
EXTENDS TtcMessage, TLC

Integers8 == {0, 1, -1, 127, 128, 255, 256, -256, 65535, 65536, 2147483647, -2147483647}
Ints == {f \in [kind : {"int"}, width : {1, 2, 4, 8}, value : Integers8] :
           /\ f.width = 1 => f.value \in {0, -1, 128, 255, 256}
           /\ f.width = 8 => f.value \in {1, 2147483647}}

\* 0, 254 and 255 are lengths of their own meaning when they stand in front.
Strings == {<<>>, <<0>>, <<254>>, <<255, 0>>, <<0, 0, 0>>, <<254, 1, 2, 3, 4>>}
Bytes == [kind : {"bytes", "counted"}, value : Strings]

NumberDigits == {<<1>>, <<9, 2>>, <<9, 9, 9>>, <<9, 9, 9, 5>>, <<1, 0, 4, 5>>, <<1, 0, 0, 0, 1>>}
MCNumbers == {n \in [neg : BOOLEAN, digits : NumberDigits,
                     point : {-129, -128, -127, 0, 1, 5, 126}] :
                Len(n.digits) > MaxDigits => n.point = 5} \cup {Zero}

Day(y, us) == [year |-> y, month |-> 2, day |-> 29, hour |-> 0, minute |-> 59, second |-> 59,
               us |-> us]
Times == {Day(2000, 0), Day(1999, 999999), Day(1, 1), Day(9999, 256)}
MCIntervals == [secs : {0, 86399, 131072, -1, -86400, -131073},
                us : {0, 999999}]

MCFields == Ints \cup Bytes
              \cup [kind : {"number"}, value : MCNumbers]
              \cup [kind : {"timestamp"}, value : Times]
              \cup [kind : {"interval"}, value : MCIntervals]
WholeSeconds == [kind : {"interval"}, value : {v \in MCIntervals : v.us = 0}]

=============================================================================
