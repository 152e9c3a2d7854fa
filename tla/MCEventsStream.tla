--------------------------- MODULE MCEventsStream ---------------------------
(* Instances of EventsStream for TLC. *)
EXTENDS EventsStream

Text   == [want |-> TRUE,  len |-> 1,  escapes |-> 0]
Other  == [want |-> FALSE, len |-> 1,  escapes |-> 0]
Long   == [want |-> TRUE,  len |-> 7,  escapes |-> 1]   \* cut, it just fits
Quoted == [want |-> TRUE,  len |-> 10, escapes |-> 4]   \* cut, it does not

AllShapes == {Text, Other, Long, Quoted}
=============================================================================
