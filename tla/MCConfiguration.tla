---------------------------- MODULE MCConfiguration ----------------------------
(* Three event types and three queues, two of each under one name; a library *)
(* of two transitions and one transition of the program.                     *)
EXTENDS ConfigurationProps

CONSTANTS arrival, departure, own, e1, e2, e3, q1, q2, q3
MCLibrary == <<arrival, departure>>
MCLibraryPath == <<"MARTO_LIBRARY_PATH">>
MCName == [x \in EventTypes \cup Queues |->
             CASE x \in {e1, e2} -> "event" [] x = e3 -> "other"
               [] x \in {q1, q2} -> "queue" [] x = q3 -> "outside"]
MCTransition == [x \in EventTypes |-> CASE x = e1 -> arrival [] x = e2 -> departure [] x = e3 -> own]
MCRate == [x \in EventTypes |-> CASE x = e1 -> 2 [] x = e2 -> 0 [] x = e3 -> 3]
=============================================================================
