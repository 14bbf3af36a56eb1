---------------------------- MODULE MCEventLoop -----------------------------
(* Three clients for two descriptors, so that one is reused or missing, with
   requests of several elements, of which two may arrive together.  *)
EXTENDS EventLoop

CONSTANTS a, v, patient, eager, late

MCKey == {a, v}
MCHash == [s \in MCKey |-> 0]
MCLength == [s \in MCKey |-> 1]
MCUpper == <<>>

MCScript ==
    patient :> <<<<"SET", a, v>>, <<"PING">>>> @@
    eager   :> <<<<"KEYS", "*">>, <<"PING">>>> @@
    late    :> <<<<"PING">>>>

\* One client alone, whose second reply is of two elements.
MCOne == patient :> <<<<"SET", a, v>>, <<"KEYS", "*">>>>
=============================================================================
