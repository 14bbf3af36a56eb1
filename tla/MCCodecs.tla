------------------------------ MODULE MCCodecs ------------------------------
(***************************************************************************)
(* Both codecs: a behaviour tries the lengths of the dump file or sends a  *)
(* message to the request parser.                                          *)
(***************************************************************************)
EXTENDS RdbLen, RespParser

MCWord == {<<>>, <<"x">>, <<"$", "1">>, <<"\r", "\n">>}
MCNoise == {<<"*">>, <<"$">>, <<"-">>, <<"2">>, <<" ">>, <<"x">>, <<"\r">>, <<"\n">>, <<"\r", "\n">>}
MCByte == UNION {ToSet(s) : s \in MCWord \cup MCNoise}

MCInit ==
    \/ InitLength /\ request = <<>> /\ message = <<>> /\ input = <<>>
    \/ length = MaxLen /\ ParserInit

MCNext ==
    \/ Grow /\ UNCHANGED <<request, message, input>>
    \/ Receive /\ UNCHANGED length

MCSpec == MCInit /\ [][MCNext]_<<length, request, message, input>>
=============================================================================
