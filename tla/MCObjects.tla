----------------------------- MODULE MCObjects ------------------------------
(***************************************************************************)
(* One SetObject or one ListObject: a behaviour changes only one of them.  *)
(***************************************************************************)
EXTENDS SetObject, ListObject

CONSTANTS a, b, large

MCMember == {<<"7">>, <<"0", "7">>, <<"+", "7">>, <<"0">>, <<"-", "0">>, <<"-", "3">>,
             <<"1", "2">>, <<"1", "3">>, <<"-", "1", "3">>, <<"-">>, <<"7", "x">>, <<>>}
MCIndex == -5 .. 5

\* The premise of theorems MembersComeAndGo and MembersAreCounted.
ASSUME NumbersSurvive == RoundTrips

MCInit == Init /\ ListInit

MCNext ==
    \/ Next /\ theList = NewList /\ UNCHANGED theList
    \/ ListNext /\ theSet = NewSet /\ UNCHANGED theSet

MCSpec == MCInit /\ [][MCNext]_<<theSet, theList>>
=============================================================================
