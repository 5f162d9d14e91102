------------------------------- MODULE MCReads -------------------------------
(* Instances of Reads for TLC. *)
EXTENDS Reads

Home == 1
A == 2
B == 3

Ask(method, rel) == [method |-> method, rel |-> rel]

(* The backend is the directory Home.  A may be a file, a directory, and   *)
(* both.                                                                   *)
HomeKeys == {<<Home, 0>>, <<Home, A>>, <<Home, A, B>>, <<Home, B>>}
SomeOfThem ==
  {{<<Home, 0>>, <<Home, A, B>>}, {<<Home, A>>, <<Home, A, B>>, <<Home, B>>},
   {<<Home, 0>>, <<Home, A>>, <<Home, B>>}}
HomeRequests ==
  {Ask("List", <<>>), Ask("List", <<A>>), Ask("Stat", <<>>), Ask("Stat", <<A>>),
   Ask("Get", <<>>), Ask("Get", <<A>>)}
HomePrefix == <<Home>>
=============================================================================
