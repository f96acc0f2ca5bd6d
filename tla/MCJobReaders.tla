----------------------------- MODULE MCJobReaders -----------------------------
(* A small instance of JobReaders for TLC. *)
EXTENDS JobReaders

CONSTANTS v1, v2

SomeOwners == {[user |-> "", session |-> "s"], [user |-> "", session |-> "t"],
               [user |-> "u", session |-> ""]}
TwoGroups == {<<"m", "p">>, <<"n", "p">>}
TwoCodes == {"", "c"}
TwoRequests == {v1, v2}
SomeWindows == {<<0, 3>>, <<1, 2>>, <<1, 3>>}
=============================================================================
