----------------------------- MODULE MCSession ------------------------------
(* Instances of Session for TLC. *)
EXTENDS Session

SixCharacters == {"r", "s", "c", "d", "@", "/"}

TwoRooms == {<<"r">>, <<"s">>}

\* A nickname with both separators.
OneNick == {<<"@", "/">>}

OneHost == <<"c", "d">>
=============================================================================
