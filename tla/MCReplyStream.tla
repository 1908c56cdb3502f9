--------------------------- MODULE MCReplyStream ---------------------------
(* Small instances of the composer for TLC. *)
EXTENDS ReplyStream

TwoDigits == {"1", "2"}
Twelve == <<"1", "2">>

\* Whole replies: good, claimed by another label, without the amount, with a
\* wrong number, empty.
SomeDrafts == {Twelve, <<Label>> \o Twelve, <<Other>> \o Twelve, <<Other>>,
               Twelve \o <<Space, "2", "1">>, <<>>}
=============================================================================
