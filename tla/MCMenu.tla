------------------------------- MODULE MCMenu -------------------------------
(* Instances of Menu for TLC. *)
EXTENDS Menu

\* Auto-logout after one tick or after two.
TwoTimeouts == <<1, 2>>

\* One short of what the buffer holds.
OnePattern == {<<"up">>}
=============================================================================
