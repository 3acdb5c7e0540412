---------------------------- MODULE MCSidetrack ----------------------------
(* Sidetrack with one tool, which another process answers.                 *)
EXTENDS Sidetrack

CONSTANT remote

MCTools == {remote}

=============================================================================
