----------------------------- MODULE MCIoRelay -----------------------------
(* Instances of IoRelay: a bound on all that comes from outside.           *)
EXTENDS IoRelay

NoPhrase == {}
=============================================================================
