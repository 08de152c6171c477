------------------------------- MODULE MCMail -------------------------------
(* Every kind of task; one failure, one worker that dies.                  *)
EXTENDS Mail
=============================================================================
