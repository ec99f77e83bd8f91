------------------------------ MODULE MCServer ------------------------------
(* Server for TLC. *)
EXTENDS Server

\* Once the loop has taken up an event while a task was unfinished nothing is
\* promised any more; from there on only clients that stay are followed.
Followed == "overlap" \in causes => left \cup reset = {}
=============================================================================
