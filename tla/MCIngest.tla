------------------------------ MODULE MCIngest ------------------------------
(* Two principals, one of whom may only commit, and two uploads, one of    *)
(* which carries what must not be stored.                                  *)
EXTENDS Ingest, TLC

CONSTANTS alice, d1, d2

MCUploads == {[raw |-> 1, id |-> d1, size |-> 1, clean |-> TRUE],
              [raw |-> 2, id |-> d2, size |-> 2, clean |-> FALSE]}
MCScopes == [p \in Principals |-> IF p = alice THEN {"prepare", "commit"} ELSE {"commit"}]
=============================================================================
