----------------------------- MODULE MCManager ------------------------------
(* Values for the constants of Manager.                                    *)
EXTENDS Manager

CONSTANTS b1, b2

(* The command line gives the first board's key and an old one of the      *)
(* second board.                                                           *)
GivenKeys == [b \in Boards |-> IF b = b1 THEN 1 ELSE 2]
=============================================================================
