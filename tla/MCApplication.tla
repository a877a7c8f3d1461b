---------------------------- MODULE MCApplication ----------------------------
(* Application for TLC: all numerals stand for one chat, as "7" and "+7".  *)
EXTENDS Application

OneChat == [n \in Numerals |-> CHOOSE c \in ChatIds : TRUE]
=============================================================================
