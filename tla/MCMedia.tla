------------------------------ MODULE MCMedia -------------------------------
(* A small instance of Media by itself.                                    *)
EXTENDS Media
=============================================================================
