------------------------------ MODULE MCCallback ------------------------------
(* Small instances of Callback for TLC.                                    *)
EXTENDS Callback
=============================================================================
