-------------------------------- MODULE MCRelease --------------------------------
(* A small instance of Release for TLC.                                    *)
EXTENDS Release
=============================================================================
