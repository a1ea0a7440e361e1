-------------------------------- MODULE MCUpload --------------------------------
(* Instances of Upload for TLC.                                            *)
EXTENDS Upload
=============================================================================
