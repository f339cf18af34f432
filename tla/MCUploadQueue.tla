---------------------------- MODULE MCUploadQueue ----------------------------
(* Small instances of UploadQueue for TLC.                                 *)
EXTENDS UploadQueue, TLC
CONSTANTS file, big, scan
=============================================================================
