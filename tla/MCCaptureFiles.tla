--------------------------- MODULE MCCaptureFiles ---------------------------
(* Three runs under one name, one after the other or two at once. *)
EXTENDS CaptureFilesProps
=============================================================================
