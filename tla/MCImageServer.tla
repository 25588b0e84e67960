---------------------------- MODULE MCImageServer ----------------------------
(* Instances of ImageServer for TLC.  A packet of size 3 takes two pieces, and  *)
(* two packets of size 3, or one behind two small ones, fill the send buffer.   *)
EXTENDS ImageServer
=============================================================================
