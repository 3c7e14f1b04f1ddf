---------------------------- MODULE MCThumbnails ----------------------------
(* TLC instance of Thumbnails: two requests at a time, two settings.         *)
EXTENDS Thumbnails
=============================================================================
