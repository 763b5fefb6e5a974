----------------------------- MODULE MCImageCache -----------------------------
(* Three versions, of which the second is the longest.                         *)
EXTENDS ImageCache

MCSize == <<2, 3, 1>>

=============================================================================
