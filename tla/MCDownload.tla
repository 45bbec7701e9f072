----------------------------- MODULE MCDownload -----------------------------
(* Download for TLC: a file of three to five blocks passes through a window *)
(* of two, so that the ring wraps; the block size changes on the way, reads *)
(* fail, and the last block numbers leave the range of a short.             *)
EXTENDS Download

OneTwo == {1, 2}
Any == {"served", "refused", "ignored"}
=============================================================================
