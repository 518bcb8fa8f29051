--------------------------- MODULE MCFrameReader ---------------------------
(* Two-byte headers over two-valued bytes: lengths 0 to 3, two reads with  *)
(* caps below the longest length, a stream longer than the total cap.      *)
EXTENDS FrameReader

TwoReads == <<1, 2>>
=============================================================================
