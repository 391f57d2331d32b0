---------------------------- MODULE MCBootloader ----------------------------
(* Two sectors of two bytes a transfer and a boot area of three transfers.  *)
(* The images are too small to be accepted, end with a transfer, end inside *)
(* one, and need the last transfer of the area.                             *)
EXTENDS Bootloader

Img(id, size) == [id |-> id, size |-> size]
MCImages == {Img(1, 3), Img(1, 4), Img(1, 7), Img(2, 9)}
=============================================================================
