--------------------------------- MODULE MCDisk --------------------------------
(* A disk with a table of two sectors of eight bytes of four bits. *)
EXTENDS Disk

MCTypes == {12, 16, 32}
MCJunk  == {Ones}
================================================================================
