-------------------------------- MODULE MCEditor -------------------------------
(* Editor with a few lines and cells, and two files. *)
EXTENDS Editor
MCKeys == {"j", "k", "l", "h", "d", "x", "s", "o", "O", "a", ":", "i"}
MCFiles == {<<<<"i", "f">>, <<"i">>, <<>>>>, <<<<"i">>, <<>>, <<"i">>>>}
=============================================================================
