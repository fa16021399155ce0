-------------------------------- MODULE MCShell --------------------------------
(* Small instance of Shell.                                                      *)
EXTENDS Shell

MCChars    == {"a", "grave"}
MCSpecials == {"ENTER", "BACKSPACE"}
================================================================================
