----------------------------- MODULE MCUploadPage -----------------------------
(* Three files, two of them of the same name; identity 2 is in both matches. *)
EXTENDS UploadPage

MCName    == <<"a", "b", "a">>
MCPlayers == [n \in {"a", "b"} |-> IF n = "a" THEN {1, 2} ELSE {2, 3}]
===============================================================================
