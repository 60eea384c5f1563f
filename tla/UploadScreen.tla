----------------------------- MODULE UploadScreen -----------------------------
(***************************************************************************)
(* What the upload page promises to the user who dropped some files on it: *)
(* files leave the screen one by one and never come back, the page leaves  *)
(* in the very moment the last file does, and the moment comes.            *)
(***************************************************************************)
EXTENDS Naturals

CONSTANTS
  Shown0,    \* the files dropped on the page
  Targets,   \* the pages the user may be sent to
  Here       \* the upload page itself

VARIABLES
  shown,     \* the files still on the screen
  location   \* where the browser is, or is sent to

screen == <<shown, location>>

Init == shown = Shown0 /\ location = Here

Clear(f) ==
  /\ shown' = shown \ {f}
  /\ location' \in IF shown' = {} THEN Targets ELSE {Here}

Next == location = Here /\ \E f \in shown : Clear(f)

Spec == Init /\ [][Next]_screen

(* "That way the user is never left staring at an upload screen forever." *)
FairSpec == Spec /\ WF_screen(Next)
===============================================================================
