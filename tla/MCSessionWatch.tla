--------------------------- MODULE MCSessionWatch ---------------------------
(* Small instances of SessionWatch for TLC. *)
EXTENDS SessionWatch

(* One session can be lost and found; a second one to be pointed at. *)
OneSession  == {"tty2"}
TwoSessions == {"tty2", "tty3"}
=============================================================================
