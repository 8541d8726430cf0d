------------------------------- MODULE MCIpc --------------------------------
(* A small instance of Ipc for TLC: a tray that subscribes and pairs, and a *)
(* command-line client that does everything else.                           *)
EXTENDS Ipc

TwoClients == {"tray", "ctl"}
StateOnly  == {"state"}
Habits == [c \in TwoClients |->
             IF c = "tray" THEN {"Subscribe", "Get", "Learn", "Command"}
             ELSE {"Command", "Ask", "Bad"}]
=============================================================================
