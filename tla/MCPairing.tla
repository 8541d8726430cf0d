----------------------------- MODULE MCPairing -----------------------------
(* A small instance of Pairing for TLC: a keyboard that reports no usable   *)
(* name, a remote that does, three nodes for them, and a configuration      *)
(* whose only key is misspelt.                                             *)
EXTENDS Pairing

ThreeNodes  == {1, 2, 3}
TwoDevices  == {"keyboard", "remote"}
RemoteNamed == [d \in TwoDevices |-> IF d = "remote" THEN "shutter" ELSE None]
Keys        == [d \in TwoDevices |-> IF d = "remote" THEN "volume" ELSE "enter"]
NoPointer   == {}
Itself      == {<<"shutter", "shutter">>}
BothPlugged == [n \in ThreeNodes |->
                  CASE n = 1 -> "keyboard" [] n = 2 -> "remote" [] OTHER -> None]
Misspelt    == {"vloume"}
Unpaired    == [hint |-> "shutter", path |-> None, keys |-> Misspelt, other |-> 0]
=============================================================================
