----------------------------- MODULE MCClients -----------------------------
(* A small instance of Clients for TLC: a daemon installed by hand, whose   *)
(* own group is that of every user and whose umask leaves a new socket      *)
(* open to it.                                                              *)
EXTENDS Clients

TwoAccounts == {"member", "colleague"}
TheirGroups == [a \in TwoAccounts |->
                  IF a = "member" THEN {"users", "alertu"} ELSE {"users"}]
GroupWide   == [dir |-> "all", sock |-> "group"]
TmpDir      == [group |-> "root", open |-> "all"]
AllClients  == {Main, Pairer, Ctl}
AllMembers  == [c \in AllClients |-> "member"]
OnlyMain    == {Main}
NewDefaults == [hint |-> None, path |-> None, keys |-> {"up"}, other |-> "default"]
OldFile     == [hint |-> "old", path |-> None, keys |-> {"enter"}, other |-> "set"]
OtherFile   == [hint |-> "old", path |-> None, keys |-> {"enter"}, other |-> "ctl"]
NoKeyOrOne  == {{}, {"shift"}}
ShutterKey  == [kind |-> "Learned", path |-> 1, name |-> "shutter", key |-> "volume"]
=============================================================================
