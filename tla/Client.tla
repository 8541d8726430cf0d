------------------------------- MODULE Client -------------------------------
(***************************************************************************)
(* ipc_client.rs: the blocking client.  A call writes one request and reads *)
(* one reply; when the connection turns out to be broken a client that     *)
(* reconnects makes one more attempt over a fresh one, if the request may  *)
(* be replayed.  A connection may be broken long before a call finds out.  *)
(***************************************************************************)
EXTENDS Access, Naturals

CONSTANTS
  Client,       \* the connections that may exist
  AccountOf,    \* the account each belongs to
  Reconnects    \* those made with with_reconnect

ASSUME ClientAssumption ==
  /\ AccountOf \in [Client -> Account] /\ Reconnects \subseteq Client

VARIABLES
  conn,         \* of each client: "none", "open", or "broken" unnoticed
  call          \* the call each is blocked in, or None

client == <<conn, call>>

(* is_replay_safe *)
ReplaySafe == {"GetConfig", "ListDevices", "GetState", "SetConfig", "TestSound"}

ClientInit ==
  /\ conn = [c \in Client |-> "none"]
  /\ call = [c \in Client |-> None]

(* acts, a history, counts how often the daemon carried the request out.    *)
Attempt(req, c) ==
  [req |-> req, try |-> 1, acts |-> 0, answer |-> None,
   fate |-> IF conn[c] = "open" THEN "asked" ELSE "lost"]

(* attempt_round_trip over the connection there is. *)
Ask(c, req) ==
  /\ call' = [call EXCEPT ![c] = Attempt(req, c)]
  /\ UNCHANGED conn

(* Client::connect, and the first request right after it. *)
Connects(c) == Reach(AccountOf[c]) = "open"

ConnectAndAsk(c, req) ==
  /\ Connects(c)
  /\ conn' = [conn EXCEPT ![c] = "open"]
  /\ call' = [call EXCEPT ![c] = [Attempt(req, c) EXCEPT !.fate = "asked"]]

(* Form that retries whatever failed. *)
MayRetryAnything(c) == call[c].try = 1

MayRetry(c) ==
  /\ call[c].try = 1
  /\ c \in Reconnects /\ call[c].req.op \in ReplaySafe

Lost(c) == call[c] # None /\ call[c].fate = "lost"

(* round_trip's second attempt. *)
Retry(c) ==
  /\ Lost(c) /\ MayRetry(c) /\ Connects(c)
  /\ conn' = [conn EXCEPT ![c] = "open"]
  /\ call' = [call EXCEPT ![c].try = 2, ![c].fate = "asked"]

Answered(c) == call[c] # None /\ call[c].fate = "answered"

(* The call is over for want of another attempt; or the reopen fails.       *)
Fails(c) == Lost(c) /\ ~(MayRetry(c) /\ Connects(c))

(* The call returns result; what the caller does about it is the caller's.  *)
Returns(c, kind) ==
  \/ Answered(c) /\ call[c].answer.kind = kind
  \/ Fails(c) /\ kind = "Failed"

Done(c) == call' = [call EXCEPT ![c] = None] /\ UNCHANGED conn
Drop(c) == call' = [call EXCEPT ![c] = None] /\ conn' = [conn EXCEPT ![c] = "none"]

-----------------------------------------------------------------------------
(* The daemon's end. *)

Asked(c, op) ==
  /\ call[c] # None /\ conn[c] = "open"
  /\ call[c].fate = "asked" /\ call[c].req.op = op

(* The request is carried out ... *)
Act(c, answer) ==
  /\ call' = [call EXCEPT ![c].fate = "acted", ![c].answer = answer,
                          ![c].acts = @ + 1]
  /\ UNCHANGED conn

(* A question is answered at once: a daemon that goes between the two is a  *)
(* daemon that went before both.                                            *)
Tell(c, answer) ==
  /\ call' = [call EXCEPT ![c].fate = "answered", ![c].answer = answer,
                          ![c].acts = @ + 1]
  /\ UNCHANGED conn

(* ... and then answered. *)
Reply(c) ==
  /\ call[c] # None /\ conn[c] = "open" /\ call[c].fate = "acted"
  /\ call' = [call EXCEPT ![c].fate = "answered"]
  /\ UNCHANGED conn

(* Form of a reader that waits on at the end of the stream. *)
SeverUnnoticed ==
  /\ conn' = [c \in Client |-> IF conn[c] = "open" THEN "broken" ELSE conn[c]]
  /\ UNCHANGED call

(* The daemon is gone.  A reply it has written can still be read.           *)
Sever ==
  /\ conn' = [c \in Client |-> IF conn[c] = "open" THEN "broken" ELSE conn[c]]
  /\ call' = [c \in Client |->
                IF call[c] # None /\ call[c].fate \in {"asked", "acted"}
                THEN [call[c] EXCEPT !.fate = "lost", !.answer = None] ELSE call[c]]

-----------------------------------------------------------------------------
ClientTypeOK ==
  \A c \in Client :
    /\ conn[c] \in {"none", "open", "broken"}
    /\ call[c] # None =>
         /\ call[c].try \in 1..2 /\ call[c].acts \in 0..call[c].try
         /\ call[c].fate \in {"asked", "acted", "answered", "lost"}
         /\ call[c].fate \in {"asked", "acted"} => conn[c] = "open"
         /\ (call[c].answer = None) = (call[c].fate \in {"asked", "lost"})
=============================================================================
