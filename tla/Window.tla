------------------------------- MODULE Window -------------------------------
(***************************************************************************)
(* The settings window (alertu-settings): one thread that draws, and       *)
(* blocks in every call it makes but two, for which it starts a job on     *)
(* another thread: a pairing, over a connection of its own, and the prompt *)
(* that adds the account to the group.                                     *)
(*                                                                         *)
(* It edits a working copy of the configuration, its list of keys through  *)
(* a text buffer, and saves all of it.  Drawing, sound outputs and the     *)
(* device list's contents are left out.                                    *)
(***************************************************************************)
EXTENDS Client

CONSTANTS
  Defaults,     \* Config::default()
  KeyTexts,     \* what the user may type as keys
  MaxPicks,     \* bound on the buttons the user presses
  MaxEdits      \* bound on the user's edits

ASSUME WindowAssumption == MaxPicks \in Nat /\ MaxEdits \in Nat

VARIABLES
  linked,       \* SettingsApp::client is there
  copy,         \* SettingsApp::cfg
  keysText,     \* SettingsApp::toggle_keys_buf
  filled,       \* the buffers of the paths are: load_buffers has run
  doing,        \* what the drawing thread is blocked in
  job,          \* SettingsApp::pairing: "none", "starting", "asking" or "ended"
  outcome,      \* what the job has left in the channel
  authorizing,  \* SettingsApp::authorizing
  forbidden,    \* SettingsApp::forbidden
  status,       \* SettingsApp::status: "Saved", "Paired", or any other text
  got,          \* the configuration a load has got so far
  picks, edits  \* bounds: buttons pressed and edits made so far

buffers == <<keysText, filled>>
form   == <<copy, buffers>>
jobs   == <<job, outcome, authorizing>>
pairJob == <<job, outcome>>
budget == <<picks, edits>>
window == <<linked, form, doing, jobs, forbidden, status, got, budget>>

(* Two of the clients. *)
Main   == "window"
Pairer == "pairer"

WindowInit ==
  /\ linked = FALSE /\ copy = Defaults /\ keysText = {} /\ filled = FALSE
  /\ doing = "opening" /\ job = "none" /\ outcome = None
  /\ authorizing = FALSE /\ forbidden = FALSE
  /\ status = "" /\ got = None
  /\ picks = 0 /\ edits = 0

Idle == doing = "idle"

(* The user presses a button, between two frames. *)
Picks ==
  /\ Idle /\ picks < MaxPicks
  /\ picks' = picks + 1 /\ UNCHANGED edits

-----------------------------------------------------------------------------
(* reconnect *)

ReconnectWorks ==
  /\ ConnectAndAsk(Main, [op |-> "GetConfig"])
  /\ doing' = "GetConfig"
  /\ UNCHANGED <<linked, status>>

ReconnectFails ==
  /\ ~Connects(Main)
  /\ linked' = FALSE /\ status' = "" /\ doing' = "probing"
  /\ conn' = [conn EXCEPT ![Main] = "none"] /\ UNCHANGED call

Reconnect ==
  /\ ReconnectWorks \/ ReconnectFails
  /\ UNCHANGED <<form, jobs, forbidden, got>>

Opens == doing = "opening" /\ Reconnect /\ UNCHANGED budget

(* The Reload button; and Refresh devices without a connection.             *)
PickReload == Picks /\ Reconnect

(* socket_forbidden makes a connection of its own. *)
Probed ==
  /\ doing = "probing"
  /\ doing' = "idle" /\ forbidden' = (Reach(AccountOf[Main]) = "denied")
  /\ UNCHANGED <<client, linked, form, jobs, status, got, budget>>

(* All three questions are asked, whatever becomes of the first.            *)
GotConfig ==
  /\ doing = "GetConfig"
  /\ \/ Returns(Main, "Config") /\ got' = call[Main].answer.cfg
     \/ Returns(Main, "Failed") /\ got' = None
  /\ Ask(Main, [op |-> "ListDevices"])
  /\ doing' = "ListDevices"
  /\ UNCHANGED <<linked, form, jobs, forbidden, status, budget>>

GotDevices ==
  /\ doing = "ListDevices"
  /\ \/ Returns(Main, "Devices") /\ UNCHANGED got
     \/ Returns(Main, "Failed") /\ got' = None
  /\ Ask(Main, [op |-> "GetState"])
  /\ doing' = "GetState"
  /\ UNCHANGED <<linked, form, jobs, forbidden, status, budget>>

(* load_buffers, from configuration c. *)
LoadBuffers(c) == keysText' = c.keys /\ filled' = TRUE

(* Loaded or not, the window counts as connected.  Without a load its       *)
(* buffers stay empty, beside the defaults in the working copy.             *)
GotState ==
  /\ doing = "GetState"
  /\ Returns(Main, "State") \/ Returns(Main, "Failed")
  /\ Done(Main)
  /\ IF got # None
     THEN copy' = got /\ LoadBuffers(got)
     ELSE UNCHANGED form
  /\ status' = ""
  /\ linked' = TRUE /\ forbidden' = FALSE /\ doing' = "idle" /\ got' = None
  /\ UNCHANGED <<jobs, budget>>

(* refresh_devices *)
PickRefresh ==
  /\ Picks /\ linked
  /\ Ask(Main, [op |-> "ListDevices"])
  /\ doing' = "refreshing"
  /\ UNCHANGED <<linked, form, jobs, forbidden, status, got>>

Refreshed ==
  /\ doing = "refreshing"
  /\ Returns(Main, "Devices") \/ Returns(Main, "Failed")
  /\ status' = ""
  /\ Done(Main)
  /\ doing' = "idle"
  /\ UNCHANGED <<linked, form, jobs, forbidden, got, budget>>

-----------------------------------------------------------------------------
(* Edits: a field of the working copy, or the text of the keys.             *)
Edit ==
  /\ Idle /\ edits < MaxEdits
  /\ edits' = edits + 1 /\ UNCHANGED picks
  /\ \/ copy' = [copy EXCEPT !.other = "edited"] /\ UNCHANGED buffers
     \/ keysText' \in KeyTexts /\ UNCHANGED <<copy, filled>>
  /\ UNCHANGED <<client, linked, doing, jobs, forbidden, status, got>>

(* collect, from a working copy c, the buffer of the keys and those of the  *)
(* paths, which are blank unless full.                                      *)
Collected(c, keys, full) ==
  [c EXCEPT !.keys = keys, !.other = IF full THEN @ ELSE "blank"]

(* save: how far it gets without the daemon, if cfg is collected.  why      *)
(* tells what is done after it.                                             *)
Save(cfg, why) ==
  \/ /\ ~(Valid(cfg) /\ linked)
     /\ status' = "" /\ UNCHANGED <<client, doing>>
  \/ /\ Valid(cfg) /\ linked
     /\ Ask(Main, [op |-> "SetConfig", cfg |-> cfg])
     /\ doing' = why /\ UNCHANGED status

PickSave(why) ==
  /\ Picks /\ linked
  /\ Save(Collected(copy, keysText, filled), why)
  /\ UNCHANGED <<linked, form, jobs, forbidden, got>>

(* Form that takes any reply for a success. *)
SavedWhateverReplied ==
  /\ doing \in {"saving", "testing", "pairing"}
  /\ \/ /\ Returns(Main, "Ok") \/ Returns(Main, "Error")
        /\ copy' = call[Main].req.cfg
        /\ status' = IF doing = "pairing" THEN "Paired" ELSE "Saved"
        /\ IF doing = "testing"
           THEN Ask(Main, [op |-> "TestSound"]) /\ doing' = "sounding"
           ELSE Done(Main) /\ doing' = "idle"
     \/ /\ Returns(Main, "Failed")
        /\ status' = "" /\ doing' = "idle"
        /\ Done(Main) /\ UNCHANGED copy
  /\ UNCHANGED <<linked, buffers, jobs, forbidden, got, budget>>

(* save returns; test_sound goes on to the sound, poll_pairing says more.   *)
Saved ==
  /\ doing \in {"saving", "testing", "pairing"}
  /\ \/ /\ Returns(Main, "Ok")
        /\ copy' = call[Main].req.cfg
        /\ status' = IF doing = "pairing" THEN "Paired" ELSE "Saved"
        /\ IF doing = "testing"
           THEN Ask(Main, [op |-> "TestSound"]) /\ doing' = "sounding"
           ELSE Done(Main) /\ doing' = "idle"
     \/ /\ Returns(Main, "Error") \/ Returns(Main, "Failed")
        /\ status' = "" /\ doing' = "idle"
        /\ Done(Main) /\ UNCHANGED copy
  /\ UNCHANGED <<linked, buffers, jobs, forbidden, got, budget>>

Sounded ==
  /\ doing = "sounding"
  /\ Returns(Main, "Ok") \/ Returns(Main, "Failed")
  /\ status' = ""
  /\ Done(Main)
  /\ doing' = "idle"
  /\ UNCHANGED <<linked, form, jobs, forbidden, got, budget>>

-----------------------------------------------------------------------------
(* start_pairing; the job connects and asks ... *)

PickPair ==
  /\ Picks /\ linked /\ job = "none"
  /\ job' = "starting" /\ status' = ""
  /\ UNCHANGED <<client, linked, form, doing, outcome, authorizing, forbidden, got>>

JobAsks ==
  /\ job = "starting"
  /\ \/ /\ ConnectAndAsk(Pairer, [op |-> "LearnRemote"])
        /\ job' = "asking" /\ UNCHANGED outcome
     \/ /\ ~Connects(Pairer)
        /\ job' = "ended" /\ outcome' = [kind |-> "Failed"] /\ UNCHANGED client
  /\ UNCHANGED <<linked, form, doing, authorizing, forbidden, status, got, budget>>

(* ... and leaves the outcome where poll_pairing finds it.                  *)
JobEnds ==
  /\ job = "asking"
  /\ \/ Answered(Pairer) /\ outcome' = call[Pairer].answer
     \/ Fails(Pairer) /\ outcome' = [kind |-> "Failed"]
  /\ Drop(Pairer)
  /\ job' = "ended"
  /\ UNCHANGED <<linked, form, doing, authorizing, forbidden, status, got, budget>>

(* poll_pairing: the press goes into the working copy, unsaved edits and    *)
(* all, the buffers are filled again from it, and it is saved.              *)
PollPairing ==
  /\ Idle /\ job = "ended"
  /\ job' = "none" /\ outcome' = None
  /\ IF outcome.kind = "Learned"
     THEN LET c == ApplyLearned(copy, outcome)
          IN  copy' = c /\ LoadBuffers(c) /\ Save(Collected(c, c.keys, TRUE), "pairing")
     ELSE /\ status' = ""
          /\ UNCHANGED <<client, form, doing>>
  /\ UNCHANGED <<linked, authorizing, forbidden, got, budget>>

(* start_authorizing and poll_authorizing: no reconnection follows, for the *)
(* process keeps the groups it was started with.                            *)
PickAuthorize ==
  /\ Picks /\ forbidden /\ ~authorizing
  /\ authorizing' = TRUE /\ status' = ""
  /\ UNCHANGED <<client, linked, form, doing, pairJob, forbidden, got>>

PollAuthorizing ==
  /\ Idle /\ authorizing
  /\ authorizing' = FALSE /\ status' = ""
  /\ UNCHANGED <<client, linked, form, doing, pairJob, forbidden, got, budget>>

-----------------------------------------------------------------------------
UserActs ==
  \/ PickReload \/ PickRefresh \/ Edit \/ PickSave("saving") \/ PickSave("testing")
  \/ PickPair \/ PickAuthorize

WindowWorks ==
  \/ Opens \/ Probed \/ GotConfig \/ GotDevices \/ GotState \/ Refreshed
  \/ Saved \/ Sounded \/ JobAsks \/ JobEnds \/ PollPairing \/ PollAuthorizing

WindowTypeOK ==
  /\ linked \in BOOLEAN /\ authorizing \in BOOLEAN /\ forbidden \in BOOLEAN
  /\ doing \in {"opening", "idle", "probing", "GetConfig", "ListDevices", "GetState",
                "refreshing", "saving", "testing", "sounding", "pairing"}
  /\ (call[Main] # None) = (doing \notin {"opening", "idle", "probing"})
  /\ (call[Pairer] # None) = (job = "asking")
  /\ job \in {"none", "starting", "asking", "ended"} /\ (outcome # None) = (job = "ended")
  /\ filled \in BOOLEAN /\ picks \in 0..MaxPicks /\ edits \in 0..MaxEdits
=============================================================================
