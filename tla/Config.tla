------------------------------- MODULE Config -------------------------------
(***************************************************************************)
(* The configuration as its readers and writers tell it apart              *)
(* (alertu-common/src/config.rs): how the remote is to be found, the keys  *)
(* that toggle, and all the other settings together.                       *)
(***************************************************************************)
CONSTANT None    \* an empty hint; "auto" as a path; any other absent value

(* Form that keeps the keys learned before. *)
ApplyLearnedKeeping(c, a) ==
  [c EXCEPT !.hint = IF a.name = None THEN @ ELSE a.name,
            !.path = IF a.name = None THEN a.path ELSE None]

(* Config::apply_learned_remote: by name when there is one, for the node    *)
(* may change; the key pressed replaces every other.                        *)
ApplyLearned(c, a) ==
  [c EXCEPT !.hint = IF a.name = None THEN @ ELSE a.name,
            !.path = IF a.name = None THEN a.path ELSE None,
            !.keys = {a.key}]

(* Config::validate. *)
Valid(c) == c.keys # {}
=============================================================================
