----------------------------- MODULE ConfigStore -----------------------------
(***************************************************************************)
(* What the configuration manager promises (README.md, Milestone 3,        *)
(* "atomic power-fail safe runtime update for core alarm/channel           *)
(* configuration data"), as far as it keeps it: the system runs with one   *)
(* configuration, and a restart brings back a configuration that it once   *)
(* ran with as a whole, never a mixture and never nothing.  That it brings *)
(* back the latest one is not promised here: see StoredIsComplete.         *)
(***************************************************************************)
CONSTANTS Items, Settings

VARIABLES
  current,   (* the configuration that is in force                         *)
  saved      (* the configurations a restart may bring back                *)

vars == <<current, saved>>

Init == current \in [Items -> Settings] /\ saved = {current}

Update(i, s) == current' = [current EXCEPT ![i] = s] /\ UNCHANGED saved

Save == saved' = saved \cup {current} /\ UNCHANGED current

(* What was saved earlier is given up for good, or the power fails.        *)
Settle == saved' \in (SUBSET saved) \ {{}} /\ UNCHANGED current

Restart == current' \in saved /\ UNCHANGED saved

Next ==
  \/ \E i \in Items, s \in Settings : Update(i, s)
  \/ Save
  \/ Settle
  \/ Restart

Spec == Init /\ [][Next]_vars
=============================================================================
