----------------------------- MODULE ConfigStore -----------------------------
(***************************************************************************)
(* What shared/ota_config.h promises to the bootloader and the application *)
(* about the OTA configuration, with no flash pages in sight: a register   *)
(* holding one configuration, whose update is atomic with respect to power *)
(* loss and whose return code is honest.                                   *)
(*                                                                         *)
(* A call either installs its argument at one instant or never; it answers *)
(* "true" only after the install, and "false" only if nothing changed.     *)
(***************************************************************************)

CONSTANTS
  Value,     \* the contents a configuration record can have
  NoConfig   \* "ota_config_read() returned false"

VARIABLES
  stored,    \* what ota_config_read() returns now
  phase,     \* "idle", "pending" (called) or "installed" (not yet returned)
  arg,       \* the argument of the call in progress
  result     \* "none", or what the last call that returned answered

storeVars == <<stored, phase, arg, result>>

Init ==
  /\ stored \in Value \cup {NoConfig}
  /\ phase = "idle"
  /\ arg = NoConfig
  /\ result = "none"

Call(v) ==
  /\ phase = "idle"
  /\ phase' = "pending"
  /\ arg' = v
  /\ result' = "none"
  /\ UNCHANGED stored

\* A store that was never written refuses to be updated in place.
Refuse ==
  /\ phase = "idle"
  /\ stored = NoConfig
  /\ result' = "false"
  /\ UNCHANGED <<stored, phase, arg>>

Install ==
  /\ phase = "pending"
  /\ phase' = "installed"
  /\ stored' = arg
  /\ UNCHANGED <<arg, result>>

Return ==
  /\ phase # "idle"
  /\ phase' = "idle"
  /\ arg' = NoConfig
  /\ result' = IF phase = "installed" THEN "true" ELSE "false"
  /\ UNCHANGED stored

\* Power may go at any instant; the register keeps what it holds.
PowerLoss ==
  /\ phase' = "idle"
  /\ arg' = NoConfig
  /\ result' = "none"
  /\ UNCHANGED stored

Next ==
  \/ \E v \in Value : Call(v)
  \/ Refuse
  \/ Install
  \/ Return
  \/ PowerLoss

Spec == Init /\ [][Next]_storeVars

==============================================================================
