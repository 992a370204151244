---------------------------- MODULE AtomicStore ----------------------------
(***************************************************************************)
(* What lib/json-store.js promises of one stored file: every operation     *)
(* takes effect at one instant, on the value the file has at that instant, *)
(* or not at all; a process that dies takes its unfinished operations with *)
(* it and nothing else; a power loss leaves the value or an earlier one    *)
(* that was not yet replaced for good, and, where Synced, never takes back *)
(* what was acknowledged.                                                  *)
(*                                                                         *)
(* A value is the set of tags written to it: an update adds the tag of its *)
(* operation, a save replaces the value by one tag, and a restore replaces *)
(* it by the content of a recovery copy.                                   *)
(***************************************************************************)
CONSTANTS
  Tasks,     \* the operations
  Kind,      \* Kind[t]: update, save or restore
  Tag,       \* Tag[t]: what t writes
  Strict,    \* a corrupt file is refused, not replaced
  Synced,    \* an acknowledged operation survives a power loss
  Missing,   \* no file
  Corrupt    \* a file that does not parse

VARIABLES
  value,   \* what a read of the file finds
  stable,  \* the values a power loss may leave
  phase    \* idle, open, took (effect), ok (acknowledged), void

vars == <<value, stable, phase>>

Content == SUBSET {Tag[t] : t \in Tasks}

(* An update starts from the defaults where there is nothing to read.      *)
Base(v) == IF v \in Content THEN v ELSE {}

(* The values t may leave in place of v.                                   *)
Effects(t, v) ==
  IF Kind[t] = "restore" THEN Content
  ELSE IF Strict /\ v = Corrupt THEN {}
  ELSE IF Kind[t] = "update" THEN {Base(v) \union {Tag[t]}}
  ELSE {{Tag[t]}}

Init ==
  /\ value \in Content \union {Missing, Corrupt}
  /\ stable = {value}
  /\ phase = [t \in Tasks |-> "idle"]

Moves(t, from, to) ==
  /\ phase[t] \in from
  /\ phase' = [phase EXCEPT ![t] = to]

Call(t) == Moves(t, {"idle"}, "open") /\ UNCHANGED <<value, stable>>

Take(t) ==
  /\ Moves(t, {"open"}, "took")
  /\ value' \in Effects(t, value)
  /\ stable' = stable \union {value'}

Settle(t) ==
  /\ phase[t] = "took"
  /\ stable' = {value}
  /\ UNCHANGED <<value, phase>>

Acknowledge(t) ==
  /\ Moves(t, {"took"}, "ok")
  /\ Synced => stable = {value}
  /\ UNCHANGED <<value, stable>>

Void(t) == Moves(t, {"open", "took"}, "void") /\ UNCHANGED <<value, stable>>

Running == {t \in Tasks : phase[t] \in {"open", "took"}}
Voided(T) == [t \in Tasks |-> IF t \in T THEN "void" ELSE phase[t]]

Kill ==
  /\ \E T \in SUBSET Running : phase' = Voided(T)
  /\ UNCHANGED <<value, stable>>

PowerLoss ==
  /\ value' \in stable
  /\ stable' = {value'}
  /\ phase' = Voided(Running)

Damage ==
  /\ Running = {}
  /\ value' \in {Missing, Corrupt}
  /\ stable' = {value'}
  /\ UNCHANGED phase

Next ==
  \/ \E t \in Tasks : Call(t) \/ Take(t) \/ Settle(t) \/ Acknowledge(t) \/ Void(t)
  \/ Kill
  \/ PowerLoss
  \/ Damage

Spec == Init /\ [][Next]_vars
=============================================================================
