------------------------------ MODULE MCDevices ------------------------------
(***************************************************************************)
(* What the devices of listeners ask of the server, for TLC:               *)
(* OfflinePreparation and HlsSessions side by side.  They share no state,  *)
(* so a behaviour is one of a single part, and the other one rests.        *)
(***************************************************************************)
EXTENDS OfflinePreparation, HlsSessions, TLC

VARIABLE part   \* whose steps are taken

-----------------------------------------------------------------------------
(* Three books and one worker.                                             *)

Scene(f) == f @@ [x \in Events |-> 0]
MCScenes ==
  {Scene(("request" :> 2) @@ ("remove" :> 2)),
   Scene(("request" :> 2) @@ ("removeAll" :> 1)),
   Scene(("request" :> 2) @@ ("change" :> 2)),
   Scene(("request" :> 2) @@ ("crash" :> 1) @@ ("fail" :> 1)),
   Scene(("request" :> 1) @@ ("other" :> 1) @@ ("remove" :> 1)),
   Scene(("request" :> 1) @@ ("other" :> 1) @@ ("change" :> 1)),
   Scene(("request" :> 1) @@ ("other" :> 3) @@ ("move" :> 1))}

-----------------------------------------------------------------------------
(* Three owners, p and q of one account, at two places of a chapter; room  *)
(* for two transports, and for one of an account.                          *)

Listening(keys, f) ==
  [keys |-> keys, may |-> f @@ [e \in {"leave", "refuse", "expire", "maintain", "fail"} |-> 0]]
P1 == <<"p", 1>>
P2 == <<"p", 2>>
Q1 == <<"q", 1>>
R1 == <<"r", 1>>
MCListening ==
  {Listening(<<P1, P1>>, ("leave" :> 2) @@ ("fail" :> 1)),
   Listening(<<P1, P1, P2>>, "leave" :> 1),
   Listening(<<P1, P2, P1>>, ("expire" :> 1) @@ ("refuse" :> 1)),
   Listening(<<P1, Q1>>, ("leave" :> 1) @@ ("fail" :> 1) @@ ("maintain" :> 1)),
   Listening(<<P1, R1, Q1>>, "leave" :> 0)}

MCAccount == ("p" :> "a") @@ ("q" :> "a") @@ ("r" :> "b")

-----------------------------------------------------------------------------
Resting(name, var, choices) == part # name => var = CHOOSE c \in choices : TRUE

MCInit ==
  /\ part \in {"offline", "hls"}
  /\ Init /\ Resting("offline", budget, MCScenes) /\ Resting("offline", record[Main], {Absent})
  /\ HlsInit /\ Resting("hls", sitting, MCListening)

(* A slot's name means nothing: the second one is taken while the first is. *)
InOrder ==
  /\ inv["r2"].pc = "free" /\ inv'["r2"].pc # "free" => inv["r1"].pc # "free"
  /\ \A k \in Cancels \ {"k1"} :
       cancel[k].pc = "free" /\ cancel'[k].pc # "free" => cancel["k1"].pc # "free"

(* Nor does a device's: where both may ask, p is the first to ask or leave. *)
PFirst ==
  budget \in MCScenes /\ budget["request"] = 2 =>
    /\ \A r \in Slots : inv'[r].owner # "q"
    /\ \A k \in Cancels : cancel'[k].owner # "q"

OfflinePart == part = "offline" /\ UNCHANGED <<part, hlsVars>>
HlsPart     == part = "hls" /\ UNCHANGED <<part, vars>>

MCNext == \/ OfflinePart /\ Next /\ InOrder /\ PFirst
          \/ HlsPart /\ HlsNext

MCSpec ==
  /\ MCInit /\ [][MCNext]_<<part, vars, hlsVars>>
  /\ WF_<<part, vars, hlsVars>>(\/ OfflinePart /\ (Requests \/ Cancelling \/ Working)
                                \/ HlsPart /\ Goes)
=============================================================================
