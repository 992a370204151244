---------------------------- MODULE MCJsonStore ----------------------------
(* JsonStore for TLC: a server and the recovery command on one file.       *)
EXTENDS JsonStore, TLC

CONSTANTS server, cli, t1, t2, t3, a, b, c

MCHome == t1 :> server @@ t2 :> server @@ t3 :> cli
MCUpdates == t1 :> "update" @@ t2 :> "update" @@ t3 :> "update"
MCMixed == t1 :> "update" @@ t2 :> "save" @@ t3 :> "restore"
MCTags == t1 :> a @@ t2 :> b @@ t3 :> c
MCRetry == t1 :> a @@ t2 :> a @@ t3 :> b
MCAll == [kill |-> 1, power |-> 1, fault |-> 1, damage |-> 1]
MCKill == [kill |-> 1, power |-> 0, fault |-> 0, damage |-> 0]
=============================================================================
