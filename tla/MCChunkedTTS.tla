---------------------------- MODULE MCChunkedTTS ----------------------------
(* ChunkedTTS for TLC: two chunks, of which one is rendered ahead.         *)
EXTENDS ChunkedTTS, TLC

(* Each scene lets a few requests and mishaps meet in every order.         *)
Scene(f) == f @@ [x \in Mishaps |-> 0]
MCScenes ==
  {Scene(("ask" :> 2) @@ ("release" :> 1)),
   Scene(("ask" :> 2) @@ ("leave" :> 1)),
   Scene(("ask" :> 2) @@ ("crash" :> 1)),
   Scene(("ask" :> 1) @@ ("listen" :> 1) @@ ("delete" :> 1)),
   Scene(("ask" :> 1) @@ ("fail" :> 1) @@ ("resume" :> 1) @@ ("release" :> 1)),
   Scene(("ask" :> 1) @@ ("fail" :> 1) @@ ("resume" :> 1) @@ ("delete" :> 1)),
   Scene(("ask" :> 1) @@ ("crash" :> 1) @@ ("release" :> 1)),
   Scene(("ask" :> 1) @@ ("invalidate" :> 1) @@ ("release" :> 1)),
   Scene(("ask" :> 1) @@ ("quiesce" :> 1))}

(* ChunkedTTS: while no owner has left, been released or damaged, and no    *)
(* manifest is complete, whoever waits and is planned for has a claim in   *)
(* the journal; and every state is well formed.                            *)
OwnersDurable == TypeOK /\ PlannedOwnersDurable
=============================================================================
