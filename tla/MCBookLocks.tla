---------------------------- MODULE MCBookLocks ----------------------------
(* BookLocks for TLC: the nests that server.js and the routes build.       *)
EXTENDS BookLocks, TLC

CONSTANTS t1, t2, t3, t4

MCTasks == {t1, t2, t3, t4}
MCTimers == {t4}
MCPlans ==
  {<<Mutation(1)>>, <<State(1)>>, <<Mutation(1), State(1)>>, <<Rebuild(1), State(1)>>,
   <<Mutation(2)>>, LocksPlan({1, 2}), StateLocksPlan({1, 2})}
=============================================================================
