----------------------- MODULE MCGenerationScheduler -----------------------
(* GenerationScheduler for TLC: three callers, one background producer.    *)
EXTENDS GenerationScheduler

CONSTANTS i1, i2, i3, p1

MCItems == {i1, i2, i3}
MCProducers == {p1}
=============================================================================
