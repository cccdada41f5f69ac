------------------------ MODULE MCChromaticSampling ------------------------
(* Two runtimes and two sets of sample times.                              *)
EXTENDS ChromaticSampling

CONSTANTS t1, t2

MCTimes == {t1, t2}
=============================================================================
