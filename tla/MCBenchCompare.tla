---------------------------- MODULE MCBenchCompare ----------------------------
(* Instances of BenchCompare: three result files with two possible        *)
(* timestamps (so two files can carry the same one), times 0..4.           *)
EXTENDS BenchCompare
=============================================================================
