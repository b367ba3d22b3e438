---------------------------- MODULE MCBenchmark -----------------------------
(* Command lines for Benchmark: all small ones, no iterations, no concurrency  *)
(* and more tasks than iterations among them.                                  *)
EXTENDS Benchmark

SmallCases == (0..5) \X (0..4)
=============================================================================
