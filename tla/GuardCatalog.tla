---------------------------- MODULE GuardCatalog ----------------------------
(***************************************************************************)
(* The forced-command guards remote/p40-*.py and their clients, as data.   *)
(* A guard file loads another guard's file as a private module, assigns to *)
(* globals of that module and of the modules it has loaded in turn, and    *)
(* calls its main().  A record says what one file defines and where it     *)
(* assigns it; module GuardVerdicts says what follows for a run.           *)
(*                                                                         *)
(* An engine's path, a digest and a command line flag are short names:     *)
(* "t23" for .../colibri-t23-dn-pair/c/qwen36, "c014" for c014b491...,     *)
(* "dn_pair" for COLI_CUDA_DN_PAIR=1.                                      *)
(***************************************************************************)
EXTENDS Naturals

Cached(n) == IF n = 1 THEN {"dn"}
             ELSE IF n = 2 THEN {"dn", "lmhead"}
             ELSE IF n = 3 THEN {"dn", "lmhead", "attn"}
             ELSE {"dn", "lmhead", "attn", "shared"}

\* the lines "exact Q8 cache active: ..." an engine can print
CacheLines == {Cached(n) : n \in 1..4}

(* What a guard file may define; 0, "" and {} where it does not.           *)
(*   base, on         the module it loads; the modules it assigns to       *)
(*   engine, digest   the executable it runs and the SHA-256 pinned for it *)
(*   tokens, n_new    what it makes of qwen.OUTPUT_TOKENS, and of N_NEW    *)
(*                    in its model_argv()                                  *)
(*   stdout           the run whose output EXPECTED_STDOUT_SHA256 names    *)
(*   watchdog         WATCHDOG_SECONDS                                     *)
(*   flags            the flags of a command line written out in full      *)
(*   after, adds      a flag its model_argv() inserts, and after which one *)
(*   calls            the run() its own run() calls                        *)
(*   pins             when its run() reads the digest and the output:      *)
(*                    "eager" reads stderr after any base run, "lazy"      *)
(*                    after a run that passed, "binary" the digest only    *)
(*   quiet            its run() refuses CUDA runtime diagnostics           *)
(*   cache, remarks   the cache lines its run() accepts; where it assigns  *)
(*                    CACHE_MARKER                                         *)
(*   shows            other evidence its run() asks stderr for             *)
Variant(b) ==
    [base |-> b, on |-> {}, engine |-> "", digest |-> "", tokens |-> 0,
     n_new |-> 0, stdout |-> 0, watchdog |-> 0, flags |-> {}, after |-> "",
     adds |-> "", calls |-> "", pins |-> "no", quiet |-> FALSE, cache |-> {},
     remarks |-> {}, shows |-> {}]

-----------------------------------------------------------------------------
\* The three guards with a run() of their own

PrimitiveCanary ==
    [Variant("") EXCEPT !.engine = "p40_bench", !.watchdog = 18]

QwenCanary ==
    [Variant("") EXCEPT !.engine = "colibri-engine", !.tokens = 16,
     !.watchdog = 1800, !.flags = {"env", "omp24", "cuda_profile"}]

Control64 == [Variant("qwen") EXCEPT !.on = {"qwen"}, !.tokens = 64]

Control256 == [Variant("qwen") EXCEPT !.on = {"qwen"}, !.tokens = 256]

T05a ==
    [Variant("") EXCEPT !.engine = "dn_q8", !.digest = "7128",
     !.watchdog = 120, !.pins = "binary"]

-----------------------------------------------------------------------------
\* Benchmarks under T05A's run()

Benchmark(path, sha256) ==
    [Variant("t05a") EXCEPT !.on = {"t05a"},
     !.engine = path, !.digest = sha256]

Longer(guard, seconds) == [guard EXCEPT !.watchdog = seconds]

T05b == Benchmark("dn_triplet", "b60c")
T05c == Longer(Benchmark("dn_sweep", "5108"), 240)
T05d == Longer(Benchmark("dn_sweep", "3d80"), 240)
T05e == Benchmark("dn_out_cpuorder", "4dc8")
T05f == Benchmark("dn_out_cpuorder", "c2b2")
T05g == Longer(Benchmark("dn_out_full", "b1d9"), 240)
T08 == Longer(Benchmark("lmhead", "25d3"), 180)
T11 == Longer(Benchmark("attention", "b7d7"), 180)
T14 == Longer(Benchmark("shared", "3e6b"), 180)
T17 == Longer(Benchmark("w4a8_dp4a", "6787"), 180)

UnderT17(path, sha256) ==
    [Longer(Benchmark(path, sha256), 180) EXCEPT !.base = "t17"]

T18 == UnderT17("w4a8_no_unroll", "73de")
T19 == UnderT17("w4a8_tile16", "4222")
T20 == UnderT17("w4a8_mlp", "cabe")

-----------------------------------------------------------------------------
\* The exact Q8 cache: T06 on the Qwen canary, each next one on the last

T06 ==
    [Variant("qwen") EXCEPT !.on = {"qwen"}, !.engine = "t06",
     !.digest = "c515", !.tokens = 16, !.n_new = 16, !.stdout = 16,
     !.flags = {"env", "omp24", "cuda_profile", "dn"},
     !.calls = "qwen", !.pins = "eager", !.quiet = TRUE, !.cache = CacheLines]

T06b == [Variant("t06") EXCEPT !.on = {"t06", "qwen"}, !.digest = "bbee"]
T06c == [Variant("t06") EXCEPT !.on = {"t06", "qwen"}, !.digest = "8bef"]

\* the comparisons over 64 tokens: their own N_NEW and reference output
SixtyFour(guard) ==
    [guard EXCEPT !.tokens = 64, !.n_new = 64, !.stdout = 64]

T07 ==
    SixtyFour([Variant("t06") EXCEPT !.on = {"t06", "qwen"},
               !.digest = "8bef"])

T09 ==
    [Variant("t06") EXCEPT !.on = {"t06", "qwen"}, !.engine = "t09",
     !.digest = "8579", !.stdout = 16, !.after = "dn", !.adds = "lmhead",
     !.calls = "t06", !.cache = {Cached(2)}]

T10 == SixtyFour([Variant("t09") EXCEPT !.on = {"t09", "t06", "qwen"}])

\* faulty variant: T09's run() goes on asking for the cache line of T09
T12Unmarked ==
    [Variant("t09") EXCEPT !.on = {"t09", "t06", "qwen"}, !.engine = "t12",
     !.digest = "cded", !.tokens = 16, !.stdout = 16, !.after = "lmhead",
     !.adds = "attn", !.calls = "t09", !.cache = {Cached(3)}]

T12 ==
    [Variant("t09") EXCEPT !.on = {"t09", "t06", "qwen"}, !.engine = "t12",
     !.digest = "cded", !.tokens = 16, !.stdout = 16, !.after = "lmhead",
     !.adds = "attn", !.calls = "t09", !.cache = {Cached(3)},
     !.remarks = {"t09"}]

T13 ==
    SixtyFour([Variant("t12") EXCEPT !.on = {"t12", "t09", "t06", "qwen"}])

T15 ==
    [Variant("t12") EXCEPT !.on = {"t12", "t09", "t06", "qwen"},
     !.engine = "t15", !.digest = "30c9", !.tokens = 16, !.stdout = 16,
     !.after = "attn", !.adds = "shared", !.calls = "t06",
     !.cache = {Cached(4)}]

\* the modules of configure() in every guard that loads T15
Q8Modules == {"t15", "t12", "t09", "t06", "qwen"}

\* faulty variant: configure() leaves out the Qwen module
T16Partly == SixtyFour([Variant("t15") EXCEPT !.on = Q8Modules \ {"qwen"}])

T16 == SixtyFour([Variant("t15") EXCEPT !.on = Q8Modules])

T22 ==
    SixtyFour([Variant("t15") EXCEPT !.on = Q8Modules, !.engine = "t22",
               !.digest = "af70", !.calls = "t15", !.shows = {"group_stats"}])

T23 ==
    [Variant("t15") EXCEPT !.on = Q8Modules, !.engine = "t23",
     !.digest = "c014", !.tokens = 16, !.stdout = 16, !.after = "dn",
     !.adds = "dn_pair", !.calls = "t15", !.shows = {"dn_pair"}]

T24 ==
    SixtyFour([Variant("t23") EXCEPT !.on = Q8Modules \union {"t23"},
               !.engine = "t23", !.digest = "c014", !.calls = "t23"])

\* faulty variant: configure() leaves T06's engine and digest alone
T25Partly ==
    [Variant("t23") EXCEPT !.on = (Q8Modules \ {"t06"}) \union {"t23"},
     !.engine = "t25", !.digest = "a9da", !.tokens = 16, !.stdout = 16,
     !.after = "shared", !.adds = "shared_pair", !.calls = "t23",
     !.shows = {"shared_pair"}]

T25 ==
    [Variant("t23") EXCEPT !.on = Q8Modules \union {"t23"}, !.engine = "t25",
     !.digest = "a9da", !.tokens = 16, !.stdout = 16, !.after = "shared",
     !.adds = "shared_pair", !.calls = "t23", !.shows = {"shared_pair"}]

\* faulty variant: the 64-token run goes round the gate of the 16-token one
T26Skips ==
    SixtyFour([Variant("t25") EXCEPT !.on = Q8Modules \union {"t23", "t25"},
               !.engine = "t25", !.digest = "a9da", !.calls = "t23"])

T26 ==
    SixtyFour([Variant("t25") EXCEPT !.on = Q8Modules \union {"t23", "t25"},
               !.engine = "t25", !.digest = "a9da", !.calls = "t25"])

-----------------------------------------------------------------------------
\* Profiles and variations of the 64-token pair run T24

OfT24(path, sha256, anchor, flag) ==
    [Variant("t24") EXCEPT !.on = Q8Modules \union {"t23", "t24"},
     !.engine = path, !.digest = sha256, !.tokens = 64, !.stdout = 64,
     !.after = anchor, !.adds = flag, !.calls = "t24"]

Rewriting(guard) == [guard EXCEPT !.n_new = 64]

Showing(guard) == [guard EXCEPT !.shows = {guard.adds}]

T27 == Showing(OfT24("t27", "1c98", "attn", "attn_profile"))
T36 ==
    Rewriting(Showing(OfT24("t36", "009d", "dn_pair", "dn_pair_profile")))

T37 ==
    Rewriting(Showing(OfT24("t37", "110e", "dn_pair", "dn_fine_profile")))

\* OMP_NUM_THREADS=32 takes the place of 24
T38 == Rewriting(OfT24("t23", "c014", "omp24", "omp32"))
T39 == OfT24("t23", "c014", "env", "numactl")
T40 == Showing(OfT24("t40", "696f", "dn_pair", "dn_firsttouch"))
T41 == Showing(OfT24("t41", "13b7", "dn_pair", "dn_rec_fuse"))
T42 == Showing(OfT24("t42", "3a30", "cuda_profile", "qtier_profile"))
T43 == Showing(OfT24("t43", "2aae", "cuda_profile", "qtier_take_profile"))
T44 == Showing(OfT24("t44", "69d4", "cuda_profile", "qtier_reverse_issue"))
T45 == Showing(OfT24("t45", "ee46", "cuda_profile", "expert_timeline"))
T46 == Showing(OfT24("t46", "b930", "cuda_profile", "expert_timeline"))

-----------------------------------------------------------------------------
\* W4A8 shadows and the gate/up capture, directly on the Qwen canary

OfQwen(path, sha256, flag, reading) ==
    [Variant("qwen") EXCEPT !.on = {"qwen"}, !.engine = path,
     !.digest = sha256, !.stdout = 16, !.after = "cuda_profile",
     !.adds = flag, !.calls = "qwen", !.pins = reading, !.shows = {flag}]

T21 == OfQwen("t21", "b58d", "shadow", "eager")
T28 == OfQwen("t28", "45f6", "groupwise", "eager")
T29 == OfQwen("t29", "58e4", "outlier", "eager")
T30 == OfQwen("t30", "f109", "outlier32", "eager")
T31 == OfQwen("t31", "d6f6", "stages", "eager")
T32 == OfQwen("t32", "bcdf", "capture", "lazy")

T34 == OfQwen("t34", "2040", "proxy16", "lazy")

Catalog ==
    [canary |-> PrimitiveCanary, qwen |-> QwenCanary,
     control64 |-> Control64, control256 |-> Control256,
     t05a |-> T05a, t05b |-> T05b, t05c |-> T05c, t05d |-> T05d,
     t05e |-> T05e, t05f |-> T05f, t05g |-> T05g, t06 |-> T06, t06b |-> T06b,
     t06c |-> T06c, t07 |-> T07, t08 |-> T08, t09 |-> T09, t10 |-> T10,
     t11 |-> T11, t12 |-> T12, t13 |-> T13, t14 |-> T14, t15 |-> T15,
     t16 |-> T16, t17 |-> T17, t18 |-> T18, t19 |-> T19, t20 |-> T20,
     t21 |-> T21, t22 |-> T22, t23 |-> T23, t24 |-> T24, t25 |-> T25,
     t26 |-> T26, t27 |-> T27, t28 |-> T28, t29 |-> T29, t30 |-> T30,
     t31 |-> T31, t32 |-> T32, t34 |-> T34, t36 |-> T36, t37 |-> T37,
     t38 |-> T38, t39 |-> T39, t40 |-> T40, t41 |-> T41, t42 |-> T42,
     t43 |-> T43, t44 |-> T44, t45 |-> T45, t46 |-> T46]

Guards == DOMAIN Catalog
=============================================================================
