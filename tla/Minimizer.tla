----------------------------- MODULE Minimizer ------------------------------
(***************************************************************************)
(* Delta debugging of a failing input (internal/minimizer).  DDMin takes   *)
(* contiguous parts out of the input as long as what is left reproduces    *)
(* the finding.  The predicate is external and may be flaky: each          *)
(* evaluation matches, does not match or fails, and a candidate is decided *)
(* by k of n evaluations, all within one evaluation budget.                *)
(***************************************************************************)
EXTENDS Integers, FiniteSets, FiniteSetsExt, Functions, Sequences

CONSTANTS MinimizerInputs,   \* inputs: sequences of distinct items
          MinimizerOptions   \* options as callers give them, 0 for the default

ASSUME MinimizerConstants ==
    /\ \A input \in MinimizerInputs : input \in Seq(Range(input))
    /\ \A o \in MinimizerOptions : o.attempts \in Int /\ o.required \in Int /\ o.limit \in Int

VARIABLES options,
          ddmin,      \* DDMin: where it is and its variables
          confirmed,  \* the candidates that reproduced, each when last decided
          refuted     \* the candidates that did not

minimizerVars == <<options, ddmin, confirmed, refuted>>

DefaultMaxEvaluations == 1000

\* normalizeOptions: none for options that it refuses.
normalizeOptions(o) ==
    LET attempts == IF o.attempts = 0 THEN 1 ELSE o.attempts
        required == IF o.required = 0 THEN attempts ELSE o.required
        limit    == IF o.limit = 0 THEN DefaultMaxEvaluations ELSE o.limit
    IN  {n \in {[attempts |-> attempts, required |-> required, limit |-> limit]} :
            attempts >= 1 /\ required \in 1..attempts /\ limit >= 1}

\* DDMin up to the check of the input itself.
MinimizerInit ==
    /\ options \in UNION {normalizeOptions(o) : o \in MinimizerOptions}
    /\ \E input \in MinimizerInputs :
          ddmin = [pc |-> "check input", input |-> input, current |-> input, candidate |-> input,
                   granularity |-> 2, start |-> 0, flaky |-> FALSE, count |-> 0,
                   tried |-> 0, passes |-> 0, failures |-> 0, status |-> "none"]
    /\ confirmed = {} /\ refuted = {}

ReturnResult(d, status) == [d EXCEPT !.pc = "returned", !.status = status]

ChunkSize(d) == (Len(d.current) + d.granularity - 1) \div d.granularity

\* The next check of a candidate, at ddmin's start.
CheckAt(d, start) ==
    LET end == Min({start + ChunkSize(d), Len(d.current)})
    IN  [d EXCEPT !.pc = "check", !.start = start, !.tried = 0, !.passes = 0, !.failures = 0,
                  !.candidate = SubSeq(d.current, 1, start)
                                \o SubSeq(d.current, end + 1, Len(d.current))]

\* After the loop.
Finished(d) == ReturnResult(d, IF d.flaky THEN "flaky_detected"
                               ELSE IF Len(d.current) = Len(d.input) THEN "unchanged"
                               ELSE "minimized")

\* A round begins, if two items are left.
Round(d) == IF Len(d.current) >= 2 THEN [d EXCEPT !.pc = "round"] ELSE Finished(d)

\* Faulty variant: the last doubling of the granularity ends the search.
NextStopsEarly(d) ==
    IF d.start + ChunkSize(d) < Len(d.current) THEN CheckAt(d, d.start + ChunkSize(d))
    ELSE IF 2 * d.granularity >= Len(d.current) THEN Finished(d)
    ELSE [d EXCEPT !.pc = "round", !.granularity = Min({Len(d.current), 2 * @})]

\* The chunk stays: the next chunk, or a finer round, or the end.  A candidate is
\* never empty here, since two items make at least two chunks.
NextChunk(d) ==
    IF d.start + ChunkSize(d) < Len(d.current) THEN CheckAt(d, d.start + ChunkSize(d))
    ELSE IF d.granularity >= Len(d.current) THEN Finished(d)
    ELSE [d EXCEPT !.pc = "round", !.granularity = Min({Len(d.current), 2 * @})]

\* What DDMin does with the verdict on its candidate.
Decided(d, verdict) ==
    IF d.pc = "check input"
    THEN CASE verdict = "inconclusive" -> ReturnResult(d, "insufficient_samples")
           [] verdict = "refuted"      -> ReturnResult(d, "error")
           [] verdict = "reproduced"   -> Round(d)
    ELSE CASE verdict = "inconclusive" -> NextChunk([d EXCEPT !.flaky = TRUE])
           [] verdict = "refuted"      -> NextChunk(d)
           [] verdict = "reproduced"   ->
                Round([d EXCEPT !.current = d.candidate,
                                !.granularity = Max({2, d.granularity - 1})])

\* One turn of check's loop.
CheckVerdict(d) == IF d.passes >= options.required THEN "reproduced"
               ELSE IF d.failures > options.attempts - options.required THEN "refuted"
               ELSE IF d.tried = options.attempts THEN "inconclusive"
               ELSE "open"

\* check: an exhausted budget ends the search.
Exhausted == /\ ddmin.pc \in {"check", "check input"}
             /\ ddmin.count >= options.limit
             /\ ddmin' = ReturnResult(ddmin, IF ddmin.pc = "check" THEN "budget_exhausted"
                                             ELSE "error")
             /\ UNCHANGED <<options, confirmed, refuted>>

Evaluate(outcome) ==
    LET d == [ddmin EXCEPT !.count = @ + 1, !.tried = @ + 1,
                           !.passes = @ + IF outcome = "match" THEN 1 ELSE 0,
                           !.failures = @ + IF outcome = "no match" THEN 1 ELSE 0]
        verdict == CheckVerdict(d)
        decided == {d.candidate}
    IN  /\ ddmin.pc \in {"check", "check input"}
        /\ ddmin.count < options.limit
        /\ ddmin' = IF verdict = "open" THEN d ELSE Decided(d, verdict)
        /\ confirmed' = IF verdict = "reproduced" THEN confirmed \union decided ELSE confirmed
        /\ refuted' = CASE verdict = "refuted"    -> refuted \union decided
                        [] verdict = "reproduced" -> refuted \ decided
                        [] OTHER                  -> refuted
        /\ UNCHANGED options

\* The head of a round; the context may have been cancelled by then.
BeginRound == /\ ddmin.pc = "round"
              /\ ddmin' \in {CheckAt(ddmin, 0), ReturnResult(ddmin, "error")}
              /\ UNCHANGED <<options, confirmed, refuted>>

MinimizerNext == Exhausted \/ BeginRound
                 \/ \E outcome \in {"match", "no match", "failed"} : Evaluate(outcome)

MinimizerSpec == MinimizerInit /\ [][MinimizerNext]_minimizerVars

-----------------------------------------------------------------------------
\* A list without its i-th item.
Without(s, i) == SubSeq(s, 1, i - 1) \o SubSeq(s, i + 1, Len(s))

\* However flaky the predicate, what DDMin returns reproduced when it was decided,
\* within the budget; and a result it calls minimized or unchanged is 1-minimal:
\* every candidate with one more item taken out was decided, and did not.
ResultIsMinimal ==
    ddmin.pc = "returned" =>
        /\ ddmin.count <= options.limit
        /\ ddmin.status \notin {"error", "insufficient_samples"} => ddmin.current \in confirmed
        /\ ddmin.status \in {"minimized", "unchanged"} /\ Len(ddmin.current) >= 2 =>
              \A i \in DOMAIN ddmin.current : Without(ddmin.current, i) \in refuted
        /\ ddmin.status = "minimized" => Len(ddmin.current) < Len(ddmin.input)
=============================================================================
