--------------------------- MODULE MCTaskScheduler ---------------------------
(* Small instances of TaskScheduler for TLC.                               *)
EXTENDS TaskScheduler

Base == [parallel |-> 1, failure |-> "BlockDownstream", review |-> FALSE,
         max_retries |-> 1, retry_classes |-> {"AgentCrash"}, max_cost |-> 2]
MCOnePolicy == {Base}
MCTwoPolicies == {Base, [Base EXCEPT !.failure = "SkipDownstream",
                                    !.review = TRUE, !.max_retries = 0]}
Wide == [Base EXCEPT !.parallel = 2, !.failure = "SkipDownstream"]
MCWide == {Wide}
MCWideNarrow == {Wide, [Wide EXCEPT !.parallel = 1]}
Shapes(D, R) == [deps : D, review : R]
MCPlain == Shapes({{}, {1}}, {FALSE})
MCReviewed == Shapes({{}, {1}}, BOOLEAN)
MCChain == Shapes({{}, {1}, {2}, {1, 2}}, {FALSE})
MCExitCodes == {"zero", "signal"}
MCCosts == {1}
MCHighCosts == {2}
=============================================================================
