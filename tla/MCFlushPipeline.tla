-------------------------- MODULE MCFlushPipeline --------------------------
(* One thread serves every request: what the threads do to each other's      *)
(* dependencies is the subject of the correlator's own run.                  *)
EXTENDS FlushPipeline

CONSTANTS p1, t1

MCAges == {0}

\* Filtering by positions is filtering by SelectSeq, for all sequences of up to five.
ASSUME PositionsFilterAsSelectSeq ==
    \A n \in 0..5 : \A s \in [1..n -> [id : 1..2, correlated : BOOLEAN]] :
        LET Test(e) == e.correlated
        IN  OfKinds(s, Correlated) = SelectSeq(s, Test)
=============================================================================
