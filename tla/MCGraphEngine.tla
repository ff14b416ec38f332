----------------------------- MODULE MCGraphEngine -----------------------------
(* Customers 1 and 2 meet at merchant 1, 2 and 3 at merchant 2; 3 was at    *)
(* merchant 1 too, but so early that its next payment ends that.           *)
EXTENDS GraphEngine, TLC

D(c, m, at, amount, zoned) ==
    [customer |-> c, merchant |-> m, at |-> at, amount |-> amount, zoned |-> zoned]

MCTxns == 1..5
MCDetails ==
    <<D(1, 1, 2, 5, TRUE), D(2, 1, 3, 7, TRUE), D(2, 2, 3, 11, TRUE), D(3, 2, 5, 13, TRUE),
      D(3, 1, 1, 17, TRUE)>>
Row(kind, t, flagged) == [kind |-> kind, txn |-> t, flagged |-> flagged]
MCRows ==
    <<Row("badTime", 4, TRUE), Row("good", 1, TRUE), Row("good", 2, FALSE), Row("good", 3, FALSE),
      Row("good", 5, FALSE), Row("badAccount", 4, TRUE)>>
J(kind, t, flagged) == [kind |-> kind, txn |-> t, flagged |-> flagged]
MCJobs ==
    {J("score", 2, TRUE), J("observe", 4, FALSE), J("community", 1, FALSE)}
MCLimits == {2, 4}

GraphSymmetry == Permutations(Workers) \cup Permutations(Stores)
=============================================================================
