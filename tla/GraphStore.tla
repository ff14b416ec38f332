------------------------------ MODULE GraphStore ------------------------------
(***************************************************************************)
(* ml/graph/extract.py: the customer-merchant graph kept in memory and what *)
(* is computed from it.  A store is a record of the five dictionaries; a   *)
(* transaction is an id whose details never change, and only whether it    *)
(* was flagged varies between observations.  Customers and merchants are   *)
(* numbers because payloads are sorted and cut.  Scores are integers in    *)
(* units of 1/6000, so that ratios over up to six peers stay exact, and    *)
(* their rounding to four digits is left out.                              *)
(***************************************************************************)
EXTENDS Integers, FiniteSets, FiniteSetsExt

CONSTANTS
    Txns,       \* transaction ids
    Details,    \* Details[t]: customer, merchant, time and amount of t, and
                \*    whether the time carries a zone
    CloseBy,    \* CO_OCCURRENCE_WINDOW_SECONDS, in units of the times
    MaxNodes,   \* COMMUNITY_MAX_NODES
    Unset       \* window_days=None

ASSUME DetailsAssumption ==
    /\ IsFiniteSet(Txns)
    /\ Details \in [Txns -> [customer : Nat, merchant : Nat, at : Nat, amount : Nat, zoned : BOOLEAN]]
    /\ CloseBy \in Nat /\ MaxNodes \in Nat /\ Unset \notin Int

CustomerOf(t) == Details[t].customer
MerchantOf(t) == Details[t].merchant
At(t) == Details[t].at
Customers == {CustomerOf(t) : t \in Txns}
Merchants == {MerchantOf(t) : t \in Txns}

(* events counts appended entries, since a raced observation appends twice. *)
Store ==
    [txns : SUBSET Txns, byCustomer : SUBSET (Customers \X Merchants),
     byMerchant : SUBSET (Merchants \X Customers), events : [Txns -> Nat], flags : [Customers -> Nat]]

EmptyStore ==
    [txns |-> {}, byCustomer |-> {}, byMerchant |-> {},
     events |-> [t \in Txns |-> 0], flags |-> [c \in Customers |-> 0]]

-----------------------------------------------------------------------------
(* The stores of observe, one dictionary at a time.                        *)
AddTxn(s, t) == [s EXCEPT !.txns = @ \cup {t}]
AddMerchant(s, t) == [s EXCEPT !.byCustomer = @ \cup {<<CustomerOf(t), MerchantOf(t)>>}]
AddCustomer(s, t) == [s EXCEPT !.byMerchant = @ \cup {<<MerchantOf(t), CustomerOf(t)>>}]
AddEvent(s, t) == [s EXCEPT !.events[t] = @ + 1]
SetFlags(s, t, n) == [s EXCEPT !.flags[CustomerOf(t)] = n]

IsFlagged(s, c) == s.flags[c] >= 1

(* _cutoff raises on times with and without a zone, which do not compare,  *)
(* and on an empty store, whose latest time has nothing before it.         *)
Readable(s, window) ==
    /\ \A t, u \in s.txns : Details[t].zoned = Details[u].zoned
    /\ window # Unset => s.txns # {}

-----------------------------------------------------------------------------
(* The window counts back from the last payment of anybody.                *)
Cutoff(s, window) == IF window = Unset THEN 0 ELSE Max({At(u) : u \in s.txns}) - window

Recent(s, window) == LET cutoff == Cutoff(s, window) IN {t \in s.txns : At(t) >= cutoff}

ScopedMerchants(s, c, window) ==
    IF window = Unset THEN {p[2] : p \in {q \in s.byCustomer : q[1] = c}}
    ELSE {MerchantOf(t) : t \in {u \in Recent(s, window) : CustomerOf(u) = c}}

ScopedCustomers(s, m, window) ==
    IF window = Unset THEN {p[2] : p \in {q \in s.byMerchant : q[1] = m}}
    ELSE {CustomerOf(t) : t \in {u \in Recent(s, window) : MerchantOf(u) = m}}

Total(f, S) == MapThenSumSet(LAMBDA x : f[x], S)

Volume(ts) == Total([t \in Txns |-> Details[t].amount], ts)

EdgeVolume(s, c, m, window) ==
    Volume({t \in Recent(s, window) : CustomerOf(t) = c /\ MerchantOf(t) = m})

Crowd(s, c, m, window) == ScopedCustomers(s, m, window) \ {c}

Peers(s, c, window) == UNION {Crowd(s, c, m, window) : m \in ScopedMerchants(s, c, window)}

FanIn(s, c, window) ==
    LET ms == ScopedMerchants(s, c, window)
        heads == {p \in ms \X Customers : p[2] \in Crowd(s, c, p[1], window)}
    IN  Min({Cardinality(heads), 1000 * Max({1, Cardinality(ms)})})

(* _co_occurrence: entries of others with an entry of c close by; entries  *)
(* are looked up in events, their age is measured by the window's cutoff.  *)
CoOccurrence(s, c, window) ==
    LET appended == UNION {{t} \X (1..s.events[t]) : t \in Txns}
        entries == {e \in appended : At(e[1]) >= Cutoff(s, window)
                                   /\ MerchantOf(e[1]) \in ScopedMerchants(s, c, window)}
        near == {e \in entries : CustomerOf(e[1]) # c /\ \E f \in entries :
                    /\ CustomerOf(f[1]) = c /\ MerchantOf(f[1]) = MerchantOf(e[1])
                    /\ At(f[1]) - At(e[1]) \in -CloseBy..CloseBy}
    IN  Cardinality(near)

(* Variant: the walk stops at the customer's own merchants. *)
OneHop(s, c, window) == {c} \cup Peers(s, c, window)

(* _community_members: the frontier is walked level by level, until it is  *)
(* empty or more than MaxNodes customers were seen.                        *)
Onward(s, window, w) ==
    LET seen == w.seen \cup w.frontier
    IN  IF Cardinality(w.seen) > MaxNodes THEN w
        ELSE [seen |-> seen, frontier |-> (UNION {Peers(s, d, window) : d \in w.frontier}) \ seen]

Walk(s, c, window) ==
    LET walk[k \in 0..Cardinality(Customers)] ==
            IF k = 0 THEN [seen |-> {}, frontier |-> {c}] ELSE Onward(s, window, walk[k - 1])
    IN  walk

CommunityMembers(s, c, window) == Walk(s, c, window)[Cardinality(Customers)].seen

Flagged(s, cs) == {c \in cs : IsFlagged(s, c)}

(* NodeFeatures; the two ratios are the pairs they are computed from.      *)
Features(s, c, window) ==
    LET peers == Peers(s, c, window)
        members == CommunityMembers(s, c, window)
    IN  IF ScopedMerchants(s, c, window) = {}
        THEN [degree |-> 0, fanIn |-> 0, shared |-> 0, near |-> 0,
              flagged |-> 0, cluster |-> 1, clusterFlagged |-> 0]
        ELSE [degree |-> Cardinality(ScopedMerchants(s, c, window)),
              fanIn |-> FanIn(s, c, window),
              shared |-> Cardinality(peers),
              near |-> CoOccurrence(s, c, window),
              flagged |-> Cardinality(Flagged(s, peers)),
              cluster |-> Cardinality(members),
              clusterFlagged |-> Cardinality(Flagged(s, members))]

AtMost(n, bound) == Min({n, bound})

(* Weights .45, .25, .15 and .15 on terms that saturate at 1, 5, 3 and 10. *)
ScoreOf(f) ==
    IF f.shared = 0 THEN 0
    ELSE 45 * ((60 * f.flagged) \div f.shared) + 25 * 12 * AtMost(f.shared, 5)
         + 15 * 20 * AtMost(f.near, 3) + 15 * 6 * AtMost(f.fanIn, 10)

FullScore == 6000

(* The indicators that findings has a sentence for.                        *)
Findings(f) == {i \in {"flagged", "shared", "near", "clusterFlagged"} : f[i] > 0}

Smallest(n, S) == {x \in S : Cardinality({y \in S : y < x}) < n}

(* Peers rendered beside n merchants and the customer.                     *)
Room(n, limit) == limit - n - 1

(* The dashboard's payload: the customer, all its merchants, and as many   *)
(* peers as fit, each linked to the first merchant it shares.              *)
EgoGraph(s, c, window, limit) ==
    LET ms == ScopedMerchants(s, c, window)
        shown == Smallest(Room(Cardinality(ms), limit), Peers(s, c, window) \ {c})
        both(p) == ms \cap ScopedMerchants(s, p, window)
    IN  [customers |-> {c} \cup shown, merchants |-> ms, flagged |-> Flagged(s, shown),
         review |-> {m \in ms : Flagged(s, Crowd(s, c, m, window)) # {}},
         links |-> ({c} \X ms) \cup {<<p, Min(both(p))>> : p \in {q \in shown : both(q) # {}}}]

(* The whole ring, its rendered part cut to the smallest account numbers.  *)
CommunityGraph(s, c, window, limit) ==
    LET shown == Smallest(limit, CommunityMembers(s, c, window))
        links == UNION {{d} \X ScopedMerchants(s, d, window) : d \in shown}
        ms == {l[2] : l \in links}
    IN  [customers |-> shown, flagged |-> Flagged(s, shown) \ {c}, merchants |-> ms,
         review |-> {m \in ms : \E d \in shown : <<d, m>> \in links /\ IsFlagged(s, d)},
         links |-> links]

(* _community_pattern, on the number of members, of flagged ones and of    *)
(* merchants.                                                              *)
Pattern(size, flagged, merchants) ==
    CASE size <= 1                                -> "isolated"
      [] size >= 3 /\ 2 * flagged >= size         -> "fraud_ring"
      [] flagged > 0 /\ 2 * flagged < size        -> "mixed_cluster"
      [] size >= 3 /\ flagged = 0 /\ merchants = 1 -> "shared_merchant_collapse"
      [] OTHER                                    -> "normal_cluster"

Community(s, c, window) ==
    LET members == CommunityMembers(s, c, window)
        ms == UNION {ScopedMerchants(s, d, window) : d \in members}
        edges == UNION {{d} \X ScopedMerchants(s, d, window) : d \in members}
    IN  [members |-> members, flagged |-> Flagged(s, members), merchants |-> ms,
         volume |-> Total([e \in edges |-> EdgeVolume(s, e[1], e[2], window)], edges),
         pattern |-> Pattern(Cardinality(members), Cardinality(Flagged(s, members)), Cardinality(ms))]
=============================================================================
