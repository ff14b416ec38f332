------------------------- MODULE TokenVault_proofs -------------------------
(***************************************************************************)
(* Safety of the token vault for any number of tokens, records and threads *)
(* and any limits: increments of a use count can be lost but not invented, *)
(* a record that was used up ends EXHAUSTED, and one consumed by a single  *)
(* worker is not consumed beyond its limit.                                *)
(*                                                                         *)
(* uses[r] <= granted[r] is not inductive, since a store adds one to a     *)
(* count read earlier.  The invariant therefore reserves, in granted[r],   *)
(* one consumption for every worker that was admitted and has not read the *)
(* count yet, and one more for the worker about to store.                  *)
(***************************************************************************)
EXTENDS TokenVault, FiniteSetTheorems, TLAPS

Admitted(r) == {w \in Threads : phase[w] = "admitted" /\ held[w] = r}
Pending(r) == Cardinality(Admitted(r))

\* Threads and the repository hold allocated records, and a record that is
\* not allocated is untouched.
References ==
    /\ \A t \in Tokens : vault[t] \in allocated \cup {NoRecord}
    /\ \A w \in Threads :
          phase[w] # "idle" => held[w] \in allocated /\ token[w] \in Tokens
    /\ \A r \in Records \ allocated : uses[r] = 0 /\ status[r] = "ACTIVE"

\* Every count, stored or about to be stored, leaves room for the admitted.
Reserved ==
    \A r \in Records :
        /\ uses[r] + Pending(r) <= granted[r]
        /\ \A w \in Threads :
              phase[w] = "usesRead" /\ held[w] = r
                  => local[w] + 1 + Pending(r) <= granted[r]

\* Records are closed, and about to be closed, after enough consumptions.
Earned ==
    \A r \in Records :
        (status[r] = "EXHAUSTED" \/ \E w \in Threads : phase[w] = "exhausting" /\ held[w] = r)
            => Limited(r) /\ granted[r] >= limit[r]

Sole(r) == \A v, w \in consumers[r] : v = w
Between(w, r) == phase[w] \in Counting /\ held[w] = r

\* No count of a record with a single consumer is lost: the stored count is the
\* number of consumptions granted, less the one its consumer is still counting.
Counted(r) ==
    /\ \A w \in consumers[r] :
          /\ Between(w, r) => uses[r] + 1 = granted[r]
          /\ phase[w] = "usesRead" /\ held[w] = r => local[w] = uses[r]
    /\ (\A w \in consumers[r] : ~ Between(w, r)) => uses[r] = granted[r]
    /\ Limited(r) => granted[r] <= limit[r]

SoleCounted ==
    /\ \A w \in Threads : phase[w] \in Counting => w \in consumers[held[w]]
    /\ \A r \in Records : Sole(r) => Counted(r)
    /\ \A r \in Records \ allocated : granted[r] = 0

IInv == VaultTypeOK /\ References /\ Reserved /\ Earned /\ UsedUpCloses /\ SoleCounted

-----------------------------------------------------------------------------
\* The admitted workers are finitely many, so Pending counts them.
LEMMA PendingNat ==
    ASSUME NEW r
    PROVE  IsFiniteSet(Admitted(r)) /\ Pending(r) \in Nat
<1>1. Admitted(r) \in SUBSET Threads
  BY DEF Admitted
<1>2. IsFiniteSet(Admitted(r))
  BY <1>1, ThreadsAssumption, FS_Subset
<1> QED  BY <1>2, FS_CardinalityType DEF Pending

\* The same of the next state.
LEMMA PendingNatNext ==
    ASSUME NEW r
    PROVE  IsFiniteSet(Admitted(r)') /\ Pending(r)' \in Nat
<1>1. Admitted(r)' \in SUBSET Threads
  BY DEF Admitted
<1>2. IsFiniteSet(Admitted(r)')
  BY <1>1, ThreadsAssumption, FS_Subset
<1> QED  BY <1>2, FS_CardinalityType DEF Pending

LEMMA InitIInv == VaultInit => IInv
<1> SUFFICES ASSUME VaultInit PROVE IInv
  OBVIOUS
<1>1. VaultTypeOK
  BY BoundsAssumption DEF VaultInit, VaultTypeOK, VaultStep, Counting, Closing, NoLimit
<1>2. References
  BY DEF VaultInit, References
<1>3. Reserved
  <2>1. \A r : Admitted(r) = {}
    BY DEF VaultInit, Admitted
  <2>2. \A r : Pending(r) = 0
    BY <2>1, FS_EmptySet DEF Pending
  <2> QED  BY <2>2 DEF VaultInit, Reserved
<1>4. Earned
  BY DEF VaultInit, Earned
<1>5. UsedUpCloses
  BY DEF VaultInit, UsedUpCloses, UsedUp, Limited, NoLimit
<1>6. SoleCounted
  BY DEF VaultInit, SoleCounted, Counted, Counting, Limited, NoLimit
<1> QED  BY <1>1, <1>2, <1>3, <1>4, <1>5, <1>6 DEF IInv

-----------------------------------------------------------------------------
LEMMA TypeStep == VaultTypeOK /\ References /\ [VaultNext]_vaultVars => VaultTypeOK'
<1> SUFFICES ASSUME VaultTypeOK, References, [VaultNext]_vaultVars PROVE VaultTypeOK'
  OBVIOUS
<1> USE DEF VaultTypeOK, VaultStep, Counting, Closing
<1>1. ASSUME NEW t \in Tokens, NEW r \in Records, NEW max \in Limits,
             NEW expires \in 0..MaxClock, Create(t, r, max, expires)
      PROVE  VaultTypeOK'
  <2>1. max \in Nat /\ expires \in Nat
    BY LimitsAssumption, BoundsAssumption
  <2> QED  BY <1>1, <2>1 DEF Create, grantHistory
<1>2. ASSUME NEW w \in Threads, NEW t \in Tokens, FetchToken(w, t) PROVE VaultTypeOK'
  BY <1>2 DEF FetchToken, record, grantHistory
<1>3. ASSUME NEW w \in Threads, Consume(w) PROVE VaultTypeOK'
  <2>1. CASE AdmitUse(w)
    BY <2>1 DEF AdmitUse, References, record, grantHistory
  <2>2. CASE RefuseUse(w)
    BY <2>2 DEF RefuseUse, Answered, record, grantHistory
  <2>3. CASE ReadUses(w)
    BY <2>3 DEF ReadUses, References, record, grantHistory
  <2>4. CASE StoreUses(w)
    BY <2>4, local[w] + 1 \in Nat DEF StoreUses, grantHistory
  <2>5. CASE TestLimit(w)
    BY <2>5 DEF TestLimit, record, grantHistory
  <2>6. CASE Exhaust(w)
    BY <2>6 DEF Exhaust, record, grantHistory
  <2>7. CASE Save(w)
    BY <2>7 DEF Save, Answered, record, grantHistory
  <2>8. CASE CheckStatus(w)
    BY <2>8 DEF CheckStatus, record, grantHistory
  <2> QED  BY <1>3, <2>1, <2>2, <2>3, <2>4, <2>5, <2>6, <2>7, <2>8 DEF Consume
<1>4. CASE VaultTick
  BY <1>4, BoundsAssumption DEF VaultTick, record, grantHistory
<1>5. CASE UNCHANGED vaultVars
  BY <1>5 DEF vaultVars, record, grantHistory
<1> QED  BY <1>1, <1>2, <1>3, <1>4, <1>5 DEF VaultNext

LEMMA ReferencesStep == VaultTypeOK /\ References /\ [VaultNext]_vaultVars => References'
<1> SUFFICES ASSUME VaultTypeOK, References, [VaultNext]_vaultVars PROVE References'
  OBVIOUS
<1> USE DEF VaultTypeOK, References
<1>1. ASSUME NEW t \in Tokens, NEW r \in Records, NEW max \in Limits,
             NEW expires \in 0..MaxClock, Create(t, r, max, expires)
      PROVE  References'
  BY <1>1 DEF Create, grantHistory
<1>2. ASSUME NEW w \in Threads, NEW t \in Tokens, FetchToken(w, t) PROVE References'
  BY <1>2 DEF FetchToken, record, grantHistory
<1>3. ASSUME NEW w \in Threads, Consume(w) PROVE References'
  <2>1. CASE AdmitUse(w)
    BY <2>1 DEF AdmitUse, record, grantHistory
  <2>2. CASE RefuseUse(w)
    BY <2>2 DEF RefuseUse, Answered, record, grantHistory
  <2>3. CASE ReadUses(w)
    BY <2>3 DEF ReadUses, record, grantHistory
  <2>4. CASE StoreUses(w)
    BY <2>4 DEF StoreUses, grantHistory
  <2>5. CASE TestLimit(w)
    BY <2>5 DEF TestLimit, record, grantHistory
  <2>6. CASE Exhaust(w)
    BY <2>6 DEF Exhaust, grantHistory
  <2>7. CASE Save(w)
    BY <2>7 DEF Save, Answered, record, grantHistory
  <2>8. CASE CheckStatus(w)
    BY <2>8 DEF CheckStatus, record, grantHistory
  <2> QED  BY <1>3, <2>1, <2>2, <2>3, <2>4, <2>5, <2>6, <2>7, <2>8 DEF Consume
<1>4. CASE VaultTick
  BY <1>4 DEF VaultTick, record, grantHistory
<1>5. CASE UNCHANGED vaultVars
  BY <1>5 DEF vaultVars, record, grantHistory
<1> QED  BY <1>1, <1>2, <1>3, <1>4, <1>5 DEF VaultNext

-----------------------------------------------------------------------------
(* Only AdmitUse adds to the admitted workers, and only ReadUses removes one.   *)

LEMMA AdmitCounts ==
    ASSUME VaultTypeOK, NEW w \in Threads, AdmitUse(w), NEW r \in Records
    PROVE  Pending(r)' = IF r = held[w] THEN Pending(r) + 1 ELSE Pending(r)
<1> USE DEF VaultTypeOK
<1>1. IsFiniteSet(Admitted(r)) /\ Pending(r) \in Nat
  BY PendingNat
<1>2. CASE r = held[w]
  <2>1. Admitted(r)' = Admitted(r) \cup {w}
    BY <1>2 DEF AdmitUse, Admitted
  <2>2. w \notin Admitted(r)
    BY DEF AdmitUse, Admitted
  <2>3. Cardinality(Admitted(r) \cup {w}) = Cardinality(Admitted(r)) + 1
    BY <1>1, <2>2, FS_AddElement
  <2> HIDE DEF VaultTypeOK
  <2> QED  BY <1>2, <2>1, <2>3 DEF Pending
<1>3. CASE r # held[w]
  <2>1. Admitted(r)' = Admitted(r)
    BY <1>3 DEF AdmitUse, Admitted
  <2> QED  BY <1>3, <2>1 DEF Pending
<1> QED  BY <1>2, <1>3

LEMMA ReadUsesCounts ==
    ASSUME VaultTypeOK, NEW w \in Threads, ReadUses(w), NEW r \in Records
    PROVE  Pending(r) = IF r = held[w] THEN Pending(r)' + 1 ELSE Pending(r)'
<1> USE DEF VaultTypeOK
<1>1. IsFiniteSet(Admitted(r)) /\ Pending(r) \in Nat
  BY PendingNat
<1>2. CASE r = held[w]
  <2>1. Admitted(r)' = Admitted(r) \ {w}
    BY <1>2 DEF ReadUses, Admitted
  <2>2. w \in Admitted(r)
    BY <1>2 DEF ReadUses, Admitted
  <2>3. Cardinality(Admitted(r) \ {w}) = Cardinality(Admitted(r)) - 1
    BY <1>1, <2>2, FS_RemoveElement
  <2> HIDE DEF VaultTypeOK
  <2> QED  BY <1>1, <1>2, <2>1, <2>3 DEF Pending
<1>3. CASE r # held[w]
  <2>1. Admitted(r)' = Admitted(r)
    BY <1>3 DEF ReadUses, Admitted
  <2> QED  BY <1>3, <2>1 DEF Pending
<1> QED  BY <1>2, <1>3

\* The other steps keep the counts, the grants and, of what they leave to be
\* stored, everything but what the worker itself gives up.
LEMMA OtherStepCounts ==
    ASSUME VaultTypeOK, NEW w \in Threads, NEW r \in Records,
           phase' = [phase EXCEPT ![w] = phase'[w]],
           held' = [held EXCEPT ![w] = held'[w]],
           phase[w] # "admitted", phase'[w] # "admitted"
    PROVE  Pending(r)' = Pending(r)
<1>1. Admitted(r)' = Admitted(r)
  BY DEF VaultTypeOK, Admitted
<1> QED  BY <1>1 DEF Pending

LEMMA ReservedStep == VaultTypeOK /\ References /\ Reserved /\ [VaultNext]_vaultVars => Reserved'
<1> SUFFICES ASSUME VaultTypeOK, References, Reserved, [VaultNext]_vaultVars,
                    NEW r \in Records
             PROVE  /\ uses'[r] + Pending(r)' <= granted'[r]
                    /\ \A v \in Threads :
                          phase'[v] = "usesRead" /\ held'[v] = r
                              => local'[v] + 1 + Pending(r)' <= granted'[r]
  BY DEF Reserved
<1> DEFINE Kept == /\ uses'[r] + Pending(r)' <= granted'[r]
                   /\ \A v \in Threads :
                          phase'[v] = "usesRead" /\ held'[v] = r
                              => local'[v] + 1 + Pending(r)' <= granted'[r]
<1> USE DEF VaultTypeOK
<1>a. Pending(r) \in Nat /\ Pending(r)' \in Nat
  BY PendingNat, PendingNatNext
<1>b. uses[r] \in Nat /\ granted[r] \in Nat /\ uses[r] + Pending(r) <= granted[r]
  BY DEF Reserved
<1>c. ASSUME NEW v \in Threads
      PROVE  /\ local[v] \in Nat
             /\ phase[v] = "usesRead" /\ held[v] = r
                   => local[v] + 1 + Pending(r) <= granted[r]
  BY DEF Reserved
<1>1. ASSUME NEW t \in Tokens, NEW s \in Records, NEW max \in Limits,
             NEW expires \in 0..MaxClock, Create(t, s, max, expires)
      PROVE  Kept
  <2>1. Pending(r)' = Pending(r)
    BY <1>1 DEF Create, grantHistory, Pending, Admitted
  <2> QED  BY <1>1, <1>b, <1>c, <2>1 DEF Create, grantHistory
<1>2. ASSUME NEW w \in Threads, NEW t \in Tokens, FetchToken(w, t) PROVE Kept
  <2>1. Pending(r)' = Pending(r)
    BY <1>2, OtherStepCounts DEF FetchToken
  <2> QED  BY <1>2, <1>b, <1>c, <2>1 DEF FetchToken, record, grantHistory
<1>3. ASSUME NEW w \in Threads, Consume(w) PROVE Kept
  <2>1. CASE AdmitUse(w)
    <3>1. Pending(r)' = IF r = held[w] THEN Pending(r) + 1 ELSE Pending(r)
      BY <2>1, AdmitCounts
    <3>2. granted'[r] = IF r = held[w] THEN granted[r] + 1 ELSE granted[r]
      BY <2>1 DEF AdmitUse
    <3> QED  BY <2>1, <1>a, <1>b, <1>c, <3>1, <3>2 DEF AdmitUse, record, grantHistory
  <2>2. CASE RefuseUse(w)
    <3>1. Pending(r)' = Pending(r)
      BY <2>2, OtherStepCounts DEF RefuseUse, Answered
    <3> QED  BY <2>2, <1>b, <1>c, <3>1 DEF RefuseUse, Answered, record, grantHistory
  <2>3. CASE ReadUses(w)
    <3>1. Pending(r) = IF r = held[w] THEN Pending(r)' + 1 ELSE Pending(r)'
      BY <2>3, ReadUsesCounts
    <3>2. held[w] = r => local'[w] = uses[r]
      BY <2>3 DEF ReadUses
    <3> QED  BY <2>3, <1>a, <1>b, <1>c, <3>1, <3>2 DEF ReadUses, record, grantHistory
  <2>4. CASE StoreUses(w)
    <3>1. Pending(r)' = Pending(r)
      BY <2>4, OtherStepCounts DEF StoreUses, grantHistory
    <3>2. uses'[r] = IF held[w] = r THEN local[w] + 1 ELSE uses[r]
      BY <2>4 DEF StoreUses, grantHistory
    <3> QED  BY <2>4, <1>b, <1>c, <3>1, <3>2 DEF StoreUses, grantHistory
  <2>5. CASE TestLimit(w)
    <3>1. Pending(r)' = Pending(r)
      BY <2>5, OtherStepCounts DEF TestLimit
    <3> QED  BY <2>5, <1>b, <1>c, <3>1 DEF TestLimit, record, grantHistory
  <2>6. CASE Exhaust(w)
    <3>1. Pending(r)' = Pending(r)
      BY <2>6, OtherStepCounts DEF Exhaust, grantHistory
    <3> QED  BY <2>6, <1>b, <1>c, <3>1 DEF Exhaust, grantHistory
  <2>7. CASE Save(w)
    <3>1. Pending(r)' = Pending(r)
      BY <2>7, OtherStepCounts DEF Save, Answered
    <3> QED  BY <2>7, <1>b, <1>c, <3>1 DEF Save, Answered, record, grantHistory
  <2>8. CASE CheckStatus(w)
    <3>1. Pending(r)' = Pending(r)
      BY <2>8, OtherStepCounts DEF CheckStatus
    <3> QED  BY <2>8, <1>b, <1>c, <3>1 DEF CheckStatus, record, grantHistory
  <2> QED  BY <1>3, <2>1, <2>2, <2>3, <2>4, <2>5, <2>6, <2>7, <2>8 DEF Consume
<1>4. CASE VaultTick
  <2>1. Pending(r)' = Pending(r)
    BY <1>4 DEF VaultTick, Pending, Admitted
  <2> QED  BY <1>4, <1>b, <1>c, <2>1 DEF VaultTick, record, grantHistory
<1>5. CASE UNCHANGED vaultVars
  <2>1. Pending(r)' = Pending(r)
    BY <1>5 DEF vaultVars, Pending, Admitted
  <2> QED  BY <1>5, <1>b, <1>c, <2>1 DEF vaultVars, record, grantHistory
<1> QED  BY <1>1, <1>2, <1>3, <1>4, <1>5 DEF VaultNext

-----------------------------------------------------------------------------
LEMMA EarnedStep ==
    VaultTypeOK /\ References /\ Reserved /\ Earned /\ [VaultNext]_vaultVars => Earned'
<1> SUFFICES ASSUME VaultTypeOK, References, Reserved, Earned, [VaultNext]_vaultVars,
                    NEW r \in Records,
                    \/ status'[r] = "EXHAUSTED"
                    \/ \E w \in Threads : phase'[w] = "exhausting" /\ held'[w] = r
             PROVE  limit'[r] # NoLimit /\ granted'[r] >= limit'[r]
  BY DEF Earned, Limited
<1> DEFINE Kept == limit'[r] # NoLimit /\ granted'[r] >= limit'[r]
<1> USE DEF VaultTypeOK
<1>a. /\ uses[r] \in Nat /\ granted[r] \in Nat /\ limit[r] \in Nat
      /\ uses[r] <= granted[r]
  BY PendingNat DEF Reserved
<1>b. \/ status[r] = "EXHAUSTED"
      \/ \E w \in Threads : phase[w] = "exhausting" /\ held[w] = r
      => limit[r] # NoLimit /\ granted[r] >= limit[r]
  BY DEF Earned, Limited
<1>1. ASSUME NEW t \in Tokens, NEW s \in Records, NEW max \in Limits,
             NEW expires \in 0..MaxClock, Create(t, s, max, expires)
      PROVE  Kept
  BY <1>1, <1>b DEF Create, grantHistory, References
<1>2. ASSUME NEW w \in Threads, NEW t \in Tokens, FetchToken(w, t) PROVE Kept
  BY <1>2, <1>b DEF FetchToken, record, grantHistory
<1>3. ASSUME NEW w \in Threads, Consume(w) PROVE Kept
  <2>1. CASE AdmitUse(w)
    <3>1. granted'[r] \in {granted[r], granted[r] + 1}
      BY <2>1 DEF AdmitUse
    <3> QED  BY <2>1, <1>a, <1>b, <3>1 DEF AdmitUse, record, grantHistory
  <2>2. CASE RefuseUse(w)
    BY <2>2, <1>b DEF RefuseUse, Answered, record, grantHistory
  <2>3. CASE ReadUses(w)
    BY <2>3, <1>b DEF ReadUses, record, grantHistory
  <2>4. CASE StoreUses(w)
    BY <2>4, <1>b DEF StoreUses, grantHistory
  <2>5. CASE TestLimit(w)
    <3>1. CASE held[w] = r /\ UsedUp(r)
      BY <2>5, <1>a, <3>1 DEF TestLimit, record, grantHistory, UsedUp, Limited
    <3>2. CASE ~ (held[w] = r /\ UsedUp(r))
      BY <2>5, <1>b, <3>2 DEF TestLimit, record, grantHistory
    <3> QED  BY <3>1, <3>2
  <2>6. CASE Exhaust(w)
    BY <2>6, <1>b DEF Exhaust, grantHistory
  <2>7. CASE Save(w)
    BY <2>7, <1>b DEF Save, Answered, record, grantHistory
  <2>8. CASE CheckStatus(w)
    BY <2>8, <1>b DEF CheckStatus, record, grantHistory
  <2> QED  BY <1>3, <2>1, <2>2, <2>3, <2>4, <2>5, <2>6, <2>7, <2>8 DEF Consume
<1>4. CASE VaultTick
  BY <1>4, <1>b DEF VaultTick, record, grantHistory
<1>5. CASE UNCHANGED vaultVars
  BY <1>5, <1>b DEF vaultVars, record, grantHistory
<1> QED  BY <1>1, <1>2, <1>3, <1>4, <1>5 DEF VaultNext

LEMMA UsedUpStep == VaultTypeOK /\ References /\ UsedUpCloses /\ [VaultNext]_vaultVars => UsedUpCloses'
<1> SUFFICES ASSUME VaultTypeOK, References, UsedUpCloses, [VaultNext]_vaultVars,
                    NEW r \in Records, limit'[r] # NoLimit, uses'[r] >= limit'[r]
             PROVE  \/ status'[r] = "EXHAUSTED"
                    \/ \E w \in Threads : held'[w] = r /\ phase'[w] \in Closing
  BY DEF UsedUpCloses, UsedUp, Limited
<1> DEFINE Closed == \/ status'[r] = "EXHAUSTED"
                     \/ \E w \in Threads : held'[w] = r /\ phase'[w] \in Closing
<1> USE DEF VaultTypeOK, Closing
<1>a. limit[r] # NoLimit /\ uses[r] >= limit[r]
      => \/ status[r] = "EXHAUSTED"
         \/ \E w \in Threads : held[w] = r /\ phase[w] \in Closing
  BY DEF UsedUpCloses, UsedUp, Limited
<1>1. ASSUME NEW t \in Tokens, NEW s \in Records, NEW max \in Limits,
             NEW expires \in 0..MaxClock, Create(t, s, max, expires)
      PROVE  Closed
  <2>1. CASE s = r
    <3>1. uses'[r] = 0 /\ limit'[r] = max /\ max \in Nat
      BY <1>1, <2>1, LimitsAssumption DEF Create, grantHistory, References
    <3> QED  BY <3>1 DEF NoLimit
  <2>2. CASE s # r
    BY <1>1, <1>a, <2>2 DEF Create, grantHistory
  <2> QED  BY <2>1, <2>2
<1>2. ASSUME NEW w \in Threads, NEW t \in Tokens, FetchToken(w, t) PROVE Closed
  BY <1>2, <1>a DEF FetchToken, record, grantHistory
<1>3. ASSUME NEW w \in Threads, Consume(w) PROVE Closed
  <2>1. CASE AdmitUse(w)
    BY <2>1, <1>a DEF AdmitUse, record, grantHistory
  <2>2. CASE RefuseUse(w)
    BY <2>2, <1>a DEF RefuseUse, Answered, record, grantHistory
  <2>3. CASE ReadUses(w)
    BY <2>3, <1>a DEF ReadUses, record, grantHistory
  <2>4. CASE StoreUses(w)
    <3>1. CASE held[w] = r
      BY <2>4, <3>1 DEF StoreUses, grantHistory
    <3>2. CASE held[w] # r
      BY <2>4, <1>a, <3>2 DEF StoreUses, grantHistory
    <3> QED  BY <3>1, <3>2
  <2>5. CASE TestLimit(w)
    <3>1. CASE held[w] = r
      BY <2>5, <3>1 DEF TestLimit, record, grantHistory, UsedUp, Limited
    <3>2. CASE held[w] # r
      BY <2>5, <1>a, <3>2 DEF TestLimit, record, grantHistory
    <3> QED  BY <3>1, <3>2
  <2>6. CASE Exhaust(w)
    <3>1. CASE held[w] = r
      BY <2>6, <3>1 DEF Exhaust, grantHistory
    <3>2. CASE held[w] # r
      BY <2>6, <1>a, <3>2 DEF Exhaust, grantHistory
    <3> QED  BY <3>1, <3>2
  <2>7. CASE Save(w)
    BY <2>7, <1>a DEF Save, Answered, record, grantHistory
  <2>8. CASE CheckStatus(w)
    BY <2>8, <1>a DEF CheckStatus, record, grantHistory
  <2> QED  BY <1>3, <2>1, <2>2, <2>3, <2>4, <2>5, <2>6, <2>7, <2>8 DEF Consume
<1>4. CASE VaultTick
  BY <1>4, <1>a DEF VaultTick, record, grantHistory
<1>5. CASE UNCHANGED vaultVars
  BY <1>5, <1>a DEF vaultVars, record, grantHistory
<1> QED  BY <1>1, <1>2, <1>3, <1>4, <1>5 DEF VaultNext

LEMMA SoleStep ==
    VaultTypeOK /\ References /\ SoleCounted /\ [VaultNext]_vaultVars => SoleCounted'
<1> SUFFICES ASSUME VaultTypeOK, References, SoleCounted, [VaultNext]_vaultVars PROVE SoleCounted'
  OBVIOUS
<1> USE DEF VaultTypeOK, Counting
<1>1. ASSUME NEW t \in Tokens, NEW r \in Records, NEW max \in Limits,
             NEW expires \in 0..MaxClock, Create(t, r, max, expires)
      PROVE  SoleCounted'
  <2>1. max \in Nat /\ granted[r] = 0 /\ granted[r]' = 0
    BY <1>1, LimitsAssumption DEF Create, SoleCounted, grantHistory
  <2>2. ASSUME NEW s \in Records, Sole(s)' PROVE Counted(s)'
    <3>1. Counted(s)
      BY <1>1, <2>2 DEF SoleCounted, Sole, Create, grantHistory
    <3>2. CASE s = r
      BY <1>1, <2>1, <3>1, <3>2 DEF Counted, Between, Limited, Create, grantHistory
    <3>3. CASE s # r
      BY <1>1, <3>1, <3>3 DEF Counted, Between, Limited, Create, grantHistory
    <3> QED  BY <3>2, <3>3
  <2> QED  BY <1>1, <2>2 DEF SoleCounted, Create, grantHistory
<1>2. ASSUME NEW w \in Threads, NEW t \in Tokens, FetchToken(w, t) PROVE SoleCounted'
  BY <1>2 DEF FetchToken, SoleCounted, Sole, Counted, Between, Limited, record, grantHistory
<1>3. ASSUME NEW w \in Threads, Consume(w) PROVE SoleCounted'
  <2>1. CASE AdmitUse(w)
    <3>1. ASSUME NEW r \in Records, Sole(r)' PROVE Counted(r)'
      <4>1. CASE r = held[w]
        <5>1. Sole(r) /\ \A v \in consumers[r] : v = w
          BY <2>1, <3>1, <4>1 DEF AdmitUse, Sole
        <5>2. uses[r] = granted[r]
          BY <2>1, <4>1, <5>1 DEF AdmitUse, SoleCounted, Counted, Between
        <5>3. Limited(r) => uses[r] < limit[r]
          BY <2>1, <4>1 DEF AdmitUse, UsedUp
        <5>4. consumers'[r] = {w} /\ granted'[r] = granted[r] + 1
          BY <2>1, <4>1, <5>1 DEF AdmitUse
        <5>5. phase'[w] = "admitted" /\ held' = held /\ uses' = uses /\ limit' = limit
          BY <2>1 DEF AdmitUse, record
        <5> QED  BY <4>1, <5>2, <5>3, <5>4, <5>5 DEF Counted, Between, Limited
      <4>2. CASE r # held[w]
        BY <2>1, <3>1, <4>2 DEF AdmitUse, SoleCounted, Sole, Counted, Between, Limited, record
      <4> QED  BY <4>1, <4>2
    <3>2. \A v \in Threads : phase'[v] \in Counting => v \in consumers'[held'[v]]
      BY <2>1 DEF AdmitUse, SoleCounted, References
    <3>3. \A r \in Records \ allocated' : granted'[r] = 0
      BY <2>1 DEF AdmitUse, SoleCounted, References, record
    <3> QED  BY <3>1, <3>2, <3>3 DEF SoleCounted
  <2>2. CASE RefuseUse(w)
    BY <2>2 DEF RefuseUse, Answered, SoleCounted, Sole, Counted, Between, Limited, record, grantHistory
  <2>3. CASE ReadUses(w)
    BY <2>3 DEF ReadUses, SoleCounted, Sole, Counted, Between, Limited, record, grantHistory
  <2>4. CASE StoreUses(w)
    <3>1. ASSUME NEW r \in Records, Sole(r)' PROVE Counted(r)'
      <4>1. Sole(r) /\ Counted(r)
        BY <2>4, <3>1 DEF StoreUses, SoleCounted, Sole, grantHistory
      <4>2. CASE r = held[w]
        <5>1. w \in consumers[r] /\ \A v \in consumers[r] : v = w
          BY <2>4, <4>1, <4>2 DEF StoreUses, SoleCounted, Sole
        <5>2. local[w] + 1 = granted[r]
          BY <2>4, <4>1, <4>2, <5>1 DEF Counted, Between, StoreUses
        <5> QED  BY <2>4, <4>1, <4>2, <5>1, <5>2
                 DEF StoreUses, Counted, Between, Limited, grantHistory
      <4>3. CASE r # held[w]
        BY <2>4, <4>1, <4>3 DEF StoreUses, Counted, Between, Limited, grantHistory
      <4> QED  BY <4>2, <4>3
    <3> QED  BY <2>4, <3>1 DEF StoreUses, SoleCounted, grantHistory
  <2>5. CASE TestLimit(w)
    BY <2>5 DEF TestLimit, SoleCounted, Sole, Counted, Between, Limited, record, grantHistory
  <2>6. CASE Exhaust(w)
    BY <2>6 DEF Exhaust, SoleCounted, Sole, Counted, Between, Limited, grantHistory
  <2>7. CASE Save(w)
    BY <2>7 DEF Save, Answered, SoleCounted, Sole, Counted, Between, Limited, record, grantHistory
  <2>8. CASE CheckStatus(w)
    BY <2>8 DEF CheckStatus, SoleCounted, Sole, Counted, Between, Limited, record, grantHistory
  <2> QED  BY <1>3, <2>1, <2>2, <2>3, <2>4, <2>5, <2>6, <2>7, <2>8 DEF Consume
<1>4. CASE VaultTick
  BY <1>4 DEF VaultTick, SoleCounted, Sole, Counted, Between, Limited, record, grantHistory
<1>5. CASE UNCHANGED vaultVars
  BY <1>5 DEF vaultVars, SoleCounted, Sole, Counted, Between, Limited, record, grantHistory
<1> QED  BY <1>1, <1>2, <1>3, <1>4, <1>5 DEF VaultNext

-----------------------------------------------------------------------------
\* The invariant holds of every state of the vault.
THEOREM Invariant == VaultSpec => []IInv
<1>1. IInv /\ [VaultNext]_vaultVars => IInv'
  BY TypeStep, ReferencesStep, ReservedStep, EarnedStep, UsedUpStep, SoleStep DEF IInv
<1> QED  BY InitIInv, <1>1, PTL DEF VaultSpec

\* Every variable keeps its type (all the operations of the service).
THEOREM TypeCorrect == VaultSpec => []VaultTypeOK
<1>1. IInv => VaultTypeOK
  BY DEF IInv
<1> QED  BY Invariant, <1>1, PTL

\* A record becomes EXHAUSTED only after max_uses granted consumptions, and its
\* count never runs ahead of the consumptions granted (consume).
THEOREM ExhaustionCorrect == VaultSpec => []ExhaustedEarned
<1>1. IInv => ExhaustedEarned
  <2> SUFFICES ASSUME IInv, NEW r \in Records
               PROVE  /\ uses[r] <= granted[r]
                      /\ status[r] = "EXHAUSTED" => Limited(r) /\ granted[r] >= limit[r]
    BY DEF ExhaustedEarned
  <2>1. uses[r] <= granted[r]
    BY PendingNat DEF IInv, Reserved, VaultTypeOK
  <2>2. status[r] = "EXHAUSTED" => Limited(r) /\ granted[r] >= limit[r]
    BY DEF IInv, Earned
  <2> QED  BY <2>1, <2>2
<1> QED  BY Invariant, <1>1, PTL

\* A used-up record is EXHAUSTED, or a worker is still on its way to mark it
\* (the comparison at the end of consume, whoever stored the last count).
THEOREM ClosureCorrect == VaultSpec => []UsedUpCloses
<1>1. IInv => UsedUpCloses
  BY DEF IInv
<1> QED  BY Invariant, <1>1, PTL

\* A record consumed by a single worker is never consumed beyond max_uses
\* (is_usable and consume, without a race).
THEOREM LimitCorrect == VaultSpec => []SoleConsumerLimited
<1>1. IInv => SoleConsumerLimited
  BY DEF IInv, SoleCounted, Sole, Counted, SoleConsumerLimited
<1> QED  BY Invariant, <1>1, PTL

\* A record's status follows its uses in both directions (consume).
THEOREM UsesCorrect == VaultSpec => []UsesCounted
<1>1. ExhaustedEarned /\ UsedUpCloses => UsesCounted
  BY DEF UsesCounted
<1> QED  BY <1>1, ExhaustionCorrect, ClosureCorrect, PTL
=============================================================================
