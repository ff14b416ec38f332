-------------------------- MODULE DisputeCase_proofs --------------------------
(***************************************************************************)
(* What holds of the dispute engine for any number of workers, disputes,   *)
(* keys and items.  The inductive invariant adds to the properties what a  *)
(* worker in the middle of a handler still knows of the shared state: the  *)
(* case it works on exists, and the move it will store was legal from the  *)
(* status it read.                                                         *)
(***************************************************************************)
EXTENDS DisputeCase, TLAPS

(* A worker past its last check works on a case that exists. *)
CaseStands ==
    \A w \in Agents : stage[w] \in {"key", "save", "file"} => cases[req[w].dispute] # NoCase

(* A transition was allowed from the status it read, and that status, if a *)
(* reversal may follow from it, is on record.                              *)
MoveAllowed ==
    \A w \in Agents : stage[w] = "save" =>
        /\ req[w].status \in Successors[seen[w]]
        /\ seen[w] \in Answerable => req[w].dispute \in answerable

(* A new case that passed the checks starts out OPENED. *)
StartsOpened == \A w \in Agents : stage[w] = "store" => req[w].status = "OPENED"

(* The record of representation and acceptance is complete. *)
Recorded == \A d \in Disputes : cases[d] \in Answerable => d \in answerable

IInv ==
    /\ DisputeTypeOK
    /\ NamesResolve
    /\ ReversalEarned
    /\ CaseStands
    /\ MoveAllowed
    /\ StartsOpened
    /\ Recorded

LEMMA InitInv == DisputeInit => IInv
  BY NoCaseIsAbsence DEF DisputeInit, IInv, DisputeTypeOK, NamesResolve, ReversalEarned, CaseStands,
     MoveAllowed, StartsOpened, Recorded, NoRequest, Status, Answerable

(* What an action leaves alone, in the shape the provers use. *)
LEMMA Unchanged ==
    ASSUME IInv, UNCHANGED disputeVars PROVE IInv'
  BY DEF IInv, DisputeTypeOK, NamesResolve, ReversalEarned, CaseStands, MoveAllowed, StartsOpened,
     Recorded, disputeVars, shared

LEMMA StepInv ==
    ASSUME IInv, NEW w \in Agents, NEW r \in DisputeRequest,
           \/ LookUpKey(w, r) \/ ReadCase(w, r) \/ FindItem(w, r)
           \/ CheckNew(w) \/ StoreCase(w) \/ StoreKey(w) \/ SaveCase(w) \/ FileItem(w)
    PROVE  IInv'
  <1> USE DEF IInv
  <1>1. CASE LookUpKey(w, r)
    <2> USE <1>1 DEF LookUpKey, shared
    <2>0. r.op = "create"
      OBVIOUS
    <2>1. DisputeTypeOK'
      BY <2>0, NoCaseIsAbsence DEF DisputeTypeOK, DisputeRequest, NoRequest, PcOf
    <2>2. NamesResolve' /\ ReversalEarned' /\ Recorded'
      BY DEF NamesResolve, ReversalEarned, Recorded
    <2>3. CaseStands' /\ MoveAllowed' /\ StartsOpened'
      BY DEF CaseStands, MoveAllowed, StartsOpened, DisputeTypeOK
    <2> QED BY <2>1, <2>2, <2>3
  <1>2. CASE ReadCase(w, r)
    <2> USE <1>2 DEF ReadCase, shared
    <2>0. /\ r \in DisputeRequest /\ r.op = "transition" /\ r.dispute \in Disputes /\ r # NoRequest
          /\ cases[r.dispute] \in Status
      BY DEF DisputeRequest, NoRequest, DisputeTypeOK
    <2>1. DisputeTypeOK'
      BY <2>0, NoCaseIsAbsence DEF DisputeTypeOK, PcOf
    <2>2. NamesResolve' /\ ReversalEarned' /\ Recorded'
      BY DEF NamesResolve, ReversalEarned, Recorded
    <2>3. CaseStands' /\ MoveAllowed' /\ StartsOpened'
      BY <2>0 DEF CaseStands, MoveAllowed, StartsOpened, DisputeTypeOK, Recorded
    <2> QED BY <2>1, <2>2, <2>3
  <1>3. CASE FindItem(w, r)
    <2> USE <1>3 DEF FindItem, shared
    <2>0. r \in DisputeRequest /\ r.op = "evidence" /\ r.dispute \in Disputes /\ r # NoRequest
      BY DEF DisputeRequest, NoRequest
    <2>1. DisputeTypeOK'
      BY <2>0, NoCaseIsAbsence DEF DisputeTypeOK, PcOf
    <2>2. NamesResolve' /\ ReversalEarned' /\ Recorded'
      BY DEF NamesResolve, ReversalEarned, Recorded
    <2>3. CaseStands' /\ MoveAllowed' /\ StartsOpened'
      BY DEF CaseStands, MoveAllowed, StartsOpened, DisputeTypeOK
    <2> QED BY <2>1, <2>2, <2>3
  <1>4. CASE CheckNew(w)
    <2> USE <1>4 DEF CheckNew, NextAccess, AnswerDispute, shared
    <2>1. DisputeTypeOK'
      BY NoCaseIsAbsence DEF DisputeTypeOK, DisputeRequest, NoRequest, PcOf
    <2>2. NamesResolve' /\ ReversalEarned' /\ Recorded'
      BY DEF NamesResolve, ReversalEarned, Recorded
    <2>3. CaseStands' /\ MoveAllowed' /\ StartsOpened'
      BY DEF CaseStands, MoveAllowed, StartsOpened, DisputeTypeOK
    <2> QED BY <2>1, <2>2, <2>3
  <1>5. CASE StoreCase(w)
    <2> USE <1>5 DEF StoreCase, NextAccess
    <2>0. /\ req[w].op = "create" /\ req[w].dispute \in Disputes /\ req[w].key \in Keys
          /\ req[w].status = "OPENED"
      BY DEF DisputeTypeOK, DisputeRequest, NoRequest, PcOf, StartsOpened
    <2>1. DisputeTypeOK'
      BY <2>0, NoCaseIsAbsence DEF DisputeTypeOK, PcOf, Status
    <2>2. NamesResolve' /\ ReversalEarned' /\ Recorded'
      BY <2>0, NoCaseIsAbsence DEF NamesResolve, ReversalEarned, Recorded, DisputeTypeOK, Status, Answerable
    <2>3. CaseStands' /\ MoveAllowed' /\ StartsOpened'
      BY <2>0, NoCaseIsAbsence DEF CaseStands, MoveAllowed, StartsOpened, DisputeTypeOK, Status
    <2> QED BY <2>1, <2>2, <2>3
  <1>6. CASE StoreKey(w)
    <2> USE <1>6 DEF StoreKey, AnswerDispute
    <2>0. req[w].op = "create" /\ req[w].dispute \in Disputes /\ req[w].key \in Keys
      BY DEF DisputeTypeOK, DisputeRequest, NoRequest, PcOf
    <2>1. DisputeTypeOK'
      BY <2>0, NoCaseIsAbsence DEF DisputeTypeOK, PcOf
    <2>2. NamesResolve' /\ ReversalEarned' /\ Recorded'
      BY <2>0 DEF NamesResolve, ReversalEarned, Recorded, DisputeTypeOK, CaseStands
    <2>3. CaseStands' /\ MoveAllowed' /\ StartsOpened'
      BY DEF CaseStands, MoveAllowed, StartsOpened, DisputeTypeOK
    <2> QED BY <2>1, <2>2, <2>3
  <1>7. CASE SaveCase(w)
    <2> USE <1>7 DEF SaveCase, AnswerDispute
    <2>0. /\ req[w].op = "transition" /\ req[w].dispute \in Disputes /\ req[w].status \in Status
          /\ seen[w] \in Status /\ req[w].status \in Successors[seen[w]]
          /\ seen[w] \in Answerable => req[w].dispute \in answerable
      BY DEF DisputeTypeOK, DisputeRequest, NoRequest, PcOf, MoveAllowed
    <2>1. DisputeTypeOK'
      BY <2>0, NoCaseIsAbsence DEF DisputeTypeOK, PcOf
    <2>2. NamesResolve'
      BY <2>0, NoCaseIsAbsence DEF NamesResolve, DisputeTypeOK
    <2>3. req[w].status = "REVERSED" => req[w].dispute \in answerable
      BY <2>0 DEF Successors, Status, Answerable
    <2>4. ReversalEarned' /\ Recorded'
      BY <2>0, <2>3 DEF ReversalEarned, Recorded, DisputeTypeOK
    <2>5. CaseStands' /\ MoveAllowed' /\ StartsOpened'
      BY <2>0, NoCaseIsAbsence DEF CaseStands, MoveAllowed, StartsOpened, DisputeTypeOK
    <2> QED BY <2>1, <2>2, <2>4, <2>5
  <1>8. CASE FileItem(w)
    <2> USE <1>8 DEF FileItem, AnswerDispute
    <2>0. req[w].op = "evidence" /\ req[w].dispute \in Disputes /\ req[w].item \in Items
      BY DEF DisputeTypeOK, DisputeRequest, NoRequest, PcOf
    <2>1. DisputeTypeOK'
      BY <2>0, NoCaseIsAbsence DEF DisputeTypeOK, PcOf
    <2>2. NamesResolve' /\ ReversalEarned' /\ Recorded'
      BY <2>0 DEF NamesResolve, ReversalEarned, Recorded, DisputeTypeOK, CaseStands
    <2>3. CaseStands' /\ MoveAllowed' /\ StartsOpened'
      BY DEF CaseStands, MoveAllowed, StartsOpened, DisputeTypeOK
    <2> QED BY <2>1, <2>2, <2>3
  <1> QED BY <1>1, <1>2, <1>3, <1>4, <1>5, <1>6, <1>7, <1>8

LEMMA Invariance == DisputeSpec => []IInv
  <1>1. IInv /\ [DisputeNext]_disputeVars => IInv'
    <2> SUFFICES ASSUME IInv, [DisputeNext]_disputeVars PROVE IInv'
      OBVIOUS
    <2>1. CASE UNCHANGED disputeVars
      BY <2>1, Unchanged
    <2>2. CASE DisputeNext
      <3>1. PICK w \in Agents :
              Begin(w) \/ CheckNew(w) \/ StoreCase(w) \/ StoreKey(w) \/ SaveCase(w) \/ FileItem(w)
        BY <2>2 DEF DisputeNext
      <3>2. CASE Begin(w)
        BY <3>2, StepInv DEF Begin
      <3>3. CASE ~ Begin(w)
        <4>1. \E r : r \in DisputeRequest
          BY <3>1, <3>3 DEF CheckNew, StoreCase, StoreKey, SaveCase, FileItem, IInv, DisputeTypeOK, PcOf, NoRequest
        <4> QED BY <3>1, <3>3, <4>1, StepInv
      <3> QED BY <3>2, <3>3
    <2> QED BY <2>1, <2>2
  <1> QED BY <1>1, InitInv, PTL DEF DisputeSpec

-----------------------------------------------------------------------------
(* Idempotent opening needs an invariant of its own: what a worker that    *)
(* missed the key, or found the identifier free, knows of what it opened   *)
(* before.                                                                 *)

(* A worker about to store a key has stored its case. *)
HoldsCase ==
    \A w \in Agents : stage[w] = "key" => <<w, req[w].key, req[w].dispute>> \in stored

(* What was stored stands. *)
StoredStands == \A s \in stored : cases[s[3]] # NoCase

(* A worker that missed a key it once opened a case under is not alone     *)
(* with it, nor with a dispute it found free and once opened.              *)
KeyMissed ==
    \A w \in Agents, s \in stored :
        stage[w] \in {"check", "store"} /\ s[1] = w /\ s[2] = req[w].key => ~ AloneWithKey(s)

DisputeFree ==
    \A w \in Agents, s \in stored :
        stage[w] = "store" /\ s[1] = w /\ s[3] = req[w].dispute => ~ AloneWithDispute(s)

Opening == OpenedOnce /\ HoldsCase /\ StoredStands /\ KeyMissed /\ DisputeFree

LEMMA InitOpening == DisputeInit => Opening
  BY DEF DisputeInit, Opening, OpenedOnce, HoldsCase, StoredStands, KeyMissed, DisputeFree

LEMMA UnchangedOpening ==
    ASSUME Opening, UNCHANGED disputeVars PROVE Opening'
  BY DEF Opening, OpenedOnce, HoldsCase, StoredStands, KeyMissed, DisputeFree, AloneWithKey,
     AloneWithDispute, StoringKey, disputeVars, shared

(* A step that opens nothing, touches no key, and takes no worker into or  *)
(* out of the middle of an opening. *)
LEMMA ElsewhereOpening ==
    ASSUME IInv, Opening, NEW w \in Agents, UNCHANGED <<openedUnder, stored>>,
           \A d \in Disputes : cases[d] # NoCase => cases'[d] # NoCase,
           stage[w] # "key", stage'[w] \notin {"check", "store", "key"},
           \A v \in Agents : v # w => stage'[v] = stage[v] /\ req'[v] = req[v]
    PROVE  Opening'
  <1>1. \A s \in stored : s[1] \in Agents /\ s[2] \in Keys /\ s[3] \in Disputes
    BY DEF IInv, DisputeTypeOK
  <1>2. \A s \in stored : /\ AloneWithKey(s)' <=> AloneWithKey(s)
                          /\ AloneWithDispute(s)' <=> AloneWithDispute(s)
    BY DEF AloneWithKey, AloneWithDispute
  <1>3. \A v \in Agents : stage'[v] \in {"check", "store", "key"} => v # w
    OBVIOUS
  <1>s. \A s \in stored : StoringKey(s)' <=> StoringKey(s)
    BY <1>1, <1>3 DEF StoringKey
  <1>4. OpenedOnce'
    BY <1>1, <1>2, <1>s DEF Opening, OpenedOnce
  <1>5. HoldsCase' /\ StoredStands'
    BY <1>1, <1>3 DEF Opening, HoldsCase, StoredStands
  <1>6. KeyMissed' /\ DisputeFree'
    BY <1>1, <1>2, <1>3 DEF Opening, KeyMissed, DisputeFree
  <1> QED BY <1>4, <1>5, <1>6 DEF Opening

LEMMA StepOpening ==
    ASSUME IInv, Opening, NEW w \in Agents, NEW r \in DisputeRequest,
           \/ LookUpKey(w, r) \/ ReadCase(w, r) \/ FindItem(w, r)
           \/ CheckNew(w) \/ StoreCase(w) \/ StoreKey(w) \/ SaveCase(w) \/ FileItem(w)
    PROVE  Opening'
  <1>t. /\ stage \in [Agents -> {"idle", "check", "store", "key", "save", "file"}]
        /\ req \in [Agents -> DisputeRequest \cup {NoRequest}]
        /\ cases \in [Disputes -> Status \cup {NoCase}]
        /\ openedUnder \in [Keys -> Disputes \cup {NoCase}]
        /\ \A s \in stored : s \in Agents \X Keys \X Disputes
    BY DEF IInv, DisputeTypeOK
  <1>c. stage[w] \in {"check", "store", "key"} =>
            req[w].dispute \in Disputes /\ req[w].key \in Keys /\ req[w].status \in Status
    BY DEF IInv, DisputeTypeOK, DisputeRequest, NoRequest, PcOf
  <1>1. CASE LookUpKey(w, r)
    <2>1. /\ stage[w] = "idle" /\ openedUnder[r.key] = NoCase /\ r.key \in Keys
          /\ stage' = [stage EXCEPT ![w] = "check"] /\ req' = [req EXCEPT ![w] = r]
          /\ UNCHANGED <<openedUnder, cases, stored>>
      BY <1>1 DEF LookUpKey, shared, DisputeRequest
    <2>2. \A s \in stored : /\ AloneWithKey(s)' <=> AloneWithKey(s)
                            /\ AloneWithDispute(s)' <=> AloneWithDispute(s)
      BY <2>1 DEF AloneWithKey, AloneWithDispute
    <2>3. \A s \in stored : s[1] = w /\ s[2] = r.key => ~ AloneWithKey(s)
      BY <1>t, <2>1, NoCaseIsAbsence DEF Opening, OpenedOnce, StoringKey
    <2>s. \A s \in stored : StoringKey(s)' <=> StoringKey(s)
      BY <1>t, <2>1 DEF StoringKey
    <2>4. OpenedOnce'
      BY <1>t, <2>1, <2>2, <2>s DEF Opening, OpenedOnce
    <2>5. HoldsCase' /\ StoredStands' /\ KeyMissed' /\ DisputeFree'
      BY <1>t, <2>1, <2>2, <2>3 DEF Opening, HoldsCase, StoredStands, KeyMissed, DisputeFree
    <2> QED BY <2>4, <2>5 DEF Opening
  <1>2. CASE ReadCase(w, r)
    BY <1>2, <1>t, ElsewhereOpening DEF ReadCase, shared
  <1>3. CASE FindItem(w, r)
    BY <1>3, <1>t, ElsewhereOpening DEF FindItem, shared
  <1>4. CASE CheckNew(w)
    <2>1. CASE cases[req[w].dispute] = NoCase /\ req[w].status = "OPENED"
      <3>1. /\ stage[w] = "check" /\ stage' = [stage EXCEPT ![w] = "store"]
            /\ UNCHANGED <<openedUnder, cases, stored, req>>
        BY <1>4, <2>1 DEF CheckNew, NextAccess, shared
      <3>2. \A s \in stored : /\ AloneWithKey(s)' <=> AloneWithKey(s)
                              /\ AloneWithDispute(s)' <=> AloneWithDispute(s)
        BY <3>1 DEF AloneWithKey, AloneWithDispute
      <3>3. \A s \in stored : s[3] # req[w].dispute
        BY <2>1 DEF Opening, StoredStands
      <3>s. \A s \in stored : StoringKey(s)' <=> StoringKey(s)
        BY <1>t, <3>1 DEF StoringKey
      <3>4. OpenedOnce' /\ HoldsCase' /\ StoredStands'
        BY <1>t, <3>1, <3>2, <3>s DEF Opening, OpenedOnce, HoldsCase, StoredStands
      <3>5. KeyMissed' /\ DisputeFree'
        BY <1>t, <3>1, <3>2, <3>3 DEF Opening, KeyMissed, DisputeFree
      <3> QED BY <3>4, <3>5 DEF Opening
    <2>2. CASE ~ (cases[req[w].dispute] = NoCase /\ req[w].status = "OPENED")
      BY <1>4, <2>2, <1>t, ElsewhereOpening DEF CheckNew, AnswerDispute, shared
    <2> QED BY <2>1, <2>2
  <1>5. CASE StoreCase(w)
    <2> DEFINE d == req[w].dispute
               k == req[w].key
               new == <<w, k, d>>
    <2>1. /\ stage[w] = "store" /\ d \in Disputes /\ k \in Keys /\ req[w].status \in Status
          /\ cases' = [cases EXCEPT ![d] = req[w].status] /\ stored' = stored \cup {new}
          /\ stage' = [stage EXCEPT ![w] = "key"] /\ UNCHANGED <<openedUnder, req>>
      BY <1>5, <1>c DEF StoreCase, NextAccess
    <2>n. new \in stored' /\ new[1] = w /\ new[2] = k /\ new[3] = d
      BY <2>1
    <2>2. \A s \in stored : /\ AloneWithKey(s)' => AloneWithKey(s)
                            /\ AloneWithDispute(s)' => AloneWithDispute(s)
                            /\ AloneWithKey(s)' /\ s[2] = k => s[1] = w
                            /\ AloneWithDispute(s)' /\ s[3] = d => s[1] = w
      BY <2>1, <2>n DEF AloneWithKey, AloneWithDispute
    <2>3. \A s \in stored : /\ s[2] = k => ~ AloneWithKey(s)'
                            /\ s[3] = d => ~ AloneWithDispute(s)'
      BY <2>1, <2>2 DEF Opening, KeyMissed, DisputeFree
    <2>4. \A s \in stored : /\ s[2] = k => ~ AloneWithKey(new)'
                            /\ s[3] = d => ~ AloneWithDispute(new)'
      BY <2>1, <2>3 DEF AloneWithKey, AloneWithDispute
    <2>5. OpenedOnce'
      <3> SUFFICES ASSUME NEW s \in stored'
                   PROVE  /\ AloneWithKey(s)' =>
                                 /\ \A t \in stored' : t[2] = s[2] => t = s
                                 /\ ~ StoringKey(s)' => openedUnder'[s[2]] = s[3]
                          /\ AloneWithDispute(s)' => \A t \in stored' : t[3] = s[3] => t = s
        BY DEF OpenedOnce
      <3>1. CASE s = new
        <4>1. StoringKey(s)'
          BY <3>1, <1>t, <2>1, <2>n DEF StoringKey
        <4> QED BY <3>1, <4>1, <2>1, <2>4, <2>n
      <3>2. CASE s \in stored
        <4>1. AloneWithKey(s)' => AloneWithKey(s) /\ s[2] # k
          BY <3>2, <2>2, <2>3
        <4>2. AloneWithDispute(s)' => AloneWithDispute(s) /\ s[3] # d
          BY <3>2, <2>2, <2>3
        <4>3. s[2] # k => (~ StoringKey(s)' => ~ StoringKey(s))
          BY <3>2, <1>t, <2>1 DEF StoringKey
        <4> QED BY <3>2, <4>1, <4>2, <4>3, <1>t, <2>1 DEF Opening, OpenedOnce
      <3> QED BY <3>1, <3>2, <2>1
    <2>6. HoldsCase' /\ StoredStands'
      BY <1>t, <2>1, NoCaseIsAbsence DEF Opening, HoldsCase, StoredStands, Status
    <2>7. KeyMissed'
      BY <1>t, <2>1, <2>2 DEF Opening, KeyMissed
    <2>8. DisputeFree'
      BY <1>t, <2>1, <2>2 DEF Opening, DisputeFree
    <2> QED BY <2>5, <2>6, <2>7, <2>8 DEF Opening
  <1>6. CASE StoreKey(w)
    <2>1. /\ stage[w] = "key" /\ req[w].dispute \in Disputes /\ req[w].key \in Keys
          /\ openedUnder' = [openedUnder EXCEPT ![req[w].key] = req[w].dispute]
          /\ stage' = [stage EXCEPT ![w] = "idle"] /\ req' = [req EXCEPT ![w] = NoRequest]
          /\ UNCHANGED <<cases, stored>>
      BY <1>6, <1>c DEF StoreKey, AnswerDispute
    <2>2. \A s \in stored : /\ AloneWithKey(s)' <=> AloneWithKey(s)
                            /\ AloneWithDispute(s)' <=> AloneWithDispute(s)
      BY <2>1 DEF AloneWithKey, AloneWithDispute
    <2>3. <<w, req[w].key, req[w].dispute>> \in stored
      BY <2>1 DEF Opening, HoldsCase
    <2>4. ASSUME NEW s \in stored, AloneWithKey(s), ~ StoringKey(s)' PROVE openedUnder'[s[2]] = s[3]
      <3>1. CASE s[2] = req[w].key
        <4>1. <<w, req[w].key, req[w].dispute>> = s
          BY <2>3, <2>4, <3>1 DEF Opening, OpenedOnce
        <4> QED BY <4>1, <2>1, <1>t
      <3>2. CASE s[2] # req[w].key
        <4>1. ~ StoringKey(s)
          BY <1>t, <2>1, <2>4, <3>2 DEF StoringKey
        <4> QED BY <4>1, <3>2, <2>1, <2>4, <1>t DEF Opening, OpenedOnce
      <3> QED BY <3>1, <3>2
    <2>5. OpenedOnce'
      BY <2>1, <2>2, <2>4 DEF Opening, OpenedOnce
    <2>6. HoldsCase' /\ StoredStands' /\ KeyMissed' /\ DisputeFree'
      BY <1>t, <2>1, <2>2 DEF Opening, HoldsCase, StoredStands, KeyMissed, DisputeFree
    <2> QED BY <2>5, <2>6 DEF Opening
  <1>7. CASE SaveCase(w)
    <2>1. /\ stage[w] = "save" /\ cases' = [cases EXCEPT ![req[w].dispute] = req[w].status]
          /\ stage' = [stage EXCEPT ![w] = "idle"] /\ req' = [req EXCEPT ![w] = NoRequest]
          /\ UNCHANGED <<openedUnder, stored>>
      BY <1>7 DEF SaveCase, AnswerDispute
    <2>2. req[w].status \in Status
      BY <2>1 DEF IInv, DisputeTypeOK, DisputeRequest, NoRequest, PcOf
    <2>3. \A x \in Disputes : cases[x] # NoCase => cases'[x] # NoCase
      BY <1>t, <2>1, <2>2, NoCaseIsAbsence
    <2> QED BY <1>t, <2>1, <2>3, ElsewhereOpening
  <1>8. CASE FileItem(w)
    BY <1>8, <1>t, ElsewhereOpening DEF FileItem, AnswerDispute
  <1> QED BY <1>1, <1>2, <1>3, <1>4, <1>5, <1>6, <1>7, <1>8

LEMMA OpeningInvariance == DisputeSpec => []Opening
  <1>1. IInv /\ Opening /\ [DisputeNext]_disputeVars => Opening'
    <2> SUFFICES ASSUME IInv, Opening, [DisputeNext]_disputeVars PROVE Opening'
      OBVIOUS
    <2>1. CASE UNCHANGED disputeVars
      BY <2>1, UnchangedOpening
    <2>2. CASE DisputeNext
      <3>1. PICK w \in Agents :
              Begin(w) \/ CheckNew(w) \/ StoreCase(w) \/ StoreKey(w) \/ SaveCase(w) \/ FileItem(w)
        BY <2>2 DEF DisputeNext
      <3>2. CASE Begin(w)
        BY <3>2, StepOpening DEF Begin
      <3>3. CASE ~ Begin(w)
        <4>1. \E r : r \in DisputeRequest
          BY <3>1, <3>3 DEF CheckNew, StoreCase, StoreKey, SaveCase, FileItem, IInv, DisputeTypeOK, PcOf, NoRequest
        <4> QED BY <3>1, <3>3, <4>1, StepOpening
      <3> QED BY <3>2, <3>3
    <2> QED BY <2>1, <2>2
  <1> QED BY <1>1, InitOpening, Invariance, PTL DEF DisputeSpec

-----------------------------------------------------------------------------
(* Every variable keeps its type and every worker its place.                *)
THEOREM TypeCorrect == DisputeSpec => []DisputeTypeOK
  BY Invariance, PTL DEF IInv

(* Keys and evidence never lead to a case that is not there.                *)
THEOREM NamesCorrect == DisputeSpec => []NamesResolve
  BY Invariance, PTL DEF IInv

(* And under every interleaving a key leads to the one case opened under   *)
(* it, unless two workers raced to open one.                               *)
THEOREM KeysCorrect == DisputeSpec => []KeysHonoured
  <1>1. IInv /\ Opening => KeysHonoured
    BY DEF IInv, Opening, KeysHonoured
  <1> QED BY <1>1, Invariance, OpeningInvariance, PTL

(* Under every interleaving of create, transition and add_evidence, a case  *)
(* that stands REVERSED was once represented or accepted.                   *)
THEOREM ReversalCorrect == DisputeSpec => []ReversalEarned
  BY Invariance, PTL DEF IInv

(* A move off the table is always the late write of a worker that decided   *)
(* on an older state of the case.                                           *)
THEOREM MovesCorrect == DisputeSpec => MovesLegal
  <1>1. IInv /\ [DisputeNext]_disputeVars => [MoveLegal]_disputeVars
    <2> SUFFICES ASSUME IInv, DisputeNext, NEW d \in Disputes, cases[d] # NoCase, cases'[d] # cases[d]
                 PROVE  \/ cases'[d] \in Successors[cases[d]]
                        \/ \E w \in Agents :
                             /\ stage[w] \in {"store", "save"} /\ req[w].dispute = d
                             /\ seen[w] # cases[d]
      BY DEF MoveLegal
    <2>1. PICK w \in Agents : StoreCase(w) \/ SaveCase(w)
      BY DEF DisputeNext, Begin, LookUpKey, ReadCase, FindItem, CheckNew, StoreKey, FileItem, shared
    <2>2. CASE StoreCase(w)
      <3>1. d = req[w].dispute /\ stage[w] = "store"
        BY <2>2 DEF StoreCase, IInv, DisputeTypeOK
      <3>2. seen[w] = NoCase
        BY <3>1 DEF IInv, DisputeTypeOK
      <3> QED BY <3>1, <3>2
    <2>3. CASE SaveCase(w)
      <3>1. d = req[w].dispute /\ stage[w] = "save" /\ cases'[d] = req[w].status
        BY <2>3 DEF SaveCase, IInv, DisputeTypeOK
      <3>2. req[w].status \in Successors[seen[w]]
        BY <3>1 DEF IInv, MoveAllowed
      <3> QED BY <3>1, <3>2
    <2> QED BY <2>1, <2>2, <2>3
  <1> QED BY <1>1, Invariance, PTL DEF MovesLegal, DisputeSpec
=============================================================================
