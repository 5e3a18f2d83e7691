------------------------ MODULE ModelStorageProofs ------------------------
(***************************************************************************)
(* StorageCounted, QuotaKept and RowHasObject, for any number of requests, *)
(* models, keys and any quota.                                             *)
(*                                                                         *)
(* The counter: every row enters through a request that owes it one        *)
(* increment.  The quota: a request is admitted for all it will insert,    *)
(* and the next admission waits for it or is noted as crowded.  The        *)
(* objects: a key nobody took while another had it has one owner, the      *)
(* request that carries it to its INSERT or the row that has it until its  *)
(* delete has erased the object, so whoever erases an object erases its    *)
(* own, although names are given again.                                    *)
(***************************************************************************)
EXTENDS ModelStorage, FiniteSetTheorems, TLAPS

\* The request carries a key to its INSERT or to the trash.
Carries(q) == pc[q] \in {"weigh", "discard", "write", "insert"}

\* The request is about to erase the objects of its rows.
Erasing(q) == pc[q] \in {"erase", "cascade"}

\* What the requests hold was used or inserted before.
HeldInv ==
    /\ \A r \in Ids : file[r] \in 0 .. keys
    /\ \A q \in Requests :
          /\ held[q].key \in 0 .. keys
          /\ Carries(q) => held[q].key # 0
          /\ pc[q] \in {"idle", "name", "write", "weigh"} => held[q].rows = {}
          /\ pc[q] = "edit" => held[q].row \in Ids /\ file[held[q].row] # 0
          /\ Erasing(q) => \A r \in held[q].rows : file[r] # 0

\* The row is in the table, or in the hands of a delete that has yet to erase its object.
Claimed(r) == r \in live \/ \E q \in Requests : Erasing(q) /\ r \in held[q].rows

\* One owner for each key that is not contested.
OneOwner ==
    /\ \A r, s \in Ids :
          Claimed(r) /\ Claimed(s) /\ file[r] = file[s] => r = s \/ file[r] \in contested
    /\ \A q \in Requests, r \in Ids :
          Carries(q) /\ Claimed(r) /\ file[r] = held[q].key => file[r] \in contested
    /\ \A p, q \in Requests :
          Carries(p) /\ Carries(q) /\ held[p].key = held[q].key
              => p = q \/ held[p].key \in contested

\* The object is there from the upload to the row, and as long as the row stays.
ObjectThere ==
    /\ \A q \in Requests :
          pc[q] \in {"weigh", "insert"} => held[q].key \in stored \cup contested
    /\ \A r \in live \ erased : file[r] \in stored \cup contested

\* The rows not counted yet.
Uncounted == {q \in Requests : pc[q] = "count"}

Counted ==
    /\ IsFiniteSet(Uncounted)
    /\ mishaps = 0 => used + Cardinality(Uncounted) = Cardinality(live)

\* How many rows an admitted request has still to insert, at most.
Due(q) ==
    IF pc[q] \in {"name", "write", "insert"}
    THEN Cardinality(held[q].rows) + 1 ELSE Cardinality(held[q].rows)

\* One request is admitted at a time, and all it will insert fits: a duplication will
\* list no model it has not weighed.
Fitting ==
    mishaps = 0 /\ ~crowded =>
        /\ Cardinality(live) <= Limit
        /\ \A p, q \in Requests : pc[p] \in Admitted /\ pc[q] \in Admitted => p = q
        /\ \A q \in Requests : pc[q] \in Admitted => Cardinality(live) + Due(q) <= Limit
        /\ \A q \in Requests : pc[q] = "list" => RowsOf("original") \subseteq held[q].rows

IInv == TypeOK /\ HeldInv /\ OneOwner /\ ObjectThere /\ Counted /\ Fitting

-----------------------------------------------------------------------------
HeldType == [key : 0 .. MaxKeys, row : 0 .. MaxRows, rows : SUBSET Ids, into : Projects]

LEMMA Bounds ==
    /\ Placed \in Nat /\ Limit \in Nat /\ MaxRows \in Nat /\ MaxKeys \in Nat /\ MaxMishaps \in Nat
    /\ Placed <= Limit /\ Placed <= MaxRows /\ Placed <= MaxKeys
  BY StorageAssumption DEF StorageAssumption

LEMMA NothingTyped == Nothing \in HeldType
  BY Bounds DEF Nothing, HeldType, Projects

\* Tables and what requests hold are finite.
LEMMA RowsFinite ==
    ASSUME NEW S \in SUBSET Ids
    PROVE  IsFiniteSet(S) /\ Cardinality(S) \in Nat
<1>1. IsFiniteSet(Ids)
  BY Bounds, FS_Interval DEF Ids
<1>2. IsFiniteSet(S)
  BY <1>1, FS_Subset
<1> QED
  BY <1>2, FS_CardinalityType

\* The other requests are where they were.
Others(q) == \A p \in Requests \ {q} : pc'[p] = pc[p] /\ held'[p] = held[p]

\* A step of a request from one place to another.
Moves(q, from, to) ==
    /\ pc[q] = from /\ pc'[q] = to
    /\ pc' \in [Requests -> Steps]
    /\ held' \in [Requests -> HeldType]
    /\ Others(q)

LEMMA MovesFrom ==
    ASSUME TypeOK, NEW q \in Requests, NEW from, NEW to \in Steps, Goto(q, from, to),
           held' \in [Requests -> HeldType],
           \A p \in Requests \ {q} : held'[p] = held[p]
    PROVE  Moves(q, from, to)
  BY DEF TypeOK, Goto, Moves, Others

LEMMA EndMoves ==
    ASSUME TypeOK, NEW q \in Requests, NEW from, End(q, from)
    PROVE  Moves(q, from, "idle") /\ held'[q] = Nothing
<1>1. /\ held' \in [Requests -> HeldType]
      /\ held'[q] = Nothing
      /\ \A p \in Requests \ {q} : held'[p] = held[p]
  BY NothingTyped DEF TypeOK, HeldType, End, Keeping
<1> QED
  BY <1>1, MovesFrom DEF End, Steps

\* A step that keeps the tables, the bucket and the counter is well typed.
LEMMA TypeOfStep ==
    ASSUME TypeOK, NEW q \in Requests, pc' \in [Requests -> Steps], held' \in [Requests -> HeldType],
           UNCHANGED <<bucket, table, used>>,
           mishaps' \in 0 .. MaxMishaps, crowded' \in BOOLEAN,
           contested' \in SUBSET Keys, erased' \in SUBSET Ids
    PROVE  TypeOK'
  BY DEF TypeOK, HeldType, bucket, table

-----------------------------------------------------------------------------
(* What a step keeps of each part of the invariant. *)

LEMMA HeldFrame ==
    ASSUME HeldInv, NEW q \in Requests, Others(q), UNCHANGED <<keys, file>>,
           held'[q].key \in 0 .. keys,
           Carries(q)' => held'[q].key # 0,
           pc'[q] \in {"idle", "name", "write", "weigh"} => held'[q].rows = {},
           pc'[q] = "edit" => held'[q].row \in Ids /\ file[held'[q].row] # 0,
           Erasing(q)' => \A r \in held'[q].rows : file[r] # 0
    PROVE  HeldInv'
  BY DEF HeldInv, Others, Carries, Erasing

\* No step but an INSERT or a fetch makes a claim.
LEMMA ClaimFrame ==
    ASSUME NEW q \in Requests, Others(q), live' \subseteq live,
           Erasing(q)' => \A r \in held'[q].rows : Claimed(r),
           NEW r, Claimed(r)'
    PROVE  Claimed(r)
  BY DEF Claimed, Others, Erasing

LEMMA OwnerFrame ==
    ASSUME OneOwner, NEW q \in Requests, Others(q), file' = file, contested \subseteq contested',
           live' \subseteq live,
           Erasing(q)' => \A r \in held'[q].rows : Claimed(r),
           Carries(q)' => Carries(q) /\ held'[q].key = held[q].key
    PROVE  OneOwner'
<1>1. \A p \in Requests : Carries(p)' => Carries(p) /\ held'[p].key = held[p].key
  BY DEF Others, Carries
<1>2. \A r \in Ids : Claimed(r)' => Claimed(r)
  BY ClaimFrame
<1> QED
  BY <1>1, <1>2 DEF OneOwner

LEMMA ObjectFrame ==
    ASSUME ObjectThere, NEW q \in Requests, Others(q), stored \subseteq stored',
           contested \subseteq contested', UNCHANGED <<live, file, erased>>,
           pc'[q] \in {"weigh", "insert"} => held'[q].key \in stored' \cup contested'
    PROVE  ObjectThere'
  BY DEF ObjectThere, Others

LEMMA CountedFrame ==
    ASSUME Counted, NEW q \in Requests, Others(q), UNCHANGED <<live, used, mishaps>>,
           pc[q] = "count" <=> pc'[q] = "count"
    PROVE  Counted'
<1>1. Uncounted' = Uncounted
  BY DEF Uncounted, Others
<1> QED
  BY <1>1 DEF Counted

LEMMA FittingFrame ==
    ASSUME Fitting, NEW q \in Requests, Others(q), UNCHANGED <<live, home, mishaps, crowded>>,
           pc'[q] \in Admitted => pc[q] \in Admitted /\ Due(q)' = Due(q) /\ pc'[q] # "list"
    PROVE  Fitting'
<1>1. \A p \in Requests : pc'[p] \in Admitted => pc[p] \in Admitted /\ Due(p)' = Due(p)
  BY DEF Others, Due
<1>2. \A p \in Requests : pc'[p] = "list" => pc[p] = "list" /\ held'[p] = held[p]
  BY DEF Others, Admitted
<1>3. RowsOf("original")' = RowsOf("original")
  BY DEF RowsOf
<1> QED
  BY <1>1, <1>2, <1>3 DEF Fitting

\* A request that reads, answers, refuses or gives up.
LEMMA ReadKeeps ==
    ASSUME IInv, TypeOK', NEW q \in Requests, Others(q),
           UNCHANGED <<bucket, table, used, crowded, contested, erased, mishaps>>,
           held'[q].key \in 0 .. keys,
           pc[q] # "count", pc'[q] \notin Admitted \cup {"weigh"},
           pc'[q] = "idle" => held'[q].rows = {},
           Carries(q)' => Carries(q) /\ held'[q].key = held[q].key,
           pc'[q] = "edit" => held'[q].row \in Ids /\ file[held'[q].row] # 0,
           Erasing(q)' => held'[q].rows \subseteq live
    PROVE  IInv'
<1> USE DEF IInv, bucket, table
<1>1. HeldInv'
  <2>1. Carries(q)' => held'[q].key # 0
    BY DEF HeldInv
  <2>2. \A r \in live : file[r] # 0
    BY Bounds DEF TypeOK
  <2> QED
    BY <2>1, <2>2, HeldFrame DEF Admitted
<1>2. OneOwner'
  BY OwnerFrame DEF Claimed
<1>3. ObjectThere'
  BY ObjectFrame DEF Admitted
<1>4. Counted'
  BY CountedFrame DEF Admitted
<1>5. Fitting'
  BY FittingFrame
<1> QED
  BY <1>1, <1>2, <1>3, <1>4, <1>5

-----------------------------------------------------------------------------
(* Requests that only read, or end without writing. *)

LEMMA EndKeeps ==
    ASSUME IInv, NEW q \in Requests, NEW from, End(q, from), from # "count",
           UNCHANGED <<bucket, table, used, history>>
    PROVE  IInv'
<1> USE DEF history
<1>1. Moves(q, from, "idle") /\ held'[q] = Nothing
  BY EndMoves DEF IInv
<1>2. TypeOK'
  BY <1>1, TypeOfStep DEF IInv, TypeOK, Moves
<1>3. held'[q].key \in 0 .. keys
  BY <1>1, Bounds DEF Nothing, IInv, TypeOK
<1> QED
  BY <1>1, <1>2, <1>3, ReadKeeps DEF Moves, Carries, Erasing, Admitted, Nothing

LEMMA FetchKeeps ==
    ASSUME IInv, NEW q \in Requests, NEW r \in Ids, FetchForEdit(q, r) \/ FetchToDelete(q, r)
    PROVE  IInv'
<1>1. /\ r \in live /\ UNCHANGED <<bucket, table, used, history>>
      /\ \/ Goto(q, "idle", "edit") /\ Keeping(q, [Nothing EXCEPT !.row = r])
         \/ Goto(q, "idle", "erase") /\ Keeping(q, [Nothing EXCEPT !.row = r, !.rows = {r}])
  BY DEF FetchForEdit, FetchToDelete
<1>2. TypeOK /\ r \in 0 .. MaxRows /\ 0 \in 0 .. MaxKeys /\ 0 \in 0 .. keys
  BY Bounds DEF IInv, TypeOK, Ids
<1>3. /\ held' \in [Requests -> HeldType]
      /\ held'[q].key = 0 /\ held'[q].row = r /\ held'[q].rows \subseteq {r}
      /\ \A p \in Requests \ {q} : held'[p] = held[p]
  <2>1. PICK h \in {[Nothing EXCEPT !.row = r], [Nothing EXCEPT !.row = r, !.rows = {r}]} :
           Keeping(q, h)
    BY <1>1
  <2>2. h \in HeldType /\ h.key = 0 /\ h.row = r /\ h.rows \subseteq {r}
    BY <1>2 DEF Nothing, HeldType, Projects
  <2>3. held \in [Requests -> HeldType]
    BY <1>2 DEF TypeOK, HeldType
  <2> QED
    BY <2>1, <2>2, <2>3 DEF Keeping
<1>4. Moves(q, "idle", "edit") \/ Moves(q, "idle", "erase")
  BY <1>1, <1>2, <1>3, MovesFrom DEF Steps
<1>5. TypeOK'
  BY <1>1, <1>2, <1>4, TypeOfStep DEF Moves, TypeOK, history
<1>6. file[r] # 0
  BY <1>1, <1>2 DEF TypeOK
<1>7. /\ Others(q) /\ pc[q] = "idle" /\ pc'[q] \in {"edit", "erase"}
  BY <1>4 DEF Moves
<1> QED
  BY <1>1, <1>2, <1>3, <1>5, <1>6, <1>7, ReadKeeps DEF history, Carries, Erasing, Admitted

LEMMA FetchProjectKeeps ==
    ASSUME IInv, NEW q \in Requests, FetchProject(q)
    PROVE  IInv'
<1>1. /\ Goto(q, "idle", "cascade") /\ Keeping(q, [Nothing EXCEPT !.rows = RowsOf("original")])
      /\ UNCHANGED <<bucket, table, used, history>>
  BY DEF FetchProject
<1>2. TypeOK /\ RowsOf("original") \in SUBSET Ids /\ 0 \in 0 .. keys
  BY Bounds DEF IInv, TypeOK, RowsOf
<1>3. /\ held' \in [Requests -> HeldType]
      /\ held'[q].key = 0 /\ held'[q].rows \subseteq live
      /\ \A p \in Requests \ {q} : held'[p] = held[p]
  BY <1>1, <1>2, NothingTyped DEF TypeOK, HeldType, Keeping, Nothing, RowsOf
<1>4. Moves(q, "idle", "cascade")
  BY <1>1, <1>2, <1>3, MovesFrom DEF Steps
<1>5. TypeOK'
  BY <1>1, <1>2, <1>4, TypeOfStep DEF Moves, TypeOK, history
<1> QED
  BY <1>1, <1>2, <1>3, <1>4, <1>5, ReadKeeps DEF Moves, history, Carries, Erasing, Admitted

LEMMA RefuseFileKeeps ==
    ASSUME IInv, NEW q \in Requests, RefuseFile(q)
    PROVE  IInv'
<1>1. /\ Goto(q, "weigh", "discard") /\ held' = held
      /\ UNCHANGED <<bucket, table, used, history>>
  BY DEF RefuseFile, history
<1>2. Moves(q, "weigh", "discard")
  BY <1>1, MovesFrom DEF IInv, TypeOK, HeldType, Steps
<1>3. TypeOK'
  BY <1>1, <1>2, TypeOfStep DEF Moves, IInv, TypeOK, history
<1>4. held[q].key \in 0 .. keys
  BY DEF IInv, HeldInv
<1> QED
  BY <1>1, <1>2, <1>3, <1>4, ReadKeeps DEF Moves, history, Carries, Erasing, Admitted

\* The increment of a killed request is lost, and noted.
LEMMA KillRequestKeeps ==
    ASSUME IInv, NEW q \in Requests, KillRequest(q)
    PROVE  IInv'
<1>1. /\ End(q, pc[q]) /\ UNCHANGED <<bucket, table, used, crowded, contested, erased>>
      /\ IF pc[q] = "count" THEN Mishap ELSE UNCHANGED mishaps
  BY DEF KillRequest
<1>2. CASE pc[q] # "count"
  <2>1. UNCHANGED history
    BY <1>1, <1>2 DEF history
  <2> QED
    BY <1>1, <1>2, <2>1, EndKeeps
<1>3. CASE pc[q] = "count"
  <2>1. Moves(q, "count", "idle") /\ held'[q] = Nothing
    BY <1>1, <1>3, EndMoves DEF IInv
  <2>2. mishaps' \in 0 .. MaxMishaps /\ mishaps' # 0
    BY <1>1, <1>3, Bounds DEF Mishap, IInv, TypeOK
  <2>3. TypeOK'
    BY <1>1, <2>1, <2>2, TypeOfStep DEF Moves, IInv, TypeOK
  <2>4. Others(q) /\ pc'[q] = "idle"
    BY <2>1 DEF Moves
  <2>5. UNCHANGED <<stored, presigned, keys, live, file, contested, erased>>
    BY <1>1 DEF bucket, table
  <2>6. HeldInv'
    <3>1. held'[q].key \in 0 .. keys
      BY <2>1, Bounds DEF Nothing, IInv, TypeOK
    <3> QED
      BY <2>1, <2>4, <2>5, <3>1, HeldFrame DEF IInv, Carries, Erasing, Nothing
  <2>7. OneOwner' /\ ObjectThere'
    BY <2>4, <2>5, OwnerFrame, ObjectFrame DEF IInv, Carries, Erasing
  <2>8. Counted'
    <3>1. Uncounted' = Uncounted \ {q}
      BY <2>4 DEF Uncounted, Others
    <3>2. IsFiniteSet(Uncounted')
      BY <3>1, FS_RemoveElement DEF IInv, Counted
    <3> QED
      BY <2>2, <3>2 DEF Counted
  <2>9. Fitting'
    BY <2>2 DEF Fitting
  <2> QED
    BY <2>3, <2>6, <2>7, <2>8, <2>9 DEF IInv
<1> QED
  BY <1>2, <1>3

-----------------------------------------------------------------------------
(* Uploads and confirmations. *)

\* A request is admitted for n rows: nobody else was under way, so the counter was right.
LEMMA AdmissionFits ==
    ASSUME IInv, NEW q \in Requests, NEW n \in Nat, Admit(q), Fits(n), Others(q),
           pc[q] \notin Admitted, UNCHANGED <<live, home, mishaps>>, Due(q)' = n,
           pc'[q] = "list" => RowsOf("original") \subseteq held'[q].rows
    PROVE  Fitting'
<1> SUFFICES ASSUME mishaps = 0, ~crowded'
             PROVE  /\ Cardinality(live) <= Limit
                    /\ \A p, x \in Requests : pc'[p] \in Admitted /\ pc'[x] \in Admitted => p = x
                    /\ \A p \in Requests : pc'[p] \in Admitted => Cardinality(live) + Due(p)' <= Limit
                    /\ \A p \in Requests : pc'[p] = "list" => RowsOf("original") \subseteq held'[p].rows
  BY DEF Fitting, RowsOf
<1>1. ~crowded /\ \A p \in Requests \ {q} : pc[p] \notin Admitted
  BY DEF Admit, Crowd
<1>2. Uncounted = {}
  BY <1>1 DEF Uncounted, Admitted
<1>3. used = Cardinality(live)
  BY <1>2, FS_EmptySet DEF IInv, TypeOK, Counted
<1>4. Cardinality(live) + n <= Limit
  BY <1>3 DEF Fits
<1>5. \A p \in Requests : pc'[p] \in Admitted => p = q
  BY <1>1 DEF Others
<1>6. \A p \in Requests : pc'[p] = "list" => p = q
  BY <1>5 DEF Admitted
<1> QED
  BY <1>1, <1>4, <1>5, <1>6 DEF IInv, Fitting

\* Nobody has a key that was never used.
LEMMA NewKeyFree ==
    ASSUME IInv
    PROVE  /\ keys \in Nat
           /\ \A r \in Ids : file[r] # keys + 1
           /\ \A p \in Requests : held[p].key # keys + 1
<1>1. keys \in Nat
  BY Bounds DEF IInv, TypeOK
<1> QED
  BY <1>1 DEF IInv, HeldInv

LEMMA AdmitUploadKeeps ==
    ASSUME IInv, NEW q \in Requests, AdmitUpload(q)
    PROVE  IInv'
<1>1. /\ Fits(1) /\ Goto(q, "idle", "name") /\ Admit(q) /\ held' = held
      /\ UNCHANGED <<bucket, table, used, mishaps, contested, erased>>
  BY DEF AdmitUpload
<1>2. Moves(q, "idle", "name")
  BY <1>1, MovesFrom DEF IInv, TypeOK, HeldType, Steps, Admitted
<1>3. TypeOK'
  BY <1>1, <1>2, TypeOfStep DEF Moves, IInv, TypeOK, Admit
<1>4. Others(q) /\ pc[q] = "idle" /\ pc'[q] = "name"
  BY <1>2 DEF Moves
<1>5. UNCHANGED <<stored, presigned, keys, live, home, file>>
  BY <1>1 DEF bucket, table
<1>6. held[q].key \in 0 .. keys /\ held[q].rows = {}
  BY <1>4 DEF IInv, HeldInv
<1>7. HeldInv'
  BY <1>1, <1>4, <1>5, <1>6, HeldFrame DEF IInv, Carries, Erasing
<1>8. OneOwner'
  BY <1>1, <1>4, <1>5, OwnerFrame DEF IInv, Carries, Erasing
<1>9. ObjectThere'
  BY <1>1, <1>4, <1>5, ObjectFrame DEF IInv
<1>10. Counted'
  BY <1>1, <1>4, <1>5, CountedFrame DEF IInv
<1>11. Fitting'
  <2>1. Due(q)' = 1
    BY <1>1, <1>4, <1>6, FS_EmptySet DEF Due
  <2> QED
    BY <1>1, <1>4, <1>5, <2>1, AdmissionFits DEF Admitted
<1> QED
  BY <1>3, <1>7, <1>8, <1>9, <1>10, <1>11 DEF IInv

\* A key that somebody has already is contested from the moment another takes it.
LEMMA TakeKeeps ==
    ASSUME IInv, NEW q \in Requests, NEW k \in Keys, Take(q, k), Others(q),
           ~Erasing(q), ~Erasing(q)', ~Carries(q), held'[q].key = k,
           UNCHANGED <<live, file>>
    PROVE  OneOwner' /\ contested \subseteq contested' /\ contested' \in SUBSET Keys
<1>1. contested \subseteq contested' /\ contested' \in SUBSET Keys
  BY DEF Take, IInv, TypeOK
<1>2. ASSUME NEW r \in Ids, Claimed(r), file[r] = k
      PROVE  k \in contested'
  <2>1. CASE r \in live
    BY <1>2, <2>1 DEF Take
  <2>2. ASSUME NEW p \in Requests, Erasing(p), r \in held[p].rows
        PROVE  k \in contested'
    <3>1. p # q /\ Holds(p, k)
      BY <1>2, <2>2 DEF Holds, Erasing
    <3> QED
      BY <3>1 DEF Take
  <2> QED
    BY <1>2, <2>1, <2>2 DEF Claimed
<1>3. ASSUME NEW p \in Requests \ {q}, Carries(p), held[p].key = k
      PROVE  k \in contested'
  <2>1. Holds(p, k)
    BY <1>3 DEF Holds, Carries
  <2> QED
    BY <2>1 DEF Take
<1>4. \A r \in Ids : Claimed(r)' => Claimed(r)
  BY ClaimFrame
<1>5. \A p \in Requests \ {q} : held'[p] = held[p] /\ (Carries(p)' => Carries(p))
  BY DEF Others, Carries
<1>6. \A r, s \in Ids : Claimed(r)' /\ Claimed(s)' /\ file[r] = file[s]
                            => r = s \/ file[r] \in contested'
  BY <1>1, <1>4 DEF IInv, OneOwner
<1>7. \A p \in Requests, r \in Ids : Carries(p)' /\ Claimed(r)' /\ file[r] = held'[p].key
                                           => file[r] \in contested'
  BY <1>1, <1>2, <1>4, <1>5 DEF IInv, OneOwner
<1>8. \A p, x \in Requests : Carries(p)' /\ Carries(x)' /\ held'[p].key = held'[x].key
                                  => p = x \/ held'[p].key \in contested'
  BY <1>1, <1>3, <1>5 DEF IInv, OneOwner
<1> QED
  BY <1>1, <1>6, <1>7, <1>8 DEF OneOwner

\* The name may be that of a file deleted before, or about to be.
LEMMA NameFileKeeps ==
    ASSUME IInv, NEW q \in Requests, NEW k \in Keys, NameFile(q, k)
    PROVE  IInv'
<1>1. /\ Goto(q, "name", "write") /\ k \in (1 .. keys + 1) \ stored /\ k <= MaxKeys
      /\ keys' = IF k > keys THEN k ELSE keys
      /\ held' = [held EXCEPT ![q] = [held[q] EXCEPT !.key = k]]
      /\ Take(q, k)
      /\ UNCHANGED <<stored, presigned, project, live, home, file, used, mishaps, crowded, erased>>
  BY DEF NameFile, Keeping, table
<1>2. /\ TypeOK /\ held[q] \in HeldType /\ k \in 0 .. MaxKeys /\ keys \in Nat
      /\ keys' \in 0 .. MaxKeys /\ keys <= keys' /\ k \in 1 .. keys'
  BY <1>1, Bounds DEF IInv, TypeOK, Keys, HeldType
<1>3. /\ held' \in [Requests -> HeldType]
      /\ held'[q].key = k /\ held'[q].rows = held[q].rows
      /\ \A p \in Requests \ {q} : held'[p] = held[p]
  BY <1>1, <1>2 DEF TypeOK, HeldType
<1>4. Moves(q, "name", "write")
  BY <1>1, <1>2, <1>3, MovesFrom DEF Steps, Admitted
<1>5. Others(q) /\ pc[q] = "name" /\ pc'[q] = "write"
  BY <1>4 DEF Moves
<1>6. OneOwner' /\ contested \subseteq contested' /\ contested' \in SUBSET Keys
  BY <1>1, <1>3, <1>5, TakeKeeps DEF Carries, Erasing
<1>7. /\ \A n \in 0 .. keys : n \in 0 .. keys'
      /\ \A n \in 1 .. keys : n \in 1 .. keys'
  BY <1>2
<1>8. TypeOK'
  <2>1. \A r \in live : file[r] \in 1 .. keys'
    BY <1>2, <1>7 DEF TypeOK
  <2>2. stored \in SUBSET (1 .. keys') /\ presigned \in SUBSET (1 .. keys')
    BY <1>2, <1>7 DEF TypeOK
  <2> QED
    BY <1>1, <1>2, <1>4, <1>6, <2>1, <2>2 DEF TypeOK, Moves, HeldType
<1>9. HeldInv'
  <2>1. k \in 0 .. keys' /\ k # 0 /\ held[q].rows = {}
    BY <1>2, <1>5 DEF IInv, HeldInv
  <2>2. \A p \in Requests \ {q} : held'[p] = held[p] /\ pc'[p] = pc[p]
    BY <1>5 DEF Others
  <2>3. \A r \in Ids : file[r] \in 0 .. keys'
    BY <1>7 DEF IInv, HeldInv
  <2>4. ASSUME NEW p \in Requests
        PROVE  /\ held'[p].key \in 0 .. keys'
               /\ Carries(p)' => held'[p].key # 0
               /\ pc'[p] \in {"idle", "name", "write", "weigh"} => held'[p].rows = {}
               /\ pc'[p] = "edit" => held'[p].row \in Ids /\ file[held'[p].row] # 0
               /\ Erasing(p)' => \A r \in held'[p].rows : file[r] # 0
    <3>1. CASE p = q
      BY <1>3, <1>5, <2>1, <3>1 DEF Erasing
    <3>2. CASE p # q
      BY <1>7, <2>2, <3>2 DEF IInv, HeldInv, Carries, Erasing
    <3> QED
      BY <3>1, <3>2
  <2> QED
    BY <1>1, <2>3, <2>4 DEF HeldInv
<1>10. ObjectThere'
  BY <1>1, <1>5, <1>6, ObjectFrame DEF IInv
<1>11. Counted'
  BY <1>1, <1>5, CountedFrame DEF IInv
<1>12. Fitting'
  <2>1. Due(q)' = Due(q)
    BY <1>3, <1>5 DEF Due
  <2> QED
    BY <1>1, <1>5, <2>1, FittingFrame DEF IInv, Admitted
<1> QED
  BY <1>6, <1>8, <1>9, <1>10, <1>11, <1>12 DEF IInv

LEMMA WriteFileKeeps ==
    ASSUME IInv, NEW q \in Requests, WriteFile(q)
    PROVE  IInv'
<1>1. /\ Goto(q, "write", "insert") /\ stored' = stored \cup {held[q].key} /\ held' = held
      /\ UNCHANGED <<presigned, keys, project, live, home, file, used, mishaps, crowded,
                     contested, erased>>
  BY DEF WriteFile, table, history
<1>2. Moves(q, "write", "insert")
  BY <1>1, MovesFrom DEF IInv, TypeOK, HeldType, Steps, Admitted
<1>3. Others(q) /\ pc[q] = "write" /\ pc'[q] = "insert"
  BY <1>2 DEF Moves
<1>4. held[q].key \in 0 .. keys /\ held[q].key # 0 /\ keys \in Nat
  BY <1>3, Bounds DEF IInv, HeldInv, Carries, TypeOK
<1>5. TypeOK'
  <2>1. held[q].key \in 1 .. keys
    BY <1>4
  <2> QED
    BY <1>1, <1>2, <2>1 DEF IInv, TypeOK, Moves, HeldType
<1>6. HeldInv'
  BY <1>1, <1>3, <1>4, HeldFrame DEF IInv, Erasing
<1>7. OneOwner'
  BY <1>1, <1>3, OwnerFrame DEF IInv, Carries, Erasing
<1>8. ObjectThere'
  BY <1>1, <1>3, ObjectFrame DEF IInv
<1>9. Counted'
  BY <1>1, <1>3, CountedFrame DEF IInv
<1>10. Fitting'
  <2>1. Due(q)' = Due(q)
    BY <1>1, <1>3 DEF Due
  <2> QED
    BY <1>1, <1>3, <2>1, FittingFrame DEF IInv, Admitted
<1> QED
  BY <1>5, <1>6, <1>7, <1>8, <1>9, <1>10 DEF IInv

LEMMA HeadFileKeeps ==
    ASSUME IInv, NEW q \in Requests, NEW k \in Keys, HeadFile(q, k)
    PROVE  IInv'
<1>1. /\ Goto(q, "idle", "weigh") /\ k \in stored /\ Take(q, k)
      /\ held' = [held EXCEPT ![q] = [Nothing EXCEPT !.key = k]]
      /\ UNCHANGED <<bucket, table, used, mishaps, crowded, erased>>
  BY DEF HeadFile, Found, Keeping
<1>2. TypeOK /\ k \in 0 .. MaxKeys /\ k \in 1 .. keys
  BY <1>1, Bounds DEF IInv, TypeOK, Keys
<1>3. /\ held' \in [Requests -> HeldType]
      /\ held'[q].key = k /\ held'[q].rows = {}
      /\ \A p \in Requests \ {q} : held'[p] = held[p]
  BY <1>1, <1>2, NothingTyped DEF TypeOK, HeldType, Nothing
<1>4. Moves(q, "idle", "weigh")
  BY <1>1, <1>2, <1>3, MovesFrom DEF Steps
<1>5. Others(q) /\ pc[q] = "idle" /\ pc'[q] = "weigh"
  BY <1>4 DEF Moves
<1>6. UNCHANGED <<stored, presigned, keys, live, home, file, erased>>
  BY <1>1 DEF bucket, table
<1>7. OneOwner' /\ contested \subseteq contested' /\ contested' \in SUBSET Keys
  BY <1>1, <1>3, <1>5, <1>6, TakeKeeps DEF Carries, Erasing
<1>8. TypeOK'
  BY <1>1, <1>2, <1>4, <1>7, TypeOfStep DEF Moves, TypeOK
<1>9. HeldInv'
  <2>1. k # 0 /\ k \in 0 .. keys
    BY <1>2, Bounds DEF TypeOK
  <2> QED
    BY <1>3, <1>5, <1>6, <2>1, HeldFrame DEF IInv, Erasing
<1>10. ObjectThere'
  BY <1>1, <1>3, <1>5, <1>6, <1>7, ObjectFrame DEF IInv
<1>11. Counted'
  BY <1>1, <1>5, <1>6, CountedFrame DEF IInv
<1>12. Fitting'
  BY <1>1, <1>5, <1>6, FittingFrame DEF IInv, Admitted
<1> QED
  BY <1>7, <1>8, <1>9, <1>10, <1>11, <1>12 DEF IInv

LEMMA AdmitFileKeeps ==
    ASSUME IInv, NEW q \in Requests, AdmitFile(q)
    PROVE  IInv'
<1>1. /\ Fits(1) /\ Goto(q, "weigh", "insert") /\ Admit(q) /\ held' = held
      /\ UNCHANGED <<bucket, table, used, mishaps, contested, erased>>
  BY DEF AdmitFile
<1>2. Moves(q, "weigh", "insert")
  BY <1>1, MovesFrom DEF IInv, TypeOK, HeldType, Steps, Admitted
<1>3. TypeOK'
  BY <1>1, <1>2, TypeOfStep DEF Moves, IInv, TypeOK, Admit
<1>4. Others(q) /\ pc[q] = "weigh" /\ pc'[q] = "insert"
  BY <1>2 DEF Moves
<1>5. UNCHANGED <<stored, presigned, keys, live, home, file>>
  BY <1>1 DEF bucket, table
<1>6. /\ held[q].key \in 0 .. keys /\ held[q].key # 0 /\ held[q].rows = {}
      /\ held[q].key \in stored \cup contested
  BY <1>4 DEF IInv, HeldInv, ObjectThere, Carries
<1>7. HeldInv'
  BY <1>1, <1>4, <1>5, <1>6, HeldFrame DEF IInv, Erasing
<1>8. OneOwner'
  BY <1>1, <1>4, <1>5, OwnerFrame DEF IInv, Carries, Erasing
<1>9. ObjectThere'
  BY <1>1, <1>4, <1>5, <1>6, ObjectFrame DEF IInv
<1>10. Counted'
  BY <1>1, <1>4, <1>5, CountedFrame DEF IInv
<1>11. Fitting'
  <2>1. Due(q)' = 1
    BY <1>1, <1>4, <1>6, FS_EmptySet DEF Due
  <2> QED
    BY <1>1, <1>4, <1>5, <2>1, AdmissionFits DEF Admitted
<1> QED
  BY <1>3, <1>7, <1>8, <1>9, <1>10, <1>11 DEF IInv

\* The object erased is nobody else's, unless its key is contested.
LEMMA DiscardFileKeeps ==
    ASSUME IInv, NEW q \in Requests, DiscardFile(q)
    PROVE  IInv'
<1>1. /\ End(q, "discard") /\ stored' = stored \ {held[q].key}
      /\ UNCHANGED <<presigned, keys, project, live, home, file, used, mishaps, crowded,
                     contested, erased>>
  BY DEF DiscardFile, table, history
<1>2. Moves(q, "discard", "idle") /\ held'[q] = Nothing
  BY <1>1, EndMoves DEF IInv
<1>3. TypeOK'
  BY <1>1, <1>2 DEF Moves, IInv, TypeOK, HeldType
<1>4. Others(q) /\ pc[q] = "discard" /\ pc'[q] = "idle"
  BY <1>2 DEF Moves
<1>5. HeldInv'
  <2>1. held'[q].key \in 0 .. keys
    BY <1>2, Bounds DEF Nothing, IInv, TypeOK
  <2> QED
    BY <1>1, <1>2, <1>4, <2>1, HeldFrame DEF IInv, Carries, Erasing, Nothing
<1>6. OneOwner'
  BY <1>1, <1>4, OwnerFrame DEF IInv, Carries, Erasing
<1>7. ObjectThere'
  <2>1. \A r \in live : file[r] = held[q].key => file[r] \in contested
    BY <1>4 DEF IInv, TypeOK, OneOwner, Carries, Claimed
  <2>2. \A p \in Requests \ {q} : pc[p] \in {"weigh", "insert"} /\ held[p].key = held[q].key
                                      => held[p].key \in contested
    BY <1>4 DEF IInv, OneOwner, Carries
  <2>3. live \subseteq Ids
    BY DEF IInv, TypeOK
  <2>4. \A p \in Requests : pc'[p] \in {"weigh", "insert"} =>
            p # q /\ pc[p] = pc'[p] /\ held'[p] = held[p]
    BY <1>4 DEF Others
  <2> QED
    BY <1>1, <2>1, <2>2, <2>3, <2>4 DEF IInv, ObjectThere
<1>8. Counted'
  BY <1>1, <1>4, CountedFrame DEF IInv
<1>9. Fitting'
  BY <1>1, <1>4, FittingFrame DEF IInv, Admitted
<1> QED
  BY <1>3, <1>5, <1>6, <1>7, <1>8, <1>9 DEF IInv

-----------------------------------------------------------------------------
(* The row and the counter. *)

\* The key passes from the request to the row.
LEMMA InsertRowKeeps ==
    ASSUME IInv, NEW q \in Requests, NEW r \in Ids, InsertRow(q, r)
    PROVE  IInv'
<1>1. /\ Goto(q, "insert", "count") /\ file[r] = 0
      /\ live' = live \cup {r}
      /\ home' = [home EXCEPT ![r] = held[q].into]
      /\ file' = [file EXCEPT ![r] = held[q].key]
      /\ held' = [held EXCEPT ![q] = [held[q] EXCEPT !.key = 0]]
      /\ UNCHANGED <<stored, presigned, keys, project, used, mishaps, crowded, contested, erased>>
  BY DEF InsertRow, NextRow, Keeping, bucket, history
<1>2. TypeOK /\ 0 \in 0 .. MaxKeys /\ held[q] \in HeldType
  BY Bounds DEF IInv, TypeOK, HeldType
<1>3. /\ held' \in [Requests -> HeldType]
      /\ held'[q].key = 0 /\ held'[q].rows = held[q].rows
      /\ \A p \in Requests \ {q} : held'[p] = held[p]
  BY <1>1, <1>2 DEF TypeOK, HeldType
<1>4. Moves(q, "insert", "count")
  BY <1>1, <1>2, <1>3, MovesFrom DEF Steps, Admitted
<1>5. Others(q) /\ pc[q] = "insert" /\ pc'[q] = "count"
  BY <1>4 DEF Moves
<1>6. held[q].key \in 0 .. keys /\ held[q].key # 0 /\ keys \in 0 .. MaxKeys
  BY <1>2, <1>5 DEF IInv, HeldInv, Carries, TypeOK
<1>7. /\ file'[r] = held[q].key
      /\ \A s \in Ids \ {r} : file'[s] = file[s]
      /\ r \notin live
  BY <1>1, <1>2 DEF TypeOK
<1>8. TypeOK'
  <2>1. home' \in [Ids -> Projects]
    BY <1>1, <1>2 DEF TypeOK, HeldType
  <2>2. file' \in [Ids -> 0 .. MaxKeys]
    <3>1. held[q].key \in 0 .. MaxKeys
      BY <1>2 DEF HeldType
    <3> QED
      BY <1>1, <1>2, <3>1 DEF TypeOK
  <2>3. \A s \in live' : file'[s] \in 1 .. keys
    BY <1>1, <1>2, <1>6, <1>7 DEF TypeOK
  <2> QED
    BY <1>1, <1>2, <1>4, <2>1, <2>2, <2>3 DEF TypeOK, Moves, HeldType
<1>9. HeldInv'
  <2>1. \A s \in Ids : file'[s] \in 0 .. keys /\ (file[s] # 0 => file'[s] # 0)
    BY <1>1, <1>6, <1>7 DEF IInv, HeldInv
  <2>2. \A p \in Requests : held'[p].key \in 0 .. keys
    BY <1>2, <1>3, <1>6, Bounds DEF IInv, HeldInv, TypeOK
  <2>3. \A p \in Requests : p # q => held'[p] = held[p] /\ pc'[p] = pc[p]
    BY <1>5 DEF Others
  <2> QED
    BY <1>1, <1>5, <2>1, <2>2, <2>3 DEF IInv, HeldInv, Carries, Erasing
<1>10. OneOwner'
  <2>1. Carries(q) /\ ~Carries(q)'
    BY <1>5 DEF Carries
  <2>2. \A p \in Requests \ {q} : held'[p] = held[p] /\ (Carries(p)' => Carries(p))
    BY <1>5 DEF Others, Carries
  <2>3. \A s \in Ids : Claimed(s) /\ file[s] = held[q].key => held[q].key \in contested
    BY <2>1 DEF IInv, OneOwner
  <2>4. \A p \in Requests \ {q} : Carries(p) /\ held[p].key = held[q].key => held[q].key \in contested
    BY <2>1 DEF IInv, OneOwner
  <2>5. \A s \in Ids \ {r} : Claimed(s)' => Claimed(s)
    BY <1>1, <1>5 DEF Claimed, Others, Erasing
  <2>6. \A s, t \in Ids : Claimed(s)' /\ Claimed(t)' /\ file'[s] = file'[t]
                            => s = t \/ file'[s] \in contested
    BY <1>7, <2>3, <2>5 DEF IInv, OneOwner
  <2>7. \A p \in Requests, s \in Ids : Carries(p)' /\ Claimed(s)' /\ file'[s] = held'[p].key
                                          => file'[s] \in contested
    BY <1>7, <2>1, <2>2, <2>4, <2>5 DEF IInv, OneOwner
  <2>8. \A p, x \in Requests : Carries(p)' /\ Carries(x)' /\ held'[p].key = held'[x].key
                                  => p = x \/ held'[p].key \in contested
    BY <2>1, <2>2 DEF IInv, OneOwner
  <2> QED
    BY <1>1, <2>6, <2>7, <2>8 DEF OneOwner
<1>11. ObjectThere'
  <2>1. held[q].key \in stored \cup contested
    BY <1>5 DEF IInv, ObjectThere
  <2>2. \A s \in live' \ erased' : file'[s] \in stored \cup contested
    BY <1>1, <1>2, <1>7, <2>1 DEF IInv, ObjectThere, TypeOK
  <2> QED
    BY <1>1, <1>5, <2>2 DEF IInv, ObjectThere, Others
<1>12. Cardinality(live') = Cardinality(live) + 1 /\ Cardinality(live) \in Nat
  BY <1>1, <1>2, <1>7, RowsFinite, FS_AddElement DEF TypeOK
<1>13. Counted'
  <2>1. Uncounted' = Uncounted \cup {q} /\ q \notin Uncounted
    BY <1>5 DEF Uncounted, Others
  <2>2. IsFiniteSet(Uncounted') /\ Cardinality(Uncounted') = Cardinality(Uncounted) + 1
    BY <2>1, FS_AddElement DEF IInv, Counted
  <2>3. Cardinality(Uncounted) \in Nat /\ used \in Int
    BY <1>2, FS_CardinalityType DEF IInv, Counted, TypeOK
  <2> QED
    BY <1>1, <1>12, <2>2, <2>3 DEF IInv, Counted
<1>14. Fitting'
  <2> SUFFICES ASSUME mishaps = 0, ~crowded
               PROVE  /\ Cardinality(live') <= Limit
                      /\ \A p, x \in Requests : pc'[p] \in Admitted /\ pc'[x] \in Admitted => p = x
                      /\ \A p \in Requests : pc'[p] \in Admitted => Cardinality(live') + Due(p)' <= Limit
                      /\ \A p \in Requests : pc'[p] # "list"
    BY <1>1 DEF Fitting
  <2>1. /\ Cardinality(live) + Cardinality(held[q].rows) + 1 <= Limit
        /\ \A p \in Requests : pc[p] \in Admitted => p = q
    BY <1>5, <1>12, <1>2, RowsFinite, Bounds DEF IInv, Fitting, Due, Admitted, HeldType
  <2>2. \A p \in Requests : pc'[p] \in Admitted => p = q
    BY <1>5, <2>1 DEF Others
  <2>3. Due(q)' = Cardinality(held[q].rows) /\ Cardinality(held[q].rows) \in Nat
    BY <1>2, <1>3, <1>5, RowsFinite DEF Due, HeldType
  <2>4. \A p \in Requests : pc'[p] # "list"
    BY <1>5, <2>2 DEF Admitted
  <2> QED
    BY <1>12, <2>1, <2>2, <2>3, <2>4, Bounds
<1> QED
  BY <1>8, <1>9, <1>10, <1>11, <1>13, <1>14 DEF IInv

LEMMA CountRowKeeps ==
    ASSUME IInv, NEW q \in Requests, CountRow(q)
    PROVE  IInv'
<1>1. /\ used' = used + 1 /\ UNCHANGED <<bucket, table, history>>
      /\ \/ End(q, "count")
         \/ Goto(q, "count", "copy") /\ held' = held
  BY DEF CountRow
<1>2. UNCHANGED <<stored, presigned, keys, project, live, home, file, mishaps, crowded, contested,
                  erased>>
  BY <1>1 DEF bucket, table, history
<1>3. \/ Moves(q, "count", "idle") /\ held'[q] = Nothing
      \/ Moves(q, "count", "copy") /\ held'[q] = held[q]
  BY <1>1, EndMoves, MovesFrom DEF IInv, TypeOK, HeldType, Steps, Admitted
<1>4. /\ Others(q) /\ pc[q] = "count" /\ pc'[q] \in {"idle", "copy"}
      /\ held' \in [Requests -> HeldType] /\ pc' \in [Requests -> Steps]
  BY <1>3 DEF Moves
<1>5. TypeOK'
  BY <1>1, <1>2, <1>4 DEF IInv, TypeOK, HeldType
<1>6. HeldInv'
  <2>1. held'[q].key \in 0 .. keys
    BY <1>3, Bounds DEF IInv, HeldInv, Nothing, TypeOK
  <2>2. pc'[q] = "idle" => held'[q].rows = {}
    BY <1>3 DEF Moves, Nothing
  <2> QED
    BY <1>2, <1>4, <2>1, <2>2, HeldFrame DEF IInv, Carries, Erasing
<1>7. OneOwner' /\ ObjectThere'
  BY <1>2, <1>4, OwnerFrame, ObjectFrame DEF IInv, Carries, Erasing
<1>8. Counted'
  <2>1. Uncounted' = Uncounted \ {q} /\ q \in Uncounted
    BY <1>4 DEF Uncounted, Others
  <2>2. IsFiniteSet(Uncounted') /\ Cardinality(Uncounted') = Cardinality(Uncounted) - 1
    BY <2>1, FS_RemoveElement DEF IInv, Counted
  <2>3. Cardinality(Uncounted) \in Nat /\ used \in Int
    BY FS_CardinalityType DEF IInv, Counted, TypeOK
  <2> QED
    BY <1>1, <1>2, <2>2, <2>3 DEF IInv, Counted
<1>9. Fitting'
  <2>1. pc'[q] \in Admitted => pc[q] \in Admitted /\ Due(q)' = Due(q)
    BY <1>3, <1>4 DEF Due, Moves, Admitted
  <2> QED
    BY <1>2, <1>4, <2>1, FittingFrame DEF IInv
<1> QED
  BY <1>5, <1>6, <1>7, <1>8, <1>9 DEF IInv

-----------------------------------------------------------------------------
(* Duplication of the project. *)

LEMMA AdmitCopyKeeps ==
    ASSUME IInv, NEW q \in Requests, AdmitCopy(q)
    PROVE  IInv'
<1> DEFINE n == Cardinality(RowsOf("original"))
<1>1. /\ Fits(n) /\ Goto(q, "idle", "list") /\ Admit(q)
      /\ held' = [held EXCEPT ![q] = [Nothing EXCEPT !.rows = RowsOf("original"), !.into = "copy"]]
      /\ project' = [project EXCEPT !["copy"] = "open"]
      /\ UNCHANGED <<stored, presigned, keys, live, home, file, used, mishaps, contested, erased>>
  BY DEF AdmitCopy, Keeping, bucket
<1>2. TypeOK /\ RowsOf("original") \in SUBSET Ids /\ 0 \in 0 .. keys
  BY Bounds DEF IInv, TypeOK, RowsOf
<1>3. /\ held' \in [Requests -> HeldType]
      /\ held'[q].key = 0 /\ held'[q].rows = RowsOf("original")
      /\ \A p \in Requests \ {q} : held'[p] = held[p]
  BY <1>1, <1>2, NothingTyped DEF TypeOK, HeldType, Nothing, Projects
<1>4. Moves(q, "idle", "list")
  BY <1>1, <1>2, <1>3, MovesFrom DEF Steps, Admitted
<1>5. TypeOK'
  BY <1>1, <1>2, <1>4 DEF TypeOK, Moves, HeldType, Admit
<1>6. Others(q) /\ pc[q] = "idle" /\ pc'[q] = "list"
  BY <1>4 DEF Moves
<1>7. HeldInv'
  BY <1>1, <1>2, <1>3, <1>6, HeldFrame DEF IInv, Carries, Erasing
<1>8. OneOwner' /\ ObjectThere'
  BY <1>1, <1>6, OwnerFrame, ObjectFrame DEF IInv, Carries, Erasing
<1>9. Counted'
  BY <1>1, <1>6, CountedFrame DEF IInv
<1>10. Fitting'
  <2>1. Due(q)' = n /\ n \in Nat
    BY <1>2, <1>3, <1>6, RowsFinite DEF Due
  <2> HIDE DEF n
  <2> QED
    BY <1>1, <1>3, <1>6, <2>1, AdmissionFits DEF Admitted
<1> QED
  BY <1>5, <1>7, <1>8, <1>9, <1>10 DEF IInv

\* The models listed were weighed, or somebody else was admitted meanwhile.
LEMMA ListModelsKeeps ==
    ASSUME IInv, NEW q \in Requests, ListModels(q)
    PROVE  IInv'
<1> DEFINE rows == RowsOf("original")
<1>1. CASE End(q, "list") /\ UNCHANGED <<bucket, table, used, history>>
  BY <1>1, EndKeeps
<1>2. CASE Goto(q, "list", "copy") /\ Keeping(q, [held[q] EXCEPT !.rows = rows])
           /\ UNCHANGED <<bucket, table, used, history>>
  <2>1. TypeOK /\ rows \in SUBSET Ids /\ held[q] \in HeldType
    BY DEF IInv, TypeOK, RowsOf, HeldType
  <2> HIDE DEF rows
  <2>2. /\ held' \in [Requests -> HeldType]
        /\ held'[q].key = held[q].key /\ held'[q].rows = rows
        /\ \A p \in Requests \ {q} : held'[p] = held[p]
    BY <1>2, <2>1 DEF TypeOK, HeldType, Keeping
  <2>3. Moves(q, "list", "copy")
    BY <1>2, <2>1, <2>2, MovesFrom DEF Steps, Admitted
  <2>4. TypeOK'
    BY <1>2, <2>1, <2>3, TypeOfStep DEF Moves, TypeOK, history
  <2>5. Others(q) /\ pc[q] = "list" /\ pc'[q] = "copy"
    BY <2>3 DEF Moves
  <2>6. UNCHANGED <<stored, presigned, keys, project, live, home, file, mishaps, crowded, contested,
                    erased>>
    BY <1>2 DEF bucket, table, history
  <2>7. HeldInv'
    <3>1. held[q].key \in 0 .. keys
      BY DEF IInv, HeldInv
    <3> QED
      BY <2>2, <2>5, <2>6, <3>1, HeldFrame DEF IInv, Carries, Erasing
  <2>8. OneOwner' /\ ObjectThere'
    BY <2>5, <2>6, OwnerFrame, ObjectFrame DEF IInv, Carries, Erasing
  <2>9. Counted'
    BY <1>2, <2>5, <2>6, CountedFrame DEF IInv
  <2>10. Fitting'
    <3> SUFFICES ASSUME mishaps = 0, ~crowded
                 PROVE  /\ Cardinality(live) <= Limit
                        /\ \A p, x \in Requests : pc'[p] \in Admitted /\ pc'[x] \in Admitted => p = x
                        /\ \A p \in Requests : pc'[p] \in Admitted => Cardinality(live) + Due(p)' <= Limit
                        /\ \A p \in Requests : pc'[p] # "list"
      BY <2>6 DEF Fitting
    <3>1. /\ Cardinality(live) <= Limit
          /\ Cardinality(live) + Cardinality(held[q].rows) <= Limit
          /\ \A p \in Requests : pc[p] \in Admitted => p = q
          /\ rows \subseteq held[q].rows
      BY <2>5 DEF IInv, Fitting, Due, Admitted, rows
    <3>2. \A p \in Requests : pc'[p] \in Admitted => p = q
      BY <2>5, <3>1 DEF Others
    <3>3. Due(q)' = Cardinality(rows)
      BY <2>2, <2>5 DEF Due
    <3>4. /\ Cardinality(rows) <= Cardinality(held[q].rows) /\ Cardinality(rows) \in Nat
          /\ Cardinality(held[q].rows) \in Nat /\ Cardinality(live) \in Nat
      <4>1. IsFiniteSet(held[q].rows) /\ Cardinality(held[q].rows) \in Nat
        BY <2>1, RowsFinite DEF HeldType
      <4>2. Cardinality(rows) \in Nat /\ Cardinality(live) \in Nat
        BY <2>1, RowsFinite DEF TypeOK
      <4>3. Cardinality(rows) <= Cardinality(held[q].rows)
        BY <3>1, <4>1, FS_Subset
      <4> QED
        BY <4>1, <4>2, <4>3
    <3>5. Cardinality(live) + Due(q)' <= Limit
      BY <3>1, <3>3, <3>4, Bounds
    <3>6. \A p \in Requests : pc'[p] # "list"
      BY <2>5, <3>2 DEF Admitted
    <3> QED
      BY <3>1, <3>2, <3>5, <3>6
  <2> QED
    BY <2>4, <2>7, <2>8, <2>9, <2>10 DEF IInv
<1> QED
  BY <1>1, <1>2 DEF ListModels

LEMMA CopyObjectKeeps ==
    ASSUME IInv, NEW q \in Requests, NEW r \in Ids, CopyObject(q, r)
    PROVE  IInv'
<1>1. /\ r \in held[q].rows /\ Goto(q, "copy", "insert") /\ NewKey
      /\ stored' = stored \cup {keys + 1}
      /\ held' = [held EXCEPT ![q] = [held[q] EXCEPT !.key = keys + 1, !.rows = @ \ {r}]]
      /\ UNCHANGED <<presigned, project, live, home, file, used, mishaps, crowded, contested, erased>>
  BY DEF CopyObject, Keeping, table, history
<1>2. /\ TypeOK /\ keys + 1 \in Keys /\ keys + 1 \in 0 .. MaxKeys /\ keys' = keys + 1
      /\ held[q] \in HeldType
  BY <1>1, Bounds DEF IInv, TypeOK, NewKey, Keys, HeldType
<1>3. /\ held' \in [Requests -> HeldType]
      /\ held'[q].key = keys + 1 /\ held'[q].rows = held[q].rows \ {r}
      /\ \A p \in Requests \ {q} : held'[p] = held[p]
  BY <1>1, <1>2 DEF TypeOK, HeldType
<1>4. Moves(q, "copy", "insert")
  BY <1>1, <1>2, <1>3, MovesFrom DEF Steps, Admitted
<1>5. /\ keys \in Nat
      /\ \A n \in 0 .. keys : n \in 0 .. keys'
      /\ \A n \in 1 .. keys : n \in 1 .. keys'
  BY <1>2, Bounds DEF TypeOK
<1>6. Others(q) /\ pc[q] = "copy" /\ pc'[q] = "insert"
  BY <1>4 DEF Moves
<1>7. TypeOK' /\ HeldInv' /\ OneOwner' /\ ObjectThere'
  <2>1. TypeOK'
    <3>1. \A s \in live : file[s] \in 1 .. keys'
      BY <1>5 DEF IInv, TypeOK
    <3>2. stored' \in SUBSET (1 .. keys') /\ presigned' \in SUBSET (1 .. keys')
      BY <1>1, <1>2, <1>5 DEF TypeOK
    <3>3. keys' \in 0 .. MaxKeys
      BY <1>2
    <3> QED
      BY <1>1, <1>2, <1>4, <3>1, <3>2, <3>3 DEF TypeOK, Moves, HeldType
  <2>2. \A p \in Requests \ {q} : held'[p] = held[p] /\ pc'[p] = pc[p]
    BY <1>6 DEF Others
  <2>3. HeldInv'
    <3>1. \A s \in Ids : file[s] \in 0 .. keys'
      BY <1>5 DEF IInv, HeldInv
    <3>2. ASSUME NEW p \in Requests
          PROVE  /\ held'[p].key \in 0 .. keys'
                 /\ Carries(p)' => held'[p].key # 0
                 /\ pc'[p] \in {"idle", "name", "write", "weigh"} => held'[p].rows = {}
                 /\ pc'[p] = "edit" => held'[p].row \in Ids /\ file[held'[p].row] # 0
                 /\ Erasing(p)' => \A s \in held'[p].rows : file[s] # 0
      <4>1. CASE p = q
        BY <1>2, <1>3, <1>5, <1>6, <4>1 DEF Erasing
      <4>2. CASE p # q
        BY <1>5, <2>2, <4>2 DEF IInv, HeldInv, Carries, Erasing
      <4> QED
        BY <4>1, <4>2
    <3> QED
      BY <1>1, <3>1, <3>2 DEF HeldInv
  <2>4. OneOwner'
    <3>1. \A p \in Requests \ {q} : Carries(p)' => Carries(p)
      BY <2>2 DEF Carries
    <3>2. \A s \in Ids : Claimed(s)' => Claimed(s)
      BY <1>1, <1>6, ClaimFrame DEF Erasing
    <3>3. /\ \A s \in Ids : file[s] # held'[q].key
          /\ \A p \in Requests : held[p].key # held'[q].key
      BY <1>3, NewKeyFree
    <3>4. \A s, t \in Ids : Claimed(s)' /\ Claimed(t)' /\ file[s] = file[t]
                              => s = t \/ file[s] \in contested
      BY <3>2 DEF IInv, OneOwner
    <3>5. \A p \in Requests, s \in Ids : Carries(p)' /\ Claimed(s)' /\ file[s] = held'[p].key
                                            => file[s] \in contested
      BY <2>2, <3>1, <3>2, <3>3 DEF IInv, OneOwner
    <3>6. \A p, x \in Requests : Carries(p)' /\ Carries(x)' /\ held'[p].key = held'[x].key
                                    => p = x \/ held'[p].key \in contested
      BY <2>2, <3>1, <3>3 DEF IInv, OneOwner
    <3> QED
      BY <1>1, <3>4, <3>5, <3>6 DEF OneOwner
  <2>5. ObjectThere'
    BY <1>1, <1>3, <1>6, ObjectFrame DEF IInv
  <2> QED
    BY <2>1, <2>3, <2>4, <2>5
<1>8. Counted'
  BY <1>1, <1>6, CountedFrame DEF IInv
<1>9. Fitting'
  <2>1. IsFiniteSet(held[q].rows) /\ Cardinality(held[q].rows) \in Nat
    BY <1>2, RowsFinite DEF HeldType
  <2>2. Cardinality(held[q].rows \ {r}) = Cardinality(held[q].rows) - 1
    BY <1>1, <2>1, FS_RemoveElement
  <2>3. Due(q)' = Due(q)
    BY <1>3, <1>6, <2>1, <2>2 DEF Due
  <2> QED
    BY <1>1, <1>6, <2>3, FittingFrame DEF IInv, Admitted
<1> QED
  BY <1>7, <1>8, <1>9 DEF IInv

-----------------------------------------------------------------------------
(* Edits and deletes. *)

LEMMA SaveRevivesKeeps ==
    ASSUME IInv, NEW q \in Requests, SaveRevives(q)
    PROVE  IInv'
<1> DEFINE r == held[q].row
<1>1. /\ Goto(q, "edit", "count") /\ r \notin live /\ live' = live \cup {r}
      /\ crowded' = TRUE /\ contested' = contested \cup {file[r]} /\ Keeping(q, Nothing)
      /\ UNCHANGED <<stored, presigned, keys, project, home, file, used, mishaps, erased>>
  BY DEF SaveRevives, bucket
<1>2. Moves(q, "edit", "count") /\ held'[q] = Nothing
  <2>1. /\ held' \in [Requests -> HeldType] /\ held'[q] = Nothing
        /\ \A p \in Requests \ {q} : held'[p] = held[p]
    BY <1>1, NothingTyped DEF IInv, TypeOK, HeldType, Keeping
  <2> QED
    BY <1>1, <2>1, MovesFrom DEF IInv, Steps, Admitted
<1>3. Others(q) /\ pc[q] = "edit" /\ pc'[q] = "count"
  BY <1>2 DEF Moves
<1>4. r \in Ids /\ file[r] # 0 /\ file[r] \in 0 .. keys /\ keys \in 0 .. MaxKeys /\ file[r] \in Keys
  <2>1. r \in Ids /\ file[r] # 0 /\ file[r] \in 0 .. keys /\ keys \in 0 .. MaxKeys
    BY <1>3 DEF IInv, HeldInv, TypeOK
  <2> QED
    BY <2>1, Bounds DEF Keys
<1> HIDE DEF r
<1>5. TypeOK'
  <2>1. \A s \in live' : file[s] \in 1 .. keys
    BY <1>1, <1>4, Bounds DEF IInv, TypeOK
  <2> QED
    BY <1>1, <1>2, <1>4, <2>1 DEF IInv, TypeOK, Moves, HeldType
<1>6. HeldInv'
  <2>1. held'[q].key \in 0 .. keys
    BY <1>2, Bounds DEF Nothing, IInv, TypeOK
  <2> QED
    BY <1>1, <1>3, <2>1, HeldFrame DEF IInv, Carries, Erasing
<1>7. OneOwner'
  <2>1. \A p \in Requests : Carries(p)' => Carries(p) /\ held'[p].key = held[p].key
    BY <1>3 DEF Others, Carries
  <2>2. \A s \in Ids \ {r} : Claimed(s)' => Claimed(s)
    BY <1>1, <1>3 DEF Claimed, Others, Erasing
  <2> QED
    BY <1>1, <2>1, <2>2 DEF IInv, OneOwner
<1>8. ObjectThere'
  BY <1>1, <1>3 DEF IInv, ObjectThere, Others
<1>9. Counted'
  <2>1. Uncounted' = Uncounted \cup {q} /\ q \notin Uncounted
    BY <1>3 DEF Uncounted, Others
  <2>2. IsFiniteSet(Uncounted') /\ Cardinality(Uncounted') = Cardinality(Uncounted) + 1
    BY <2>1, FS_AddElement DEF IInv, Counted
  <2>3. Cardinality(Uncounted) \in Nat /\ used \in Int
    BY FS_CardinalityType DEF IInv, Counted, TypeOK
  <2>4. Cardinality(live') = Cardinality(live) + 1 /\ Cardinality(live) \in Nat
    BY <1>1, RowsFinite, FS_AddElement DEF IInv, TypeOK
  <2> QED
    BY <1>1, <2>2, <2>3, <2>4 DEF IInv, Counted
<1>10. Fitting'
  BY <1>1 DEF Fitting
<1> QED
  BY <1>5, <1>6, <1>7, <1>8, <1>9, <1>10 DEF IInv

\* Only the rows the delete holds lose their object, unless a key is contested.
LEMMA EraseFilesKeeps ==
    ASSUME IInv, NEW q \in Requests, EraseFiles(q)
    PROVE  IInv'
<1>1. /\ pc[q] \in {"erase", "cascade"} /\ pc' = [pc EXCEPT ![q] = "commit"] /\ held' = held
      /\ stored' = stored \ {file[r] : r \in held[q].rows}
      /\ erased' = erased \cup (held[q].rows \cap live)
      /\ UNCHANGED <<presigned, keys, project, live, home, file, used, mishaps, crowded, contested>>
  BY DEF EraseFiles, table
<1>2. TypeOK /\ held[q] \in HeldType /\ held[q].rows \subseteq Ids
  BY DEF IInv, TypeOK, HeldType
<1>3. TypeOK'
  BY <1>1, <1>2 DEF TypeOK, Steps
<1>4. Others(q) /\ pc'[q] = "commit"
  BY <1>1, <1>2 DEF Others, TypeOK
<1>5. HeldInv'
  <2>1. held[q].key \in 0 .. keys
    BY DEF IInv, HeldInv
  <2> QED
    BY <1>1, <1>4, <2>1, HeldFrame DEF IInv, Carries, Erasing
<1>6. OneOwner'
  BY <1>1, <1>4, OwnerFrame DEF IInv, Carries, Erasing
<1>7. ObjectThere'
  <2>0. /\ \A r \in held[q].rows : Claimed(r)
        /\ \A r \in live : Claimed(r)
    BY <1>1 DEF Claimed, Erasing
  <2>1. ASSUME NEW p \in Requests, pc'[p] \in {"weigh", "insert"}
        PROVE  held[p].key \in stored' \cup contested
    <3>1. p # q /\ pc[p] \in {"weigh", "insert"}
      BY <1>4, <2>1 DEF Others
    <3>2. held[p].key \in stored \cup contested
      BY <3>1 DEF IInv, ObjectThere
    <3>3. \A r \in held[q].rows : file[r] = held[p].key => held[p].key \in contested
      BY <1>2, <2>0, <3>1 DEF IInv, OneOwner, Carries
    <3> QED
      BY <1>1, <3>2, <3>3
  <2>2. ASSUME NEW s \in live \ erased'
        PROVE  file[s] \in stored' \cup contested
    <3>1. s \in Ids /\ file[s] # 0 /\ s \notin held[q].rows /\ s \in live \ erased
      BY <1>1, <1>2 DEF TypeOK
    <3>2. \A r \in held[q].rows : file[r] = file[s] => file[s] \in contested
      BY <1>2, <2>0, <3>1 DEF IInv, OneOwner
    <3>3. file[s] \in stored \cup contested
      BY <3>1 DEF IInv, ObjectThere
    <3> QED
      BY <1>1, <3>2, <3>3
  <2> QED
    BY <1>1, <2>1, <2>2 DEF ObjectThere
<1>8. Counted'
  BY <1>1, <1>4, CountedFrame DEF IInv
<1>9. Fitting'
  BY <1>1, <1>4, FittingFrame DEF IInv, Admitted
<1> QED
  BY <1>3, <1>5, <1>6, <1>7, <1>8, <1>9 DEF IInv

\* The counter moves by the rows held: right, if they were all still in the table.
LEMMA CommitDeleteKeeps ==
    ASSUME IInv, NEW q \in Requests, CommitDelete(q)
    PROVE  IInv'
<1>1. /\ End(q, "commit") /\ live' = live \ held[q].rows
      /\ project' = IF Whole(q) THEN [project EXCEPT ![held[q].into] = "deleted"] ELSE project
      /\ used' = used - Cardinality(held[q].rows)
      /\ erased' = erased \ held[q].rows
      /\ UNCHANGED <<stored, presigned, keys, home, file, crowded, contested>>
  BY DEF CommitDelete, bucket
<1>2. \/ held[q].rows \subseteq live /\ mishaps' = mishaps
      \/ mishaps < MaxMishaps /\ mishaps' = mishaps + 1
  BY DEF CommitDelete, Mishap
<1>3. Moves(q, "commit", "idle") /\ held'[q] = Nothing
  BY <1>1, EndMoves DEF IInv
<1>4. Others(q) /\ pc[q] = "commit" /\ pc'[q] = "idle"
  BY <1>3 DEF Moves
<1>5. TypeOK /\ held[q] \in HeldType /\ held[q].rows \in SUBSET Ids /\ live \in SUBSET Ids
  BY DEF IInv, TypeOK, HeldType
<1>6. /\ IsFiniteSet(live) /\ Cardinality(live) \in Nat /\ Cardinality(held[q].rows) \in Nat
      /\ Cardinality(live') \in Nat /\ Cardinality(live') <= Cardinality(live)
  BY <1>1, <1>5, RowsFinite, FS_Subset
<1>7. mishaps' \in 0 .. MaxMishaps /\ (mishaps' = 0 => mishaps = 0 /\ held[q].rows \subseteq live)
  BY <1>2, <1>5, Bounds DEF TypeOK
<1>8. TypeOK'
  <2>1. used' \in Int
    BY <1>1, <1>5, <1>6 DEF TypeOK
  <2>2. project' \in [Projects -> {"none", "open", "deleted"}]
    BY <1>1, <1>5 DEF TypeOK
  <2> QED
    BY <1>1, <1>3, <1>5, <1>7, <2>1, <2>2 DEF TypeOK, Moves, HeldType
<1>9. HeldInv'
  <2>1. held'[q].key \in 0 .. keys
    BY <1>3, <1>5, Bounds DEF Nothing, TypeOK
  <2> QED
    BY <1>1, <1>3, <1>4, <2>1, HeldFrame DEF IInv, Carries, Erasing, Nothing
<1>10. OneOwner'
  BY <1>1, <1>4, OwnerFrame DEF IInv, Carries, Erasing
<1>11. ObjectThere'
  BY <1>1, <1>4 DEF IInv, ObjectThere, Others
<1>12. Counted'
  <2>1. Uncounted' = Uncounted
    BY <1>4 DEF Uncounted, Others
  <2>2. ASSUME mishaps' = 0
        PROVE  used' + Cardinality(Uncounted) = Cardinality(live')
    <3>1. live \cap held[q].rows = held[q].rows
      BY <1>7, <2>2
    <3>2. Cardinality(live') = Cardinality(live) - Cardinality(held[q].rows)
      <4>1. Cardinality(live \ held[q].rows) =
                Cardinality(live) - Cardinality(live \cap held[q].rows)
        BY <1>6, FS_Difference
      <4> QED
        BY <1>1, <3>1, <4>1
    <3>3. Cardinality(Uncounted) \in Nat /\ used \in Int
      BY <1>5, FS_CardinalityType DEF IInv, Counted, TypeOK
    <3> QED
      BY <1>1, <1>6, <1>7, <2>2, <3>2, <3>3 DEF IInv, Counted
  <2> QED
    BY <2>1, <2>2 DEF IInv, Counted
<1>13. Fitting'
  <2>1. \A p \in Requests : pc'[p] \in Admitted => pc[p] \in Admitted /\ Due(p)' = Due(p) /\ Due(p) \in Nat
    <3>1. \A p \in Requests : pc'[p] \in Admitted => pc[p] \in Admitted /\ Due(p)' = Due(p)
      BY <1>4 DEF Others, Due, Admitted
    <3>2. \A p \in Requests : held[p].rows \in SUBSET Ids
      BY <1>5 DEF TypeOK
    <3>3. \A p \in Requests : Cardinality(held[p].rows) \in Nat
      BY <3>2, RowsFinite
    <3> QED
      BY <3>1, <3>3 DEF Due
  <2> SUFFICES ASSUME mishaps' = 0, ~crowded
               PROVE  /\ Cardinality(live') <= Limit
                      /\ \A p, x \in Requests : pc'[p] \in Admitted /\ pc'[x] \in Admitted => p = x
                      /\ \A p \in Requests : pc'[p] \in Admitted => Cardinality(live') + Due(p)' <= Limit
                      /\ \A p \in Requests : pc'[p] = "list" => RowsOf("original")' \subseteq held'[p].rows
    BY <1>1 DEF Fitting
  <2>2. /\ Cardinality(live) <= Limit
        /\ \A p, x \in Requests : pc[p] \in Admitted /\ pc[x] \in Admitted => p = x
        /\ \A p \in Requests : pc[p] \in Admitted => Cardinality(live) + Due(p) <= Limit
        /\ \A p \in Requests : pc[p] = "list" => RowsOf("original") \subseteq held[p].rows
    BY <1>7 DEF IInv, Fitting
  <2>3. ASSUME NEW p \in Requests, pc'[p] \in Admitted
        PROVE  Cardinality(live') + Due(p)' <= Limit
    <3>1. Cardinality(live) + Due(p) <= Limit /\ Due(p)' = Due(p) /\ Due(p) \in Nat
      BY <2>1, <2>2, <2>3
    <3> QED
      BY <1>6, <3>1, Bounds
  <2>4. RowsOf("original")' \subseteq RowsOf("original")
    BY <1>1 DEF RowsOf
  <2>5. \A p \in Requests : pc'[p] = "list" => pc[p] = "list" /\ held'[p] = held[p]
    BY <1>4 DEF Others
  <2>6. \A p, x \in Requests : pc'[p] \in Admitted /\ pc'[x] \in Admitted => p = x
    BY <2>1, <2>2
  <2>7. Cardinality(live') <= Limit
    BY <1>6, <2>2, Bounds
  <2> QED
    BY <2>2, <2>3, <2>4, <2>5, <2>6, <2>7
<1> QED
  BY <1>8, <1>9, <1>10, <1>11, <1>12, <1>13 DEF IInv

-----------------------------------------------------------------------------
(* The presigned URLs and the bucket. *)

\* A step of no request of the API: the requests and the table stay as they are.
LEMMA BucketKeeps ==
    ASSUME IInv, TypeOK', UNCHANGED <<table, used, pc, held, history>>,
           stored \subseteq stored', keys \in Nat, keys' \in Nat, keys <= keys'
    PROVE  IInv'
<1> USE DEF table, history
<1>1. HeldInv'
  <2>1. \A n \in 0 .. keys : n \in 0 .. keys'
    OBVIOUS
  <2> QED
    BY <2>1 DEF IInv, HeldInv, Carries, Erasing
<1>2. OneOwner'
  BY DEF IInv, OneOwner, Carries, Claimed, Erasing
<1>3. ObjectThere'
  BY DEF IInv, ObjectThere
<1>4. Counted'
  BY DEF IInv, Counted, Uncounted
<1>5. Fitting'
  BY DEF IInv, Fitting, Due, RowsOf
<1> QED
  BY <1>1, <1>2, <1>3, <1>4, <1>5 DEF IInv

LEMMA SignUrlKeeps ==
    ASSUME IInv, SignUrl
    PROVE  IInv'
<1>1. /\ keys' = keys + 1 /\ keys < MaxKeys /\ presigned' = presigned \cup {keys + 1}
      /\ UNCHANGED <<stored, table, used, pc, held, history>>
  BY DEF SignUrl, NewKey
<1>2. keys \in Nat /\ keys + 1 \in 1 .. keys' /\ keys' \in 0 .. MaxKeys /\ 1 .. keys \subseteq 1 .. keys'
  BY <1>1, Bounds DEF IInv, TypeOK
<1>3. TypeOK'
  <2>1. \A r \in live : file[r] \in 1 .. keys'
    BY <1>1, <1>2 DEF IInv, TypeOK
  <2>2. stored' \in SUBSET (1 .. keys') /\ presigned' \in SUBSET (1 .. keys')
    BY <1>1, <1>2 DEF IInv, TypeOK
  <2> QED
    BY <1>1, <1>2, <2>1, <2>2 DEF IInv, TypeOK, table, history
<1> QED
  BY <1>1, <1>2, <1>3, BucketKeeps

LEMMA PutFileKeeps ==
    ASSUME IInv, NEW k \in Keys, PutFile(k)
    PROVE  IInv'
<1>1. /\ stored' = stored \cup {k} /\ UNCHANGED <<presigned, keys, table, used, pc, held, history>>
      /\ k \in presigned
  BY DEF PutFile
<1>2. TypeOK'
  BY <1>1 DEF IInv, TypeOK, table, history
<1>3. keys \in Nat
  BY Bounds DEF IInv, TypeOK
<1> QED
  BY <1>1, <1>2, <1>3, BucketKeeps

-----------------------------------------------------------------------------
LEMMA InitHolds == Init => IInv
<1> SUFFICES ASSUME Init
             PROVE  IInv
  OBVIOUS
<1> USE DEF Init
<1>1. /\ \A q \in Requests : pc[q] = "idle" /\ held[q] = Nothing
      /\ \A r \in Ids : file[r] = IF r \in 1 .. Placed THEN r ELSE 0
      /\ 1 .. Placed \subseteq Ids /\ 1 .. Placed \subseteq Keys
      /\ keys = Placed
  BY Bounds DEF Ids, Keys
<1>2. TypeOK
  <2>1. held \in [Requests -> HeldType]
    BY NothingTyped
  <2>2. file \in [Ids -> 0 .. MaxKeys] /\ \A r \in live : file[r] \in 1 .. keys
    BY <1>1, Bounds DEF Ids
  <2>3. 0 \in 0 .. MaxMishaps /\ keys \in 0 .. MaxKeys /\ used \in Int
    BY <1>1, Bounds
  <2>4. project \in [Projects -> {"none", "open", "deleted"}] /\ home \in [Ids -> Projects]
    BY DEF Projects
  <2>5. stored \in SUBSET (1 .. keys) /\ presigned \in SUBSET (1 .. keys)
    BY <1>1
  <2> QED
    BY <1>1, <2>1, <2>2, <2>3, <2>4, <2>5 DEF TypeOK, HeldType, Steps
<1>3. HeldInv
  BY <1>1, Bounds DEF HeldInv, Carries, Erasing, Nothing
<1>4. OneOwner
  BY <1>1 DEF OneOwner, Carries, Claimed, Erasing
<1>5. ObjectThere
  BY <1>1 DEF ObjectThere
<1>6. Uncounted = {}
  BY <1>1 DEF Uncounted
<1>7. Cardinality(live) = Placed /\ Cardinality(live) \in Nat
  <2>1. Placed \in Int /\ 1 \in Int
    BY Bounds
  <2>2. Cardinality(1 .. Placed) = IF 1 > Placed THEN 0 ELSE Placed - 1 + 1
    BY <2>1, FS_Interval
  <2> QED
    BY <2>2, Bounds
<1>8. Counted
  BY <1>6, <1>7, Bounds, FS_EmptySet DEF Counted
<1>9. Fitting
  BY <1>1, <1>7, Bounds DEF Fitting, Admitted
<1> QED
  BY <1>2, <1>3, <1>4, <1>5, <1>8, <1>9 DEF IInv

LEMMA RequestKeeps ==
    ASSUME IInv, NEW q \in Requests,
           Upload(q) \/ Duplicate(q) \/ Edit(q) \/ Delete(q) \/ KillRequest(q)
    PROVE  IInv'
<1>1. CASE Upload(q)
  <2>1. CASE InsertRefused(q)
    BY <2>1, EndKeeps DEF InsertRefused
  <2> QED
    BY <1>1, <2>1, AdmitUploadKeeps, NameFileKeeps, WriteFileKeeps, HeadFileKeeps, AdmitFileKeeps, RefuseFileKeeps,
       DiscardFileKeeps, InsertRowKeeps, CountRowKeeps DEF Upload
<1>2. CASE Duplicate(q)
  <2>1. ASSUME NEW r \in Ids, CopyFails(q, r)
        PROVE  IInv'
    BY <2>1, EndKeeps DEF CopyFails
  <2> QED
    BY <1>2, <2>1, AdmitCopyKeeps, ListModelsKeeps, CopyObjectKeeps DEF Duplicate
<1>3. CASE Edit(q)
  <2>1. CASE SaveEdit(q) \/ SaveRefused(q)
    BY <2>1, EndKeeps DEF SaveEdit, SaveRefused
  <2> QED
    BY <1>3, <2>1, FetchKeeps, SaveRevivesKeeps DEF Edit
<1>4. CASE Delete(q)
  <2>1. CASE CascadeFails(q) \/ RollBack(q)
    BY <2>1, EndKeeps DEF CascadeFails, RollBack
  <2> QED
    BY <1>4, <2>1, FetchKeeps, FetchProjectKeeps, EraseFilesKeeps, CommitDeleteKeeps DEF Delete
<1> QED
  BY <1>1, <1>2, <1>3, <1>4, KillRequestKeeps

LEMMA NextKeeps == IInv /\ [Next]_vars => IInv'
<1> SUFFICES ASSUME IInv, [Next]_vars
             PROVE  IInv'
  OBVIOUS
<1>1. ASSUME NEW q \in Requests,
             Upload(q) \/ Duplicate(q) \/ Edit(q) \/ Delete(q) \/ KillRequest(q)
      PROVE  IInv'
  BY <1>1, RequestKeeps
<1>2. CASE SignUrl
  BY <1>2, SignUrlKeeps
<1>3. CASE \E k \in Keys : PutFile(k)
  BY <1>3, PutFileKeeps
<1>4. CASE UNCHANGED vars
  <2>1. /\ UNCHANGED <<stored, presigned, keys, table, used, pc, held, history>>
    BY <1>4 DEF vars, bucket
  <2>2. TypeOK'
    BY <2>1 DEF IInv, TypeOK, table, history
  <2>3. keys \in Nat
    BY Bounds DEF IInv, TypeOK
  <2> QED
    BY <2>1, <2>2, <2>3, BucketKeeps
<1> QED
  BY <1>1, <1>2, <1>3, <1>4 DEF Next

\* The counter misses the rows about to be counted and no other, all that was admitted fits,
\* and each key has one owner and its object (apps/projects/views.py and signals.py).
THEOREM InvariantHolds == Spec => []IInv
  BY InitHolds, NextKeeps, PTL DEF Spec

\* The signals of apps/projects keep storage_used_bytes equal to what the table holds,
\* rows on their way to the counter aside.
THEOREM StorageCountedTheorem == Spec => []StorageCounted
<1>1. IInv => StorageCounted
  BY DEF IInv, Counted, Uncounted, StorageCounted
<1> QED
  BY <1>1, InvariantHolds, PTL

\* An upload, a confirmation or a copy is admitted only if all it inserts fits: the
\* account stays within its quota while nobody else is on the way to the counter.
THEOREM QuotaTheorem == Spec => []QuotaKept
<1>1. IInv => QuotaKept
  BY DEF IInv, Fitting, QuotaKept
<1> QED
  BY <1>1, InvariantHolds, PTL

\* Deletes, discards and cascades erase the objects of their own rows only: every other
\* model of the table can still be downloaded.
THEOREM RowHasObjectTheorem == Spec => []RowHasObject
<1>1. IInv => RowHasObject
  BY DEF IInv, ObjectThere, RowHasObject
<1> QED
  BY <1>1, InvariantHolds, PTL
=============================================================================
