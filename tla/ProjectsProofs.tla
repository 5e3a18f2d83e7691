--------------------------- MODULE ProjectsProofs ---------------------------
(***************************************************************************)
(* TotalCounted, ProjectHasScene, ThumbnailShown and VersionNeverBack, for *)
(* any number of projects, requests, names and versions.                   *)
(*                                                                         *)
(* The counter: every row enters through a request that owes it one        *)
(* increment.  The scene: a row without one has a request about to create  *)
(* it, and no later write of a scene says version 0.  The thumbnail: what  *)
(* a request is about to name is in the bucket, unless another erased it.  *)
(* The version: a scene that was not contended has one writer, and is at   *)
(* the version which that one read.                                        *)
(***************************************************************************)
EXTENDS Projects, FiniteSetTheorems, TLAPS

\* A request that will write a scene holds the version that was there.
HeldInv ==
    \A q \in Requests :
        /\ pc[q] \in {"put", "bump"} => held[q].version \in 1 .. MaxVersion - 1
        /\ pc[q] = "gap" => held[q].version < MaxVersion
        /\ pc[q] \in {"edit", "scene", "count", "copy"} => held[q].version = 0

\* The counter lacks one unit for each project still being created.
Counted ==
    /\ IsFiniteSet(Live) /\ IsFiniteSet(Adding)
    /\ mishaps = 0 => total + Cardinality(Adding) = Cardinality(Live)

Uploads == {"erase", "store", "name"}

\* Only First gets a thumbnail, and what is about to be named is in the bucket.
UploadInv ==
    /\ row[First] # "none"
    /\ \A p \in Ids \ {First} : p \in unsure \/ thumb[p] = NoName
    /\ \A q \in Requests :
          /\ pc[q] \in Uploads => held[q].p = First
          /\ pc[q] = "name" => held[q].name \in objects \/ First \in unsure

\* The thumbnail that First names is in the bucket, or another is about to be stored and named.
ThumbInv ==
    row[First] = "live" /\ First \notin unsure =>
        \/ thumb[First] \in objects \cup {NoName}
        \/ \E q \in Requests : pc[q] \in {"store", "name"}

\* One request writes a scene, and nobody has written it since that one read it.
WriteInv ==
    \A p \in Ids \ contended : \A q \in Requests : pc[q] \in {"put", "bump"} /\ held[q].p = p =>
        /\ scene[p] = held[q].version
        /\ \A r \in Requests : pc[r] \in {"put", "bump"} /\ held[r].p = p => q = r

IInv == TypeOK /\ HeldInv /\ Counted /\ ProjectHasScene /\ UploadInv /\ ThumbInv /\ WriteInv

-----------------------------------------------------------------------------
(* What a step does to its request. *)

HeldType == [p : Ids, name : Names \cup {NoName}, version : 0 .. MaxVersion,
             child : Children \cup {"none"}, children : SUBSET Children, copies : BOOLEAN]

LEMMA NothingTyped ==
    Nothing \in HeldType /\ Nothing.p = First /\ Nothing.version = 0 /\ Nothing.name = NoName
  BY ProjectsAssumption DEF Nothing, HeldType

Others(q) == \A r \in Requests \ {q} : pc'[r] = pc[r] /\ held'[r] = held[r]

\* The request goes from one step to another, holding h.
Moves(q, from, to, h) ==
    /\ pc[q] = from /\ pc'[q] = to /\ held'[q] = h
    /\ pc' \in [Requests -> Steps] /\ held' \in [Requests -> HeldType]
    /\ Others(q)

LEMMA BeginMoves ==
    ASSUME TypeOK, NEW q \in Requests, NEW step \in Steps, NEW h \in HeldType, Begin(q, step, h)
    PROVE  Moves(q, "idle", step, h)
  BY DEF TypeOK, HeldType, Begin, Moves, Others

LEMMA GotoMoves ==
    ASSUME TypeOK, NEW q \in Requests, NEW from, NEW to \in Steps, Goto(q, from, to)
    PROVE  Moves(q, from, to, held[q])
  BY DEF TypeOK, HeldType, Goto, Moves, Others

LEMMA EndMoves ==
    ASSUME TypeOK, NEW q \in Requests, NEW from, End(q, from)
    PROVE  Moves(q, from, "idle", Nothing)
<1>1. Nothing \in HeldType /\ "idle" \in Steps
  BY NothingTyped DEF Steps
<1> QED
  BY <1>1 DEF TypeOK, HeldType, End, Moves, Others

\* A request holds what its type says.
LEMMA Holds ==
    ASSUME TypeOK, NEW q \in Requests
    PROVE  /\ held[q] \in HeldType /\ held[q].p \in Ids /\ held[q].version \in 0 .. MaxVersion
           /\ held[q].name \in Names \cup {NoName} /\ held[q].copies \in BOOLEAN
  BY DEF TypeOK, HeldType

LEMMA Numbers ==
    MaxVersion \in Nat \ {0} /\ MaxMishaps \in Nat
  BY ProjectsAssumption

\* A lost increment or a repeated decrement is counted.
LEMMA MishapCounts ==
    ASSUME TypeOK, Mishap
    PROVE  mishaps' \in 0 .. MaxMishaps /\ mishaps' # 0
  BY Numbers DEF TypeOK, Mishap

-----------------------------------------------------------------------------
(* What a step keeps of each part of the invariant. *)

LEMMA HeldFrame ==
    ASSUME HeldInv, NEW q \in Requests, Others(q),
           pc'[q] \in {"put", "bump"} => held'[q].version \in 1 .. MaxVersion - 1,
           pc'[q] = "gap" => held'[q].version < MaxVersion,
           pc'[q] \in {"edit", "scene", "count", "copy"} => held'[q].version = 0
    PROVE  HeldInv'
  BY DEF HeldInv, Others

LEMMA CountedFrame ==
    ASSUME Counted, NEW q \in Requests, Others(q), UNCHANGED <<row, total, mishaps>>,
           pc[q] \in {"scene", "count"} <=> pc'[q] \in {"scene", "count"}
    PROVE  Counted'
<1>1. \A r \in Requests : pc[r] \in {"scene", "count"} <=> pc'[r] \in {"scene", "count"}
  BY DEF Others
<1>2. Adding' = Adding /\ Live' = Live
  BY <1>1 DEF Adding, Live
<1> QED
  BY <1>2 DEF Counted

LEMMA SceneFrame ==
    ASSUME ProjectHasScene, NEW q \in Requests, Others(q), row' = row, bare \subseteq bare',
           \A p \in Ids : scene'[p] = 0 => scene[p] = 0,
           pc[q] = "scene" => pc'[q] = "scene" /\ held'[q].p = held[q].p
    PROVE  ProjectHasScene'
<1> SUFFICES ASSUME NEW p \in Ids, row'[p] = "live", p \notin bare', scene'[p] = 0
             PROVE  \E r \in Requests : pc'[r] = "scene" /\ held'[r].p = p
  BY DEF ProjectHasScene, Live
<1>1. PICK r \in Requests : pc[r] = "scene" /\ held[r].p = p
  BY DEF ProjectHasScene, Live
<1>2. pc'[r] = "scene" /\ held'[r].p = p
  BY <1>1 DEF Others
<1> QED
  BY <1>2

LEMMA UploadFrame ==
    ASSUME UploadInv, NEW q \in Requests, Others(q), UNCHANGED <<row, thumb>>,
           unsure \subseteq unsure', objects \subseteq objects',
           pc'[q] \in Uploads => held'[q].p = First,
           pc'[q] = "name" => held'[q].name \in objects' \/ First \in unsure'
    PROVE  UploadInv'
<1>1. \A r \in Requests \ {q} : pc'[r] = pc[r] /\ held'[r] = held[r]
  BY DEF Others
<1> QED
  BY <1>1 DEF UploadInv

LEMMA ThumbFrame ==
    ASSUME ThumbInv, NEW q \in Requests, Others(q), UNCHANGED <<row, thumb>>,
           unsure \subseteq unsure', objects \subseteq objects',
           pc[q] \in {"store", "name"} => pc'[q] \in {"store", "name"} \/ First \in unsure'
    PROVE  ThumbInv'
<1> SUFFICES ASSUME row'[First] = "live", First \notin unsure', thumb'[First] \notin objects' \cup {NoName}
             PROVE  \E r \in Requests : pc'[r] \in {"store", "name"}
  BY DEF ThumbInv
<1>1. PICK r \in Requests : pc[r] \in {"store", "name"}
  BY DEF ThumbInv
<1>2. pc'[r] \in {"store", "name"}
  BY <1>1 DEF Others
<1> QED
  BY <1>2

LEMMA WriteFrame ==
    ASSUME WriteInv, NEW q \in Requests, Others(q), scene' = scene, contended \subseteq contended',
           pc'[q] \in {"put", "bump"} => pc[q] \in {"put", "bump"} /\ held'[q] = held[q]
    PROVE  WriteInv'
<1>1. \A r \in Requests : pc'[r] \in {"put", "bump"} => pc[r] \in {"put", "bump"} /\ held'[r] = held[r]
  BY DEF Others
<1> QED
  BY <1>1 DEF WriteInv

\* Most steps of a request concern neither the counter nor a scene nor a thumbnail.
LEMMA QuietKeeps ==
    ASSUME IInv, TypeOK', NEW q \in Requests, NEW from, NEW to, NEW h, Moves(q, from, to, h),
           UNCHANGED <<row, scene, image, total, history>>,
           from \notin {"scene", "count", "store", "name"},
           to \notin {"scene", "count", "put", "bump", "gap", "copy", "erase", "store", "name"},
           to = "edit" => h.version = 0
    PROVE  IInv'
<1> USE DEF IInv, Moves, image, history
<1>1. HeldInv'
  BY HeldFrame
<1>2. Counted'
  BY CountedFrame
<1>3. ProjectHasScene'
  BY SceneFrame
<1>4. UploadInv'
  BY UploadFrame DEF Uploads
<1>5. ThumbInv'
  BY ThumbFrame
<1>6. WriteInv'
  BY WriteFrame
<1> QED
  BY <1>1, <1>2, <1>3, <1>4, <1>5, <1>6

LEMMA OneMore ==
    ASSUME NEW S, IsFiniteSet(S), NEW x, x \notin S
    PROVE  IsFiniteSet(S \cup {x}) /\ Cardinality(S) \in Nat /\ Cardinality(S \cup {x}) = Cardinality(S) + 1
  BY FS_AddElement, FS_CardinalityType

LEMMA OneLess ==
    ASSUME NEW S, IsFiniteSet(S), NEW x \in S
    PROVE  IsFiniteSet(S \ {x}) /\ Cardinality(S) \in Nat /\ Cardinality(S \ {x}) = Cardinality(S) - 1
  BY FS_RemoveElement, FS_CardinalityType

-----------------------------------------------------------------------------
(* A row appears: a creation, a duplicate, or a late PATCH. *)

LEMMA RowAppears ==
    ASSUME TypeOK, Counted, ProjectHasScene, NEW q \in Requests, Others(q), NEW p \in Ids,
           row[p] # "live", row' = [row EXCEPT ![p] = "live"], UNCHANGED <<scene, bare, total, mishaps>>,
           pc[q] \notin {"scene", "count"}, pc'[q] = "scene", held'[q].p = p
    PROVE  Counted' /\ ProjectHasScene'
<1>1. row'[p] = "live" /\ \A r \in Ids \ {p} : row'[r] = row[r]
  BY DEF TypeOK
<1>2. Counted'
  <2>1. Live' = Live \cup {p} /\ p \notin Live
    BY <1>1 DEF Live
  <2>2. Adding' = Adding \cup {q} /\ q \notin Adding
    BY DEF Adding, Others
  <2>3. IsFiniteSet(Live) /\ IsFiniteSet(Adding)
    BY DEF Counted
  <2>4. IsFiniteSet(Live') /\ Cardinality(Live) \in Nat /\ Cardinality(Live') = Cardinality(Live) + 1
    BY <2>1, <2>3, OneMore
  <2>5. IsFiniteSet(Adding') /\ Cardinality(Adding) \in Nat /\ Cardinality(Adding') = Cardinality(Adding) + 1
    BY <2>2, <2>3, OneMore
  <2>6. total \in Nat /\ total' = total /\ mishaps' = mishaps
    BY DEF TypeOK
  <2>7. mishaps = 0 => total + Cardinality(Adding) = Cardinality(Live)
    BY DEF Counted
  <2>8. mishaps' = 0 => total' + Cardinality(Adding') = Cardinality(Live')
    BY <2>4, <2>5, <2>6, <2>7
  <2> QED
    BY <2>4, <2>5, <2>8 DEF Counted
<1>3. ProjectHasScene'
  <2> SUFFICES ASSUME NEW r \in Ids, row'[r] = "live", r \notin bare', scene'[r] = 0
               PROVE  \E s \in Requests : pc'[s] = "scene" /\ held'[s].p = r
    BY DEF ProjectHasScene, Live
  <2>1. CASE r = p
    BY <2>1
  <2>2. CASE r # p
    <3>1. row[r] = "live"
      BY <1>1, <2>2
    <3>2. PICK s \in Requests : pc[s] = "scene" /\ held[s].p = r
      BY <3>1 DEF ProjectHasScene, Live
    <3>3. pc'[s] = "scene" /\ held'[s].p = r
      BY <3>2 DEF Others
    <3> QED
      BY <3>3
  <2> QED
    BY <2>1, <2>2
<1> QED
  BY <1>2, <1>3

LEMMA InsertKeeps ==
    ASSUME IInv, NEW q \in Requests, NEW p \in Ids, InsertProject(q, p) \/ InsertDuplicate(q, p)
    PROVE  IInv'
<1>1. TypeOK /\ HeldInv /\ Counted /\ ProjectHasScene /\ UploadInv /\ ThumbInv /\ WriteInv
  BY DEF IInv
<1>2. /\ row[p] = "none" /\ row' = [row EXCEPT ![p] = "live"]
      /\ UNCHANGED <<scene, child, thumb, objects, total, mishaps, bare, contended, unsure>>
  BY DEF InsertProject, InsertDuplicate, image, history
<1>3. PICK h \in HeldType : h.p = p /\ h.version = 0 /\ Begin(q, "scene", h)
  <2>1. [Nothing EXCEPT !.p = p] \in HeldType /\ [Nothing EXCEPT !.p = p, !.copies = TRUE] \in HeldType
    BY NothingTyped DEF HeldType
  <2>2. /\ [Nothing EXCEPT !.p = p].p = p /\ [Nothing EXCEPT !.p = p, !.copies = TRUE].p = p
        /\ [Nothing EXCEPT !.p = p].version = 0 /\ [Nothing EXCEPT !.p = p, !.copies = TRUE].version = 0
    BY DEF Nothing
  <2> QED
    BY <2>1, <2>2 DEF InsertProject, InsertDuplicate
<1>4. Moves(q, "idle", "scene", h)
  BY <1>1, <1>3, BeginMoves DEF Steps
<1>5. Others(q) /\ pc[q] = "idle" /\ pc'[q] = "scene" /\ held'[q] = h
  BY <1>4 DEF Moves
<1>6. TypeOK'
  BY <1>1, <1>2, <1>4 DEF TypeOK, Moves, HeldType
<1>7. HeldInv'
  BY <1>1, <1>3, <1>5, HeldFrame
<1>8. Counted' /\ ProjectHasScene'
  BY <1>1, <1>2, <1>3, <1>5, RowAppears
<1>9. p # First /\ row'[First] = row[First]
  BY <1>1, <1>2, ProjectsAssumption DEF UploadInv, TypeOK
<1>10. UploadInv'
  <2>1. \A r \in Requests : pc'[r] \in Uploads => pc'[r] = pc[r] /\ held'[r] = held[r]
    BY <1>5 DEF Others, Uploads
  <2> QED
    BY <1>1, <1>2, <1>9, <2>1 DEF UploadInv, Uploads
<1>11. ThumbInv'
  <2>1. \A r \in Requests : pc[r] \in {"store", "name"} => pc'[r] = pc[r]
    BY <1>5 DEF Others
  <2> QED
    BY <1>1, <1>2, <1>9, <2>1 DEF ThumbInv
<1>12. WriteInv'
  BY <1>1, <1>2, <1>5, WriteFrame
<1> QED
  BY <1>6, <1>7, <1>8, <1>10, <1>11, <1>12 DEF IInv

LEMMA RevivesKeeps ==
    ASSUME IInv, NEW q \in Requests, SaveRevives(q)
    PROVE  IInv'
<1>1. TypeOK /\ HeldInv /\ Counted /\ ProjectHasScene /\ UploadInv /\ ThumbInv /\ WriteInv
  BY DEF IInv
<1> DEFINE p == held[q].p
<1>2. /\ row[p] = "deleted" /\ row' = [row EXCEPT ![p] = "live"]
      /\ thumb' = [thumb EXCEPT ![p] = held[q].name] /\ unsure' = unsure \cup {p}
      /\ UNCHANGED <<scene, child, objects, total, mishaps, bare, contended>>
  BY DEF SaveRevives
<1>3. p \in Ids /\ held[q].name \in Names \cup {NoName}
  BY <1>1, Holds
<1>4. Moves(q, "edit", "scene", held[q])
  BY <1>1, GotoMoves DEF SaveRevives, Steps
<1>5. Others(q) /\ pc[q] = "edit" /\ pc'[q] = "scene" /\ held'[q] = held[q]
  BY <1>4 DEF Moves
<1>6. TypeOK'
  BY <1>1, <1>2, <1>3, <1>4 DEF TypeOK, Moves, HeldType
<1>7. HeldInv'
  BY <1>1, <1>5, HeldFrame DEF HeldInv
<1>8. Counted' /\ ProjectHasScene'
  BY <1>1, <1>2, <1>3, <1>5, RowAppears
<1>9. \A r \in Ids \ {p} : row'[r] = row[r] /\ thumb'[r] = thumb[r]
  BY <1>1, <1>2 DEF TypeOK
<1>10. row'[p] = "live" /\ p \in unsure'
  BY <1>1, <1>2, <1>3 DEF TypeOK
<1> HIDE DEF p
<1>11. UploadInv'
  <2>1. \A r \in Requests : pc'[r] \in Uploads => pc'[r] = pc[r] /\ held'[r] = held[r]
    BY <1>5 DEF Others, Uploads
  <2>2. row'[First] # "none"
    BY <1>1, <1>9, <1>10, ProjectsAssumption DEF UploadInv
  <2>3. \A r \in Ids \ {First} : r \in unsure' \/ thumb'[r] = NoName
    BY <1>1, <1>2, <1>9, <1>10 DEF UploadInv
  <2> QED
    BY <1>1, <1>2, <2>1, <2>2, <2>3 DEF UploadInv, Uploads
<1>12. ThumbInv'
  <2>1. \A r \in Requests : pc[r] \in {"store", "name"} => pc'[r] = pc[r]
    BY <1>5 DEF Others
  <2>2. CASE p = First
    BY <1>10, <2>2 DEF ThumbInv
  <2>3. CASE p # First
    BY <1>1, <1>2, <1>9, <2>1, <2>3, ProjectsAssumption DEF ThumbInv
  <2> QED
    BY <2>2, <2>3
<1>13. WriteInv'
  BY <1>1, <1>2, <1>5, WriteFrame
<1> QED
  BY <1>6, <1>7, <1>8, <1>11, <1>12, <1>13 DEF IInv

-----------------------------------------------------------------------------
(* The rest of a creation. *)

\* A request stops owing an increment: either the project is counted, or the debt is a mishap.
LEMMA AddingEnds ==
    ASSUME TypeOK, Counted, NEW q \in Requests, Others(q), row' = row,
           pc[q] \in {"scene", "count"}, pc'[q] \notin {"scene", "count"},
           (total' = total + 1 /\ mishaps' = mishaps) \/ mishaps' # 0
    PROVE  Counted'
<1>1. Adding' = Adding \ {q} /\ q \in Adding /\ Live' = Live
  BY DEF Adding, Live, Others
<1>2. IsFiniteSet(Live) /\ IsFiniteSet(Adding)
  BY DEF Counted
<1>3. IsFiniteSet(Adding') /\ Cardinality(Adding) \in Nat /\ Cardinality(Adding') = Cardinality(Adding) - 1
  BY <1>1, <1>2, OneLess
<1>4. Cardinality(Live) \in Nat /\ total \in Nat
  BY <1>2, FS_CardinalityType DEF TypeOK
<1>5. mishaps = 0 => total + Cardinality(Adding) = Cardinality(Live)
  BY DEF Counted
<1>6. mishaps' = 0 => total' + Cardinality(Adding') = Cardinality(Live')
  BY <1>1, <1>3, <1>4, <1>5
<1> QED
  BY <1>1, <1>2, <1>3, <1>6 DEF Counted

LEMMA CreateSceneKeeps ==
    ASSUME IInv, NEW q \in Requests, CreateScene(q)
    PROVE  IInv'
<1>1. TypeOK /\ HeldInv /\ Counted /\ ProjectHasScene /\ UploadInv /\ ThumbInv /\ WriteInv
  BY DEF IInv
<1> DEFINE p == held[q].p
<1>2. UNCHANGED <<row, child, thumb, objects, total, bare, contended, unsure>>
  BY DEF CreateScene, image
<1>3. p \in Ids
  BY <1>1, Holds
<1>4. CASE row[p] = "live" /\ scene[p] = 0
  <2>1. Goto(q, "scene", "count") /\ scene' = [scene EXCEPT ![p] = 1] /\ mishaps' = mishaps
    BY <1>4 DEF CreateScene
  <2>2. Moves(q, "scene", "count", held[q])
    BY <1>1, <2>1, GotoMoves DEF Steps
  <2>3. Others(q) /\ pc[q] = "scene" /\ pc'[q] = "count" /\ held'[q] = held[q]
    BY <2>2 DEF Moves
  <2>4. 1 \in 0 .. MaxVersion
    BY Numbers
  <2>5. TypeOK'
    BY <1>1, <1>2, <2>1, <2>2, <2>4 DEF TypeOK, Moves, HeldType
  <2>6. HeldInv'
    BY <1>1, <2>3, HeldFrame DEF HeldInv
  <2>7. Counted'
    BY <1>1, <1>2, <2>1, <2>3, CountedFrame
  <2>8. scene'[p] = 1 /\ \A r \in Ids \ {p} : scene'[r] = scene[r]
    BY <1>1, <1>3, <2>1 DEF TypeOK
  <2> HIDE DEF p
  <2>9. ProjectHasScene'
    <3> SUFFICES ASSUME NEW r \in Ids, row'[r] = "live", r \notin bare', scene'[r] = 0
                 PROVE  \E s \in Requests : pc'[s] = "scene" /\ held'[s].p = r
      BY DEF ProjectHasScene, Live
    <3>1. r # p /\ row[r] = "live" /\ r \notin bare /\ scene[r] = 0
      BY <1>2, <2>8
    <3>2. PICK s \in Requests : pc[s] = "scene" /\ held[s].p = r
      BY <1>1, <3>1 DEF ProjectHasScene, Live
    <3>3. s # q
      BY <3>1, <3>2 DEF p
    <3>4. pc'[s] = "scene" /\ held'[s].p = r
      BY <2>3, <3>2, <3>3 DEF Others
    <3> QED
      BY <3>4
  <2>10. UploadInv' /\ ThumbInv'
    BY <1>1, <1>2, <2>3, UploadFrame, ThumbFrame DEF Uploads
  <2>11. WriteInv'
    <3>1. \A r \in Requests : pc'[r] \in {"put", "bump"} => pc[r] = pc'[r] /\ held'[r] = held[r]
      BY <2>3 DEF Others
    <3>2. ASSUME NEW r \in Requests, pc[r] \in {"put", "bump"}, held[r].p = p PROVE p \in contended
      <4>1. held[r].version # 0
        BY <1>1, <3>2, Numbers DEF HeldInv
      <4>2. p \notin contended => scene[p] = held[r].version
        BY <1>1, <1>3, <3>2 DEF WriteInv
      <4> QED
        BY <1>4, <4>1, <4>2
    <3>3. ASSUME NEW r \in Ids, r \notin contended, NEW s \in Requests, pc'[s] \in {"put", "bump"}, held'[s].p = r
          PROVE  /\ scene'[r] = held'[s].version
                 /\ \A u \in Requests : pc'[u] \in {"put", "bump"} /\ held'[u].p = r => s = u
      <4>1. pc[s] \in {"put", "bump"} /\ held[s].p = r /\ held'[s] = held[s]
        BY <3>1, <3>3
      <4>2. r # p
        BY <3>2, <3>3, <4>1
      <4>3. scene[r] = held[s].version /\ \A u \in Requests : pc[u] \in {"put", "bump"} /\ held[u].p = r => s = u
        BY <1>1, <3>3, <4>1 DEF WriteInv
      <4> QED
        BY <2>8, <3>1, <4>1, <4>2, <4>3
    <3> QED
      BY <1>2, <3>3 DEF WriteInv
  <2> QED
    BY <2>5, <2>6, <2>7, <2>9, <2>10, <2>11 DEF IInv
<1>5. CASE ~(row[p] = "live" /\ scene[p] = 0)
  <2>1. End(q, "scene") /\ scene' = scene /\ Mishap
    BY <1>5 DEF CreateScene
  <2>2. Moves(q, "scene", "idle", Nothing)
    BY <1>1, <2>1, EndMoves
  <2>3. Others(q) /\ pc[q] = "scene" /\ pc'[q] = "idle" /\ held'[q] = Nothing
    BY <2>2 DEF Moves
  <2>4. mishaps' \in 0 .. MaxMishaps /\ mishaps' # 0
    BY <1>1, <2>1, MishapCounts
  <2>5. TypeOK'
    BY <1>1, <1>2, <2>1, <2>2, <2>4 DEF TypeOK, Moves, HeldType
  <2>6. HeldInv'
    BY <1>1, <2>3, HeldFrame
  <2>7. Counted'
    BY <1>1, <1>2, <2>3, <2>4, AddingEnds
  <2>8. ProjectHasScene'
    <3> SUFFICES ASSUME NEW r \in Ids, row'[r] = "live", r \notin bare', scene'[r] = 0
                 PROVE  \E s \in Requests : pc'[s] = "scene" /\ held'[s].p = r
      BY DEF ProjectHasScene, Live
    <3>1. r # p /\ row[r] = "live" /\ r \notin bare /\ scene[r] = 0
      BY <1>2, <1>5, <2>1
    <3>2. PICK s \in Requests : pc[s] = "scene" /\ held[s].p = r
      BY <1>1, <3>1 DEF ProjectHasScene, Live
    <3>3. pc'[s] = "scene" /\ held'[s].p = r
      BY <2>3, <3>1, <3>2 DEF Others
    <3> QED
      BY <3>3
  <2>9. UploadInv' /\ ThumbInv' /\ WriteInv'
    BY <1>1, <1>2, <2>1, <2>3, UploadFrame, ThumbFrame, WriteFrame DEF Uploads
  <2> QED
    BY <2>5, <2>6, <2>7, <2>8, <2>9 DEF IInv
<1> QED
  BY <1>4, <1>5

LEMMA CountKeeps ==
    ASSUME IInv, NEW q \in Requests, CountProject(q)
    PROVE  IInv'
<1>1. TypeOK /\ HeldInv /\ Counted /\ ProjectHasScene /\ UploadInv /\ ThumbInv /\ WriteInv
  BY DEF IInv
<1>2. total' = total + 1 /\ UNCHANGED <<row, scene, child, thumb, objects, mishaps, bare, contended, unsure>>
  BY DEF CountProject, rows, image, history
<1>3. Goto(q, "count", "copy") \/ End(q, "count")
  BY DEF CountProject
<1>4. Moves(q, "count", "copy", held[q]) \/ Moves(q, "count", "idle", Nothing)
  BY <1>1, <1>3, GotoMoves, EndMoves DEF Steps
<1>5. Others(q) /\ pc[q] = "count" /\ ((pc'[q] = "copy" /\ held'[q] = held[q]) \/ pc'[q] = "idle")
  BY <1>4 DEF Moves
<1>6. TypeOK'
  <2>1. pc' \in [Requests -> Steps] /\ held' \in [Requests -> HeldType]
    BY <1>4 DEF Moves
  <2>2. total' \in Nat
    BY <1>1, <1>2 DEF TypeOK
  <2> QED
    BY <1>1, <1>2, <2>1, <2>2 DEF TypeOK, HeldType
<1>7. HeldInv'
  BY <1>1, <1>5, HeldFrame DEF HeldInv
<1>8. Counted'
  BY <1>1, <1>2, <1>5, AddingEnds
<1>9. ProjectHasScene' /\ UploadInv' /\ ThumbInv' /\ WriteInv'
  BY <1>1, <1>2, <1>5, SceneFrame, UploadFrame, ThumbFrame, WriteFrame DEF Uploads
<1> QED
  BY <1>6, <1>7, <1>8, <1>9 DEF IInv

-----------------------------------------------------------------------------
(* Writes of a scene. *)

\* A write is the writer's own, or the scene is contended.
LEMMA SceneWrite ==
    ASSUME TypeOK, WriteInv, NEW q \in Requests, Others(q), NEW p \in Ids, NEW v,
           scene' = [scene EXCEPT ![p] = v], contended \subseteq contended',
           pc'[q] \in {"put", "bump"} => held'[q].p = p /\ held'[q].version = v,
           p \in contended' \/ \A r \in Requests \ {q} : pc[r] \in {"put", "bump"} => held[r].p # p
    PROVE  WriteInv'
<1>1. scene'[p] = v /\ \A r \in Ids \ {p} : scene'[r] = scene[r]
  BY DEF TypeOK
<1>2. \A r \in Requests \ {q} : pc'[r] = pc[r] /\ held'[r] = held[r]
  BY DEF Others
<1> SUFFICES ASSUME NEW x \in Ids, x \notin contended', NEW s \in Requests, pc'[s] \in {"put", "bump"}, held'[s].p = x
             PROVE  /\ scene'[x] = held'[s].version
                    /\ \A u \in Requests : pc'[u] \in {"put", "bump"} /\ held'[u].p = x => s = u
  BY DEF WriteInv
<1>3. CASE s = q
  BY <1>1, <1>2, <1>3
<1>4. CASE s # q
  <2>1. x # p
    BY <1>2, <1>4
  <2>2. scene[x] = held[s].version /\ \A u \in Requests : pc[u] \in {"put", "bump"} /\ held[u].p = x => s = u
    BY <1>2, <1>4 DEF WriteInv
  <2> QED
    BY <1>1, <1>2, <1>4, <2>1, <2>2
<1> QED
  BY <1>3, <1>4

\* It leaves a version.
LEMMA WriteKeeps ==
    ASSUME IInv, NEW q \in Requests, Others(q), NEW p \in Ids, NEW v \in 1 .. MaxVersion,
           scene' = [scene EXCEPT ![p] = v],
           UNCHANGED <<row, child, thumb, objects, total, mishaps, bare, unsure>>,
           contended \subseteq contended', contended' \in SUBSET Ids,
           pc' \in [Requests -> Steps], held' \in [Requests -> HeldType],
           pc[q] \notin {"scene", "count"}, pc[q] \notin Uploads,
           pc'[q] \in {"notes", "bump", "idle"},
           pc'[q] = "bump" => held'[q].p = p /\ held'[q].version = v /\ v < MaxVersion,
           p \in contended' \/ \A r \in Requests \ {q} : pc[r] \in {"put", "bump"} => held[r].p # p
    PROVE  IInv'
<1>1. TypeOK /\ HeldInv /\ Counted /\ ProjectHasScene /\ UploadInv /\ ThumbInv /\ WriteInv
  BY DEF IInv
<1>2. v \in 0 .. MaxVersion /\ v # 0 /\ (v < MaxVersion => v \in 1 .. MaxVersion - 1)
  BY Numbers
<1>3. TypeOK'
  BY <1>1, <1>2 DEF TypeOK, HeldType
<1>4. HeldInv'
  BY <1>1, <1>2, HeldFrame
<1>5. Counted'
  BY <1>1, CountedFrame
<1>6. ProjectHasScene'
  <2>1. \A r \in Ids : scene'[r] = 0 => scene[r] = 0
    BY <1>1, <1>2 DEF TypeOK
  <2> QED
    BY <1>1, <2>1, SceneFrame
<1>7. UploadInv' /\ ThumbInv'
  BY <1>1, UploadFrame, ThumbFrame DEF Uploads
<1>8. WriteInv'
  BY <1>1, SceneWrite
<1> QED
  BY <1>3, <1>4, <1>5, <1>6, <1>7, <1>8 DEF IInv

LEMMA CopySceneKeeps ==
    ASSUME IInv, NEW q \in Requests, CopyScene(q)
    PROVE  IInv'
<1>1. TypeOK
  BY DEF IInv
<1> DEFINE p == held[q].p
<1>2. /\ scene' = [scene EXCEPT ![p] = 1]
      /\ contended' = IF scene[p] > 1 \/ Contends(q, p) THEN contended \cup {p} ELSE contended
      /\ UNCHANGED <<row, child, thumb, objects, total, mishaps, bare, unsure>>
  BY DEF CopyScene, image
<1>3. Moves(q, "copy", "notes", held[q])
  BY <1>1, GotoMoves DEF CopyScene, Steps
<1>4. p \in Ids /\ 1 \in 1 .. MaxVersion
  BY <1>1, Holds, Numbers
<1>5. contended \subseteq contended' /\ contended' \in SUBSET Ids
  BY <1>1, <1>2, <1>4 DEF TypeOK
<1>6. p \in contended' \/ \A r \in Requests \ {q} : pc[r] \in {"put", "bump"} => held[r].p # p
  BY <1>2 DEF Contends, Writing
<1>7. pc[q] = "copy" /\ pc'[q] = "notes"
  BY <1>3 DEF Moves
<1> HIDE DEF p
<1> QED
  BY <1>2, <1>3, <1>4, <1>5, <1>6, <1>7, WriteKeeps DEF Moves, Uploads

LEMMA SaveSceneKeeps ==
    ASSUME IInv, NEW q \in Requests, SaveScene(q) \/ BumpVersion(q)
    PROVE  IInv'
<1>1. TypeOK /\ HeldInv /\ WriteInv
  BY DEF IInv
<1> DEFINE p == held[q].p
<1>2. UNCHANGED <<row, child, thumb, objects, total, mishaps, bare, contended, unsure>>
  BY DEF SaveScene, BumpVersion, image, history
<1>3. pc[q] \in {"put", "bump"}
  BY DEF SaveScene, BumpVersion, Goto, End
<1>4. p \in Ids /\ held[q].version \in 1 .. MaxVersion - 1
  BY <1>1, <1>3, Holds DEF HeldInv
<1>5. /\ held[q].version \in 1 .. MaxVersion /\ held[q].version < MaxVersion
      /\ held[q].version + 1 \in 1 .. MaxVersion
  BY <1>4, Numbers
<1>6. p \in contended' \/ \A r \in Requests \ {q} : pc[r] \in {"put", "bump"} => held[r].p # p
  BY <1>1, <1>2, <1>3, <1>4 DEF WriteInv
<1>7. contended \subseteq contended' /\ contended' \in SUBSET Ids
  BY <1>1, <1>2 DEF TypeOK
<1>8. pc[q] \notin {"scene", "count"} /\ pc[q] \notin Uploads
  BY <1>3 DEF Uploads
<1>9. CASE SaveScene(q)
  <2>1. Moves(q, "put", "bump", held[q]) /\ scene' = [scene EXCEPT ![p] = held[q].version]
    BY <1>1, <1>9, GotoMoves DEF SaveScene, Steps
  <2>2. /\ pc'[q] = "bump" /\ held'[q].p = p /\ held'[q].version = held[q].version /\ Others(q)
        /\ pc' \in [Requests -> Steps] /\ held' \in [Requests -> HeldType]
    BY <2>1 DEF Moves
  <2> HIDE DEF p
  <2>3. ASSUME NEW v \in 1 .. MaxVersion, v = held[q].version PROVE IInv'
    <3>1. scene' = [scene EXCEPT ![p] = v] /\ held'[q].version = v /\ v < MaxVersion
      BY <1>5, <2>1, <2>2, <2>3
    <3> QED
      BY <1>2, <1>4, <1>6, <1>7, <1>8, <2>2, <3>1, WriteKeeps
  <2> QED
    BY <1>5, <2>3
<1>10. CASE BumpVersion(q)
  <2>1. Moves(q, "bump", "idle", Nothing) /\ scene' = [scene EXCEPT ![p] = held[q].version + 1]
    BY <1>1, <1>10, EndMoves DEF BumpVersion
  <2>2. /\ pc'[q] = "idle" /\ Others(q)
        /\ pc' \in [Requests -> Steps] /\ held' \in [Requests -> HeldType]
    BY <2>1 DEF Moves
  <2> HIDE DEF p
  <2>3. ASSUME NEW v \in 1 .. MaxVersion, v = held[q].version + 1 PROVE IInv'
    <3>1. scene' = [scene EXCEPT ![p] = v]
      BY <2>1, <2>3
    <3> QED
      BY <1>2, <1>4, <1>6, <1>7, <1>8, <2>2, <3>1, WriteKeeps
  <2> QED
    BY <1>5, <2>3
<1> QED
  BY <1>9, <1>10

LEMMA LostSceneKeeps ==
    ASSUME IInv, NEW q \in Requests, SaveLostScene(q)
    PROVE  IInv'
<1>1. TypeOK /\ HeldInv
  BY DEF IInv
<1> DEFINE p == held[q].p
<1>2. UNCHANGED <<row, child, thumb, objects, total, mishaps, bare, unsure>>
  BY DEF SaveLostScene, image
<1>3. CASE row[p] = "live" /\ scene[p] = 0
  <2>1. /\ Goto(q, "gap", IF held[q].version = 0 THEN "notes" ELSE "bump")
        /\ scene' = [scene EXCEPT ![p] = IF held[q].version = 0 THEN 1 ELSE held[q].version]
        /\ contended' = contended \cup {p}
    BY <1>3 DEF SaveLostScene
  <2>2. p \in Ids /\ held[q].version \in 0 .. MaxVersion
    BY <1>1, Holds
  <2>3. pc[q] = "gap" /\ held[q].version < MaxVersion
    BY <1>1, <2>1 DEF HeldInv, Goto
  <2>4. contended \subseteq contended' /\ contended' \in SUBSET Ids /\ p \in contended'
    BY <1>1, <2>1, <2>2 DEF TypeOK
  <2>5. CASE held[q].version = 0
    <3>1. Moves(q, "gap", "notes", held[q]) /\ scene' = [scene EXCEPT ![p] = 1]
      BY <1>1, <2>1, <2>5, GotoMoves DEF Steps
    <3>2. 1 \in 1 .. MaxVersion
      BY Numbers
    <3> QED
      BY <1>2, <2>2, <2>3, <2>4, <3>1, <3>2, WriteKeeps DEF Moves, Uploads
  <2>6. CASE held[q].version # 0
    <3>1. Moves(q, "gap", "bump", held[q]) /\ scene' = [scene EXCEPT ![p] = held[q].version]
      BY <1>1, <2>1, <2>6, GotoMoves DEF Steps
    <3>2. held[q].version \in 1 .. MaxVersion
      BY <2>2, <2>6, Numbers
    <3> QED
      BY <1>2, <2>2, <2>3, <2>4, <3>1, <3>2, WriteKeeps DEF Moves, Uploads
  <2> QED
    BY <2>5, <2>6
<1>4. CASE ~(row[p] = "live" /\ scene[p] = 0)
  <2>1. End(q, "gap") /\ UNCHANGED <<scene, contended>>
    BY <1>4 DEF SaveLostScene
  <2>2. Moves(q, "gap", "idle", Nothing)
    BY <1>1, <2>1, EndMoves
  <2>3. TypeOK'
    BY <1>1, <1>2, <2>1, <2>2 DEF TypeOK, Moves, HeldType
  <2> QED
    BY <1>2, <2>1, <2>2, <2>3, QuietKeeps DEF image, history
<1> QED
  BY <1>3, <1>4

LEMMA FetchSceneKeeps ==
    ASSUME IInv, NEW q \in Requests, NEW p \in Ids, FetchScene(q, p)
    PROVE  IInv'
<1>1. TypeOK /\ HeldInv /\ Counted /\ ProjectHasScene /\ UploadInv /\ ThumbInv /\ WriteInv
  BY DEF IInv
<1> DEFINE h == [Nothing EXCEPT !.p = p, !.version = scene[p]]
<1>2. /\ scene[p] \in 1 .. MaxVersion - 1 /\ Begin(q, "put", h)
      /\ contended' = IF Contends(q, p) THEN contended \cup {p} ELSE contended
      /\ UNCHANGED <<row, scene, child, thumb, objects, total, mishaps, bare, unsure>>
  BY DEF FetchScene, rows, image
<1>3. h \in HeldType /\ h.p = p /\ h.version = scene[p]
  <2>1. scene[p] \in 0 .. MaxVersion
    BY <1>1 DEF TypeOK
  <2>2. h \in HeldType
    BY <2>1, NothingTyped DEF HeldType
  <2> QED
    BY <2>2 DEF Nothing
<1> HIDE DEF h
<1>4. Moves(q, "idle", "put", h)
  BY <1>1, <1>2, <1>3, BeginMoves DEF Steps
<1>5. Others(q) /\ pc[q] = "idle" /\ pc'[q] = "put" /\ held'[q] = h
  BY <1>4 DEF Moves
<1>6. contended \subseteq contended' /\ contended' \in SUBSET Ids
  BY <1>1, <1>2 DEF TypeOK
<1>7. TypeOK'
  BY <1>1, <1>2, <1>4, <1>6 DEF TypeOK, Moves, HeldType
<1>8. HeldInv'
  BY <1>1, <1>2, <1>3, <1>5, HeldFrame
<1>9. Counted' /\ ProjectHasScene' /\ UploadInv' /\ ThumbInv'
  BY <1>1, <1>2, <1>5, CountedFrame, SceneFrame, UploadFrame, ThumbFrame DEF Uploads
<1>10. WriteInv'
  <2>1. scene' = [scene EXCEPT ![p] = scene[p]]
    BY <1>1, <1>2 DEF TypeOK
  <2>2. p \in contended' \/ \A r \in Requests \ {q} : pc[r] \in {"put", "bump"} => held[r].p # p
    BY <1>2 DEF Contends, Writing
  <2> QED
    BY <1>1, <1>3, <1>5, <1>6, <2>1, <2>2, SceneWrite
<1> QED
  BY <1>7, <1>8, <1>9, <1>10 DEF IInv

-----------------------------------------------------------------------------
(* Requests that only read, or write what the invariant does not speak of. *)

LEMMA QuietSteps ==
    ASSUME IInv, NEW q \in Requests,
           \/ (\E c \in Children : CopyNote(q, c)) \/ EndDuplicate(q) \/ BumpFails(q)
           \/ (\E p \in Ids : FetchProject(q, p) \/ FetchToDelete(q, p)) \/ DeleteFails(q)
           \/ (\E c \in Children : FetchNote(q, c) \/ OpenLink(q, c)) \/ SaveNote(q) \/ ShowShared(q)
    PROVE  IInv'
<1>1. TypeOK
  BY DEF IInv
<1>2. /\ UNCHANGED <<row, scene, thumb, objects, total, mishaps, bare, contended, unsure>>
      /\ child' \in [Children -> ChildRows]
  <2>1. CASE \E c \in Children : CopyNote(q, c)
    <3>1. held[q].p \in Ids
      BY <1>1, Holds
    <3>2. [kind |-> "note", of |-> held[q].p] \in ChildRows
      BY <3>1 DEF ChildRows
    <3> QED
      BY <1>1, <2>1, <3>2 DEF CopyNote, image, history, TypeOK
  <2>2. CASE SaveNote(q)
    <3>1. held[q].p \in Ids
      BY <1>1, Holds
    <3>2. [kind |-> "note", of |-> held[q].p] \in ChildRows
      BY <3>1 DEF ChildRows
    <3> QED
      BY <1>1, <2>2, <3>2 DEF SaveNote, image, history, TypeOK
  <2>3. CASE UNCHANGED <<rows, image, total, history>>
    BY <1>1, <2>3 DEF rows, image, history, TypeOK
  <2> QED
    BY <2>1, <2>2, <2>3 DEF EndDuplicate, BumpFails, FetchProject, FetchToDelete, DeleteFails, FetchNote, OpenLink, ShowShared
<1>3. \E from \in Steps \ {"scene", "count", "store", "name"},
         to \in {"idle", "notes", "edit", "delete", "note", "mark"}, h \in HeldType :
             Moves(q, from, to, h) /\ (to = "edit" => h.version = 0)
  <2>1. {"idle", "notes", "edit", "delete", "note", "mark", "lost"} \subseteq Steps \ {"scene", "count", "store", "name"}
    BY DEF Steps
  <2>2. held[q] \in HeldType /\ Nothing \in HeldType
    BY <1>1, Holds, NothingTyped
  <2>3. CASE \E c \in Children : CopyNote(q, c)
    <3>1. Moves(q, "notes", "notes", held[q])
      BY <1>1, <2>1, <2>3, GotoMoves DEF CopyNote
    <3> QED
      BY <2>1, <2>2, <3>1
  <2>4. CASE EndDuplicate(q) \/ BumpFails(q) \/ DeleteFails(q) \/ SaveNote(q) \/ ShowShared(q)
    <3>1. \E from \in {"notes", "lost", "delete", "note", "mark"} : End(q, from)
      BY <2>4 DEF EndDuplicate, BumpFails, DeleteFails, SaveNote, ShowShared
    <3> QED
      BY <1>1, <2>1, <2>2, <3>1, EndMoves
  <2>5. ASSUME NEW p \in Ids, FetchProject(q, p) PROVE \E h \in HeldType : Moves(q, "idle", "edit", h) /\ h.version = 0
    <3> DEFINE h == [Nothing EXCEPT !.p = p, !.name = thumb[p]]
    <3>1. thumb[p] \in Names \cup {NoName}
      BY <1>1 DEF TypeOK
    <3>2. h \in HeldType
      BY <3>1, NothingTyped DEF HeldType
    <3>3. h.version = 0
      BY DEF Nothing
    <3>4. Begin(q, "edit", h)
      BY <2>5 DEF FetchProject
    <3> HIDE DEF h
    <3>5. Moves(q, "idle", "edit", h)
      BY <1>1, <2>1, <3>2, <3>4, BeginMoves
    <3> QED
      BY <3>2, <3>3, <3>5
  <2>6. ASSUME NEW p \in Ids, FetchToDelete(q, p) PROVE \E h \in HeldType : Moves(q, "idle", "delete", h)
    <3> DEFINE h == [Nothing EXCEPT !.p = p, !.children = Below(p)]
    <3>1. Below(p) \in SUBSET Children
      BY DEF Below
    <3>2. h \in HeldType
      BY <3>1, NothingTyped DEF HeldType
    <3>3. Begin(q, "delete", h)
      BY <2>6 DEF FetchToDelete
    <3> HIDE DEF h
    <3>4. Moves(q, "idle", "delete", h)
      BY <1>1, <2>1, <3>2, <3>3, BeginMoves
    <3> QED
      BY <3>2, <3>4
  <2>7. ASSUME NEW c \in Children, FetchNote(q, c) \/ OpenLink(q, c)
        PROVE  \E to \in {"note", "mark"}, h \in HeldType : Moves(q, "idle", to, h)
    <3> DEFINE h == [Nothing EXCEPT !.p = child[c].of, !.child = c]
    <3>1. child[c].of \in Ids
      BY <1>1 DEF TypeOK, ChildRows
    <3>2. h \in HeldType
      BY <3>1, NothingTyped DEF HeldType
    <3>3. \E to \in {"note", "mark"} : Begin(q, to, h)
      BY <2>7 DEF FetchNote, OpenLink
    <3> HIDE DEF h
    <3>4. \E to \in {"note", "mark"} : Moves(q, "idle", to, h)
      BY <1>1, <2>1, <3>2, <3>3, BeginMoves
    <3> QED
      BY <3>2, <3>4
  <2> QED
    BY <2>1, <2>3, <2>4, <2>5, <2>6, <2>7
<1>4. PICK from \in Steps \ {"scene", "count", "store", "name"},
           to \in {"idle", "notes", "edit", "delete", "note", "mark"}, h \in HeldType :
               Moves(q, from, to, h) /\ (to = "edit" => h.version = 0)
  BY <1>3
<1>5. TypeOK'
  BY <1>1, <1>2, <1>4 DEF TypeOK, Moves, HeldType
<1> QED
  BY <1>2, <1>4, <1>5, QuietKeeps DEF image, history

-----------------------------------------------------------------------------
(* Thumbnails. *)

LEMMA SaveProjectKeeps ==
    ASSUME IInv, NEW q \in Requests, SaveProject(q)
    PROVE  IInv'
<1>1. TypeOK /\ HeldInv /\ Counted /\ ProjectHasScene /\ UploadInv /\ ThumbInv /\ WriteInv
  BY DEF IInv
<1> DEFINE p == held[q].p
<1>2. /\ thumb' = [thumb EXCEPT ![p] = held[q].name]
      /\ unsure' = IF thumb[p] # held[q].name THEN unsure \cup {p} ELSE unsure
      /\ UNCHANGED <<row, scene, child, objects, total, mishaps, bare, contended>>
  BY DEF SaveProject, rows
<1>3. p \in Ids /\ held[q].name \in Names \cup {NoName}
  BY <1>1, Holds
<1>4. Moves(q, "edit", "idle", Nothing)
  BY <1>1, EndMoves DEF SaveProject
<1>5. Others(q) /\ pc[q] = "edit" /\ pc'[q] = "idle" /\ held'[q] = Nothing
  BY <1>4 DEF Moves
<1>6. TypeOK'
  BY <1>1, <1>2, <1>3, <1>4 DEF TypeOK, Moves, HeldType
<1>7. HeldInv' /\ Counted' /\ ProjectHasScene' /\ WriteInv'
  BY <1>1, <1>2, <1>5, HeldFrame, CountedFrame, SceneFrame, WriteFrame
<1>8. \A r \in Ids : thumb'[r] = thumb[r] \/ r \in unsure'
  BY <1>1, <1>2, <1>3 DEF TypeOK
<1>9. unsure \subseteq unsure'
  BY <1>2
<1> HIDE DEF p
<1>10. UploadInv'
  <2>1. \A r \in Requests : pc'[r] \in Uploads => pc'[r] = pc[r] /\ held'[r] = held[r]
    BY <1>5 DEF Others, Uploads
  <2>2. \A r \in Requests : /\ pc'[r] \in Uploads => held'[r].p = First
                            /\ pc'[r] = "name" => held'[r].name \in objects' \/ First \in unsure'
    BY <1>1, <1>2, <1>9, <2>1 DEF UploadInv, Uploads
  <2> QED
    BY <1>1, <1>2, <1>8, <1>9, <2>2 DEF UploadInv
<1>11. ThumbInv'
  <2>1. \A r \in Requests : pc[r] \in {"store", "name"} => pc'[r] = pc[r]
    BY <1>5 DEF Others
  <2> QED
    BY <1>1, <1>2, <1>8, <1>9, <2>1, ProjectsAssumption DEF ThumbInv
<1> QED
  BY <1>6, <1>7, <1>10, <1>11 DEF IInv

\* What the steps of an upload have in common: they leave the counter and the scenes alone.
LEMMA UploadKeeps ==
    ASSUME IInv, TypeOK', NEW q \in Requests, NEW from, NEW to, NEW h, Moves(q, from, to, h),
           UNCHANGED <<row, scene, total, mishaps, bare, contended>>,
           from \notin {"scene", "count"}, to \in {"idle", "erase", "store", "name"},
           UploadInv', ThumbInv'
    PROVE  IInv'
<1>1. HeldInv' /\ Counted' /\ ProjectHasScene' /\ WriteInv'
  BY HeldFrame, CountedFrame, SceneFrame, WriteFrame DEF IInv, Moves
<1> QED
  BY <1>1 DEF IInv

LEMMA FetchForThumbnailKeeps ==
    ASSUME IInv, NEW q \in Requests, FetchForThumbnail(q)
    PROVE  IInv'
<1>1. TypeOK /\ UploadInv /\ ThumbInv
  BY DEF IInv
<1> DEFINE h == [Nothing EXCEPT !.name = thumb[First]]
<1>2. UNCHANGED <<row, scene, child, thumb, objects, total, mishaps, bare, contended, unsure>>
  BY DEF FetchForThumbnail, rows, image, history
<1>3. PICK step \in {"store", "erase"} : Begin(q, step, h)
  BY DEF FetchForThumbnail
<1>4. h \in HeldType /\ h.p = First
  <2>1. thumb[First] \in Names \cup {NoName}
    BY <1>1, ProjectsAssumption DEF TypeOK
  <2>2. h \in HeldType
    BY <2>1, NothingTyped DEF HeldType
  <2> QED
    BY <2>2 DEF Nothing
<1> HIDE DEF h
<1>5. Moves(q, "idle", step, h)
  BY <1>1, <1>3, <1>4, BeginMoves DEF Steps
<1>6. Others(q) /\ pc[q] = "idle" /\ pc'[q] = step /\ held'[q] = h
  BY <1>5 DEF Moves
<1>7. TypeOK'
  BY <1>1, <1>2, <1>5 DEF TypeOK, Moves, HeldType
<1>8. UploadInv' /\ ThumbInv'
  BY <1>1, <1>2, <1>4, <1>6, UploadFrame, ThumbFrame
<1> QED
  BY <1>2, <1>5, <1>7, <1>8, UploadKeeps

LEMMA EraseKeeps ==
    ASSUME IInv, NEW q \in Requests, EraseThumbnail(q)
    PROVE  IInv'
<1>1. TypeOK /\ UploadInv /\ ThumbInv
  BY DEF IInv
<1>2. /\ objects' = objects \ {held[q].name}
      /\ unsure' = IF \E r \in Requests : pc[r] = "name" /\ held[r].name = held[q].name
                   THEN unsure \cup {held[q].p} ELSE unsure
      /\ UNCHANGED <<row, scene, child, thumb, total, mishaps, bare, contended>>
  BY DEF EraseThumbnail, rows
<1>3. Moves(q, "erase", "store", held[q])
  BY <1>1, GotoMoves DEF EraseThumbnail, Steps
<1>4. Others(q) /\ pc[q] = "erase" /\ pc'[q] = "store" /\ held'[q] = held[q]
  BY <1>3 DEF Moves
<1>5. held[q].p = First /\ First \in Ids
  BY <1>1, <1>4, ProjectsAssumption DEF UploadInv, Uploads
<1>6. unsure \subseteq unsure' /\ unsure' \in SUBSET Ids /\ objects' \in SUBSET Names
  BY <1>1, <1>2, <1>5 DEF TypeOK
<1>7. TypeOK'
  BY <1>1, <1>2, <1>3, <1>6 DEF TypeOK, Moves, HeldType
<1>8. UploadInv'
  <2>1. ASSUME NEW r \in Requests, pc'[r] = "name" PROVE held'[r].name \in objects' \/ First \in unsure'
    <3>1. r # q /\ pc[r] = "name" /\ held'[r] = held[r]
      BY <1>4, <2>1 DEF Others
    <3>2. held[r].name \in objects \/ First \in unsure
      BY <1>1, <3>1 DEF UploadInv
    <3>3. held[r].name = held[q].name => First \in unsure'
      BY <1>2, <1>5, <3>1
    <3> QED
      BY <1>2, <1>6, <3>1, <3>2, <3>3
  <2>2. \A r \in Requests : pc'[r] \in Uploads => held'[r].p = First
    BY <1>1, <1>4, <1>5 DEF UploadInv, Others
  <2> QED
    BY <1>1, <1>2, <1>6, <2>1, <2>2 DEF UploadInv
<1>9. ThumbInv'
  BY <1>4 DEF ThumbInv
<1> QED
  BY <1>2, <1>3, <1>7, <1>8, <1>9, UploadKeeps

LEMMA StoreKeeps ==
    ASSUME IInv, NEW q \in Requests, NEW n \in Names, StoreThumbnail(q, n)
    PROVE  IInv'
<1>1. TypeOK /\ UploadInv /\ ThumbInv
  BY DEF IInv
<1>2. /\ pc[q] = "store" /\ objects' = objects \cup {n}
      /\ pc' = [pc EXCEPT ![q] = "name"] /\ held' = [held EXCEPT ![q].name = n]
      /\ UNCHANGED <<row, scene, child, thumb, total, mishaps, bare, contended, unsure>>
  BY DEF StoreThumbnail, rows, history
<1> DEFINE h == [held[q] EXCEPT !.name = n]
<1>3. held[q] \in HeldType /\ held[q].p = First
  BY <1>1, <1>2, Holds DEF UploadInv, Uploads
<1>4. h \in HeldType /\ h.p = First /\ h.name = n
  BY <1>3 DEF HeldType
<1>5. held' = [held EXCEPT ![q] = h]
  BY <1>2
<1> HIDE DEF h
<1>6. Moves(q, "store", "name", h)
  BY <1>1, <1>2, <1>4, <1>5 DEF TypeOK, HeldType, Moves, Others, Steps
<1>7. Others(q) /\ pc'[q] = "name" /\ held'[q] = h
  BY <1>6 DEF Moves
<1>8. TypeOK'
  BY <1>1, <1>2, <1>6 DEF TypeOK, Moves, HeldType
<1>9. objects \subseteq objects' /\ held'[q].name \in objects' /\ held'[q].p = First
  <2>1. held'[q].name = n /\ held'[q].p = First
    BY <1>4, <1>7
  <2>2. n \in objects'
    BY <1>2
  <2>3. objects \subseteq objects'
    BY <1>2
  <2> QED
    BY <2>1, <2>2, <2>3
<1>10. unsure \subseteq unsure' /\ row' = row /\ thumb' = thumb
  BY <1>2
<1>11. UploadInv'
  BY <1>1, <1>7, <1>9, <1>10, UploadFrame
<1>12. ThumbInv'
  BY <1>1, <1>7, <1>9, <1>10, ThumbFrame
<1> QED
  BY <1>2, <1>6, <1>8, <1>11, <1>12, UploadKeeps

LEMMA NameKeeps ==
    ASSUME IInv, NEW q \in Requests, NameThumbnail(q)
    PROVE  IInv'
<1>1. TypeOK /\ UploadInv /\ ThumbInv
  BY DEF IInv
<1>2. Moves(q, "name", "idle", Nothing)
  BY <1>1, EndMoves DEF NameThumbnail
<1>3. Others(q) /\ pc[q] = "name" /\ pc'[q] = "idle" /\ held'[q] = Nothing
  BY <1>2 DEF Moves
<1>4. held[q].p = First /\ First \in Ids
  BY <1>1, <1>3, ProjectsAssumption DEF UploadInv, Uploads
<1>5. /\ thumb' = IF row[First] = "live" THEN [thumb EXCEPT ![First] = held[q].name] ELSE thumb
      /\ UNCHANGED <<row, scene, child, objects, total, mishaps, bare, contended, unsure>>
  BY <1>4 DEF NameThumbnail, rows, history
<1>6. held[q].name \in Names \cup {NoName} /\ (held[q].name \in objects \/ First \in unsure)
  BY <1>1, <1>3, Holds DEF UploadInv
<1>7. TypeOK'
  BY <1>1, <1>2, <1>5, <1>6 DEF TypeOK, Moves, HeldType
<1>8. /\ row[First] = "live" => thumb'[First] = held[q].name
      /\ \A p \in Ids \ {First} : thumb'[p] = thumb[p]
  BY <1>1, <1>4, <1>5 DEF TypeOK
<1>9. UploadInv'
  <2>1. \A r \in Requests : pc'[r] \in Uploads => pc'[r] = pc[r] /\ held'[r] = held[r]
    BY <1>3 DEF Others, Uploads
  <2>2. \A r \in Requests : /\ pc'[r] \in Uploads => held'[r].p = First
                            /\ pc'[r] = "name" => held'[r].name \in objects' \/ First \in unsure'
    BY <1>1, <1>5, <2>1 DEF UploadInv, Uploads
  <2> QED
    BY <1>1, <1>5, <1>8, <2>2 DEF UploadInv
<1>10. ThumbInv'
  BY <1>5, <1>6, <1>8 DEF ThumbInv
<1> QED
  BY <1>2, <1>5, <1>7, <1>9, <1>10, UploadKeeps

-----------------------------------------------------------------------------
(* What hangs below a project, a delete, a kill. *)

ChildSteps ==
    \E c \in Children :
        \/ \E p \in Ids : CreateNote(c, p) \/ CreateLink(c, p)
        \/ DeleteChild(c) \/ ExpireLink(c)

LEMMA ChildKeeps ==
    ASSUME IInv, ChildSteps
    PROVE  IInv'
<1>1. TypeOK
  BY DEF IInv
<1>2. PICK c \in Children : (\E p \in Ids : CreateNote(c, p) \/ CreateLink(c, p)) \/ DeleteChild(c) \/ ExpireLink(c)
  BY DEF ChildSteps
<1>3. UNCHANGED <<row, scene, thumb, objects, total, pc, held, mishaps, bare, contended, unsure>>
  BY <1>2 DEF CreateNote, CreateLink, Insert, DeleteChild, ExpireLink, image, history
<1>4. child' \in [Children -> ChildRows]
  <2>1. CASE \E p \in Ids : CreateNote(c, p) \/ CreateLink(c, p)
    <3>1. PICK p \in Ids, kind \in {"note", "link"} : child' = [child EXCEPT ![c] = [kind |-> kind, of |-> p]]
      BY <2>1 DEF CreateNote, CreateLink, Insert
    <3>2. [kind |-> kind, of |-> p] \in ChildRows
      BY DEF ChildRows
    <3> QED
      BY <1>1, <3>1, <3>2 DEF TypeOK
  <2>2. CASE DeleteChild(c)
    <3>1. [kind |-> "gone", of |-> First] \in ChildRows
      BY ProjectsAssumption DEF ChildRows
    <3> QED
      BY <1>1, <2>2, <3>1 DEF TypeOK, DeleteChild
  <2>3. CASE ExpireLink(c)
    <3>1. [child[c] EXCEPT !.kind = "expired"] \in ChildRows
      BY <1>1 DEF TypeOK, ChildRows
    <3>2. child' = [child EXCEPT ![c] = [child[c] EXCEPT !.kind = "expired"]]
      BY <2>3 DEF ExpireLink
    <3> QED
      BY <1>1, <3>1, <3>2 DEF TypeOK
  <2> QED
    BY <1>2, <2>1, <2>2, <2>3
<1>5. TypeOK'
  BY <1>1, <1>3, <1>4 DEF TypeOK
<1>6. Live' = Live /\ Adding' = Adding
  BY <1>3 DEF Live, Adding
<1>7. HeldInv' /\ Counted'
  BY <1>3, <1>6 DEF IInv, HeldInv, Counted
<1>8. ProjectHasScene'
  BY <1>3, <1>6 DEF IInv, ProjectHasScene
<1>9. UploadInv' /\ ThumbInv' /\ WriteInv'
  BY <1>3 DEF IInv, UploadInv, ThumbInv, WriteInv
<1> QED
  BY <1>5, <1>7, <1>8, <1>9 DEF IInv

\* A delete strands the requests that hold the scene of p, and moves no other.
LEMMA StrandedSteps ==
    ASSUME TypeOK, NEW q \in Requests, NEW p \in Ids, pc' = Stranded(q, p), held' = [held EXCEPT ![q] = Nothing]
    PROVE  /\ pc' \in [Requests -> Steps] /\ held' \in [Requests -> HeldType]
           /\ pc'[q] = "idle"
           /\ \A r \in Requests \ {q} :
                 /\ held'[r] = held[r]
                 /\ \/ pc'[r] = pc[r] /\ (pc[r] \in {"put", "bump", "copy"} => held[r].p # p)
                    \/ pc'[r] = "gap" /\ pc[r] \in {"put", "copy"}
                    \/ pc'[r] = "lost" /\ pc[r] = "bump"
<1>1. Nothing \in HeldType /\ pc \in [Requests -> Steps] /\ held \in [Requests -> HeldType]
  BY NothingTyped DEF TypeOK, HeldType
<1>2. held' \in [Requests -> HeldType] /\ \A r \in Requests \ {q} : held'[r] = held[r]
  BY <1>1
<1>3. pc'[q] = "idle"
  BY DEF Stranded
<1>4. ASSUME NEW r \in Requests \ {q}
      PROVE  \/ pc'[r] = pc[r] /\ (pc[r] \in {"put", "bump", "copy"} => held[r].p # p)
             \/ pc'[r] = "gap" /\ pc[r] \in {"put", "copy"}
             \/ pc'[r] = "lost" /\ pc[r] = "bump"
  <2>1. pc'[r] = CASE r = q -> "idle"
                   [] r # q /\ held[r].p = p /\ pc[r] \in {"put", "copy"} -> "gap"
                   [] r # q /\ held[r].p = p /\ pc[r] = "bump" -> "lost"
                   [] OTHER -> pc[r]
    BY DEF Stranded
  <2>2. r # q
    OBVIOUS
  <2>3. CASE held[r].p = p /\ pc[r] \in {"put", "copy"}
    BY <2>1, <2>2, <2>3
  <2>4. CASE held[r].p = p /\ pc[r] = "bump"
    BY <2>1, <2>2, <2>4
  <2>5. CASE ~(held[r].p = p /\ pc[r] \in {"put", "bump", "copy"})
    BY <2>1, <2>2, <2>5
  <2> QED
    BY <2>3, <2>4, <2>5
<1>5. pc' \in [Requests -> Steps]
  <2>1. \A r \in Requests : pc'[r] \in Steps
    BY <1>1, <1>3, <1>4 DEF Steps
  <2>2. pc' = [r \in Requests |-> pc'[r]]
    BY DEF Stranded
  <2> QED
    BY <2>1, <2>2
<1> QED
  BY <1>2, <1>3, <1>4, <1>5

\* The counter follows the row, or the repeated decrement is a mishap.
LEMMA DeleteCounts ==
    ASSUME TypeOK, Counted, NEW p \in Ids, total > 0, total' = total - 1, row' = [row EXCEPT ![p] = "deleted"],
           Adding' = Adding, (row[p] = "live" /\ mishaps' = mishaps) \/ (row[p] # "live" /\ mishaps' # 0)
    PROVE  Counted' /\ total' \in Nat
<1>1. IsFiniteSet(Live) /\ IsFiniteSet(Adding) /\ total \in Nat
  BY DEF Counted, TypeOK
<1>2. Cardinality(Live) \in Nat /\ Cardinality(Adding) \in Nat
  BY <1>1, FS_CardinalityType
<1>3. Live' = Live \ {p}
  BY DEF Live, TypeOK
<1>4. total' \in Nat
  BY <1>1
<1>5. CASE row[p] = "live" /\ mishaps' = mishaps
  <2>1. p \in Live
    BY <1>5 DEF Live
  <2>2. IsFiniteSet(Live') /\ Cardinality(Live') = Cardinality(Live) - 1
    BY <1>1, <1>3, <2>1, OneLess
  <2>3. mishaps = 0 => total + Cardinality(Adding) = Cardinality(Live)
    BY DEF Counted
  <2>4. mishaps' = 0 => total' + Cardinality(Adding') = Cardinality(Live')
    BY <1>1, <1>2, <1>5, <2>2, <2>3
  <2> QED
    BY <1>1, <1>4, <2>2, <2>4 DEF Counted
<1>6. CASE row[p] # "live" /\ mishaps' # 0
  <2>1. Live' = Live
    BY <1>3, <1>6 DEF Live
  <2> QED
    BY <1>1, <1>4, <1>6, <2>1 DEF Counted
<1> QED
  BY <1>5, <1>6

LEMMA DeleteKeeps ==
    ASSUME IInv, NEW q \in Requests, DeleteProject(q)
    PROVE  IInv'
<1>1. TypeOK /\ HeldInv /\ Counted /\ ProjectHasScene /\ UploadInv /\ ThumbInv /\ WriteInv
  BY DEF IInv
<1> DEFINE p == held[q].p
<1>2. /\ pc[q] = "delete" /\ total > 0 /\ total' = total - 1
      /\ pc' = Stranded(q, p) /\ held' = [held EXCEPT ![q] = Nothing]
      /\ row' = [row EXCEPT ![p] = "deleted"] /\ scene' = [scene EXCEPT ![p] = 0]
      /\ thumb' = [thumb EXCEPT ![p] = NoName]
      /\ child' = [c \in Children |-> IF c \in Below(p) THEN [kind |-> "gone", of |-> First] ELSE child[c]]
      /\ UNCHANGED <<objects, bare, contended, unsure>>
  BY DEF DeleteProject, Gone
<1>3. p \in Ids
  BY <1>1, Holds
<1>4. (row[p] = "live" /\ mishaps' = mishaps) \/ (row[p] # "live" /\ Mishap)
  BY DEF DeleteProject
<1> HIDE DEF p
<1>5. /\ pc' \in [Requests -> Steps] /\ held' \in [Requests -> HeldType]
      /\ pc'[q] = "idle"
      /\ \A r \in Requests \ {q} :
            /\ held'[r] = held[r]
            /\ \/ pc'[r] = pc[r] /\ (pc[r] \in {"put", "bump", "copy"} => held[r].p # p)
               \/ pc'[r] = "gap" /\ pc[r] \in {"put", "copy"}
               \/ pc'[r] = "lost" /\ pc[r] = "bump"
  BY <1>1, <1>2, <1>3, StrandedSteps
<1>6. \A r \in Requests : \A step \in {"scene", "count", "edit", "copy"} \cup Uploads :
          /\ pc'[r] = step => pc[r] = step /\ held'[r] = held[r]
          /\ pc[r] = step /\ step # "copy" => pc'[r] = step /\ held'[r] = held[r]
  BY <1>2, <1>5 DEF Uploads
<1>7. mishaps' \in 0 .. MaxMishaps /\ ((row[p] = "live" /\ mishaps' = mishaps) \/ (row[p] # "live" /\ mishaps' # 0))
  BY <1>1, <1>4, MishapCounts DEF TypeOK
<1>8. Adding' = Adding
  BY <1>6 DEF Adding
<1>9. Counted' /\ total' \in Nat
  BY <1>1, <1>2, <1>3, <1>7, <1>8, DeleteCounts
<1>10. TypeOK'
  <2>1. row' \in [Ids -> {"none", "live", "deleted"}] /\ thumb' \in [Ids -> Names \cup {NoName}]
    BY <1>1, <1>2 DEF TypeOK
  <2>2. scene' \in [Ids -> 0 .. MaxVersion]
    <3>1. 0 \in 0 .. MaxVersion
      BY Numbers
    <3> QED
      BY <1>1, <1>2, <3>1 DEF TypeOK
  <2>3. child' \in [Children -> ChildRows]
    <3>1. [kind |-> "gone", of |-> First] \in ChildRows
      BY ProjectsAssumption DEF ChildRows
    <3> QED
      BY <1>1, <1>2, <3>1 DEF TypeOK
  <2> QED
    BY <1>1, <1>2, <1>5, <1>7, <1>9, <2>1, <2>2, <2>3 DEF TypeOK, HeldType
<1>11. /\ row'[p] = "deleted" /\ scene'[p] = 0 /\ thumb'[p] = NoName
       /\ \A r \in Ids \ {p} : row'[r] = row[r] /\ scene'[r] = scene[r] /\ thumb'[r] = thumb[r]
  BY <1>1, <1>2, <1>3 DEF TypeOK
<1>12. HeldInv'
  <2> SUFFICES ASSUME NEW r \in Requests
               PROVE  /\ pc'[r] \in {"put", "bump"} => held'[r].version \in 1 .. MaxVersion - 1
                      /\ pc'[r] = "gap" => held'[r].version < MaxVersion
                      /\ pc'[r] \in {"edit", "scene", "count", "copy"} => held'[r].version = 0
    BY DEF HeldInv
  <2>1. pc[r] \in {"put", "copy"} => held[r].version < MaxVersion
    BY <1>1, Numbers DEF HeldInv
  <2>2. CASE r = q
    BY <1>5, <2>2
  <2>3. CASE r # q
    BY <1>1, <1>5, <2>1, <2>3 DEF HeldInv
  <2> QED
    BY <2>2, <2>3
<1>13. ProjectHasScene'
  <2> SUFFICES ASSUME NEW r \in Ids, row'[r] = "live", r \notin bare', scene'[r] = 0
               PROVE  \E s \in Requests : pc'[s] = "scene" /\ held'[s].p = r
    BY DEF ProjectHasScene, Live
  <2>1. row[r] = "live" /\ scene[r] = 0 /\ r \notin bare
    BY <1>2, <1>11
  <2>2. PICK s \in Requests : pc[s] = "scene" /\ held[s].p = r
    BY <1>1, <2>1 DEF ProjectHasScene, Live
  <2>3. pc'[s] = "scene" /\ held'[s].p = r
    BY <1>6, <2>2
  <2> QED
    BY <2>3
<1>14. UploadInv'
  <2>1. row'[First] # "none"
    BY <1>1, <1>11, ProjectsAssumption DEF UploadInv
  <2>2. \A r \in Ids \ {First} : r \in unsure' \/ thumb'[r] = NoName
    BY <1>1, <1>2, <1>11 DEF UploadInv
  <2>3. \A r \in Requests : pc'[r] \in Uploads => pc'[r] = pc[r] /\ held'[r] = held[r]
    BY <1>6
  <2>4. \A r \in Requests : /\ pc'[r] \in Uploads => held'[r].p = First
                            /\ pc'[r] = "name" => held'[r].name \in objects' \/ First \in unsure'
    BY <1>1, <1>2, <2>3 DEF UploadInv, Uploads
  <2> QED
    BY <2>1, <2>2, <2>4 DEF UploadInv
<1>15. ThumbInv'
  <2>1. \A r \in Requests : pc[r] \in {"store", "name"} => pc'[r] = pc[r]
    BY <1>6 DEF Uploads
  <2>2. CASE p = First
    BY <1>11, <2>2 DEF ThumbInv
  <2>3. CASE p # First
    BY <1>1, <1>2, <1>11, <2>1, <2>3, ProjectsAssumption DEF ThumbInv
  <2> QED
    BY <2>2, <2>3
<1>16. WriteInv'
  <2>1. \A r \in Requests : pc'[r] \in {"put", "bump"} => pc'[r] = pc[r] /\ held'[r] = held[r] /\ held[r].p # p
    BY <1>5
  <2>2. ASSUME NEW x \in Ids \ contended', NEW r \in Requests, pc'[r] \in {"put", "bump"}, held'[r].p = x
        PROVE  /\ scene'[x] = held'[r].version
               /\ \A s \in Requests : pc'[s] \in {"put", "bump"} /\ held'[s].p = x => r = s
    <3>1. x # p /\ pc[r] \in {"put", "bump"} /\ held[r].p = x /\ held'[r] = held[r] /\ x \in Ids \ contended
      BY <1>2, <2>1, <2>2
    <3>2. scene[x] = held[r].version /\ \A s \in Requests : pc[s] \in {"put", "bump"} /\ held[s].p = x => r = s
      BY <1>1, <3>1 DEF WriteInv
    <3> QED
      BY <1>11, <2>1, <3>1, <3>2
  <2> QED
    BY <2>2 DEF WriteInv
<1> QED
  BY <1>9, <1>10, <1>12, <1>13, <1>14, <1>15, <1>16 DEF IInv

LEMMA KillKeeps ==
    ASSUME IInv, NEW q \in Requests, KillRequest(q)
    PROVE  IInv'
<1>1. TypeOK /\ HeldInv /\ Counted /\ ProjectHasScene /\ UploadInv /\ ThumbInv /\ WriteInv
  BY DEF IInv
<1> DEFINE p == held[q].p
<1>2. /\ bare' = IF pc[q] = "scene" THEN bare \cup {p} ELSE bare
      /\ unsure' = IF pc[q] \in {"store", "name"} THEN unsure \cup {p} ELSE unsure
      /\ UNCHANGED <<row, scene, child, thumb, objects, total, contended>>
  BY DEF KillRequest, rows, image
<1>3. p \in Ids
  BY <1>1, Holds
<1>4. Moves(q, pc[q], "idle", Nothing)
  BY <1>1, EndMoves DEF KillRequest
<1>5. Others(q) /\ pc'[q] = "idle" /\ held'[q] = Nothing
  BY <1>4 DEF Moves
<1>6. /\ pc[q] \in {"scene", "count"} => Mishap
      /\ pc[q] \notin {"scene", "count"} => mishaps' = mishaps
  BY DEF KillRequest
<1>7. mishaps' \in 0 .. MaxMishaps /\ (pc[q] \in {"scene", "count"} => mishaps' # 0)
  BY <1>1, <1>6, MishapCounts DEF TypeOK
<1>8. TypeOK'
  BY <1>1, <1>2, <1>3, <1>4, <1>7 DEF TypeOK, Moves, HeldType
<1>9. Counted'
  <2>1. CASE pc[q] \in {"scene", "count"}
    BY <1>1, <1>2, <1>5, <1>7, <2>1, AddingEnds
  <2>2. CASE pc[q] \notin {"scene", "count"}
    BY <1>1, <1>2, <1>5, <1>6, <2>2, CountedFrame
  <2> QED
    BY <2>1, <2>2
<1>10. HeldInv' /\ WriteInv'
  BY <1>1, <1>2, <1>5, HeldFrame, WriteFrame
<1>11. unsure \subseteq unsure' /\ (pc[q] \in {"store", "name"} => First \in unsure')
  <2>1. pc[q] \in {"store", "name"} => p = First
    BY <1>1 DEF UploadInv, Uploads
  <2> QED
    BY <1>2, <2>1
<1>12. ProjectHasScene'
  <2> SUFFICES ASSUME NEW r \in Ids, row'[r] = "live", r \notin bare', scene'[r] = 0
               PROVE  \E s \in Requests : pc'[s] = "scene" /\ held'[s].p = r
    BY DEF ProjectHasScene, Live
  <2>1. row[r] = "live" /\ r \notin bare /\ scene[r] = 0
    BY <1>2
  <2>2. PICK s \in Requests : pc[s] = "scene" /\ held[s].p = r
    BY <1>1, <2>1 DEF ProjectHasScene, Live
  <2>3. s # q
    BY <1>2, <2>2
  <2>4. pc'[s] = "scene" /\ held'[s].p = r
    BY <1>5, <2>2, <2>3 DEF Others
  <2> QED
    BY <2>4
<1>13. UploadInv' /\ ThumbInv'
  BY <1>1, <1>2, <1>5, <1>11, UploadFrame, ThumbFrame DEF Uploads
<1> QED
  BY <1>8, <1>9, <1>10, <1>12, <1>13 DEF IInv

-----------------------------------------------------------------------------
(* The invariant. *)

LEMMA InitHolds ==
    ASSUME Init
    PROVE  IInv
<1>1. TypeOK
  <2>1. scene \in [Ids -> 0 .. MaxVersion] /\ mishaps \in 0 .. MaxMishaps
    BY Numbers DEF Init
  <2>2. held \in [Requests -> HeldType]
    BY NothingTyped DEF Init
  <2>3. child \in [Children -> ChildRows]
    BY ProjectsAssumption DEF Init, NoChild, ChildRows
  <2> QED
    BY <2>1, <2>2, <2>3 DEF Init, TypeOK, HeldType, Steps
<1>2. \A q \in Requests : pc[q] = "idle"
  BY DEF Init
<1>3. Counted
  <2>1. Live = {First} /\ Adding = {}
    BY <1>2, ProjectsAssumption DEF Init, Live, Adding
  <2>2. IsFiniteSet({First}) /\ Cardinality({First}) = 1
    BY FS_Singleton
  <2>3. IsFiniteSet({}) /\ Cardinality({}) = 0
    BY FS_EmptySet
  <2>4. total + Cardinality(Adding) = Cardinality(Live)
    BY <2>1, <2>2, <2>3 DEF Init
  <2> QED
    BY <2>1, <2>2, <2>3, <2>4 DEF Counted
<1>4. HeldInv /\ UploadInv /\ ThumbInv /\ WriteInv
  BY <1>2, ProjectsAssumption DEF Init, HeldInv, UploadInv, ThumbInv, WriteInv, Uploads
<1>5. ProjectHasScene
  BY DEF Init, ProjectHasScene, Live
<1> QED
  BY <1>1, <1>3, <1>4, <1>5 DEF IInv

LEMMA NextKeeps ==
    ASSUME IInv, [Next]_vars
    PROVE  IInv'
<1>1. CASE UNCHANGED vars
  <2>1. UNCHANGED <<row, scene, child, thumb, objects, total, pc, held, mishaps, bare, contended, unsure>>
    BY <1>1 DEF vars, rows, image, history
  <2>2. TypeOK'
    BY <2>1 DEF IInv, TypeOK
  <2>3. Live' = Live /\ Adding' = Adding
    BY <2>1 DEF Live, Adding
  <2>4. HeldInv' /\ Counted' /\ ProjectHasScene'
    BY <2>1, <2>3 DEF IInv, HeldInv, Counted, ProjectHasScene
  <2>5. UploadInv' /\ ThumbInv' /\ WriteInv'
    BY <2>1 DEF IInv, UploadInv, ThumbInv, WriteInv
  <2> QED
    BY <2>2, <2>4, <2>5 DEF IInv
<1>2. CASE ChildSteps
  BY <1>2, ChildKeeps
<1>3. ASSUME NEW q \in Requests, Create(q) PROVE IInv'
  BY <1>3, InsertKeeps, CreateSceneKeeps, CountKeeps, CopySceneKeeps, QuietSteps DEF Create
<1>4. ASSUME NEW q \in Requests, Edit(q) PROVE IInv'
  <2>1. CASE \E p \in Ids : FetchProject(q, p) \/ FetchScene(q, p)
    BY <2>1, QuietSteps, FetchSceneKeeps
  <2>2. CASE SaveRevives(q) \/ SaveScene(q) \/ BumpVersion(q) \/ SaveLostScene(q) \/ BumpFails(q)
    BY <2>2, RevivesKeeps, SaveSceneKeeps, LostSceneKeeps, QuietSteps
  <2>3. CASE FetchForThumbnail(q) \/ SaveProject(q) \/ EraseThumbnail(q) \/ NameThumbnail(q)
    BY <2>3, FetchForThumbnailKeeps, SaveProjectKeeps, EraseKeeps, NameKeeps
  <2>4. CASE \E n \in Names : StoreThumbnail(q, n)
    BY <2>4, StoreKeeps
  <2> QED
    BY <1>4, <2>1, <2>2, <2>3, <2>4 DEF Edit
<1>5. ASSUME NEW q \in Requests, Delete(q) \/ OfChild(q) \/ KillRequest(q) PROVE IInv'
  BY <1>5, DeleteKeeps, KillKeeps, QuietSteps DEF Delete, OfChild
<1> QED
  BY <1>1, <1>2, <1>3, <1>4, <1>5 DEF Next, ChildSteps

LEMMA InvariantHolds ==
    Spec => []IInv
<1>1. Init => IInv
  BY InitHolds
<1>2. IInv /\ [Next]_vars => IInv'
  BY NextKeeps
<1> QED
  BY <1>1, <1>2, PTL DEF Spec

\* create_scene_for_new_project and decrement_project_count: the counter is the number of
\* projects, less those still being created, unless an increment was lost or two deletes
\* took one project.
THEOREM TotalTheorem ==
    Spec => []TotalCounted
<1>1. IInv => TotalCounted
  BY DEF IInv, Counted, TotalCounted
<1> QED
  BY <1>1, InvariantHolds, PTL

\* create_scene_for_new_project: a project the readers find has its scene, unless it is
\* being created or its creation was killed before.
THEOREM SceneTheorem ==
    Spec => []ProjectHasScene
<1>1. IInv => ProjectHasScene
  BY DEF IInv
<1> QED
  BY <1>1, InvariantHolds, PTL

\* ProjectThumbnailView: the thumbnail a project names is in the bucket, unless an upload for
\* it is under way or was killed, a PATCH put back an older name, or one upload erased what
\* another had stored.
THEOREM ThumbnailTheorem ==
    Spec => []ThumbnailShown
<1>1. ASSUME IInv PROVE ThumbnailShown
  <2> SUFFICES ASSUME NEW p \in Ids, row[p] = "live", p \notin unsure, thumb[p] \notin objects \cup {NoName}
               PROVE  \E q \in Requests : pc[q] \in {"erase", "store", "name"} /\ held[q].p = p
    BY DEF ThumbnailShown, Live
  <2>1. UploadInv /\ ThumbInv
    BY <1>1 DEF IInv
  <2>2. p = First
    BY <2>1 DEF UploadInv
  <2>3. PICK q \in Requests : pc[q] \in {"store", "name"}
    BY <2>1, <2>2 DEF ThumbInv
  <2>4. held[q].p = First
    BY <2>1, <2>3 DEF UploadInv, Uploads
  <2> QED
    BY <2>2, <2>3, <2>4
<1> QED
  BY <1>1, InvariantHolds, PTL

Onward(p) == p \in contended' \/ 0 \in {scene[p], scene'[p]} \/ scene'[p] >= scene[p]

LEMMA NeverBackStep ==
    ASSUME IInv, Next, NEW p \in Ids
    PROVE  Onward(p)
<1>1. TypeOK /\ HeldInv /\ WriteInv
  BY DEF IInv
<1>2. scene[p] \in Nat
  BY <1>1 DEF TypeOK
<1>3. CASE scene'[p] = scene[p]
  BY <1>2, <1>3 DEF Onward
<1>4. ASSUME NEW q \in Requests, CreateScene(q) PROVE Onward(p)
  <2>1. scene' = scene \/ (scene[held[q].p] = 0 /\ scene' = [scene EXCEPT ![held[q].p] = 1])
    BY <1>4 DEF CreateScene
  <2> QED
    BY <1>1, <1>3, <2>1 DEF Onward, TypeOK
<1>5. ASSUME NEW q \in Requests, CopyScene(q) PROVE Onward(p)
  <2>1. /\ scene' = [scene EXCEPT ![held[q].p] = 1]
        /\ contended' = IF scene[held[q].p] > 1 \/ Contends(q, held[q].p) THEN contended \cup {held[q].p} ELSE contended
    BY <1>5 DEF CopyScene
  <2>2. CASE held[q].p = p /\ scene[p] > 1
    BY <2>1, <2>2 DEF Onward
  <2>3. CASE held[q].p = p /\ ~(scene[p] > 1)
    <3>1. scene'[p] = 1
      BY <1>1, <2>1, <2>3 DEF TypeOK
    <3> QED
      BY <1>2, <2>3, <3>1 DEF Onward
  <2>4. CASE held[q].p # p
    <3>1. scene'[p] = scene[p]
      BY <1>1, <2>1, <2>4 DEF TypeOK
    <3> QED
      BY <1>3, <3>1
  <2> QED
    BY <2>2, <2>3, <2>4
<1>6. ASSUME NEW q \in Requests, SaveScene(q) \/ BumpVersion(q) PROVE Onward(p)
  <2>1. pc[q] \in {"put", "bump"} /\ contended' = contended
    BY <1>6 DEF SaveScene, BumpVersion, Goto, End, history
  <2>2. scene' = [scene EXCEPT ![held[q].p] = held[q].version] \/ scene' = [scene EXCEPT ![held[q].p] = held[q].version + 1]
    BY <1>6 DEF SaveScene, BumpVersion
  <2>3. CASE held[q].p = p
    <3>1. p \in contended \/ scene[p] = held[q].version
      BY <1>1, <2>1, <2>3 DEF WriteInv
    <3>2. scene'[p] = held[q].version \/ scene'[p] = held[q].version + 1
      BY <1>1, <2>2, <2>3 DEF TypeOK
    <3> QED
      BY <1>2, <2>1, <3>1, <3>2 DEF Onward
  <2>4. CASE held[q].p # p
    <3>1. scene'[p] = scene[p]
      BY <1>1, <2>2, <2>4 DEF TypeOK
    <3> QED
      BY <1>3, <3>1
  <2> QED
    BY <2>3, <2>4
<1>7. ASSUME NEW q \in Requests, SaveLostScene(q) PROVE Onward(p)
  <2>1. \/ scene' = scene
        \/ scene[held[q].p] = 0 /\ \E v \in {1, held[q].version} : scene' = [scene EXCEPT ![held[q].p] = v]
    BY <1>7 DEF SaveLostScene
  <2> QED
    BY <1>1, <1>3, <2>1 DEF Onward, TypeOK
<1>8. ASSUME NEW q \in Requests, DeleteProject(q) PROVE Onward(p)
  <2>1. scene' = [scene EXCEPT ![held[q].p] = 0]
    BY <1>8 DEF DeleteProject, Gone
  <2> QED
    BY <1>1, <1>3, <2>1 DEF Onward, TypeOK
<1>9. ASSUME NEW q \in Requests, Create(q) PROVE Onward(p)
  BY <1>3, <1>4, <1>5, <1>9 DEF Create, InsertProject, InsertDuplicate, CountProject, CopyNote, EndDuplicate, rows
<1>10. ASSUME NEW q \in Requests, Edit(q) PROVE Onward(p)
  BY <1>3, <1>6, <1>7, <1>10
  DEF Edit, FetchProject, FetchScene, FetchForThumbnail, SaveProject, SaveRevives, BumpFails, EraseThumbnail,
      StoreThumbnail, NameThumbnail, rows
<1>11. ASSUME NEW q \in Requests, Delete(q) \/ OfChild(q) \/ KillRequest(q) PROVE Onward(p)
  BY <1>3, <1>8, <1>11
  DEF Delete, OfChild, FetchToDelete, DeleteFails, FetchNote, OpenLink, SaveNote, ShowShared, KillRequest, rows
<1>12. CASE ChildSteps
  BY <1>3, <1>12 DEF ChildSteps, CreateNote, CreateLink, Insert, DeleteChild, ExpireLink
<1> QED
  BY <1>9, <1>10, <1>11, <1>12 DEF Next, ChildSteps

\* SceneView.perform_update: the version of a scene never goes back, unless two requests
\* wrote it at once.
THEOREM VersionTheorem ==
    Spec => VersionNeverBack
<1>1. ASSUME IInv, [Next]_vars
      PROVE  [\A p \in Ids \ contended' : 0 \in {scene[p], scene'[p]} \/ scene'[p] >= scene[p]]_vars
  <2>1. CASE Next
    BY <1>1, <2>1, NeverBackStep DEF Onward
  <2> QED
    BY <1>1, <2>1
<1> QED
  BY <1>1, InvariantHolds, PTL DEF Spec, VersionNeverBack
=============================================================================
