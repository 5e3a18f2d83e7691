----------------------------- MODULE ForumProofs -----------------------------
(***************************************************************************)
(* CountersMatch, OneSolution and ShownImageKept, for any number of        *)
(* replies and requests.                                                   *)
(*                                                                         *)
(* The counters: every row enters through a request that still owes it one *)
(* increment, one request for each row.  The solution: a request that has  *)
(* read a solution will save it as one, so it has a claim to it; two       *)
(* claims are what a toggle alone on the replies prevents.  The image: as  *)
(* long as a post that shows it is not marked, a signal is on its way.     *)
(***************************************************************************)
EXTENDS Forum, FiniteSetTheorems, TLAPS

HeldType == Topic \cup Reply \cup {NoRow} \cup [shows : BOOLEAN]

\* The steps of a request, and what it holds at each of them.
Holds(q) ==
    \/ at[q] = "idle" /\ on[q] = "topic" /\ held[q] = NoRow
    \/ at[q] \in {"save", "flag"} /\ on[q] = "topic" /\ held[q] \in Topic
    \/ at[q] \in {"save", "toggle"} /\ on[q] \in Replies /\ held[q] \in Reply
    \/ at[q] = "accept" /\ on[q] \in Replies /\ held[q] \in [shows : BOOLEAN]
    \/ at[q] = "insert" /\ on[q] \in Replies /\ held[q] = NoRow
    \/ at[q] = "drop" /\ held[q] = NoRow
    \/ at[q] \in {"count", "mark"} /\ held[q] \in [shows : BOOLEAN]

ReqShape ==
    /\ DOMAIN at = Requests /\ DOMAIN held = Requests
    /\ on \in [Requests -> Replies \cup {"topic"}]
    /\ \A q \in Requests : Holds(q)

Shapes ==
    /\ TypeOK /\ ReqShape
    /\ sweep \in {"idle", "object", "record"}
    /\ {object, drift, clash, late} \subseteq BOOLEAN

\* Nothing begins before the topic.
Unborn ==
    topic = NotYet => /\ \A r \in Replies : ~reply[r].exists
                      /\ \A q \in Requests : at[q] = "idle"

\* A request about to insert a reply is alone on it.
InsertsAlone ==
    \A q \in Requests : at[q] = "insert" =>
        /\ ~reply[on[q]].exists
        /\ \A p \in Requests : on[p] = on[q] => p = q

\* The replies not counted yet are there, one request for each.
RepliesOwed ==
    ~drift /\ topic.exists =>
        /\ \A q \in Uncounted : reply[on[q]].exists
        /\ \A p, q \in Uncounted : on[p] = on[q] => p = q

TopicUncounted == {q \in Requests : at[q] = "count" /\ on[q] = "topic"}

\* The equations of CountersMatch.
Balanced ==
    ~drift =>
        /\ topic.exists => topic.replies_count + Cardinality(Uncounted) = Cardinality(Rows)
        /\ topics_count + Cardinality(TopicUncounted) = IF topic.exists THEN 1 ELSE 0

CountInv ==
    /\ IsFiniteSet(Uncounted) /\ IsFiniteSet(Rows) /\ IsFiniteSet(TopicUncounted)
    /\ RepliesOwed /\ Balanced

\* The replies that are the solution, or will be saved as such.
Claims ==
    {r \in Replies : \/ reply[r].exists /\ reply[r].solution
                     \/ \E q \in Requests : at[q] = "save" /\ on[q] = r /\ held[q].solution}

OneClaim ==
    ~clash =>
        /\ \A r, s \in Claims : r = s
        /\ \A p, q \in Requests : at[p] \in Toggling => ~Contend("toggle", q) \/ p = q
        /\ (\E q \in Requests : at[q] = "accept") => Claims = {}

\* The signal that will mark the image as used is still to run.
Marking == \E q \in Requests : at[q] \in {"count", "mark"} /\ held[q].shows

ImageSafe ==
    /\ upload = "none" => sweep = "idle" /\ ~Shown
    /\ Shown /\ ~late =>
        /\ object /\ sweep = "idle"
        /\ upload = "fresh" => Marking

IInv == Shapes /\ Unborn /\ InsertsAlone /\ CountInv /\ OneClaim /\ ImageSafe

-----------------------------------------------------------------------------
(* What is in a row, and what a step does to its request. *)

\* A row is there or it is not.
LEMMA RowThere ==
    ASSUME TypeOK
    PROVE  /\ topic.exists <=> topic \in Topic
           /\ topic = NotYet \/ topic = NoRow => ~topic.exists
           /\ \A r \in Replies : /\ reply[r].exists <=> reply[r] \in Reply
                                 /\ ~reply[r].exists <=> reply[r] = NoRow
<1>1. \A t \in Topic : t.exists
  BY DEF Topic
<1>2. \A t \in Reply : t.exists
  BY DEF Reply
<1>3. ~NoRow.exists /\ ~NotYet.exists
  BY DEF NoRow, NotYet
<1>4. topic \in Topic \cup {NoRow, NotYet}
  BY DEF TypeOK
<1>5. \A r \in Replies : reply[r] \in Reply \cup {NoRow}
  BY DEF TypeOK
<1> QED
  BY <1>1, <1>2, <1>3, <1>4, <1>5

\* The other requests are where they were.
Others(q) ==
    /\ DOMAIN at' = Requests /\ DOMAIN held' = Requests
    /\ on' \in [Requests -> Replies \cup {"topic"}]
    /\ \A p \in Requests \ {q} : at'[p] = at[p] /\ on'[p] = on[p] /\ held'[p] = held[p]

LEMMA BeginSets ==
    ASSUME ReqShape, NEW q \in Requests, NEW post \in Replies \cup {"topic"}, NEW row, NEW step,
           Begin(q, post, row, step)
    PROVE  /\ Others(q)
           /\ at[q] = "idle" /\ on[q] = "topic"
           /\ at'[q] = step /\ on'[q] = post /\ held'[q] = row
<1>1. at[q] = "idle" => on[q] = "topic"
  BY DEF ReqShape, Holds
<1> QED
  BY <1>1 DEF Begin, ReqShape, Others

LEMMA EndSets ==
    ASSUME ReqShape, NEW q \in Requests, End(q)
    PROVE  /\ Others(q)
           /\ at'[q] = "idle" /\ on'[q] = "topic" /\ held'[q] = NoRow
           /\ Holds(q)'
BY DEF End, ReqShape, Others, Holds

LEMMA SignalSets ==
    ASSUME ReqShape, NEW q \in Requests, NEW step, NEW row, Signal(q, step, row)
    PROVE  /\ Others(q)
           /\ at'[q] = step /\ on'[q] = on[q] /\ held'[q] = [shows |-> row.shows]
BY DEF Signal, ReqShape, Others

\* _mark_used follows, if the row saved shows the image.
LEMMA MarkSets ==
    ASSUME ReqShape, NEW q \in Requests, NEW row, NEW b \in BOOLEAN, row.shows = b,
           MarkNext(q, row)
    PROVE  /\ Others(q)
           /\ b => at'[q] = "mark" /\ on'[q] = on[q] /\ held'[q] = [shows |-> TRUE]
           /\ ~b => at'[q] = "idle" /\ on'[q] = "topic" /\ held'[q] = NoRow
           /\ Holds(q)'
<1>1. CASE b
  <2>1. Signal(q, "mark", row)
    BY <1>1 DEF MarkNext
  <2>2. Others(q) /\ at'[q] = "mark" /\ on'[q] = on[q] /\ held'[q] = [shows |-> row.shows]
    BY <2>1, SignalSets
  <2>3. held'[q] = [shows |-> TRUE] /\ held'[q] \in [shows : BOOLEAN]
    BY <1>1, <2>2
  <2> QED
    BY <1>1, <2>2, <2>3 DEF Holds
<1>2. CASE ~b
  <2>1. End(q)
    BY <1>2 DEF MarkNext
  <2> QED
    BY <1>2, <2>1, EndSets
<1> QED
  BY <1>1, <1>2

\* Whatever follows, the other requests are left alone.
LEMMA MarkShapes ==
    ASSUME ReqShape, NEW q \in Requests, NEW row, NEW b \in BOOLEAN, row.shows = b,
           MarkNext(q, row)
    PROVE  Others(q) /\ Holds(q)'
BY MarkSets

LEMMA OthersKeep ==
    ASSUME ReqShape, NEW q \in Requests, Others(q), Holds(q)'
    PROVE  ReqShape'
<1>1. \A p \in Requests \ {q} : Holds(p)'
  BY DEF Others, ReqShape, Holds
<1> QED
  BY <1>1 DEF Others, ReqShape

\* What each kind of request holds.
LEMMA HoldsWhat ==
    ASSUME ReqShape, NEW q \in Requests
    PROVE  /\ at[q] = "save" /\ on[q] = "topic" => held[q] \in Topic
           /\ at[q] = "flag" => held[q] \in Topic /\ on[q] = "topic"
           /\ at[q] = "save" /\ on[q] # "topic" => held[q] \in Reply /\ on[q] \in Replies
           /\ at[q] \in {"toggle", "accept", "insert"} => on[q] \in Replies /\ on[q] # "topic"
           /\ at[q] = "toggle" => held[q] \in Reply
           /\ at[q] \in {"count", "mark", "accept"} => held[q] \in [shows : BOOLEAN]
           /\ on[q] # "topic" => on[q] \in Replies
           /\ at[q] # "drop" /\ at[q] # "idle" /\ at[q] # "insert" => held[q].shows \in BOOLEAN
<1>1. Holds(q) /\ on[q] \in Replies \cup {"topic"}
  BY DEF ReqShape
<1>2. \A t \in Topic \cup Reply \cup [shows : BOOLEAN] : t.shows \in BOOLEAN
  BY DEF Topic, Reply
<1> QED
  BY <1>1, <1>2, ForumAssumption DEF Holds

-----------------------------------------------------------------------------
(* Types, and what requests hold. *)

\* Types of the rows are what is left to show once the requests keep their shape.
LEMMA TypeFrom ==
    ASSUME ReqShape', topic' \in Topic \cup {NoRow, NotYet}, reply' \in [Replies -> Reply \cup {NoRow}],
           topics_count' \in Nat, upload' \in Uploads
    PROVE  TypeOK'
<1>1. ASSUME NEW q \in Requests PROVE held'[q] \in HeldType
  <2>1. Holds(q)'
    BY DEF ReqShape
  <2> QED
    BY <2>1 DEF Holds, HeldType
<1> QED
  BY <1>1 DEF TypeOK, ReqShape, HeldType

LEMMA TopicRequestShapes ==
    ASSUME Shapes, NEW q \in Requests,
           \/ \E shows \in BOOLEAN : CreateTopic(q, shows) \/ SaveTopic(q, shows)
           \/ CountTopic(q) \/ DropTopic(q)
           \/ \E step \in {"save", "flag", "drop"} : ReadTopic(q, step)
           \/ \E flag \in Flags : SaveFlag(q, flag)
    PROVE  Shapes'
<1>1. TypeOK /\ ReqShape
  BY DEF Shapes
<1>2. ASSUME NEW shows \in BOOLEAN, CreateTopic(q, shows) PROVE Shapes'
  <2> USE <1>2 DEF CreateTopic, image
  <2>1. /\ Others(q)
        /\ at'[q] = "count" /\ on'[q] = "topic" /\ held'[q] = [shows |-> shows]
    BY <1>1, BeginSets
  <2>2. Holds(q)'
    BY <2>1 DEF Holds
  <2>3. topic' \in Topic
    BY DEF Topic
  <2>4. ReqShape'
    BY <1>1, <2>1, <2>2, OthersKeep
  <2>5. TypeOK'
    BY <1>1, <2>3, <2>4, TypeFrom DEF TypeOK
  <2> QED
    BY <2>4, <2>5 DEF Shapes, ShownLate
<1>3. ASSUME NEW shows \in BOOLEAN, SaveTopic(q, shows) PROVE Shapes'
  <2> USE <1>3 DEF SaveTopic, image
  <2> DEFINE row == [held[q] EXCEPT !.shows = shows]
  <2>1. held[q] \in Topic
    BY <1>1, HoldsWhat
  <2>2. row \in Topic /\ row.shows = shows /\ row.shows \in BOOLEAN
    BY <2>1 DEF Topic
  <2>3. topic' = row
    OBVIOUS
  <2>4. MarkNext(q, row) \/ Signal(q, "count", row)
    OBVIOUS
  <2> HIDE DEF row
  <2>5. Others(q) /\ Holds(q)'
    <3>1. CASE MarkNext(q, row)
      BY <1>1, <2>2, <3>1, MarkShapes
    <3>2. CASE Signal(q, "count", row)
      <4>1. Others(q) /\ at'[q] = "count" /\ held'[q] = [shows |-> row.shows]
        BY <1>1, <3>2, SignalSets
      <4> QED
        BY <2>2, <4>1 DEF Holds
    <3> QED
      BY <2>4, <3>1, <3>2
  <2>6. ReqShape'
    BY <1>1, <2>5, OthersKeep
  <2>7. TypeOK'
    BY <1>1, <2>2, <2>3, <2>6, TypeFrom DEF TypeOK
  <2> QED
    BY <2>6, <2>7 DEF Shapes, ShownLate
<1>4. CASE CountTopic(q)
  <2> USE <1>4 DEF CountTopic, image, history
  <2>1. Others(q) /\ Holds(q)'
    BY <1>1, HoldsWhat, MarkShapes
  <2>2. ReqShape'
    BY <1>1, <2>1, OthersKeep
  <2>3. TypeOK'
    BY <1>1, <2>2, TypeFrom DEF TypeOK
  <2> QED
    BY <2>2, <2>3 DEF Shapes
<1>5. CASE DropTopic(q)
  <2> USE <1>5 DEF DropTopic, image
  <2>1. Others(q) /\ Holds(q)'
    BY <1>1, EndSets
  <2>2. ReqShape'
    BY <1>1, <2>1, OthersKeep
  <2>3. TypeOK'
    BY <1>1, <2>2, TypeFrom DEF TypeOK
  <2> QED
    BY <2>2, <2>3 DEF Shapes
<1>6. ASSUME NEW step \in {"save", "flag", "drop"}, ReadTopic(q, step) PROVE Shapes'
  <2> USE <1>6 DEF ReadTopic, image, rows, history
  <2> DEFINE row == IF step = "drop" THEN NoRow ELSE topic
  <2>1. Others(q) /\ at'[q] = step /\ on'[q] = "topic" /\ held'[q] = row
    BY <1>1, BeginSets
  <2>2. topic \in Topic
    BY <1>1, RowThere
  <2>3. Holds(q)'
    BY <2>1, <2>2 DEF Holds
  <2>4. ReqShape'
    BY <1>1, <2>1, <2>3, OthersKeep
  <2>5. TypeOK'
    BY <1>1, <2>4, TypeFrom DEF TypeOK
  <2> QED
    BY <2>4, <2>5 DEF Shapes
<1>7. ASSUME NEW flag \in Flags, SaveFlag(q, flag) PROVE Shapes'
  <2> USE <1>7 DEF SaveFlag, image, history
  <2>1. Others(q) /\ Holds(q)'
    <3>1. CASE MarkNext(q, held[q])
      BY <1>1, <3>1, HoldsWhat, MarkShapes
    <3>2. CASE End(q)
      BY <1>1, <3>2, EndSets
    <3> QED
      BY <3>1, <3>2
  <2>2. ReqShape'
    BY <1>1, <2>1, OthersKeep
  <2>3. topic' \in Topic \cup {NoRow, NotYet}
    <3>1. CASE topic.exists
      <4>1. topic \in Topic
        BY <1>1, <3>1, RowThere
      <4>2. topic' = [topic EXCEPT !.flags = IF flag \in held[q].flags THEN @ \ {flag} ELSE @ \cup {flag}]
        BY <3>1
      <4> QED
        BY <4>1, <4>2 DEF Topic
    <3>2. CASE ~topic.exists
      BY <1>1, <3>2 DEF TypeOK
    <3> QED
      BY <3>1, <3>2
  <2>4. TypeOK'
    BY <1>1, <2>2, <2>3, TypeFrom DEF TypeOK
  <2> QED
    BY <2>2, <2>4 DEF Shapes
<1> QED
  BY <1>2, <1>3, <1>4, <1>5, <1>6, <1>7

LEMMA ReplyRequestShapes ==
    ASSUME Shapes, NEW q \in Requests,
           \/ \E shows \in BOOLEAN : InsertReply(q, shows) \/ SaveReply(q, shows)
           \/ \E r \in Replies : BeginReply(q, r) \/ \E step \in {"save", "drop", "toggle"} : ReadReply(q, r, step)
           \/ CountReply(q) \/ DropReply(q) \/ ClearSolution(q) \/ SaveSolution(q)
    PROVE  Shapes'
<1>1. TypeOK /\ ReqShape
  BY DEF Shapes
<1>2. ASSUME NEW shows \in BOOLEAN, InsertReply(q, shows) PROVE Shapes'
  <2> USE <1>2 DEF InsertReply, image
  <2> DEFINE row == [exists |-> TRUE, solution |-> FALSE, shows |-> shows]
  <2>1. row \in Reply /\ row.shows = shows
    BY DEF Reply
  <2> HIDE DEF row
  <2>2. Others(q) /\ Holds(q)'
    <3>1. CASE End(q)
      BY <1>1, <3>1, EndSets
    <3>2. CASE Signal(q, "count", row)
      <4>1. Others(q) /\ at'[q] = "count" /\ held'[q] = [shows |-> row.shows]
        BY <1>1, <3>2, SignalSets
      <4> QED
        BY <2>1, <4>1 DEF Holds
    <3> QED
      BY <3>1, <3>2 DEF row
  <2>3. reply' = reply \/ reply' = [reply EXCEPT ![on[q]] = row]
    BY DEF row
  <2>4. reply' \in [Replies -> Reply \cup {NoRow}]
    BY <1>1, <2>1, <2>3 DEF TypeOK
  <2>5. ReqShape'
    BY <1>1, <2>2, OthersKeep
  <2>6. TypeOK'
    BY <1>1, <2>4, <2>5, TypeFrom DEF TypeOK
  <2>7. late' \in BOOLEAN
    BY DEF Shapes, ShownLate
  <2> QED
    BY <2>5, <2>6, <2>7 DEF Shapes
<1>3. ASSUME NEW shows \in BOOLEAN, SaveReply(q, shows) PROVE Shapes'
  <2> USE <1>3 DEF SaveReply, image
  <2> DEFINE row == [held[q] EXCEPT !.shows = shows]
  <2>1. held[q] \in Reply
    BY <1>1, HoldsWhat
  <2>2. row \in Reply /\ row.shows = shows /\ row.shows \in BOOLEAN
    BY <2>1 DEF Reply
  <2> HIDE DEF row
  <2>3. Others(q) /\ Holds(q)'
    <3>1. CASE End(q)
      BY <1>1, <3>1, EndSets
    <3>2. CASE Signal(q, "count", row)
      <4>1. Others(q) /\ at'[q] = "count" /\ held'[q] = [shows |-> row.shows]
        BY <1>1, <3>2, SignalSets
      <4> QED
        BY <2>2, <4>1 DEF Holds
    <3>3. CASE MarkNext(q, row)
      BY <1>1, <2>2, <3>3, MarkShapes
    <3> QED
      BY <3>1, <3>2, <3>3 DEF row
  <2>4. reply' = reply \/ reply' = [reply EXCEPT ![on[q]] = row]
    BY DEF row
  <2>5. reply' \in [Replies -> Reply \cup {NoRow}]
    BY <1>1, <2>2, <2>4 DEF TypeOK
  <2>6. ReqShape'
    BY <1>1, <2>3, OthersKeep
  <2>7. TypeOK'
    BY <1>1, <2>5, <2>6, TypeFrom DEF TypeOK
  <2>8. late' \in BOOLEAN
    BY DEF Shapes, ShownLate
  <2> QED
    BY <2>6, <2>7, <2>8 DEF Shapes
<1>4. ASSUME NEW r \in Replies, BeginReply(q, r) PROVE Shapes'
  <2> USE <1>4 DEF BeginReply, image, rows, history
  <2>1. Others(q) /\ at'[q] = "insert" /\ on'[q] = r /\ held'[q] = NoRow
    BY <1>1, BeginSets
  <2>2. Holds(q)'
    BY <2>1 DEF Holds
  <2>3. ReqShape'
    BY <1>1, <2>1, <2>2, OthersKeep
  <2>4. TypeOK'
    BY <1>1, <2>3, TypeFrom DEF TypeOK
  <2> QED
    BY <2>3, <2>4 DEF Shapes
<1>5. ASSUME NEW r \in Replies, NEW step \in {"save", "drop", "toggle"}, ReadReply(q, r, step)
      PROVE  Shapes'
  <2> USE <1>5 DEF ReadReply, image, rows
  <2>1. /\ Others(q) /\ at'[q] = step /\ on'[q] = r
        /\ held'[q] = IF step = "drop" THEN NoRow ELSE reply[r]
    BY <1>1, BeginSets
  <2>2. reply[r] \in Reply
    BY <1>1, RowThere
  <2>3. Holds(q)'
    BY <2>1, <2>2 DEF Holds
  <2>4. ReqShape'
    BY <1>1, <2>1, <2>3, OthersKeep
  <2>5. TypeOK'
    BY <1>1, <2>4, TypeFrom DEF TypeOK
  <2>6. clash' \in BOOLEAN
    BY DEF Shapes
  <2> QED
    BY <2>4, <2>5, <2>6 DEF Shapes
<1>6. CASE CountReply(q)
  <2> USE <1>6 DEF CountReply, image, history
  <2>1. Others(q) /\ Holds(q)'
    BY <1>1, HoldsWhat, MarkShapes
  <2>2. ReqShape'
    BY <1>1, <2>1, OthersKeep
  <2>3. topic' \in Topic \cup {NoRow, NotYet}
    <3>1. CASE topic.exists
      <4>1. topic \in Topic
        BY <1>1, <3>1, RowThere
      <4>2. topic' = [topic EXCEPT !.replies_count = @ + 1]
        BY <3>1
      <4>3. topic.replies_count + 1 \in Nat
        BY <4>1 DEF Topic
      <4>4. topic' \in Topic
        BY <4>1, <4>2, <4>3 DEF Topic
      <4> QED
        BY <4>4
    <3>2. CASE ~topic.exists
      BY <1>1, <3>2 DEF TypeOK
    <3> QED
      BY <3>1, <3>2
  <2>4. TypeOK'
    BY <1>1, <2>2, <2>3, TypeFrom DEF TypeOK
  <2> QED
    BY <2>2, <2>4 DEF Shapes
<1>7. CASE DropReply(q)
  <2> USE <1>7 DEF DropReply, image
  <2>1. Others(q) /\ Holds(q)'
    BY <1>1, EndSets
  <2>2. ReqShape'
    BY <1>1, <2>1, OthersKeep
  <2>3. topic' \in Topic \cup {NoRow, NotYet}
    <3>1. CASE topic.exists /\ topic.replies_count > 0
      <4>1. topic \in Topic
        BY <1>1, <3>1, RowThere
      <4>2. topic' = [topic EXCEPT !.replies_count = @ - 1]
        BY <3>1
      <4>3. topic.replies_count - 1 \in Nat
        BY <3>1, <4>1 DEF Topic
      <4>4. topic' \in Topic
        BY <4>1, <4>2, <4>3 DEF Topic
      <4> QED
        BY <4>4
    <3>2. CASE ~(topic.exists /\ topic.replies_count > 0)
      BY <1>1, <3>2 DEF TypeOK
    <3> QED
      BY <3>1, <3>2
  <2>4. reply' \in [Replies -> Reply \cup {NoRow}]
    BY <1>1 DEF TypeOK
  <2>5. TypeOK'
    BY <1>1, <2>2, <2>3, <2>4, TypeFrom DEF TypeOK
  <2>6. drift' \in BOOLEAN
    OBVIOUS
  <2> QED
    BY <2>2, <2>5, <2>6 DEF Shapes
<1>8. CASE ClearSolution(q)
  <2> USE <1>8 DEF ClearSolution, image, history
  <2>1. held[q] \in Reply /\ on[q] \in Replies
    BY <1>1, HoldsWhat
  <2>2. /\ Others(q) /\ at'[q] = "accept" /\ on'[q] = on[q]
        /\ held'[q] = [shows |-> held[q].shows]
    BY <1>1, SignalSets
  <2>3. Holds(q)'
    <3>1. held[q].shows \in BOOLEAN
      BY <2>1 DEF Reply
    <3>2. held'[q] \in [shows : BOOLEAN]
      BY <2>2, <3>1
    <3> QED
      BY <2>1, <2>2, <3>2 DEF Holds
  <2>4. ReqShape'
    BY <1>1, <2>2, <2>3, OthersKeep
  <2>5. reply' \in [Replies -> Reply \cup {NoRow}]
    <3>1. \A r \in Replies : reply[r].exists => reply[r] \in Reply
      BY <1>1, RowThere
    <3>2. \A r \in Replies : reply[r].exists => [reply[r] EXCEPT !.solution = FALSE] \in Reply
      BY <3>1 DEF Reply
    <3> QED
      BY <1>1, <3>2 DEF TypeOK
  <2>6. TypeOK'
    BY <1>1, <2>4, <2>5, TypeFrom DEF TypeOK
  <2> QED
    BY <2>4, <2>6 DEF Shapes
<1>9. CASE SaveSolution(q)
  <2> USE <1>9 DEF SaveSolution, image, history
  <2>1. on[q] \in Replies /\ held[q].shows \in BOOLEAN
    BY <1>1, HoldsWhat
  <2>2. Others(q) /\ Holds(q)'
    <3>1. CASE End(q)
      BY <1>1, <3>1, EndSets
    <3>2. CASE MarkNext(q, held[q])
      BY <1>1, <2>1, <3>2, MarkShapes
    <3> QED
      BY <3>1, <3>2
  <2>3. ReqShape'
    BY <1>1, <2>2, OthersKeep
  <2>4. reply' \in [Replies -> Reply \cup {NoRow}]
    <3>1. reply[on[q]].exists => reply[on[q]] \in Reply
      BY <1>1, <2>1, RowThere
    <3>2. reply[on[q]].exists => [reply[on[q]] EXCEPT !.solution = (at[q] = "accept")] \in Reply
      BY <3>1 DEF Reply
    <3> QED
      BY <1>1, <3>2 DEF TypeOK
  <2>5. TypeOK'
    BY <1>1, <2>3, <2>4, TypeFrom DEF TypeOK
  <2> QED
    BY <2>3, <2>5 DEF Shapes
<1> QED
  BY <1>2, <1>3, <1>4, <1>5, <1>6, <1>7, <1>8, <1>9

LEMMA ImageStepShapes ==
    ASSUME Shapes,
           \/ \E q \in Requests : MarkUsed(q) \/ Kill(q)
           \/ UploadImage \/ ListOrphans \/ DeleteObject \/ DeleteRecord
    PROVE  Shapes'
<1>1. TypeOK /\ ReqShape
  BY DEF Shapes
<1>2. ASSUME NEW q \in Requests, MarkUsed(q) \/ Kill(q) PROVE Shapes'
  <2>1. End(q)
    BY <1>2 DEF MarkUsed, Kill
  <2>2. ReqShape'
    BY <1>1, <2>1, EndSets, OthersKeep
  <2>3. upload' \in Uploads
    BY <1>1, <1>2 DEF MarkUsed, Kill, TypeOK, Uploads, image
  <2>4. TypeOK'
    BY <1>1, <1>2, <2>2, <2>3, TypeFrom DEF TypeOK, MarkUsed, Kill, rows
  <2>5. {object', drift', clash', late'} \subseteq BOOLEAN
    <3>1. at[q] = "count" \/ at[q] = "mark" => held[q].shows \in BOOLEAN
      BY <1>1, HoldsWhat
    <3> QED
      BY <1>2, <3>1 DEF Shapes, MarkUsed, Kill, history, image
  <2> QED
    BY <1>2, <2>2, <2>4, <2>5 DEF Shapes, MarkUsed, Kill, image
<1>3. CASE UploadImage \/ ListOrphans \/ DeleteObject \/ DeleteRecord
  <2> USE <1>3 DEF UploadImage, ListOrphans, DeleteObject, DeleteRecord, rows, request, history
  <2>1. ReqShape'
    BY <1>1 DEF ReqShape, Holds
  <2>2. upload' \in Uploads
    BY <1>1 DEF TypeOK, Uploads
  <2>3. TypeOK'
    BY <1>1, <2>1, <2>2, TypeFrom DEF TypeOK
  <2>4. {object', drift', clash', late'} \subseteq BOOLEAN /\ sweep' \in {"idle", "object", "record"}
    BY DEF Shapes
  <2> QED
    BY <2>1, <2>3, <2>4 DEF Shapes
<1> QED
  BY <1>2, <1>3

LEMMA ShapesKept == Shapes /\ [Next]_vars => Shapes'
<1> SUFFICES ASSUME Shapes, [Next]_vars PROVE Shapes'
  OBVIOUS
<1>1. CASE UNCHANGED vars
  BY <1>1 DEF vars, rows, request, image, history, Shapes, TypeOK, ReqShape, Holds
<1> QED
  BY <1>1, TopicRequestShapes, ReplyRequestShapes, ImageStepShapes DEF Next

-----------------------------------------------------------------------------
(* What a step of a request does to the replies and to the reply it is about. *)

TopicStep(q) ==
    \/ \E shows \in BOOLEAN : CreateTopic(q, shows) \/ SaveTopic(q, shows)
    \/ CountTopic(q) \/ DropTopic(q)
    \/ \E step \in {"save", "flag", "drop"} : ReadTopic(q, step)
    \/ \E flag \in Flags : SaveFlag(q, flag)

ReplyStep(q) ==
    \/ \E shows \in BOOLEAN : InsertReply(q, shows) \/ SaveReply(q, shows)
    \/ \E r \in Replies : BeginReply(q, r) \/ \E step \in {"save", "drop", "toggle"} : ReadReply(q, r, step)
    \/ CountReply(q) \/ DropReply(q) \/ ClearSolution(q) \/ SaveSolution(q)

EndStep(q) == MarkUsed(q) \/ Kill(q)

ImageStep == UploadImage \/ ListOrphans \/ DeleteObject \/ DeleteRecord

\* A reply appears only under a request that goes on to count it.
Appears(q) ==
    \A r \in Replies : reply'[r].exists =>
        \/ reply[r].exists
        \/ /\ r = on[q] /\ topic.exists /\ at[q] \in {"insert", "save"}
           /\ at'[q] = "count" /\ on'[q] = r

\* A request turns to a reply that is there, or to one nobody is about.
Turns(q) ==
    \/ on'[q] \in {on[q], "topic"} /\ at'[q] # "insert"
    \/ on'[q] \in Replies /\ reply[on'[q]].exists /\ at'[q] # "insert"
    \/ /\ on'[q] \in Replies /\ at'[q] = "insert" /\ reply' = reply
       /\ ~reply[on'[q]].exists /\ \A p \in Requests : on[p] # on'[q]

LEMMA TopicEffects ==
    ASSUME Shapes, NEW q \in Requests, TopicStep(q)
    PROVE  Others(q) /\ Appears(q) /\ Turns(q)
<1>1. TypeOK /\ ReqShape
  BY DEF Shapes
<1>2. ASSUME NEW shows \in BOOLEAN, CreateTopic(q, shows)
      PROVE  Others(q) /\ Appears(q) /\ Turns(q)
  <2>1. Others(q) /\ at'[q] = "count" /\ on'[q] = "topic"
    BY <1>1, <1>2, BeginSets DEF CreateTopic
  <2> QED
    BY <1>2, <2>1 DEF CreateTopic, Appears, Turns
<1>3. ASSUME NEW shows \in BOOLEAN, SaveTopic(q, shows)
      PROVE  Others(q) /\ Appears(q) /\ Turns(q)
  <2> DEFINE row == [held[q] EXCEPT !.shows = shows]
  <2>1. held[q] \in Topic
    BY <1>1, <1>3, HoldsWhat DEF SaveTopic
  <2>2. row.shows = shows
    BY <2>1 DEF Topic
  <2>3. MarkNext(q, row) \/ Signal(q, "count", row)
    BY <1>3 DEF SaveTopic
  <2> HIDE DEF row
  <2>4. Others(q) /\ on'[q] \in {on[q], "topic"} /\ at'[q] # "insert"
    <3>1. CASE MarkNext(q, row)
      BY <1>1, <2>2, <3>1, MarkSets
    <3>2. CASE Signal(q, "count", row)
      <4>1. Others(q) /\ at'[q] = "count" /\ on'[q] = on[q]
        BY <1>1, <3>2, SignalSets
      <4> QED
        BY <4>1
    <3> QED
      BY <2>3, <3>1, <3>2
  <2> QED
    BY <1>3, <2>4 DEF SaveTopic, Appears, Turns
<1>4. CASE CountTopic(q)
  <2>1. Others(q) /\ on'[q] \in {on[q], "topic"} /\ at'[q] # "insert"
    <3>1. MarkNext(q, held[q]) /\ held[q].shows \in BOOLEAN
      BY <1>1, <1>4, HoldsWhat DEF CountTopic
    <3> QED
      BY <1>1, <3>1, MarkSets
  <2> QED
    BY <1>4, <2>1 DEF CountTopic, Appears, Turns
<1>5. CASE DropTopic(q)
  <2>1. Others(q) /\ on'[q] = "topic" /\ at'[q] = "idle"
    BY <1>1, <1>5, EndSets DEF DropTopic
  <2>2. \A r \in Replies : reply'[r] = NoRow
    BY <1>5 DEF DropTopic
  <2> QED
    BY <2>1, <2>2 DEF Appears, Turns, NoRow
<1>6. ASSUME NEW step \in {"save", "flag", "drop"}, ReadTopic(q, step)
      PROVE  Others(q) /\ Appears(q) /\ Turns(q)
  <2>1. Others(q) /\ at'[q] = step /\ on'[q] = "topic"
    BY <1>1, <1>6, BeginSets DEF ReadTopic
  <2> QED
    BY <1>6, <2>1 DEF ReadTopic, Appears, Turns, rows
<1>7. ASSUME NEW flag \in Flags, SaveFlag(q, flag)
      PROVE  Others(q) /\ Appears(q) /\ Turns(q)
  <2>1. Others(q) /\ on'[q] \in {on[q], "topic"} /\ at'[q] # "insert"
    <3>1. held[q].shows \in BOOLEAN /\ (MarkNext(q, held[q]) \/ End(q))
      BY <1>1, <1>7, HoldsWhat DEF SaveFlag
    <3>2. CASE MarkNext(q, held[q])
      BY <1>1, <3>1, <3>2, MarkSets
    <3>3. CASE End(q)
      BY <1>1, <3>3, EndSets
    <3> QED
      BY <3>1, <3>2, <3>3
  <2> QED
    BY <1>7, <2>1 DEF SaveFlag, Appears, Turns
<1> QED
  BY <1>2, <1>3, <1>4, <1>5, <1>6, <1>7 DEF TopicStep

LEMMA ReplyEffects ==
    ASSUME Shapes, NEW q \in Requests, ReplyStep(q)
    PROVE  Others(q) /\ Appears(q) /\ Turns(q)
<1>1. TypeOK /\ ReqShape
  BY DEF Shapes
<1>2. ASSUME NEW shows \in BOOLEAN, InsertReply(q, shows)
      PROVE  Others(q) /\ Appears(q) /\ Turns(q)
  <2>1. CASE topic.exists
    <3> DEFINE row == [exists |-> TRUE, solution |-> FALSE, shows |-> shows]
    <3>1. Signal(q, "count", row) /\ reply' = [reply EXCEPT ![on[q]] = row] /\ at[q] = "insert"
      BY <1>2, <2>1 DEF InsertReply
    <3>2. Others(q) /\ at'[q] = "count" /\ on'[q] = on[q]
      BY <1>1, <3>1, SignalSets
    <3> QED
      BY <1>1, <2>1, <3>1, <3>2 DEF TypeOK, Appears, Turns
  <2>2. CASE ~topic.exists
    <3>1. Others(q) /\ on'[q] = "topic" /\ at'[q] = "idle"
      BY <1>1, <1>2, <2>2, EndSets DEF InsertReply
    <3> QED
      BY <1>2, <2>2, <3>1 DEF InsertReply, Appears, Turns
  <2> QED
    BY <2>1, <2>2
<1>3. ASSUME NEW shows \in BOOLEAN, SaveReply(q, shows)
      PROVE  Others(q) /\ Appears(q) /\ Turns(q)
  <2> DEFINE row == [held[q] EXCEPT !.shows = shows]
  <2>1. held[q] \in Reply /\ at[q] = "save"
    BY <1>1, <1>3, HoldsWhat DEF SaveReply
  <2>2. row.shows = shows
    BY <2>1 DEF Reply
  <2>3. CASE topic.exists
    <3>1. /\ reply' = [reply EXCEPT ![on[q]] = row]
          /\ IF reply[on[q]].exists THEN MarkNext(q, row) ELSE Signal(q, "count", row)
      BY <1>3, <2>3 DEF SaveReply
    <3> HIDE DEF row
    <3>2. CASE reply[on[q]].exists
      <4>1. Others(q) /\ on'[q] \in {on[q], "topic"} /\ at'[q] # "insert"
        BY <1>1, <2>2, <3>1, <3>2, MarkSets
      <4> QED
        BY <1>1, <3>1, <3>2, <4>1 DEF TypeOK, Appears, Turns
    <3>3. CASE ~reply[on[q]].exists
      <4>1. Others(q) /\ on'[q] = on[q] /\ at'[q] = "count"
        BY <1>1, <3>1, <3>3, SignalSets
      <4> QED
        BY <1>1, <2>1, <2>3, <3>1, <3>3, <4>1 DEF TypeOK, Appears, Turns
    <3> QED
      BY <3>2, <3>3
  <2>4. CASE ~topic.exists
    <3>1. Others(q) /\ on'[q] = "topic" /\ at'[q] = "idle"
      BY <1>1, <1>3, <2>4, EndSets DEF SaveReply
    <3> QED
      BY <1>3, <2>4, <3>1 DEF SaveReply, Appears, Turns
  <2> QED
    BY <2>3, <2>4
<1>4. ASSUME NEW r \in Replies, BeginReply(q, r)
      PROVE  Others(q) /\ Appears(q) /\ Turns(q)
  <2>1. Others(q) /\ at'[q] = "insert" /\ on'[q] = r
    BY <1>1, <1>4, BeginSets DEF BeginReply
  <2> QED
    BY <1>4, <2>1 DEF BeginReply, Appears, Turns, rows
<1>5. ASSUME NEW r \in Replies, NEW step \in {"save", "drop", "toggle"}, ReadReply(q, r, step)
      PROVE  Others(q) /\ Appears(q) /\ Turns(q)
  <2>1. Others(q) /\ at'[q] = step /\ on'[q] = r
    BY <1>1, <1>5, BeginSets DEF ReadReply
  <2> QED
    BY <1>5, <2>1 DEF ReadReply, Appears, Turns, rows
<1>6. CASE CountReply(q)
  <2>1. Others(q) /\ on'[q] \in {on[q], "topic"} /\ at'[q] # "insert"
    <3>1. MarkNext(q, held[q]) /\ held[q].shows \in BOOLEAN
      BY <1>1, <1>6, HoldsWhat DEF CountReply
    <3> QED
      BY <1>1, <3>1, MarkSets
  <2> QED
    BY <1>6, <2>1 DEF CountReply, Appears, Turns
<1>7. CASE DropReply(q)
  <2>1. Others(q) /\ on'[q] = "topic" /\ at'[q] = "idle"
    BY <1>1, <1>7, EndSets DEF DropReply
  <2>2. \A r \in Replies : reply'[r] = reply[r] \/ reply'[r] = NoRow
    BY <1>1, <1>7 DEF DropReply, TypeOK
  <2> QED
    BY <2>1, <2>2 DEF Appears, Turns, NoRow
<1>8. CASE ClearSolution(q)
  <2>1. Others(q) /\ on'[q] = on[q] /\ at'[q] = "accept"
    BY <1>1, <1>8, SignalSets DEF ClearSolution
  <2>2. \A r \in Replies : ~reply[r].exists => reply'[r] = reply[r]
    BY <1>8 DEF ClearSolution
  <2> QED
    BY <2>1, <2>2 DEF Appears, Turns
<1>9. CASE SaveSolution(q)
  <2>1. Others(q) /\ on'[q] \in {on[q], "topic"} /\ at'[q] # "insert"
    <3>1. held[q].shows \in BOOLEAN /\ (MarkNext(q, held[q]) \/ End(q))
      BY <1>1, <1>9, HoldsWhat DEF SaveSolution
    <3>2. CASE MarkNext(q, held[q])
      BY <1>1, <3>1, <3>2, MarkSets
    <3>3. CASE End(q)
      BY <1>1, <3>3, EndSets
    <3> QED
      BY <3>1, <3>2, <3>3
  <2>2. \A r \in Replies : ~reply[r].exists => reply'[r] = reply[r]
    BY <1>1, <1>9 DEF SaveSolution, TypeOK
  <2> QED
    BY <2>1, <2>2 DEF Appears, Turns
<1> QED
  BY <1>2, <1>3, <1>4, <1>5, <1>6, <1>7, <1>8, <1>9 DEF ReplyStep

LEMMA Effects ==
    ASSUME Shapes, NEW q \in Requests, TopicStep(q) \/ ReplyStep(q) \/ EndStep(q)
    PROVE  Others(q) /\ Appears(q) /\ Turns(q)
<1>1. CASE EndStep(q)
  <2>1. Others(q) /\ at'[q] = "idle" /\ on'[q] = "topic"
    BY <1>1, EndSets DEF EndStep, MarkUsed, Kill, Shapes
  <2> QED
    BY <1>1, <2>1 DEF EndStep, MarkUsed, Kill, rows, Appears, Turns
<1> QED
  BY <1>1, TopicEffects, ReplyEffects

LEMMA NextSteps ==
    ASSUME [Next]_vars
    PROVE  \/ \E q \in Requests : TopicStep(q) \/ ReplyStep(q) \/ EndStep(q)
           \/ ImageStep
           \/ UNCHANGED vars
<1>1. CASE UNCHANGED vars
  BY <1>1
<1>2. CASE UploadImage \/ ListOrphans \/ DeleteObject \/ DeleteRecord
  BY <1>2 DEF ImageStep
<1>3. ASSUME NEW q \in Requests,
             \/ \E shows \in BOOLEAN :
                  \/ CreateTopic(q, shows) \/ SaveTopic(q, shows)
                  \/ InsertReply(q, shows) \/ SaveReply(q, shows)
             \/ CountTopic(q) \/ DropTopic(q)
             \/ \E step \in {"save", "flag", "drop"} : ReadTopic(q, step)
             \/ \E flag \in Flags : SaveFlag(q, flag)
             \/ \E r \in Replies :
                  BeginReply(q, r) \/ \E step \in {"save", "drop", "toggle"} : ReadReply(q, r, step)
             \/ CountReply(q) \/ DropReply(q) \/ ClearSolution(q) \/ SaveSolution(q)
             \/ MarkUsed(q) \/ Kill(q)
      PROVE  TopicStep(q) \/ ReplyStep(q) \/ EndStep(q)
  BY <1>3 DEF TopicStep, ReplyStep, EndStep
<1> QED
  BY <1>1, <1>2, <1>3 DEF Next

LEMMA InsertsAloneKept ==
    ASSUME Shapes, InsertsAlone, NEW q \in Requests, Others(q), Appears(q), Turns(q)
    PROVE  InsertsAlone'
<1> SUFFICES ASSUME NEW p \in Requests, at'[p] = "insert"
             PROVE  ~reply'[on'[p]].exists /\ \A o \in Requests : on'[o] = on'[p] => o = p
  BY DEF InsertsAlone
<1>1. CASE p = q
  <2>1. /\ on'[p] \in Replies /\ reply' = reply /\ ~reply[on'[p]].exists
        /\ \A o \in Requests : on[o] # on'[p]
    BY <1>1 DEF Turns
  <2> QED
    BY <1>1, <2>1 DEF Others
<1>2. CASE p # q
  <2>1. /\ at[p] = "insert" /\ on'[p] = on[p]
        /\ ~reply[on[p]].exists /\ \A o \in Requests : on[o] = on[p] => o = p
    BY <1>2 DEF Others, InsertsAlone
  <2>2. on[p] \in Replies /\ on[p] # "topic"
    BY <2>1, HoldsWhat DEF Shapes
  <2>3. ~reply'[on[p]].exists
    BY <1>2, <2>1, <2>2 DEF Appears
  <2>4. on'[q] # on[p]
    BY <1>2, <2>1, <2>2 DEF Turns
  <2> QED
    BY <1>2, <2>1, <2>3, <2>4 DEF Others
<1> QED
  BY <1>1, <1>2

-----------------------------------------------------------------------------
(* The counters. *)

\* The topic is created once; it comes back after its deletion only under a stale save.
TopicFate ==
    \/ topic' = topic
    \/ topic.exists /\ topic'.exists
    \/ topic'.exists /\ topic = NotYet
    \/ topic'.exists /\ drift'
    \/ topic' = NoRow

LEMMA FateOfTopic ==
    ASSUME Shapes, NEW q \in Requests, TopicStep(q) \/ ReplyStep(q) \/ EndStep(q)
    PROVE  TopicFate
<1>1. TypeOK /\ ReqShape
  BY DEF Shapes
<1>2. ASSUME NEW shows \in BOOLEAN, CreateTopic(q, shows) PROVE TopicFate
  BY <1>2 DEF CreateTopic, TopicFate
<1>3. ASSUME NEW shows \in BOOLEAN, SaveTopic(q, shows) PROVE TopicFate
  <2>1. held[q] \in Topic
    BY <1>1, <1>3, HoldsWhat DEF SaveTopic
  <2>2. topic' = [held[q] EXCEPT !.shows = shows]
    BY <1>3 DEF SaveTopic
  <2>3. topic'.exists
    BY <2>1, <2>2 DEF Topic
  <2>4. drift' \/ topic.exists
    BY <1>3 DEF SaveTopic
  <2> QED
    BY <2>3, <2>4 DEF TopicFate
<1>4. ASSUME NEW flag \in Flags, SaveFlag(q, flag) PROVE TopicFate
  <2>1. CASE topic.exists
    <3>1. topic \in Topic
      BY <1>1, <2>1, RowThere
    <3>2. topic' = [topic EXCEPT !.flags = IF flag \in held[q].flags THEN @ \ {flag} ELSE @ \cup {flag}]
      BY <1>4, <2>1 DEF SaveFlag
    <3>3. topic'.exists
      BY <3>1, <3>2 DEF Topic
    <3> QED
      BY <2>1, <3>3 DEF TopicFate
  <2>2. CASE ~topic.exists
    BY <1>4, <2>2 DEF SaveFlag, TopicFate
  <2> QED
    BY <2>1, <2>2
<1>5. ASSUME CountReply(q) \/ DropReply(q) PROVE TopicFate
  <2>1. \/ topic' = topic
        \/ topic.exists /\ topic' = [topic EXCEPT !.replies_count = @ + 1]
        \/ topic.exists /\ topic' = [topic EXCEPT !.replies_count = @ - 1]
    BY <1>5 DEF CountReply, DropReply
  <2>2. ASSUME topic.exists, NEW n, topic' = [topic EXCEPT !.replies_count = n] PROVE topic'.exists
    <3>1. topic \in Topic
      BY <1>1, <2>2, RowThere
    <3> QED
      BY <2>2, <3>1 DEF Topic
  <2> QED
    BY <2>1, <2>2 DEF TopicFate
<1>6. CASE CountTopic(q) \/ DropTopic(q) \/ \E step \in {"save", "flag", "drop"} : ReadTopic(q, step)
  BY <1>6 DEF CountTopic, DropTopic, ReadTopic, rows, TopicFate
<1>7. CASE EndStep(q)
  BY <1>7 DEF EndStep, MarkUsed, Kill, rows, TopicFate
<1>8. CASE \/ \E shows \in BOOLEAN : InsertReply(q, shows) \/ SaveReply(q, shows)
           \/ \E r \in Replies : BeginReply(q, r) \/ \E step \in {"save", "drop", "toggle"} : ReadReply(q, r, step)
           \/ ClearSolution(q) \/ SaveSolution(q)
  BY <1>8 DEF InsertReply, SaveReply, BeginReply, ReadReply, ClearSolution, SaveSolution, rows, TopicFate
<1> QED
  BY <1>2, <1>3, <1>4, <1>5, <1>6, <1>7, <1>8 DEF TopicStep, ReplyStep

LEMMA UnbornKept ==
    ASSUME Shapes, Unborn, Shapes', NEW q \in Requests, TopicStep(q) \/ ReplyStep(q) \/ EndStep(q)
    PROVE  Unborn'
<1> SUFFICES ASSUME topic' = NotYet PROVE FALSE
  BY DEF Unborn
<1>1. ~topic'.exists
  BY DEF NotYet
<1>2. topic' # NoRow
  <2>1. DOMAIN NotYet = {"exists", "shows"} /\ DOMAIN NoRow = {"exists"}
    BY DEF NotYet, NoRow
  <2>2. "shows" \notin {"exists"}
    OBVIOUS
  <2> QED
    BY <2>1, <2>2
<1>3. topic = NotYet
  BY <1>1, <1>2, FateOfTopic DEF TopicFate
<1>4. ~topic.exists /\ at[q] = "idle" /\ \A r \in Replies : ~reply[r].exists
  BY <1>3 DEF Unborn, NotYet
<1>5. \A shows \in BOOLEAN : ~CreateTopic(q, shows)
  BY <1>1 DEF CreateTopic
<1>6. ~TopicStep(q)
  BY <1>4, <1>5 DEF TopicStep, SaveTopic, CountTopic, DropTopic, ReadTopic, SaveFlag
<1>7. ~ReplyStep(q)
  BY <1>4 DEF ReplyStep, InsertReply, SaveReply, BeginReply, ReadReply, CountReply, DropReply,
              ClearSolution, SaveSolution
<1>8. ~EndStep(q)
  BY <1>4 DEF EndStep, MarkUsed, Kill
<1> QED
  BY <1>6, <1>7, <1>8

\* The requests that have something to count, after a step of q.
LEMMA CountersOf ==
    ASSUME ReqShape, NEW q \in Requests, Others(q)
    PROVE  /\ Uncounted' = IF at'[q] = "count" /\ on'[q] # "topic"
                           THEN Uncounted \cup {q} ELSE Uncounted \ {q}
           /\ TopicUncounted' = IF at'[q] = "count" /\ on'[q] = "topic"
                                THEN TopicUncounted \cup {q} ELSE TopicUncounted \ {q}
BY DEF Others, Uncounted, TopicUncounted

LEMMA FiniteKept ==
    ASSUME Shapes, IsFiniteSet(Uncounted), IsFiniteSet(Rows), IsFiniteSet(TopicUncounted),
           NEW q \in Requests, Others(q), Appears(q)
    PROVE  IsFiniteSet(Uncounted') /\ IsFiniteSet(Rows') /\ IsFiniteSet(TopicUncounted')
<1>1. \A S, x : IsFiniteSet(S) => IsFiniteSet(S \cup {x}) /\ IsFiniteSet(S \ {x})
  BY FS_AddElement, FS_RemoveElement
<1>2. IsFiniteSet(Uncounted') /\ IsFiniteSet(TopicUncounted')
  <2>1. /\ Uncounted' = Uncounted \cup {q} \/ Uncounted' = Uncounted \ {q}
        /\ TopicUncounted' = TopicUncounted \cup {q} \/ TopicUncounted' = TopicUncounted \ {q}
    BY CountersOf DEF Shapes
  <2>2. IsFiniteSet(Uncounted \cup {q}) /\ IsFiniteSet(Uncounted \ {q})
    BY <1>1
  <2>3. IsFiniteSet(TopicUncounted \cup {q}) /\ IsFiniteSet(TopicUncounted \ {q})
    BY <1>1
  <2> QED
    BY <2>1, <2>2, <2>3
<1>3. Rows' \subseteq Rows \cup {on[q]}
  BY DEF Appears, Rows
<1>4. IsFiniteSet(Rows \cup {on[q]})
  BY <1>1
<1>5. IsFiniteSet(Rows')
  BY <1>3, <1>4, FS_Subset
<1> QED
  BY <1>2, <1>5

\* A step that counts nothing, owes nothing and drops nothing.
LEMMA QuietCounts ==
    ASSUME Shapes, CountInv, NEW q \in Requests, Others(q),
           at[q] # "count" \/ drift', at'[q] # "count" \/ drift', drift => drift',
           \A r \in Replies : reply'[r].exists <=> reply[r].exists,
           topics_count' = topics_count, (topic'.exists <=> topic.exists) \/ drift',
           topic.exists => topic'.replies_count = topic.replies_count \/ drift',
           Appears(q)
    PROVE  CountInv'
<1>1. IsFiniteSet(Uncounted') /\ IsFiniteSet(Rows') /\ IsFiniteSet(TopicUncounted')
  BY FiniteKept DEF CountInv
<1> SUFFICES ASSUME ~drift' PROVE RepliesOwed' /\ Balanced'
  BY <1>1 DEF CountInv, RepliesOwed, Balanced
<1>2. Uncounted' = Uncounted /\ TopicUncounted' = TopicUncounted
  <2>1. q \notin Uncounted /\ q \notin TopicUncounted
    BY DEF Uncounted, TopicUncounted
  <2> QED
    BY <2>1, CountersOf DEF Shapes
<1>3. Rows' = Rows
  BY DEF Rows
<1>4. \A p \in Uncounted : on'[p] = on[p] /\ on[p] \in Replies
  <2>1. \A p \in Uncounted : p # q /\ p \in Requests /\ on[p] # "topic"
    BY DEF Uncounted
  <2> QED
    BY <2>1, HoldsWhat DEF Others, Shapes
<1>5. RepliesOwed'
  BY <1>2, <1>4 DEF CountInv, RepliesOwed
<1>6. Balanced'
  BY <1>2, <1>3 DEF CountInv, Balanced
<1> QED
  BY <1>5, <1>6

LEMMA QuietSteps ==
    ASSUME Shapes, CountInv, NEW q \in Requests,
           \/ \E shows \in BOOLEAN : SaveTopic(q, shows)
           \/ \E step \in {"save", "flag", "drop"} : ReadTopic(q, step)
           \/ \E flag \in Flags : SaveFlag(q, flag)
           \/ \E r \in Replies : BeginReply(q, r) \/ \E step \in {"save", "drop", "toggle"} : ReadReply(q, r, step)
           \/ ClearSolution(q) \/ SaveSolution(q) \/ EndStep(q)
    PROVE  CountInv'
<1>1. TypeOK /\ ReqShape
  BY DEF Shapes
<1>2. TopicStep(q) \/ ReplyStep(q) \/ EndStep(q)
  BY DEF TopicStep, ReplyStep
<1>3. Others(q) /\ Appears(q)
  BY <1>2, Effects
<1>4. ASSUME NEW shows \in BOOLEAN, SaveTopic(q, shows) PROVE CountInv'
  <2> DEFINE row == [held[q] EXCEPT !.shows = shows]
  <2>1. held[q] \in Topic
    BY <1>1, <1>4, HoldsWhat DEF SaveTopic
  <2>2. row.shows = shows /\ row.replies_count = held[q].replies_count /\ row.exists
    BY <2>1 DEF Topic
  <2>3. topic' = row /\ at[q] = "save"
    BY <1>4 DEF SaveTopic
  <2>4. drift' = (drift \/ ~topic.exists \/ held[q].replies_count # topic.replies_count)
    BY <1>4 DEF SaveTopic
  <2>5. topic.exists => MarkNext(q, row)
    BY <1>4 DEF SaveTopic
  <2> HIDE DEF row
  <2>6. topic.exists => at'[q] # "count"
    BY <1>1, <2>2, <2>5, MarkSets
  <2>7. reply' = reply /\ topics_count' = topics_count
    BY <1>4 DEF SaveTopic
  <2>8. topic'.exists /\ topic'.replies_count = held[q].replies_count
    BY <2>2, <2>3
  <2> QED
    BY <1>3, <2>3, <2>4, <2>6, <2>7, <2>8, QuietCounts
<1>5. ASSUME NEW flag \in Flags, SaveFlag(q, flag) PROVE CountInv'
  <2>1. at'[q] # "count" /\ at[q] # "count"
    <3>1. held[q].shows \in BOOLEAN /\ (MarkNext(q, held[q]) \/ End(q)) /\ at[q] = "flag"
      BY <1>1, <1>5, HoldsWhat DEF SaveFlag
    <3>2. CASE MarkNext(q, held[q])
      BY <1>1, <3>1, <3>2, MarkSets
    <3>3. CASE End(q)
      BY <1>1, <3>1, <3>3, EndSets
    <3> QED
      BY <3>1, <3>2, <3>3
  <2>2. (topic'.exists <=> topic.exists) /\ (topic.exists => topic'.replies_count = topic.replies_count)
    <3>1. CASE topic.exists
      <4>1. topic \in Topic
        BY <1>1, <3>1, RowThere
      <4>2. topic' = [topic EXCEPT !.flags = IF flag \in held[q].flags THEN @ \ {flag} ELSE @ \cup {flag}]
        BY <1>5, <3>1 DEF SaveFlag
      <4>3. topic'.exists = topic.exists /\ topic'.replies_count = topic.replies_count
        BY <4>1, <4>2 DEF Topic
      <4> QED
        BY <4>3
    <3>2. CASE ~topic.exists
      BY <1>5, <3>2 DEF SaveFlag
    <3> QED
      BY <3>1, <3>2
  <2>3. reply' = reply /\ topics_count' = topics_count /\ drift' = drift
    BY <1>5 DEF SaveFlag, history
  <2> QED
    BY <1>3, <2>1, <2>2, <2>3, QuietCounts
<1>6. CASE \/ \E step \in {"save", "flag", "drop"} : ReadTopic(q, step)
           \/ \E r \in Replies : BeginReply(q, r) \/ \E step \in {"save", "drop", "toggle"} : ReadReply(q, r, step)
  <2>1. ASSUME NEW r \in Replies \cup {"topic"}, NEW row, NEW step,
               step \in {"save", "flag", "drop", "insert", "toggle"}, Begin(q, r, row, step)
        PROVE  at[q] # "count" /\ at'[q] # "count"
    <3>1. at[q] = "idle" /\ at'[q] = step
      BY <1>1, <2>1, BeginSets
    <3> QED
      BY <2>1, <3>1
  <2>2. at[q] # "count" /\ at'[q] # "count"
    <3>1. ASSUME NEW step \in {"save", "flag", "drop"}, ReadTopic(q, step)
          PROVE  at[q] # "count" /\ at'[q] # "count"
      BY <2>1, <3>1 DEF ReadTopic
    <3>2. ASSUME NEW r \in Replies, BeginReply(q, r)
          PROVE  at[q] # "count" /\ at'[q] # "count"
      BY <2>1, <3>2 DEF BeginReply
    <3>3. ASSUME NEW r \in Replies, NEW step \in {"save", "drop", "toggle"}, ReadReply(q, r, step)
          PROVE  at[q] # "count" /\ at'[q] # "count"
      BY <2>1, <3>3 DEF ReadReply
    <3> QED
      BY <1>6, <3>1, <3>2, <3>3
  <2>3. UNCHANGED <<topic, reply, topics_count, drift>>
    BY <1>6 DEF ReadTopic, BeginReply, ReadReply, rows, history
  <2> QED
    BY <1>3, <2>2, <2>3, QuietCounts
<1>7. CASE ClearSolution(q)
  <2>1. at[q] = "toggle" /\ at'[q] = "accept"
    BY <1>1, <1>7, SignalSets DEF ClearSolution
  <2>2. UNCHANGED <<topic, topics_count, drift>>
    BY <1>7 DEF ClearSolution, history
  <2>3. \A r \in Replies : reply'[r].exists <=> reply[r].exists
    <3>1. ASSUME NEW r \in Replies, reply[r].exists PROVE reply'[r].exists
      <4>1. reply[r] \in Reply
        BY <1>1, <3>1, RowThere
      <4>2. reply'[r] = [reply[r] EXCEPT !.solution = FALSE]
        BY <1>7, <3>1 DEF ClearSolution
      <4> QED
        BY <4>1, <4>2 DEF Reply
    <3>2. \A r \in Replies : ~reply[r].exists => reply'[r] = reply[r]
      BY <1>7 DEF ClearSolution
    <3> QED
      BY <3>1, <3>2
  <2>4. at[q] # "count" /\ at'[q] # "count"
    BY <2>1
  <2> QED
    BY <1>3, <2>2, <2>3, <2>4, QuietCounts
<1>8. CASE SaveSolution(q)
  <2>1. at[q] # "count" /\ at'[q] # "count"
    <3>1. held[q].shows \in BOOLEAN /\ (MarkNext(q, held[q]) \/ End(q)) /\ at[q] \in Toggling
      BY <1>1, <1>8, HoldsWhat DEF SaveSolution, Toggling
    <3>2. CASE MarkNext(q, held[q])
      BY <1>1, <3>1, <3>2, MarkSets DEF Toggling
    <3>3. CASE End(q)
      BY <1>1, <3>1, <3>3, EndSets DEF Toggling
    <3> QED
      BY <3>1, <3>2, <3>3
  <2>2. UNCHANGED <<topic, topics_count, drift>>
    BY <1>8 DEF SaveSolution, history
  <2>3. \A r \in Replies : reply'[r].exists <=> reply[r].exists
    <3>1. ASSUME reply[on[q]].exists, NEW b, on[q] \in Replies, reply' = [reply EXCEPT ![on[q]].solution = b]
          PROVE  \A r \in Replies : reply'[r].exists <=> reply[r].exists
      <4>1. reply[on[q]] \in Reply
        BY <1>1, <3>1, RowThere
      <4>2. reply'[on[q]] = [reply[on[q]] EXCEPT !.solution = b]
        BY <1>1, <3>1 DEF TypeOK
      <4>3. reply'[on[q]].exists
        BY <4>1, <4>2 DEF Reply
      <4>4. \A r \in Replies : r # on[q] => reply'[r] = reply[r]
        BY <1>1, <3>1 DEF TypeOK
      <4> QED
        BY <3>1, <4>3, <4>4
    <3>2. on[q] \in Replies
      BY <1>1, <1>8, HoldsWhat DEF SaveSolution
    <3> QED
      BY <1>8, <3>1, <3>2 DEF SaveSolution
  <2> QED
    BY <1>3, <2>1, <2>2, <2>3, QuietCounts
<1>9. CASE EndStep(q)
  <2>1. at'[q] = "idle"
    BY <1>1, <1>9, EndSets DEF EndStep, MarkUsed, Kill
  <2>2. at[q] = "mark" \/ (at[q] = "count" /\ drift')
    BY <1>9 DEF EndStep, MarkUsed, Kill
  <2>3. UNCHANGED <<topic, reply, topics_count>> /\ (drift => drift')
    BY <1>9 DEF EndStep, MarkUsed, Kill, rows, history
  <2>4. at'[q] # "count" /\ (at[q] # "count" \/ drift')
    BY <2>1, <2>2
  <2> QED
    BY <1>3, <2>3, <2>4, QuietCounts
<1> QED
  BY <1>4, <1>5, <1>6, <1>7, <1>8, <1>9

\* TopicListCreateView.create, _topic_created and the deletion of the topic.
LEMMA TopicCounts ==
    ASSUME Shapes, Unborn, CountInv, NEW q \in Requests,
           (\E shows \in BOOLEAN : CreateTopic(q, shows)) \/ CountTopic(q) \/ DropTopic(q)
    PROVE  CountInv'
<1>1. TypeOK /\ ReqShape
  BY DEF Shapes
<1>2. TopicStep(q)
  BY DEF TopicStep
<1>3. Others(q) /\ Appears(q)
  BY <1>2, TopicEffects
<1>4. IsFiniteSet(Uncounted') /\ IsFiniteSet(Rows') /\ IsFiniteSet(TopicUncounted')
  BY <1>3, FiniteKept DEF CountInv
<1>5. Cardinality(Uncounted) \in Nat /\ Cardinality(Rows) \in Nat /\ Cardinality(TopicUncounted) \in Nat
  BY FS_CardinalityType DEF CountInv
<1>6. topics_count \in Nat
  BY <1>1 DEF TypeOK
<1>7. ASSUME NEW shows \in BOOLEAN, CreateTopic(q, shows) PROVE CountInv'
  <2>1. topic = NotYet /\ ~topic.exists
    BY <1>7 DEF CreateTopic, NotYet
  <2>2. at'[q] = "count" /\ on'[q] = "topic"
    BY <1>1, <1>7, BeginSets DEF CreateTopic
  <2>3. \A p \in Requests : at[p] = "idle"
    BY <2>1 DEF Unborn
  <2>4. Uncounted = {} /\ Rows = {} /\ TopicUncounted = {}
    BY <2>1, <2>3 DEF Unborn, Uncounted, Rows, TopicUncounted
  <2>5. Uncounted' = {} /\ TopicUncounted' = {q}
    BY <1>1, <1>3, <2>2, <2>4, CountersOf
  <2>6. Rows' = {}
    BY <1>7, <2>4 DEF CreateTopic, Rows
  <2>7. topic'.exists /\ topic'.replies_count = 0
    BY <1>7 DEF CreateTopic
  <2>8. topics_count' = topics_count /\ drift' = drift
    BY <1>7 DEF CreateTopic
  <2>9. Cardinality({}) = 0 /\ Cardinality({q}) = 1
    BY FS_EmptySet, FS_Singleton
  <2>10. Balanced'
    <3>1. ~drift => topics_count = 0
      BY <1>6, <2>1, <2>4, <2>9 DEF CountInv, Balanced
    <3> QED
      BY <2>5, <2>6, <2>7, <2>8, <2>9, <3>1 DEF Balanced
  <2>11. RepliesOwed'
    BY <2>5 DEF RepliesOwed
  <2> QED
    BY <1>4, <2>10, <2>11 DEF CountInv
<1>8. CASE CountTopic(q)
  <2>1. /\ at[q] = "count" /\ on[q] = "topic" /\ topics_count' = topics_count + 1
        /\ UNCHANGED <<topic, reply, drift>>
    BY <1>8 DEF CountTopic, history
  <2>2. at'[q] # "count"
    <3>1. MarkNext(q, held[q]) /\ held[q].shows \in BOOLEAN
      BY <1>1, <1>8, HoldsWhat DEF CountTopic
    <3> QED
      BY <1>1, <3>1, MarkSets
  <2>3. q \notin Uncounted /\ q \in TopicUncounted
    BY <2>1 DEF Uncounted, TopicUncounted
  <2>4. Uncounted' = Uncounted /\ TopicUncounted' = TopicUncounted \ {q}
    BY <1>1, <1>3, <2>2, <2>3, CountersOf
  <2>5. Cardinality(TopicUncounted') = Cardinality(TopicUncounted) - 1
    BY <2>3, <2>4, FS_RemoveElement DEF CountInv
  <2>6. Rows' = Rows
    BY <2>1 DEF Rows
  <2>7. Balanced'
    BY <1>5, <1>6, <2>1, <2>4, <2>5, <2>6 DEF CountInv, Balanced
  <2>8. \A p \in Uncounted : on'[p] = on[p]
    <3>1. \A p \in Uncounted : p \in Requests /\ p # q
      BY <2>3 DEF Uncounted
    <3> QED
      BY <1>3, <3>1 DEF Others
  <2>9. RepliesOwed'
    BY <2>1, <2>4, <2>8 DEF CountInv, RepliesOwed
  <2> QED
    BY <1>4, <2>7, <2>9 DEF CountInv
<1>9. CASE DropTopic(q)
  <2>1. /\ topic' = NoRow /\ at[q] = "drop"
        /\ topics_count' = IF topics_count > 0 THEN topics_count - 1 ELSE 0
        /\ ~drift' => ~drift /\ topic.exists /\ TopicUncounted = {}
    BY <1>9 DEF DropTopic, TopicUncounted
  <2>2. ~topic'.exists
    BY <2>1 DEF NoRow
  <2>3. at'[q] # "count"
    BY <1>1, <1>9, EndSets DEF DropTopic
  <2>4. TopicUncounted' = TopicUncounted \ {q}
    BY <1>1, <1>3, <2>3, CountersOf
  <2>5. Balanced'
    <3> SUFFICES ASSUME ~drift' PROVE topics_count' + Cardinality(TopicUncounted') = 0
      BY <2>2 DEF Balanced
    <3>1. ~drift /\ topic.exists /\ TopicUncounted = {} /\ TopicUncounted' = {}
      BY <2>1, <2>4
    <3>2. Cardinality({}) = 0
      BY FS_EmptySet
    <3>3. topics_count = 1
      BY <1>6, <3>1, <3>2 DEF CountInv, Balanced
    <3> QED
      BY <2>1, <3>1, <3>2, <3>3
  <2>6. RepliesOwed'
    BY <2>2 DEF RepliesOwed
  <2> QED
    BY <1>4, <2>5, <2>6 DEF CountInv
<1> QED
  BY <1>7, <1>8, <1>9


\* A row enters through a request that goes on to count it.
LEMMA GrownCounts ==
    ASSUME Shapes, CountInv, NEW q \in Requests, Others(q), Appears(q), topic.exists,
           at[q] # "count", at'[q] = "count", on'[q] = on[q], on[q] \in Replies,
           ~reply[on[q]].exists, reply'[on[q]].exists,
           \A r \in Replies \ {on[q]} : reply'[r] = reply[r],
           UNCHANGED <<topic, topics_count, drift>>
    PROVE  CountInv'
<1>1. IsFiniteSet(Uncounted') /\ IsFiniteSet(Rows') /\ IsFiniteSet(TopicUncounted')
  BY FiniteKept DEF CountInv
<1>2. on[q] # "topic" /\ q \notin Uncounted /\ q \notin TopicUncounted
  BY ForumAssumption DEF Uncounted, TopicUncounted
<1>3. Uncounted' = Uncounted \cup {q} /\ TopicUncounted' = TopicUncounted
  <2>1. ReqShape /\ at'[q] = "count" /\ on'[q] # "topic"
    BY <1>2 DEF Shapes
  <2>2. Uncounted' = Uncounted \cup {q} /\ TopicUncounted' = TopicUncounted \ {q}
    BY <2>1, CountersOf
  <2> QED
    BY <1>2, <2>2
<1>4. Rows' = Rows \cup {on[q]} /\ on[q] \notin Rows
  BY DEF Rows
<1>5. Cardinality(Uncounted') = Cardinality(Uncounted) + 1
  BY <1>2, <1>3, FS_AddElement DEF CountInv
<1>6. Cardinality(Rows') = Cardinality(Rows) + 1
  BY <1>4, FS_AddElement DEF CountInv
<1>7. Cardinality(Uncounted) \in Nat /\ Cardinality(Rows) \in Nat
  BY FS_CardinalityType DEF CountInv
<1>8. topic.replies_count \in Nat
  <2>1. topic \in Topic
    BY RowThere DEF Shapes
  <2> QED
    BY <2>1 DEF Topic
<1>9. Balanced'
  BY <1>3, <1>5, <1>6, <1>7, <1>8 DEF CountInv, Balanced
<1>10. \A p \in Uncounted : on'[p] = on[p] /\ on[p] \in Replies /\ p \in Requests
  <2>1. \A p \in Uncounted : p # q /\ p \in Requests /\ on[p] # "topic"
    BY <1>2 DEF Uncounted
  <2> QED
    BY <2>1, HoldsWhat DEF Others, Shapes
<1>11. RepliesOwed'
  <2> SUFFICES ASSUME ~drift
               PROVE  /\ \A p \in Uncounted' : reply'[on'[p]].exists
                      /\ \A p, o \in Uncounted' : on'[p] = on'[o] => p = o
    BY DEF RepliesOwed
  <2>1. /\ \A p \in Uncounted : reply[on[p]].exists
        /\ \A p, o \in Uncounted : on[p] = on[o] => p = o
    BY DEF CountInv, RepliesOwed
  <2>2. \A p \in Uncounted : on[p] # on[q]
    BY <2>1
  <2>3. \A p \in Uncounted : reply'[on'[p]].exists
    BY <1>10, <2>1, <2>2
  <2>4. \A p \in Uncounted' : reply'[on'[p]].exists
    BY <1>3, <2>3
  <2>5. \A p, o \in Uncounted' : on'[p] = on'[o] => p = o
    BY <1>3, <1>10, <2>1, <2>2
  <2> QED
    BY <2>4, <2>5
<1> QED
  BY <1>1, <1>9, <1>11 DEF CountInv

\* A request per reply: there are no more of them than replies.
LEMMA FewerOwed ==
    ASSUME Shapes, CountInv, ~drift, topic.exists, NEW r \in Rows, \A p \in Uncounted : on[p] # r
    PROVE  Cardinality(Uncounted) < Cardinality(Rows)
<1> DEFINE f == [p \in Uncounted |-> on[p]]
<1>1. Uncounted \subseteq Requests
  BY DEF Uncounted
<1>2. \A p \in Uncounted : on[p] \in Rows \ {r}
  <2>1. \A p \in Uncounted : on[p] \in Replies
    BY <1>1, HoldsWhat DEF Uncounted, Shapes
  <2>2. \A p \in Uncounted : reply[on[p]].exists
    BY DEF CountInv, RepliesOwed
  <2> QED
    BY <2>1, <2>2 DEF Rows
<1>3. \A p, o \in Uncounted : on[p] = on[o] => p = o
  BY DEF CountInv, RepliesOwed
<1>4. f \in Injection(Uncounted, Rows \ {r})
  BY <1>2, <1>3 DEF Injection, IsInjective
<1>5. IsFiniteSet(Rows \ {r}) /\ Cardinality(Rows \ {r}) = Cardinality(Rows) - 1
  BY FS_RemoveElement DEF CountInv
<1>6. Cardinality(Uncounted) <= Cardinality(Rows \ {r})
  BY <1>4, <1>5, FS_Injection
<1>7. Cardinality(Uncounted) \in Nat /\ Cardinality(Rows) \in Nat
  BY FS_CardinalityType DEF CountInv
<1> QED
  BY <1>5, <1>6, <1>7

LEMMA ReplyCounts ==
    ASSUME Shapes, InsertsAlone, CountInv, NEW q \in Requests,
           \/ \E shows \in BOOLEAN : InsertReply(q, shows) \/ SaveReply(q, shows)
           \/ CountReply(q) \/ DropReply(q)
    PROVE  CountInv'
<1>1. TypeOK /\ ReqShape
  BY DEF Shapes
<1>2. ReplyStep(q)
  BY DEF ReplyStep
<1>3. Others(q) /\ Appears(q)
  BY <1>2, ReplyEffects
<1>4. ASSUME NEW shows \in BOOLEAN, InsertReply(q, shows) PROVE CountInv'
  <2> DEFINE row == [exists |-> TRUE, solution |-> FALSE, shows |-> shows]
  <2>1. at[q] = "insert" /\ on[q] \in Replies /\ on[q] # "topic"
    BY <1>1, <1>4, HoldsWhat DEF InsertReply
  <2>2. UNCHANGED <<topic, topics_count, drift>>
    BY <1>4 DEF InsertReply
  <2>3. CASE topic.exists
    <3>1. reply' = [reply EXCEPT ![on[q]] = row] /\ Signal(q, "count", row)
      BY <1>4, <2>3 DEF InsertReply
    <3>2. at'[q] = "count" /\ on'[q] = on[q]
      BY <1>1, <3>1, SignalSets
    <3>3. ~reply[on[q]].exists
      BY <2>1 DEF InsertsAlone
    <3>4. reply'[on[q]].exists /\ \A r \in Replies \ {on[q]} : reply'[r] = reply[r]
      BY <1>1, <2>1, <3>1 DEF TypeOK
    <3>5. at[q] # "count"
      BY <2>1
    <3> QED
      BY <1>3, <2>1, <2>2, <2>3, <3>2, <3>3, <3>4, <3>5, GrownCounts
  <2>4. CASE ~topic.exists
    <3>1. reply' = reply /\ End(q)
      BY <1>4, <2>4 DEF InsertReply
    <3>2. at'[q] = "idle"
      BY <1>1, <3>1, EndSets
    <3>3. at[q] # "count" /\ at'[q] # "count"
      BY <2>1, <3>2
    <3> QED
      BY <1>3, <2>2, <3>1, <3>3, QuietCounts
  <2> QED
    BY <2>3, <2>4
<1>5. ASSUME NEW shows \in BOOLEAN, SaveReply(q, shows) PROVE CountInv'
  <2> DEFINE row == [held[q] EXCEPT !.shows = shows]
  <2>1. at[q] = "save" /\ on[q] \in Replies /\ on[q] # "topic" /\ held[q] \in Reply
    BY <1>1, <1>5, HoldsWhat DEF SaveReply
  <2>2. UNCHANGED <<topic, topics_count, drift>>
    BY <1>5 DEF SaveReply
  <2>3. row.exists /\ row.shows = shows
    BY <2>1 DEF Reply
  <2>4. CASE topic.exists
    <3>1. /\ reply' = [reply EXCEPT ![on[q]] = row]
          /\ IF reply[on[q]].exists THEN MarkNext(q, row) ELSE Signal(q, "count", row)
      BY <1>5, <2>4 DEF SaveReply
    <3> HIDE DEF row
    <3>2. reply'[on[q]].exists /\ \A r \in Replies \ {on[q]} : reply'[r] = reply[r]
      BY <1>1, <2>1, <2>3, <3>1 DEF TypeOK
    <3>3. CASE reply[on[q]].exists
      <4>1. at'[q] # "count"
        BY <1>1, <2>3, <3>1, <3>3, MarkSets
      <4>2. \A r \in Replies : reply'[r].exists <=> reply[r].exists
        BY <3>2, <3>3
      <4>3. at[q] # "count"
        BY <2>1
      <4> QED
        BY <1>3, <2>2, <4>1, <4>2, <4>3, QuietCounts
    <3>4. CASE ~reply[on[q]].exists
      <4>1. at'[q] = "count" /\ on'[q] = on[q]
        BY <1>1, <3>1, <3>4, SignalSets
      <4>2. at[q] # "count"
        BY <2>1
      <4> QED
        BY <1>3, <2>1, <2>2, <2>4, <3>2, <3>4, <4>1, <4>2, GrownCounts
    <3> QED
      BY <3>3, <3>4
  <2>5. CASE ~topic.exists
    <3>1. reply' = reply /\ End(q)
      BY <1>5, <2>5 DEF SaveReply
    <3>2. at'[q] = "idle"
      BY <1>1, <3>1, EndSets
    <3>3. at[q] # "count" /\ at'[q] # "count"
      BY <2>1, <3>2
    <3> QED
      BY <1>3, <2>2, <3>1, <3>3, QuietCounts
  <2> QED
    BY <2>4, <2>5
<1>6. CASE CountReply(q)
  <2>1. /\ at[q] = "count" /\ on[q] # "topic"
        /\ topic' = IF topic.exists THEN [topic EXCEPT !.replies_count = @ + 1] ELSE topic
        /\ UNCHANGED <<reply, topics_count, drift>>
    BY <1>6 DEF CountReply, history
  <2>2. at'[q] # "count"
    <3>1. MarkNext(q, held[q]) /\ held[q].shows \in BOOLEAN
      BY <1>1, <1>6, HoldsWhat DEF CountReply
    <3> QED
      BY <1>1, <3>1, MarkSets
  <2>3. q \in Uncounted /\ q \notin TopicUncounted
    BY <2>1 DEF Uncounted, TopicUncounted
  <2>4. Uncounted' = Uncounted \ {q} /\ TopicUncounted' = TopicUncounted
    BY <1>1, <1>3, <2>2, <2>3, CountersOf
  <2>5. Cardinality(Uncounted') = Cardinality(Uncounted) - 1
    BY <2>3, <2>4, FS_RemoveElement DEF CountInv
  <2>6. Cardinality(Uncounted) \in Nat
    BY FS_CardinalityType DEF CountInv
  <2>7. Rows' = Rows
    BY <2>1 DEF Rows
  <2>8. /\ topic'.exists <=> topic.exists
        /\ topic.exists => topic.replies_count \in Nat /\ topic'.replies_count = topic.replies_count + 1
    <3>1. CASE topic.exists
      <4>1. topic \in Topic
        BY <1>1, <3>1, RowThere
      <4>2. topic' = [topic EXCEPT !.replies_count = topic.replies_count + 1]
        BY <2>1, <3>1
      <4>3. topic'.exists /\ topic'.replies_count = topic.replies_count + 1 /\ topic.replies_count \in Nat
        BY <4>1, <4>2 DEF Topic
      <4> QED
        BY <3>1, <4>3
    <3> QED
      BY <2>1, <3>1
  <2>9. Cardinality(Rows) \in Nat
    BY FS_CardinalityType DEF CountInv
  <2>10. Balanced'
    BY <2>1, <2>4, <2>5, <2>6, <2>7, <2>8, <2>9 DEF CountInv, Balanced
  <2>11. \A p \in Uncounted' : p \in Uncounted /\ on'[p] = on[p]
    <3>1. \A p \in Uncounted' : p \in Uncounted /\ p \in Requests /\ p # q
      BY <2>4 DEF Uncounted
    <3> QED
      BY <1>3, <3>1 DEF Others
  <2>12. RepliesOwed'
    BY <2>1, <2>8, <2>11 DEF CountInv, RepliesOwed
  <2>13. IsFiniteSet(Uncounted') /\ IsFiniteSet(Rows') /\ IsFiniteSet(TopicUncounted')
    BY <1>3, FiniteKept DEF CountInv
  <2> QED
    BY <2>10, <2>12, <2>13 DEF CountInv
<1>7. CASE DropReply(q)
  <2>1. /\ at[q] = "drop" /\ on[q] # "topic"
        /\ reply' = [reply EXCEPT ![on[q]] = NoRow]
        /\ topic' = IF topic.exists /\ topic.replies_count > 0
                    THEN [topic EXCEPT !.replies_count = @ - 1] ELSE topic
        /\ drift' = (drift \/ ~reply[on[q]].exists \/ \E p \in Uncounted : on[p] = on[q])
        /\ topics_count' = topics_count
    BY <1>7 DEF DropReply
  <2>2. at'[q] # "count" /\ on[q] \in Replies
    BY <1>1, <1>7, <2>1, EndSets, HoldsWhat DEF DropReply
  <2>3. q \notin Uncounted /\ q \notin TopicUncounted
    BY <2>1 DEF Uncounted, TopicUncounted
  <2>4. Uncounted' = Uncounted /\ TopicUncounted' = TopicUncounted
    BY <1>1, <1>3, <2>2, <2>3, CountersOf
  <2>5. IsFiniteSet(Uncounted') /\ IsFiniteSet(Rows') /\ IsFiniteSet(TopicUncounted')
    BY <1>3, FiniteKept DEF CountInv
  <2> SUFFICES ASSUME ~drift' PROVE RepliesOwed' /\ Balanced'
    BY <2>5 DEF CountInv, RepliesOwed, Balanced
  <2>6. ~drift /\ reply[on[q]].exists /\ \A p \in Uncounted : on[p] # on[q]
    BY <2>1
  <2>7. reply'[on[q]] = NoRow /\ \A r \in Replies \ {on[q]} : reply'[r] = reply[r]
    BY <1>1, <2>1, <2>2 DEF TypeOK
  <2>8. Rows' = Rows \ {on[q]} /\ on[q] \in Rows
    BY <2>2, <2>6, <2>7 DEF Rows, NoRow
  <2>9. Cardinality(Rows') = Cardinality(Rows) - 1
    BY <2>8, FS_RemoveElement DEF CountInv
  <2>10. Cardinality(Uncounted) \in Nat /\ Cardinality(Rows) \in Nat
    BY FS_CardinalityType DEF CountInv
  <2>11. \A p \in Uncounted : on'[p] = on[p] /\ on[p] \in Replies
    <3>1. \A p \in Uncounted : p # q /\ p \in Requests /\ on[p] # "topic"
      BY <2>3 DEF Uncounted
    <3> QED
      BY <1>1, <1>3, <3>1, HoldsWhat DEF Others
  <2>12. CASE topic.exists
    <3>1. Cardinality(Uncounted) < Cardinality(Rows)
      BY <2>6, <2>8, <2>12, FewerOwed
    <3>2. topic \in Topic
      BY <1>1, <2>12, RowThere
    <3>3. topic.replies_count \in Nat
      BY <3>2 DEF Topic
    <3>4. topic.replies_count + Cardinality(Uncounted) = Cardinality(Rows)
      BY <2>6, <2>12 DEF CountInv, Balanced
    <3>5. topic.replies_count > 0
      BY <2>10, <3>1, <3>3, <3>4
    <3>6. topic' = [topic EXCEPT !.replies_count = topic.replies_count - 1]
      BY <2>1, <2>12, <3>5
    <3>7. topic'.exists /\ topic'.replies_count = topic.replies_count - 1
      BY <3>2, <3>6 DEF Topic
    <3>8. Balanced'
      BY <2>1, <2>4, <2>6, <2>9, <2>10, <2>12, <3>3, <3>4, <3>7 DEF CountInv, Balanced
    <3>9. RepliesOwed'
      BY <2>4, <2>6, <2>7, <2>11, <2>12 DEF CountInv, RepliesOwed
    <3> QED
      BY <3>8, <3>9
  <2>13. CASE ~topic.exists
    <3>1. topic' = topic
      BY <2>1, <2>13
    <3> QED
      BY <2>1, <2>4, <2>6, <2>13, <3>1 DEF CountInv, RepliesOwed, Balanced
  <2> QED
    BY <2>12, <2>13
<1> QED
  BY <1>4, <1>5, <1>6, <1>7

LEMMA CountsKept ==
    ASSUME Shapes, Unborn, InsertsAlone, CountInv,
           NEW q \in Requests, TopicStep(q) \/ ReplyStep(q) \/ EndStep(q)
    PROVE  CountInv'
BY TopicCounts, ReplyCounts, QuietSteps DEF TopicStep, ReplyStep

-----------------------------------------------------------------------------
(* The solution. *)

\* A step after which its request neither toggles nor is about to save a reply, and which makes
\* a solution of no reply that had no claim to be one.
LEMMA FewerClaims ==
    ASSUME Shapes, OneClaim, NEW q \in Requests, Others(q), clash => clash',
           at'[q] \notin Toggling, at'[q] = "save" => on'[q] = "topic",
           \A r \in Replies : reply'[r].exists /\ reply'[r].solution => r \in Claims
    PROVE  OneClaim'
<1>1. Claims' \subseteq Claims
  <2> SUFFICES ASSUME NEW r \in Replies, NEW p \in Requests,
                      at'[p] = "save", on'[p] = r, held'[p].solution
               PROVE  r \in Claims
    BY DEF Claims
  <2>1. p # q
    BY ForumAssumption
  <2> QED
    BY <2>1 DEF Others, Claims
<1>2. \A p \in Requests : at'[p] \in Toggling => p # q /\ at[p] = at'[p]
  BY DEF Others
<1>3. \A p \in Requests : Contend("toggle", p)' => p # q /\ Contend("toggle", p)
  BY DEF Contend, Others, Toggling
<1>4. \A p \in Requests : at'[p] = "accept" => at[p] = "accept"
  BY <1>2 DEF Toggling
<1> QED
  BY <1>1, <1>2, <1>3, <1>4 DEF OneClaim

LEMMA TopicClaims ==
    ASSUME Shapes, OneClaim, NEW q \in Requests, TopicStep(q) \/ EndStep(q)
    PROVE  OneClaim'
<1>1. ReqShape /\ Others(q)
  BY Effects DEF Shapes
<1>2. at'[q] \notin Toggling /\ (at'[q] = "save" => on'[q] = "topic")
  <2>1. ASSUME NEW shows \in BOOLEAN, CreateTopic(q, shows) PROVE at'[q] = "count"
    BY <1>1, <2>1, BeginSets DEF CreateTopic
  <2>2. ASSUME NEW shows \in BOOLEAN, SaveTopic(q, shows) PROVE at'[q] \in {"count", "mark", "idle"}
    <3> DEFINE row == [held[q] EXCEPT !.shows = shows]
    <3>1. held[q] \in Topic
      BY <1>1, <2>2, HoldsWhat DEF SaveTopic
    <3>2. row.shows = shows
      BY <3>1 DEF Topic
    <3>3. MarkNext(q, row) \/ Signal(q, "count", row)
      BY <2>2 DEF SaveTopic
    <3> HIDE DEF row
    <3> QED
      BY <1>1, <3>2, <3>3, MarkSets, SignalSets
  <2>3. ASSUME MarkNext(q, held[q]), held[q].shows \in BOOLEAN PROVE at'[q] \in {"mark", "idle"}
    BY <1>1, <2>3, MarkSets
  <2>4. ASSUME NEW flag \in Flags, SaveFlag(q, flag) PROVE at'[q] \in {"mark", "idle"}
    <3>1. held[q].shows \in BOOLEAN /\ (MarkNext(q, held[q]) \/ End(q))
      BY <1>1, <2>4, HoldsWhat DEF SaveFlag
    <3> QED
      BY <1>1, <2>3, <3>1, EndSets
  <2>5. CASE CountTopic(q)
    <3>1. held[q].shows \in BOOLEAN /\ MarkNext(q, held[q])
      BY <1>1, <2>5, HoldsWhat DEF CountTopic
    <3>2. at'[q] \in {"mark", "idle"}
      BY <2>3, <3>1
    <3> QED
      BY <3>2 DEF Toggling
  <2>6. ASSUME NEW step \in {"save", "flag", "drop"}, ReadTopic(q, step)
        PROVE  at'[q] \in {"save", "flag", "drop"} /\ on'[q] = "topic"
    BY <1>1, <2>6, BeginSets DEF ReadTopic
  <2>7. CASE DropTopic(q) \/ EndStep(q)
    <3>1. at'[q] = "idle"
      BY <1>1, <2>7, EndSets DEF DropTopic, EndStep, MarkUsed, Kill
    <3> QED
      BY <3>1 DEF Toggling
  <2>8. CASE \E step \in {"save", "flag", "drop"} : ReadTopic(q, step)
    BY <2>6, <2>8 DEF Toggling
  <2>9. CASE \E flag \in Flags : SaveFlag(q, flag)
    BY <2>4, <2>9 DEF Toggling
  <2>10. CASE \E shows \in BOOLEAN : CreateTopic(q, shows) \/ SaveTopic(q, shows)
    BY <2>1, <2>2, <2>10 DEF Toggling
  <2> QED
    BY <2>5, <2>7, <2>8, <2>9, <2>10 DEF TopicStep
<1>3. \A r \in Replies : reply'[r] = reply[r] \/ ~reply'[r].exists
  <2>1. CASE DropTopic(q)
    <3>1. \A r \in Replies : reply'[r] = NoRow
      BY <2>1 DEF DropTopic
    <3> QED
      BY <3>1 DEF NoRow
  <2>2. CASE EndStep(q)
    BY <2>2 DEF EndStep, MarkUsed, Kill, rows
  <2>3. CASE TopicStep(q) /\ ~DropTopic(q)
    BY <2>3 DEF TopicStep, CreateTopic, SaveTopic, CountTopic, ReadTopic, SaveFlag, rows
  <2> QED
    BY <2>1, <2>2, <2>3
<1>4. \A r \in Replies : reply'[r].exists /\ reply'[r].solution => r \in Claims
  BY <1>3 DEF Claims
<1>5. clash' = clash
  BY DEF TopicStep, CreateTopic, SaveTopic, CountTopic, DropTopic, ReadTopic, SaveFlag,
         EndStep, MarkUsed, Kill, history
<1> QED
  BY <1>1, <1>2, <1>4, <1>5, FewerClaims

LEMMA ReplyClaims ==
    ASSUME Shapes, OneClaim, NEW q \in Requests, ReplyStep(q)
    PROVE  OneClaim'
<1>1. TypeOK /\ ReqShape /\ Others(q)
  BY ReplyEffects DEF Shapes
<1>2. ASSUME NEW shows \in BOOLEAN, InsertReply(q, shows) PROVE OneClaim'
  <2> DEFINE row == [exists |-> TRUE, solution |-> FALSE, shows |-> shows]
  <2>1. on[q] \in Replies /\ clash' = clash
    BY <1>1, <1>2, HoldsWhat DEF InsertReply
  <2>2. \/ reply' = [reply EXCEPT ![on[q]] = row] /\ Signal(q, "count", row)
        \/ reply' = reply /\ End(q)
    BY <1>2 DEF InsertReply
  <2>3. at'[q] \in {"count", "idle"}
    BY <1>1, <2>2, SignalSets, EndSets
  <2>4. \A r \in Replies : reply'[r] = reply[r] \/ reply'[r] = row
    BY <1>1, <2>1, <2>2 DEF TypeOK
  <2>5. \A r \in Replies : reply'[r].exists /\ reply'[r].solution => r \in Claims
    BY <2>4 DEF Claims
  <2> HIDE DEF row
  <2> QED
    BY <1>1, <2>1, <2>3, <2>5, FewerClaims DEF Toggling
<1>3. ASSUME NEW shows \in BOOLEAN, SaveReply(q, shows) PROVE OneClaim'
  <2> DEFINE row == [held[q] EXCEPT !.shows = shows]
  <2>1. on[q] \in Replies /\ held[q] \in Reply /\ at[q] = "save" /\ clash' = clash
    BY <1>1, <1>3, HoldsWhat DEF SaveReply
  <2>2. row.shows = shows /\ row.solution = held[q].solution
    BY <2>1 DEF Reply
  <2>3. \/ reply' = [reply EXCEPT ![on[q]] = row] /\ (MarkNext(q, row) \/ Signal(q, "count", row))
        \/ reply' = reply /\ End(q)
    BY <1>3 DEF SaveReply
  <2> HIDE DEF row
  <2>4. at'[q] \in {"count", "mark", "idle"}
    BY <1>1, <2>2, <2>3, MarkSets, SignalSets, EndSets
  <2>5. \A r \in Replies : reply'[r] = reply[r] \/ (r = on[q] /\ reply'[r] = row)
    BY <1>1, <2>1, <2>3 DEF TypeOK
  <2>6. \A r \in Replies : reply'[r].exists /\ reply'[r].solution => r \in Claims
    <3>1. row.solution => on[q] \in Claims
      BY <2>1, <2>2 DEF Claims
    <3> QED
      BY <2>5, <3>1 DEF Claims
  <2> QED
    BY <1>1, <2>1, <2>4, <2>6, FewerClaims DEF Toggling
<1>4. ASSUME NEW r \in Replies, BeginReply(q, r) PROVE OneClaim'
  <2>1. at'[q] = "insert"
    BY <1>1, <1>4, BeginSets DEF BeginReply
  <2>2. reply' = reply /\ clash' = clash
    BY <1>4 DEF BeginReply, rows, history
  <2> QED
    BY <1>1, <2>1, <2>2, FewerClaims DEF Toggling, Claims
<1>5. ASSUME NEW r \in Replies, NEW step \in {"save", "drop", "toggle"}, ReadReply(q, r, step)
      PROVE  OneClaim'
  <2>1. at'[q] = step /\ on'[q] = r /\ held'[q] = IF step = "drop" THEN NoRow ELSE reply[r]
    BY <1>1, <1>5, BeginSets DEF ReadReply
  <2>2. reply' = reply /\ reply[r].exists /\ clash' = (clash \/ \E p \in Requests : Contend(step, p))
    BY <1>5 DEF ReadReply, rows
  <2>3. CASE step = "drop"
    BY <1>1, <2>1, <2>2, <2>3, FewerClaims DEF Toggling, Claims
  <2>4. CASE step # "drop"
    <3> SUFFICES ASSUME ~clash' PROVE OneClaim'
      BY DEF OneClaim
    <3>1. ~clash /\ \A p \in Requests : ~Contend(step, p)
      BY <2>2
    <3>2. \A p \in Requests : at[p] \notin Toggling
      BY <2>4, <3>1 DEF Contend
    <3>3. \A p \in Requests : at'[p] \in Toggling => p = q /\ step = "toggle"
      BY <1>1, <2>1, <2>4, <3>2 DEF Others, Toggling
    <3>4. held'[q] = reply[r]
      BY <2>1, <2>4
    <3>5. Claims' \subseteq Claims
      <4> SUFFICES ASSUME NEW s \in Replies, NEW p \in Requests,
                          at'[p] = "save", on'[p] = s, held'[p].solution
                   PROVE  s \in Claims
        BY <2>2 DEF Claims
      <4>1. CASE p = q
        BY <2>1, <2>2, <3>4, <4>1 DEF Claims
      <4>2. CASE p # q
        BY <1>1, <4>2 DEF Others, Claims
      <4> QED
        BY <4>1, <4>2
    <3>6. step = "toggle" => \A p \in Requests : Contend("toggle", p)' => p = q
      <4> SUFFICES ASSUME step = "toggle", NEW p \in Requests, p # q, Contend("toggle", p)' PROVE FALSE
        OBVIOUS
      <4>1. Contend("toggle", p)
        BY <1>1 DEF Others, Contend
      <4> QED
        BY <3>1, <4>1
    <3>7. \A p \in Requests : at'[p] # "accept"
      BY <2>1, <3>3 DEF Toggling
    <3> QED
      BY <3>1, <3>3, <3>5, <3>6, <3>7 DEF OneClaim
  <2> QED
    BY <2>3, <2>4
<1>6. CASE CountReply(q)
  <2>1. at'[q] \in {"mark", "idle"}
    <3>1. MarkNext(q, held[q]) /\ held[q].shows \in BOOLEAN
      BY <1>1, <1>6, HoldsWhat DEF CountReply
    <3> QED
      BY <1>1, <3>1, MarkSets
  <2>2. reply' = reply /\ clash' = clash
    BY <1>6 DEF CountReply, history
  <2> QED
    BY <1>1, <2>1, <2>2, FewerClaims DEF Toggling, Claims
<1>7. CASE DropReply(q)
  <2>1. at'[q] = "idle"
    BY <1>1, <1>7, EndSets DEF DropReply
  <2>2. \A r \in Replies : reply'[r] = reply[r] \/ ~reply'[r].exists
    BY <1>1, <1>7 DEF DropReply, TypeOK, NoRow
  <2>3. clash' = clash
    BY <1>7 DEF DropReply
  <2>4. \A r \in Replies : reply'[r].exists /\ reply'[r].solution => r \in Claims
    BY <2>2 DEF Claims
  <2> QED
    BY <1>1, <2>1, <2>3, <2>4, FewerClaims DEF Toggling
<1>8. CASE ClearSolution(q)
  <2> SUFFICES ASSUME ~clash' PROVE OneClaim'
    BY DEF OneClaim
  <2>1. at[q] = "toggle" /\ at'[q] = "accept" /\ ~clash
    BY <1>1, <1>8, SignalSets DEF ClearSolution, history
  <2>2. \A p \in Requests : Contend("toggle", p) => p = q
    BY <2>1 DEF OneClaim, Toggling
  <2>3. \A r \in Replies : reply'[r].exists => ~reply'[r].solution
    <3> SUFFICES ASSUME NEW r \in Replies, reply'[r].exists PROVE ~reply'[r].solution
      OBVIOUS
    <3>1. reply[r].exists
      BY <1>8 DEF ClearSolution
    <3>2. reply[r] \in Reply
      BY <1>1, <3>1, RowThere
    <3>3. reply'[r] = [reply[r] EXCEPT !.solution = FALSE]
      BY <1>8, <3>1 DEF ClearSolution
    <3> QED
      BY <3>2, <3>3 DEF Reply
  <2>4. \A p \in Requests : Contend("toggle", p)' => p = q
    <3> SUFFICES ASSUME NEW p \in Requests, p # q, Contend("toggle", p)' PROVE FALSE
      OBVIOUS
    <3>1. Contend("toggle", p)
      BY <1>1 DEF Others, Contend
    <3> QED
      BY <2>2, <3>1
  <2>5. Claims' = {}
    <3> SUFFICES ASSUME NEW p \in Requests, at'[p] = "save", on'[p] \in Replies PROVE FALSE
      BY <2>3 DEF Claims
    <3>1. Contend("toggle", p)'
      BY ForumAssumption DEF Contend
    <3> QED
      BY <2>1, <2>4, <3>1
  <2>6. \A p \in Requests : at'[p] \in Toggling => Contend("toggle", p)'
    BY DEF Contend
  <2> QED
    BY <2>4, <2>5, <2>6 DEF OneClaim
<1>9. CASE SaveSolution(q)
  <2>1. at'[q] \in {"mark", "idle"} /\ on[q] \in Replies /\ at[q] \in Toggling
    <3>1. held[q].shows \in BOOLEAN /\ (MarkNext(q, held[q]) \/ End(q)) /\ on[q] \in Replies /\ at[q] \in Toggling
      BY <1>1, <1>9, HoldsWhat DEF SaveSolution, Toggling
    <3> QED
      BY <1>1, <3>1, MarkSets, EndSets
  <2>2. clash' = clash
    BY <1>9 DEF SaveSolution, history
  <2>3. \/ reply[on[q]].exists /\ reply' = [reply EXCEPT ![on[q]].solution = (at[q] = "accept")]
        \/ reply' = reply
    BY <1>9 DEF SaveSolution
  <2>4. \A r \in Replies \ {on[q]} : reply'[r] = reply[r]
    BY <1>1, <2>3 DEF TypeOK
  <2>5. CASE at[q] = "accept"
    <3> SUFFICES ASSUME ~clash' PROVE OneClaim'
      BY DEF OneClaim
    <3>1. ~clash /\ Claims = {} /\ \A p \in Requests : Contend("toggle", p) => p = q
      BY <2>1, <2>2, <2>5 DEF OneClaim
    <3>2. \A p \in Requests : ~Contend("toggle", p)'
      <4> SUFFICES ASSUME NEW p \in Requests, Contend("toggle", p)' PROVE FALSE
        OBVIOUS
      <4>1. p # q
        BY <2>1 DEF Contend, Toggling
      <4>2. Contend("toggle", p)
        BY <1>1, <4>1 DEF Others, Contend
      <4> QED
        BY <3>1, <4>1, <4>2
    <3>3. Claims' \subseteq {on[q]}
      <4>1. ASSUME NEW r \in Replies, r # on[q], reply'[r].exists, reply'[r].solution PROVE FALSE
        BY <2>4, <3>1, <4>1 DEF Claims
      <4>2. ASSUME NEW p \in Requests, at'[p] = "save", on'[p] \in Replies PROVE FALSE
        <5>1. Contend("toggle", p)'
          BY <4>2, ForumAssumption DEF Contend
        <5> QED
          BY <3>2, <5>1
      <4> QED
        BY <4>1, <4>2 DEF Claims
    <3>4. \A p \in Requests : at'[p] \in Toggling => Contend("toggle", p)'
      BY DEF Contend
    <3>5. \A p \in Requests : at'[p] \notin Toggling
      BY <3>2, <3>4
    <3> QED
      BY <3>3, <3>5 DEF OneClaim, Toggling
  <2>6. CASE at[q] # "accept"
    <3>1. reply'[on[q]].exists => reply'[on[q]] = reply[on[q]] \/ ~reply'[on[q]].solution
      <4>1. CASE reply[on[q]].exists /\ reply' = [reply EXCEPT ![on[q]].solution = (at[q] = "accept")]
        <5>1. reply[on[q]] \in Reply
          BY <1>1, <2>1, <4>1, RowThere
        <5>2. reply'[on[q]] = [reply[on[q]] EXCEPT !.solution = (at[q] = "accept")]
          BY <1>1, <2>1, <4>1 DEF TypeOK
        <5>3. reply'[on[q]] = [reply[on[q]] EXCEPT !.solution = FALSE]
          BY <2>6, <5>2
        <5> QED
          BY <5>1, <5>3 DEF Reply
      <4> QED
        BY <2>3, <4>1
    <3>2. \A r \in Replies : reply'[r].exists /\ reply'[r].solution => reply'[r] = reply[r]
      BY <2>4, <3>1
    <3>3. \A r \in Replies : reply'[r].exists /\ reply'[r].solution => r \in Claims
      BY <3>2 DEF Claims
    <3> QED
      BY <1>1, <2>1, <2>2, <3>3, FewerClaims DEF Toggling
  <2> QED
    BY <2>5, <2>6
<1> QED
  BY <1>2, <1>3, <1>4, <1>5, <1>6, <1>7, <1>8, <1>9 DEF ReplyStep

-----------------------------------------------------------------------------
(* The image. *)

\* A step that shows the image in no post that did not, and takes no signal away.
LEMMA ShowsNoMore ==
    ASSUME Shapes, ImageSafe, NEW q \in Requests, Others(q), UNCHANGED image, late => late',
           topic'.exists /\ topic'.shows => topic.exists /\ topic.shows,
           \A r \in Replies : reply'[r].exists /\ reply'[r].shows => reply[r].exists /\ reply[r].shows,
           at[q] \in {"count", "mark"} /\ held[q].shows
               => late' \/ (at'[q] \in {"count", "mark"} /\ held'[q].shows)
    PROVE  ImageSafe'
<1>1. Shown' => Shown
  BY DEF Shown, Rows
<1>2. Marking => Marking' \/ late'
  BY DEF Others, Marking
<1>3. upload' = upload /\ object' = object /\ sweep' = sweep
  BY DEF image
<1> QED
  BY <1>1, <1>2, <1>3 DEF ImageSafe

\* A post is saved that shows the image; its request goes on to mark it.
LEMMA ShowsNow ==
    ASSUME Shapes, ImageSafe, NEW q \in Requests, UNCHANGED image, MayShow(TRUE), ShownLate(TRUE),
           at'[q] \in {"count", "mark"}, held'[q].shows
    PROVE  ImageSafe'
<1>1. upload # "none" /\ (~late' => sweep = "idle" /\ object)
  BY DEF MayShow, ShownLate, Shapes
<1>2. Marking'
  BY DEF Marking
<1>3. upload' = upload /\ object' = object /\ sweep' = sweep
  BY DEF image
<1> QED
  BY <1>1, <1>2, <1>3 DEF ImageSafe

\* What each save writes decides which of the two it is.
LEMMA TopicImages ==
    ASSUME Shapes, ImageSafe, NEW q \in Requests, TopicStep(q)
    PROVE  ImageSafe'
<1>1. TypeOK /\ ReqShape /\ Others(q)
  BY TopicEffects DEF Shapes
<1>2. ASSUME NEW shows \in BOOLEAN, CreateTopic(q, shows) PROVE ImageSafe'
  <2>1. at[q] = "idle" /\ at'[q] = "count" /\ held'[q] = [shows |-> shows]
    BY <1>1, <1>2, BeginSets DEF CreateTopic
  <2>2. topic'.shows = shows /\ reply' = reply /\ MayShow(shows) /\ ShownLate(shows) /\ UNCHANGED image
    BY <1>2 DEF CreateTopic
  <2>3. CASE shows = TRUE
    <3>1. held'[q].shows
      BY <2>1, <2>3
    <3> QED
      BY <2>1, <2>2, <2>3, <3>1, ShowsNow
  <2>4. CASE shows = FALSE
    <3>1. ~topic'.shows /\ (late => late')
      BY <2>2, <2>4 DEF ShownLate
    <3> QED
      BY <1>1, <2>1, <2>2, <3>1, ShowsNoMore
  <2> QED
    BY <2>3, <2>4
<1>3. ASSUME NEW shows \in BOOLEAN, SaveTopic(q, shows) PROVE ImageSafe'
  <2> DEFINE row == [held[q] EXCEPT !.shows = shows]
  <2>1. held[q] \in Topic /\ at[q] = "save"
    BY <1>1, <1>3, HoldsWhat DEF SaveTopic
  <2>2. row.shows = shows
    BY <2>1 DEF Topic
  <2>3. /\ topic' = row /\ reply' = reply /\ MayShow(shows) /\ ShownLate(shows) /\ UNCHANGED image
        /\ MarkNext(q, row) \/ Signal(q, "count", row)
    BY <1>3 DEF SaveTopic
  <2> HIDE DEF row
  <2>4. CASE shows = TRUE
    <3>1. at'[q] \in {"count", "mark"} /\ held'[q] = [shows |-> TRUE]
      <4>1. row.shows = TRUE
        BY <2>2, <2>4
      <4>2. CASE MarkNext(q, row)
        BY <1>1, <4>1, <4>2, MarkSets
      <4>3. CASE Signal(q, "count", row)
        BY <1>1, <4>1, <4>3, SignalSets
      <4> QED
        BY <2>3, <4>2, <4>3
    <3>2. held'[q].shows
      BY <3>1
    <3> QED
      BY <2>3, <2>4, <3>1, <3>2, ShowsNow
  <2>5. CASE shows = FALSE
    <3>1. ~topic'.shows /\ (late => late')
      BY <2>2, <2>3, <2>5 DEF ShownLate
    <3> QED
      BY <1>1, <2>1, <2>3, <3>1, ShowsNoMore
  <2> QED
    BY <2>4, <2>5
<1>4. CASE CountTopic(q)
  <2>1. MarkNext(q, held[q]) /\ held[q].shows \in BOOLEAN
    BY <1>1, <1>4, HoldsWhat DEF CountTopic
  <2>2. held[q].shows => at'[q] = "mark" /\ held'[q] = [shows |-> TRUE]
    BY <1>1, <2>1, MarkSets
  <2>3. held[q].shows => at'[q] = "mark" /\ held'[q].shows
    BY <2>2
  <2>4. UNCHANGED <<topic, reply, image, late>>
    BY <1>4 DEF CountTopic, history
  <2> QED
    BY <1>1, <2>3, <2>4, ShowsNoMore
<1>5. CASE DropTopic(q)
  <2>1. at[q] = "drop" /\ topic' = NoRow /\ (\A r \in Replies : reply'[r] = NoRow) /\ UNCHANGED <<image, late>>
    BY <1>5 DEF DropTopic
  <2>2. ~topic'.exists /\ \A r \in Replies : ~reply'[r].exists
    BY <2>1 DEF NoRow
  <2> QED
    BY <1>1, <2>1, <2>2, ShowsNoMore
<1>6. CASE \E step \in {"save", "flag", "drop"} : ReadTopic(q, step)
  <2>1. at[q] = "idle" /\ UNCHANGED <<topic, reply, image, late>>
    BY <1>6 DEF ReadTopic, Begin, rows, history
  <2> QED
    BY <1>1, <2>1, ShowsNoMore
<1>7. ASSUME NEW flag \in Flags, SaveFlag(q, flag) PROVE ImageSafe'
  <2>1. at[q] = "flag" /\ UNCHANGED <<reply, image, late>>
    BY <1>7 DEF SaveFlag, history
  <2>2. topic'.exists /\ topic'.shows => topic.exists /\ topic.shows
    <3>1. CASE topic.exists
      <4>1. topic \in Topic
        BY <1>1, <3>1, RowThere
      <4>2. topic' = [topic EXCEPT !.flags = IF flag \in held[q].flags THEN @ \ {flag} ELSE @ \cup {flag}]
        BY <1>7, <3>1 DEF SaveFlag
      <4>3. topic'.shows = topic.shows
        BY <4>1, <4>2 DEF Topic
      <4> QED
        BY <3>1, <4>3
    <3>2. CASE ~topic.exists
      BY <1>7, <3>2 DEF SaveFlag
    <3> QED
      BY <3>1, <3>2
  <2> QED
    BY <1>1, <2>1, <2>2, ShowsNoMore
<1> QED
  BY <1>2, <1>3, <1>4, <1>5, <1>6, <1>7 DEF TopicStep

LEMMA ReplyImages ==
    ASSUME Shapes, ImageSafe, NEW q \in Requests, ReplyStep(q)
    PROVE  ImageSafe'
<1>1. TypeOK /\ ReqShape /\ Others(q)
  BY ReplyEffects DEF Shapes
<1>2. ASSUME NEW shows \in BOOLEAN, InsertReply(q, shows) PROVE ImageSafe'
  <2> DEFINE row == [exists |-> TRUE, solution |-> FALSE, shows |-> shows]
  <2>1. on[q] \in Replies /\ at[q] = "insert"
    BY <1>1, <1>2, HoldsWhat DEF InsertReply
  <2>2. topic' = topic /\ MayShow(shows) /\ UNCHANGED image
    BY <1>2 DEF InsertReply
  <2>3. row.shows = shows
    OBVIOUS
  <2>4. CASE topic.exists
    <3>1. reply' = [reply EXCEPT ![on[q]] = row] /\ Signal(q, "count", row) /\ ShownLate(shows)
      BY <1>2, <2>4 DEF InsertReply
    <3> HIDE DEF row
    <3>2. at'[q] = "count" /\ held'[q] = [shows |-> shows]
      BY <1>1, <2>3, <3>1, SignalSets
    <3>3. CASE shows = TRUE
      <4>1. held'[q].shows
        BY <3>2, <3>3
      <4> QED
        BY <2>2, <3>1, <3>2, <3>3, <4>1, ShowsNow
    <3>4. CASE shows = FALSE
      <4>1. \A r \in Replies : reply'[r] = reply[r] \/ ~reply'[r].shows
        BY <1>1, <2>3, <3>1, <3>4 DEF TypeOK
      <4>2. late => late'
        BY <3>1 DEF ShownLate
      <4> QED
        BY <1>1, <2>1, <2>2, <4>1, <4>2, ShowsNoMore
    <3> QED
      BY <3>3, <3>4
  <2>5. CASE ~topic.exists
    <3>1. reply' = reply /\ late' = late
      BY <1>2, <2>5 DEF InsertReply
    <3> QED
      BY <1>1, <2>1, <2>2, <3>1, ShowsNoMore
  <2> QED
    BY <2>4, <2>5
<1>3. ASSUME NEW shows \in BOOLEAN, SaveReply(q, shows) PROVE ImageSafe'
  <2> DEFINE row == [held[q] EXCEPT !.shows = shows]
  <2>1. on[q] \in Replies /\ held[q] \in Reply /\ at[q] = "save"
    BY <1>1, <1>3, HoldsWhat DEF SaveReply
  <2>2. topic' = topic /\ MayShow(shows) /\ UNCHANGED image
    BY <1>3 DEF SaveReply
  <2>3. row.shows = shows
    BY <2>1 DEF Reply
  <2>4. CASE topic.exists
    <3>1. /\ reply' = [reply EXCEPT ![on[q]] = row] /\ ShownLate(shows)
          /\ MarkNext(q, row) \/ Signal(q, "count", row)
      BY <1>3, <2>4 DEF SaveReply
    <3> HIDE DEF row
    <3>2. CASE shows = TRUE
      <4>1. at'[q] \in {"count", "mark"} /\ held'[q] = [shows |-> TRUE]
        <5>1. row.shows = TRUE
          BY <2>3, <3>2
        <5>2. CASE MarkNext(q, row)
          BY <1>1, <5>1, <5>2, MarkSets
        <5>3. CASE Signal(q, "count", row)
          BY <1>1, <5>1, <5>3, SignalSets
        <5> QED
          BY <3>1, <5>2, <5>3
      <4>2. held'[q].shows
        BY <4>1
      <4> QED
        BY <2>2, <3>1, <3>2, <4>1, <4>2, ShowsNow
    <3>3. CASE shows = FALSE
      <4>1. \A r \in Replies : reply'[r] = reply[r] \/ ~reply'[r].shows
        BY <1>1, <2>3, <3>1, <3>3 DEF TypeOK
      <4>2. late => late'
        BY <3>1 DEF ShownLate
      <4> QED
        BY <1>1, <2>1, <2>2, <4>1, <4>2, ShowsNoMore
    <3> QED
      BY <3>2, <3>3
  <2>5. CASE ~topic.exists
    <3>1. reply' = reply /\ late' = late
      BY <1>3, <2>5 DEF SaveReply
    <3> QED
      BY <1>1, <2>1, <2>2, <3>1, ShowsNoMore
  <2> QED
    BY <2>4, <2>5
<1>4. CASE \E r \in Replies : BeginReply(q, r) \/ \E step \in {"save", "drop", "toggle"} : ReadReply(q, r, step)
  <2>1. at[q] = "idle" /\ UNCHANGED <<topic, reply, image, late>>
    BY <1>4 DEF BeginReply, ReadReply, Begin, rows, history
  <2> QED
    BY <1>1, <2>1, ShowsNoMore
<1>5. CASE CountReply(q)
  <2>1. MarkNext(q, held[q]) /\ held[q].shows \in BOOLEAN
    BY <1>1, <1>5, HoldsWhat DEF CountReply
  <2>2. held[q].shows => at'[q] = "mark" /\ held'[q] = [shows |-> TRUE]
    BY <1>1, <2>1, MarkSets
  <2>3. held[q].shows => at'[q] = "mark" /\ held'[q].shows
    BY <2>2
  <2>4. UNCHANGED <<reply, image, late>>
    BY <1>5 DEF CountReply, history
  <2>5. topic'.exists /\ topic'.shows => topic.exists /\ topic.shows
    <3>1. CASE topic.exists
      <4>1. topic \in Topic
        BY <1>1, <3>1, RowThere
      <4>2. topic' = [topic EXCEPT !.replies_count = @ + 1]
        BY <1>5, <3>1 DEF CountReply
      <4>3. topic'.shows = topic.shows
        BY <4>1, <4>2 DEF Topic
      <4> QED
        BY <3>1, <4>3
    <3>2. CASE ~topic.exists
      BY <1>5, <3>2 DEF CountReply
    <3> QED
      BY <3>1, <3>2
  <2> QED
    BY <1>1, <2>3, <2>4, <2>5, ShowsNoMore
<1>6. CASE DropReply(q)
  <2>1. /\ at[q] = "drop" /\ UNCHANGED <<image, late>>
        /\ \A r \in Replies : reply'[r] = reply[r] \/ reply'[r] = NoRow
    BY <1>1, <1>6 DEF DropReply, TypeOK
  <2>2. \A r \in Replies : reply'[r].exists /\ reply'[r].shows => reply[r].exists /\ reply[r].shows
    BY <2>1 DEF NoRow
  <2>3. topic'.exists /\ topic'.shows => topic.exists /\ topic.shows
    <3>1. CASE topic.exists /\ topic.replies_count > 0
      <4>1. topic \in Topic
        BY <1>1, <3>1, RowThere
      <4>2. topic' = [topic EXCEPT !.replies_count = @ - 1]
        BY <1>6, <3>1 DEF DropReply
      <4>3. topic'.shows = topic.shows
        BY <4>1, <4>2 DEF Topic
      <4> QED
        BY <3>1, <4>3
    <3>2. CASE ~(topic.exists /\ topic.replies_count > 0)
      BY <1>6, <3>2 DEF DropReply
    <3> QED
      BY <3>1, <3>2
  <2> QED
    BY <1>1, <2>1, <2>2, <2>3, ShowsNoMore
<1>7. CASE ClearSolution(q)
  <2>1. at[q] = "toggle" /\ UNCHANGED <<topic, image, late>>
    BY <1>7 DEF ClearSolution, history
  <2>2. \A r \in Replies : reply'[r].exists /\ reply'[r].shows => reply[r].exists /\ reply[r].shows
    <3> SUFFICES ASSUME NEW r \in Replies, reply[r].exists
                 PROVE  reply'[r].exists /\ reply'[r].shows => reply[r].exists /\ reply[r].shows
      BY <1>7 DEF ClearSolution
    <3>1. reply[r] \in Reply
      BY <1>1, RowThere
    <3>2. reply'[r] = [reply[r] EXCEPT !.solution = FALSE]
      BY <1>7 DEF ClearSolution
    <3>3. reply'[r].shows = reply[r].shows
      BY <3>1, <3>2 DEF Reply
    <3> QED
      BY <3>3
  <2> QED
    BY <1>1, <2>1, <2>2, ShowsNoMore
<1>8. CASE SaveSolution(q)
  <2>1. at[q] \in Toggling /\ on[q] \in Replies /\ UNCHANGED <<topic, image, late>>
    BY <1>1, <1>8, HoldsWhat DEF SaveSolution, history, Toggling
  <2>2. \/ reply[on[q]].exists /\ reply' = [reply EXCEPT ![on[q]].solution = (at[q] = "accept")]
        \/ reply' = reply
    BY <1>8 DEF SaveSolution
  <2>3. \A r \in Replies : reply'[r].exists /\ reply'[r].shows => reply[r].exists /\ reply[r].shows
    <3>1. CASE reply[on[q]].exists /\ reply' = [reply EXCEPT ![on[q]].solution = (at[q] = "accept")]
      <4>1. reply[on[q]] \in Reply
        BY <1>1, <2>1, <3>1, RowThere
      <4>2. reply'[on[q]] = [reply[on[q]] EXCEPT !.solution = (at[q] = "accept")]
        BY <1>1, <2>1, <3>1 DEF TypeOK
      <4>3. reply'[on[q]].shows = reply[on[q]].shows
        BY <4>1, <4>2 DEF Reply
      <4>4. \A r \in Replies \ {on[q]} : reply'[r] = reply[r]
        BY <1>1, <3>1 DEF TypeOK
      <4> QED
        BY <3>1, <4>3, <4>4
    <3> QED
      BY <2>2, <3>1
  <2> QED
    BY <1>1, <2>1, <2>3, ShowsNoMore DEF Toggling
<1> QED
  BY <1>2, <1>3, <1>4, <1>5, <1>6, <1>7, <1>8 DEF ReplyStep

\* A signal that runs or is killed, and the sweep.
LEMMA SweepImages ==
    ASSUME Shapes, ImageSafe, (\E q \in Requests : EndStep(q)) \/ ImageStep
    PROVE  ImageSafe'
<1>1. TypeOK /\ ReqShape
  BY DEF Shapes
<1>2. ASSUME NEW q \in Requests, MarkUsed(q) PROVE ImageSafe'
  <2>1. Others(q) /\ UNCHANGED <<topic, reply, object, sweep, late>> /\ at[q] = "mark"
    BY <1>1, <1>2, EndSets DEF MarkUsed, rows, history
  <2>2. upload' = IF held[q].shows /\ upload = "fresh" THEN "used" ELSE upload
    BY <1>2 DEF MarkUsed
  <2>3. Shown' <=> Shown
    BY <2>1 DEF Shown, Rows
  <2>4. upload' = "none" => upload = "none"
    BY <2>2
  <2>5. Marking /\ upload' = "fresh" => Marking'
    <3> SUFFICES ASSUME NEW p \in Requests, at[p] \in {"count", "mark"}, held[p].shows, upload' = "fresh"
                 PROVE  Marking'
      BY DEF Marking
    <3>1. p # q
      BY <2>2
    <3> QED
      BY <2>1, <3>1 DEF Others, Marking
  <2>6. upload' = "fresh" => upload = "fresh"
    BY <2>2
  <2> QED
    BY <2>1, <2>3, <2>4, <2>5, <2>6 DEF ImageSafe
<1>3. ASSUME NEW q \in Requests, Kill(q) PROVE ImageSafe'
  <2>1. Others(q) /\ UNCHANGED <<topic, reply, image>> /\ at[q] \in {"count", "mark"}
    BY <1>1, <1>3, EndSets DEF Kill, rows
  <2>2. late' = (late \/ held[q].shows)
    BY <1>3 DEF Kill
  <2> QED
    BY <1>1, <2>1, <2>2, ShowsNoMore
<1>4. CASE UploadImage
  <2>1. upload = "none" /\ upload' = "fresh" /\ UNCHANGED <<topic, reply, sweep>>
    BY <1>4 DEF UploadImage, rows
  <2>2. ~Shown'
    BY <2>1 DEF ImageSafe, Shown, Rows
  <2> QED
    BY <2>1, <2>2 DEF ImageSafe
<1>5. CASE ListOrphans
  <2>1. upload = "fresh" /\ upload' = upload /\ UNCHANGED <<topic, reply>>
    BY <1>5 DEF ListOrphans, Orphan, rows
  <2>2. late' = (late \/ Marking)
    BY <1>5 DEF ListOrphans, Marking
  <2>3. Shown' => Shown
    BY <2>1 DEF Shown, Rows
  <2> QED
    BY <2>1, <2>2, <2>3 DEF ImageSafe
<1>6. CASE DeleteObject \/ DeleteRecord
  <2>1. sweep # "idle" /\ (upload' = upload \/ upload' = "gone") /\ UNCHANGED <<topic, reply, late>>
    BY <1>6 DEF DeleteObject, DeleteRecord, rows, history
  <2>2. Shown' => Shown
    BY <2>1 DEF Shown, Rows
  <2> QED
    BY <2>1, <2>2 DEF ImageSafe
<1> QED
  BY <1>2, <1>3, <1>4, <1>5, <1>6 DEF EndStep, ImageStep

-----------------------------------------------------------------------------
(* The theorems. *)

LEMMA InitHolds == Init => IInv
<1> SUFFICES ASSUME Init PROVE IInv
  OBVIOUS
<1>1. topic = NotYet /\ ~topic.exists
  BY DEF Init, NotYet
<1>2. \A r \in Replies : reply[r] = NoRow
  BY DEF Init
<1>3. \A r \in Replies : ~reply[r].exists
  BY <1>2 DEF NoRow
<1>4. \A q \in Requests : at[q] = "idle" /\ on[q] = "topic" /\ held[q] = NoRow
  BY DEF Init
<1>5. Rows = {} /\ Uncounted = {} /\ TopicUncounted = {} /\ Claims = {} /\ ~Shown
  <2>1. Rows = {}
    BY <1>3 DEF Rows
  <2>2. Uncounted = {} /\ TopicUncounted = {}
    BY <1>4 DEF Uncounted, TopicUncounted
  <2>3. Claims = {}
    BY <1>3, <1>4 DEF Claims
  <2> QED
    BY <1>1, <2>1, <2>2, <2>3 DEF Shown
<1>6. Shapes
  <2>1. ReqShape
    BY <1>4 DEF Init, ReqShape, Holds
  <2>2. TypeOK
    BY DEF Init, TypeOK, Uploads
  <2> QED
    BY <2>1, <2>2 DEF Shapes, Init
<1>7. Unborn
  BY <1>3, <1>4 DEF Unborn
<1>8. InsertsAlone
  BY <1>4 DEF InsertsAlone
<1>9. CountInv
  <2>1. IsFiniteSet({}) /\ Cardinality({}) = 0
    BY FS_EmptySet
  <2>2. Balanced
    BY <1>1, <1>5, <2>1 DEF Balanced, Init
  <2>3. RepliesOwed
    BY <1>5 DEF RepliesOwed
  <2> QED
    BY <1>5, <2>1, <2>2, <2>3 DEF CountInv
<1>10. OneClaim
  BY <1>4, <1>5 DEF OneClaim, Toggling
<1>11. ImageSafe
  BY <1>5 DEF ImageSafe, Init
<1> QED
  BY <1>6, <1>7, <1>8, <1>9, <1>10, <1>11 DEF IInv

\* A step of the image, or none, leaves rows and requests as they were.
LEMMA RestKept ==
    ASSUME IInv, ImageStep \/ UNCHANGED vars
    PROVE  Unborn' /\ InsertsAlone' /\ CountInv' /\ OneClaim'
<1>1. UNCHANGED <<topic, reply, topics_count, at, on, held, drift, clash>>
  BY DEF ImageStep, UploadImage, ListOrphans, DeleteObject, DeleteRecord, vars, rows, request, history
<1>2. Uncounted' = Uncounted /\ TopicUncounted' = TopicUncounted /\ Rows' = Rows /\ Claims' = Claims
  BY <1>1 DEF Uncounted, TopicUncounted, Rows, Claims
<1>3. Unborn' /\ InsertsAlone'
  BY <1>1 DEF IInv, Unborn, InsertsAlone
<1>4. CountInv'
  BY <1>1, <1>2 DEF IInv, CountInv, RepliesOwed, Balanced
<1>5. OneClaim'
  BY <1>1, <1>2 DEF IInv, OneClaim, Contend
<1> QED
  BY <1>3, <1>4, <1>5

LEMMA NextKeeps == IInv /\ [Next]_vars => IInv'
<1> SUFFICES ASSUME IInv, [Next]_vars PROVE IInv'
  OBVIOUS
<1>1. Shapes /\ Shapes' /\ Unborn /\ InsertsAlone /\ CountInv /\ OneClaim /\ ImageSafe
  BY ShapesKept DEF IInv
<1>2. ASSUME NEW q \in Requests, TopicStep(q) \/ ReplyStep(q) \/ EndStep(q) PROVE IInv'
  <2>1. Unborn' /\ InsertsAlone'
    BY <1>1, <1>2, Effects, UnbornKept, InsertsAloneKept
  <2>2. CountInv'
    BY <1>1, <1>2, CountsKept
  <2>3. OneClaim'
    BY <1>1, <1>2, TopicClaims, ReplyClaims
  <2>4. ImageSafe'
    BY <1>1, <1>2, TopicImages, ReplyImages, SweepImages
  <2> QED
    BY <1>1, <2>1, <2>2, <2>3, <2>4 DEF IInv
<1>3. CASE ImageStep
  BY <1>1, <1>3, RestKept, SweepImages DEF IInv
<1>4. CASE UNCHANGED vars
  <2>1. ImageSafe'
    BY <1>1, <1>4 DEF vars, rows, request, image, history, ImageSafe, Shown, Rows, Marking
  <2> QED
    BY <1>1, <1>4, <2>1, RestKept DEF IInv
<1> QED
  BY <1>2, <1>3, <1>4, NextSteps

\* The three properties are about every reachable state: requests that read and write apart,
\* signals that run after the save or never, the sweep (apps/forum).
THEOREM InvariantHolds == Spec => []IInv
BY InitHolds, NextKeeps, PTL DEF Spec

\* The counters the signals keep (forum/signals.py) agree with the rows, less what is still owed,
\* whatever the requests do, unless a stale edit, a double deletion or a kill came between.
THEOREM CountersTheorem == Spec => []CountersMatch
<1>1. IInv => CountersMatch
  BY DEF IInv, Shapes, CountInv, Balanced, TopicUncounted, CountersMatch
<1> QED
  BY <1>1, InvariantHolds, PTL

\* ReplyToggleSolutionView.post leaves a topic with one solution at most, unless a toggle
\* overlapped another one or the edit of a reply.
THEOREM SolutionTheorem == Spec => []OneSolution
<1>1. IInv => OneSolution
  <2> SUFFICES ASSUME IInv, ~clash PROVE Cardinality({r \in Rows : reply[r].solution}) <= 1
    BY DEF OneSolution
  <2> DEFINE S == {r \in Rows : reply[r].solution}
  <2>1. \A r, s \in S : r = s
    BY DEF IInv, OneClaim, Claims, Rows
  <2>2. CASE S = {}
    BY <2>2, FS_EmptySet
  <2>3. CASE S # {}
    <3>1. PICK r \in S : TRUE
      BY <2>3
    <3>2. S = {r}
      BY <2>1, <3>1
    <3>3. Cardinality({r}) = 1
      BY FS_Singleton
    <3> QED
      BY <3>2, <3>3
  <2> QED
    BY <2>2, <2>3
<1> QED
  BY <1>1, InvariantHolds, PTL

\* cleanup_forum_orphan_uploads takes no image a post shows, unless the post was saved too late
\* for it, or its signal was.
THEOREM ImageTheorem == Spec => []ShownImageKept
<1>1. IInv => ShownImageKept
  BY DEF IInv, ImageSafe, ShownImageKept
<1> QED
  BY <1>1, InvariantHolds, PTL
=============================================================================
