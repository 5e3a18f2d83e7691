------------------------- MODULE RenderPipelineProofs -------------------------
(***************************************************************************)
(* Proofs about RenderPipeline and RenderStream for every number of        *)
(* renders, every quota, every number of retries, of redeliveries and of   *)
(* streams.                                                                *)
(***************************************************************************)
EXTENDS RenderStream, TLAPS

USE PipelineAssumption

\* The kinds of value the definitions below range over.
LEMMA DeliveryParts ==
    ASSUME NEW d \in Deliveries
    PROVE  d[1] \in Renders /\ d[2] \in Copies /\ d = <<d[1], d[2]>>
  BY DEF Deliveries

LEMMA FirstCopy ==
    ASSUME NEW r \in Renders
    PROVE  <<r, 0>> \in Deliveries
  BY DEF Deliveries, Copies

-----------------------------------------------------------------------------
\* Types: every action of the pipeline keeps the variables in their ranges.
THEOREM TypeCorrect == Spec => []TypeOK
<1>1. Init => TypeOK
  BY DEF Init, TypeOK, NoRow, RowStatus, TaskStates, Deliveries, Copies
<1>2. TypeOK /\ [Next]_vars => TypeOK'
  <2> SUFFICES ASSUME TypeOK, [Next]_vars PROVE TypeOK'
    OBVIOUS
  <2> USE DEF TypeOK
  <2>1. CASE \E r \in Renders : PostStep(r)
    <3> PICK r \in Renders : PostStep(r)
      BY <2>1
    <3> USE FirstCopy
    <3>1. QED
      BY DEF PostStep, Admit, InsertRow, AttachSketch, Enqueue, AbortPost, PostSteps,
             RowStatus, Live, TaskStates
  <2>2. CASE \E r \in Renders, c \in Copies : Redeliver(r, c)
    <3> PICK r \in Renders, c \in Copies : Redeliver(r, c)
      BY <2>2
    <3>1. <<r, c>> \in Deliveries /\ <<r, c + 1>> \in Deliveries
      BY DEF Redeliver, Deliveries
    <3>2. QED
      BY <3>1 DEF Redeliver, TaskStates
  <2>3. CASE \E d \in Deliveries : Execute(d) \/ Lose(d)
    <3> PICK d \in Deliveries : Execute(d) \/ Lose(d)
      BY <2>3
    <3> USE DeliveryParts
    <3>1. status' \in [Renders -> RowStatus \cup NoRow]
      BY DEF Execute, Lose, Pickup, MarkProcessing, Generate, ProviderFails, StoreResult,
             Charge, UnexpectedError, MarkFailed, RowStatus, Live, Terminal
    <3>2. task' \in [Deliveries -> TaskStates]
      BY DEF Execute, Lose, Pickup, MarkProcessing, Generate, ProviderFails, StoreResult,
             Charge, UnexpectedError, MarkFailed, Goto, TaskStates, Running
    <3>3. retries' \in [Deliveries -> 0 .. MaxRetries]
      <4>1. CASE UnexpectedError(d)
        BY <4>1 DEF UnexpectedError
      <4>2. CASE ~UnexpectedError(d)
        BY <4>2 DEF Execute, Lose, Pickup, MarkProcessing, Generate, ProviderFails,
                    StoreResult, Charge, MarkFailed
      <4>3. QED
        BY <4>1, <4>2
    <3>4. image' \in SUBSET Renders /\ used' \in Nat /\ charged' \in SUBSET Deliveries
      BY DEF Execute, Lose, Pickup, MarkProcessing, Generate, ProviderFails, StoreResult,
             Charge, UnexpectedError, MarkFailed
    <3>5. UNCHANGED <<post, edits, overwritten>>
      BY DEF Execute, Lose, Pickup, MarkProcessing, Generate, ProviderFails, StoreResult,
             Charge, UnexpectedError, MarkFailed
    <3>6. QED
      BY <3>1, <3>2, <3>3, <3>4, <3>5
  <2>4. CASE \E r \in Renders : DeleteRow(r) \/ LoadForRename(r)
    <3> PICK r \in Renders : DeleteRow(r) \/ LoadForRename(r)
      BY <2>4
    <3>1. CASE DeleteRow(r)
      BY <3>1 DEF DeleteRow, NoRow
    <3>2. CASE LoadForRename(r)
      <4> DEFINE e == [render |-> r, status |-> status[r], image |-> r \in image]
      <4>1. (r \in image) \in BOOLEAN
        OBVIOUS
      <4>2. status[r] \in RowStatus
        BY <3>2 DEF LoadForRename, Exists
      <4>3. e \in Rows
        BY <4>1, <4>2 DEF Rows
      <4>4. edits' = edits \cup {e}
        BY <3>2 DEF LoadForRename
      <4> HIDE DEF e
      <4>5. QED
        BY <3>2, <4>3, <4>4 DEF LoadForRename
    <3>3. QED
      BY <3>1, <3>2
  <2>5. CASE \E e \in edits : SaveRename(e)
    <3> PICK e \in edits : SaveRename(e)
      BY <2>5
    <3>1. e.render \in Renders /\ e.status \in RowStatus /\ e.image \in BOOLEAN
      BY DEF Rows
    <3>2. QED
      BY <3>1 DEF SaveRename
  <2>6. CASE ResetMonth
    BY <2>6 DEF ResetMonth
  <2>7. CASE UNCHANGED vars
    BY <2>7 DEF vars
  <2>8. QED
    BY <2>1, <2>2, <2>3, <2>4, <2>5, <2>6, <2>7 DEF Next
<1>3. QED
  BY <1>1, <1>2, PTL DEF Spec

-----------------------------------------------------------------------------
(* The inductive invariant.  Each part says what a step may rely on when it *)
(* writes a row that another handler may have changed since it was read.    *)

\* A delivery exists only once the POST that created its render has finished.
PublishedRow ==
    /\ \A r \in Renders : post[r] \in {"attach", "enqueue"} => status[r] # "unborn"
    /\ \A d \in Deliveries :
          task[d] # "none" => /\ post[d[1]] = "over"
                             /\ status[d[1]] # "unborn"
                             /\ task[<<d[1], 0>>] # "none"

\* No copy of a row reaches a verdict before its POST is over.
Unpublished ==
    \A r \in Renders : post[r] # "over" =>
        /\ status[r] \notin Terminal
        /\ \A e \in edits : e.render = r => e.status \notin Terminal

\* Counting is the last thing a delivery does.
ChargedIsOver == \A d \in charged : task[d] = "over"

\* Rows held in memory by PATCH requests satisfy DoneHasImage too.
EditHasImage == \A e \in edits : e.status = "done" => e.image

\* Where the row of a render handled by one delivery can be at each of its steps.
SoloProgress ==
    \A r \in Renders : Solo(r) =>
        /\ task[<<r, 0>>] \in {"start", "generate", "store"}
              => status[r] \in Live \cup {"deleted"}
        /\ task[<<r, 0>>] = "charge" => status[r] \in {"done", "deleted"}
        /\ <<r, 0>> \in charged => status[r] \in {"done", "deleted"}

\* Some delivery still owes a live row its verdict, or was lost with it.
Owing == {"queued", "start", "generate", "store", "fail", "lost"}

VerdictOwed ==
    \A r \in Renders :
        (task[<<r, 0>>] # "none" /\ r \notin overwritten /\ status[r] \in Live)
        => \E c \in Copies : task[<<r, c>>] \in Owing

IInv ==
    /\ PublishedRow
    /\ Unpublished
    /\ ChargedIsOver
    /\ DoneHasImage
    /\ EditHasImage
    /\ SoloProgress
    /\ VerdictOwed

\* The invariant holds of an account that has no render yet.
LEMMA InitInv == Init => IInv
  BY DeliveryParts, FirstCopy
     DEF Init, IInv, PublishedRow, Unpublished, Terminal, ChargedIsOver, DoneHasImage, EditHasImage, SoloProgress,
         VerdictOwed, Solo

\* A POST step touches only a render none of whose deliveries exists yet.
LEMMA PostStepInv ==
    ASSUME TypeOK, IInv, NEW r \in Renders, PostStep(r)
    PROVE  IInv'
<1> USE FirstCopy DEF IInv, TypeOK
<1>1. task[<<r, 0>>] = "none" /\ \A c \in Copies : task[<<r, c>>] = "none"
  <2>1. post[r] # "over"
    BY DEF PostStep, Admit, InsertRow, AttachSketch, Enqueue, AbortPost, PostSteps
  <2>2. \A c \in Copies : <<r, c>> \in Deliveries
    BY DEF Deliveries
  <2>3. QED
    BY <2>1, <2>2 DEF PublishedRow
<1>2. \A c \in Copies : <<r, c>> \notin charged
  BY <1>1 DEF ChargedIsOver
<1>3. /\ \A q \in Renders \ {r} : status'[q] = status[q] /\ post'[q] = post[q]
      /\ \A d \in Deliveries : d # <<r, 0>> => task'[d] = task[d]
      /\ UNCHANGED <<retries, edits, charged, overwritten, used>>
  BY DEF PostStep, Admit, InsertRow, AttachSketch, Enqueue, AbortPost
<1>4. status'[r] \in {status[r], "pending"} /\ task'[<<r, 0>>] \in {"none", "queued"}
  BY <1>1 DEF PostStep, Admit, InsertRow, AttachSketch, Enqueue, AbortPost
<1>5. PublishedRow'
  <2>1. ASSUME NEW q \in Renders, post'[q] \in {"attach", "enqueue"}
        PROVE  status'[q] # "unborn"
    BY <1>3, <2>1
       DEF PublishedRow, PostStep, Admit, InsertRow, AttachSketch, Enqueue, AbortPost
  <2>2. ASSUME NEW d \in Deliveries, task'[d] # "none"
        PROVE  post'[d[1]] = "over" /\ status'[d[1]] # "unborn" /\ task'[<<d[1], 0>>] # "none"
    <3>1. CASE d[1] = r
      <4>1. d = <<r, 0>>
        BY <1>1, <1>3, <2>2, <3>1, DeliveryParts
      <4>2. Enqueue(r)
        BY <1>1, <2>2, <4>1 DEF PostStep, Admit, InsertRow, AttachSketch, AbortPost
      <4>3. QED
        BY <2>2, <4>1, <4>2 DEF Enqueue, PublishedRow
    <3>2. CASE d[1] # r
      <4>1. d # <<r, 0>> /\ <<d[1], 0>> # <<r, 0>> /\ <<d[1], 0>> \in Deliveries
        BY <3>2, DeliveryParts
      <4>2. QED
        BY <1>3, <2>2, <3>2, <4>1, DeliveryParts DEF PublishedRow
    <3>3. QED
      BY <3>1, <3>2
  <2>3. QED
    BY <2>1, <2>2 DEF PublishedRow
<1>6. ChargedIsOver'
  BY <1>2, <1>3, DeliveryParts DEF ChargedIsOver, Copies
<1>7. DoneHasImage'
  BY <1>3, <1>4
     DEF DoneHasImage, PostStep, Admit, InsertRow, AttachSketch, Enqueue, AbortPost
<1>8. EditHasImage'
  BY <1>3 DEF EditHasImage
<1>9. SoloProgress'
  <2>1. ASSUME NEW q \in Renders, Solo(q)'
        PROVE  /\ task'[<<q, 0>>] \in {"start", "generate", "store"}
                     => status'[q] \in Live \cup {"deleted"}
               /\ task'[<<q, 0>>] = "charge" => status'[q] \in {"done", "deleted"}
               /\ <<q, 0>> \in charged' => status'[q] \in {"done", "deleted"}
    <3>1. CASE q = r
      BY <1>2, <1>3, <1>4, <3>1 DEF Copies
    <3>2. CASE q # r
      <4>1. Solo(q)
        <5>1. \A c \in Copies : <<q, c>> \in Deliveries /\ <<q, c>> # <<r, 0>>
          BY <3>2 DEF Deliveries
        <5>2. QED
          BY <1>3, <2>1, <5>1 DEF Solo
      <4>2. QED
        BY <1>3, <3>2, <4>1 DEF SoloProgress
    <3>3. QED
      BY <3>1, <3>2
  <2>2. QED
    BY <2>1 DEF SoloProgress
<1>10. VerdictOwed'
  <2>1. ASSUME NEW q \in Renders, task'[<<q, 0>>] # "none", q \notin overwritten',
               status'[q] \in Live
        PROVE  \E c \in Copies : task'[<<q, c>>] \in Owing
    <3>1. CASE q = r
      <4>1. task'[<<r, 0>>] \in Owing
        BY <1>4, <2>1, <3>1 DEF Owing
      <4>2. QED
        BY <3>1, <4>1 DEF Copies
    <3>2. CASE q # r
      <4>1. PICK c \in Copies : task[<<q, c>>] \in Owing
        BY <1>3, <2>1, <3>2 DEF VerdictOwed
      <4>2. task'[<<q, c>>] = task[<<q, c>>]
        BY <1>3, <3>2 DEF Deliveries
      <4>3. QED
        BY <4>1, <4>2
    <3>3. QED
      BY <3>1, <3>2
  <2>2. QED
    BY <2>1 DEF VerdictOwed
<1>11. Unpublished'
  BY <1>3, <1>4
     DEF Unpublished, Terminal, PostStep, Admit, InsertRow, AttachSketch, Enqueue, AbortPost,
         PostSteps
<1>12. QED
  BY <1>5, <1>6, <1>7, <1>8, <1>9, <1>10, <1>11

\* A retried or duplicated message exists only for a published render, and starting
\* it again changes no row.
LEMMA RedeliverInv ==
    ASSUME TypeOK, IInv, NEW r \in Renders, NEW c \in Copies, Redeliver(r, c)
    PROVE  IInv'
<1> USE DEF IInv, TypeOK
<1>1. /\ <<r, c>> \in Deliveries /\ <<r, c + 1>> \in Deliveries /\ c + 1 # 0
      /\ <<r, c>>[1] = r /\ <<r, c + 1>>[1] = r
  BY DEF Redeliver, Deliveries, Copies
<1>2. /\ UNCHANGED <<status, image, used, post, edits, charged, overwritten>>
      /\ \A f \in Deliveries : f # <<r, c + 1>> => task'[f] = task[f]
      /\ task[<<r, c>>] = "queued" /\ task[<<r, c + 1>>] = "none"
      /\ task'[<<r, c + 1>>] = "queued"
  BY <1>1 DEF Redeliver
<1>3. PublishedRow'
  <2>1. ASSUME NEW f \in Deliveries, task'[f] # "none"
        PROVE  post'[f[1]] = "over" /\ status'[f[1]] # "unborn" /\ task'[<<f[1], 0>>] # "none"
    <3>1. post[f[1]] = "over" /\ status[f[1]] # "unborn" /\ task[<<f[1], 0>>] # "none"
      BY <1>1, <1>2, <2>1 DEF PublishedRow
    <3>2. <<f[1], 0>> \in Deliveries /\ <<f[1], 0>> # <<r, c + 1>>
      BY <1>1, DeliveryParts, FirstCopy
    <3>3. QED
      BY <1>2, <3>1, <3>2
  <2>2. QED
    BY <1>2, <2>1 DEF PublishedRow
<1>4. Unpublished' /\ ChargedIsOver' /\ DoneHasImage' /\ EditHasImage'
  BY <1>1, <1>2 DEF Unpublished, ChargedIsOver, DoneHasImage, EditHasImage
<1>5. \A q \in Renders : <<q, 0>> \in Deliveries /\ task'[<<q, 0>>] = task[<<q, 0>>]
  BY <1>1, <1>2, FirstCopy
<1>6. SoloProgress'
  <2>1. ASSUME NEW q \in Renders, Solo(q)' PROVE Solo(q)
    <3>1. \A b \in Copies \ {0} : <<q, b>> \in Deliveries
      BY DEF Deliveries
    <3>2. QED
      BY <1>2, <2>1, <3>1 DEF Solo
  <2>2. QED
    BY <1>2, <1>5, <2>1 DEF SoloProgress
<1>7. VerdictOwed'
  <2>1. ASSUME NEW q \in Renders, task'[<<q, 0>>] # "none", q \notin overwritten',
               status'[q] \in Live
        PROVE  \E b \in Copies : task'[<<q, b>>] \in Owing
    <3>1. PICK b \in Copies : task[<<q, b>>] \in Owing
      BY <1>2, <1>5, <2>1 DEF VerdictOwed
    <3>2. <<q, b>> \in Deliveries /\ <<q, b>> # <<r, c + 1>>
      BY <1>2, <3>1 DEF Deliveries, Owing
    <3>3. QED
      BY <1>2, <3>1, <3>2
  <2>2. QED
    BY <2>1 DEF VerdictOwed
<1>8. QED
  BY <1>3, <1>4, <1>6, <1>7

\* What any step of a delivery leaves alone.
LEMMA DeliveryFrame ==
    ASSUME TypeOK, NEW d \in Deliveries, Execute(d) \/ Lose(d)
    PROVE  /\ UNCHANGED <<post, edits, overwritten>>
           /\ \A q \in Renders : q # d[1] => /\ status'[q] = status[q]
                                             /\ q \in image' <=> q \in image
           /\ \A f \in Deliveries : f # d => task'[f] = task[f]
           /\ charged \subseteq charged' /\ charged' \subseteq charged \cup {d}
           /\ task[d] \in Running \cup {"queued"}
           /\ task'[d] \in TaskStates \ {"none"}
           /\ status'[d[1]] \in {status[d[1]], "processing", "done", "failed"}
<1> USE DeliveryParts DEF TypeOK
<1>1. /\ UNCHANGED <<post, edits, overwritten>>
      /\ charged \subseteq charged' /\ charged' \subseteq charged \cup {d}
  BY DEF Execute, Lose, Pickup, MarkProcessing, Generate, ProviderFails, StoreResult,
         Charge, UnexpectedError, MarkFailed
<1>2. /\ \A q \in Renders : q # d[1] => /\ status'[q] = status[q]
                                        /\ q \in image' <=> q \in image
      /\ status'[d[1]] \in {status[d[1]], "processing", "done", "failed"}
  BY DEF Execute, Lose, Pickup, MarkProcessing, Generate, ProviderFails, StoreResult,
         Charge, UnexpectedError, MarkFailed
<1>3. /\ \A f \in Deliveries : f # d => task'[f] = task[f]
      /\ task[d] \in Running \cup {"queued"}
      /\ task'[d] \in TaskStates \ {"none"}
  BY DEF Execute, Lose, Pickup, MarkProcessing, Generate, ProviderFails, StoreResult,
         Charge, UnexpectedError, MarkFailed, Goto, Running, TaskStates
<1>4. QED
  BY <1>1, <1>2, <1>3

\* A step of a delivery: it writes the row only at the points SoloProgress allows, and
\* it ends owing nothing only when the row has its verdict.
LEMMA DeliveryInv ==
    ASSUME TypeOK, IInv, NEW d \in Deliveries, Execute(d) \/ Lose(d)
    PROVE  IInv'
<1> USE DEF IInv, TypeOK
<1> DEFINE r == d[1]
<1>1. r \in Renders /\ d[2] \in Copies /\ d = <<r, d[2]>> /\ <<r, 0>> \in Deliveries
  BY DeliveryParts, FirstCopy
<1>2. /\ UNCHANGED <<post, edits, overwritten>>
      /\ \A q \in Renders : q # r => /\ status'[q] = status[q]
                                     /\ q \in image' <=> q \in image
      /\ \A f \in Deliveries : f # d => task'[f] = task[f]
      /\ charged \subseteq charged' /\ charged' \subseteq charged \cup {d}
      /\ task[d] \in Running \cup {"queued"}
      /\ task'[d] \in TaskStates \ {"none"}
      /\ status'[r] \in {status[r], "processing", "done", "failed"}
  BY DeliveryFrame
<1>3. task[d] # "none" /\ task[d] # "over" /\ d \notin charged
  BY <1>2 DEF Running, ChargedIsOver
<1>4. post[r] = "over" /\ status[r] # "unborn" /\ task[<<r, 0>>] # "none"
  BY <1>3 DEF PublishedRow
<1>5. PublishedRow'
  <2>1. ASSUME NEW q \in Renders, post'[q] \in {"attach", "enqueue"}
        PROVE  status'[q] # "unborn"
    BY <1>2, <1>4, <2>1 DEF PublishedRow
  <2>2. ASSUME NEW f \in Deliveries, task'[f] # "none"
        PROVE  post'[f[1]] = "over" /\ status'[f[1]] # "unborn" /\ task'[<<f[1], 0>>] # "none"
    <3>1. task[f] # "none"
      BY <1>2, <1>3, <2>2
    <3>2. /\ post[f[1]] = "over" /\ status[f[1]] # "unborn" /\ task[<<f[1], 0>>] # "none"
          /\ f[1] \in Renders /\ <<f[1], 0>> \in Deliveries
      BY <3>1, DeliveryParts, FirstCopy DEF PublishedRow
    <3>3. QED
      BY <1>2, <3>2
  <2>3. QED
    BY <2>1, <2>2 DEF PublishedRow
<1>6. ChargedIsOver'
  <2>1. ASSUME NEW f \in charged' PROVE task'[f] = "over"
    <3>1. CASE f \in charged
      BY <1>2, <1>3, <3>1 DEF ChargedIsOver
    <3>2. CASE f \notin charged
      <4>1. f = d /\ d \in charged'
        BY <1>2, <2>1, <3>2
      <4>2. Charge(d)
        BY <1>3, <4>1 DEF Execute, Lose, Pickup, MarkProcessing, Generate, ProviderFails,
                          StoreResult, UnexpectedError, MarkFailed
      <4>3. QED
        BY <4>1, <4>2 DEF Charge, Goto
    <3>3. QED
      BY <3>1, <3>2
  <2>2. QED
    BY <2>1 DEF ChargedIsOver
<1>7. DoneHasImage'
  <2>1. status'[r] = "done" => r \in image'
    BY <1>1 DEF DoneHasImage, Execute, Lose, Pickup, MarkProcessing, Generate,
                ProviderFails, StoreResult, Charge, UnexpectedError, MarkFailed
  <2>2. QED
    BY <1>2, <2>1 DEF DoneHasImage
<1>8. EditHasImage'
  BY <1>2 DEF EditHasImage
<1>9. SoloProgress'
  <2>1. ASSUME NEW q \in Renders, Solo(q)'
        PROVE  /\ task'[<<q, 0>>] \in {"start", "generate", "store"}
                     => status'[q] \in Live \cup {"deleted"}
               /\ task'[<<q, 0>>] = "charge" => status'[q] \in {"done", "deleted"}
               /\ <<q, 0>> \in charged' => status'[q] \in {"done", "deleted"}
    <3>1. Solo(q) /\ <<q, 0>> \in Deliveries
      <4>1. \A b \in Copies \ {0} : <<q, b>> \in Deliveries
        BY DEF Deliveries
      <4>2. QED
        BY <1>2, <2>1, <4>1, FirstCopy DEF Solo
    <3>2. CASE q # r
      <4>1. <<q, 0>> # d
        BY <1>1, <3>2
      <4>2. QED
        BY <1>2, <3>1, <3>2, <4>1 DEF SoloProgress
    <3>3. CASE q = r
      <4>1. d = <<q, 0>>
        <5>1. task'[<<r, d[2]>>] # "none"
          BY <1>1, <1>2
        <5>2. QED
          BY <1>1, <2>1, <3>3, <5>1 DEF Solo
      <4>2. /\ task[d] \in {"start", "generate", "store"} => status[q] \in Live \cup {"deleted"}
            /\ task[d] = "charge" => status[q] \in {"done", "deleted"}
        BY <3>1, <4>1 DEF SoloProgress
      <4>3. /\ task'[d] \in {"start", "generate", "store"}
                  => status'[q] \in Live \cup {"deleted"}
            /\ task'[d] = "charge" => status'[q] \in {"done", "deleted"}
        BY <1>1, <3>3, <4>2
           DEF Execute, Lose, Pickup, MarkProcessing, Generate, ProviderFails, StoreResult,
               Charge, UnexpectedError, MarkFailed, Goto, Live
      <4>4. d \in charged' => status'[q] \in {"done", "deleted"}
        BY <1>3, <3>3, <4>2
           DEF Execute, Lose, Pickup, MarkProcessing, Generate, ProviderFails, StoreResult,
               Charge, UnexpectedError, MarkFailed
      <4>5. QED
        BY <4>1, <4>3, <4>4
    <3>4. QED
      BY <3>2, <3>3
  <2>2. QED
    BY <2>1 DEF SoloProgress
<1>10. VerdictOwed'
  <2>1. ASSUME NEW q \in Renders, task'[<<q, 0>>] # "none", q \notin overwritten',
               status'[q] \in Live
        PROVE  \E c \in Copies : task'[<<q, c>>] \in Owing
    <3>1. CASE q # r
      <4>1. \A c \in Copies : <<q, c>> \in Deliveries /\ <<q, c>> # d
        BY <1>1, <3>1 DEF Deliveries
      <4>2. task[<<q, 0>>] # "none" /\ q \notin overwritten /\ status[q] \in Live
        BY <1>2, <2>1, <3>1, <4>1 DEF Copies
      <4>3. PICK c \in Copies : task[<<q, c>>] \in Owing
        BY <4>2 DEF VerdictOwed
      <4>4. QED
        BY <1>2, <4>1, <4>3
    <3>2. CASE q = r /\ task'[d] \in Owing
      BY <1>1, <3>2
    <3>3. CASE q = r /\ task'[d] \notin Owing
      <4>1. task[d] = "charge" /\ status'[r] = status[r]
        BY <1>1, <1>3, <2>1, <3>3
           DEF Execute, Lose, Pickup, MarkProcessing, Generate, ProviderFails, StoreResult,
               Charge, UnexpectedError, MarkFailed, Goto, Owing, Live, Terminal, Exists,
               RowStatus
      <4>2. PICK c \in Copies : task[<<r, c>>] \in Owing
        BY <1>1, <1>2, <1>4, <2>1, <3>3, <4>1 DEF VerdictOwed
      <4>3. <<r, c>> \in Deliveries /\ <<r, c>> # d
        BY <1>1, <4>1, <4>2 DEF Deliveries, Owing
      <4>4. QED
        BY <1>2, <3>3, <4>2, <4>3
    <3>4. QED
      BY <3>1, <3>2, <3>3
  <2>2. QED
    BY <2>1 DEF VerdictOwed
<1>11. Unpublished'
  BY <1>2, <1>4 DEF Unpublished
<1>12. QED
  BY <1>5, <1>6, <1>7, <1>8, <1>9, <1>10, <1>11

\* The owner's DELETE: the row is gone, so nothing is owed to it any more.
LEMMA DeleteRowInv ==
    ASSUME TypeOK, IInv, NEW r \in Renders, DeleteRow(r)
    PROVE  IInv'
<1> USE DEF IInv, TypeOK
<1>1. /\ UNCHANGED <<post, task, edits, charged, overwritten>>
      /\ status' = [status EXCEPT ![r] = "deleted"]
      /\ image' = image \ {r}
  BY DEF DeleteRow
<1>2. PublishedRow'
  BY <1>1, DeliveryParts DEF PublishedRow
<1>3. Unpublished' /\ ChargedIsOver' /\ DoneHasImage' /\ EditHasImage'
  BY <1>1 DEF Unpublished, Terminal, ChargedIsOver, DoneHasImage, EditHasImage
<1>4. SoloProgress'
  BY <1>1 DEF SoloProgress, Solo
<1>5. VerdictOwed'
  BY <1>1 DEF VerdictOwed, Live
<1>6. QED
  BY <1>2, <1>3, <1>4, <1>5

\* PATCH reads a row that satisfies DoneHasImage.
LEMMA LoadForRenameInv ==
    ASSUME TypeOK, IInv, NEW r \in Renders, LoadForRename(r)
    PROVE  IInv'
<1> USE DEF IInv, TypeOK
<1> DEFINE e == [render |-> r, status |-> status[r], image |-> r \in image]
<1>1. /\ UNCHANGED <<status, image, post, task, charged, overwritten>>
      /\ edits' = edits \cup {e}
  BY DEF LoadForRename
<1>2. /\ e.status = "done" => e.image
      /\ e.render = r /\ e.status = status[r]
  BY DEF DoneHasImage
<1> HIDE DEF e
<1>3. EditHasImage'
  BY <1>1, <1>2 DEF EditHasImage
<1>4. PublishedRow' /\ Unpublished' /\ ChargedIsOver' /\ DoneHasImage'
  BY <1>1, <1>2 DEF PublishedRow, Unpublished, ChargedIsOver, DoneHasImage
<1>5. SoloProgress' /\ VerdictOwed'
  BY <1>1 DEF SoloProgress, Solo, VerdictOwed
<1>6. QED
  BY <1>3, <1>4, <1>5

\* PATCH writes its copy back: a render it changes beyond the title is overwritten,
\* and one it does not change keeps what SoloProgress and VerdictOwed say of it.
LEMMA SaveRenameInv ==
    ASSUME TypeOK, IInv, NEW e \in edits, SaveRename(e)
    PROVE  IInv'
<1> USE DEF IInv, TypeOK
<1> DEFINE r == e.render
<1>1. r \in Renders /\ e.status \in RowStatus /\ e.image \in BOOLEAN
  BY DEF Rows
<1>2. /\ UNCHANGED <<post, task, charged>>
      /\ edits' = edits \ {e}
      /\ status' = [status EXCEPT ![r] = e.status]
      /\ r \in image' <=> e.image
      /\ \A q \in Renders : q # r => (q \in image' <=> q \in image)
      /\ overwritten \subseteq overwritten'
      /\ \A q \in Renders : q \notin overwritten' => status'[q] = status[q]
  BY <1>1 DEF SaveRename
<1> HIDE DEF r
<1>3. e.status # "unborn"
  BY <1>1 DEF RowStatus, Live, Terminal
<1>4. PublishedRow'
  BY <1>1, <1>2, <1>3, DeliveryParts DEF PublishedRow
<1>5. DoneHasImage'
  <2>1. e.status = "done" => e.image
    BY DEF EditHasImage
  <2>2. QED
    BY <1>1, <1>2, <2>1 DEF DoneHasImage
<1>6. Unpublished' /\ ChargedIsOver' /\ EditHasImage'
  <2>1. post[r] # "over" => e.status \notin Terminal
    BY <1>1 DEF Unpublished, r
  <2>2. QED
    BY <1>1, <1>2, <2>1 DEF Unpublished, ChargedIsOver, EditHasImage
<1>7. SoloProgress'
  <2>1. ASSUME NEW q \in Renders, Solo(q)' PROVE Solo(q) /\ status'[q] = status[q]
    BY <1>2, <2>1 DEF Solo
  <2>2. QED
    BY <1>2, <2>1 DEF SoloProgress
<1>8. VerdictOwed'
  BY <1>2 DEF VerdictOwed
<1>9. QED
  BY <1>4, <1>5, <1>6, <1>7, <1>8

\* No part of the invariant speaks of the counter or of a stuttering step.
LEMMA ResetMonthInv ==
    ASSUME TypeOK, IInv, ResetMonth \/ UNCHANGED vars
    PROVE  IInv'
<1>1. UNCHANGED <<status, image, post, task, edits, charged, overwritten>>
  BY DEF ResetMonth, vars
<1>2. PublishedRow' /\ Unpublished' /\ ChargedIsOver' /\ DoneHasImage' /\ EditHasImage'
  BY <1>1 DEF IInv, PublishedRow, Unpublished, ChargedIsOver, DoneHasImage, EditHasImage
<1>3. SoloProgress' /\ VerdictOwed'
  BY <1>1 DEF IInv, SoloProgress, Solo, VerdictOwed
<1>4. QED
  BY <1>2, <1>3 DEF IInv

\* The invariant is inductive.
LEMMA NextInv ==
    ASSUME TypeOK, IInv, [Next]_vars
    PROVE  IInv'
<1>1. CASE \E r \in Renders : PostStep(r)
  BY <1>1, PostStepInv
<1>2. CASE \E r \in Renders, c \in Copies : Redeliver(r, c)
  BY <1>2, RedeliverInv
<1>3. CASE \E d \in Deliveries : Execute(d) \/ Lose(d)
  BY <1>3, DeliveryInv
<1>4. CASE \E r \in Renders : DeleteRow(r) \/ LoadForRename(r)
  BY <1>4, DeleteRowInv, LoadForRenameInv
<1>5. CASE \E e \in edits : SaveRename(e)
  BY <1>5, SaveRenameInv
<1>6. CASE ResetMonth \/ UNCHANGED vars
  BY <1>6, ResetMonthInv
<1>7. QED
  BY <1>1, <1>2, <1>3, <1>4, <1>5, <1>6 DEF Next

\* Every reachable state satisfies the inductive invariant.
THEOREM InvariantHolds == Spec => []IInv
<1>1. TypeOK /\ IInv /\ [Next]_vars => IInv'
  BY NextInv
<1>2. QED
  BY <1>1, InitInv, TypeCorrect, PTL DEF Spec

-----------------------------------------------------------------------------
\* A render shown as done has its image, however POST, the workers and PATCH interleave.
THEOREM ImageTheorem == Spec => []DoneHasImage
<1>1. IInv => DoneHasImage
  BY DEF IInv
<1>2. QED
  BY <1>1, InvariantHolds, PTL

\* The owner of a charged render keeps its result.
THEOREM PaidTheorem == Spec => []PaidResultKept
<1>1. IInv => PaidResultKept
  BY DEF IInv, SoloProgress, PaidResultKept
<1>2. QED
  BY <1>1, InvariantHolds, PTL

\* Once all its deliveries are over, a render is settled: the row has its verdict.
THEOREM AbandonedTheorem == Spec => []AbandonedOnlyIfLost
<1>1. TypeOK /\ IInv => AbandonedOnlyIfLost
  <2> SUFFICES ASSUME TypeOK, IInv, NEW r \in Renders,
                      task[<<r, 0>>] = "over", r \notin overwritten,
                      \A c \in Copies : task[<<r, c>>] \in {"none", "over"}
               PROVE  status[r] \in Terminal \cup {"deleted"}
    BY DEF AbandonedOnlyIfLost
  <2>1. status[r] \notin Live
    BY DEF IInv, VerdictOwed, Owing
  <2>2. status[r] # "unborn"
    BY FirstCopy DEF IInv, PublishedRow
  <2>3. QED
    BY <2>1, <2>2 DEF TypeOK, RowStatus, NoRow
<1>2. QED
  BY <1>1, TypeCorrect, InvariantHolds, PTL

\* Without redelivery and stale PATCH only a deletion, or the last attempt of a delivery
\* that was never charged, changes a verdict.
THEOREM VerdictTheorem == Spec => VerdictStable
<1>1. ASSUME TypeOK, IInv, [Next]_vars, NEW r \in Renders, Solo(r)',
             status[r] \in Terminal, status'[r] \notin {status[r], "deleted"}
      PROVE  status[r] = "done" /\ status'[r] = "failed" /\ <<r, 0>> \notin charged
  <2> USE DEF TypeOK
  <2>1. CASE \E q \in Renders : PostStep(q)
    BY <1>1, <2>1
       DEF IInv, Unpublished, PostStep, Admit, InsertRow, AttachSketch, Enqueue, AbortPost
  <2>2. CASE \E d \in Deliveries : Execute(d) \/ Lose(d)
    <3> PICK d \in Deliveries : Execute(d) \/ Lose(d)
      BY <2>2
    <3>1. d[1] = r /\ d = <<r, d[2]>> /\ d[2] \in Copies /\ task'[d] # "none"
      BY <1>1, DeliveryFrame, DeliveryParts
    <3>2. d = <<r, 0>>
      BY <1>1, <3>1 DEF Solo
    <3>3. Solo(r)
      <4>1. \A b \in Copies \ {0} : <<r, b>> \in Deliveries /\ <<r, b>> # d
        BY <3>2 DEF Deliveries
      <4>2. QED
        BY <1>1, <4>1, DeliveryFrame DEF Solo
    <3>4. task[d] \notin {"start", "generate", "store"}
      BY <1>1, <3>2, <3>3 DEF IInv, SoloProgress, Live, Terminal
    <3>5. MarkFailed(d) /\ Exists(r)
      BY <1>1, <3>1, <3>4
         DEF Execute, Lose, Pickup, MarkProcessing, Generate, ProviderFails, StoreResult,
             Charge, UnexpectedError, MarkFailed
    <3>6. QED
      BY <1>1, <3>1, <3>2, <3>5 DEF MarkFailed, IInv, ChargedIsOver, Terminal
  <2>3. CASE \E q \in Renders : DeleteRow(q) \/ LoadForRename(q)
    BY <1>1, <2>3 DEF DeleteRow, LoadForRename
  <2>4. CASE \E e \in edits : SaveRename(e)
    <3> PICK e \in edits : SaveRename(e)
      BY <2>4
    <3>1. e.render \in Renders
      BY <1>1 DEF Rows
    <3>2. QED
      BY <1>1, <3>1 DEF SaveRename, Solo
  <2>5. CASE (\E q \in Renders, c \in Copies : Redeliver(q, c)) \/ ResetMonth \/ UNCHANGED vars
    BY <1>1, <2>5 DEF Redeliver, ResetMonth, vars
  <2>6. QED
    BY <1>1, <2>1, <2>2, <2>3, <2>4, <2>5 DEF Next
<1>2. TypeOK /\ IInv /\ [Next]_vars =>
          [\A r \in Renders :
             (/\ Solo(r)'
              /\ status[r] \in Terminal
              /\ status'[r] \notin {status[r], "deleted"})
             => /\ status[r] = "done" /\ status'[r] = "failed"
                /\ <<r, 0>> \notin charged]_vars
  BY <1>1
<1>3. QED
  BY <1>2, TypeCorrect, InvariantHolds, PTL DEF Spec, VerdictStable

-----------------------------------------------------------------------------
(* RenderPipeline implements RenderMetering. *)

\* A step that changes neither the messages nor the charges changes no phase.
LEMMA PhasesKept ==
    ASSUME UNCHANGED <<task, charged>>
    PROVE  UNCHANGED Phases
  BY DEF Phases, Phase

\* The phase of one delivery changes at a time.
LEMMA OnePhase ==
    ASSUME NEW d \in Deliveries, NEW p, Phase(d)' = p,
           \A f \in Deliveries \ {d} : task'[f] = task[f] /\ (f \in charged' <=> f \in charged)
    PROVE  Phases' = [Phases EXCEPT ![d] = p]
<1>1. \A f \in Deliveries \ {d} : Phase(f)' = Phase(f)
  BY DEF Phase
<1>2. QED
  BY <1>1 DEF Phases

\* Publishing a delivery issues it.
LEMMA IssueStep ==
    ASSUME TypeOK, IInv, NEW d \in Deliveries, task[d] = "none", UNCHANGED <<used, charged>>,
           task' = [task EXCEPT ![d] = "queued"]
    PROVE  Metering!Issue(d)
<1>1. d \notin charged
  BY DEF IInv, ChargedIsOver
<1>2. Phase(d) = "unissued" /\ Phase(d)' = "open"
  BY <1>1 DEF Phase, TypeOK
<1>3. Phases' = [Phases EXCEPT ![d] = "open"]
  BY <1>2, OnePhase DEF TypeOK
<1>4. QED
  BY <1>2, <1>3 DEF Metering!Issue, Phases

\* A step of a worker spends the delivery, drops it or leaves its phase alone.
LEMMA WorkerStep ==
    ASSUME TypeOK, IInv, NEW d \in Deliveries, Execute(d) \/ Lose(d)
    PROVE  Metering!Spend(d) \/ Metering!Drop(d) \/ UNCHANGED <<Phases, used>>
<1>1. /\ \A f \in Deliveries : f # d => task'[f] = task[f]
      /\ charged \subseteq charged' /\ charged' \subseteq charged \cup {d}
      /\ task[d] \in Running \cup {"queued"}
      /\ task'[d] \in TaskStates \ {"none"}
  BY DeliveryFrame
<1>2. d \notin charged /\ Phase(d) = "open"
  BY <1>1 DEF IInv, ChargedIsOver, Phase, Running
<1>3. CASE Charge(d)
  <2>1. Phase(d)' = "spent"
    BY <1>3 DEF Charge, Phase
  <2>2. Phases' = [Phases EXCEPT ![d] = "spent"]
    BY <1>1, <2>1, OnePhase
  <2>3. QED
    BY <1>2, <1>3, <2>2 DEF Charge, Metering!Spend, Phases
<1>4. CASE ~Charge(d)
  <2>1. UNCHANGED <<used, charged>>
    BY <1>4 DEF Execute, Lose, Pickup, MarkProcessing, Generate, ProviderFails, StoreResult,
                UnexpectedError, MarkFailed
  <2>2. CASE task'[d] \in {"over", "lost"}
    <3>1. Phase(d)' = "dropped"
      BY <1>2, <2>1, <2>2 DEF Phase
    <3>2. Phases' = [Phases EXCEPT ![d] = "dropped"]
      BY <1>1, <2>1, <3>1, OnePhase
    <3>3. QED
      BY <1>2, <2>1, <3>2 DEF Metering!Drop, Phases
  <2>3. CASE task'[d] \notin {"over", "lost"}
    <3>1. Phase(d)' = "open"
      BY <1>1, <1>2, <2>1, <2>3 DEF Phase
    <3>2. \A f \in Deliveries : Phase(f)' = Phase(f)
      BY <1>1, <1>2, <2>1, <3>1 DEF Phase
    <3>3. QED
      BY <2>1, <3>2 DEF Phases
  <2>4. QED
    BY <2>2, <2>3
<1>5. QED
  BY <1>3, <1>4

\* The monthly counter gains at most one unit per delivery, whatever is retried, lost or
\* started again: the pipeline implements RenderMetering.
THEOREM MeteringTheorem == Spec => MeteredOncePerDelivery
<1>1. Init => Metering!Init
  BY DEF Init, Metering!Init, Phases, Phase
<1>2. TypeOK /\ IInv /\ [Next]_vars => [Metering!Next]_(Metering!vars)
  <2> SUFFICES ASSUME TypeOK, IInv, [Next]_vars
               PROVE  Metering!Next \/ UNCHANGED <<Phases, used>>
    BY DEF Metering!vars
  <2>1. CASE \E r \in Renders : PostStep(r)
    <3> PICK r \in Renders : PostStep(r)
      BY <2>1
    <3>1. CASE Enqueue(r)
      <4>1. task[<<r, 0>>] = "none"
        BY <3>1, FirstCopy DEF Enqueue, IInv, PublishedRow
      <4>2. Metering!Issue(<<r, 0>>)
        BY <3>1, <4>1, FirstCopy, IssueStep DEF Enqueue
      <4>3. QED
        BY <4>2, FirstCopy DEF Metering!Next
    <3>2. CASE ~Enqueue(r)
      <4>1. UNCHANGED <<task, charged, used>>
        BY <3>2 DEF PostStep, Admit, InsertRow, AttachSketch, AbortPost
      <4>2. QED
        BY <4>1, PhasesKept
    <3>3. QED
      BY <3>1, <3>2
  <2>2. CASE \E r \in Renders, c \in Copies : Redeliver(r, c)
    <3> PICK r \in Renders, c \in Copies : Redeliver(r, c)
      BY <2>2
    <3>1. <<r, c + 1>> \in Deliveries
      BY DEF Redeliver, Deliveries
    <3>2. Metering!Issue(<<r, c + 1>>)
      BY <3>1, IssueStep DEF Redeliver
    <3>3. QED
      BY <3>1, <3>2 DEF Metering!Next
  <2>3. CASE \E d \in Deliveries : Execute(d) \/ Lose(d)
    BY <2>3, WorkerStep DEF Metering!Next
  <2>4. CASE \E r \in Renders : DeleteRow(r) \/ LoadForRename(r)
    BY <2>4, PhasesKept DEF DeleteRow, LoadForRename
  <2>5. CASE \E e \in edits : SaveRename(e)
    BY <2>5, PhasesKept DEF SaveRename
  <2>6. CASE ResetMonth
    <3>1. UNCHANGED <<task, charged>> /\ used' = 0
      BY <2>6 DEF ResetMonth
    <3>2. QED
      BY <3>1, PhasesKept DEF Metering!Next, Metering!StartMonth
  <2>7. CASE UNCHANGED vars
    BY <2>7, PhasesKept DEF vars
  <2>8. QED
    BY <2>1, <2>2, <2>3, <2>4, <2>5, <2>6, <2>7 DEF Next
<1>3. QED
  BY <1>1, <1>2, TypeCorrect, InvariantHolds, PTL DEF Spec, MeteredOncePerDelivery,
     Metering!Spec

-----------------------------------------------------------------------------
(* The streams. *)

\* RenderSSEView writes nothing: what is proved of the pipeline holds beside any streams.
THEOREM StreamsOnlyRead == StreamSpec => Spec
<1>1. StreamInit => Init
  BY DEF StreamInit
<1>2. [StreamNext]_streamVars => [Next]_vars
  BY DEF StreamNext, streamVars, Watch, Connect, Poll, PollGone, TimeOut
<1>3. QED
  BY <1>1, <1>2, PTL DEF StreamSpec, Spec

\* What has become of render r since a stream said v of it.
Told(r, v) ==
    \/ status[r] = v
    \/ status[r] = "deleted" /\ task[<<r, 0>>] \notin {"start", "generate", "store"}
    \/ v = "done" /\ status[r] = "failed"

\* A stream ends with a verdict only once the POST of its render is over.
StreamInv ==
    /\ StreamTypeOK
    /\ \A s \in Streams :
          LET r == stream[s].on IN
          stream[s].at = "verdict" =>
              /\ stream[s].said \in Terminal /\ post[r] = "over"
              /\ stream[s].said = "done" => stream[s].url
              /\ Solo(r) => Told(r, stream[s].said)

\* A render delivered once so far was delivered once before, and a POST that is over stays so.
LEMMA SoloBefore ==
    ASSUME TypeOK, [Next]_vars, NEW r \in Renders
    PROVE  /\ Solo(r)' => Solo(r)
           /\ post[r] = "over" => post'[r] = "over"
<1> USE DEF TypeOK
<1>1. CASE \E q \in Renders : PostStep(q)
  <2> PICK q \in Renders : PostStep(q)
    BY <1>1
  <2>1. \A c \in Copies \ {0} : <<r, c>> \in Deliveries /\ task'[<<r, c>>] = task[<<r, c>>]
    BY FirstCopy DEF PostStep, Admit, InsertRow, AttachSketch, Enqueue, AbortPost, Deliveries
  <2>2. overwritten' = overwritten /\ (post[r] = "over" => post'[r] = "over")
    BY DEF PostStep, Admit, InsertRow, AttachSketch, Enqueue, AbortPost, PostSteps
  <2>3. QED
    BY <2>1, <2>2 DEF Solo
<1>2. CASE \E d \in Deliveries : Execute(d) \/ Lose(d)
  <2> PICK d \in Deliveries : Execute(d) \/ Lose(d)
    BY <1>2
  <2>1. \A c \in Copies \ {0} : <<r, c>> \in Deliveries
    BY DEF Deliveries
  <2>2. QED
    BY <2>1, DeliveryFrame DEF Solo, Running
<1>3. CASE \E q \in Renders, c \in Copies : Redeliver(q, c)
  <2> PICK q \in Renders, c \in Copies : Redeliver(q, c)
    BY <1>3
  <2>1. \A b \in Copies \ {0} : <<r, b>> \in Deliveries
    BY DEF Deliveries
  <2>2. task'  = [task EXCEPT ![<<q, c + 1>>] = "queued"] /\ overwritten' = overwritten /\ post' = post
        /\ <<q, c + 1>> \in Deliveries /\ task[<<q, c + 1>>] = "none"
    BY DEF Redeliver, Deliveries
  <2>3. QED
    BY <2>1, <2>2 DEF Solo
<1>4. CASE \E q \in Renders : DeleteRow(q) \/ LoadForRename(q)
  BY <1>4 DEF DeleteRow, LoadForRename, Solo
<1>5. CASE \E e \in edits : SaveRename(e)
  BY <1>5 DEF SaveRename, Solo
<1>6. CASE ResetMonth \/ UNCHANGED vars
  BY <1>6 DEF ResetMonth, vars, Solo
<1>7. QED
  BY <1>1, <1>2, <1>3, <1>4, <1>5, <1>6 DEF Next

\* What a stream said stays true of its render.
LEMMA ToldKept ==
    ASSUME TypeOK, IInv, [Next]_vars, NEW r \in Renders, NEW v \in Terminal,
           post[r] = "over", Solo(r)', Told(r, v)
    PROVE  Told(r, v)'
<1> USE DEF TypeOK
<1>1. /\ Solo(r)
      /\ status[r] \in Terminal \cup {"deleted"}
      /\ task[<<r, 0>>] \notin {"start", "generate", "store"}
  BY SoloBefore DEF Told, IInv, SoloProgress, Terminal, Live
<1>2. CASE \E q \in Renders : PostStep(q)
  <2> PICK q \in Renders : PostStep(q)
    BY <1>2
  <2>1. q # r
    BY DEF PostStep, Admit, InsertRow, AttachSketch, Enqueue, AbortPost, PostSteps
  <2>2. status'[r] = status[r] /\ task'[<<r, 0>>] = task[<<r, 0>>]
    BY <2>1, FirstCopy DEF PostStep, Admit, InsertRow, AttachSketch, Enqueue, AbortPost
  <2>3. QED
    BY <2>2 DEF Told
<1>3. CASE \E d \in Deliveries : Execute(d) \/ Lose(d)
  <2> PICK d \in Deliveries : Execute(d) \/ Lose(d)
    BY <1>3
  <2>1. CASE d[1] # r
    <3>1. d # <<r, 0>> /\ <<r, 0>> \in Deliveries
      BY <2>1, FirstCopy
    <3>2. status'[r] = status[r] /\ task'[<<r, 0>>] = task[<<r, 0>>]
      BY <2>1, <3>1, DeliveryFrame
    <3>3. QED
      BY <3>2 DEF Told
  <2>2. CASE d[1] = r
    <3>1. d = <<r, d[2]>> /\ d[2] \in Copies /\ task'[d] # "none"
      BY <2>2, DeliveryFrame, DeliveryParts
    <3>2. d = <<r, 0>>
      BY <3>1 DEF Solo
    <3>3. status'[r] # status[r] => /\ status[r] \in Terminal /\ status'[r] = "failed"
      BY <1>1, <2>2, <3>2, FirstCopy
         DEF Execute, Lose, Pickup, MarkProcessing, Generate, ProviderFails, StoreResult,
             Charge, UnexpectedError, MarkFailed, Exists, RowStatus, Live, Terminal
    <3>4. task'[<<r, 0>>] \notin {"start", "generate", "store"}
      BY <1>1, <2>2, <3>2, FirstCopy
         DEF Execute, Lose, Pickup, MarkProcessing, Generate, ProviderFails, StoreResult,
             Charge, UnexpectedError, MarkFailed, Goto, Live, Terminal
    <3>5. QED
      BY <3>3, <3>4 DEF Told, Terminal
  <2>3. QED
    BY <2>1, <2>2
<1>4. CASE \E q \in Renders, c \in Copies : Redeliver(q, c)
  <2> PICK q \in Renders, c \in Copies : Redeliver(q, c)
    BY <1>4
  <2>1. task'  = [task EXCEPT ![<<q, c + 1>>] = "queued"] /\ status' = status /\ c + 1 # 0
    BY DEF Redeliver, Copies
  <2>2. task'[<<r, 0>>] = task[<<r, 0>>]
    BY <2>1, FirstCopy
  <2>3. QED
    BY <2>1, <2>2 DEF Told
<1>5. CASE \E q \in Renders : DeleteRow(q) \/ LoadForRename(q)
  BY <1>1, <1>5 DEF DeleteRow, LoadForRename, Told
<1>6. CASE \E e \in edits : SaveRename(e)
  <2> PICK e \in edits : SaveRename(e)
    BY <1>6
  <2>1. e.render \in Renders /\ task' = task
    BY DEF Rows, SaveRename
  <2>2. status'[r] = status[r]
    BY <2>1 DEF SaveRename, Solo
  <2>3. QED
    BY <2>1, <2>2 DEF Told
<1>7. CASE ResetMonth \/ UNCHANGED vars
  BY <1>7 DEF ResetMonth, vars, Told
<1>8. QED
  BY <1>2, <1>3, <1>4, <1>5, <1>6, <1>7 DEF Next

\* A step of the pipeline, which leaves every stream as it is.
LEMMA PipelineKeepsStreams ==
    ASSUME TypeOK, IInv, [Next]_vars, UNCHANGED stream, StreamInv
    PROVE  StreamInv'
<1>1. StreamTypeOK'
  BY DEF StreamInv, StreamTypeOK
<1>2. ASSUME NEW s \in Streams, stream[s].at = "verdict"
      PROVE  /\ stream[s].said \in Terminal /\ post'[stream[s].on] = "over"
             /\ stream[s].said = "done" => stream[s].url
             /\ Solo(stream[s].on)' => Told(stream[s].on, stream[s].said)'
  <2> DEFINE r == stream[s].on
             v == stream[s].said
  <2>1. r \in Renders /\ v \in Terminal /\ post[r] = "over" /\ (Solo(r) => Told(r, v))
    BY <1>2 DEF StreamInv, StreamTypeOK
  <2>2. stream[s].said = "done" => stream[s].url
    BY <1>2 DEF StreamInv
  <2>3. stream'[s] = stream[s]
    OBVIOUS
  <2>4. post'[r] = "over" /\ (Solo(r)' => Solo(r))
    BY <2>1, SoloBefore
  <2>5. ASSUME NEW q \in Renders, NEW w \in Terminal, q = r, w = v, Solo(q)'
        PROVE  Told(q, w)'
    BY <2>1, <2>3, <2>4, <2>5, ToldKept
  <2>6. QED
    BY <2>1, <2>2, <2>3, <2>4, <2>5
<1>3. QED
  BY <1>1, <1>2 DEF StreamInv

\* A step of a stream: it says what the row it selects says.
LEMMA WatchKeepsStreams ==
    ASSUME TypeOK, IInv, StreamInv, NEW s \in Streams, Watch(s)
    PROVE  StreamInv'
<1>1. /\ \A t \in Streams \ {s} : stream'[t] = stream[t]
      /\ StreamTypeOK'
  <2> USE DEF StreamInv, StreamTypeOK
  <2>1. CASE \E r \in Renders : Connect(s, r)
    BY <2>1 DEF Connect
  <2>2. CASE Poll(s)
    <3> DEFINE r == stream[s].on
               shown == status[r] = "done" /\ r \in image
               how == IF status[r] \in Terminal THEN "verdict" ELSE "open"
    <3>1. /\ stream' = [stream EXCEPT ![s].said = status[r], ![s].url = shown, ![s].at = how]
          /\ status[r] \in RowStatus
      BY <2>2 DEF Poll, Exists
    <3>2. shown \in BOOLEAN /\ how \in {"verdict", "open"}
      OBVIOUS
    <3> HIDE DEF shown, how
    <3>3. stream[s] \in [on : Renders, at : {"none", "open", "verdict", "gone", "timeout"},
                         said : RowStatus \cup {"nothing"}, url : BOOLEAN]
      OBVIOUS
    <3>4. stream'[s] = [on |-> stream[s].on, at |-> how, said |-> status[r], url |-> shown]
      BY <3>1, <3>3
    <3>5. \A t \in Streams \ {s} : stream'[t] = stream[t]
      BY <3>1
    <3>6. stream' = [t \in Streams |-> stream'[t]]
      BY <3>1
    <3>7. stream'[s] \in [on : Renders, at : {"none", "open", "verdict", "gone", "timeout"},
                          said : RowStatus \cup {"nothing"}, url : BOOLEAN]
      BY <3>1, <3>2, <3>3, <3>4
    <3>8. QED
      BY <3>5, <3>6, <3>7
  <2>3. CASE PollGone(s)
    BY <2>3 DEF PollGone, RowStatus, Terminal
  <2>4. CASE TimeOut(s)
    BY <2>4 DEF TimeOut
  <2>5. QED
    BY <2>1, <2>2, <2>3, <2>4 DEF Watch
<1>2. UNCHANGED vars
  BY DEF Watch, Connect, Poll, PollGone, TimeOut
<1>3. ASSUME stream'[s].at = "verdict"
      PROVE  /\ stream'[s].said \in Terminal
             /\ stream'[s].said = status[stream'[s].on]
             /\ stream'[s].said = "done" => stream'[s].url
             /\ stream'[s].on \in Renders /\ post[stream'[s].on] = "over"
  <2>1. Poll(s)
    BY <1>3 DEF Watch, Connect, Poll, PollGone, TimeOut, StreamInv, StreamTypeOK
  <2> DEFINE r == stream[s].on
  <2>2. /\ r \in Renders /\ stream'[s].on = r /\ stream'[s].said = status[r]
        /\ stream'[s].url = (status[r] = "done" /\ r \in image)
        /\ status[r] \in Terminal
    BY <1>3, <2>1 DEF Poll, StreamInv, StreamTypeOK
  <2>3. post[r] = "over"
    BY <2>2 DEF IInv, Unpublished
  <2>4. status[r] = "done" => r \in image
    BY <2>2 DEF IInv, DoneHasImage
  <2>5. QED
    BY <2>2, <2>3, <2>4
<1>4. \A r \in Renders : (Solo(r)' <=> Solo(r)) /\ post'[r] = post[r] /\ status'[r] = status[r]
                         /\ task' = task
  BY <1>2 DEF vars, Solo
<1>5. ASSUME NEW t \in Streams, stream'[t].at = "verdict"
      PROVE  /\ stream'[t].said \in Terminal /\ post'[stream'[t].on] = "over"
             /\ stream'[t].said = "done" => stream'[t].url
             /\ Solo(stream[t].on)' => Told(stream[t].on, stream[t].said)'
  <2>1. CASE t = s
    BY <1>3, <1>4, <1>5, <2>1 DEF Told
  <2>2. CASE t # s
    <3>1. stream'[t] = stream[t] /\ stream[t].on \in Renders
      BY <1>1, <2>2 DEF StreamInv, StreamTypeOK
    <3>2. /\ stream[t].said \in Terminal /\ post[stream[t].on] = "over"
          /\ stream[t].said = "done" => stream[t].url
          /\ Solo(stream[t].on) => Told(stream[t].on, stream[t].said)
      BY <1>5, <3>1 DEF StreamInv
    <3>3. QED
      BY <1>4, <3>1, <3>2 DEF Told
  <2>3. QED
    BY <2>1, <2>2
<1>6. QED
  BY <1>1, <1>5 DEF StreamInv

\* The verdict RenderSSEView sends to a client is the one the row keeps, with the URL of its
\* result, while its message was delivered once: the one exception is a step that fails after
\* the result was saved and before it was counted.
THEOREM StreamTheorem == StreamSpec => []StreamTells
<1>1. StreamInit => StreamInv
  BY DEF StreamInit, StreamInv, StreamTypeOK
<1>2. TypeOK /\ IInv /\ StreamInv /\ [StreamNext]_streamVars => StreamInv'
  <2> SUFFICES ASSUME TypeOK, IInv, StreamInv, [StreamNext]_streamVars
               PROVE  StreamInv'
    OBVIOUS
  <2>1. CASE [Next]_vars /\ UNCHANGED stream
    BY <2>1, PipelineKeepsStreams
  <2>2. CASE \E s \in Streams : Watch(s)
    BY <2>2, WatchKeepsStreams
  <2>3. QED
    BY <2>1, <2>2 DEF StreamNext, streamVars
<1>3. TypeOK /\ IInv /\ StreamInv => StreamTells
  <2> SUFFICES ASSUME TypeOK, IInv, StreamInv, NEW s \in Streams, stream[s].at = "verdict"
               PROVE  LET r == stream[s].on IN
                      /\ stream[s].said \in Terminal
                      /\ stream[s].said = "done" => stream[s].url
                      /\ Solo(r) => \/ status[r] \in {stream[s].said, "deleted"}
                                    \/ /\ stream[s].said = "done" /\ status[r] = "failed"
                                       /\ <<r, 0>> \notin charged
    BY DEF StreamTells, StreamInv
  <2>1. stream[s].on \in Renders
    BY DEF StreamInv, StreamTypeOK
  <2>2. QED
    BY <2>1 DEF StreamInv, Told, IInv, SoloProgress
<1>4. QED
  BY <1>1, <1>2, <1>3, StreamsOnlyRead, TypeCorrect, InvariantHolds, PTL DEF StreamSpec
===============================================================================
