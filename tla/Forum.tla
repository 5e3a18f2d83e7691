------------------------------- MODULE Forum -------------------------------
(***************************************************************************)
(* One topic of the forum, its replies and one uploaded image (apps/forum).*)
(* Every ORM statement commits by itself, so a request is a read, the      *)
(* write it leads to and the signals of that write, each a step that other *)
(* requests may come between.  A deletion collects, deletes and signals in *)
(* one transaction.  The orphan sweep works from the list it has queried.  *)
(*                                                                         *)
(* Who may act (author within 15 minutes, staff, ban) narrows who sends a  *)
(* request, never which requests staff can send, and is left out; so are   *)
(* titles, views_count and the audit rows of moderation.                   *)
(***************************************************************************)
EXTENDS Naturals, FiniteSets

CONSTANTS
    Replies,   \* bound: replies that exist at once
    Requests,  \* bound: requests in flight at once
    Flags,     \* "pinned", "locked": the flags staff may toggle
    MaxCount   \* bound: a topic that counts this many takes no new reply

\* A request is about a reply or about "topic".
ASSUME ForumAssumption == "topic" \notin Replies

VARIABLES
    topic,         \* the Topic row
    reply,         \* the Reply rows
    topics_count,  \* Category.topics_count of its category
    at,            \* next step of each request
    on,            \* the reply each request is about
    held,          \* the row each request has read
    upload,        \* the ForumUpload row of the image
    object,        \* whether the image is in storage
    sweep,         \* next step of cleanup_forum_orphan_uploads
    drift,         \* history: a race or a kill disturbed a counter
    clash,         \* history: a race let a second solution through
    late           \* history: the image was shown too late to keep it

rows == <<topic, reply, topics_count>>
image == <<upload, object, sweep>>
request == <<at, on, held>>
history == <<drift, clash, late>>
vars == <<rows, request, image, history>>

NoRow == [exists |-> FALSE]
Uploads == {"none", "fresh", "used", "gone"}
NotYet == [exists |-> FALSE, shows |-> FALSE]
Topic == [exists : {TRUE}, flags : SUBSET Flags, replies_count : Nat, shows : BOOLEAN]
Reply == [exists : {TRUE}, solution : BOOLEAN, shows : BOOLEAN]

Init ==
    /\ topic = NotYet
    /\ reply = [r \in Replies |-> NoRow]
    /\ topics_count = 0
    /\ at = [q \in Requests |-> "idle"]
    /\ on = [q \in Requests |-> "topic"]
    /\ held = [q \in Requests |-> NoRow]
    /\ upload = "none" /\ object = FALSE /\ sweep = "idle"
    /\ drift = FALSE /\ clash = FALSE /\ late = FALSE

-----------------------------------------------------------------------------
(* Steps of a request. *)

Begin(q, post, row, step) ==
    /\ at[q] = "idle"
    /\ at' = [at EXCEPT ![q] = step]
    /\ on' = [on EXCEPT ![q] = post]
    /\ held' = [held EXCEPT ![q] = row]

End(q) ==
    /\ at' = [at EXCEPT ![q] = "idle"]
    /\ on' = [on EXCEPT ![q] = "topic"]
    /\ held' = [held EXCEPT ![q] = NoRow]

\* After a save only the content matters to the signals that follow.
Signal(q, step, row) ==
    /\ at' = [at EXCEPT ![q] = step]
    /\ held' = [held EXCEPT ![q] = [shows |-> row.shows]]
    /\ UNCHANGED on

\* _mark_used returns at once when the post shows no image of ours.
MarkNext(q, row) == IF row.shows THEN Signal(q, "mark", row) ELSE End(q)

\* Requests that have inserted a reply and not yet counted it.
Uncounted == {q \in Requests : at[q] = "count" /\ on[q] # "topic"}
Rows == {r \in Replies : reply[r].exists}
Shown == (topic.exists /\ topic.shows) \/ \E r \in Rows : reply[r].shows

\* A toggle of the solution overlaps another one, or an edit that will save a reply.
Toggling == {"toggle", "accept"}
Contend(step, p) ==
    \/ step = "toggle" /\ (at[p] \in Toggling \/ (at[p] = "save" /\ on[p] # "topic"))
    \/ step = "save" /\ at[p] \in Toggling

\* The client knows the URL once the upload has answered.  Bound: once a post has shown the
\* image too late, no other post shows it.
MayShow(shows) == shows => upload # "none" /\ ~late

\* A post that shows the image is saved when the sweep has it on its list, or has taken it.
ShownLate(shows) == late' = (late \/ (shows /\ (sweep # "idle" \/ ~object)))

-----------------------------------------------------------------------------
(* Topics. *)

\* TopicListCreateView.create; the re-slug that follows changes the slug only.
CreateTopic(q, shows) ==
    /\ topic = NotYet /\ MayShow(shows)
    /\ LET row == [exists |-> TRUE, flags |-> {}, replies_count |-> 0, shows |-> shows]
       IN  topic' = row /\ Begin(q, "topic", [shows |-> shows], "count")
    /\ ShownLate(shows)
    /\ UNCHANGED <<reply, topics_count, image, drift, clash>>

\* _topic_created.
CountTopic(q) ==
    /\ at[q] = "count" /\ on[q] = "topic"
    /\ topics_count' = topics_count + 1
    /\ MarkNext(q, held[q])
    /\ UNCHANGED <<topic, reply, image, history>>

ReadTopic(q, step) ==
    /\ topic.exists
    /\ Begin(q, "topic", IF step = "drop" THEN NoRow ELSE topic, step)
    /\ UNCHANGED <<rows, image, history>>

\* TopicDetailView PATCH: serializer.save() writes every column of the row as it was read,
\* or inserts it again if it has been deleted.
SaveTopic(q, shows) ==
    /\ at[q] = "save" /\ on[q] = "topic" /\ MayShow(shows)
    /\ LET row == [held[q] EXCEPT !.shows = shows]
       IN  /\ topic' = row
           /\ drift' = (drift \/ ~topic.exists
                        \/ held[q].replies_count # topic.replies_count)
           /\ IF topic.exists THEN MarkNext(q, row) ELSE Signal(q, "count", row)
    /\ ShownLate(shows)
    /\ UNCHANGED <<reply, topics_count, image, clash>>

\* TopicTogglePinView.post, TopicToggleLockView.post.
SaveFlag(q, flag) ==
    /\ at[q] = "flag"
    /\ \/ /\ topic.exists
          /\ topic' = [topic EXCEPT !.flags = IF flag \in held[q].flags THEN @ \ {flag} ELSE @ \cup {flag}]
          /\ MarkNext(q, held[q])
       \/ /\ ~topic.exists
          /\ End(q) /\ UNCHANGED topic
    /\ UNCHANGED <<reply, topics_count, image, history>>

\* TopicDetailView DELETE: the replies go with the topic, and _topic_deleted counts down its
\* category whether or not the row was still there.
DropTopic(q) ==
    /\ at[q] = "drop" /\ on[q] = "topic"
    /\ topic' = NoRow
    /\ reply' = [r \in Replies |-> NoRow]
    /\ topics_count' = IF topics_count > 0 THEN topics_count - 1 ELSE 0
    /\ drift' = (drift \/ ~topic.exists \/ \E p \in Requests : at[p] = "count" /\ on[p] = "topic")
    /\ End(q)
    /\ UNCHANGED <<image, clash, late>>

-----------------------------------------------------------------------------
(* Replies. *)

\* ReplyListCreateView.create: the lock is tested on the topic as read.
BeginReply(q, r) ==
    /\ topic.exists /\ "locked" \notin topic.flags /\ topic.replies_count < MaxCount
    /\ ~reply[r].exists /\ \A p \in Requests : on[p] # r
    /\ Begin(q, r, NoRow, "insert")
    /\ UNCHANGED <<rows, image, history>>

InsertReply(q, shows) ==
    /\ at[q] = "insert" /\ MayShow(shows)
    /\ \/ /\ topic.exists
          /\ LET row == [exists |-> TRUE, solution |-> FALSE, shows |-> shows]
             IN  reply' = [reply EXCEPT ![on[q]] = row] /\ Signal(q, "count", row)
          /\ ShownLate(shows)
       \/ /\ ~topic.exists
          /\ End(q) /\ UNCHANGED <<reply, late>>
    /\ UNCHANGED <<topic, topics_count, image, drift, clash>>

\* _reply_created.
CountReply(q) ==
    /\ at[q] = "count" /\ on[q] # "topic"
    /\ topic' = IF topic.exists THEN [topic EXCEPT !.replies_count = @ + 1] ELSE topic
    /\ MarkNext(q, held[q])
    /\ UNCHANGED <<reply, topics_count, image, history>>

ReadReply(q, r, step) ==
    /\ reply[r].exists
    /\ Begin(q, r, IF step = "drop" THEN NoRow ELSE reply[r], step)
    /\ clash' = (clash \/ \E p \in Requests : Contend(step, p))
    /\ UNCHANGED <<rows, image, drift, late>>

\* ReplyDetailView PATCH: every column as it was read, is_solution with them.
SaveReply(q, shows) ==
    /\ at[q] = "save" /\ on[q] # "topic" /\ MayShow(shows)
    /\ LET row == [held[q] EXCEPT !.shows = shows]
       IN  \/ /\ topic.exists
              /\ reply' = [reply EXCEPT ![on[q]] = row]
              /\ IF reply[on[q]].exists THEN MarkNext(q, row) ELSE Signal(q, "count", row)
              /\ ShownLate(shows)
           \/ /\ ~topic.exists
              /\ End(q) /\ UNCHANGED <<reply, late>>
    /\ UNCHANGED <<topic, topics_count, image, drift, clash>>

\* Fault: the counter is not taken down.
DropUncounted(q) ==
    /\ at[q] = "drop" /\ on[q] # "topic"
    /\ reply' = [reply EXCEPT ![on[q]] = NoRow]
    /\ drift' = (drift \/ ~reply[on[q]].exists \/ \E p \in Uncounted : on[p] = on[q])
    /\ End(q)
    /\ UNCHANGED <<topic, topics_count, image, clash, late>>

\* ReplyDetailView DELETE with _reply_deleted, which runs whether or not the row was there.
DropReply(q) ==
    /\ at[q] = "drop" /\ on[q] # "topic"
    /\ reply' = [reply EXCEPT ![on[q]] = NoRow]
    /\ topic' = IF topic.exists /\ topic.replies_count > 0
                THEN [topic EXCEPT !.replies_count = @ - 1] ELSE topic
    /\ drift' = (drift \/ ~reply[on[q]].exists \/ \E p \in Uncounted : on[p] = on[q])
    /\ End(q)
    /\ UNCHANGED <<topics_count, image, clash, late>>

\* Fault: the previous solution is not cleared.
ClearNothing(q) ==
    /\ at[q] = "toggle" /\ ~held[q].solution
    /\ Signal(q, "accept", held[q])
    /\ UNCHANGED <<rows, image, history>>

\* ReplyToggleSolutionView.post: a reply that is not the solution first clears the others.
ClearSolution(q) ==
    /\ at[q] = "toggle" /\ ~held[q].solution
    /\ reply' = [r \in Replies |-> IF reply[r].exists THEN [reply[r] EXCEPT !.solution = FALSE]
                                   ELSE reply[r]]
    /\ Signal(q, "accept", held[q])
    /\ UNCHANGED <<topic, topics_count, image, history>>

SaveSolution(q) ==
    /\ at[q] = "accept" \/ (at[q] = "toggle" /\ held[q].solution)
    /\ \/ /\ reply[on[q]].exists
          /\ reply' = [reply EXCEPT ![on[q]].solution = (at[q] = "accept")]
          /\ MarkNext(q, held[q])
       \/ /\ ~reply[on[q]].exists
          /\ End(q) /\ UNCHANGED reply
    /\ UNCHANGED <<topic, topics_count, image, history>>

\* _mark_used, called after every save of a post with the content that was saved.
MarkUsed(q) ==
    /\ at[q] = "mark"
    /\ upload' = IF held[q].shows /\ upload = "fresh" THEN "used" ELSE upload
    /\ End(q)
    /\ UNCHANGED <<rows, object, sweep, history>>

\* A worker is killed between a save and its signals.  Bound: only before anything else has
\* gone wrong.
Kill(q) ==
    /\ at[q] \in {"count", "mark"} /\ ~drift /\ ~late
    /\ drift' = (drift \/ at[q] = "count")
    /\ late' = (late \/ held[q].shows)
    /\ End(q)
    /\ UNCHANGED <<rows, image, clash>>

-----------------------------------------------------------------------------
(* The image: ForumImageUploadView.post and the orphan sweep. *)

\* The object is stored, then its row is created and the client learns the URL.  (A kill in
\* between leaves an object no row names, which no sweep will find.)
UploadImage ==
    /\ upload = "none"
    /\ upload' = "fresh" /\ object' = TRUE
    /\ UNCHANGED <<rows, request, sweep, history>>

\* Fault: the sweep forgets the used filter.
AnyUpload == upload \in {"fresh", "used"}

\* The queryset of the sweep: unused, and old: its grace period may be over at any time.
Orphan == upload = "fresh"

\* The sweep queries the orphans; a post may have been inserted whose signal has not run.
ListOrphans ==
    /\ sweep = "idle" /\ Orphan
    /\ sweep' = "object"
    /\ late' = (late \/ \E q \in Requests : at[q] \in {"count", "mark"} /\ held[q].shows)
    /\ UNCHANGED <<rows, request, upload, object, drift, clash>>

\* The object is deleted, or storage fails, and the record follows either way.
DeleteObject ==
    /\ sweep = "object"
    /\ sweep' = "record"
    /\ object' \in {FALSE, object}
    /\ UNCHANGED <<rows, request, upload, history>>

DeleteRecord ==
    /\ sweep = "record"
    /\ sweep' = "idle" /\ upload' = "gone"
    /\ UNCHANGED <<rows, request, object, history>>

-----------------------------------------------------------------------------
Next ==
    \/ \E q \in Requests :
        \/ \E shows \in BOOLEAN :
            \/ CreateTopic(q, shows) \/ SaveTopic(q, shows)
            \/ InsertReply(q, shows) \/ SaveReply(q, shows)
        \/ CountTopic(q) \/ DropTopic(q)
        \/ \E step \in {"save", "flag", "drop"} : ReadTopic(q, step)
        \/ \E flag \in Flags : SaveFlag(q, flag)
        \/ \E r \in Replies :
            BeginReply(q, r) \/ \E step \in {"save", "drop", "toggle"} : ReadReply(q, r, step)
        \/ CountReply(q) \/ DropReply(q) \/ ClearSolution(q) \/ SaveSolution(q)
        \/ MarkUsed(q) \/ Kill(q)
    \/ UploadImage \/ ListOrphans \/ DeleteObject \/ DeleteRecord

Spec == Init /\ [][Next]_vars

-----------------------------------------------------------------------------
TypeOK ==
    /\ topic \in Topic \cup {NoRow, NotYet}
    /\ reply \in [Replies -> Reply \cup {NoRow}]
    /\ topics_count \in Nat
    /\ on \in [Requests -> Replies \cup {"topic"}]
    /\ \A q \in Requests : held[q] \in Topic \cup Reply \cup {NoRow} \cup [shows : BOOLEAN]
    /\ upload \in Uploads

\* The counters kept by signals agree with the rows, less the saves whose signal has not run,
\* as long as no stale edit, double deletion or kill came between.
CountersMatch ==
    /\ TypeOK
    /\ ~drift /\ topic.exists =>
           topic.replies_count + Cardinality(Uncounted) = Cardinality(Rows)
    /\ ~drift =>
           topics_count + Cardinality({q \in Requests : at[q] = "count" /\ on[q] = "topic"})
               = IF topic.exists THEN 1 ELSE 0

\* "Une seule solution acceptee par topic" (views.py:327): a topic has two accepted answers only
\* after a toggle overlapped another toggle or an edit of a reply.
OneSolution == ~clash => Cardinality({r \in Rows : reply[r].solution}) <= 1

\* An image a post shows is in storage, unless the post was saved after the sweep had listed
\* the image, or its signal was killed or overtaken by the sweep.
ShownImageKept == Shown /\ ~late => object
=============================================================================
