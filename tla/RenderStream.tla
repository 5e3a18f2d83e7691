----------------------------- MODULE RenderStream -----------------------------
(***************************************************************************)
(* GET /renders/{id}/events (apps/renders/sse.py), beside the pipeline it  *)
(* watches.  A stream selects the row again and again, sends its status    *)
(* when it is not the one it sent last, and closes on a verdict, when the  *)
(* row is gone, or five minutes after it was opened.                       *)
(*                                                                         *)
(* Each poll is one SELECT, between any two statements of the pipeline.    *)
(* Heartbeats are left out, and so is a client that goes away: its stream  *)
(* ends like one whose time is over.                                       *)
(***************************************************************************)
EXTENDS RenderPipeline

CONSTANT Streams  \* bound: streams opened

VARIABLE stream   \* each stream: its render, how far it is, the last status sent, with a URL or not

streamVars == <<vars, stream>>

StreamTypeOK ==
    stream \in [Streams -> [on : Renders, at : {"none", "open", "verdict", "gone", "timeout"},
                            said : RowStatus \cup {"nothing"}, url : BOOLEAN]]

\* A stream that is not open yet says nothing, about no render in particular.
StreamInit ==
    /\ Init
    /\ stream \in [Streams -> [on : Renders, at : {"none"}, said : {"nothing"}, url : {FALSE}]]

\* RenderSSEView.get: an authenticated user opens a stream on a render of theirs.
Connect(s, r) ==
    /\ stream[s].at = "none"
    /\ Exists(r)
    /\ stream' = [stream EXCEPT ![s].on = r, ![s].at = "open"]
    /\ UNCHANGED vars

\* Fault: the URL goes with the first event only.
PollFirstUrl(s) ==
    LET r == stream[s].on IN
    /\ stream[s].at = "open" /\ Exists(r)
    /\ status[r] # stream[s].said
    /\ stream' = [stream EXCEPT ![s].said = status[r],
                                ![s].url = status[r] = "done" /\ stream[s].said = "nothing",
                                ![s].at = IF status[r] \in Terminal THEN "verdict" ELSE "open"]
    /\ UNCHANGED vars

\* The status has changed since the last event: it is sent, with the URL of the result.
Poll(s) ==
    LET r == stream[s].on IN
    /\ stream[s].at = "open" /\ Exists(r)
    /\ status[r] # stream[s].said
    /\ stream' = [stream EXCEPT ![s].said = status[r],
                                ![s].url = status[r] = "done" /\ r \in image,
                                ![s].at = IF status[r] \in Terminal THEN "verdict" ELSE "open"]
    /\ UNCHANGED vars

\* The row is gone: the client is told that the render failed.
PollGone(s) ==
    /\ stream[s].at = "open" /\ ~Exists(stream[s].on)
    /\ stream' = [stream EXCEPT ![s].said = "failed", ![s].at = "gone"]
    /\ UNCHANGED vars


\* SSE_MAX_DURATION_S is over.
TimeOut(s) ==
    /\ stream[s].at = "open"
    /\ stream' = [stream EXCEPT ![s].at = "timeout"]
    /\ UNCHANGED vars

Watch(s) == (\E r \in Renders : Connect(s, r)) \/ Poll(s) \/ PollGone(s) \/ TimeOut(s)

StreamNext ==
    \/ Next /\ UNCHANGED stream
    \/ \E s \in Streams : Watch(s)

StreamSpec == StreamInit /\ [][StreamNext]_streamVars

\* The pipeline's workers, and the clock.
FairStreamSpec ==
    /\ StreamSpec
    /\ \A d \in Deliveries : WF_vars(Execute(d))
    /\ \A s \in Streams : WF_stream(TimeOut(s))

-----------------------------------------------------------------------------
(* Properties. *)

\* The verdict a client is told is the one it finds later: "done" came with the URL of an
\* image, and while the render was delivered once the row keeps what the stream said, is
\* deleted by its owner, or fails after all in a step that has taken no unit of the quota.
StreamTells ==
    /\ StreamTypeOK
    /\ \A s \in Streams :
          LET r == stream[s].on IN
          stream[s].at = "verdict" =>
              /\ stream[s].said \in Terminal
              /\ stream[s].said = "done" => stream[s].url
              /\ Solo(r) => \/ status[r] \in {stream[s].said, "deleted"}
                            \/ /\ stream[s].said = "done" /\ status[r] = "failed"
                               /\ <<r, 0>> \notin charged

===============================================================================
