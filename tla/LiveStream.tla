---------------------------- MODULE LiveStream ----------------------------
(***************************************************************************)
(* The live view of a job: the event stream of the server                  *)
(* (app/api/jobs/[id]/events/route.ts) reads the job every second until it *)
(* has settled, the browser (app/page.tsx) shows what it gets, and the     *)
(* user watches one job after the other.                                   *)
(***************************************************************************)
EXTENDS Naturals, Sequences, JobStatus

CONSTANTS
  LiveJobs,  \* the jobs that can be watched
  Outcomes,  \* how they can end: a terminal status, or "gone"
  Streams,   \* bound on the streams, numbered as they are opened
  Backlog    \* bound on the events on their way in one stream

ASSUME LiveAssumption ==
  /\ "none" \notin LiveJobs /\ Outcomes \subseteq Terminal \cup {"gone"}
  /\ Streams \in Nat /\ Backlog \in Nat \ {0}

VARIABLES
  live,      \* status of each job, or "gone" when it has been deleted
  of,        \* the job of each stream, or "none"
  tick,      \* the server's side of each stream: "none", "read", "sleep",
             \* "closed", or "thrown" after an event it could not send
  closed,    \* the streams the browser has closed
  events,    \* the events on their way
  current,   \* liveEventSource, or 0
  connected, \* liveConnected
  watched,   \* liveJobId
  liveJob    \* the job whose record is shown, or "none", and its status

livars == <<live, of, tick, closed, events, current, connected, watched, liveJob>>
screen == <<closed, current, connected, watched, liveJob>>

StreamIds == 1..Streams
Nothing == <<"none", "none">>

LiveInit ==
  /\ live = [j \in LiveJobs |-> "running"]
  /\ of = [k \in StreamIds |-> "none"]
  /\ tick = [k \in StreamIds |-> "none"]
  /\ closed = {}
  /\ events = [k \in StreamIds |-> <<>>]
  /\ current = 0 /\ connected = FALSE
  /\ watched = "none" /\ liveJob = Nothing

\* A job settles or is deleted.
LiveJobSettles(j) ==
  /\ live[j] = "running"
  /\ \E s \in Outcomes : live' = [live EXCEPT ![j] = s]
  /\ UNCHANGED <<of, tick, events, screen>>

\* Fault: the stream of the job watched before is left open.
NotReplaced == {}

\* startLiveJob closes the stream there is.
Replaced == {current} \ {0}

StartLiveJob(k, j) ==
  /\ of[k] = "none" /\ \A i \in 1..k-1 : of[i] # "none"
  /\ of' = [of EXCEPT ![k] = j]
  /\ tick' = [tick EXCEPT ![k] = "read"]
  /\ closed' = closed \cup Replaced
  /\ current' = k /\ connected' = TRUE
  /\ watched' = j /\ liveJob' = Nothing
  /\ UNCHANGED <<live, events>>

\* stopLiveJob, or an error of the connection.
StopLiveJob ==
  /\ current # 0
  /\ closed' = closed \cup {current}
  /\ current' = 0 /\ connected' = FALSE
  /\ UNCHANGED <<live, of, tick, events, watched, liveJob>>

\* The clean-up of the effect that polls the list: when the user selects another
\* page of it, the stream is closed, and the view stays as it is.
SelectPage ==
  /\ Replaced # {} /\ current \notin closed
  /\ closed' = closed \cup Replaced
  /\ UNCHANGED <<live, of, tick, events, current, connected, watched, liveJob>>

\* Fault: only a success ends the stream.
EndsStreamIfGood(s) == s \in {"succeeded", "succeeded_with_warnings"}

\* The statuses that end the stream.
EndsStream(s) == s \in Terminal

Send(k, es) == events' = [events EXCEPT ![k] = @ \o es]

\* tick: read the job, send it, and "done" after it when it has settled; a job
\* that cannot be read is an "error".  The stream may have been closed between
\* the test of closed and the sending: enqueue throws then, also in the handler.
Tick(k) ==
  /\ tick[k] = "read" /\ (k \in closed \/ Len(events[k]) < Backlog)
  /\ LET j == of[k]
         s == live[j]
     IN IF k \in closed
        THEN tick' = [tick EXCEPT ![k] = "thrown"] /\ UNCHANGED events
        ELSE IF s = "gone"
        THEN Send(k, <<<<"error", j>>>>) /\ tick' = [tick EXCEPT ![k] = "closed"]
        ELSE IF EndsStream(s)
        THEN Send(k, <<<<s, j>>, <<"done", j>>>>) /\ tick' = [tick EXCEPT ![k] = "closed"]
        ELSE Send(k, <<<<s, j>>>>) /\ tick' = [tick EXCEPT ![k] = "sleep"]
  /\ UNCHANGED <<live, of, screen>>

\* A second later: closed is looked at, and the next reading begins.
TickAgain(k) ==
  /\ tick[k] = "sleep"
  /\ tick' = [tick EXCEPT ![k] = IF k \in closed THEN "closed" ELSE "read"]
  /\ UNCHANGED <<live, of, events, screen>>

\* An event is dispatched, if the browser has not closed the stream; "done" and
\* "error" close it.
EventArrives(k) ==
  /\ events[k] # <<>> /\ k \notin closed
  /\ LET e == Head(events[k]) IN
     /\ events' = [events EXCEPT ![k] = Tail(@)]
     /\ IF e[1] \in {"done", "error"}
        THEN /\ closed' = closed \cup {k}
             /\ connected' = FALSE
             /\ current' = IF current = k THEN 0 ELSE current
             /\ UNCHANGED liveJob
        ELSE liveJob' = <<e[2], e[1]>> /\ UNCHANGED <<closed, connected, current>>
  /\ UNCHANGED <<live, of, tick, watched>>

LiveServer(k) == Tick(k) \/ TickAgain(k)

LiveNext ==
  \/ \E j \in LiveJobs : LiveJobSettles(j)
  \/ \E k \in StreamIds, j \in LiveJobs : StartLiveJob(k, j)
  \/ StopLiveJob \/ SelectPage
  \/ \E k \in StreamIds : LiveServer(k) \/ EventArrives(k)

-----------------------------------------------------------------------------
(* Properties *)

\* Every variable has the type its comment gives it.
LiveTypeOK ==
  /\ live \in [LiveJobs -> {"running", "gone"} \cup Terminal]
  /\ of \in [StreamIds -> LiveJobs \cup {"none"}]
  /\ tick \in [StreamIds -> {"none", "read", "sleep", "closed", "thrown"}]
  /\ closed \subseteq StreamIds
  /\ \A k \in StreamIds : Len(events[k]) <= Backlog + 1
  /\ current \in 0..Streams /\ connected \in BOOLEAN
  /\ watched \in LiveJobs \cup {"none"}

\* The record on the screen is the one of the job the user watches last, and the
\* view is connected exactly while there is a stream for it.
ShownIsWatched ==
  /\ liveJob # Nothing => liveJob[1] = watched
  /\ connected <=> (current # 0)
  /\ current # 0 => of[current] = watched

\* Once every job has settled and the user starts no other stream, the view
\* disconnects, unless another page of the list has closed its stream, and no
\* stream of the server goes on reading.
LiveIsOver ==
  /\ connected => current \in closed
  /\ \A k \in StreamIds : tick[k] \notin {"read", "sleep"}
LiveEnds == <>[]LiveIsOver
=============================================================================
