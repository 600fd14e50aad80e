----------------------------- MODULE Workbench -----------------------------
(***************************************************************************)
(* The state of the workbench (app/page.tsx): which page of the job list   *)
(* is selected and which one is shown, and which dataflows are selected    *)
(* and submitted.  A handler works on the state of the rendering it was    *)
(* made in, whatever has changed when its request is answered.  What the   *)
(* server keeps and answers is in JobListing.                              *)
(***************************************************************************)
EXTENDS Integers, FiniteSets, FiniteSetsExt, Sequences, SequencesExt

CONSTANTS
  ListPages,   \* what jobsViewMode, jobsPage and jobsPageSize select
  WbJobs,      \* the jobs of the server
  Modes,       \* the dataflows
  Slots,       \* bound on the requests of the list under way
  MaxChanges   \* bound on what the user does and on the requests that fail

ASSUME WorkbenchAssumption ==
  /\ ListPages \subseteq Nat \ {0} /\ ListPages # {}
  /\ Slots \in Nat \ {0} /\ MaxChanges \in Nat

VARIABLES
  jobs,      \* on the server
  selPage,   \* the page selected
  auto,      \* autoRefreshEnabled
  refresh,   \* the requests of the list: how far, for which page, with which answer
  inFlight,  \* jobsRefreshInFlight
  listShown, \* jobsPayload: the page it is of, and its jobs
  handler,   \* a submission or deletion that waits for its answers: what it sends
             \* still, and the page of its rendering
  modes,     \* dataflowModes
  flow,      \* hardware.dataflow
  saved,     \* a preset the user has saved: the two, or <<>>
  changes    \* what the user has done, and the requests that failed, so far

wvars == <<jobs, selPage, auto, refresh, inFlight, listShown, handler, modes, flow, saved, changes>>
listed == <<selPage, auto, refresh, inFlight, listShown>>
design == <<modes, flow, saved>>

SlotIds == 1..Slots
NoRefresh == [at |-> "idle", page |-> 0, jobs |-> {}]
NoHandler == [todo |-> <<>>, gone |-> {}, page |-> 0]
Counted == changes < MaxChanges /\ changes' = changes + 1

WorkbenchInit ==
  /\ jobs = {} /\ selPage = Min(ListPages) /\ auto = TRUE
  /\ refresh = [k \in SlotIds |-> NoRefresh] /\ inFlight = FALSE
  /\ listShown = [page |-> 0, jobs |-> {}]
  /\ handler = NoHandler
  /\ \E m \in Modes : modes = <<m>> /\ flow = m
  /\ saved = <<>> /\ changes = 0

-----------------------------------------------------------------------------
(* The list *)

Free == {k \in SlotIds : refresh[k].at = "idle"}
\* refreshJobs asks for the page of its rendering.
StartRefresh(page) ==
  /\ Free # {}
  /\ refresh' = [refresh EXCEPT ![Min(Free)] = [at |-> "sent", page |-> page, jobs |-> {}]]
  /\ inFlight' = TRUE

\* The effect of a change of the page, or of the switch of the automatic refresh:
\* a new interval, and a request at once, however many are under way.
SelectList ==
  /\ Counted
  /\ \/ \E p \in ListPages \ {selPage} : selPage' = p /\ StartRefresh(p) /\ UNCHANGED auto
     \/ auto' = ~auto /\ StartRefresh(selPage) /\ UNCHANGED selPage
  /\ UNCHANGED <<jobs, listShown, handler, design>>

\* Every 15 seconds, unless a request is under way (skipIfBusy).
PollList ==
  /\ auto /\ ~inFlight
  /\ StartRefresh(selPage)
  /\ UNCHANGED <<jobs, selPage, auto, listShown, handler, design, changes>>

AnswerList(k) ==
  /\ refresh[k].at = "sent"
  /\ refresh' = [refresh EXCEPT ![k].at = "answered", ![k].jobs = jobs]
  /\ UNCHANGED <<jobs, selPage, auto, inFlight, listShown, handler, design, changes>>

\* Fault: the flag survives a failure.
BusyAfterOnSuccess(failed) == failed
\* The finally block: the flag falls with any end of any request.
BusyAfter(failed) == FALSE

\* The answer is shown whichever page has been selected since ...
ListArrives(k) ==
  /\ refresh[k].at = "answered"
  /\ listShown' = [page |-> refresh[k].page, jobs |-> refresh[k].jobs]
  /\ inFlight' = BusyAfter(FALSE)
  /\ refresh' = [refresh EXCEPT ![k] = NoRefresh]
  /\ UNCHANGED <<jobs, selPage, auto, handler, design, changes>>

\* ... and after a failure the list stays as it is.
ListFails(k) ==
  /\ refresh[k].at # "idle" /\ Counted
  /\ inFlight' = BusyAfter(TRUE)
  /\ refresh' = [refresh EXCEPT ![k] = NoRefresh]
  /\ UNCHANGED <<jobs, selPage, auto, listShown, handler, design>>

-----------------------------------------------------------------------------
(* Submissions and deletions *)

\* createJob, for all dataflows selected or for that of the hardware
SubmitJobs ==
  /\ Counted /\ handler = NoHandler
  /\ \E all \in BOOLEAN :
       handler' = [todo |-> IF all /\ modes # <<>> THEN modes ELSE <<flow>>,
                  gone |-> {}, page |-> selPage]
  /\ UNCHANGED <<jobs, listed, design>>

\* One POST after the other, created or refused; the list after the last one.
PostMode ==
  /\ handler.todo # <<>>
  /\ \/ \E j \in WbJobs \ jobs : jobs' = jobs \cup {j}
     \/ UNCHANGED jobs
  /\ IF Len(handler.todo) > 1
     THEN handler' = [handler EXCEPT !.todo = Tail(@)] /\ UNCHANGED <<refresh, inFlight>>
     ELSE handler' = NoHandler /\ StartRefresh(handler.page)
  /\ UNCHANGED <<selPage, auto, listShown, design, changes>>

\* deleteJobsByIds, of jobs of the list
DeleteJobs ==
  /\ Counted /\ handler = NoHandler
  /\ \E gone \in SUBSET listShown.jobs \ {{}} :
       handler' = [todo |-> <<>>, gone |-> gone, page |-> selPage]
  /\ UNCHANGED <<jobs, listed, design>>

Deleted ==
  /\ handler.gone # {}
  /\ jobs' = jobs \ handler.gone
  /\ handler' = NoHandler /\ StartRefresh(handler.page)
  /\ UNCHANGED <<selPage, auto, listShown, design, changes>>

-----------------------------------------------------------------------------
(* The dataflows *)

\* The selected dataflows but m, in their order
Deselected(m) ==
  LET kept == {i \in DOMAIN modes : modes[i] # m}
  IN [n \in 1..Cardinality(kept) |->
        modes[CHOOSE i \in kept : Cardinality({k \in kept : k < i}) = n - 1]]

\* Fault: the last dataflow can be unselected.
ToggledFreely(m) == IF m \in ToSet(modes) THEN Deselected(m) ELSE Append(modes, m)
\* toggleDataflowMode never leaves none.
Toggled(m) == IF modes = <<m>> THEN modes ELSE ToggledFreely(m)

ToggleMode ==
  /\ Counted
  /\ \E m \in Modes : modes' = Toggled(m)
  /\ flow' = IF modes' = <<>> THEN flow ELSE modes'[1]
  /\ UNCHANGED <<jobs, listed, handler, saved>>

\* applyHardwarePreset, and a project or a preset without dataflowModes
ApplyHardware ==
  /\ Counted
  /\ \E m \in Modes : modes' = <<m>> /\ flow' = m
  /\ UNCHANGED <<jobs, listed, handler, saved>>

\* saveCustomPreset, applyCustomPreset
SavePreset ==
  /\ Counted
  /\ saved' = <<modes, flow>>
  /\ UNCHANGED <<jobs, listed, handler, modes, flow>>
ApplyPreset ==
  /\ Counted /\ saved # <<>>
  /\ modes' = (IF saved[1] # <<>> THEN saved[1] ELSE <<saved[2]>>) /\ flow' = saved[2]
  /\ UNCHANGED <<jobs, listed, handler, saved>>

WorkbenchNext ==
  \/ SelectList \/ PollList \/ SubmitJobs \/ PostMode \/ DeleteJobs \/ Deleted
  \/ \E k \in SlotIds : AnswerList(k) \/ ListArrives(k) \/ ListFails(k)
  \/ ToggleMode \/ ApplyHardware \/ SavePreset \/ ApplyPreset

-----------------------------------------------------------------------------
(* Properties *)

\* Every variable has the type its comment gives it.
WorkbenchTypeOK ==
  /\ jobs \subseteq WbJobs /\ selPage \in ListPages /\ auto \in BOOLEAN
  /\ \A k \in SlotIds : refresh[k].at \in {"idle", "sent", "answered"}
  /\ inFlight \in BOOLEAN
  /\ listShown.page \in ListPages \cup {0} /\ listShown.jobs \subseteq WbJobs
  /\ ToSet(modes) \subseteq Modes /\ flow \in Modes

\* What "verify the current conditions" submits is what the preview shows, whatever
\* has been toggled, saved and loaded: the dataflow of the hardware is the first of
\* the selected ones, and each of these is selected once.
SingleIsPreviewed ==
  modes # <<>> /\ flow = modes[1] /\ Cardinality(ToSet(modes)) = Len(modes)

\* skipIfBusy cannot block the poll: the flag is only up while a request is under way.
BusyIsAsked == inFlight => \E k \in SlotIds : refresh[k].at # "idle"

\* With the automatic refresh on, the list comes to be the selected page of the
\* jobs there are, whichever answers of other pages arrive late or fail.
PageIsCurrent == auto => listShown = [page |-> selPage, jobs |-> jobs]
PageConverges == <>[]PageIsCurrent
=============================================================================
