------------------------------- MODULE Desktop -------------------------------
(***************************************************************************)
(* The desktop application: AppState, which the update function changes    *)
(* one message at a time, and the background tasks (iced Commands) that    *)
(* handle_start_connection and handle_start_send leave running.            *)
(*                                                                         *)
(* A task reports once, with a message that joins the queue of the update  *)
(* function when the task ends. Nothing ties the message to the state the  *)
(* task was started from: by then the user may have stopped, restarted or  *)
(* connected elsewhere. Stopping only raises cancel_listener, which the    *)
(* listening loop polls and the next start lowers again.                   *)
(***************************************************************************)
EXTENDS Naturals, Sequences

CONSTANTS
    Port,            \* ports the user may enter
    None,            \* Option::None
    MaxTasks         \* bound of the model: background tasks ever started

Task == 1 .. MaxTasks

ASSUME DesktopAssumption == MaxTasks \in Nat /\ Port # {} /\ None \notin Port \cup Task

VARIABLES
    is_active,         \* connection_state.is_active
    status_message,    \* connection_state.status_message
    session,           \* AppState.session: the task that established it
    cancel_listener,   \* the AtomicBool shared with every listening loop
    transfer_progress, \* AppState.transfer_progress: the send it shows
    current_transfer,  \* AppState.current_transfer: the send it is about
    history,           \* AppState.history: records of finished sends
    started,           \* number of tasks started so far
    kind,              \* what a task is for
    pc,                \* the await a task is at
    bound,             \* the port a listening task was started with
    result,            \* the message a task ended with
    queue,             \* tasks whose message update has not handled yet
    socket,            \* per port: the task whose endpoint holds it
    last_report        \* history: the connection task whose message was handled
                       \* last, and how many tasks had been started by then

connectionVars == <<is_active, status_message, session, last_report>>
sendVars == <<transfer_progress, current_transfer, history>>
taskVars == <<started, kind, pc, bound, result, queue>>
vars == <<is_active, status_message, session, cancel_listener,
          transfer_progress, current_transfer, history, started, kind, pc,
          bound, result, queue, socket, last_report>>

Status == {"Idle", "Listening", "Pairing", "Connecting", "Connected"}
Kind   == {"none", "listener", "connect", "send"}
Result == {"none", "ConnectionEstablished", "ConnectionEstablishedWithSession",
           "ConnectionFailed", "SendComplete", "SendFailed"}

\* A record of the history: the send it was opened for, and its final status.
Record == [of : Task, status : {"Completed", "Failed"}]

TypeOK ==
    /\ is_active \in BOOLEAN /\ status_message \in Status
    /\ session \in {t \in Task : kind[t] = "connect"} \cup {None}
    /\ cancel_listener \in BOOLEAN
    /\ transfer_progress \in Task \cup {None}
    /\ current_transfer \in Task \cup {None}
    /\ history \in Seq(Record)
    /\ started \in 0 .. MaxTasks
    /\ kind \in [Task -> Kind]
    /\ pc \in [Task -> {"none", "check", "bind", "accept", "receive", "work", "done"}]
    /\ bound \in [Task -> Port \cup {None}]
    /\ result \in [Task -> Result]
    /\ queue \in Seq(Task)
    /\ socket \in [Port -> Task \cup {None}]
    /\ last_report \in [task : Task \cup {None}, after : 0 .. MaxTasks]

\* AppState::new.
Init ==
    /\ is_active = FALSE /\ status_message = "Idle"
    /\ session = None
    /\ cancel_listener = FALSE
    /\ transfer_progress = None /\ current_transfer = None
    /\ history = <<>>
    /\ started = 0
    /\ kind = [t \in Task |-> "none"]
    /\ pc = [t \in Task |-> "none"]
    /\ bound = [t \in Task |-> None]
    /\ result = [t \in Task |-> "none"]
    /\ queue = <<>>
    /\ socket = [p \in Port |-> None]
    /\ last_report = [task |-> None, after |-> 0]

-----------------------------------------------------------------------------
(* Background tasks. *)

\* Command::perform: a new task of kind k, at its first step.
perform(k, first, p) ==
    /\ started < MaxTasks
    /\ started' = started + 1
    /\ kind' = [kind EXCEPT ![started + 1] = k]
    /\ pc' = [pc EXCEPT ![started + 1] = first]
    /\ bound' = [bound EXCEPT ![started + 1] = p]
    /\ UNCHANGED <<result, queue>>

\* Task t ends and its message is queued.
Report(t, r) ==
    /\ pc' = [pc EXCEPT ![t] = "done"]
    /\ result' = [result EXCEPT ![t] = r]
    /\ queue' = Append(queue, t)
    /\ UNCHANGED <<started, kind, bound>>

Goto(t, step) ==
    /\ pc' = [pc EXCEPT ![t] = step]
    /\ UNCHANGED <<started, kind, bound, result, queue>>

appVars == <<connectionVars, cancel_listener, sendVars>>

Running(t) == pc[t] \notin {"none", "done"}

Listening(t) == kind[t] = "listener" /\ Running(t)

\* Top of the listening loop: the flag is looked at before every round.
CheckCancelled(t) ==
    /\ pc[t] = "check"
    /\ IF cancel_listener
       THEN Report(t, "ConnectionEstablished")  \* "Listener stopped"
       ELSE Goto(t, "bind")
    /\ UNCHANGED <<appVars, socket>>

\* start_listener_once binds the port afresh in every round.
Bind(t) ==
    /\ pc[t] = "bind"
    /\ socket[bound[t]] = None
    /\ socket' = [socket EXCEPT ![bound[t]] = t]
    /\ Goto(t, "accept")
    /\ UNCHANGED appVars

\* The identity or the output directory is not usable, or the port is taken:
\* by another program, another listener, or this loop's last, undrained endpoint.
BindFails(t) ==
    /\ pc[t] = "bind"
    /\ Report(t, "ConnectionFailed")
    /\ UNCHANGED <<appVars, socket>>

\* A peer connects and the handshake succeeds.
Accept(t) ==
    /\ pc[t] = "accept"
    /\ Goto(t, "receive")
    /\ UNCHANGED <<appVars, socket>>

AcceptFails(t) ==
    /\ pc[t] = "accept"
    /\ Report(t, "ConnectionFailed")
    /\ UNCHANGED <<appVars, socket>>

\* Mutant of PollCancelled: the accept is awaited without the poll.
PollMissing(t) == FALSE

\* The poll that runs beside the accept sees the flag.
PollCancelled(t) ==
    /\ pc[t] = "accept"
    /\ cancel_listener
    /\ Report(t, "ConnectionFailed")            \* "Listener cancelled"
    /\ UNCHANGED <<appVars, socket>>

\* run_gui_receive_loop serves transfers, whatever the flag says, until the
\* peer disconnects; the loop then goes round. A completed or a rejected
\* transfer changes no state of the application.
PeerDisconnects(t) ==
    /\ pc[t] = "receive"
    /\ Goto(t, "check")
    /\ UNCHANGED <<appVars, socket>>

\* A disk or protocol error ends the listening loop.
ReceiveFails(t) ==
    /\ pc[t] = "receive"
    /\ Report(t, "ConnectionFailed")
    /\ UNCHANGED <<appVars, socket>>

\* quinn gives a socket back once the endpoint is dropped and its connections
\* are drained, some time after the task has moved on.
Drained(p) ==
    /\ socket[p] # None
    /\ pc[socket[p]] \notin {"accept", "receive"}
    /\ socket' = [socket EXCEPT ![p] = None]
    /\ UNCHANGED <<appVars, taskVars>>

\* connect_to_peer and pair_via_rendezvous end. Stopping does not reach them.
ConnectEnds(t, r) ==
    /\ pc[t] = "work" /\ kind[t] = "connect"
    /\ Report(t, r)
    /\ UNCHANGED <<appVars, socket>>

\* send_path has its own handle on the session and runs to its end.
SendEnds(t, r) ==
    /\ pc[t] = "work" /\ kind[t] = "send"
    /\ Report(t, r)
    /\ UNCHANGED <<appVars, socket>>

-----------------------------------------------------------------------------
(* What the user does; a button is there when the view shows it. What the  *)
(* form holds (mode, port, addresses, code) matters when Start is pressed. *)

\* handle_start_connection in Listen mode resets the flag of the last stop,
\* whether or not the loop it was meant for has seen it.
StartListening(p) ==
    /\ ~is_active
    /\ status_message' = "Listening" /\ is_active' = TRUE
    /\ cancel_listener' = FALSE
    /\ perform("listener", "check", p)
    /\ UNCHANGED <<session, last_report, sendVars, socket>>

\* In Connect and Rendezvous mode. (Pairing with an empty field changes nothing.)
StartConnecting(label) ==
    /\ ~is_active
    /\ status_message' = label
    /\ is_active' = TRUE
    /\ perform("connect", "work", None)
    /\ UNCHANGED <<session, last_report, cancel_listener, sendVars, socket>>

\* Mutant of StopConnection: the listener is not told.
StopUnheard ==
    /\ is_active
    /\ session' = None
    /\ is_active' = FALSE /\ status_message' = "Idle"
    /\ UNCHANGED <<last_report, cancel_listener, sendVars, taskVars, socket>>

StopConnection ==
    /\ is_active
    /\ cancel_listener' = TRUE
    /\ session' = None
    /\ is_active' = FALSE /\ status_message' = "Idle"
    /\ UNCHANGED <<last_report, sendVars, taskVars, socket>>

\* Mutant of SendButton: Send stays enabled during a send.
SendButtonAlways == TRUE

\* view_send_tab enables the button (the path is entered) between sends only.
SendButton == transfer_progress = None

\* handle_start_send, with a session and a path that exists; it returns early
\* without either. The new record and the progress are those of the new task.
StartSend ==
    /\ SendButton
    /\ session # None
    /\ perform("send", "work", None)
    /\ transfer_progress' = started + 1
    /\ current_transfer' = started + 1
    /\ UNCHANGED <<connectionVars, cancel_listener, history, socket>>

-----------------------------------------------------------------------------
(* The update function on the messages of the tasks. *)

\* The message of task t is the next one, of the given kind.
Handle(t, r) ==
    /\ queue # <<>> /\ t = Head(queue)
    /\ result[t] = r
    /\ queue' = Tail(queue)
    /\ UNCHANGED <<started, kind, pc, bound, result, cancel_listener, socket>>

\* The message of a connection task: it says nothing of the task it is from.
HandleConnection(t, r) ==
    /\ Handle(t, r)
    /\ last_report' = [task |-> t, after |-> started]

\* Mutant of ConnectionEstablished: a listener's report is taken for a session.
EstablishedAsSession(t) ==
    /\ HandleConnection(t, "ConnectionEstablished")
    /\ session' = t
    /\ is_active' = TRUE /\ status_message' = "Connected"
    /\ UNCHANGED sendVars

ConnectionEstablished(t) ==
    /\ HandleConnection(t, "ConnectionEstablished")
    /\ is_active' = TRUE /\ status_message' = "Connected"
    /\ UNCHANGED <<session, sendVars>>

ConnectionEstablishedWithSession(t) ==
    /\ HandleConnection(t, "ConnectionEstablishedWithSession")
    /\ session' = t
    /\ is_active' = TRUE /\ status_message' = "Connected"
    /\ UNCHANGED <<sendVars>>

\* Mutant of ConnectionFailed: the label stays.
FailedLabelStays(t) ==
    /\ HandleConnection(t, "ConnectionFailed")
    /\ is_active' = FALSE
    /\ UNCHANGED <<status_message, session, sendVars>>

ConnectionFailed(t) ==
    /\ HandleConnection(t, "ConnectionFailed")
    /\ is_active' = FALSE /\ status_message' = "Idle"
    /\ UNCHANGED <<session, sendVars>>

\* The record that is current, if any, is closed and added to the history.
LogTransfer(status) ==
    /\ history' = IF current_transfer = None THEN history
                  ELSE Append(history, [of |-> current_transfer, status |-> status])
    /\ current_transfer' = None
    /\ transfer_progress' = None

SendComplete(t) ==
    /\ Handle(t, "SendComplete")
    /\ LogTransfer("Completed")
    /\ UNCHANGED connectionVars

SendFailed(t) ==
    /\ Handle(t, "SendFailed")
    /\ LogTransfer("Failed")
    /\ UNCHANGED connectionVars

-----------------------------------------------------------------------------
TaskStep(t) ==
    \/ CheckCancelled(t)
    \/ Bind(t)
    \/ BindFails(t)
    \/ PollCancelled(t)
    \/ \E r \in {"ConnectionEstablishedWithSession", "ConnectionFailed"} : ConnectEnds(t, r)

PeerStep(t) ==
    \/ Accept(t)
    \/ AcceptFails(t)
    \/ PeerDisconnects(t)
    \/ ReceiveFails(t)
    \/ \E r \in {"SendComplete", "SendFailed"} : SendEnds(t, r)

Update(t) ==
    \/ ConnectionEstablished(t)
    \/ ConnectionEstablishedWithSession(t)
    \/ ConnectionFailed(t)
    \/ SendComplete(t)
    \/ SendFailed(t)

UserStep ==
    \/ \E p \in Port : StartListening(p)
    \/ \E label \in {"Connecting", "Pairing"} : StartConnecting(label)
    \/ StopConnection
    \/ StartSend

Next ==
    \/ UserStep
    \/ \E t \in Task : TaskStep(t) \/ PeerStep(t) \/ Update(t)
    \/ \E p \in Port : Drained(p)

Spec == Init /\ [][Next]_vars

\* tokio runs every ready task (the poll sleeps 100 ms; connecting and pairing
\* have timeouts) and the update function handles every message. Nothing is
\* assumed of users, of peers that connect, and of a send.
FairSpec ==
    /\ Spec
    /\ \A t \in Task : WF_vars(TaskStep(t)) /\ WF_vars(Update(t))

-----------------------------------------------------------------------------
(* Properties. *)

Range(s) == {s[i] : i \in DOMAIN s}

\* Every send is recorded once in the history (history.add_record in
\* SendComplete and SendFailed), under the outcome of its own task, as soon as
\* its message is handled: no record is lost or given the outcome of another.
SendsRecordedOnce ==
    /\ \A i, j \in DOMAIN history : history[i].of = history[j].of => i = j
    /\ \A i \in DOMAIN history :
           result[history[i].of] =
               IF history[i].status = "Completed" THEN "SendComplete" ELSE "SendFailed"
    /\ \A t \in Task :
           kind[t] = "send" /\ pc[t] = "done" /\ t \notin Range(queue)
               => \E i \in DOMAIN history : history[i].of = t

Reported(t) == pc[t] = "done" /\ t \notin Range(queue)

\* A listener runs behind an inactive display, where no button stops it, only
\* because update has taken the failure of another connection task, which came
\* while it ran, for its own; nothing has been reported since.
HiddenListenerExplained ==
    \A t \in Task :
        Listening(t) /\ ~cancel_listener /\ ~is_active =>
            /\ last_report.task \in Task \ {t}
            /\ result[last_report.task] = "ConnectionFailed"
            /\ t <= last_report.after

ConnectionTask(t) == kind[t] \in {"listener", "connect"}

\* What the label says is under way (Listening, Connecting, Pairing) is the last
\* connection task that was started, and update has handled no connection message
\* since, its own or a late one. The label says Connected without a session only
\* when the last such message was a listener's ConnectionEstablished, and nothing
\* was started after it.
LabelsTrue ==
    /\ status_message \in {"Listening", "Connecting", "Pairing"} =>
           \E t \in Task :
               /\ kind[t] = IF status_message = "Listening" THEN "listener" ELSE "connect"
               /\ Running(t) \/ t \in Range(queue)
               /\ last_report.after < t
               /\ \A u \in Task : u > t => ~ ConnectionTask(u)
    /\ status_message = "Connected" /\ session = None =>
           /\ last_report.task # None
           /\ result[last_report.task] = "ConnectionEstablished"
           /\ \A u \in Task : u > last_report.after => ~ ConnectionTask(u)

\* Stopping reaches every listener that waits for a peer, unless a new start
\* takes the flag back first; one that serves a peer goes on until that peer leaves.
StopReachesListeners ==
    \A t \in Task :
        cancel_listener /\ Listening(t)
            ~> ~cancel_listener \/ ~Listening(t) \/ pc[t] = "receive"
=============================================================================
