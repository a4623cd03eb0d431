---------------------------- MODULE DesktopProofs ----------------------------
(***************************************************************************)
(* Proofs about Desktop: what the display shows, and the record of every   *)
(* send, are right for any number of background tasks and ports, in        *)
(* whatever order the messages of the tasks are handled.                   *)
(***************************************************************************)
EXTENDS Desktop, TLAPS

-----------------------------------------------------------------------------
(* The inductive invariant. *)

\* A task, once started, is of the kind its steps are for; what it ends with is
\* a message of its kind, and it has one exactly when it has ended.
TasksInv ==
    \A t \in Task :
        /\ t > started <=> kind[t] = "none"
        /\ pc[t] = "none" <=> kind[t] = "none"
        /\ pc[t] \in {"check", "bind", "accept", "receive"} => kind[t] = "listener"
        /\ pc[t] = "work" => kind[t] \in {"connect", "send"}
        /\ result[t] # "none" => pc[t] = "done"
        /\ result[t] = "ConnectionEstablished" => kind[t] = "listener"
        /\ result[t] = "ConnectionEstablishedWithSession" => kind[t] = "connect"
        /\ result[t] = "ConnectionFailed" => kind[t] \in {"listener", "connect"}
        /\ result[t] \in {"SendComplete", "SendFailed"} => kind[t] = "send"

\* A message is queued once, by a task that has ended.
QueueInv ==
    /\ \A t \in Range(queue) : pc[t] = "done"
    /\ \A i, j \in DOMAIN queue : queue[i] = queue[j] => i = j

\* The send button and the record in current_transfer guard each other: the only
\* send that is still under way, or whose message is queued, is the current one.
SendInv ==
    /\ current_transfer = transfer_progress
    /\ \A t \in Task :
           kind[t] = "send" /\ (Running(t) \/ t \in Range(queue)) => current_transfer = t

\* What is in the history has been reported.
HistoryInv ==
    \A i \in DOMAIN history : Reported(history[i].of)

\* The last report was that of a task that has ended, and came after no more
\* tasks than have been started.
LastReportInv ==
    /\ last_report.task # None => Reported(last_report.task)
    /\ last_report.after <= started

IInv ==
    /\ TypeOK
    /\ TasksInv
    /\ QueueInv
    /\ SendInv
    /\ HistoryInv
    /\ LastReportInv
    /\ SendsRecordedOnce
    /\ LabelsTrue
    /\ HiddenListenerExplained

-----------------------------------------------------------------------------
(* Queues. *)

\* What a queue holds after a message has joined it.
LEMMA RangeOfAppend ==
    ASSUME NEW S, NEW s \in Seq(S), NEW x \in S
    PROVE  Range(Append(s, x)) = Range(s) \cup {x}
<1>1. Range(Append(s, x)) \subseteq Range(s) \cup {x}
  BY DEF Range
<1>2. x \in Range(Append(s, x))
  <2>1. Len(s) + 1 \in DOMAIN Append(s, x) /\ Append(s, x)[Len(s) + 1] = x
    OBVIOUS
  <2> QED BY <2>1 DEF Range
<1>3. ASSUME NEW y \in Range(s) PROVE y \in Range(Append(s, x))
  <2>1. PICK i \in DOMAIN s : y = s[i]
    BY DEF Range
  <2>2. i \in DOMAIN Append(s, x) /\ Append(s, x)[i] = y
    BY <2>1
  <2> QED BY <2>2 DEF Range
<1> QED BY <1>1, <1>2, <1>3

\* A message that was not queued is queued once.
LEMMA AppendDistinct ==
    ASSUME NEW S, NEW s \in Seq(S), NEW x \in S, x \notin Range(s),
           \A i, j \in DOMAIN s : s[i] = s[j] => i = j
    PROVE  \A i, j \in DOMAIN Append(s, x) :
               Append(s, x)[i] = Append(s, x)[j] => i = j
BY DEF Range

\* What a queue of distinct messages holds after the first was taken from it.
LEMMA RangeOfTail ==
    ASSUME NEW S, NEW s \in Seq(S), s # <<>>,
           \A i, j \in DOMAIN s : s[i] = s[j] => i = j
    PROVE  /\ Head(s) \in Range(s)
           /\ Tail(s) \in Seq(S)
           /\ Range(Tail(s)) = Range(s) \ {Head(s)}
           /\ \A i, j \in DOMAIN Tail(s) : Tail(s)[i] = Tail(s)[j] => i = j
<1>1. /\ Len(s) \in Nat /\ Len(s) > 0 /\ Head(s) = s[1]
      /\ Tail(s) \in Seq(S) /\ Len(Tail(s)) = Len(s) - 1
      /\ \A i \in 1 .. Len(s) - 1 : Tail(s)[i] = s[i + 1]
      /\ DOMAIN s = 1 .. Len(s) /\ DOMAIN Tail(s) = 1 .. Len(s) - 1
  OBVIOUS
<1>2. Head(s) \in Range(s)
  BY <1>1 DEF Range
<1>3. ASSUME NEW y \in Range(Tail(s)) PROVE y \in Range(s) /\ y # Head(s)
  <2>1. PICK i \in 1 .. Len(s) - 1 : y = Tail(s)[i]
    BY <1>1 DEF Range
  <2>2. i + 1 \in DOMAIN s /\ y = s[i + 1] /\ i + 1 # 1 /\ 1 \in DOMAIN s
    BY <1>1, <2>1
  <2> QED BY <1>1, <2>2 DEF Range
<1>4. ASSUME NEW y \in Range(s), y # Head(s) PROVE y \in Range(Tail(s))
  <2>1. PICK i \in 1 .. Len(s) : y = s[i]
    BY <1>1 DEF Range
  <2>2. i # 1
    BY <1>1, <1>4, <2>1
  <2>3. i - 1 \in DOMAIN Tail(s) /\ Tail(s)[i - 1] = y
    BY <1>1, <2>1, <2>2
  <2> QED BY <2>3 DEF Range
<1>5. ASSUME NEW i \in DOMAIN Tail(s), NEW j \in DOMAIN Tail(s), Tail(s)[i] = Tail(s)[j]
      PROVE  i = j
  <2>1. i \in Nat /\ j \in Nat /\ i + 1 \in DOMAIN s /\ j + 1 \in DOMAIN s /\ s[i + 1] = s[j + 1]
    BY <1>1, <1>5
  <2>2. i + 1 = j + 1
    BY <2>1
  <2> QED BY <2>1, <2>2
<1> QED BY <1>1, <1>2, <1>3, <1>4, <1>5

-----------------------------------------------------------------------------
LEMMA InitIInv == Init => IInv
<1> SUFFICES ASSUME Init PROVE IInv
  OBVIOUS
<1> USE DesktopAssumption DEF Init
<1>1. DOMAIN queue = {} /\ DOMAIN history = {}
  OBVIOUS
<1>2. TypeOK
  <2>1. history \in Seq(Record) /\ queue \in Seq(Task) /\ started \in 0 .. MaxTasks
    OBVIOUS
  <2>2. kind \in [Task -> Kind] /\ result \in [Task -> Result]
    BY DEF Kind, Result
  <2>3. last_report \in [task : Task \cup {None}, after : 0 .. MaxTasks]
    OBVIOUS
  <2> QED BY <2>1, <2>2, <2>3 DEF TypeOK, Status
<1>3. TasksInv
  BY DEF TasksInv, Task
<1>4. QueueInv /\ SendInv /\ HistoryInv /\ LastReportInv
  BY <1>1 DEF QueueInv, SendInv, HistoryInv, LastReportInv, Range
<1>5. SendsRecordedOnce /\ LabelsTrue /\ HiddenListenerExplained
  BY <1>1 DEF SendsRecordedOnce, LabelsTrue, HiddenListenerExplained, Listening, Running
<1> QED BY <1>2, <1>3, <1>4, <1>5 DEF IInv

\* A record is of a task.
LEMMA RecordsOfTasks ==
    ASSUME NEW h \in Seq(Record), NEW i \in DOMAIN h
    PROVE  h[i].of \in Task /\ h[i].status \in {"Completed", "Failed"}
<1>1. h[i] \in Record
  OBVIOUS
<1> QED BY <1>1 DEF Record

-----------------------------------------------------------------------------
(* One lemma per kind of step. *)

\* Nothing but who holds which socket changes.
LEMMA SocketsOnly ==
    ASSUME IInv, UNCHANGED <<appVars, taskVars>>,
           socket' \in [Port -> Task \cup {None}]
    PROVE  IInv'
<1> USE DEF appVars, taskVars, connectionVars, sendVars
<1>1. TypeOK' /\ TasksInv' /\ QueueInv' /\ SendInv'
  BY DEF IInv, TypeOK, TasksInv, QueueInv, SendInv, Running, Range
<1>2. HistoryInv' /\ LastReportInv' /\ SendsRecordedOnce'
  BY DEF IInv, HistoryInv, LastReportInv, Reported, SendsRecordedOnce, Range
<1>3. LabelsTrue' /\ HiddenListenerExplained'
  BY DEF IInv, LabelsTrue, HiddenListenerExplained, ConnectionTask, Listening, Running, Range
<1> QED BY <1>1, <1>2, <1>3 DEF IInv

\* A listening task goes from one step of its loop to another.
LEMMA GotoKeeps ==
    ASSUME IInv, NEW t \in Task, NEW step \in {"check", "bind", "accept", "receive"},
           pc[t] \in {"check", "bind", "accept", "receive"},
           Goto(t, step), UNCHANGED appVars,
           socket' \in [Port -> Task \cup {None}]
    PROVE  IInv'
<1> USE DEF appVars, connectionVars, sendVars, Goto
<1>0. TypeOK /\ TasksInv /\ QueueInv /\ SendInv /\ HistoryInv /\ LastReportInv
  BY DEF IInv
<1>1. /\ pc' \in [Task -> {"none", "check", "bind", "accept", "receive", "work", "done"}]
      /\ \A u \in Task : pc'[u] = IF u = t THEN step ELSE pc[u]
      /\ \A u \in Task : Running(u)' <=> Running(u)
      /\ \A u \in Task : pc'[u] = "done" <=> pc[u] = "done"
  BY <1>0 DEF TypeOK, Running
<1>2. Range(queue)' = Range(queue)
  BY DEF Range
<1>3. \A u \in Task : Reported(u)' <=> Reported(u)
  BY <1>1, <1>2 DEF Reported
<1>4. TypeOK'
  BY <1>0, <1>1 DEF TypeOK
<1>5. TasksInv'
  BY <1>0, <1>1 DEF TasksInv
<1>6. QueueInv' /\ SendInv'
  <2>1. Range(queue) \subseteq Task
    BY <1>0 DEF TypeOK, Range
  <2> QED BY <1>0, <1>1, <1>2, <2>1 DEF QueueInv, SendInv
<1>7. HistoryInv'
  <2>1. \A i \in DOMAIN history : history[i].of \in Task
    BY <1>0, RecordsOfTasks DEF TypeOK
  <2> QED BY <1>0, <1>3, <2>1 DEF HistoryInv
<1>8. SendsRecordedOnce'
  BY <1>1, <1>2 DEF IInv, SendsRecordedOnce
<1>9. LabelsTrue'
  BY <1>1, <1>2 DEF IInv, LabelsTrue, ConnectionTask
<1>10. HiddenListenerExplained'
  BY <1>1 DEF IInv, HiddenListenerExplained, Listening
<1>11. LastReportInv'
  BY <1>0, <1>3 DEF LastReportInv, TypeOK
<1> QED BY <1>4, <1>5, <1>6, <1>7, <1>8, <1>9, <1>10, <1>11 DEF IInv

\* A running task ends with a message of its kind.
LEMMA ReportKeeps ==
    ASSUME IInv, NEW t \in Task, Running(t), NEW r \in Result \ {"none"},
           Report(t, r), UNCHANGED <<appVars, socket>>,
           r = "ConnectionEstablished" => kind[t] = "listener",
           r = "ConnectionEstablishedWithSession" => kind[t] = "connect",
           r = "ConnectionFailed" => kind[t] \in {"listener", "connect"},
           r \in {"SendComplete", "SendFailed"} => kind[t] = "send"
    PROVE  IInv'
<1> USE DEF appVars, connectionVars, sendVars, Report
<1>0. TypeOK /\ TasksInv /\ QueueInv /\ SendInv /\ HistoryInv /\ LastReportInv
  BY DEF IInv
<1>1. /\ pc' \in [Task -> {"none", "check", "bind", "accept", "receive", "work", "done"}]
      /\ \A u \in Task : pc'[u] = IF u = t THEN "done" ELSE pc[u]
      /\ \A u \in Task : u # t => (Running(u)' <=> Running(u))
      /\ ~ Running(t)'
      /\ pc[t] # "done" /\ pc[t] # "none"
  BY <1>0 DEF TypeOK, Running
<1>2. /\ result' \in [Task -> Result]
      /\ \A u \in Task : result'[u] = IF u = t THEN r ELSE result[u]
  BY <1>0 DEF TypeOK
<1>3. /\ t \notin Range(queue)
      /\ queue' \in Seq(Task)
      /\ Range(queue)' = Range(queue) \cup {t}
      /\ Range(queue) \subseteq Task
  <2>1. queue \in Seq(Task) /\ queue' = Append(queue, t)
    BY <1>0 DEF TypeOK
  <2>2. Range(queue)' = Range(Append(queue, t))
    BY <2>1 DEF Range
  <2>3. Range(queue) \subseteq Task
    BY <2>1 DEF Range
  <2>4. t \notin Range(queue)
    BY <1>0, <1>1 DEF QueueInv
  <2> QED BY <2>1, <2>2, <2>3, <2>4, RangeOfAppend
<1>4. \A u \in Task : Reported(u)' <=> Reported(u)
  BY <1>1, <1>3 DEF Reported
<1>5. TypeOK'
  BY <1>0, <1>1, <1>2, <1>3 DEF TypeOK
<1>6. TasksInv'
  BY <1>0, <1>1, <1>2 DEF TasksInv
<1>7. QueueInv'
  <2>1. \A i, j \in DOMAIN queue' : queue'[i] = queue'[j] => i = j
    BY <1>0, <1>3, AppendDistinct DEF TypeOK, QueueInv
  <2> QED BY <1>0, <1>1, <1>3, <2>1 DEF QueueInv
<1>8. SendInv'
  BY <1>0, <1>1, <1>3 DEF SendInv
<1>9. \A i \in DOMAIN history : history[i].of \in Task
  BY <1>0, RecordsOfTasks DEF TypeOK
<1>10. HistoryInv'
  BY <1>0, <1>4, <1>9 DEF HistoryInv
<1>11. SendsRecordedOnce'
  <2>1. \A i \in DOMAIN history : history[i].of # t
    BY <1>0, <1>1 DEF HistoryInv, Reported
  <2>2. \A i \in DOMAIN history : result'[history[i].of] = result[history[i].of]
    BY <1>2, <1>9, <2>1
  <2> QED BY <1>1, <1>3, <2>2 DEF IInv, SendsRecordedOnce
<1>12. last_report.task # None => result'[last_report.task] = result[last_report.task]
  BY <1>0, <1>1, <1>2 DEF LastReportInv, Reported, TypeOK
<1>13. LabelsTrue'
  <2>1. ASSUME status_message \in {"Listening", "Connecting", "Pairing"}
        PROVE  \E u \in Task :
                   /\ kind[u] = IF status_message = "Listening" THEN "listener" ELSE "connect"
                   /\ Running(u)' \/ u \in Range(queue)'
                   /\ last_report.after < u
                   /\ \A w \in Task : w > u => ~ ConnectionTask(w)
    BY <1>1, <1>3, <2>1 DEF IInv, LabelsTrue
  <2>2. ASSUME status_message = "Connected", session = None
        PROVE  /\ last_report.task # None
               /\ result'[last_report.task] = "ConnectionEstablished"
               /\ \A u \in Task : u > last_report.after => ~ ConnectionTask(u)
    BY <1>12, <2>2 DEF IInv, LabelsTrue
  <2> QED BY <2>1, <2>2 DEF LabelsTrue, ConnectionTask
<1>14. HiddenListenerExplained'
  BY <1>1, <1>12, DesktopAssumption DEF IInv, HiddenListenerExplained, Listening
<1>15. LastReportInv'
  BY <1>0, <1>4 DEF LastReportInv, TypeOK
<1> QED BY <1>5, <1>6, <1>7, <1>8, <1>10, <1>11, <1>13, <1>14, <1>15 DEF IInv

\* The user starts a task of kind k.
LEMMA PerformKeeps ==
    ASSUME IInv, NEW k \in {"listener", "connect", "send"},
           NEW first \in {"check", "work"}, k = "listener" <=> first = "check",
           NEW p \in Port \cup {None}, perform(k, first, p),
           UNCHANGED <<history, socket>>,
           is_active' \in BOOLEAN, cancel_listener' \in BOOLEAN,
           status_message' \in Status, session' = session, last_report' = last_report,
           k = "send" => /\ SendButton
                         /\ current_transfer' = started + 1
                         /\ transfer_progress' = started + 1
                         /\ UNCHANGED <<connectionVars, cancel_listener>>,
           k # "send" => /\ UNCHANGED sendVars
                         /\ is_active' = TRUE
                         /\ status_message' \in {"Listening", "Connecting", "Pairing"}
                         /\ status_message' = "Listening" <=> k = "listener"
    PROVE  IInv'
<1> USE DEF connectionVars, sendVars
<1>0. TypeOK /\ TasksInv /\ QueueInv /\ SendInv /\ HistoryInv /\ LastReportInv
  BY DEF IInv
<1> PICK n \in Task : n = started + 1
  BY <1>0, DesktopAssumption DEF TypeOK, perform, Task
<1>1. /\ started \in Nat /\ started' = n
      /\ n \in 0 .. MaxTasks /\ n > started
  BY <1>0, DesktopAssumption DEF TypeOK, perform, Task
<1>2. /\ kind' = [kind EXCEPT ![n] = k]
      /\ pc' = [pc EXCEPT ![n] = first]
      /\ bound' = [bound EXCEPT ![n] = p]
      /\ UNCHANGED <<result, queue>>
  BY DEF perform
<1>3. kind[n] = "none" /\ pc[n] = "none" /\ result[n] = "none"
  BY <1>0, <1>1 DEF TasksInv, TypeOK
<1>4. /\ \A u \in Task : u > started' <=> u > started /\ u # n
      /\ \A u \in Task : kind'[u] = IF u = n THEN k ELSE kind[u]
      /\ \A u \in Task : pc'[u] = IF u = n THEN first ELSE pc[u]
  <2>1. ASSUME NEW u \in Task PROVE u > started' <=> u > started /\ u # n
    BY <1>1, DesktopAssumption DEF Task
  <2> QED BY <1>0, <1>2, <2>1 DEF TypeOK
<1>5. /\ \A u \in Task : u # n => (Running(u)' <=> Running(u))
      /\ Running(n)' /\ ~ Running(n)
  BY <1>3, <1>4, <1>1 DEF Running
<1>6. /\ Range(queue)' = Range(queue)
      /\ Range(queue) \subseteq Task
      /\ n \notin Range(queue)
  BY <1>0, <1>2, <1>3 DEF Range, TypeOK, QueueInv
<1>7. \A u \in Task : Reported(u)' <=> Reported(u)
  BY <1>3, <1>4, <1>6 DEF Reported
<1>8. TypeOK'
  <2>1. /\ kind' \in [Task -> Kind] /\ bound' \in [Task -> Port \cup {None}]
        /\ pc' \in [Task -> {"none", "check", "bind", "accept", "receive", "work", "done"}]
    BY <1>0, <1>1, <1>2 DEF TypeOK, Kind
  <2>2. session' \in {u \in Task : kind'[u] = "connect"} \cup {None}
    BY <1>0, <1>3, <1>4 DEF TypeOK
  <2>3. transfer_progress' \in Task \cup {None} /\ current_transfer' \in Task \cup {None}
    BY <1>0, <1>1 DEF TypeOK
  <2> QED BY <1>0, <1>1, <1>2, <2>1, <2>2, <2>3 DEF TypeOK
<1>9. TasksInv'
  <2>1. \A u \in Task : result'[u] = result[u]
    BY <1>2
  <2> QED BY <1>0, <1>3, <1>4, <2>1 DEF TasksInv
<1>10. QueueInv'
  BY <1>0, <1>2, <1>3, <1>4, <1>6 DEF QueueInv
<1>11. SendInv'
  <2>1. CASE k = "send"
    <3>1. \A u \in Task : ~ (kind[u] = "send" /\ (Running(u) \/ u \in Range(queue)))
      BY <1>0, <2>1, DesktopAssumption DEF SendInv, SendButton
    <3>2. current_transfer' = n /\ transfer_progress' = n
      BY <2>1
    <3> QED BY <1>1, <1>4, <1>5, <1>6, <2>1, <3>1, <3>2 DEF SendInv
  <2>2. CASE k # "send"
    BY <1>0, <1>3, <1>4, <1>5, <1>6, <2>2 DEF SendInv
  <2> QED BY <2>1, <2>2
<1>12. \A i \in DOMAIN history : history[i].of \in Task
  BY <1>0, RecordsOfTasks DEF TypeOK
<1>13. HistoryInv'
  BY <1>0, <1>7, <1>12 DEF HistoryInv
<1>14. SendsRecordedOnce'
  BY <1>2, <1>4, <1>5, <1>6, <1>3 DEF IInv, SendsRecordedOnce, Running
<1>15. \A u \in Task : u > n => kind'[u] = "none"
  BY <1>0, <1>1, <1>4, DesktopAssumption DEF TasksInv, Task
<1>16. last_report.after < n /\ last_report.after \in Nat
  BY <1>0, <1>1 DEF LastReportInv, TypeOK
<1>17. LabelsTrue'
  <2>1. CASE k = "send"
    <3>1. \A u \in Task : ConnectionTask(u)' <=> ConnectionTask(u)
      BY <1>3, <1>4, <2>1 DEF ConnectionTask
    <3>2. ASSUME status_message \in {"Listening", "Connecting", "Pairing"}
          PROVE  \E u \in Task :
                     /\ kind'[u] = IF status_message = "Listening" THEN "listener" ELSE "connect"
                     /\ Running(u)' \/ u \in Range(queue)'
                     /\ last_report.after < u
                     /\ \A w \in Task : w > u => ~ ConnectionTask(w)
      <4>1. PICK u \in Task :
                     /\ kind[u] = IF status_message = "Listening" THEN "listener" ELSE "connect"
                     /\ Running(u) \/ u \in Range(queue)
                     /\ last_report.after < u
                     /\ \A w \in Task : w > u => ~ ConnectionTask(w)
        BY <3>2 DEF IInv, LabelsTrue
      <4>2. u # n
        BY <1>3, <4>1
      <4> QED BY <1>4, <1>5, <1>6, <4>1, <4>2
    <3>3. ASSUME status_message = "Connected", session = None
          PROVE  /\ last_report.task # None
                 /\ result[last_report.task] = "ConnectionEstablished"
                 /\ \A u \in Task : u > last_report.after => ~ ConnectionTask(u)
      BY <3>3 DEF IInv, LabelsTrue
    <3> QED BY <1>2, <2>1, <3>1, <3>2, <3>3 DEF LabelsTrue
  <2>2. CASE k # "send"
    <3>1. kind'[n] = (IF status_message' = "Listening" THEN "listener" ELSE "connect")
      BY <1>1, <1>4, <2>2
    <3>2. \A u \in Task : u > n => ~ ConnectionTask(u)'
      BY <1>15 DEF ConnectionTask
    <3> QED BY <1>5, <1>16, <2>2, <3>1, <3>2 DEF LabelsTrue
  <2> QED BY <2>1, <2>2
<1>18. HiddenListenerExplained'
  <2>1. CASE k = "send"
    BY <1>2, <1>3, <1>4, <1>5, <2>1 DEF IInv, HiddenListenerExplained, Listening
  <2>2. CASE k # "send"
    BY <2>2 DEF HiddenListenerExplained
  <2> QED BY <2>1, <2>2
<1>19. LastReportInv'
  <2>1. last_report.after <= started'
    BY <1>1, <1>16 DEF Task
  <2>2. last_report.task # None => Reported(last_report.task)'
    BY <1>0, <1>7 DEF LastReportInv, TypeOK
  <2> QED BY <2>1, <2>2 DEF LastReportInv
<1> QED BY <1>8, <1>9, <1>10, <1>11, <1>13, <1>14, <1>17, <1>18, <1>19 DEF IInv

\* The stop button: the display is idle, every listener is told.
LEMMA StopKeeps ==
    ASSUME IInv, StopConnection
    PROVE  IInv'
<1> USE DEF StopConnection, taskVars, sendVars
<1>1. TypeOK'
  BY DEF IInv, TypeOK, Status
<1>2. TasksInv' /\ QueueInv' /\ SendInv'
  BY DEF IInv, TasksInv, QueueInv, SendInv, Running, Range
<1>3. HistoryInv' /\ LastReportInv' /\ SendsRecordedOnce'
  BY DEF IInv, HistoryInv, LastReportInv, Reported, SendsRecordedOnce, Range
<1>4. LabelsTrue' /\ HiddenListenerExplained'
  BY DEF LabelsTrue, HiddenListenerExplained
<1> QED BY <1>1, <1>2, <1>3, <1>4 DEF IInv

\* What taking the message of task t from the queue does to the tasks.
LEMMA HandleFacts ==
    ASSUME TypeOK, TasksInv, QueueInv, NEW t \in Task, NEW r, Handle(t, r)
    PROVE  /\ t \in Range(queue) /\ pc[t] = "done" /\ result[t] = r
           /\ queue' \in Seq(Task)
           /\ Range(queue)' = Range(queue) \ {t}
           /\ Range(queue) \subseteq Task
           /\ TasksInv' /\ QueueInv'
           /\ \A u \in Task : Running(u)' <=> Running(u)
           /\ \A u \in Task : Reported(u)' <=> Reported(u) \/ u = t
<1> USE DEF Handle
<1>1. queue \in Seq(Task) /\ queue # <<>> /\ t = Head(queue) /\ queue' = Tail(queue)
  BY DEF TypeOK
<1>2. Range(queue)' = Range(Tail(queue))
  BY <1>1 DEF Range
<1>3. /\ t \in Range(queue)
      /\ queue' \in Seq(Task)
      /\ Range(queue)' = Range(queue) \ {t}
      /\ \A i, j \in DOMAIN queue' : queue'[i] = queue'[j] => i = j
  BY <1>1, <1>2, RangeOfTail DEF QueueInv
<1>4. Range(queue) \subseteq Task
  BY <1>1 DEF Range
<1>5. pc[t] = "done"
  BY <1>3 DEF QueueInv
<1>6. TasksInv'
  BY DEF TasksInv
<1>7. QueueInv'
  BY <1>3 DEF QueueInv
<1>8. \A u \in Task : Running(u)' <=> Running(u)
  BY DEF Running
<1>9. \A u \in Task : Reported(u)' <=> Reported(u) \/ u = t
  BY <1>3, <1>5 DEF Reported
<1> QED BY <1>3, <1>4, <1>5, <1>6, <1>7, <1>8, <1>9

\* The message of a listener, of a connect or of a pairing is handled.
LEMMA ConnectionMessageKeeps ==
    ASSUME IInv, NEW t \in Task, NEW r \in Result, HandleConnection(t, r),
           kind[t] \in {"listener", "connect"},
           UNCHANGED sendVars,
           \/ r = "ConnectionFailed" /\ ~ is_active' /\ status_message' = "Idle" /\ session' = session
           \/ /\ is_active' /\ status_message' = "Connected"
              /\ \/ r = "ConnectionEstablished" /\ session' = session
                 \/ kind[t] = "connect" /\ session' = t,
           is_active' \in BOOLEAN
    PROVE  IInv'
<1> USE DEF sendVars
<1>0. TypeOK /\ TasksInv /\ QueueInv /\ SendInv /\ HistoryInv /\ LastReportInv
  BY DEF IInv
<1>1. /\ t \in Range(queue) /\ pc[t] = "done" /\ result[t] = r
      /\ queue' \in Seq(Task)
      /\ Range(queue)' = Range(queue) \ {t}
      /\ Range(queue) \subseteq Task
      /\ TasksInv' /\ QueueInv'
      /\ \A u \in Task : Running(u)' <=> Running(u)
      /\ \A u \in Task : Reported(u)' <=> Reported(u) \/ u = t
  BY <1>0, HandleFacts DEF HandleConnection
<1>2. /\ UNCHANGED <<started, kind, pc, bound, result, cancel_listener, socket>>
      /\ last_report' = [task |-> t, after |-> started]
  BY DEF Handle, HandleConnection
<1>3. TypeOK'
  BY <1>0, <1>1, <1>2 DEF TypeOK, Status
<1>4. SendInv'
  BY <1>0, <1>1, <1>2 DEF SendInv
<1>5. \A i \in DOMAIN history : history[i].of \in Task
  BY <1>0, RecordsOfTasks DEF TypeOK
<1>6. HistoryInv'
  BY <1>0, <1>1, <1>5 DEF HistoryInv
<1>7. SendsRecordedOnce'
  BY <1>1, <1>2 DEF IInv, SendsRecordedOnce
<1>8. \A u \in Task : u > started => kind[u] = "none"
  BY <1>0 DEF TasksInv
<1>9. LabelsTrue'
  <2>1. CASE session' = None
    <3>1. status_message' = "Connected" => result[t] = "ConnectionEstablished"
      BY <1>1, <2>1, DesktopAssumption
    <3>2. \A u \in Task : u > started => ~ ConnectionTask(u)'
      BY <1>2, <1>8 DEF ConnectionTask
    <3> QED BY <1>2, <3>1, <3>2, DesktopAssumption DEF LabelsTrue
  <2>2. CASE session' # None
    BY <2>2 DEF LabelsTrue
  <2> QED BY <2>1, <2>2
<1>10. HiddenListenerExplained'
  <2> SUFFICES ASSUME NEW u \in Task, Listening(u)', ~ is_active'
               PROVE  t # u /\ result[t] = "ConnectionFailed" /\ u <= started
    BY <1>2 DEF HiddenListenerExplained
  <2>1. u # t
    BY <1>1, <1>2 DEF Listening, Running
  <2>2. ~ (u > started)
    BY <1>2, <1>8 DEF Listening
  <2>3. u <= started
    BY <1>0, <2>2, DesktopAssumption DEF TypeOK, Task
  <2> QED BY <1>1, <2>1, <2>3
<1>11. LastReportInv'
  BY <1>0, <1>1, <1>2 DEF LastReportInv, TypeOK
<1> QED BY <1>1, <1>3, <1>4, <1>6, <1>7, <1>9, <1>10, <1>11 DEF IInv

\* The message of a send is handled: the record that is current is that of the
\* send that reports.
LEMMA SendMessageKeeps ==
    ASSUME IInv, NEW t \in Task,
           NEW status \in {"Completed", "Failed"},
           Handle(t, IF status = "Completed" THEN "SendComplete" ELSE "SendFailed"),
           LogTransfer(status), UNCHANGED connectionVars
    PROVE  IInv'
<1> USE DEF connectionVars
<1> DEFINE r == IF status = "Completed" THEN "SendComplete" ELSE "SendFailed"
<1>0. TypeOK /\ TasksInv /\ QueueInv /\ SendInv /\ HistoryInv /\ LastReportInv
  BY DEF IInv
<1>1. /\ t \in Range(queue) /\ pc[t] = "done" /\ result[t] = r
      /\ queue' \in Seq(Task)
      /\ Range(queue)' = Range(queue) \ {t}
      /\ Range(queue) \subseteq Task
      /\ TasksInv' /\ QueueInv'
      /\ \A u \in Task : Running(u)' <=> Running(u)
      /\ \A u \in Task : Reported(u)' <=> Reported(u) \/ u = t
  BY <1>0, HandleFacts
<1>2. UNCHANGED <<started, kind, pc, bound, result, cancel_listener, socket>>
  BY DEF Handle
<1>3. kind[t] = "send"
  BY <1>0, <1>1 DEF TasksInv
<1>4. current_transfer = t /\ t # None
  BY <1>0, <1>1, <1>3, DesktopAssumption DEF SendInv
<1> DEFINE rec == [of |-> t, status |-> status]
<1>5. /\ history' = Append(history, rec)
      /\ current_transfer' = None /\ transfer_progress' = None
  BY <1>4 DEF LogTransfer
<1>6. history \in Seq(Record) /\ rec \in Record
  BY <1>0 DEF TypeOK, Record
<1>7. /\ history' \in Seq(Record)
      /\ DOMAIN history' = DOMAIN history \cup {Len(history) + 1}
      /\ Len(history) + 1 \notin DOMAIN history
      /\ \A i \in DOMAIN history : history'[i] = history[i]
      /\ history'[Len(history) + 1] = rec
  BY <1>5, <1>6
<1>8. rec.of = t /\ rec.status = status
  OBVIOUS
<1>9. \A i \in DOMAIN history : history[i].of \in Task /\ history[i].of # t
  <2>1. \A i \in DOMAIN history : history[i].of \in Task
    BY <1>6, RecordsOfTasks
  <2> QED BY <1>0, <1>1, <2>1 DEF HistoryInv, Reported
<1> HIDE DEF rec
<1>10. TypeOK'
  BY <1>0, <1>1, <1>2, <1>5, <1>7 DEF TypeOK
<1>11. SendInv'
  <2>1. \A u \in Task : kind[u] = "send" /\ u # t => ~ Running(u) /\ u \notin Range(queue)
    BY <1>0, <1>4 DEF SendInv
  <2>2. ~ Running(t)
    BY <1>1 DEF Running
  <2> QED BY <1>1, <1>2, <1>5, <2>1, <2>2 DEF SendInv
<1>12. HistoryInv'
  BY <1>0, <1>1, <1>7, <1>8, <1>9 DEF HistoryInv
<1>13. SendsRecordedOnce'
  <2>1. \A i, j \in DOMAIN history' : history'[i].of = history'[j].of => i = j
    BY <1>7, <1>8, <1>9 DEF IInv, SendsRecordedOnce
  <2>2. \A i \in DOMAIN history' :
            result'[history'[i].of] =
                IF history'[i].status = "Completed" THEN "SendComplete" ELSE "SendFailed"
    <3>1. \A i \in DOMAIN history :
              result[history[i].of] =
                  IF history[i].status = "Completed" THEN "SendComplete" ELSE "SendFailed"
      BY DEF IInv, SendsRecordedOnce
    <3> QED BY <1>1, <1>2, <1>7, <1>8, <3>1
  <2>3. ASSUME NEW u \in Task, kind'[u] = "send", pc'[u] = "done", u \notin Range(queue)'
        PROVE  \E i \in DOMAIN history' : history'[i].of = u
    <3>1. CASE u = t
      BY <1>7, <1>8, <3>1
    <3>2. CASE u # t
      <4>1. PICK i \in DOMAIN history : history[i].of = u
        BY <1>1, <1>2, <2>3, <3>2 DEF IInv, SendsRecordedOnce
      <4> QED BY <1>7, <4>1
    <3> QED BY <3>1, <3>2
  <2> QED BY <2>1, <2>2, <2>3 DEF SendsRecordedOnce
<1>14. LabelsTrue'
  BY <1>1, <1>2, <1>3 DEF IInv, LabelsTrue, ConnectionTask
<1>15. HiddenListenerExplained'
  BY <1>1, <1>2 DEF IInv, HiddenListenerExplained, Listening
<1>16. LastReportInv'
  BY <1>0, <1>1, <1>2 DEF LastReportInv, TypeOK
<1> QED BY <1>1, <1>10, <1>11, <1>12, <1>13, <1>14, <1>15, <1>16 DEF IInv
-----------------------------------------------------------------------------
LEMMA NextKeeps == IInv /\ [Next]_vars => IInv'
<1> SUFFICES ASSUME IInv, [Next]_vars PROVE IInv'
  OBVIOUS
<1>0. TypeOK /\ TasksInv
  BY DEF IInv
<1>1. CASE UNCHANGED vars
  BY <1>0, <1>1, SocketsOnly DEF vars, appVars, taskVars, connectionVars, sendVars, TypeOK
<1>2. ASSUME NEW p \in Port, StartListening(p) PROVE IInv'
  BY <1>2, PerformKeeps DEF StartListening, sendVars, Status
<1>3. ASSUME NEW label \in {"Connecting", "Pairing"}, StartConnecting(label) PROVE IInv'
  BY <1>0, <1>3, PerformKeeps DEF StartConnecting, sendVars, Status, TypeOK
<1>4. CASE StopConnection
  BY <1>4, StopKeeps
<1>5. CASE StartSend
  BY <1>0, <1>5, PerformKeeps DEF StartSend, connectionVars, TypeOK
<1>6. ASSUME NEW t \in Task, TaskStep(t) PROVE IInv'
  <2>1. CASE CheckCancelled(t)
    <3>1. CASE cancel_listener
      BY <1>0, <2>1, <3>1, ReportKeeps DEF CheckCancelled, Running, TasksInv, Result
    <3>2. CASE ~ cancel_listener
      BY <1>0, <2>1, <3>2, GotoKeeps DEF CheckCancelled, TypeOK
    <3> QED BY <3>1, <3>2
  <2>2. CASE Bind(t)
    <3>1. socket' \in [Port -> Task \cup {None}]
      BY <1>0, <2>2 DEF Bind, TypeOK
    <3> QED BY <2>2, <3>1, GotoKeeps DEF Bind
  <2>3. CASE BindFails(t)
    BY <1>0, <2>3, ReportKeeps DEF BindFails, Running, TasksInv, Result
  <2>4. CASE PollCancelled(t)
    BY <1>0, <2>4, ReportKeeps DEF PollCancelled, Running, TasksInv, Result
  <2>5. ASSUME NEW r \in {"ConnectionEstablishedWithSession", "ConnectionFailed"},
               ConnectEnds(t, r)
        PROVE  IInv'
    BY <2>5, ReportKeeps DEF ConnectEnds, Running, Result
  <2> QED BY <1>6, <2>1, <2>2, <2>3, <2>4, <2>5 DEF TaskStep
<1>7. ASSUME NEW t \in Task, PeerStep(t) PROVE IInv'
  <2>1. CASE Accept(t)
    BY <1>0, <2>1, GotoKeeps DEF Accept, TypeOK
  <2>2. CASE AcceptFails(t)
    BY <1>0, <2>2, ReportKeeps DEF AcceptFails, Running, TasksInv, Result
  <2>3. CASE PeerDisconnects(t)
    BY <1>0, <2>3, GotoKeeps DEF PeerDisconnects, TypeOK
  <2>4. CASE ReceiveFails(t)
    BY <1>0, <2>4, ReportKeeps DEF ReceiveFails, Running, TasksInv, Result
  <2>5. ASSUME NEW r \in {"SendComplete", "SendFailed"}, SendEnds(t, r) PROVE IInv'
    BY <2>5, ReportKeeps DEF SendEnds, Running, Result
  <2> QED BY <1>7, <2>1, <2>2, <2>3, <2>4, <2>5 DEF PeerStep
<1>8. ASSUME NEW t \in Task, Update(t) PROVE IInv'
  <2>1. CASE ConnectionEstablished(t)
    <3>1. kind[t] = "listener"
      BY <1>0, <2>1 DEF ConnectionEstablished, HandleConnection, Handle, TasksInv
    <3> QED BY <2>1, <3>1, ConnectionMessageKeeps DEF ConnectionEstablished, sendVars, Result
  <2>2. CASE ConnectionEstablishedWithSession(t)
    <3>1. kind[t] = "connect"
      BY <1>0, <2>2 DEF ConnectionEstablishedWithSession, HandleConnection, Handle, TasksInv
    <3> QED BY <2>2, <3>1, ConnectionMessageKeeps DEF ConnectionEstablishedWithSession, sendVars, Result
  <2>3. CASE ConnectionFailed(t)
    <3>1. kind[t] \in {"listener", "connect"}
      BY <1>0, <2>3 DEF ConnectionFailed, HandleConnection, Handle, TasksInv
    <3> QED BY <2>3, <3>1, ConnectionMessageKeeps DEF ConnectionFailed, sendVars, Result
  <2>4. CASE SendComplete(t)
    BY <2>4, SendMessageKeeps DEF SendComplete
  <2>5. CASE SendFailed(t)
    BY <2>5, SendMessageKeeps DEF SendFailed
  <2> QED BY <1>8, <2>1, <2>2, <2>3, <2>4, <2>5 DEF Update
<1>9. ASSUME NEW p \in Port, Drained(p) PROVE IInv'
  <2>1. socket' \in [Port -> Task \cup {None}]
    BY <1>0, <1>9 DEF Drained, TypeOK
  <2> QED BY <1>9, <2>1, SocketsOnly DEF Drained
<1> QED BY <1>1, <1>2, <1>3, <1>4, <1>5, <1>6, <1>7, <1>8, <1>9 DEF Next, UserStep

LEMMA Invariance == Spec => []IInv
BY InitIInv, NextKeeps, PTL DEF Spec

-----------------------------------------------------------------------------
(* Theorems. *)

\* AppState and the tasks stay well formed; in particular the session shown is
\* always one that connect_to_peer or pair_via_rendezvous has returned.
THEOREM TypeCorrect == Spec => []TypeOK
<1>1. IInv => TypeOK
  BY DEF IInv
<1> QED BY <1>1, Invariance, PTL

\* SendComplete and SendFailed add one record per send to the history, under the
\* outcome of its own task, however many sends, stops and restarts there are: the
\* button that transfer_progress disables is what makes current_transfer theirs.
THEOREM SendsRecordedOnceAlways == Spec => []SendsRecordedOnce
<1>1. IInv => SendsRecordedOnce
  BY DEF IInv
<1> QED BY <1>1, Invariance, PTL

\* The status label of the connection form names the connection task that was
\* started last, as long as update has handled no message since; and Connected
\* without a session is what the last message, of a stopped listener, said.
THEOREM LabelsTrueAlways == Spec => []LabelsTrue
<1>1. IInv => LabelsTrue
  BY DEF IInv
<1> QED BY <1>1, Invariance, PTL

\* A listening loop is behind an inactive form only after the last message that
\* update handled, while the loop ran, was the failure of another task.
THEOREM HiddenListenerExplainedAlways == Spec => []HiddenListenerExplained
<1>1. IInv => HiddenListenerExplained
  BY DEF IInv
<1> QED BY <1>1, Invariance, PTL
=============================================================================
