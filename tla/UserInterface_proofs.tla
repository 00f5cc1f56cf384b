------------------------ MODULE UserInterface_proofs ------------------------
(***************************************************************************)
(* The types of UserInterface, and that a toggle shows what it asked for.  *)
(*                                                                         *)
(* The types need more than types: that a task is in the queue once (so    *)
(* that what leaves the queue is out of it), that the row of a check box   *)
(* is one of those shown, and that the reconnect service never tries a     *)
(* device whose retries are used up (so that its attempts stay bounded).   *)
(***************************************************************************)
EXTENDS UserInterface, SequenceTheorems, TLAPS

\* No task is twice in the sequence.
Once(s) == \A i, j \in 1 .. Len(s) : s[i] = s[j] => i = j

\* What is taken out is not there any more, and the rest is there once.
LEMMA TakenOut ==
    ASSUME NEW S, NEW s \in Seq(S), Once(s), NEW t
    PROVE  RemoveFirst(s, t) \in Seq(S \ {t}) /\ Once(RemoveFirst(s, t))
<1>1. CASE ~ \E i \in 1 .. Len(s) : s[i] = t
  <2>1. RemoveFirst(s, t) = s
    BY <1>1 DEF RemoveFirst
  <2>2. \A i \in 1 .. Len(s) : s[i] \in S \ {t}
    BY <1>1, ElementOfSeq
  <2>3. s \in Seq(S \ {t})
    BY <2>2, SeqMonotonic
  <2> QED  BY <2>1, <2>3
<1>2. ASSUME NEW k \in 1 .. Len(s), s[k] = t
      PROVE  RemoveFirst(s, t) \in Seq(S \ {t}) /\ Once(RemoveFirst(s, t))
  <2> DEFINE I == {i \in 1 .. Len(s) : s[i] = t}
  <2>1. I = {k}
    BY <1>2 DEF Once
  <2>2. Min({k}) = k
    BY DEF Min
  <2>3. SelectInSeq(s, LAMBDA v : v = t) = k
    BY <2>1, <2>2 DEF SelectInSeq
  <2>4. RemoveFirst(s, t) = SubSeq(s, 1, k - 1) \o SubSeq(s, k + 1, Len(s))
    BY <1>2, <2>3 DEF RemoveFirst, RemoveAt
  <2> DEFINE a == SubSeq(s, 1, k - 1)
             b == SubSeq(s, k + 1, Len(s))
  <2>5. /\ a \in Seq(S) /\ Len(a) = k - 1 /\ \A i \in 1 .. k - 1 : a[i] = s[i]
        /\ b \in Seq(S) /\ Len(b) = Len(s) - k /\ \A i \in 1 .. Len(s) - k : b[i] = s[k + i]
    <3>1. 1 \in 1 .. Len(s) + 1 /\ k - 1 \in 0 .. Len(s) /\ k + 1 \in 1 .. Len(s) + 1
             /\ Len(s) \in k .. Len(s)
      OBVIOUS
    <3> QED  BY <3>1, SubSeqProperties
  <2> HIDE DEF a, b
  <2> DEFINE r == a \o b
  <2>6. /\ r \in Seq(S) /\ Len(r) = Len(a) + Len(b)
        /\ \A i \in 1 .. Len(a) + Len(b) :
              r[i] = IF i <= Len(a) THEN a[i] ELSE b[i - Len(a)]
    BY <2>5, ConcatProperties
  <2> HIDE DEF r
  <2>7. Len(r) = Len(s) - 1 /\ Len(s) \in Nat
    BY <2>5, <2>6
  <2>8. \A i \in 1 .. Len(s) - 1 :
           \/ i < k /\ r[i] = s[i]
           \/ i >= k /\ i + 1 \in 1 .. Len(s) /\ r[i] = s[i + 1]
    <3> TAKE i \in 1 .. Len(s) - 1
    <3>1. CASE i < k
      BY <2>5, <2>6, <2>7, <3>1
    <3>2. CASE ~ (i < k)
      <4>1. /\ i - (k - 1) \in 1 .. Len(s) - k /\ r[i] = b[i - (k - 1)]
            /\ k + (i - (k - 1)) = i + 1
        BY <2>5, <2>6, <2>7, <3>2
      <4> QED  BY <2>5, <3>2, <4>1
    <3> QED  BY <3>1, <3>2
  <2>9. \A i \in 1 .. Len(r) : r[i] \in S \ {t}
    BY <1>2, <2>6, <2>7, <2>8 DEF Once
  <2>10. r \in Seq(S \ {t})
    BY <2>6, <2>9, SeqMonotonic
  <2>11. Once(r)
    BY <2>7, <2>8 DEF Once
  <2> QED  BY <2>4, <2>10, <2>11 DEF r, a, b
<1> QED  BY <1>1, <1>2

-----------------------------------------------------------------------------
\* The inductive invariant, by what its parts are about: the engine and the devices,
\* the view, the tasks and their queue, the lists of devices that the tasks work
\* through, and the retries.
EngineOK ==
    /\ {up, bridge} \subseteq BOOLEAN
    /\ {targets, playing, present} \subseteq SUBSET Device /\ playing \subseteq targets
    /\ link \in {"none", "live", "broken"}
    /\ moves \in 0 .. MaxMoves

ViewOK ==
    /\ shown \in BOOLEAN
    /\ {listed, flags, saved, chosen, unchecked} \subseteq SUBSET Device /\ flags \subseteq listed
    /\ stage \in {"boot", "restore", "sync", "start", "run", "stopping", "shutting", "over"}

TasksOK ==
    /\ doing \in [Task -> Waits \cup Command]
    /\ ans \in [Task -> Answer]
    /\ line \in Seq({t \in Task : doing[t] \in Command})
    /\ Once(line)

ListsOK ==
    /\ arg \in [Task -> SUBSET Device]
    /\ left \in [{"rec", "app", "box"} -> SUBSET Device]
    /\ left["box"] \subseteq listed

\* What the reconnect service adds, now or after its wait, is not what it has still to try, and none of them
\* has used up its retries.
RetriesOK ==
    /\ attempts \in [Device -> 0 .. MaxRetries]
    /\ doing["rec"] \in {"add", "backoff"} =>
          /\ arg["rec"] \cap left["rec"] = {}
          /\ \A d \in arg["rec"] \cup left["rec"] : attempts[d] < MaxRetries

UIInv == EngineOK /\ ViewOK /\ TasksOK /\ ListsOK /\ RetriesOK

\* An answer is a record with its fields.
LEMMA AnswerTypes ==
    /\ \A ok, b \in BOOLEAN, ds \in SUBSET Device : Reply(ok, b, ds) \in Answer
    /\ Awaited \in Answer /\ Null \in Answer
    /\ \A a \in Answer :
          a.ok \in BOOLEAN /\ a.bridge \in BOOLEAN /\ a.devices \in SUBSET Device
BY DEF Reply, Answer, Awaited, Null

\* A task that gives its next command or ends leaves the queue in order.
LEMMA ProceedOK ==
    ASSUME TasksOK, NEW t \in Task, NEW c \in Waits \cup Command,
           NEW b \in BOOLEAN, Proceed(t, c, b)
    PROVE  TasksOK'
<1> DEFINE W == {u \in Task : doing[u] \in Command}
           V == {u \in Task : doing'[u] \in Command}
           others == RemoveFirst(line, t)
<1>1. others \in Seq(W \ {t}) /\ Once(others)
  BY TakenOut DEF TasksOK
<1>2. doing' = [doing EXCEPT ![t] = c]
  BY DEF Proceed
<1>3. doing' \in [Task -> Waits \cup Command]
  BY <1>2 DEF TasksOK
<1>4. W \ {t} \subseteq V
  BY <1>2 DEF TasksOK
<1>5. ans' \in [Task -> Answer]
  BY AnswerTypes DEF Proceed, TasksOK
<1>6. line' \in Seq(V) /\ Once(line')
  <2>1. CASE c \in Command /\ b
    <3>1. line' = Append(others, t)
      BY <2>1 DEF Proceed
    <3>2. t \in V
      BY <1>2, <2>1 DEF TasksOK
    <3> HIDE DEF others, W, V
    <3>3. others \in Seq(V)
      <4>1. \A i \in 1 .. Len(others) : others[i] \in V
        BY <1>1, <1>4, ElementOfSeq
      <4> QED  BY <1>1, <4>1, SeqMonotonic
    <3>4. \A i \in 1 .. Len(others) : others[i] # t
      BY <1>1, ElementOfSeq
    <3>5. /\ Append(others, t) \in Seq(V) /\ Len(Append(others, t)) = Len(others) + 1
          /\ \A i \in 1 .. Len(others) : Append(others, t)[i] = others[i]
          /\ Append(others, t)[Len(others) + 1] = t
      BY <3>2, <3>3, AppendProperties
    <3>6. Len(others) \in Nat
      BY <1>1
    <3> QED  BY <1>1, <3>1, <3>4, <3>5, <3>6 DEF Once
  <2>2. CASE ~ (c \in Command /\ b)
    <3>1. line' = others
      BY <2>2 DEF Proceed
    <3> HIDE DEF others, W, V
    <3>2. \A i \in 1 .. Len(others) : others[i] \in V
      BY <1>1, <1>4, ElementOfSeq
    <3> QED  BY <1>1, <3>1, <3>2, SeqMonotonic
  <2> QED  BY <2>1, <2>2
<1> QED  BY <1>3, <1>5, <1>6 DEF TasksOK

\* The same for GoOn, and what it does to the commands.
LEMMA GoOnOK ==
    ASSUME TasksOK, NEW t \in Task, NEW c \in Waits \cup Command, GoOn(t, c)
    PROVE  TasksOK' /\ doing' = [doing EXCEPT ![t] = c]
<1>1. IsConnected \in BOOLEAN
  BY DEF IsConnected
<1>2. TasksOK'
  BY <1>1, ProceedOK DEF GoOn
<1> QED  BY <1>2 DEF GoOn, Proceed

\* A task that closes the pipe has no command, nor have those that were connecting.
LEMMA DisconnectOK ==
    ASSUME TasksOK, NEW t \in Task, doing[t] \notin Command, NEW c \in Waits,
           Disconnect(t, c)
    PROVE  TasksOK'
<1> USE DEF Waits, Command
<1>1. /\ UNCHANGED <<ans, line>>
      /\ doing' = [u \in Task |-> IF u = t THEN c
                                  ELSE IF doing[u] = "connect" THEN "lost" ELSE doing[u]]
  BY DEF Disconnect
<1>2. doing' \in [Task -> Waits \cup Command]
  BY <1>1 DEF TasksOK
<1>3. \A u \in Task : doing'[u] \in Command <=> doing[u] \in Command
  BY <1>1
<1>4. {u \in Task : doing'[u] \in Command} = {u \in Task : doing[u] \in Command}
  BY <1>3
<1> QED  BY <1>1, <1>2, <1>4 DEF TasksOK

\* An exit leaves no task.
LEMMA ExitOK == OnExit => TasksOK'
<1> SUFFICES ASSUME OnExit PROVE TasksOK'
  OBVIOUS
<1>1. /\ doing' \in [Task -> Waits \cup Command]
      /\ ans' \in [Task -> Answer]
  BY AnswerTypes DEF OnExit, Waits
<1>2. line' = <<>>
  BY DEF OnExit
<1> QED  BY <1>1, <1>2 DEF TasksOK, Once

\* The engine answers the task it serves, and the queue stays.
LEMMA AskTasks ==
    ASSUME UIInv, NEW t \in Task, Ask(t)
    PROVE  TasksOK'
<1> USE DEF UIInv, TasksOK
<1>1. UNCHANGED <<doing, line>>
  BY DEF Ask, askFrame
<1>2. \E a \in Answer : ans' = [ans EXCEPT ![t] = a]
  <2>1. /\ TRUE \in BOOLEAN /\ FALSE \in BOOLEAN /\ {} \in SUBSET Device
        /\ present \in SUBSET Device /\ targets \in SUBSET Device /\ bridge \in BOOLEAN
    BY DEF EngineOK
  <2>2. CASE AskInVain(t)
    BY <2>2, AnswerTypes DEF AskInVain
  <2>3. CASE AskDevices(t) \/ AskStatus(t)
    BY <2>1, <2>3, AnswerTypes DEF AskDevices, AskStatus, Answers
  <2>4. CASE AskAdd(t)
    BY <2>1, <2>4, AnswerTypes DEF AskAdd, Answers
  <2>5. CASE AskRemove(t) \/ AskStart(t) \/ AskStop(t)
    BY <2>1, <2>5, AnswerTypes DEF AskRemove, AskStart, AskStop, Answers
  <2> QED  BY <2>2, <2>3, <2>4, <2>5 DEF Ask
<1> QED  BY <1>1, <1>2

\* Every step keeps the tasks and their queue.
LEMMA NextTasks ==
    ASSUME UIInv, [Next]_vars
    PROVE  TasksOK'
<1> USE GoOnOK DEF UIInv, Task, Other, Refresher, Waits, Command
<1>1. ASSUME NEW t \in Task, TaskStep(t)
      PROVE  TasksOK'
  <2>1. CASE Ask(t)
    BY <2>1, AskTasks
  <2>2. CASE Connected(t)
    BY <2>2, ProceedOK DEF Connected
  <2>14. CASE ConnectFails(t)
    BY <2>14, DisconnectOK DEF ConnectFails
  <2>15. CASE Initialize
    BY <2>15, DisconnectOK DEF Initialize, ConnectBegin
  <2>3. CASE RefreshDevices(t)
    BY <2>3 DEF RefreshDevices
  <2>4. CASE RefreshStatus(t)
    BY <2>4 DEF RefreshStatus
  <2>5. CASE Tick(t)
    BY <2>5, DisconnectOK DEF Tick, ConnectBegin, Idle
  <2>6. CASE Rec
    <3>1. CASE RecBegin
      BY <3>1 DEF RecBegin
    <3>2. CASE RecDevices
      BY <3>2 DEF RecDevices
    <3>3. CASE RecStatus
      BY <3>3 DEF RecStatus, TryNext, AddOneOf
    <3>4. CASE RecAdded
      BY <3>4 DEF RecAdded, TryNext, AddOneOf
    <3>5. CASE RecRetry
      BY <3>5 DEF RecRetry
    <3> QED  BY <2>6, <3>1, <3>2, <3>3, <3>4, <3>5 DEF Rec
  <2>7. CASE BoxDone
    BY <2>7 DEF BoxDone
  <2>8. CASE SwitchDone(t)
    BY <2>8 DEF SwitchDone
  <2>9. CASE Restore
    BY <2>9 DEF Restore, RestoreNext, AddOneOf
  <2>10. CASE Restored
    BY <2>10 DEF Restored, RestoreNext, AddOneOf
  <2>11. CASE Sync
    BY <2>11 DEF Sync
  <2>12. CASE Started \/ Stopped
    BY <2>12 DEF Started, Stopped
  <2>13. CASE ShutDown
    BY <2>13, ExitOK DEF ShutDown
  <2> QED  BY <1>1, <2>1, <2>2, <2>3, <2>4, <2>5, <2>6, <2>7, <2>8, <2>9, <2>10, <2>11,
             <2>12, <2>13, <2>14, <2>15 DEF TaskStep, Refresh
<1>2. ASSUME NEW d \in Device, ClickBox(d)
      PROVE  TasksOK'
  BY <1>2 DEF ClickBox
<1>3. ASSUME NEW t \in {"toggle", "tray"}, ClickSwitch(t)
      PROVE  TasksOK'
  BY <1>3 DEF ClickSwitch
<1>4. CASE ClickRefresh
  BY <1>4 DEF ClickRefresh
<1>5. CASE TrayExit
  BY <1>5 DEF TrayExit
<1>6. CASE SessionEnding
  BY <1>6, ExitOK DEF SessionEnding
<1>7. CASE Crash
  <2>1. UNCHANGED <<ans, line>>
    BY <1>7 DEF Crash, eventFrame
  <2>2. doing' = doing \/ (Idle("init") /\ doing' = [doing EXCEPT !["init"] = "delay"])
    BY <1>7 DEF Crash
  <2>3. doing' \in [Task -> Waits \cup Command]
    BY <2>2 DEF TasksOK
  <2>4. {t \in Task : doing'[t] \in Command} = {t \in Task : doing[t] \in Command}
    BY <2>2 DEF TasksOK, Idle
  <2> QED  BY <2>1, <2>3, <2>4 DEF TasksOK
<1>8. CASE UNCHANGED taskVars
  BY <1>8 DEF taskVars, TasksOK
<1>9. \/ ClickSetting \/ (\E d \in Device : Unplug(d) \/ Plug(d))
      \/ CaptureChanges \/ EngineRestarts \/ UNCHANGED vars
      => UNCHANGED taskVars
  BY DEF ClickSetting, Unplug, Plug, CaptureChanges, EngineRestarts, eventFrame, vars, taskVars
<1> QED  BY <1>1, <1>2, <1>3, <1>4, <1>5, <1>6, <1>7, <1>8, <1>9 DEF Next

\* The reconnect service and the button are no polls.
LEMMA NotPolls == Poll \cap {"rec", "toggle"} = {}
BY UIAssumption DEF Other

\* The bounds are numbers.
LEMMA Bounds == MaxRetries \in Nat /\ MaxMoves \in Nat
BY UIAssumption

\* What happens by itself is counted up to its bound.
LEMMA MoveOK ==
    ASSUME EngineOK, NEW kind, Move(kind) \/ UNCHANGED moves
    PROVE  moves' \in 0 .. MaxMoves
BY Bounds DEF EngineOK, Move

\* The invariant holds when the application starts.
LEMMA InitUIInv == Init => UIInv
<1> SUFFICES ASSUME Init PROVE UIInv
  OBVIOUS
<1> USE Bounds DEF Init
<1>1. EngineOK
  <2>1. {up, bridge} \subseteq BOOLEAN /\ link \in {"none", "live", "broken"}
    OBVIOUS
  <2>2. {targets, playing, present} \subseteq SUBSET Device /\ playing \subseteq targets
    OBVIOUS
  <2>3. moves \in 0 .. MaxMoves
    OBVIOUS
  <2> QED  BY <2>1, <2>2, <2>3 DEF EngineOK
<1>2. ViewOK
  BY DEF ViewOK
<1>3. TasksOK
  <2>1. doing \in [Task -> Waits \cup Command]
    BY DEF Waits
  <2>2. ans \in [Task -> Answer]
    BY AnswerTypes
  <2> QED  BY <2>1, <2>2 DEF TasksOK, Once
<1>4. ListsOK
  BY DEF ListsOK
<1>5. RetriesOK
  BY DEF RetriesOK, Task, Other
<1> QED  BY <1>1, <1>2, <1>3, <1>4, <1>5 DEF UIInv

\* Every step keeps the engine's part.
LEMMA NextEngine ==
    ASSUME UIInv, [Next]_vars
    PROVE  EngineOK'
<1> USE DEF UIInv, EngineOK
<1>1. ASSUME NEW t \in Task, TaskStep(t)
      PROVE  EngineOK'
  <2>1. CASE Ask(t)
    <3>1. UNCHANGED <<up, present>>
      BY <2>1 DEF Ask, askFrame
    <3>2. ASSUME NEW a, Answers(t, a)
          PROVE  link' \in {"none", "live", "broken"} /\ moves' \in 0 .. MaxMoves
      BY <3>2, MoveOK DEF Answers
    <3>3. CASE AskInVain(t)
      BY <3>1, <3>3, MoveOK DEF AskInVain
    <3>4. CASE AskDevices(t) \/ AskStatus(t)
      BY <3>1, <3>2, <3>4 DEF AskDevices, AskStatus
    <3>5. CASE AskAdd(t)
      <4>1. \E a : Answers(t, a)
        BY <3>5 DEF AskAdd
      <4>2. bridge' = bridge
        BY <3>5 DEF AskAdd
      <4>3. \/ targets' = targets /\ playing' = playing
            \/ \E d \in present : targets' = targets \cup {d} /\ playing' = playing \cup {d}
        BY <3>5 DEF AskAdd
      <4>4. targets' \subseteq Device /\ playing' \subseteq targets'
        BY <4>3
      <4> QED  BY <3>1, <3>2, <4>1, <4>2, <4>4
    <3>6. CASE AskRemove(t) \/ AskStart(t) \/ AskStop(t)
      BY <3>1, <3>2, <3>6 DEF AskRemove, AskStart, AskStop
    <3> QED  BY <2>1, <3>3, <3>4, <3>5, <3>6 DEF Ask
  <2>2. CASE Connected(t) \/ RefreshDevices(t) \/ RefreshStatus(t)
    BY <2>2 DEF Connected, RefreshDevices, RefreshStatus, connectFrame, engineVars, engineFrame
  <2>3. CASE Tick(t) \/ Initialize
    BY <2>3 DEF Tick, Initialize, ConnectBegin, Disconnect, connectFrame, engineVars
  <2>8. CASE ConnectFails(t)
    BY <2>8, MoveOK DEF ConnectFails, Disconnect, connectFrame, engineVars
  <2>4. CASE Rec
    BY <2>4 DEF Rec, RecBegin, RecDevices, RecStatus, RecRetry, RecAdded, engineVars, engineFrame
  <2>5. CASE BoxDone \/ SwitchDone(t)
    BY <2>5 DEF BoxDone, SwitchDone, engineVars, engineFrame
  <2>6. CASE Restore \/ Restored \/ Sync \/ Started \/ Stopped
    BY <2>6 DEF Restore, Restored, Sync, Started, Stopped, engineVars, engineFrame
  <2>7. CASE ShutDown
    BY <2>7 DEF ShutDown
  <2> QED  BY <1>1, <2>1, <2>2, <2>3, <2>4, <2>5, <2>6, <2>7, <2>8
           DEF TaskStep, Refresh
<1>2. ASSUME NEW d \in Device, ClickBox(d)
      PROVE  EngineOK'
  BY <1>2, MoveOK DEF ClickBox, Click, engineVars
<1>3. ASSUME NEW t \in {"toggle", "tray"}, ClickSwitch(t)
      PROVE  EngineOK'
  BY <1>3, MoveOK DEF ClickSwitch, Click, engineVars
<1>4. CASE ClickRefresh \/ ClickSetting
  BY <1>4, MoveOK DEF ClickRefresh, ClickSetting, Click, engineVars
<1>5. CASE TrayExit
  BY <1>5 DEF TrayExit, engineVars, engineFrame
<1>6. CASE SessionEnding
  BY <1>6 DEF SessionEnding
<1>7. ASSUME NEW d \in Device, Unplug(d) \/ Plug(d)
      PROVE  EngineOK'
  BY <1>7, MoveOK DEF Unplug, Plug, Event
<1>8. CASE CaptureChanges
  <2>1. moves' \in 0 .. MaxMoves
    BY <1>8, MoveOK DEF CaptureChanges, Event
  <2>2. UNCHANGED <<up, present, link>> /\ bridge' \in BOOLEAN
    BY <1>8 DEF CaptureChanges
  <2>3. \/ targets' = targets /\ playing' = playing
        \/ targets' = targets \cap present /\ playing' = targets'
    BY <1>8 DEF CaptureChanges
  <2> QED  BY <2>1, <2>2, <2>3
<1>9. CASE Crash
  <2>1. moves' \in 0 .. MaxMoves
    BY <1>9, MoveOK DEF Crash, Event
  <2>2. /\ up' = FALSE /\ bridge' = FALSE /\ targets' = {} /\ playing' = {}
        /\ present' = present /\ link' \in {"none", "live", "broken"}
    BY <1>9 DEF Crash
  <2> QED  BY <2>1, <2>2
<1>10. CASE EngineRestarts
  BY <1>10 DEF EngineRestarts
<1>11. CASE UNCHANGED vars
  BY <1>11 DEF vars, engineVars
<1> QED  BY <1>1, <1>2, <1>3, <1>4, <1>5, <1>6, <1>7, <1>8, <1>9, <1>10, <1>11 DEF Next

\* Every step keeps the view's part: no row is checked that is not shown.
LEMMA NextView ==
    ASSUME UIInv, [Next]_vars
    PROVE  ViewOK'
<1> USE DEF UIInv, ViewOK, SaveCurrentSettings
<1>1. ASSUME NEW t \in Task, TaskStep(t)
      PROVE  ViewOK'
  <2>1. ans[t].bridge \in BOOLEAN /\ ans[t].devices \in SUBSET Device
    BY <1>1, AnswerTypes DEF TasksOK
  <2>2. CASE Ask(t)
    BY <2>2 DEF Ask, askFrame, viewVars
  <2>3. CASE Connected(t) \/ ConnectFails(t) \/ Initialize
    BY <2>3 DEF Connected, ConnectFails, Initialize, connectFrame, viewVars, appFrame
  <2>4. CASE RefreshDevices(t)
    BY <2>1, <2>4 DEF RefreshDevices, MergeDeviceList, viewVars, appFrame
  <2>5. CASE RefreshStatus(t)
    BY <2>1, <2>5 DEF RefreshStatus, viewVars, appFrame
  <2>6. CASE Tick(t)
    BY <2>6 DEF Tick, connectFrame, viewVars, appFrame
  <2>7. CASE Rec
    BY <2>7 DEF Rec, RecBegin, RecDevices, RecStatus, RecRetry, RecAdded, viewVars, appFrame
  <2>8. CASE BoxDone
    BY <2>8 DEF BoxDone, Unchecked, ListsOK, Task, Other
  <2>9. CASE SwitchDone(t)
    BY <2>9 DEF SwitchDone, appFrame
  <2>10. CASE Restore \/ Restored \/ Sync \/ Started \/ Stopped
    BY <2>10 DEF Restore, Restored, RestoreNext, Sync, Started, Stopped, viewVars
  <2>11. CASE ShutDown
    BY <2>11 DEF ShutDown, OnExit, viewVars
  <2> QED  BY <1>1, <2>2, <2>3, <2>4, <2>5, <2>6, <2>7, <2>8, <2>9, <2>10, <2>11
           DEF TaskStep, Refresh
<1>2. ASSUME NEW d \in Device, ClickBox(d) \/ Unplug(d) \/ Plug(d)
      PROVE  ViewOK'
  BY <1>2 DEF ClickBox, Click, Unplug, Plug, eventFrame, viewVars
<1>3. ASSUME NEW t \in {"toggle", "tray"}, ClickSwitch(t)
      PROVE  ViewOK'
  BY <1>3 DEF ClickSwitch, Click, viewVars
<1>4. CASE ClickRefresh \/ ClickSetting
  BY <1>4 DEF ClickRefresh, ClickSetting, Click, viewVars
<1>5. CASE TrayExit
  BY <1>5 DEF TrayExit, viewVars
<1>6. CASE SessionEnding
  BY <1>6 DEF SessionEnding, OnExit, viewVars
<1>7. CASE CaptureChanges \/ Crash \/ EngineRestarts
  BY <1>7 DEF CaptureChanges, Crash, EngineRestarts, eventFrame, viewVars
<1>8. CASE UNCHANGED vars
  BY <1>8 DEF vars, viewVars
<1> QED  BY <1>1, <1>2, <1>3, <1>4, <1>5, <1>6, <1>7, <1>8 DEF Next

\* Every step keeps the lists.
LEMMA NextLists ==
    ASSUME UIInv, [Next]_vars
    PROVE  ListsOK'
<1> USE DEF UIInv, ListsOK, Task, Other
<1>1. saved \subseteq Device
  BY DEF ViewOK
<1>2. ASSUME NEW t \in Task, TaskStep(t)
      PROVE  ListsOK'
  <2>1. CASE Ask(t)
    BY <2>1 DEF Ask, askFrame, viewVars
  <2>2. CASE Connected(t) \/ ConnectFails(t) \/ Initialize
    BY <2>2 DEF Connected, ConnectFails, Initialize, connectFrame, viewVars
  <2>3. CASE RefreshDevices(t)
    BY <2>3 DEF RefreshDevices, MergeDeviceList
  <2>4. CASE RefreshStatus(t)
    BY <2>4 DEF RefreshStatus
  <2>5. CASE Tick(t)
    BY <2>5 DEF Tick, connectFrame, viewVars
  <2>6. CASE RecBegin \/ RecRetry
    BY <1>1, <2>6 DEF RecBegin, RecRetry, viewVars
  <2>7. CASE RecDevices
    BY <2>7 DEF RecDevices, viewVars
  <2>8. CASE RecStatus \/ RecAdded
    <3> DEFINE M == Missing(left["rec"], ans["rec"].devices)
    <3>1. M \subseteq Device /\ left["rec"] \subseteq Device
      BY DEF Missing
    <3>2. listed' = listed
      BY <2>8 DEF RecStatus, RecAdded, viewVars
    <3>3. TryNext(M) \/ TryNext(left["rec"])
      BY <2>8 DEF RecStatus, RecAdded
    <3> HIDE DEF M
    <3> QED  BY <3>1, <3>2, <3>3 DEF TryNext, AddOneOf
  <2>9. CASE BoxDone
    BY <2>9 DEF BoxDone
  <2>10. CASE SwitchDone(t)
    BY <2>10 DEF SwitchDone
  <2>11. CASE Restore \/ Restored
    <3>1. PICK ds \in SUBSET Device : RestoreNext(ds)
      <4>1. saved \in SUBSET Device /\ {} \in SUBSET Device /\ left["app"] \in SUBSET Device
        BY <1>1
      <4> QED  BY <2>11, <4>1 DEF Restore, Restored
    <3>2. listed' = listed
      BY <2>11 DEF Restore, Restored, viewVars
    <3> QED  BY <3>1, <3>2 DEF RestoreNext, AddOneOf
  <2>12. CASE Sync \/ Started \/ Stopped
    BY <2>12 DEF Sync, Started, Stopped, viewVars
  <2>13. CASE ShutDown
    BY <2>13 DEF ShutDown, OnExit
  <2> QED  BY <1>2, <2>1, <2>2, <2>3, <2>4, <2>5, <2>6, <2>7, <2>8, <2>9, <2>10, <2>11,
              <2>12, <2>13 DEF TaskStep, Refresh, Rec
<1>3. ASSUME NEW d \in Device, ClickBox(d)
      PROVE  ListsOK'
  BY <1>3 DEF ClickBox, Click, viewVars
<1>4. ASSUME NEW d \in Device, Unplug(d) \/ Plug(d)
      PROVE  ListsOK'
  BY <1>4 DEF Unplug, Plug, eventFrame, viewVars
<1>5. ASSUME NEW t \in {"toggle", "tray"}, ClickSwitch(t)
      PROVE  ListsOK'
  BY <1>5 DEF ClickSwitch, Click, viewVars
<1>6. CASE ClickRefresh \/ ClickSetting
  BY <1>6 DEF ClickRefresh, ClickSetting, Click, viewVars, taskVars
<1>7. CASE TrayExit
  BY <1>7 DEF TrayExit, viewVars
<1>8. CASE SessionEnding
  BY <1>8 DEF SessionEnding, OnExit
<1>9. CASE CaptureChanges \/ Crash \/ EngineRestarts
  BY <1>9 DEF CaptureChanges, Crash, EngineRestarts, eventFrame, viewVars
<1>10. CASE UNCHANGED vars
  BY <1>10 DEF vars, viewVars, taskVars
<1> QED  BY <1>2, <1>3, <1>4, <1>5, <1>6, <1>7, <1>8, <1>9, <1>10 DEF Next

\* Whatever leaves the reconnect service and its devices alone.
LEMMA RecFrame ==
    ASSUME RetriesOK, attempts' = attempts,
           \/ doing'["rec"] \notin {"add", "backoff"}
           \/ /\ doing'["rec"] = doing["rec"]
              /\ arg'["rec"] = arg["rec"] /\ left'["rec"] = left["rec"]
    PROVE  RetriesOK'
BY DEF RetriesOK

\* The service goes on with devices that are not given up.
LEMMA TryNextOK ==
    ASSUME UIInv, NEW ds \in SUBSET Device, TryNext(ds),
           attempts' \in [Device -> 0 .. MaxRetries],
           \A d \in ds : attempts'[d] < MaxRetries
    PROVE  RetriesOK'
<1> USE DEF UIInv, ListsOK, TasksOK, Task, Other
<1>1. CASE AddOneOf("rec", ds, {d \in ds : attempts[d] > 0})
  <2>1. PICK d \in ds : /\ arg' = [arg EXCEPT !["rec"] = {d}]
                     /\ left' = [left EXCEPT !["rec"] = ds \ {d}]
    BY <1>1 DEF AddOneOf
  <2>2. arg'["rec"] = {d} /\ left'["rec"] = ds \ {d}
    BY <2>1
  <2> QED  BY <2>2 DEF RetriesOK
<1>2. CASE GoOn("rec", "idle")
  <2>1. doing'["rec"] = "idle"
    BY <1>2 DEF GoOn, Proceed
  <2> QED  BY <2>1 DEF RetriesOK
<1> QED  BY <1>1, <1>2 DEF TryNext

\* Every step keeps the retries within their bound.
LEMMA NextRetries ==
    ASSUME UIInv, [Next]_vars
    PROVE  RetriesOK'
<1> USE RecFrame, NotPolls DEF UIInv, ListsOK, TasksOK, Task, Other, Refresher
<1>1. ASSUME NEW t \in Task, TaskStep(t)
      PROVE  RetriesOK'
  <2>1. CASE Ask(t)
    BY <2>1 DEF Ask, askFrame
  <2>2. CASE t \in Refresher /\ Connected(t)
    <3>1. doing'["rec"] = doing["rec"]
      BY <2>2 DEF Connected, GoOn, Proceed
    <3> QED  BY <2>2, <3>1 DEF Connected, connectFrame, appFrame
  <2>15. CASE (t \in Refresher /\ ConnectFails(t)) \/ Initialize
    <3>1. \E u \in Refresher : \E c : Disconnect(u, c)
      BY <2>15 DEF ConnectFails, Initialize, ConnectBegin
    <3>2. doing'["rec"] = doing["rec"] \/ doing'["rec"] = "lost"
      BY <3>1 DEF Disconnect
    <3> QED  BY <2>15, <3>2 DEF ConnectFails, Initialize, connectFrame, appFrame
  <2>3. CASE t \in Refresher \cup {"refresh"} /\ RefreshDevices(t)
    <3>1. doing'["rec"] = doing["rec"]
      BY <2>3 DEF RefreshDevices, GoOn, Proceed
    <3> QED  BY <2>3, <3>1 DEF RefreshDevices, MergeDeviceList, appFrame
  <2>4. CASE t \in Refresher /\ RefreshStatus(t)
    <3>1. doing'["rec"] = doing["rec"]
      BY <2>4 DEF RefreshStatus, GoOn, Proceed
    <3> QED  BY <2>4, <3>1 DEF RefreshStatus, appFrame
  <2>5. CASE t \in Poll /\ Tick(t)
    <3>1. doing'["rec"] = doing["rec"] \/ doing'["rec"] = "lost"
      BY <2>5 DEF Tick, ConnectBegin, Disconnect, GoOn, Proceed
    <3> QED  BY <2>5, <3>1 DEF Tick, connectFrame, appFrame
  <2>6. CASE RecBegin
    <3>1. doing'["rec"] = "get_devices"
      BY <2>6 DEF RecBegin, GoOn, Proceed
    <3> QED  BY <2>6, <3>1 DEF RecBegin, appFrame
  <2>7. CASE RecDevices
    <3>1. doing'["rec"] \notin {"add", "backoff"}
      BY <2>7 DEF RecDevices, GoOn, Proceed
    <3> QED  BY <2>7, <3>1 DEF RecDevices, appFrame
  <2>8. CASE RecStatus
    <3> DEFINE M == Missing(left["rec"], ans["rec"].devices)
    <3>1. M \in SUBSET Device /\ \A d \in M : attempts[d] < MaxRetries
      BY DEF Missing
    <3>2. TryNext(M) /\ attempts' = attempts
      BY <2>8 DEF RecStatus, appFrame
    <3>3. attempts' \in [Device -> 0 .. MaxRetries] /\ \A d \in M : attempts'[d] < MaxRetries
      BY <3>1, <3>2 DEF RetriesOK
    <3> HIDE DEF M
    <3> QED  BY <3>1, <3>2, <3>3, TryNextOK
  <2>9. CASE RecAdded
    <3> DEFINE L == left["rec"]
    <3>1. /\ doing["rec"] = "add" /\ TryNext(L)
          /\ attempts' = [d \in Device |-> IF d \notin arg["rec"] THEN attempts[d]
                                           ELSE IF ans["rec"].ok THEN 0 ELSE attempts[d] + 1]
      BY <2>9 DEF RecAdded, Answered
    <3>2. L \in SUBSET Device
      OBVIOUS
    <3>3. /\ arg["rec"] \cap L = {} /\ attempts \in [Device -> 0 .. MaxRetries]
          /\ \A d \in arg["rec"] \cup L : attempts[d] < MaxRetries
      BY <3>1 DEF RetriesOK
    <3> HIDE DEF L
    <3>4. \A d \in Device : attempts'[d] \in 0 .. MaxRetries
      BY <3>1, <3>3, Bounds
    <3>5. \A d \in L : attempts'[d] < MaxRetries
      BY <3>1, <3>2, <3>3
    <3>6. attempts' \in [Device -> 0 .. MaxRetries]
      BY <3>1, <3>4
    <3> QED  BY <3>1, <3>2, <3>5, <3>6, TryNextOK
  <2>16. CASE RecRetry
    BY <2>16 DEF RecRetry, appFrame, RetriesOK
  <2>10. CASE BoxDone
    <3>1. doing'["rec"] = doing["rec"]
      BY <2>10 DEF BoxDone, GoOn, Proceed
    <3> QED  BY <2>10, <3>1 DEF BoxDone
  <2>11. CASE t \in {"toggle", "tray"} /\ SwitchDone(t)
    <3>1. doing'["rec"] = doing["rec"]
      BY <2>11 DEF SwitchDone, GoOn, Proceed
    <3> QED  BY <2>11, <3>1 DEF SwitchDone, appFrame
  <2>12. CASE Restore \/ Restored
    <3>1. attempts' = attempts /\ \E ds : RestoreNext(ds)
      BY <2>12 DEF Restore, Restored
    <3>2. /\ doing'["rec"] = doing["rec"]
          /\ arg'["rec"] = arg["rec"] /\ left'["rec"] = left["rec"]
      BY <3>1 DEF RestoreNext, AddOneOf, GoOn, Proceed
    <3> QED  BY <3>1, <3>2
  <2>13. CASE Sync \/ Started \/ Stopped
    <3>1. doing'["rec"] = doing["rec"]
      BY <2>13 DEF Sync, Started, Stopped, GoOn, Proceed
    <3> QED  BY <2>13, <3>1 DEF Sync, Started, Stopped
  <2>14. CASE ShutDown
    <3>1. doing'["rec"] = "idle"
      BY <2>14 DEF ShutDown, OnExit
    <3> QED  BY <2>14, <3>1 DEF ShutDown
  <2> QED  BY <1>1, <2>1, <2>2, <2>3, <2>4, <2>5, <2>6, <2>7, <2>8, <2>9, <2>10, <2>11,
              <2>12, <2>13, <2>14, <2>15, <2>16 DEF TaskStep, Refresh, Rec
<1>2. ASSUME NEW d \in Device, ClickBox(d)
      PROVE  RetriesOK'
  <2>1. doing'["rec"] = doing["rec"]
    BY <1>2 DEF ClickBox, GoOn, Proceed
  <2> QED  BY <1>2, <2>1 DEF ClickBox, Click
<1>3. ASSUME NEW d \in Device, Unplug(d) \/ Plug(d)
      PROVE  RetriesOK'
  BY <1>3 DEF Unplug, Plug, eventFrame
<1>4. ASSUME NEW t \in {"toggle", "tray"}, ClickSwitch(t)
      PROVE  RetriesOK'
  <2>1. doing'["rec"] = doing["rec"]
    BY <1>4 DEF ClickSwitch, GoOn, Proceed
  <2> QED  BY <1>4, <2>1 DEF ClickSwitch, Click
<1>5. CASE ClickRefresh
  <2>1. doing'["rec"] = doing["rec"]
    BY <1>5 DEF ClickRefresh, GoOn, Proceed
  <2> QED  BY <1>5, <2>1 DEF ClickRefresh, Click
<1>6. CASE ClickSetting
  BY <1>6 DEF ClickSetting, Click, taskVars
<1>7. CASE TrayExit
  <2>1. doing'["rec"] = doing["rec"]
    BY <1>7 DEF TrayExit, GoOn, Proceed
  <2> QED  BY <1>7, <2>1 DEF TrayExit
<1>8. CASE SessionEnding
  <2>1. doing'["rec"] = "idle"
    BY <1>8 DEF SessionEnding, OnExit
  <2> QED  BY <1>8, <2>1 DEF SessionEnding
<1>9. CASE Crash
  <2>1. doing'["rec"] = doing["rec"]
    BY <1>9 DEF Crash
  <2> QED  BY <1>9, <2>1 DEF Crash, eventFrame
<1>10. CASE CaptureChanges \/ EngineRestarts
  BY <1>10 DEF CaptureChanges, EngineRestarts, eventFrame
<1>11. CASE UNCHANGED vars
  BY <1>11 DEF vars, taskVars
<1> QED  BY <1>1, <1>2, <1>3, <1>4, <1>5, <1>6, <1>7, <1>8, <1>9, <1>10, <1>11 DEF Next

\* Type of the state, with the attempts of the reconnect service within MaxRetries, the
\* queue made of tasks that wait for a command, and checked rows among those shown
\* (TypeOK), for any devices and bounds.
THEOREM TypesHold == Spec => []TypeOK
<1>1. Init => UIInv
  BY InitUIInv
<1>2. UIInv /\ [Next]_vars => UIInv'
  BY NextEngine, NextView, NextTasks, NextLists, NextRetries DEF UIInv
<1>3. UIInv => TypeOK
  BY DEF UIInv, EngineOK, ViewOK, TasksOK, ListsOK, RetriesOK, TypeOK
<1> QED  BY <1>1, <1>2, <1>3, PTL DEF Spec

-----------------------------------------------------------------------------
\* The command of the button is the one its label asked for, and the label is still the
\* one of that click: RefreshStatus looks at _isToggling.
ToggleInv ==
    /\ doing["toggle"] \in {"idle", "start", "stop"}
    /\ doing["toggle"] = "start" => ~shown
    /\ doing["toggle"] = "stop" => shown

\* What the step of another task, the user or the engine leaves of the button.
ToggleKept == UNCHANGED <<shown, doing["toggle"]>>

\* A step leaves the button and the label, or starts a toggle, or ends it, or ends the
\* application.
LEMMA NextToggle ==
    ASSUME UIInv, ToggleInv, [Next]_vars
    PROVE  \/ ToggleKept
           \/ doing["toggle"] = "idle" /\ doing'["toggle"] = "idle"
           \/ doing["toggle"] = "idle" /\ ToggleInv' /\ doing'["toggle"] # "idle"
           \/ SwitchDone("toggle")
           \/ stage' = "over" /\ doing'["toggle"] = "idle"
<1> DEFINE Goal == \/ ToggleKept
                   \/ doing["toggle"] = "idle" /\ doing'["toggle"] = "idle"
                   \/ doing["toggle"] = "idle" /\ ToggleInv' /\ doing'["toggle"] # "idle"
                   \/ SwitchDone("toggle")
                   \/ stage' = "over" /\ doing'["toggle"] = "idle"
<1> USE NotPolls DEF UIInv, ToggleKept, TasksOK, Task, Other, Refresher
<1>1. ASSUME NEW t \in Task, TaskStep(t)
      PROVE  Goal
  <2>1. CASE Ask(t)
    BY <2>1 DEF Ask, askFrame, viewVars
  <2>2. CASE t \in Refresher /\ Connected(t)
    BY <2>2 DEF Connected, GoOn, Proceed, connectFrame, viewVars
  <2>12. CASE (t \in Refresher /\ ConnectFails(t)) \/ Initialize
    <3>1. \E u \in Refresher : \E c : Disconnect(u, c)
      BY <2>12 DEF ConnectFails, Initialize, ConnectBegin
    <3>2. doing'["toggle"] = doing["toggle"]
      BY <3>1 DEF Disconnect, ToggleInv
    <3> QED  BY <2>12, <3>2 DEF ConnectFails, Initialize, connectFrame, viewVars
  <2>3. CASE t \in Refresher \cup {"refresh"} /\ RefreshDevices(t)
    BY <2>3 DEF RefreshDevices, GoOn, Proceed
  <2>4. CASE t \in Refresher /\ RefreshStatus(t)
    <3>1. doing'["toggle"] = doing["toggle"]
      BY <2>4 DEF RefreshStatus, GoOn, Proceed
    <3>2. CASE doing["toggle"] = "idle"
      BY <3>1, <3>2
    <3>3. CASE doing["toggle"] # "idle"
      <4>1. shown' = shown
        BY <2>4, <3>3 DEF RefreshStatus, IsToggling, Idle
      <4> QED  BY <3>1, <4>1
    <3> QED  BY <3>2, <3>3
  <2>5. CASE t \in Poll /\ Tick(t)
    <3>1. doing'["toggle"] = doing["toggle"]
      BY <2>5 DEF Tick, ConnectBegin, Disconnect, GoOn, Proceed, ToggleInv
    <3> QED  BY <2>5, <3>1 DEF Tick, connectFrame, viewVars
  <2>6. CASE Rec
    <3>1. shown' = shown
      BY <2>6 DEF Rec, RecBegin, RecDevices, RecStatus, RecRetry, RecAdded, viewVars
    <3>2. \E c : GoOn("rec", c)
      BY <2>6 DEF Rec, RecBegin, RecDevices, RecStatus, RecRetry, RecAdded, TryNext, AddOneOf
    <3>3. doing'["toggle"] = doing["toggle"]
      BY <3>2 DEF GoOn, Proceed
    <3> QED  BY <3>1, <3>3
  <2>7. CASE BoxDone
    BY <2>7 DEF BoxDone, GoOn, Proceed
  <2>8. CASE t \in {"toggle", "tray"} /\ SwitchDone(t)
    <3>1. CASE t = "tray"
      BY <2>8, <3>1 DEF SwitchDone, GoOn, Proceed
    <3> QED  BY <2>8, <3>1
  <2>9. CASE Restore \/ Restored
    <3>1. shown' = shown /\ \E c : GoOn("app", c)
      BY <2>9 DEF Restore, Restored, RestoreNext, AddOneOf, viewVars
    <3> QED  BY <3>1 DEF GoOn, Proceed
  <2>10. CASE Sync \/ Started \/ Stopped
    <3>1. shown' = shown /\ \E c : GoOn("app", c)
      BY <2>10 DEF Sync, Started, Stopped, viewVars
    <3> QED  BY <3>1 DEF GoOn, Proceed
  <2>11. CASE ShutDown
    BY <2>11 DEF ShutDown, OnExit
  <2> QED  BY <1>1, <2>1, <2>2, <2>3, <2>4, <2>5, <2>6, <2>7, <2>8, <2>9, <2>10, <2>11,
              <2>12 DEF TaskStep, Refresh
<1>2. ASSUME NEW d \in Device, ClickBox(d) \/ Unplug(d) \/ Plug(d)
      PROVE  Goal
  BY <1>2 DEF ClickBox, Click, Unplug, Plug, GoOn, Proceed, eventFrame, viewVars
<1>3. CASE ClickSwitch("toggle")
  <2>1. shown \in BOOLEAN
    BY DEF ViewOK
  <2> QED  BY <1>3, <2>1 DEF ClickSwitch, Click, GoOn, Proceed, viewVars, Idle, ToggleInv
<1>4. CASE ClickSwitch("tray")
  BY <1>4 DEF ClickSwitch, Click, GoOn, Proceed, viewVars
<1>5. CASE ClickRefresh \/ ClickSetting
  BY <1>5 DEF ClickRefresh, ClickSetting, Click, GoOn, Proceed, viewVars, taskVars
<1>6. CASE TrayExit
  BY <1>6 DEF TrayExit, GoOn, Proceed, viewVars
<1>7. CASE SessionEnding
  BY <1>7 DEF SessionEnding, OnExit
<1>8. CASE CaptureChanges \/ EngineRestarts
  BY <1>8 DEF CaptureChanges, EngineRestarts, eventFrame, viewVars
<1>9. CASE Crash
  BY <1>9 DEF Crash, eventFrame, viewVars
<1>10. CASE UNCHANGED vars
  BY <1>10 DEF vars, viewVars, taskVars
<1> QED  BY <1>1, <1>2, <1>3, <1>4, <1>5, <1>6, <1>7, <1>8, <1>9, <1>10 DEF Next

\* So the label of the click stays until its answer is there.
LEMMA NextToggleInv ==
    ASSUME UIInv, ToggleInv, [Next]_vars
    PROVE  ToggleInv'
<1>1. CASE ToggleKept
  BY <1>1 DEF ToggleKept, ToggleInv
<1>2. CASE SwitchDone("toggle")
  <2>1. doing'["toggle"] = "idle"
    BY <1>2 DEF SwitchDone, GoOn, Proceed, UIInv, TasksOK, Task, Other
  <2> QED  BY <2>1 DEF ToggleInv
<1>3. CASE doing'["toggle"] = "idle"
  BY <1>3 DEF ToggleInv
<1> QED  BY <1>1, <1>2, <1>3, NextToggle

\* And the answer flips it to what was asked for.
LEMMA ToggleStep ==
    ASSUME UIInv, ToggleInv, [Next]_vars
    PROVE  [~Idle("toggle") /\ doing'["toggle"] = "idle" /\ stage' # "over" /\ ans["toggle"].ok
              => shown' = (doing["toggle"] = "start")]_vars
<1> SUFFICES ASSUME ~Idle("toggle"), doing'["toggle"] = "idle", stage' # "over",
                    ans["toggle"].ok
             PROVE  shown' = (doing["toggle"] = "start")
  OBVIOUS
<1>1. doing["toggle"] # "idle"
  BY DEF Idle
<1>2. SwitchDone("toggle")
  BY <1>1, NextToggle DEF ToggleKept
<1>3. shown' = ~shown
  BY <1>2 DEF SwitchDone
<1>4. doing["toggle"] = "start" \/ doing["toggle"] = "stop"
  BY <1>1 DEF ToggleInv
<1>5. CASE doing["toggle"] = "start"
  BY <1>3, <1>5 DEF ToggleInv
<1>6. CASE doing["toggle"] = "stop"
  BY <1>3, <1>6 DEF ToggleInv
<1> QED  BY <1>4, <1>5, <1>6

\* A toggle that succeeded shows what it asked for (ToggleShowsResult), whatever
\* refreshes, polls and other commands come between the click and the answer.
THEOREM ToggleIsShown == Spec => ToggleShowsResult
<1>1. Init => UIInv /\ ToggleInv
  <2>1. Init => ToggleInv
    BY DEF Init, ToggleInv, Task, Other
  <2> QED  BY <2>1, InitUIInv
<1>2. UIInv /\ ToggleInv /\ [Next]_vars => (UIInv /\ ToggleInv)'
  BY NextEngine, NextView, NextTasks, NextLists, NextRetries, NextToggleInv DEF UIInv
<1>3. UIInv /\ ToggleInv /\ [Next]_vars
        => [~Idle("toggle") /\ doing'["toggle"] = "idle" /\ stage' # "over" /\ ans["toggle"].ok
              => shown' = (doing["toggle"] = "start")]_vars
  BY ToggleStep
<1> QED  BY <1>1, <1>2, <1>3, PTL DEF Spec, ToggleShowsResult
=============================================================================
