-------------------- MODULE MusicDownloadManager_proofs --------------------
(***************************************************************************)
(* Theorems about MusicDownloadManager, for any songs, URLs and tasks and  *)
(* any number of pauses: the type invariant; RowHasFile, FileHasRow and    *)
(* AnsweredOnce from the shape of a task; DataTakenOnce from Singles.      *)
(***************************************************************************)
EXTENDS MusicDownloadManager, TLAPS

(* The task t is changed to new, which is of the same URL.                 *)
LEMMA TaskChanged ==
  ASSUME TypeOK, NEW t \in TaskIds, tasks[t].url \in URLs,
         NEW new \in Task, new.url = tasks[t].url, new.state # "unborn",
         tasks' = [tasks EXCEPT ![t] = new]
  PROVE  /\ tasks' \in [TaskIds -> Task]
         /\ \A n \in TaskIds :
              tasks'[n] = Unborn \/ (tasks'[n].url \in URLs /\ tasks'[n].state # "unborn")
         /\ \A n \in TaskIds : tasks'[n].url = tasks[n].url
BY DEF TypeOK

(* A task that something has happened to is born. *)
LEMMA Born ==
  ASSUME TypeOK, NEW t \in TaskIds
  PROVE  /\ tasks[t] \in Task
         /\ tasks[t].state # "unborn" => tasks[t].url \in URLs
         /\ tasks[t].finish # "none" => tasks[t].url \in URLs /\ tasks[t].state # "unborn"
         /\ tasks[t].complete # "none" => tasks[t].url \in URLs /\ tasks[t].state # "unborn"
         /\ tasks[t].handler # "none" => tasks[t].url \in URLs /\ tasks[t].state # "unborn"
BY DEF TypeOK, Unborn

(* The state before anything is downloaded is well formed. *)
LEMMA TypeInit == Init => TypeOK
<1>1. Unborn \in Task
  BY DEF Unborn, Task
<1> QED
  BY <1>1, DownloadAssumption DEF Init, TypeOK, Idle

(* The steps of a task, one by one, keep the state well formed: its end,   *)
LEMMA TypeDownloaded ==
  ASSUME TypeOK, NEW t \in TaskIds, Downloaded(t) PROVE TypeOK'
<1> DEFINE new == [tasks[t] EXCEPT !.state = "ended", !.finish = "due", !.complete = "due"]
<1>1. new \in Task /\ new.url = tasks[t].url /\ new.state # "unborn" /\ tasks[t].url \in URLs
  BY Born DEF Downloaded, Task
<1>2. tasks' = [tasks EXCEPT ![t] = new]
  BY DEF Downloaded
<1> HIDE DEF new
<1>3. /\ tasks' \in [TaskIds -> Task]
      /\ \A n \in TaskIds :
           tasks'[n] = Unborn \/ (tasks'[n].url \in URLs /\ tasks'[n].state # "unborn")
      /\ \A n \in TaskIds : tasks'[n].url = tasks[n].url
  BY <1>1, <1>2, TaskChanged
<1> QED
  BY <1>1, <1>3, DownloadAssumption DEF Downloaded, TypeOK

(* the two steps of a pause's handler,                                     *)
LEMMA TypeHandlerStores ==
  ASSUME TypeOK, NEW t \in TaskIds, HandlerStores(t) PROVE TypeOK'
<1> DEFINE new == [tasks[t] EXCEPT !.handler = "nil"]
<1>1. new \in Task /\ new.url = tasks[t].url /\ new.state # "unborn" /\ tasks[t].url \in URLs
  BY Born DEF HandlerStores, Task
<1>2. tasks' = [tasks EXCEPT ![t] = new]
  BY DEF HandlerStores
<1> HIDE DEF new
<1>3. /\ tasks' \in [TaskIds -> Task]
      /\ \A n \in TaskIds :
           tasks'[n] = Unborn \/ (tasks'[n].url \in URLs /\ tasks'[n].state # "unborn")
      /\ \A n \in TaskIds : tasks'[n].url = tasks[n].url
  BY <1>1, <1>2, TaskChanged
<1> QED
  BY <1>1, <1>3, DownloadAssumption DEF HandlerStores, TypeOK

(* (the second),                                                           *)
LEMMA TypeHandlerForgets ==
  ASSUME TypeOK, NEW t \in TaskIds, HandlerForgets(t) PROVE TypeOK'
<1> DEFINE new == [tasks[t] EXCEPT !.handler = "none"]
<1>1. new \in Task /\ new.url = tasks[t].url /\ new.state # "unborn" /\ tasks[t].url \in URLs
  BY Born DEF HandlerForgets, Task
<1>2. tasks' = [tasks EXCEPT ![t] = new]
  BY DEF HandlerForgets
<1> HIDE DEF new
<1>3. /\ tasks' \in [TaskIds -> Task]
      /\ \A n \in TaskIds :
           tasks'[n] = Unborn \/ (tasks'[n].url \in URLs /\ tasks'[n].state # "unborn")
      /\ \A n \in TaskIds : tasks'[n].url = tasks[n].url
  BY <1>1, <1>2, TaskChanged
<1> QED
  BY <1>1, <1>3, DownloadAssumption DEF HandlerForgets, TypeOK

(* the completion after a move,                                            *)
LEMMA TypeCompletion ==
  ASSUME TypeOK, NEW t \in TaskIds, Completion(t) PROVE TypeOK'
<1> DEFINE count == tasks[t].answers + 1
           new == [tasks[t] EXCEPT !.finish = "answered", !.answers = count]
<1>0. count \in Nat /\ tasks[t] \in Task
  BY DEF TypeOK, Task
<1>2. tasks' = [tasks EXCEPT ![t] = new]
  BY DEF Completion
<1> HIDE DEF count
<1>1. new \in Task /\ new.url = tasks[t].url /\ new.state # "unborn" /\ tasks[t].url \in URLs
  BY <1>0, Born DEF Completion, Task
<1> HIDE DEF new
<1>3. /\ tasks' \in [TaskIds -> Task]
      /\ \A n \in TaskIds :
           tasks'[n] = Unborn \/ (tasks'[n].url \in URLs /\ tasks'[n].state # "unborn")
      /\ \A n \in TaskIds : tasks'[n].url = tasks[n].url
  BY <1>1, <1>2, TaskChanged
<1> QED
  BY <1>1, <1>3, DownloadAssumption DEF Completion, Enter, TypeOK, Song

(* what didFinishDownloading forgets,                                      *)
LEMMA TypeForgetTask ==
  ASSUME TypeOK, NEW t \in TaskIds, ForgetTask(t) PROVE TypeOK'
<1> DEFINE new == [tasks[t] EXCEPT !.finish = "forgotten"]
<1>1. new \in Task /\ new.url = tasks[t].url /\ new.state # "unborn" /\ tasks[t].url \in URLs
  BY Born DEF ForgetTask, Task
<1>2. tasks' = [tasks EXCEPT ![t] = new]
  BY DEF ForgetTask
<1> HIDE DEF new
<1>3. /\ tasks' \in [TaskIds -> Task]
      /\ \A n \in TaskIds :
           tasks'[n] = Unborn \/ (tasks'[n].url \in URLs /\ tasks'[n].state # "unborn")
      /\ \A n \in TaskIds : tasks'[n].url = tasks[n].url
  BY <1>1, <1>2, TaskChanged
<1> QED
  BY <1>1, <1>3, DownloadAssumption DEF ForgetTask, TypeOK

(* (task, then data),                                                      *)
LEMMA TypeForgetData ==
  ASSUME TypeOK, NEW t \in TaskIds, ForgetData(t) PROVE TypeOK'
<1> DEFINE new == [tasks[t] EXCEPT !.finish = "done"]
<1>1. new \in Task /\ new.url = tasks[t].url /\ new.state # "unborn" /\ tasks[t].url \in URLs
  BY Born DEF ForgetData, Task
<1>2. tasks' = [tasks EXCEPT ![t] = new]
  BY DEF ForgetData
<1> HIDE DEF new
<1>3. /\ tasks' \in [TaskIds -> Task]
      /\ \A n \in TaskIds :
           tasks'[n] = Unborn \/ (tasks'[n].url \in URLs /\ tasks'[n].state # "unborn")
      /\ \A n \in TaskIds : tasks'[n].url = tasks[n].url
  BY <1>1, <1>2, TaskChanged
<1> QED
  BY <1>1, <1>3, DownloadAssumption DEF ForgetData, TypeOK

(* the data an error brings,                                               *)
LEMMA TypeStoreData ==
  ASSUME TypeOK, NEW t \in TaskIds, StoreData(t) PROVE TypeOK'
<1> DEFINE new == [tasks[t] EXCEPT !.complete = "stored"]
<1>1. new \in Task /\ new.url = tasks[t].url /\ new.state # "unborn" /\ tasks[t].url \in URLs
  BY Born DEF StoreData, Task
<1>2. tasks' = [tasks EXCEPT ![t] = new]
  BY DEF StoreData
<1> HIDE DEF new
<1>3. /\ tasks' \in [TaskIds -> Task]
      /\ \A n \in TaskIds :
           tasks'[n] = Unborn \/ (tasks'[n].url \in URLs /\ tasks'[n].state # "unborn")
      /\ \A n \in TaskIds : tasks'[n].url = tasks[n].url
  BY <1>1, <1>2, TaskChanged
<1> QED
  BY <1>1, <1>3, DownloadAssumption DEF StoreData, TypeOK

(* the completion of an error,                                             *)
LEMMA TypeAnswerError ==
  ASSUME TypeOK, NEW t \in TaskIds, AnswerError(t) PROVE TypeOK'
<1> DEFINE count == tasks[t].answers + 1
           new == [tasks[t] EXCEPT !.complete = "done", !.answers = count]
<1>0. count \in Nat /\ tasks[t] \in Task
  BY DEF TypeOK, Task
<1>2. tasks' = [tasks EXCEPT ![t] = new]
  BY DEF AnswerError
<1> HIDE DEF count
<1>1. new \in Task /\ new.url = tasks[t].url /\ new.state # "unborn" /\ tasks[t].url \in URLs
  BY <1>0, Born DEF AnswerError, Task
<1> HIDE DEF new
<1>3. /\ tasks' \in [TaskIds -> Task]
      /\ \A n \in TaskIds :
           tasks'[n] = Unborn \/ (tasks'[n].url \in URLs /\ tasks'[n].state # "unborn")
      /\ \A n \in TaskIds : tasks'[n].url = tasks[n].url
  BY <1>1, <1>2, TaskChanged
<1> QED
  BY <1>1, <1>3, DownloadAssumption DEF AnswerError, Enter, TypeOK, Song


(* the failure itself,                                                     *)
LEMMA TypeFails ==
  ASSUME TypeOK, NEW t \in TaskIds, Fails(t) PROVE TypeOK'
<1>1. PICK data \in BOOLEAN : tasks' = [tasks EXCEPT ![t] = Failed(tasks[t], data)]
  BY DEF Fails
<1> DEFINE new == Failed(tasks[t], data)
<1>a. tasks[t] \in Task /\ tasks[t].state = "running" /\ tasks[t].url \in URLs
  BY Born DEF Fails
<1>b. new \in Task
  BY <1>a DEF Failed, Task
<1>c. new.url = tasks[t].url /\ new.state # "unborn"
  BY <1>a DEF Failed, Task
<1>2. new \in Task /\ new.url = tasks[t].url /\ new.state # "unborn" /\ tasks[t].url \in URLs
  BY <1>a, <1>b, <1>c
<1> HIDE DEF new
<1>3. /\ tasks' \in [TaskIds -> Task]
      /\ \A n \in TaskIds :
           tasks'[n] = Unborn \/ (tasks'[n].url \in URLs /\ tasks'[n].state # "unborn")
      /\ \A n \in TaskIds : tasks'[n].url = tasks[n].url
  BY <1>1, <1>2, TaskChanged DEF new
<1> QED
  BY <1>2, <1>3, DownloadAssumption DEF Fails, TypeOK

(* the move, which may fail,                                               *)
LEMMA TypeMoveFile ==
  ASSUME TypeOK, NEW t \in TaskIds, MoveFile(t) PROVE TypeOK'
<1>1. PICK end \in {"moved", "unmoved"} : tasks' = [tasks EXCEPT ![t].finish = end]
  BY DEF MoveFile
<1> DEFINE new == [tasks[t] EXCEPT !.finish = end]
<1>2. new \in Task /\ new.url = tasks[t].url /\ new.state # "unborn" /\ tasks[t].url \in URLs
  BY Born DEF MoveFile, Task
<1>4. tasks' = [tasks EXCEPT ![t] = new]
  BY <1>1
<1> HIDE DEF new
<1>3. /\ tasks' \in [TaskIds -> Task]
      /\ \A n \in TaskIds :
           tasks'[n] = Unborn \/ (tasks'[n].url \in URLs /\ tasks'[n].state # "unborn")
      /\ \A n \in TaskIds : tasks'[n].url = tasks[n].url
  BY <1>4, <1>2, TaskChanged
<1> QED
  BY <1>2, <1>3, DownloadAssumption DEF MoveFile, TypeOK, Song

(* and what didComplete decides.                                           *)
LEMMA TypeDidComplete ==
  ASSUME TypeOK, NEW t \in TaskIds, DidComplete(t) PROVE TypeOK'
<1>1. PICK end \in {"done", "storing", "stored"} : tasks' = [tasks EXCEPT ![t].complete = end]
  BY DEF DidComplete
<1> DEFINE new == [tasks[t] EXCEPT !.complete = end]
<1>2. new \in Task /\ new.url = tasks[t].url /\ new.state # "unborn" /\ tasks[t].url \in URLs
  BY Born DEF DidComplete, Task
<1>4. tasks' = [tasks EXCEPT ![t] = new]
  BY <1>1
<1> HIDE DEF new
<1>3. /\ tasks' \in [TaskIds -> Task]
      /\ \A n \in TaskIds :
           tasks'[n] = Unborn \/ (tasks'[n].url \in URLs /\ tasks'[n].state # "unborn")
      /\ \A n \in TaskIds : tasks'[n].url = tasks[n].url
  BY <1>4, <1>2, TaskChanged
<1> QED
  BY <1>2, <1>3, DownloadAssumption DEF DidComplete, TypeOK

(* Pausing changes at most the registered task.                            *)
LEMMA TypePause ==
  ASSUME TypeOK, NEW u \in URLs, PauseDownload(u) PROVE TypeOK'
<1> DEFINE t == downloadTasks[u]
<1>0. t # NoTask /\ interrupts' = interrupts + 1
  BY DEF PauseDownload
<1>1. t \in TaskIds /\ tasks[t].url = u /\ interrupts' \in Nat
  BY <1>0 DEF TypeOK
<1>2. PICK new \in Task : /\ new.url = u /\ new.state # "unborn"
                          /\ tasks' = [tasks EXCEPT ![t] = new]
  <2>1. tasks[t] \in Task
    BY <1>1 DEF TypeOK
  <2> HIDE DEF t
  <2>2. CASE tasks[t].state = "running" /\ \E data \in BOOLEAN :
                 tasks' = [tasks EXCEPT ![t] =
                   [Failed(tasks[t], data) EXCEPT !.handler = IF data THEN "data" ELSE "nil",
                                           !.paused = TRUE]]
    <3>1. PICK data \in BOOLEAN : tasks' = [tasks EXCEPT ![t] =
             [Failed(tasks[t], data) EXCEPT !.handler = IF data THEN "data" ELSE "nil",
                                           !.paused = TRUE]]
      BY <2>2
    <3> DEFINE h == IF data THEN "data" ELSE "nil"
               f == Failed(tasks[t], data)
    <3>2. h \in {"none", "data", "nil"}
      OBVIOUS
    <3> HIDE DEF h
    <3>3. f \in Task /\ f.url = u /\ f.state = "ended"
      BY <1>1, <2>1 DEF Failed, Task
    <3>4. tasks' = [tasks EXCEPT ![t] = [f EXCEPT !.handler = h, !.paused = TRUE]]
      BY <3>1 DEF h
    <3> HIDE DEF f
    <3>5. /\ [f EXCEPT !.handler = h, !.paused = TRUE] \in Task
          /\ [f EXCEPT !.handler = h, !.paused = TRUE].url = u
          /\ [f EXCEPT !.handler = h, !.paused = TRUE].state # "unborn"
      BY <3>2, <3>3 DEF Task
    <3> QED
      BY <3>4, <3>5
  <2>3. CASE tasks[t].state = "ended" /\ tasks' = [tasks EXCEPT ![t].handler = "nil"]
    <3>1. /\ [tasks[t] EXCEPT !.handler = "nil"] \in Task
          /\ [tasks[t] EXCEPT !.handler = "nil"].url = u
          /\ [tasks[t] EXCEPT !.handler = "nil"].state # "unborn"
      BY <1>1, <2>1, <2>3 DEF Task
    <3> QED
      BY <2>3, <3>1
  <2> QED
    BY <2>2, <2>3 DEF PauseDownload, t
<1> HIDE DEF t
<1>4. tasks[t].url \in URLs /\ new.url = tasks[t].url
  BY <1>1, <1>2
<1>3. /\ tasks' \in [TaskIds -> Task]
      /\ \A n \in TaskIds :
           tasks'[n] = Unborn \/ (tasks'[n].url \in URLs /\ tasks'[n].state # "unborn")
      /\ \A n \in TaskIds : tasks'[n].url = tasks[n].url
  BY <1>1, <1>2, <1>4, TaskChanged
<1>5. UNCHANGED <<files, rows, resumeDataMap, downloadTasks, press, orphans>>
  BY DEF PauseDownload
<1> QED
  BY <1>1, <1>3, <1>5, DownloadAssumption DEF TypeOK

(* So does cancelling. *)
LEMMA TypeCancel ==
  ASSUME TypeOK, NEW u \in URLs, CancelDownload(u) PROVE TypeOK'
<1> DEFINE t == downloadTasks[u]
<1>1. t \in TaskIds /\ tasks[t].url = u /\ interrupts' \in Nat
  BY DEF CancelDownload, TypeOK
<1>2. PICK data \in BOOLEAN : tasks' = IF tasks[t].state = "running"
                    THEN [tasks EXCEPT ![t] = Failed(tasks[t], data)] ELSE tasks
  BY DEF CancelDownload
<1> HIDE DEF t
<1> DEFINE new == Failed(tasks[t], data)
<1>3. new \in Task /\ new.url = tasks[t].url /\ new.state # "unborn"
  BY <1>1, Born DEF Failed, Task
<1>4. tasks' = [tasks EXCEPT ![t] = new] \/ tasks' = tasks
  BY <1>2
<1> HIDE DEF new
<1>5. /\ tasks' \in [TaskIds -> Task]
      /\ \A n \in TaskIds :
           tasks'[n] = Unborn \/ (tasks'[n].url \in URLs /\ tasks'[n].state # "unborn")
      /\ \A n \in TaskIds : tasks'[n].url = tasks[n].url
  BY <1>1, <1>3, <1>4, TaskChanged DEF TypeOK
<1>6. UNCHANGED <<files, rows, resumeDataMap, downloadTasks, orphans>>
  BY DEF CancelDownload
<1>7. press' = [pc |-> "forget", url |-> u, data |-> NoTask, task |-> NoTask]
  BY DEF CancelDownload, Idle
<1>8. /\ press' \in [pc : {"idle", "read", "make", "save", "forget", "drop"},
                      url : URLs \cup {NoURL}, data : TaskIds \cup {NoTask},
                      task : TaskIds \cup {NoTask}]
      /\ press'.pc = "forget" /\ press'.url = u
  BY <1>7
<1> QED
  BY <1>1, <1>5, <1>6, <1>8, DownloadAssumption DEF TypeOK

(* Then the URL and its data are forgotten. *)
LEMMA TypeCancelled ==
  ASSUME TypeOK, CancelForgets \/ CancelDrops PROVE TypeOK'
<1>1. CASE CancelForgets
  BY <1>1 DEF CancelForgets, TypeOK
<1>2. CASE CancelDrops
  BY <1>2 DEF CancelDrops, TypeOK, Idle
<1> QED
  BY <1>1, <1>2

(* The button, step by step. *)
LEMMA TypePress ==
  ASSUME TypeOK,
         (\E u \in URLs : PressDownload(u)) \/ ReadResumeData \/ SaveTask
           \/ \E t \in TaskIds : MakeTask(t)
  PROVE  TypeOK'
<1>1. ASSUME NEW u \in URLs, PressDownload(u) PROVE TypeOK'
  <2>1. CASE SongOf[u] \in files /\ Enter(SongOf[u], FALSE) /\ UNCHANGED press
    BY <1>1, <2>1, DownloadAssumption DEF PressDownload, Enter, TypeOK
  <2>2. CASE /\ SongOf[u] \notin files
             /\ press' = [Idle EXCEPT !.pc = "read", !.url = u]
             /\ UNCHANGED <<rows, orphans>>
    <3>1. press' = [pc |-> "read", url |-> u, data |-> NoTask, task |-> NoTask]
      BY <2>2 DEF Idle
    <3>2. /\ press'.pc = "read" /\ press'.url = u
          /\ press' \in [pc : {"idle", "read", "make", "save", "forget", "drop"},
                         url : URLs \cup {NoURL}, data : TaskIds \cup {NoTask}, task : TaskIds \cup {NoTask}]
      BY <3>1
    <3>3. UNCHANGED <<files, resumeDataMap, downloadTasks, tasks, interrupts, rows, orphans>>
      BY <1>1, <2>2 DEF PressDownload
    <3> QED
      BY <3>2, <3>3 DEF TypeOK
  <2> QED
    BY <1>1, <2>1, <2>2 DEF PressDownload
<1>2. CASE ReadResumeData
  BY <1>2 DEF ReadResumeData, TypeOK
<1>3. CASE SaveTask
  BY <1>3 DEF SaveTask, TypeOK, Idle
<1>4. ASSUME NEW t \in TaskIds, MakeTask(t) PROVE TypeOK'
  <2> DEFINE new == [Unborn EXCEPT !.url = press.url, !.from = press.data,
                                   !.state = "running"]
  <2>1. new \in Task /\ new.url = press.url /\ new.state # "unborn" /\ press.url \in URLs
    BY <1>4 DEF MakeTask, TypeOK, Unborn, Task
  <2>2. tasks[t] = Unborn /\ Unborn.url = NoURL
    BY <1>4 DEF MakeTask, TypeOK, Unborn
  <2>3. tasks' = [tasks EXCEPT ![t] = new]
    BY <1>4 DEF MakeTask
  <2> HIDE DEF new
  <2>4. /\ tasks' \in [TaskIds -> Task]
        /\ \A n \in TaskIds :
             tasks'[n] = Unborn \/ (tasks'[n].url \in URLs /\ tasks'[n].state # "unborn")
        /\ \A n \in TaskIds \ {t} : tasks'[n] = tasks[n]
        /\ tasks'[t].url = press.url
    BY <2>1, <2>3 DEF TypeOK
  <2>5. \A u \in URLs : resumeDataMap[u] # t /\ downloadTasks[u] # t
    BY <2>2, DownloadAssumption DEF TypeOK
  <2>6. /\ resumeDataMap' \in [URLs -> TaskIds \cup {NoTask}]
        /\ \A u \in URLs : resumeDataMap'[u] \in {NoTask, resumeDataMap[u]}
    BY <1>4 DEF MakeTask, DropData, TypeOK
  <2>7. /\ press'.pc = "save" /\ press'.task = t /\ press'.url = press.url
        /\ press' \in [pc : {"idle", "read", "make", "save", "forget", "drop"},
                       url : URLs \cup {NoURL}, data : TaskIds \cup {NoTask}, task : TaskIds \cup {NoTask}]
    BY <1>4 DEF MakeTask, TypeOK
  <2>8. UNCHANGED <<files, rows, downloadTasks, interrupts, orphans>>
    BY <1>4 DEF MakeTask
  <2>9. \A u \in URLs : /\ resumeDataMap'[u] # NoTask => tasks'[resumeDataMap'[u]].url = u
                        /\ downloadTasks'[u] # NoTask => tasks'[downloadTasks'[u]].url = u
    BY <2>4, <2>5, <2>6, <2>8 DEF TypeOK
  <2> QED
    BY <2>1, <2>4, <2>6, <2>7, <2>8, <2>9 DEF TypeOK
<1> QED
  BY <1>1, <1>2, <1>3, <1>4

(* A kill leaves files and rows.                                           *)
LEMMA TypeKill == TypeOK /\ Kill => TypeOK'
<1>1. Unborn \in Task
  BY DEF Unborn, Task
<1> QED
  BY <1>1, DownloadAssumption DEF Kill, TypeOK, Idle

(* Every step keeps the state well formed. *)
LEMMA TypeNext == TypeOK /\ [Next]_vars => TypeOK'
<1> SUFFICES ASSUME TypeOK, [Next]_vars PROVE TypeOK'
  OBVIOUS
<1>1. CASE UNCHANGED vars
  BY <1>1 DEF vars, TypeOK
<1> QED
  BY <1>1, TypeDownloaded, TypeHandlerStores, TypeHandlerForgets, TypeCompletion,
     TypeForgetTask, TypeForgetData, TypeStoreData, TypeAnswerError, TypeFails,
     TypeMoveFile, TypeDidComplete, TypePause, TypeCancel, TypeCancelled, TypePress, TypeKill DEF Next

(* For any songs, URLs and tasks: the state is well formed, and what is    *)
(* kept under a URL belongs to a task of it.                               *)
THEOREM TypeCorrect == Spec => []TypeOK
BY TypeInit, TypeNext, PTL DEF Spec

----------------------------------------------------------------------------
(* A task that has not ended has been told nothing; one that has ended has *)
(* either a file to move or an error, and each leads to one answer.        *)
Shape(k) ==
  /\ k.state # "ended" =>
       /\ k.finish = "none" /\ k.complete = "none" /\ k.error = FALSE
       /\ k.answers = 0 /\ k.handler = "none" /\ k.paused = FALSE
  /\ k.state = "ended" => k.complete # "none" /\ (k.error = TRUE <=> k.finish = "none")
  /\ k.complete \in {"storing", "stored"} => k.error = TRUE
  /\ k.handler = "data" => k.paused = TRUE
  /\ k.answers = IF \/ k.finish \in {"answered", "forgotten", "done"}
                    \/ (k.error = TRUE /\ k.complete = "done") THEN 1 ELSE 0

Shaped == \A t \in TaskIds : Shape(tasks[t])

(* A file moved to its place is there while its completion runs.           *)
Moved == \A t \in TaskIds : tasks[t].finish = "moved" => Song(t) \in files

(* It is enough that what the task becomes is well shaped. *)
LEMMA ShapeChanged ==
  ASSUME Shaped, tasks \in [TaskIds -> Task], NEW t \in TaskIds, NEW new, Shape(new),
         tasks' = [tasks EXCEPT ![t] = new]
  PROVE  Shaped'
BY DEF Shaped

(* The steps of a task keep its shape. *)
LEMMA ShapeTask ==
  ASSUME TypeOK, Shaped, NEW t \in TaskIds,
         \/ Downloaded(t) \/ Fails(t) \/ HandlerStores(t) \/ HandlerForgets(t)
         \/ MoveFile(t) \/ Completion(t) \/ ForgetTask(t) \/ ForgetData(t)
         \/ DidComplete(t) \/ StoreData(t) \/ AnswerError(t)
  PROVE  Shaped'
<1>0. tasks \in [TaskIds -> Task] /\ tasks[t] \in Task /\ Shape(tasks[t])
  BY DEF TypeOK, Shaped
<1>1. CASE Downloaded(t)
  BY <1>0, <1>1 DEF Downloaded, Shaped, Shape, Task
<1>2. CASE Fails(t)
  <2>1. PICK data \in BOOLEAN : tasks' = [tasks EXCEPT ![t] = Failed(tasks[t], data)]
    BY <1>2 DEF Fails
  <2>2. Shape(Failed(tasks[t], data))
    BY <1>0, <1>2 DEF Fails, Failed, Shape, Task
  <2> QED
    BY <1>0, <2>1, <2>2, ShapeChanged
<1>3. CASE HandlerStores(t)
  BY <1>0, <1>3 DEF HandlerStores, Shaped, Shape, Task
<1>4. CASE HandlerForgets(t)
  BY <1>0, <1>4 DEF HandlerForgets, Shaped, Shape, Task
<1>5. CASE MoveFile(t)
  BY <1>0, <1>5 DEF MoveFile, Shaped, Shape, Task
<1>6. CASE Completion(t)
  BY <1>0, <1>6 DEF Completion, Shaped, Shape, Task
<1>7. CASE ForgetTask(t)
  BY <1>0, <1>7 DEF ForgetTask, Shaped, Shape, Task
<1>8. CASE ForgetData(t)
  BY <1>0, <1>8 DEF ForgetData, Shaped, Shape, Task
<1>9. CASE DidComplete(t)
  BY <1>0, <1>9 DEF DidComplete, Ignored, Shaped, Shape, Task
<1>10. CASE StoreData(t)
  BY <1>0, <1>10 DEF StoreData, Shaped, Shape, Task
<1>11. CASE AnswerError(t)
  BY <1>0, <1>11 DEF AnswerError, Shaped, Shape, Task
<1> QED
  BY <1>1, <1>2, <1>3, <1>4, <1>5, <1>6, <1>7, <1>8, <1>9, <1>10, <1>11

(* So do the button, a pause, a cancel and a kill. *)
LEMMA ShapeNext == TypeOK /\ Shaped /\ [Next]_vars => Shaped'
<1> SUFFICES ASSUME TypeOK, Shaped, [Next]_vars PROVE Shaped'
  OBVIOUS
<1>0. tasks \in [TaskIds -> Task]
  BY DEF TypeOK
<1>1. CASE UNCHANGED vars
  BY <1>1 DEF vars, Shaped
<1>2. ASSUME NEW u \in URLs, PressDownload(u) PROVE Shaped'
  BY <1>2 DEF PressDownload, Shaped
<1>3. ASSUME NEW u \in URLs, PauseDownload(u) PROVE Shaped'
  <2> DEFINE t == downloadTasks[u]
             task == tasks[t]
  <2>1. t \in TaskIds /\ task \in Task /\ Shape(task)
    BY <1>3 DEF PauseDownload, TypeOK, Shaped
  <2>2. \/ /\ task.state = "running"
           /\ \E data \in BOOLEAN :
                tasks' = [tasks EXCEPT ![t] =
                  [Failed(task, data) EXCEPT !.handler = IF data THEN "data" ELSE "nil",
                                             !.paused = TRUE]]
        \/ task.state = "ended" /\ tasks' = [tasks EXCEPT ![t] = [task EXCEPT !.handler = "nil"]]
    BY <1>3 DEF PauseDownload
  <2> HIDE DEF t, task
  <2>3. ASSUME task.state = "running", NEW data \in BOOLEAN
        PROVE  Shape([Failed(task, data) EXCEPT !.handler = IF data THEN "data" ELSE "nil",
                                                !.paused = TRUE])
    <3> DEFINE f == Failed(task, data)
               h == IF data THEN "data" ELSE "nil"
    <3>1. /\ f \in Task /\ f.state = "ended" /\ f.complete = "due" /\ f.error = TRUE
          /\ f.finish = "none" /\ f.answers = 0
      BY <2>1, <2>3 DEF Failed, Shape, Task
    <3> HIDE DEF f, h
    <3>2. Shape([f EXCEPT !.handler = h, !.paused = TRUE])
      BY <3>1 DEF Shape, Task
    <3> QED
      BY <3>2 DEF f, h
  <2>4. task.state = "ended" => Shape([task EXCEPT !.handler = "nil"])
    BY <2>1 DEF Shape, Task
  <2> QED
    BY <1>0, <2>1, <2>2, <2>3, <2>4, ShapeChanged
<1>4. ASSUME NEW u \in URLs, CancelDownload(u) PROVE Shaped'
  <2> DEFINE t == downloadTasks[u]
  <2>1. t \in TaskIds /\ tasks[t] \in Task /\ Shape(tasks[t])
    BY <1>4 DEF CancelDownload, TypeOK, Shaped
  <2> QED
    BY <1>0, <1>4, <2>1 DEF CancelDownload, Failed, Shaped, Shape, Task
<1>5. CASE ReadResumeData \/ SaveTask \/ CancelForgets \/ CancelDrops
  BY <1>5 DEF ReadResumeData, SaveTask, CancelForgets, CancelDrops, Shaped
<1>6. ASSUME NEW t \in TaskIds, MakeTask(t) PROVE Shaped'
  BY <1>0, <1>6 DEF MakeTask, Unborn, Shaped, Shape
<1>7. CASE Kill
  BY <1>7 DEF Kill, Unborn, Shaped, Shape
<1> QED
  BY <1>1, <1>2, <1>3, <1>4, <1>5, <1>6, <1>7, ShapeTask DEF Next

(* A row enters with its file, and a file that has entered stays.          *)
LEMMA FilesNext ==
  TypeOK /\ Shaped /\ Moved /\ RowHasFile /\ FileHasRow /\ [Next]_vars
    => Moved' /\ RowHasFile' /\ FileHasRow'
<1> SUFFICES ASSUME TypeOK, Shaped, Moved, RowHasFile, FileHasRow, [Next]_vars
             PROVE  Moved' /\ RowHasFile' /\ FileHasRow'
  OBVIOUS
<1>0. tasks \in [TaskIds -> Task]
  BY DEF TypeOK
(* The steps that leave files and rows, and what a task has moved.         *)
<1>1. ASSUME UNCHANGED <<files, rows, orphans>>,
             \A t \in TaskIds : tasks'[t].finish = "moved" <=> tasks[t].finish = "moved",
             \A t \in TaskIds : tasks'[t].finish = "moved" => tasks'[t].url = tasks[t].url
      PROVE  Moved' /\ RowHasFile' /\ FileHasRow'
  BY <1>1 DEF Moved, RowHasFile, FileHasRow, Song
<1>2. CASE UNCHANGED vars \/ ReadResumeData \/ SaveTask \/ CancelForgets \/ CancelDrops
  BY <1>1, <1>2 DEF vars, ReadResumeData, SaveTask, CancelForgets, CancelDrops
<1>3. ASSUME NEW u \in URLs, PressDownload(u)
      PROVE  Moved' /\ RowHasFile' /\ FileHasRow'
  BY <1>3 DEF PressDownload, Enter, Moved, RowHasFile, FileHasRow, Song
<1>4. ASSUME NEW u \in URLs, PauseDownload(u)
      PROVE  Moved' /\ RowHasFile' /\ FileHasRow'
  <2> DEFINE t == downloadTasks[u]
             task == tasks[t]
  <2>1. t \in TaskIds /\ task \in Task
    BY <1>4 DEF PauseDownload, TypeOK
  <2>2. \/ \E data \in BOOLEAN :
            tasks' = [tasks EXCEPT ![t] =
              [Failed(task, data) EXCEPT !.handler = IF data THEN "data" ELSE "nil",
                                         !.paused = TRUE]]
        \/ tasks' = [tasks EXCEPT ![t] = [task EXCEPT !.handler = "nil"]]
    BY <1>4 DEF PauseDownload
  <2>3. \A n \in TaskIds : tasks'[n].finish = tasks[n].finish /\ tasks'[n].url = tasks[n].url
    <3>1. \A data \in BOOLEAN : \A h :
            /\ [Failed(task, data) EXCEPT !.handler = h, !.paused = TRUE].finish = task.finish
            /\ [Failed(task, data) EXCEPT !.handler = h, !.paused = TRUE].url = task.url
      BY <2>1 DEF Failed, Task
    <3>2. /\ [task EXCEPT !.handler = "nil"].finish = task.finish
          /\ [task EXCEPT !.handler = "nil"].url = task.url
      BY <2>1 DEF Task
    <3>3. PICK new : /\ tasks' = [tasks EXCEPT ![t] = new]
                     /\ new.finish = task.finish /\ new.url = task.url
      <4> HIDE DEF t, task
      <4>1. CASE \E data \in BOOLEAN :
                    tasks' = [tasks EXCEPT ![t] =
                      [Failed(task, data) EXCEPT !.handler = IF data THEN "data" ELSE "nil",
                                                 !.paused = TRUE]]
        BY <3>1, <4>1
      <4>2. CASE tasks' = [tasks EXCEPT ![t] = [task EXCEPT !.handler = "nil"]]
        BY <3>2, <4>2
      <4> QED
        BY <2>2, <4>1, <4>2
    <3> QED
      BY <1>0, <2>1, <3>3
  <2>4. UNCHANGED <<files, rows, orphans>>
    BY <1>4 DEF PauseDownload
  <2> QED
    BY <1>1, <2>3, <2>4
<1>5. ASSUME NEW u \in URLs, CancelDownload(u)
      PROVE  Moved' /\ RowHasFile' /\ FileHasRow'
  BY <1>0, <1>1, <1>5 DEF CancelDownload, Failed, Task
<1>6. CASE Kill
  BY <1>6 DEF Kill, Unborn, Moved, RowHasFile, FileHasRow
<1>7. ASSUME NEW t \in TaskIds,
             \/ Fails(t) \/ Downloaded(t) \/ HandlerStores(t) \/ HandlerForgets(t)
             \/ ForgetTask(t) \/ ForgetData(t) \/ DidComplete(t) \/ StoreData(t)
      PROVE  Moved' /\ RowHasFile' /\ FileHasRow'
  <2>1. UNCHANGED <<files, rows, orphans>>
    BY <1>7 DEF Fails, Downloaded, HandlerStores, HandlerForgets, ForgetTask,
                ForgetData, DidComplete, StoreData
  <2>2. \A n \in TaskIds : /\ tasks'[n].finish = "moved" <=> tasks[n].finish = "moved"
                           /\ tasks'[n].url = tasks[n].url
    <3>1. Shape(tasks[t]) /\ tasks[t] \in Task
      BY <1>0 DEF Shaped
    <3>2. CASE Fails(t)
      BY <1>0, <3>1, <3>2 DEF Fails, Failed, Task
    <3>4. CASE Downloaded(t)
      BY <1>0, <3>1, <3>4 DEF Downloaded, Shape, Task
    <3>5. CASE DidComplete(t)
      BY <1>0, <3>1, <3>5 DEF DidComplete, Task
    <3>6. CASE StoreData(t)
      BY <1>0, <3>1, <3>6 DEF StoreData, Task
    <3>3. CASE HandlerStores(t) \/ HandlerForgets(t) \/ ForgetTask(t) \/ ForgetData(t)
      BY <1>0, <3>1, <3>3 DEF HandlerStores, HandlerForgets, ForgetTask, ForgetData, Task
    <3> QED
      BY <1>7, <3>2, <3>3, <3>4, <3>5, <3>6
  <2> QED
    BY <1>1, <2>1, <2>2
<1>8. ASSUME NEW t \in TaskIds, MakeTask(t) PROVE Moved' /\ RowHasFile' /\ FileHasRow'
  <2>1. \A n \in TaskIds : /\ tasks'[n].finish = "moved" <=> tasks[n].finish = "moved"
                           /\ tasks'[n].finish = "moved" => tasks'[n].url = tasks[n].url
    BY <1>0, <1>8 DEF MakeTask, Unborn, Shaped, Shape
  <2> QED
    BY <1>1, <1>8, <2>1 DEF MakeTask
<1>9. ASSUME NEW t \in TaskIds, MoveFile(t) PROVE Moved' /\ RowHasFile' /\ FileHasRow'
  <2>1. CASE /\ Song(t) \notin files
             /\ files' = files \cup {Song(t)}
             /\ tasks' = [tasks EXCEPT ![t].finish = "moved"]
    <3>1. tasks'[t].finish = "moved" /\ tasks'[t].url = tasks[t].url
      BY <1>0, <2>1 DEF Task
    <3>2. \A n \in TaskIds \ {t} : tasks'[n] = tasks[n]
      BY <1>0, <2>1
    <3>3. rows' = rows /\ orphans' = orphans
      BY <1>9 DEF MoveFile
    <3>4. Moved' /\ RowHasFile'
      BY <2>1, <3>1, <3>2, <3>3 DEF Moved, RowHasFile, Song
    <3>5. tasks[t].finish = "due"
      BY <1>9 DEF MoveFile
    <3>6. FileHasRow'
      BY <2>1, <3>1, <3>2, <3>3, <3>5 DEF FileHasRow, Song
    <3> QED
      BY <3>4, <3>6
  <2>2. CASE tasks' = [tasks EXCEPT ![t].finish = "unmoved"] /\ UNCHANGED files
    <3>1. tasks'[t].finish = "unmoved" /\ tasks[t].finish = "due"
      BY <1>0, <1>9, <2>2 DEF MoveFile, Task
    <3>2. \A n \in TaskIds \ {t} : tasks'[n] = tasks[n]
      BY <1>0, <2>2
    <3> QED
      BY <1>1, <1>9, <2>2, <3>1, <3>2 DEF MoveFile
  <2> QED
    BY <1>9, <2>1, <2>2 DEF MoveFile
<1>10. ASSUME NEW t \in TaskIds, Completion(t) PROVE Moved' /\ RowHasFile' /\ FileHasRow'
  BY <1>0, <1>10 DEF Completion, Enter, Moved, RowHasFile, FileHasRow, Song
<1>11. ASSUME NEW t \in TaskIds, AnswerError(t) PROVE Moved' /\ RowHasFile' /\ FileHasRow'
  <2>1. tasks[t].error = TRUE
    BY <1>11 DEF AnswerError, Shaped, Shape
  <2> QED
    BY <1>0, <1>1, <1>11, <2>1 DEF AnswerError, Enter
<1> QED
  BY <1>2, <1>3, <1>4, <1>5, <1>6, <1>7, <1>8, <1>9, <1>10, <1>11 DEF Next

(* Before anything is downloaded there are no files and no rows.           *)
LEMMA FilesInit == Init => Shaped /\ Moved /\ RowHasFile /\ FileHasRow
BY DEF Init, Unborn, Shaped, Shape, Moved, RowHasFile, FileHasRow

(* For any songs, URLs and tasks: a song in the table of downloads has its *)
(* file.                                                                   *)
THEOREM RowsHaveFiles == Spec => []RowHasFile
BY TypeInit, TypeNext, FilesInit, ShapeNext, FilesNext, PTL DEF Spec

(* For any songs, URLs and tasks: only a kill leaves a file that the table *)
(* does not know of.                                                       *)
THEOREM FilesHaveRows == Spec => []FileHasRow
BY TypeInit, TypeNext, FilesInit, ShapeNext, FilesNext, PTL DEF Spec

(* For any songs, URLs and tasks: two callbacks that run beside each other *)
(* tell whoever pressed once.                                              *)
THEOREM TasksAnsweredOnce == Spec => []AnsweredOnce
<1>1. TypeOK /\ Shaped => AnsweredOnce
  <2> SUFFICES ASSUME TypeOK, Shaped, NEW t \in TaskIds
               PROVE  /\ tasks[t].answers <= 1
                      /\ tasks[t].answers = 1
                           <=> \/ tasks[t].finish \in {"answered", "forgotten", "done"}
                               \/ (tasks[t].error /\ tasks[t].complete = "done")
    BY DEF AnsweredOnce
  <2>1. Shape(tasks[t]) /\ tasks[t].error \in BOOLEAN
    BY DEF TypeOK, Shaped, Task
  <2>2. tasks[t].error <=> tasks[t].error = TRUE
    BY <2>1, Zenon
  <2> QED
    BY <2>1, <2>2 DEF Shape
<1> QED
  BY <1>1, TypeInit, TypeNext, FilesInit, ShapeNext, PTL DEF Spec

----------------------------------------------------------------------------
(* The resume data of a task: it has been stored, it is where a press or   *)
(* the map can take it from, or it has been taken.                         *)
Stored(n) == tasks[n].complete \in {"stored", "done"}
Ready(n) == \/ \E u \in URLs : resumeDataMap[u] = n
            \/ press.pc = "make" /\ press.data = n
Taken(n) == \E t \in TaskIds : tasks[t].from = n

(* Unless the task was paused, its data is stored once, and no longer      *)
(* ready when it has been taken.                                           *)
Single(n) ==
  /\ Ready(n) => Stored(n) /\ ~Taken(n)
  /\ Taken(n) => Stored(n)
  /\ \A t, u \in TaskIds : tasks[t].from = n /\ tasks[u].from = n => t = u

Singles == \A n \in TaskIds : tasks[n].paused = TRUE \/ Single(n)

(* A step that makes no data ready, and takes none, keeps this.            *)
LEMMA SinglesKept ==
  ASSUME Singles,
         \A n \in TaskIds : /\ tasks'[n].from = tasks[n].from
                            /\ tasks[n].paused = TRUE => tasks'[n].paused = TRUE
                            /\ Stored(n) => Stored(n)',
         \A n \in TaskIds : Ready(n)' => Ready(n)
  PROVE  Singles'
<1> SUFFICES ASSUME NEW n \in TaskIds, Single(n) PROVE Single(n)'
  BY DEF Singles
<1>1. Taken(n)' <=> Taken(n)
  BY DEF Taken
<1>2. \A t, u \in TaskIds : tasks'[t].from = n /\ tasks'[u].from = n => t = u
  BY DEF Single
<1> QED
  BY <1>1, <1>2 DEF Single

(* The steps of a task that store nothing. *)
LEMMA SinglesTask ==
  ASSUME TypeOK, Singles, NEW t \in TaskIds,
         \/ Downloaded(t) \/ Fails(t) \/ HandlerForgets(t) \/ MoveFile(t) \/ Completion(t)
         \/ ForgetTask(t) \/ ForgetData(t) \/ DidComplete(t) \/ AnswerError(t),
         Shaped
  PROVE  Singles'
<1>0. tasks \in [TaskIds -> Task] /\ tasks[t] \in Task /\ Shape(tasks[t])
  BY DEF TypeOK, Shaped
<1>1. \A n \in TaskIds : Ready(n)' => Ready(n)
  <2>1. CASE ForgetData(t)
    BY <1>0, <2>1, DownloadAssumption DEF ForgetData, Ready, TypeOK
  <2>2. CASE ~ForgetData(t)
    <3>1. resumeDataMap' = resumeDataMap /\ press' = press
      BY <2>2 DEF Downloaded, Fails, HandlerForgets, MoveFile, Completion, ForgetTask,
                  DidComplete, AnswerError
    <3> QED
      BY <3>1 DEF Ready
  <2> QED
    BY <2>1, <2>2
<1>2. ASSUME NEW new, tasks' = [tasks EXCEPT ![t] = new], new.from = tasks[t].from,
             new.paused = tasks[t].paused,
             Stored(t) => new.complete \in {"stored", "done"}
      PROVE  Singles'
  BY <1>0, <1>1, <1>2, SinglesKept DEF Stored
<1>3. CASE Fails(t)
  <2>1. PICK data \in BOOLEAN : tasks' = [tasks EXCEPT ![t] = Failed(tasks[t], data)]
    BY <1>3 DEF Fails
  <2>2. ~Stored(t)
    BY <1>0, <1>3 DEF Fails, Shape, Stored
  <2>3. /\ Failed(tasks[t], data).from = tasks[t].from
        /\ Failed(tasks[t], data).paused = tasks[t].paused
    BY <1>0 DEF Failed, Task
  <2> QED
    BY <1>2, <2>1, <2>2, <2>3
<1>4. CASE Downloaded(t)
  <2> DEFINE new == [tasks[t] EXCEPT !.state = "ended", !.finish = "due", !.complete = "due"]
  <2>1. tasks' = [tasks EXCEPT ![t] = new]
    BY <1>4 DEF Downloaded
  <2>2. new.from = tasks[t].from /\ new.paused = tasks[t].paused /\ ~Stored(t)
    BY <1>0, <1>4 DEF Downloaded, Shape, Stored, Task
  <2> QED
    BY <1>2, <2>1, <2>2
<1>5. CASE HandlerForgets(t)
  <2> DEFINE new == [tasks[t] EXCEPT !.handler = "none"]
  <2>1. tasks' = [tasks EXCEPT ![t] = new]
    BY <1>5 DEF HandlerForgets
  <2>2. new.from = tasks[t].from /\ new.paused = tasks[t].paused
        /\ new.complete = tasks[t].complete
    BY <1>0 DEF Task
  <2> QED
    BY <1>2, <2>1, <2>2 DEF Stored
<1>6. CASE MoveFile(t) \/ Completion(t) \/ ForgetTask(t) \/ ForgetData(t)
  <2>1. PICK end, count : tasks' = [tasks EXCEPT ![t] =
                            [tasks[t] EXCEPT !.finish = end, !.answers = count]]
    <3>1. CASE MoveFile(t)
      <4>1. PICK end : tasks' = [tasks EXCEPT ![t].finish = end]
        BY <3>1 DEF MoveFile
      <4>2. [tasks[t] EXCEPT !.finish = end]
              = [tasks[t] EXCEPT !.finish = end, !.answers = tasks[t].answers]
        BY <1>0 DEF Task
      <4> QED
        BY <4>1, <4>2
    <3>2. CASE Completion(t)
      BY <3>2 DEF Completion
    <3>3. CASE ForgetTask(t) \/ ForgetData(t)
      <4>1. PICK end : tasks' = [tasks EXCEPT ![t].finish = end]
        BY <3>3 DEF ForgetTask, ForgetData
      <4>2. [tasks[t] EXCEPT !.finish = end]
              = [tasks[t] EXCEPT !.finish = end, !.answers = tasks[t].answers]
        BY <1>0 DEF Task
      <4> QED
        BY <4>1, <4>2
    <3> QED
      BY <1>6, <3>1, <3>2, <3>3
  <2> DEFINE new == [tasks[t] EXCEPT !.finish = end, !.answers = count]
  <2>2. new.from = tasks[t].from /\ new.paused = tasks[t].paused
        /\ new.complete = tasks[t].complete
    BY <1>0 DEF Task
  <2> QED
    BY <1>2, <2>1, <2>2 DEF Stored
<1>7. CASE DidComplete(t)
  <2>1. PICK end : tasks' = [tasks EXCEPT ![t].complete = end]
    BY <1>7 DEF DidComplete
  <2> DEFINE new == [tasks[t] EXCEPT !.complete = end]
  <2>2. new.from = tasks[t].from /\ new.paused = tasks[t].paused /\ ~Stored(t)
    BY <1>0, <1>7 DEF DidComplete, Stored, Task
  <2> QED
    BY <1>2, <2>1, <2>2
<1>8. CASE AnswerError(t)
  <2>1. PICK count : tasks' = [tasks EXCEPT ![t] =
                            [tasks[t] EXCEPT !.complete = "done", !.answers = count]]
    BY <1>8 DEF AnswerError
  <2> DEFINE new == [tasks[t] EXCEPT !.complete = "done", !.answers = count]
  <2>2. new.from = tasks[t].from /\ new.paused = tasks[t].paused /\ new.complete = "done"
    BY <1>0 DEF Task
  <2> QED
    BY <1>2, <2>1, <2>2
<1> QED
  BY <1>3, <1>4, <1>5, <1>6, <1>7, <1>8

(* The callbacks that store data: a pause's handler, and the delegate.     *)
LEMMA SinglesStore ==
  ASSUME TypeOK, Shaped, Singles, NEW t \in TaskIds, HandlerStores(t) \/ StoreData(t)
  PROVE  Singles'
<1>0. /\ tasks \in [TaskIds -> Task] /\ tasks[t] \in Task /\ Shape(tasks[t])
      /\ resumeDataMap' = [resumeDataMap EXCEPT ![tasks[t].url] = t] /\ press' = press
  BY DEF TypeOK, Shaped, HandlerStores, StoreData
<1>1. \A n \in TaskIds : Ready(n)' => Ready(n) \/ n = t
  BY <1>0 DEF Ready, TypeOK
<1>2. CASE HandlerStores(t)
  <2>1. \A n \in TaskIds : /\ tasks'[n].from = tasks[n].from
                           /\ tasks'[n].paused = tasks[n].paused
                           /\ tasks'[n].complete = tasks[n].complete
    BY <1>0, <1>2 DEF HandlerStores, Task
  <2>2. tasks[t].paused = TRUE
    BY <1>0, <1>2 DEF HandlerStores, Shape
  <2> SUFFICES ASSUME NEW n \in TaskIds, tasks[n].paused # TRUE PROVE Single(n)'
    BY <2>1 DEF Singles
  <2>3. Single(n) /\ n # t
    BY <2>2 DEF Singles
  <2>4. (Taken(n)' <=> Taken(n)) /\ (Stored(n)' <=> Stored(n))
    BY <2>1 DEF Taken, Stored
  <2> QED
    BY <1>1, <2>1, <2>3, <2>4 DEF Single
<1>3. CASE StoreData(t)
  <2>1. \A n \in TaskIds : /\ tasks'[n].from = tasks[n].from
                           /\ tasks'[n].paused = tasks[n].paused
                           /\ n # t => tasks'[n].complete = tasks[n].complete
    BY <1>0, <1>3 DEF StoreData, Task
  <2>2. ~Stored(t) /\ Stored(t)'
    BY <1>0, <1>3 DEF StoreData, Stored, Task
  <2> SUFFICES ASSUME NEW n \in TaskIds, tasks[n].paused # TRUE PROVE Single(n)'
    BY <2>1 DEF Singles
  <2>3. Single(n)
    BY DEF Singles
  <2>4. (Taken(n)' <=> Taken(n)) /\ (Stored(n) => Stored(n)')
    BY <2>1, <2>2 DEF Taken, Stored
  <2> QED
    BY <1>1, <2>1, <2>2, <2>3, <2>4 DEF Single
<1> QED
  BY <1>2, <1>3

(* A new task takes the data it starts from out of the map. *)
LEMMA SinglesMake ==
  ASSUME TypeOK, Singles, NEW t \in TaskIds, MakeTask(t) PROVE Singles'
<1> DEFINE d == press.data
           new == [Unborn EXCEPT !.url = press.url, !.from = d, !.state = "running"]
<1>1. tasks[t] = Unborn /\ Unborn.from = NoTask /\ Unborn.complete = "none"
      /\ Unborn.paused = FALSE
  BY DEF MakeTask, TypeOK, Unborn
<1>2. tasks' = [tasks EXCEPT ![t] = new] /\ press.pc = "make" /\ press'.pc = "save"
  BY DEF MakeTask, TypeOK
<1>3. new.from = d /\ new.complete = "none" /\ new.paused = FALSE
  BY DEF Unborn
<1> HIDE DEF new
<1>4. /\ tasks'[t].from = d /\ tasks'[t].complete = "none" /\ tasks'[t].paused = FALSE
      /\ \A n \in TaskIds \ {t} : tasks'[n] = tasks[n]
  BY <1>2, <1>3 DEF TypeOK
<1>5. \A u \in URLs : resumeDataMap'[u] \in {resumeDataMap[u], NoTask}
  BY DEF MakeTask, DropData, TypeOK
<1>6. ASSUME d # NoTask PROVE \A u \in URLs : resumeDataMap'[u] # d
  <2> SUFFICES ASSUME NEW u \in URLs, resumeDataMap'[u] = d PROVE FALSE
    OBVIOUS
  <2>1. resumeDataMap[u] = d
    BY <1>5, <1>6
  <2>2. tasks[d].url = u /\ tasks[d].url = press.url
    BY <1>2, <1>6, <2>1 DEF TypeOK
  <2>3. resumeDataMap'[u] = NoTask
    BY <1>6, <2>2 DEF MakeTask, DropData, TypeOK
  <2> QED
    BY <1>6, <2>3
<1>7. ASSUME NEW n \in TaskIds, tasks'[n].paused # TRUE PROVE Single(n)'
  <2>1. Single(n)
    BY <1>1, <1>4, <1>7 DEF Singles
  <2>2. Ready(n)' => Ready(n) /\ n # d
    BY <1>2, <1>5, <1>6, <1>7, DownloadAssumption DEF Ready
  <2>3. CASE n = t
    <3>1. ~Stored(t) /\ ~Ready(n) /\ ~Taken(n)
      BY <1>1, <2>1, <2>3 DEF Stored, Single
    <3>2. d # n
      BY <1>2, <2>3, <3>1 DEF Ready
    <3>3. ~Taken(n)'
      BY <1>4, <3>1, <3>2 DEF Taken
    <3> QED
      BY <2>2, <3>1, <3>3 DEF Single, Taken
  <2>4. CASE n # t /\ n = d
    <3>1. Stored(n) /\ ~Taken(n)
      BY <1>2, <2>1, <2>4 DEF Ready, Single
    <3>2. Stored(n)'
      BY <1>4, <2>4, <3>1 DEF Stored
    <3>3. \A k \in TaskIds : tasks'[k].from = n => k = t
      BY <1>4, <3>1 DEF Taken
    <3> QED
      BY <2>2, <2>4, <3>2, <3>3 DEF Single
  <2>5. CASE n # t /\ n # d
    <3>1. \A k \in TaskIds : tasks'[k].from = n <=> tasks[k].from = n
      BY <1>1, <1>4, <2>5, DownloadAssumption
    <3>2. (Taken(n)' <=> Taken(n)) /\ (Stored(n)' <=> Stored(n))
      BY <1>4, <2>5, <3>1 DEF Taken, Stored
    <3> QED
      BY <2>1, <2>2, <3>1, <3>2 DEF Single
  <2> QED
    BY <2>3, <2>4, <2>5
<1> QED
  BY <1>7 DEF Singles

(* Every step keeps data single. *)
LEMMA SinglesNext == TypeOK /\ Shaped /\ Singles /\ [Next]_vars => Singles'
<1> SUFFICES ASSUME TypeOK, Shaped, Singles, [Next]_vars PROVE Singles'
  OBVIOUS
<1>0. tasks \in [TaskIds -> Task]
  BY DEF TypeOK
<1>1. ASSUME tasks' = tasks, \A n \in TaskIds : Ready(n)' => Ready(n) PROVE Singles'
  BY <1>1, SinglesKept DEF Stored
<1>2. CASE UNCHANGED vars \/ SaveTask
  BY <1>1, <1>2 DEF vars, SaveTask, Idle, Ready
<1>3. ASSUME NEW u \in URLs, PressDownload(u) PROVE Singles'
  BY <1>1, <1>3 DEF PressDownload, Idle, Ready
<1>4. CASE ReadResumeData
  <2>1. resumeDataMap' = resumeDataMap /\ tasks' = tasks /\ press.url \in URLs
        /\ press'.data = resumeDataMap[press.url]
    BY <1>4 DEF ReadResumeData, TypeOK
  <2> QED
    BY <1>1, <2>1 DEF Ready
<1>5. ASSUME NEW u \in URLs, PauseDownload(u) PROVE Singles'
  <2> DEFINE t == downloadTasks[u]
             task == tasks[t]
  <2>1. t \in TaskIds /\ task \in Task /\ Shape(task)
    BY <1>5 DEF PauseDownload, TypeOK, Shaped
  <2>2. \/ /\ task.state = "running"
           /\ \E data \in BOOLEAN :
                tasks' = [tasks EXCEPT ![t] =
                  [Failed(task, data) EXCEPT !.handler = IF data THEN "data" ELSE "nil",
                                             !.paused = TRUE]]
        \/ tasks' = [tasks EXCEPT ![t] = [task EXCEPT !.handler = "nil"]]
    BY <1>5 DEF PauseDownload
  <2>3. \A n \in TaskIds : Ready(n)' => Ready(n)
    BY <1>5 DEF PauseDownload, Ready
  <2> HIDE DEF t
  <2>4. ASSUME NEW new, tasks' = [tasks EXCEPT ![t] = new], new.from = task.from,
               task.paused = TRUE => new.paused = TRUE,
               Stored(t) => new.complete \in {"stored", "done"}
        PROVE  Singles'
    BY <1>0, <2>1, <2>3, <2>4, SinglesKept DEF Stored
  <2>5. ASSUME task.state = "running", NEW data \in BOOLEAN,
               tasks' = [tasks EXCEPT ![t] =
                  [Failed(task, data) EXCEPT !.handler = IF data THEN "data" ELSE "nil",
                                             !.paused = TRUE]]
        PROVE  Singles'
    <3> DEFINE h == IF data THEN "data" ELSE "nil"
               new == [Failed(task, data) EXCEPT !.handler = h, !.paused = TRUE]
    <3>1. tasks' = [tasks EXCEPT ![t] = new]
      BY <2>5
    <3>2. ~Stored(t)
      BY <2>1, <2>5 DEF Shape, Stored
    <3> HIDE DEF h
    <3>3. new.from = task.from /\ new.paused = TRUE
      BY <2>1 DEF Failed, Task
    <3> QED
      BY <2>4, <3>1, <3>2, <3>3
  <2>6. CASE tasks' = [tasks EXCEPT ![t] = [task EXCEPT !.handler = "nil"]]
    <3>1. /\ [task EXCEPT !.handler = "nil"].from = task.from
          /\ [task EXCEPT !.handler = "nil"].paused = task.paused
          /\ [task EXCEPT !.handler = "nil"].complete = task.complete
      BY <2>1 DEF Task
    <3> QED
      BY <2>4, <2>6, <3>1 DEF Stored
  <2> QED
    BY <2>2, <2>5, <2>6
<1>6. ASSUME NEW u \in URLs, CancelDownload(u) PROVE Singles'
  <2> DEFINE t == downloadTasks[u]
             task == tasks[t]
  <2>1. t \in TaskIds /\ task \in Task /\ Shape(task)
    BY <1>6 DEF CancelDownload, TypeOK, Shaped
  <2>2. \/ \E data \in BOOLEAN :
             task.state = "running" /\ tasks' = [tasks EXCEPT ![t] = Failed(task, data)]
        \/ tasks' = tasks
    BY <1>6 DEF CancelDownload
  <2>3. \A n \in TaskIds : Ready(n)' => Ready(n)
    BY <1>6, DownloadAssumption DEF CancelDownload, Ready, TypeOK
  <2> HIDE DEF t
  <2>4. ASSUME NEW data \in BOOLEAN, task.state = "running",
               tasks' = [tasks EXCEPT ![t] = Failed(task, data)]
        PROVE  Singles'
    <3>1. ~Stored(t)
      BY <2>1, <2>4 DEF Shape, Stored
    <3>2. Failed(task, data).from = task.from /\ Failed(task, data).paused = task.paused
      BY <2>1 DEF Failed, Task
    <3> QED
      BY <1>0, <2>1, <2>3, <2>4, <3>1, <3>2, SinglesKept DEF Stored
  <2> QED
    BY <1>1, <2>2, <2>3, <2>4
<1>7. CASE Kill
  BY <1>7, DownloadAssumption DEF Kill, Unborn, Idle, Singles, Single, Ready, Taken
<1>8. CASE CancelForgets
  BY <1>1, <1>8 DEF CancelForgets, Ready
<1>9. CASE CancelDrops
  <2>1. \A u \in URLs : resumeDataMap'[u] \in {resumeDataMap[u], NoTask}
    BY <1>9 DEF CancelDrops, TypeOK
  <2>2. tasks' = tasks /\ press'.pc = "idle"
    BY <1>9 DEF CancelDrops, Idle
  <2> QED
    BY <1>1, <2>1, <2>2, DownloadAssumption DEF Ready
<1> QED
  BY <1>2, <1>3, <1>4, <1>5, <1>6, <1>7, <1>8, <1>9, SinglesTask, SinglesStore, SinglesMake DEF Next

(* For any songs, URLs and tasks: resume data is used once, unless its     *)
(* task was paused.                                                        *)
THEOREM ResumeDataTakenOnce == Spec => []DataTakenOnce
<1>1. Init => Singles
  BY DownloadAssumption DEF Init, Unborn, Idle, Singles, Single, Ready, Taken
<1>2. TypeOK /\ Singles => DataTakenOnce
  <2> SUFFICES ASSUME TypeOK, Singles, NEW t \in TaskIds, NEW u \in TaskIds, t # u,
                      tasks[t].from = tasks[u].from, tasks[t].from # NoTask
               PROVE  tasks[tasks[t].from].paused
    BY DEF DataTakenOnce
  <2> DEFINE n == tasks[t].from
  <2>1. n \in TaskIds
    BY DEF TypeOK, Task
  <2>2. tasks[n].paused = TRUE
    BY <2>1 DEF Singles, Single
  <2> QED
    BY <2>2
<1> QED
  BY <1>1, <1>2, TypeInit, TypeNext, FilesInit, ShapeNext, SinglesNext, PTL DEF Spec
=============================================================================
