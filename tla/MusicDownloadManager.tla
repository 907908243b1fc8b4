------------------------ MODULE MusicDownloadManager ------------------------
(***************************************************************************)
(* Downloads: MusicDownloadManager, whose tasks NSURLSession runs, and the *)
(* download button of MusicPlayerController, whose completion enters the   *)
(* song in the table of downloads.                                         *)
(*                                                                         *)
(* The button, pause and cancel run on the main thread.  The callbacks of  *)
(* NSURLSession run on a queue that is not serial: beside the main thread  *)
(* and beside each other, those of one task too.  One access to a map they *)
(* share, with what is asked of the task found there, is one step.         *)
(***************************************************************************)
EXTENDS Naturals

CONSTANTS
  Songs,     (* a song names the file of its download and its row *)
  URLs,      (* a song may be offered at several URLs *)
  NoURL,
  SongOf,    (* whose file a URL ends in *)
  TaskIds,   (* download tasks; bound: so many are made in one process *)
  NoTask,
  MaxInterrupts  (* bound: calls of pause and cancel in one process *)

ASSUME DownloadAssumption ==
  /\ SongOf \in [URLs -> Songs]
  /\ NoURL \notin URLs /\ NoTask \notin TaskIds
  /\ MaxInterrupts \in Nat

VARIABLES
  files,          (* the songs with a file in the document directory *)
  rows,           (* the songs in the table of downloads *)
  resumeDataMap,  (* by URL, the task whose resume data is kept *)
  downloadTasks,  (* by URL, the task last registered *)
  tasks,          (* the tasks of the session *)
  press,          (* how far downloadSongWithURL or cancelDownloadForURL has *)
                  (* come on the main thread                                 *)
  interrupts,     (* counts to MaxInterrupts *)
  orphans         (* history: files a kill has left without a row *)

vars == <<files, rows, resumeDataMap, downloadTasks, tasks, press, interrupts, orphans>>

Task == [url : URLs \cup {NoURL},
         from : TaskIds \cup {NoTask},  (* whose resume data it started from *)
         state : {"unborn", "running", "ended"},
         (* how far didFinishDownloadingToURL has come *)
         finish : {"none", "due", "moved", "unmoved", "answered", "forgotten", "done"},
         (* how far didCompleteWithError has come, and what it is told *)
         complete : {"none", "due", "storing", "stored", "done"},
         error : BOOLEAN, data : BOOLEAN,
         (* the handler of a pause, with or without data *)
         handler : {"none", "data", "nil"},
         (* History: it has been paused; calls of its completionBlock. *)
         paused : BOOLEAN,
         answers : Nat]

Unborn == [url |-> NoURL, from |-> NoTask, state |-> "unborn", finish |-> "none",
           complete |-> "none", error |-> FALSE, data |-> FALSE, handler |-> "none",
           paused |-> FALSE, answers |-> 0]

Idle == [pc |-> "idle", url |-> NoURL, data |-> NoTask, task |-> NoTask]

Init ==
  /\ files = {} /\ rows = {} /\ orphans = {}
  /\ resumeDataMap = [u \in URLs |-> NoTask]
  /\ downloadTasks = [u \in URLs |-> NoTask]
  /\ tasks = [t \in TaskIds |-> Unborn]
  /\ press = Idle /\ interrupts = 0

Song(t) == SongOf[tasks[t].url]

----------------------------------------------------------------------------
(* The slip of entering a song whose file is not there. *)
EnterAlways(song, error) == rows' = rows \cup {song} /\ orphans' = orphans \ {song}

(* The completion of handleDownloadButton: without an error, insert a row  *)
(* (which fails if there is one).                                          *)
Enter(song, error) ==
  /\ rows' = IF error THEN rows ELSE rows \cup {song}
  /\ orphans' = IF error THEN orphans ELSE orphans \ {song}

(* downloadSongWithURL: if the file exists, the completion is called at    *)
(* once.                                                                   *)
PressDownload(u) ==
  /\ press.pc = "idle"
  /\ UNCHANGED <<files, resumeDataMap, downloadTasks, tasks, interrupts>>
  /\ \/ SongOf[u] \in files /\ Enter(SongOf[u], FALSE) /\ UNCHANGED press
     \/ /\ SongOf[u] \notin files
        /\ press' = [Idle EXCEPT !.pc = "read", !.url = u]
        /\ UNCHANGED <<rows, orphans>>

ReadResumeData ==
  /\ press.pc = "read"
  /\ press' = [press EXCEPT !.pc = "make", !.data = resumeDataMap[press.url]]
  /\ UNCHANGED <<files, rows, resumeDataMap, downloadTasks, tasks, interrupts, orphans>>

(* The slip of leaving resume data that has been used in the map. *)
KeepData(map, u, data) == map

DropData(map, u, data) == IF data = NoTask THEN map ELSE [map EXCEPT ![u] = NoTask]

(* Another task of the URL may be running: nobody looks. *)
MakeTask(t) ==
  /\ press.pc = "make" /\ tasks[t].state = "unborn"
  /\ tasks' = [tasks EXCEPT ![t] = [Unborn EXCEPT !.url = press.url, !.from = press.data,
                                                  !.state = "running"]]
  /\ resumeDataMap' = DropData(resumeDataMap, press.url, press.data)
  /\ press' = [press EXCEPT !.pc = "save", !.task = t]
  /\ UNCHANGED <<files, rows, downloadTasks, interrupts, orphans>>

(* The task may have finished by now. *)
SaveTask ==
  /\ press.pc = "save"
  /\ downloadTasks' = [downloadTasks EXCEPT ![press.url] = press.task]
  /\ press' = Idle
  /\ UNCHANGED <<files, rows, resumeDataMap, tasks, interrupts, orphans>>

----------------------------------------------------------------------------
(* NSURLSession *)

Downloaded(t) ==
  /\ tasks[t].state = "running"
  /\ tasks' = [tasks EXCEPT ![t].state = "ended", ![t].finish = "due", ![t].complete = "due"]
  /\ UNCHANGED <<files, rows, resumeDataMap, downloadTasks, press, interrupts, orphans>>

(* What a task becomes that ends with an error, with or without data. *)
Failed(task, data) ==
  [task EXCEPT !.state = "ended", !.complete = "due", !.error = TRUE, !.data = data]

Fails(t) ==
  /\ tasks[t].state = "running"
  /\ \E data \in BOOLEAN : tasks' = [tasks EXCEPT ![t] = Failed(@, data)]
  /\ UNCHANGED <<files, rows, resumeDataMap, downloadTasks, press, interrupts, orphans>>

----------------------------------------------------------------------------
(* pauseDownloadForURL; bound: one handler of a task at a time. *)
PauseDownload(u) ==
  LET t == downloadTasks[u]
  IN  /\ press.pc = "idle" /\ interrupts < MaxInterrupts
      /\ t # NoTask /\ tasks[t].handler = "none"
      /\ \/ /\ tasks[t].state = "running"
            /\ \E data \in BOOLEAN :
                 tasks' = [tasks EXCEPT ![t] =
                   [Failed(@, data) EXCEPT !.handler = IF data THEN "data" ELSE "nil",
                                           !.paused = TRUE]]
         \/ /\ tasks[t].state = "ended"
            /\ tasks' = [tasks EXCEPT ![t].handler = "nil"]
      /\ interrupts' = interrupts + 1
      /\ UNCHANGED <<files, rows, resumeDataMap, downloadTasks, press, orphans>>

HandlerStores(t) ==
  /\ tasks[t].handler = "data"
  /\ resumeDataMap' = [resumeDataMap EXCEPT ![tasks[t].url] = t]
  /\ tasks' = [tasks EXCEPT ![t].handler = "nil"]
  /\ UNCHANGED <<files, rows, downloadTasks, press, interrupts, orphans>>

(* Whatever task is the URL's by now. *)
HandlerForgets(t) ==
  /\ tasks[t].handler = "nil"
  /\ downloadTasks' = [downloadTasks EXCEPT ![tasks[t].url] = NoTask]
  /\ tasks' = [tasks EXCEPT ![t].handler = "none"]
  /\ UNCHANGED <<files, rows, resumeDataMap, press, interrupts, orphans>>

(* cancelDownloadForURL forgets the URL, and then the data kept for it:    *)
(* the delegate may store some before or after, and whatever task is the   *)
(* URL's by now is forgotten.                                              *)
CancelDownload(u) ==
  LET t == downloadTasks[u]
  IN  /\ press.pc = "idle" /\ interrupts < MaxInterrupts /\ t # NoTask
      /\ \E data \in BOOLEAN :
           tasks' = IF tasks[t].state = "running"
                    THEN [tasks EXCEPT ![t] = Failed(@, data)] ELSE tasks
      /\ press' = [Idle EXCEPT !.pc = "forget", !.url = u]
      /\ interrupts' = interrupts + 1
      /\ UNCHANGED <<files, rows, resumeDataMap, downloadTasks, orphans>>

CancelForgets ==
  /\ press.pc = "forget"
  /\ downloadTasks' = [downloadTasks EXCEPT ![press.url] = NoTask]
  /\ press' = [press EXCEPT !.pc = "drop"]
  /\ UNCHANGED <<files, rows, resumeDataMap, tasks, interrupts, orphans>>

CancelDrops ==
  /\ press.pc = "drop"
  /\ resumeDataMap' = [resumeDataMap EXCEPT ![press.url] = NoTask]
  /\ press' = Idle
  /\ UNCHANGED <<files, rows, downloadTasks, tasks, interrupts, orphans>>

----------------------------------------------------------------------------
(* didFinishDownloadingToURL: the move fails if there is a file, and may   *)
(* fail without one.                                                       *)
MoveFile(t) ==
  /\ tasks[t].finish = "due"
  /\ \/ /\ Song(t) \notin files
        /\ files' = files \cup {Song(t)}
        /\ tasks' = [tasks EXCEPT ![t].finish = "moved"]
     \/ tasks' = [tasks EXCEPT ![t].finish = "unmoved"] /\ UNCHANGED files
  /\ UNCHANGED <<rows, resumeDataMap, downloadTasks, press, interrupts, orphans>>

(* The slip of dropping what is not the URL's registered task. *)
CompletionIfRegistered(t) ==
  /\ tasks[t].finish \in {"moved", "unmoved"}
  /\ Enter(Song(t), tasks[t].finish = "unmoved" \/ downloadTasks[tasks[t].url] # t)
  /\ tasks' = [tasks EXCEPT ![t].finish = "answered", ![t].answers = @ + 1]
  /\ UNCHANGED <<files, resumeDataMap, downloadTasks, press, interrupts>>

Completion(t) ==
  /\ tasks[t].finish \in {"moved", "unmoved"}
  /\ Enter(Song(t), tasks[t].finish = "unmoved")
  /\ tasks' = [tasks EXCEPT ![t].finish = "answered", ![t].answers = @ + 1]
  /\ UNCHANGED <<files, resumeDataMap, downloadTasks, press, interrupts>>

ForgetTask(t) ==
  /\ tasks[t].finish = "answered"
  /\ downloadTasks' = [downloadTasks EXCEPT ![tasks[t].url] = NoTask]
  /\ tasks' = [tasks EXCEPT ![t].finish = "forgotten"]
  /\ UNCHANGED <<files, rows, resumeDataMap, press, interrupts, orphans>>

ForgetData(t) ==
  /\ tasks[t].finish = "forgotten"
  /\ resumeDataMap' = [resumeDataMap EXCEPT ![tasks[t].url] = NoTask]
  /\ tasks' = [tasks EXCEPT ![t].finish = "done"]
  /\ UNCHANGED <<files, rows, downloadTasks, press, interrupts, orphans>>

(* The slip of taking the end of every task for a failure. *)
NeverIgnored(error) == FALSE

(* didCompleteWithError returns unless there is an error. *)
Ignored(error) == ~error

DidComplete(t) ==
  /\ tasks[t].complete = "due"
  /\ tasks' = [tasks EXCEPT ![t].complete =
                 IF Ignored(tasks[t].error) THEN "done"
                 ELSE IF resumeDataMap[tasks[t].url] = NoTask /\ tasks[t].data THEN "storing"
                 ELSE "stored"]
  /\ UNCHANGED <<files, rows, resumeDataMap, downloadTasks, press, interrupts, orphans>>

StoreData(t) ==
  /\ tasks[t].complete = "storing"
  /\ resumeDataMap' = [resumeDataMap EXCEPT ![tasks[t].url] = t]
  /\ tasks' = [tasks EXCEPT ![t].complete = "stored"]
  /\ UNCHANGED <<files, rows, downloadTasks, press, interrupts, orphans>>

AnswerError(t) ==
  /\ tasks[t].complete = "stored"
  /\ Enter(Song(t), tasks[t].error)
  /\ tasks' = [tasks EXCEPT ![t].complete = "done", ![t].answers = @ + 1]
  /\ UNCHANGED <<files, resumeDataMap, downloadTasks, press, interrupts>>

----------------------------------------------------------------------------
(* The slip of keeping resume data whose task is gone. *)
KillKeepingData ==
  /\ orphans' = files \ rows
  /\ downloadTasks' = [u \in URLs |-> NoTask]
  /\ tasks' = [t \in TaskIds |-> Unborn]
  /\ press' = Idle /\ interrupts' = 0
  /\ UNCHANGED <<files, rows, resumeDataMap>>

(* The process ends: the session and the maps are lost. *)
Kill ==
  /\ orphans' = files \ rows
  /\ resumeDataMap' = [u \in URLs |-> NoTask]
  /\ downloadTasks' = [u \in URLs |-> NoTask]
  /\ tasks' = [t \in TaskIds |-> Unborn]
  /\ press' = Idle /\ interrupts' = 0
  /\ UNCHANGED <<files, rows>>

Next ==
  \/ \E u \in URLs : PressDownload(u) \/ PauseDownload(u) \/ CancelDownload(u)
  \/ ReadResumeData \/ SaveTask \/ CancelForgets \/ CancelDrops \/ Kill
  \/ \E t \in TaskIds :
       \/ MakeTask(t) \/ Downloaded(t) \/ Fails(t)
       \/ HandlerStores(t) \/ HandlerForgets(t)
       \/ MoveFile(t) \/ Completion(t) \/ ForgetTask(t) \/ ForgetData(t)
       \/ DidComplete(t) \/ StoreData(t) \/ AnswerError(t)

Spec == Init /\ [][Next]_vars

----------------------------------------------------------------------------
(* What is kept or worked on under a URL is a task of that URL, and a task *)
(* is born in one piece.                                                   *)
TypeOK ==
  /\ files \subseteq Songs /\ rows \subseteq Songs /\ orphans \subseteq Songs
  /\ resumeDataMap \in [URLs -> TaskIds \cup {NoTask}]
  /\ downloadTasks \in [URLs -> TaskIds \cup {NoTask}]
  /\ tasks \in [TaskIds -> Task]
  /\ \A t \in TaskIds : tasks[t] = Unborn \/ (tasks[t].url \in URLs /\ tasks[t].state # "unborn")
  /\ press \in [pc : {"idle", "read", "make", "save", "forget", "drop"},
                url : URLs \cup {NoURL}, data : TaskIds \cup {NoTask}, task : TaskIds \cup {NoTask}]
  /\ interrupts \in Nat
  /\ press.pc # "idle" => press.url \in URLs
  /\ press.pc = "make" => press.data = NoTask \/ tasks[press.data].url = press.url
  /\ press.pc = "save" => press.task \in TaskIds /\ tasks[press.task].url = press.url
  /\ \A u \in URLs : /\ resumeDataMap[u] # NoTask => tasks[resumeDataMap[u]].url = u
                     /\ downloadTasks[u] # NoTask => tasks[downloadTasks[u]].url = u

(* A song in the table of downloads has a file, whichever of several tasks *)
(* of it has answered, failed or been killed.  What is in the file is not  *)
(* looked at, nor is the status code it came with.                         *)
RowHasFile == rows \subseteq files

(* A file that the table does not know of is one that the app was killed   *)
(* before it entered, or one whose completion is about to run: another     *)
(* task or another press never loses it.                                   *)
FileHasRow ==
  \A song \in files \ rows :
    song \in orphans \/ \E t \in TaskIds : tasks[t].finish = "moved" /\ Song(t) = song

(* Whoever pressed is told once how a task ended, by one of two callbacks  *)
(* that run beside each other.                                             *)
AnsweredOnce ==
  \A t \in TaskIds :
    /\ tasks[t].answers <= 1
    /\ tasks[t].answers = 1
         <=> \/ tasks[t].finish \in {"answered", "forgotten", "done"}
             \/ (tasks[t].error /\ tasks[t].complete = "done")

(* Two tasks continue from the same resume data only if its task was       *)
(* paused (the handler and the delegate both store it then).               *)
DataTakenOnce ==
  \A t, u \in TaskIds :
    (t # u /\ tasks[t].from = tasks[u].from /\ tasks[t].from # NoTask)
      => tasks[tasks[t].from].paused
=============================================================================
