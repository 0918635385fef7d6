------------------------------ MODULE FileMonitor ------------------------------
(***************************************************************************)
(* The sample shadow (src/source/shadow/SampleShadowFeature.cpp) and the   *)
(* Pub/Sub sample (src/source/samples/pubsub/PubSubFeature.cpp): a feature *)
(* publishes the content of a file when it starts and, from a thread of    *)
(* its own that reads inotify events, whenever the file is created or      *)
(* written.                                                                *)
(*                                                                         *)
(* Main runs start() and stop(), the event loop the callbacks, and some    *)
(* program creates, writes and deletes the file.  A content is a version;  *)
(* a file that has just been created is empty, which neither feature       *)
(* publishes.                                                              *)
(***************************************************************************)
EXTENDS Naturals, Sequences

CONSTANTS
    MaxInodes, MaxVersions,   \* bounds: files created, contents written
    MaxTriggers               \* bound: messages and deltas received

ASSUME MonitorConstants == {MaxInodes, MaxVersions, MaxTriggers} \subseteq Nat

VARIABLES
    feature,             \* "shadow" or "pubsub"
    monitored,           \* an input file is configured, or publishOnChange
    featurePc,           \* "starting", "waiting", "publishing", "monitoring", "started", "stopped"
    needStop, announced, \* announced: the last event for the notifier
    acks, ackFailed,     \* the four promises of the shadow's subscriptions
    inode, content,      \* the file behind the name, 0 for none, and its version, 0 when empty
    writer,              \* the inode a program has open for writing, 0 for none
    lastInode, lastVersion,
    dirWatch, watches, deleteWatches,  \* inodes watched for IN_CLOSE_WRITE, and for IN_DELETE_SELF
    fileWd,              \* the inode file_wd stands for, 0 when it is invalid
    queue, batch,        \* inotify events that wait, and those read() has returned
    monitorPc,           \* "none", "dir", "file", "check", "read", "handle", "rewatch", "exit", "ended"
    newest,              \* the newest version published
    unwatched,           \* history: written while nothing would tell, since the last publication
    triggers

fileVars == <<inode, content, writer, lastInode, lastVersion>>
watchVars == <<dirWatch, watches, deleteWatches, fileWd>>
publishVars == <<newest, unwatched>>
mainVars == <<featurePc, needStop, announced, acks, ackFailed>>
settingVars == <<feature, monitored>>
monitorVars == <<batch, monitorPc>>
fileMonitorVars == <<settingVars, mainVars, fileVars, watchVars, queue, monitorVars, publishVars,
                     triggers>>

MonitorInit ==
    /\ feature \in {"shadow", "pubsub"} /\ monitored \in BOOLEAN
    /\ featurePc = "starting" /\ needStop = FALSE /\ announced = "nothing"
    /\ acks = 0 /\ ackFailed = FALSE
    /\ inode = 1 /\ content = 1 /\ writer = 0 /\ lastInode = 1 /\ lastVersion = 1
    /\ dirWatch = FALSE /\ watches = {} /\ deleteWatches = {} /\ fileWd = 0
    /\ queue = <<>> /\ batch = <<>> /\ monitorPc = "none"
    /\ newest = 0 /\ unwatched = FALSE /\ triggers = 0

\* publishFileData, readAndUpdateShadowFromFile: a missing or an empty file is not published.
PublishFile ==
    IF inode # 0 /\ content # 0
    THEN newest' = content /\ unwatched' = FALSE
    ELSE UNCHANGED publishVars
-------------------------------------------------------------------------------
(* start() and stop(), by main. *)

StartFeature ==
    /\ featurePc = "starting"
    /\ featurePc' = IF feature = "shadow" THEN "waiting" ELSE "publishing"
    /\ UNCHANGED <<settingVars, needStop, announced, acks, ackFailed, fileVars, watchVars, queue,
                   monitorVars, publishVars, triggers>>

\* The acknowledgement of one of the four subscriptions; one that comes too late sets a promise
\* nobody looks at.
SubscribeAck ==
    /\ featurePc = "waiting" /\ acks < 4
    /\ acks' = acks + 1
    /\ ackFailed' \in {ackFailed, TRUE}
    /\ UNCHANGED <<settingVars, featurePc, needStop, announced, fileVars, watchVars, queue, monitorVars,
                   publishVars, triggers>>

\* subscribeToPertinentShadowTopics returns; when it has failed start() stops the feature, and
\* goes on.
WaitEnds ==
    /\ featurePc = "waiting"
    /\ featurePc' = "publishing"
    /\ \/ acks = 4 /\ ~ackFailed /\ UNCHANGED <<needStop, announced>>
       \/ /\ acks < 4 \/ ackFailed
          /\ needStop' = TRUE /\ announced' = "FEATURE_STOPPED"
    /\ acks' = 0 /\ ackFailed' = FALSE
    /\ UNCHANGED <<settingVars, fileVars, watchVars, queue, monitorVars, publishVars,
                   triggers>>

FirstPublish ==
    /\ featurePc = "publishing"
    /\ PublishFile
    /\ featurePc' = "monitoring"
    /\ UNCHANGED <<settingVars, needStop, announced, acks, ackFailed, fileVars, watchVars, queue,
                   monitorVars, triggers>>

StartMonitor ==
    /\ featurePc = "monitoring"
    /\ monitorPc' = IF monitored THEN "dir" ELSE "none"
    /\ announced' = "FEATURE_STARTED"
    /\ featurePc' = "started"
    /\ UNCHANGED <<settingVars, needStop, acks, ackFailed, fileVars, watchVars, queue, batch,
                   publishVars, triggers>>

Stop ==
    /\ featurePc = "started"
    /\ needStop' = TRUE /\ announced' = "FEATURE_STOPPED"
    /\ featurePc' = "stopped"
    /\ UNCHANGED <<settingVars, acks, ackFailed, fileVars, watchVars, queue, monitorVars, publishVars,
                   triggers>>
-------------------------------------------------------------------------------
(* The event loop: the message that asks Pub/Sub to publish.  A delta of the shadow is answered with *)
(* the desired state and does not touch the file.                                                    *)

Trigger ==
    /\ feature = "pubsub" /\ featurePc \notin {"starting", "stopped"} /\ triggers < MaxTriggers
    /\ triggers' = triggers + 1
    /\ PublishFile
    /\ UNCHANGED <<settingVars, mainVars, fileVars, watchVars, queue, monitorVars>>
-------------------------------------------------------------------------------
(* runFileMonitor. *)

Watch(file) ==
    /\ watches' = watches \cup ({file} \ {0})
    /\ fileWd' = file

WatchDirectory ==
    /\ monitorPc = "dir"
    /\ dirWatch' = TRUE
    /\ monitorPc' = "file"
    /\ UNCHANGED <<settingVars, mainVars, fileVars, watches, deleteWatches, fileWd, queue, batch,
                   publishVars, triggers>>

\* Without a file there is nothing to watch, and the thread ends.
WatchFile ==
    /\ monitorPc = "file"
    /\ Watch(inode)
    /\ monitorPc' = IF inode = 0 THEN "exit" ELSE "check"
    /\ UNCHANGED <<settingVars, mainVars, fileVars, dirWatch, deleteWatches, queue, batch, publishVars,
                   triggers>>

LoopGoesOn_Always == TRUE
LoopGoesOn == ~needStop

LoopChecks ==
    /\ monitorPc = "check"
    /\ monitorPc' = IF LoopGoesOn THEN "read" ELSE "exit"
    /\ UNCHANGED <<settingVars, mainVars, fileVars, watchVars, queue, batch, publishVars, triggers>>

\* read() returns all the events that wait.  It blocks while there are none: needStop was looked at
\* before.
ReadEvents ==
    /\ monitorPc = "read" /\ queue # <<>>
    /\ batch' = queue /\ queue' = <<>>
    /\ monitorPc' = "handle"
    /\ UNCHANGED <<settingVars, mainVars, fileVars, watchVars, publishVars, triggers>>

PublishCreated_Not == UNCHANGED publishVars
PublishCreated == PublishFile

HandleCreate ==
    /\ monitorPc = "handle" /\ batch # <<>> /\ Head(batch) = "IN_CREATE"
    /\ PublishCreated
    /\ monitorPc' = "rewatch"
    /\ UNCHANGED <<settingVars, mainVars, fileVars, watchVars, queue, batch, triggers>>

\* Only the sample shadow asks for IN_DELETE_SELF.
Rewatch ==
    /\ monitorPc = "rewatch"
    /\ Watch(inode)
    /\ deleteWatches' = IF feature = "shadow" THEN deleteWatches \cup ({inode} \ {0}) ELSE deleteWatches
    /\ batch' = Tail(batch)
    /\ monitorPc' = "handle"
    /\ UNCHANGED <<settingVars, mainVars, fileVars, dirWatch, queue, publishVars, triggers>>

HandleCloseWrite ==
    /\ monitorPc = "handle" /\ batch # <<>> /\ Head(batch) = "IN_CLOSE_WRITE"
    /\ PublishFile
    /\ batch' = Tail(batch)
    /\ UNCHANGED <<settingVars, mainVars, fileVars, watchVars, queue, monitorPc, triggers>>

\* inotify_rm_watch of the watch added last, whichever file was deleted.
HandleDeleteSelf ==
    /\ monitorPc = "handle" /\ batch # <<>> /\ Head(batch) = "IN_DELETE_SELF"
    /\ watches' = watches \ {fileWd} /\ deleteWatches' = deleteWatches \ {fileWd}
    /\ batch' = Tail(batch)
    /\ UNCHANGED <<settingVars, mainVars, fileVars, dirWatch, fileWd, queue, monitorPc, publishVars,
                   triggers>>

BatchEnds ==
    /\ monitorPc = "handle" /\ batch = <<>>
    /\ monitorPc' = "check"
    /\ UNCHANGED <<settingVars, mainVars, fileVars, watchVars, queue, batch, publishVars, triggers>>

Exit ==
    /\ monitorPc = "exit"
    /\ dirWatch' = FALSE /\ watches' = {} /\ deleteWatches' = {} /\ fileWd' = 0 /\ queue' = <<>>
    /\ monitorPc' = "ended"
    /\ UNCHANGED <<settingVars, mainVars, fileVars, batch, publishVars, triggers>>
-------------------------------------------------------------------------------
(* Programs and the operating system (external). *)

\* An event that equals the last one waiting is merged with it.
Events(occurs, event) ==
    IF occurs /\ (queue = <<>> \/ queue[Len(queue)] # event) THEN <<event>> ELSE <<>>

\* The last name of an inode is gone: unless it is open, its watches end.
Unlinked(old) ==
    IF old = 0 \/ old = writer
    THEN UNCHANGED <<queue, watches, deleteWatches>>
    ELSE /\ queue' = queue \o Events(old \in deleteWatches, "IN_DELETE_SELF")
         /\ watches' = watches \ {old} /\ deleteWatches' = deleteWatches \ {old}

\* The events that wait or are still to be handled.
Pending == queue \o (IF monitorPc = "rewatch" THEN Tail(batch) ELSE batch)
Occurs(kinds, events) == \E i \in DOMAIN events : events[i] \in kinds

\* The events on which the file is published.
PublishedOn == {"IN_CREATE", "IN_CLOSE_WRITE"}

\* Nobody will be told of what is written now.
Unnoticed == writer \notin watches /\ ~Occurs({"IN_CREATE"}, Pending)

FileCreated ==
    /\ inode = 0 /\ lastInode < MaxInodes
    /\ inode' = lastInode + 1 /\ lastInode' = lastInode + 1 /\ content' = 0
    /\ writer' \in IF writer = 0 THEN {0, inode'} ELSE {writer}
    /\ queue' = queue \o Events(dirWatch, "IN_CREATE")
    /\ UNCHANGED <<settingVars, mainVars, lastVersion, watchVars, monitorVars, publishVars, triggers>>

FileOpened ==
    /\ inode # 0 /\ writer = 0 /\ lastVersion < MaxVersions
    /\ writer' = inode
    /\ UNCHANGED <<settingVars, mainVars, inode, content, lastInode, lastVersion, watchVars, queue,
                   monitorVars, publishVars, triggers>>

FileWritten ==
    /\ writer # 0 /\ writer = inode /\ lastVersion < MaxVersions
    /\ content' = lastVersion + 1 /\ lastVersion' = lastVersion + 1
    /\ unwatched' = (unwatched \/ Unnoticed)
    /\ UNCHANGED <<settingVars, mainVars, inode, writer, lastInode, watchVars, queue, monitorVars, newest,
                   triggers>>

FileClosed ==
    /\ writer # 0
    /\ writer' = 0
    /\ unwatched' = (unwatched \/ Unnoticed)
    /\ IF writer = inode
       THEN /\ queue' = queue \o Events(writer \in watches, "IN_CLOSE_WRITE")
            /\ UNCHANGED <<watches, deleteWatches>>
       ELSE /\ queue' = queue \o Events(writer \in watches, "IN_CLOSE_WRITE")
                              \o Events(writer \in deleteWatches, "IN_DELETE_SELF")
            /\ watches' = watches \ {writer} /\ deleteWatches' = deleteWatches \ {writer}
    /\ UNCHANGED <<settingVars, mainVars, inode, content, lastInode, lastVersion, dirWatch, fileWd,
                   monitorVars, newest, triggers>>

FileDeleted ==
    /\ inode # 0
    /\ inode' = 0
    /\ Unlinked(inode)
    /\ UNCHANGED <<settingVars, mainVars, content, writer, lastInode, lastVersion, dirWatch, fileWd,
                   monitorVars, publishVars, triggers>>

\* Another file is renamed to the name: inotify calls that IN_MOVED_TO, which nobody asked for.
FileReplaced ==
    /\ lastInode < MaxInodes /\ lastVersion < MaxVersions
    /\ inode' = lastInode + 1 /\ lastInode' = lastInode + 1
    /\ content' = lastVersion + 1 /\ lastVersion' = lastVersion + 1
    /\ Unlinked(inode)
    /\ unwatched' = TRUE
    /\ UNCHANGED <<settingVars, mainVars, writer, dirWatch, fileWd, monitorVars, newest, triggers>>
-------------------------------------------------------------------------------
Monitor ==
    \/ WatchDirectory \/ WatchFile \/ LoopChecks \/ ReadEvents
    \/ HandleCreate \/ Rewatch \/ HandleCloseWrite \/ HandleDeleteSelf \/ BatchEnds \/ Exit

File == FileCreated \/ FileOpened \/ FileWritten \/ FileClosed \/ FileDeleted \/ FileReplaced

MonitorNext ==
    \/ StartFeature \/ SubscribeAck \/ WaitEnds \/ FirstPublish \/ StartMonitor \/ Stop
    \/ Trigger
    \/ Monitor
    \/ File

MonitorSpec == MonitorInit /\ [][MonitorNext]_fileMonitorVars

FairMonitorSpec == MonitorSpec /\ WF_fileMonitorVars(Monitor)
-------------------------------------------------------------------------------
\* A change of the file is noticed: its content has been published, or an event that will have it
\* published waits, through every order of creation, writing, deletion and of the events read so far
\* (runFileMonitor).  Not covered is what is written before the watch was added and after the
\* creation was handled, or after the watch was lost.
ChangesAreNoticed ==
    /\ monitorPc \in {"dir", "file", "check", "read", "handle", "rewatch"} /\ ~needStop
    /\ inode # 0 /\ writer # inode /\ content # 0 /\ ~unwatched
    =>
    \/ newest = content
    \/ Occurs(PublishedOn, Pending)

\* Once stop() was called the thread ends as soon as something happens to the file; until then it
\* stays in read() (runFileMonitor, stop).
StopEndsMonitor == (needStop /\ queue # <<>>) ~> (monitorPc \in {"none", "ended"})
-------------------------------------------------------------------------------
(* The inductive invariant of the proofs. *)
Event == {"IN_CREATE", "IN_CLOSE_WRITE", "IN_DELETE_SELF"}
EventTypes == queue \in Seq(Event) /\ batch \in Seq(Event)

\* The batch is empty when read() fills it, and has the event that is being handled.
BatchInv ==
    /\ monitorPc \in {"none", "dir", "file", "check", "read"} => batch = <<>>
    /\ monitorPc = "rewatch" => batch # <<>>
    /\ monitorPc # "none" => featurePc \in {"started", "stopped"}

\* From the first publication on, a content that is not the one published has an event that waits,
\* or a program that has the file open, whose close is an event.
NoticeInv ==
    /\ featurePc \in {"monitoring", "started", "stopped"} /\ monitorPc \notin {"exit", "ended"}
    /\ inode # 0 /\ content # 0 /\ newest # content /\ ~unwatched /\ writer # inode
    => Occurs(PublishedOn, Pending)

MonitorInv == EventTypes /\ BatchInv /\ NoticeInv
===============================================================================
