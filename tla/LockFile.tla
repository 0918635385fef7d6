------------------------------- MODULE LockFile -------------------------------
(***************************************************************************)
(* The lock file that keeps a second client from starting                  *)
(* (src/source/util/LockFile.cpp): it holds the thing name and the process *)
(* identifier of the client that made it.  A client that finds one of a    *)
(* process that is gone, or of another thing, removes it and makes its     *)
(* own.  Reading, removing, creating and filling the file are separate     *)
(* steps, a client may crash between any two of them and leave the file,   *)
(* and a process identifier may be given again.                            *)
(***************************************************************************)
EXTENDS Naturals, FiniteSets

CONSTANTS
  Clients,      \* processes of the client, each may be started again
  Pids,         \* process identifiers the system hands out
  Directories   \* whether the directory of the lock file can be written: TRUE, FALSE or either

ASSUME LockConstants ==
  Cardinality(Pids) >= Cardinality(Clients) /\ Directories \subseteq BOOLEAN

VARIABLES
  lockFile,     \* NoFile, or who made it and what it says
  holder        \* client -> where it is in init(), under which name and identifier

NoFile == [by |-> {}, says |-> {}]
Down == [at |-> "down", thing |-> "", pid |-> 0]
LockInit == lockFile = NoFile /\ holder = [c \in Clients |-> Down]

Alive(pid) == \E c \in Clients : holder[c].at # "down" /\ holder[c].pid = pid
Claim(c) == [thing |-> holder[c].thing, pid |-> holder[c].pid]
Exists == lockFile # NoFile
To(c, at) == holder' = [holder EXCEPT ![c].at = at]

(* A process of the client begins, with an identifier no other has.        *)
LockBegin(c, thing) ==
  /\ holder[c].at = "down"
  /\ \E p \in Pids : ~Alive(p) /\ holder' = [holder EXCEPT ![c] = [at |-> "checking", thing |-> thing, pid |-> p]]
  /\ UNCHANGED lockFile

(* The file is refused only if it says this thing and a living process     *)
(* whose command line is the client's; an empty one says nothing.          *)
InUse(c) == \E claim \in lockFile.says : claim.thing = holder[c].thing /\ Alive(claim.pid)

LockCheck(c) ==
  /\ holder[c].at = "checking"
  /\ To(c, IF ~Exists THEN "creating" ELSE IF InUse(c) THEN "refused" ELSE "removing")
  /\ UNCHANGED lockFile

(* remove() takes whatever file has the name now, and fails without one.   *)
LockRemove(c) ==
  /\ holder[c].at = "removing"
  /\ To(c, IF Exists THEN "creating" ELSE "refused")
  /\ lockFile' = NoFile

(* fopen with "wx": when there is a file by now, or the directory cannot   *)
(* be written, the failure is logged and the client goes on without a lock *)
(* file.                                                                   *)
LockCreate(c) ==
  /\ holder[c].at = "creating"
  /\ \E writable \in Directories :
       IF writable /\ ~Exists
       THEN lockFile' = [by |-> {c}, says |-> {}] /\ To(c, "filling")
       ELSE To(c, "holding") /\ UNCHANGED lockFile

(* The contents reach the file at fclose, if it still has its name.        *)
LockFill(c) ==
  /\ holder[c].at = "filling"
  /\ lockFile' = IF lockFile.by = {c} THEN [lockFile EXCEPT !.says = {Claim(c)}] ELSE lockFile
  /\ To(c, "holding")

(* The destructor, at exit.  A client that was refused has no LockFile.    *)
LockRelease(c) ==
  /\ holder[c].at \in {"holding", "refused"}
  /\ lockFile' = IF holder[c].at = "holding" THEN NoFile ELSE lockFile
  /\ holder' = [holder EXCEPT ![c] = Down]

(* The process dies and leaves the file.                                   *)
LockCrash(c) ==
  /\ holder[c].at # "down"
  /\ holder' = [holder EXCEPT ![c] = Down]
  /\ lockFile' = lockFile

LockStep(c) == LockCheck(c) \/ LockRemove(c) \/ LockCreate(c) \/ LockFill(c)

-----------------------------------------------------------------------------
(* Several clients for one thing, which do nothing else.                   *)
LockNext ==
  \E c \in Clients : LockBegin(c, "thing") \/ LockStep(c) \/ LockRelease(c) \/ LockCrash(c)

LockSpec == LockInit /\ [][LockNext]_<<lockFile, holder>>

(* "init() is currently responsible for making sure only 1 instance of     *)
(* Device Client is running at a given time" (main.cpp:335): two       *)
(* clients that both find no lock file are both let through, because the   *)
(* one that cannot create it only logs that (LockFile.cpp:59-66).          *)
OnlyOneInstance == Cardinality({c \in Clients : holder[c].at = "holding"}) <= 1
=============================================================================
