---------------------------- MODULE PyodideCache ----------------------------
(***************************************************************************)
(* The set-up of the Pyodide cache (code_interpreter/src/                  *)
(* pyodide-manager.ts): every interpreter process of a host that starts    *)
(* finds or builds one directory, under a lock file that counts as stale   *)
(* when it is ten minutes old.  A version marker, written last, says that  *)
(* the directory is complete.                                              *)
(***************************************************************************)
EXTENDS Naturals, FiniteSets

CONSTANTS
  Server,     \* interpreter processes, all of one Pyodide version
  NoServer,   \* nobody
  MaxCrashes  \* bound: crashes

ASSUME CacheAssumption == NoServer \notin Server /\ MaxCrashes \in Nat

VARIABLES
  pc,       \* [Server -> where it is]
  lock,     \* who created the lock file that exists, if any
  stale,    \* the lock file is older than SETUP_LOCK_STALE_MS
  cache,    \* the directory, its files, its marker and the archive in it
  crashes,  \* crashes so far
  stolen    \* history: a process has removed the lock of a live one

vars == <<pc, lock, stale, cache, crashes, stolen>>

NoCache == [dir |-> FALSE, files |-> "none", marker |-> "none", tarball |-> FALSE]

(* Left by another version; left by a process that died while extracting.  *)
Old == [dir |-> TRUE, files |-> "all", marker |-> "old", tarball |-> TRUE]

Half == [dir |-> TRUE, files |-> "some", marker |-> "none", tarball |-> TRUE]

Inside == {"check", "tar", "download", "unpack", "extracting", "mark", "done", "giving up"}

TypeOK ==
  /\ pc \in [Server -> Inside \cup {"locking", "steal", "load", "running", "failed", "crashed"}]
  /\ lock \in Server \cup {NoServer}
  /\ stale \in BOOLEAN
  /\ cache \in [dir : BOOLEAN, files : {"none", "some", "all"},
                marker : {"none", "old", "current"}, tarball : BOOLEAN]
  /\ crashes \in 0 .. MaxCrashes
  /\ stolen \in BOOLEAN

Init ==
  /\ pc = [p \in Server |-> "locking"]
  /\ lock = NoServer
  /\ stale = FALSE
  /\ cache \in {NoCache, Old, Half}
  /\ crashes = 0
  /\ stolen = FALSE

At(p, place) == pc[p] = place

To(p, place) == pc' = [pc EXCEPT ![p] = place]

-----------------------------------------------------------------------------
(* acquireSetupLock                                                        *)

CreateLock(p) ==
  /\ At(p, "locking")
  /\ lock = NoServer
  /\ lock' = p
  /\ stale' = FALSE
  /\ To(p, "check")
  /\ UNCHANGED <<cache, crashes, stolen>>

NeverStale(p) == FALSE /\ UNCHANGED vars

SeeStale(p) ==
  /\ At(p, "locking")
  /\ lock # NoServer /\ stale
  /\ To(p, "steal")
  /\ UNCHANGED <<lock, stale, cache, crashes, stolen>>

(* The lock file that is removed is the one that is there by now.          *)
RemoveStale(p) ==
  /\ At(p, "steal")
  /\ lock' = NoServer
  /\ stale' = FALSE
  /\ stolen' = (stolen \/ (lock # NoServer /\ pc[lock] \in Inside))
  /\ To(p, "locking")
  /\ UNCHANGED <<cache, crashes>>

(* Ten minutes pass.  They may pass while the holder is at work.           *)
Age ==
  /\ lock # NoServer /\ ~stale
  /\ stale' = TRUE
  /\ UNCHANGED <<pc, lock, cache, crashes, stolen>>

(* The lock that is released is, again, the one that is there.             *)
ReleaseSetupLock(p) ==
  /\ pc[p] \in {"done", "giving up"}
  /\ lock' = NoServer
  /\ stale' = FALSE
  /\ stolen' = (stolen \/ (lock \notin {p, NoServer} /\ pc[lock] \in Inside))
  /\ To(p, IF At(p, "done") THEN "load" ELSE "failed")
  /\ UNCHANGED <<cache, crashes>>

-----------------------------------------------------------------------------
(* setupPyodide                                                            *)

Frame == UNCHANGED <<lock, stale, crashes, stolen>>

CheckDirectoryOnly(p) ==
  /\ At(p, "check")
  /\ IF cache.dir /\ cache.marker # "old"
       THEN To(p, "done") /\ UNCHANGED cache
       ELSE To(p, "tar") /\ cache' = NoCache
  /\ Frame

(* A directory with the marker of this version is used as it is; any other *)
(* is removed, with the archive in it.                                     *)
CheckCache(p) ==
  /\ At(p, "check")
  /\ IF cache.dir /\ cache.marker = "current"
       THEN To(p, "done") /\ UNCHANGED cache
       ELSE To(p, "tar") /\ cache' = NoCache
  /\ Frame

CheckTar(p) ==
  /\ At(p, "tar")
  /\ \/ cache' = [cache EXCEPT !.dir = TRUE] /\ To(p, "download")
     \/ UNCHANGED cache /\ To(p, "giving up")
  /\ Frame

(* The archive arrives under a temporary name and is renamed; the download *)
(* may fail, and the rename does when the directory is gone.               *)
Download(p) ==
  /\ At(p, "download")
  /\ \/ cache.tarball /\ UNCHANGED cache /\ To(p, "unpack")
     \/ /\ ~cache.tarball /\ cache.dir
        /\ cache' = [cache EXCEPT !.tarball = TRUE]
        /\ To(p, "unpack")
     \/ ~cache.tarball /\ UNCHANGED cache /\ To(p, "giving up")
  /\ Frame

BeginExtract(p) ==
  /\ At(p, "unpack")
  /\ cache' = [cache EXCEPT !.dir = TRUE, !.files = "some"]
  /\ To(p, "extracting")
  /\ Frame

(* What another process removes meanwhile is missing at the end; a failed  *)
(* extraction removes the archive.                                         *)
EndExtract(p) ==
  /\ At(p, "extracting")
  /\ \/ /\ cache.tarball /\ cache.dir
        /\ cache' = [cache EXCEPT !.files = IF @ = "some" THEN "all" ELSE "some"]
        /\ To(p, "mark")
     \/ /\ cache' = [cache EXCEPT !.tarball = FALSE]
        /\ To(p, "giving up")
  /\ Frame

WriteMarker(p) ==
  /\ At(p, "mark")
  /\ IF cache.dir
       THEN cache' = [cache EXCEPT !.marker = "current"] /\ To(p, "done")
       ELSE UNCHANGED cache /\ To(p, "giving up")
  /\ Frame

(* The rest of initialize, with the lock free again: the egress policy,     *)
(* Pyodide and its packages from the cache, the patches; any may fail.     *)
LoadPyodide(p) ==
  /\ At(p, "load")
  /\ To(p, "running") \/ To(p, "failed")
  /\ UNCHANGED cache
  /\ Frame

-----------------------------------------------------------------------------
(* A process dies where it is, and with it its lock file stays; a process  *)
(* that died or failed is started again.                                   *)
Crash(p) ==
  /\ pc[p] \in Inside \cup {"steal", "load"}
  /\ crashes < MaxCrashes
  /\ crashes' = crashes + 1
  /\ To(p, "crashed")
  /\ UNCHANGED <<lock, stale, cache, stolen>>

Restart(p) ==
  /\ At(p, "crashed")
  /\ To(p, "locking")
  /\ UNCHANGED <<lock, stale, cache, crashes, stolen>>

Step(p) ==
  \/ CreateLock(p) \/ SeeStale(p) \/ RemoveStale(p) \/ ReleaseSetupLock(p)
  \/ CheckCache(p) \/ CheckTar(p) \/ Download(p)
  \/ BeginExtract(p) \/ EndExtract(p) \/ WriteMarker(p)
  \/ LoadPyodide(p)

Next ==
  \/ \E p \in Server : Step(p) \/ Crash(p) \/ Restart(p)
  \/ Age

(* Every process goes on, and time passes.                                 *)
Spec ==
  /\ Init /\ [][Next]_vars
  /\ \A p \in Server : WF_vars(Step(p))
  /\ WF_vars(Age)

-----------------------------------------------------------------------------
(***************************************************************************)
(* A process never loads, or runs from, a half extracted or outdated cache,*)
(* whichever process crashed where: unless somebody has removed the lock   *)
(* file of a process at work, which ten minutes or two who found the same  *)
(* stale lock can bring about.                                             *)
(***************************************************************************)
UsedCacheIsComplete ==
  ~stolen /\ (\E p \in Server : pc[p] \in {"load", "running"})
    => cache.dir /\ cache.files = "all" /\ cache.marker = "current"

(***************************************************************************)
(* The lock of a process that died does not keep the others out for ever:  *)
(* each of them comes to use the cache, fails or dies itself.              *)
(***************************************************************************)
SetupEnds ==
  \A p \in Server : At(p, "locking") ~> pc[p] \in {"running", "failed", "crashed"}

=============================================================================
