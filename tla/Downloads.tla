------------------------------ MODULE Downloads ------------------------------
(***************************************************************************)
(* Model downloads (src/llm_studio/downloads) and the directories and the  *)
(* index of the local models (src/llm_studio/models, storage).             *)
(*                                                                         *)
(* The downloads run on two worker threads, a scan on a third; the calls   *)
(* of the API run on the event loop, the cleanup on pool threads.  They    *)
(* share the directories and, without a lock, the index and the one        *)
(* temporary file it is written to.  A directory is the set of files in    *)
(* it.  Of the row of a job the status is kept: what job_queue.cancel(),   *)
(* the merge after it and a worker's first and last save write.  The       *)
(* accesses within job_queue.cancel() and a worker's saves of its progress *)
(* in between, with their lost updates, are in JobQueue.                   *)
(***************************************************************************)
EXTENDS Integers, Sequences, FiniteSets

CONSTANTS ModelNames,     \* local names, the directories under the model root
          Repos,          \* repositories
          FilesOf,        \* the files the provider lists for each of them
          Workers,        \* threads of the executor of downloads
          MaxDownloads    \* bound on the jobs

ASSUME DownloadAssumption == MaxDownloads \in Nat /\ \A repo \in Repos : "no file" \notin FilesOf[repo]

VARIABLES download,       \* the jobs: row, cancel flag and where the worker is
          part,           \* the directory under temp_dir of each job
          model,          \* the directory of each name under the model root
          index,          \* the names the cached index lists
          indexTmp,       \* model_index.tmp
          scan,           \* the scans under way
          picked,         \* what the preview of a cleanup has found
          merge           \* the cancel the event loop is in: its job, 0 for none, and the status it read

downloadVars == <<download, part, model, index, indexTmp, scan, picked, merge>>

NoFile == {"no file"}
NoMerge == [job |-> 0, seen |-> "none"]
NoScan == [pc |-> "rest", seen |-> {}]
EventLoop == 0
ScanWorker == -1
Scanners == -1..MaxDownloads
Active == {"pending", "running", "cancelling"}
Over == {"succeeded", "failed", "cancelled", "interrupted"}

Present(files) == files # NoFile
Holds(files, some) == files \intersect some # {}
Weights == {"weights", "gguf"}
Valid(files) == Holds(files, {"config", "gguf"}) /\ Holds(files, Weights)
Ready(files) == "config" \in files /\ Holds(files, Weights)

DownloadInit ==
  /\ download = << >> /\ part = << >>
  /\ model = [n \in ModelNames |-> NoFile]
  /\ index = {} /\ indexTmp = NoFile
  /\ scan = [s \in Scanners |-> NoScan]
  /\ picked = {}
  /\ merge = NoMerge

Row(j, status, pc) == [download EXCEPT ![j].status = status, ![j].pc = pc]
diskVars == <<part, model, index, indexTmp, scan, picked>>
LoopFree == scan[EventLoop].pc = "rest" /\ merge = NoMerge

-----------------------------------------------------------------------------
(* The calls of the API                                                    *)

AlreadyRunning(repo) == \E j \in DOMAIN download : download[j].repo = repo /\ download[j].status \in Active

CreateDownload(repo, name) ==
  /\ LoopFree /\ Len(download) < MaxDownloads
  /\ ~AlreadyRunning(repo)
  /\ download' = Append(download, [repo |-> repo, name |-> name, status |-> "pending", pc |-> "queued",
                                   cancel |-> FALSE, fetched |-> {}, cleaned |-> FALSE])
  /\ part' = Append(part, NoFile)
  /\ UNCHANGED <<model, index, indexTmp, scan, picked, merge>>

(* cancel_job: job_queue.cancel(), and then, on the event loop and without *)
(* a test, _merge_payload reads the row ...                                *)
CancelDownload(j) ==
  /\ LoopFree /\ download[j].status \in Active
  /\ download' = [download EXCEPT ![j].status = "cancelling", ![j].cancel = download[j].pc # "rest"]
  /\ merge' = [NoMerge EXCEPT !.job = j]
  /\ UNCHANGED diskVars

MergeRead(j) ==
  /\ merge.job = j /\ merge.seen = "none"
  /\ merge' = [merge EXCEPT !.seen = download[j].status]
  /\ UNCHANGED <<download, diskVars>>

(* ... and saves it with the status it read, over one the worker has       *)
(* written since.                                                          *)
MergeSave(j) ==
  /\ merge.job = j /\ merge.seen # "none"
  /\ download' = [download EXCEPT ![j].status = merge.seen]
  /\ merge' = NoMerge
  /\ UNCHANGED diskVars

(* The same job runs again, with a new flag and with what its directory    *)
(* under temp_dir has left.                                                *)
RetryInterrupted(j) ==
  /\ LoopFree /\ download[j].status \in Over \ {"succeeded"}
  /\ ~AlreadyRunning(download[j].repo)
  /\ download' = [download EXCEPT ![j].status = "pending", ![j].pc = "queued", ![j].cancel = FALSE,
                                  ![j].fetched = {}]
  /\ UNCHANGED <<diskVars, merge>>

-----------------------------------------------------------------------------
(* _run_download on a worker                                               *)

MutPartKey(j) == CHOOSE k \in DOMAIN download : download[k].name = download[j].name
PartKey(j) == j
Temp(j) == part[PartKey(j)]

BeginDownload(j) ==
  /\ download[j].pc = "queued"
  /\ Cardinality({k \in DOMAIN download : download[k].pc \notin {"rest", "queued"}}) < Workers
  /\ download' = Row(j, "running", "check")
  /\ UNCHANGED <<diskVars, merge>>

EndsAs(j, status) == download' = Row(j, status, "rest")

RefuseExisting(j) ==
  /\ download[j].pc = "check" /\ Present(model[download[j].name])
  /\ EndsAs(j, "failed")
  /\ UNCHANGED <<diskVars, merge>>

OpenTemp(j) ==
  /\ download[j].pc = "check" /\ ~Present(model[download[j].name])
  /\ download' = [download EXCEPT ![j].pc = "fetch"]
  /\ part' = [part EXCEPT ![PartKey(j)] = IF Present(@) THEN @ ELSE {}]
  /\ UNCHANGED <<model, index, indexTmp, scan, picked, merge>>

(* The files the loop of _run_download has before it; the provider puts    *)
(* one after the other into the directory.                                 *)
Remaining(j) == FilesOf[download[j].repo] \ download[j].fetched

FetchFile(j, f) ==
  /\ download[j].pc = "fetch"
  /\ f \in Remaining(j)
  /\ download' = [download EXCEPT ![j].fetched = @ \union {f}]
  /\ part' = [part EXCEPT ![PartKey(j)] = (IF Present(@) THEN @ ELSE {}) \union {f}]
  /\ UNCHANGED <<model, index, indexTmp, scan, picked, merge>>

(* The network, the repository, the disk, or the flag, which is looked at  *)
(* before the directory is validated and never after.                      *)
Stops(j, status) ==
  /\ download[j].pc \in {"check", "fetch"}
  /\ status = "cancelled" => download[j].cancel /\ download[j].pc = "fetch"
  /\ EndsAs(j, status)
  /\ UNCHANGED <<diskVars, merge>>

Validate(j) ==
  LET good == Present(Temp(j)) /\ Valid(Temp(j)) /\ ~Present(model[download[j].name])
  IN  /\ download[j].pc = "fetch" /\ Remaining(j) = {}
      /\ ~download[j].cancel
      /\ download' = IF good THEN [download EXCEPT ![j].pc = "rename"] ELSE Row(j, "failed", "rest")
      /\ UNCHANGED <<diskVars, merge>>

(* os.replace: a directory does not replace one that has files.            *)
MutRename(j) ==
  LET n == download[j].name
  IN  /\ download[j].pc = "rename"
      /\ IF Present(Temp(j))
         THEN /\ model' = [model EXCEPT ![n] = Temp(j)]
              /\ part' = [part EXCEPT ![PartKey(j)] = NoFile]
              /\ download' = [download EXCEPT ![j].pc = "register"]
              /\ scan' = [scan EXCEPT ![j].pc = "read"]
         ELSE EndsAs(j, "failed") /\ UNCHANGED <<model, part, scan>>
      /\ UNCHANGED <<index, indexTmp, picked, merge>>
Rename(j) ==
  LET n == download[j].name
  IN  /\ download[j].pc = "rename"
      /\ IF Present(Temp(j)) /\ ~Present(model[n])
         THEN /\ model' = [model EXCEPT ![n] = Temp(j)]
              /\ part' = [part EXCEPT ![PartKey(j)] = NoFile]
              /\ download' = [download EXCEPT ![j].pc = "register"]
              /\ scan' = [scan EXCEPT ![j].pc = "read"]
         ELSE EndsAs(j, "failed") /\ UNCHANGED <<model, part, scan>>
      /\ UNCHANGED <<index, indexTmp, picked, merge>>

-----------------------------------------------------------------------------
(* LocalModelRepository.scan: the directories are read, the temporary      *)
(* file is written and put in the place of the index.                      *)

StartScan(s) ==
  /\ s = ScanWorker => scan[s].pc = "rest"
  /\ scan' = [scan EXCEPT ![s].pc = "read"]

ScanJob == StartScan(ScanWorker) /\ UNCHANGED <<download, part, model, index, indexTmp, picked, merge>>

RegisterExternal ==
  LoopFree /\ StartScan(EventLoop) /\ UNCHANGED <<download, part, model, index, indexTmp, picked, merge>>

(* The model is looked up in the cached index.                             *)
MoveToTrash(n) ==
  /\ LoopFree /\ n \in index /\ Present(model[n])
  /\ model' = [model EXCEPT ![n] = NoFile]
  /\ StartScan(EventLoop)
  /\ UNCHANGED <<download, part, index, indexTmp, picked, merge>>

ReadDirectories(s) ==
  /\ scan[s].pc = "read"
  /\ scan' = [scan EXCEPT ![s] = [pc |-> "write",
                seen |-> {n \in ModelNames : Present(model[n]) /\ Holds(model[n], {"config", "gguf"})}]]
  /\ UNCHANGED <<download, part, model, index, indexTmp, picked, merge>>

WriteTemporary(s) ==
  /\ scan[s].pc = "write"
  /\ indexTmp' = scan[s].seen
  /\ scan' = [scan EXCEPT ![s].pc = "replace"]
  /\ UNCHANGED <<download, part, model, index, picked, merge>>

(* The file may be the one another scan wrote, or gone with it.  A         *)
(* download ends with its scan: it succeeds if it saw itself ready.        *)
ReplaceIndex(s) ==
  /\ scan[s].pc = "replace"
  /\ index' = IF indexTmp = NoFile THEN index ELSE indexTmp
  /\ indexTmp' = NoFile
  /\ scan' = [scan EXCEPT ![s] = NoScan]
  /\ IF s \notin DOMAIN download THEN UNCHANGED download
     ELSE LET n == download[s].name
              saw == n \in scan[s].seen /\ Ready(FilesOf[download[s].repo])
          IN  EndsAs(s, IF indexTmp # NoFile /\ saw THEN "succeeded" ELSE "failed")
  /\ UNCHANGED <<part, model, picked, merge>>

-----------------------------------------------------------------------------
(* The cleanup: any directory under temp_dir may have turned old, also the *)
(* one of a job that runs (again).                                         *)

PreviewCleanup ==
  /\ picked = {}
  /\ \E some \in SUBSET {j \in DOMAIN part : Present(part[j])} :
       some # {} /\ picked' = some
  /\ UNCHANGED <<download, part, model, index, indexTmp, scan, merge>>

RemovePicked(j) ==
  /\ j \in picked
  /\ picked' = picked \ {j}
  /\ part' = [part EXCEPT ![j] = NoFile]
  /\ download' = [download EXCEPT ![j].cleaned = @ \/ download[j].pc # "rest"]
  /\ UNCHANGED <<model, index, indexTmp, scan, merge>>

(* The end of the process and its next start.                              *)
Restarts ==
  /\ download' = [j \in DOMAIN download |->
       [download[j] EXCEPT !.pc = "rest", !.cancel = FALSE,
          !.status = IF @ \in {"running", "cancelling"} THEN "interrupted" ELSE @]]
  /\ scan' = [s \in Scanners |-> NoScan]
  /\ picked' = {}
  /\ merge' = NoMerge
  /\ UNCHANGED <<part, model, index, indexTmp>>

DownloadCalls ==
  \/ \E repo \in Repos, name \in ModelNames : CreateDownload(repo, name)
  \/ \E j \in DOMAIN download : CancelDownload(j) \/ RetryInterrupted(j)
  \/ \E n \in ModelNames : MoveToTrash(n)
  \/ RegisterExternal \/ ScanJob \/ PreviewCleanup \/ Restarts

DownloadSteps ==
  \/ \E j \in DOMAIN download :
       \/ MergeRead(j) \/ MergeSave(j)
       \/ BeginDownload(j) \/ RefuseExisting(j) \/ OpenTemp(j) \/ Validate(j) \/ Rename(j) \/ RemovePicked(j)
       \/ \E f \in FilesOf[download[j].repo] : FetchFile(j, f)
       \/ \E status \in {"failed", "cancelled"} : Stops(j, status)
  \/ \E s \in Scanners : ReadDirectories(s) \/ WriteTemporary(s) \/ ReplaceIndex(s)

DownloadSpec == DownloadInit /\ [][DownloadCalls \/ DownloadSteps]_downloadVars

-----------------------------------------------------------------------------
(* A model directory is never written over: whatever downloads ask for the *)
(* same name, are cancelled, retried or interrupted, it stays as it was    *)
(* installed until it is moved to the trash.                               *)
ModelsAreKept ==
  [][\A n \in ModelNames : Present(model[n]) => model'[n] \in {model[n], NoFile}]_downloadVars

(* What is installed is one repository, all of it and nothing else,        *)
(* whatever other downloads of the name, retries and ends of the process   *)
(* left under temp_dir: unless a cleanup took a directory from under a     *)
(* download.                                                               *)
ModelsAreWhole ==
  (\E j \in DOMAIN download : download[j].cleaned) \/
    /\ \A n \in ModelNames : Present(model[n]) =>
         \E j \in DOMAIN download : download[j].name = n /\ model[n] = FilesOf[download[j].repo]
    /\ \A j \in DOMAIN download : Present(part[j]) => part[j] \subseteq FilesOf[download[j].repo]
=============================================================================
