---------------------------- MODULE ModelInstall ----------------------------
(***************************************************************************)
(* The installation of a remote model: a job of the install service, the   *)
(* multi-file downloads it makes, one after the other as it is resumed or  *)
(* restarted, its temporary directory with a marker that tells the next    *)
(* process what was under way, and the thread that installs it.            *)
(*                                                                         *)
(* Requests run on the event loop one at a time, but not atomically with   *)
(* the threads; a callback of the download service is one step.            *)
(*                                                                         *)
(* In the plain case a download is resumed when its workers have let go of *)
(* it, paused while it is downloading, canceled while it will notice, and  *)
(* the process does not end between a file's last byte and its renaming,   *)
(* nor between the removal of the marker and the end of the install.       *)
(* A behaviour departs from it in at most one of the ways in Does, and     *)
(* install.did says in which.  (A bound: users depart from it only if the  *)
(* process is not restarted.)                                              *)
(***************************************************************************)
EXTENDS DownloadQueue

CONSTANTS
    Does,           \* how users and the process may depart from the plain case
    MaxRestarts     \* bound: restarts of the process

ASSUME InstallAssumption ==
    /\ Does \subseteq {"actsEarly", "pausesWaiting", "pausesDone", "cancelsLate",
                       "restartsFailed", "restartsFile", "killsInRename", "killsInInstall", "stops"}
    /\ MaxRestarts \in Nat

VARIABLES
    install,        \* status, _multifile_job, that of download_parts; canceled, without a download, departed
    cache,          \* _download_cache: the multi-file jobs whose callbacks are heard
    marker,         \* the status in the marker file, or "none"
    installer,      \* how many times the job is queued, and where the thread is
    models,         \* the registered models: their files
    call,           \* the request that is under way
    restoring,      \* is the restore thread fetching metadata?
    restarts

installVars == <<install, cache, marker, installer, models, call, restoring, restarts>>
vars == <<downloadVars, installVars>>

NoInstall == [status |-> "none", multi |-> 0, shown |-> 0, asked |-> FALSE, stuck |-> FALSE,
              did |-> "nothing"]
NoCall == [kind |-> "none"]

over == install.status \in {"completed", "error", "cancelled"}

Unused == {m \in Multis : multi[m].parts = {}}

\* The download service has nothing to do.
Quiet == queue = {} /\ \A w \in Workers : work[w].at \in {"top", "exited"}

\* The departures of the process.
Endings == {"killsInRename", "killsInInstall", "stops"}

Departs(way) ==
    /\ way \in Does
    /\ install.did \in {"nothing", way}
    /\ way \in Endings \/ restarts = 0
departed(way) == [install EXCEPT !.did = way]


\* Something that is done in the plain case, or else departs that way.
Unless(plain, way) == plain \/ Departs(way)
after(plain, way) == IF plain THEN install ELSE departed(way)

\* Between two requests.
Ready == call = NoCall /\ installer.at # "stopped" /\ ~restoring

_safe_rmtree == disk' = Wiped /\ work' = unlinked(work, Files)

-----------------------------------------------------------------------------
(* Requests.                                                               *)

\* _enqueue_remote_download, which may first clear what there is of some files.
enqueue(files, cleared, changed) ==
    LET m == Min(Unused)
    IN  /\ Unused # {}
        /\ submit_multifile_download(m, files)
        /\ disk' = [f \in Files |-> IF f \in cleared THEN Wiped[f] ELSE disk[f]]
        /\ work' = unlinked(work, cleared)
        /\ cache' = cache \cup {m}
        /\ install' = [changed EXCEPT !.multi = m]
        /\ marker' = "waiting"
        /\ UNCHANGED <<job, service, installer, models, restarts>>

import_model ==
    /\ install.status = "none" /\ Ready
    /\ enqueue(Files, {}, [NoInstall EXCEPT !.status = "waiting", !.did = install.did])
    /\ UNCHANGED <<call, restoring>>

Pauses(now) ==
    /\ install' = [now EXCEPT !.status = "paused"]
    /\ call' = [kind |-> "pausing"]
    /\ UNCHANGED <<downloadVars, cache, marker, installer, models, restoring, restarts>>

PauseBegins ==
    /\ Ready
    /\ \/ install.status = "downloading" /\ Pauses(install)
       \/ install.status = "waiting" /\ Departs("pausesWaiting") /\ Pauses(departed("pausesWaiting"))
       \/ /\ install.status \in {"downloads_done", "running"} /\ Departs("pausesDone")
          /\ Pauses(departed("pausesDone"))

pausedParts ==
    [p \in Parts |-> IF parent(p) = install.multi /\ file(p) \in multi[parent(p)].parts
                     THEN pause_job(job[p]) ELSE job[p]]

PauseEnds ==
    /\ call.kind = "pausing"
    /\ job' = pausedParts
    /\ marker' = "paused"
    /\ call' = NoCall
    /\ UNCHANGED <<multi, queue, work, disk, service, install, cache, installer, models, restoring, restarts>>

\* A request that goes on to fetch the list of the files.
Fetches(now, files, clears) ==
    /\ Unused # {}
    /\ install' = [now EXCEPT !.status = "waiting"]
    /\ call' = [kind |-> "fetching", files |-> files, clears |-> clears]
    /\ UNCHANGED <<downloadVars, cache, marker, installer, models, restoring, restarts>>

resume_job ==
    /\ Ready /\ install.status = "paused"
    /\ Unless(Quiet, "actsEarly")
    /\ Fetches(after(Quiet, "actsEarly"), Files, FALSE)

Restartable == {f \in Files : install.shown # 0 /\ f \in multi[install.shown].parts
                               /\ LET j == job[<<install.shown, f>>] IN j.resume_required \/ j.status = "error"}

\* The workers and the install thread have let go of what there was.
LetGo == Quiet /\ installer = [at |-> "idle", queued |-> 0]
early(way) == IF LetGo THEN way ELSE "actsEarly"

\* The client offers them for these jobs; the server does not look at the status.
restart_failed ==
    /\ Departs(early("restartsFailed"))
    /\ Ready /\ install.status \in {"paused", "error"} /\ Restartable # {}
    /\ Fetches(departed(early("restartsFailed")),
               {f \in multi[install.shown].parts : job[<<install.shown, f>>].status # "completed"}, TRUE)

restart_file ==
    /\ Departs(early("restartsFile"))
    /\ Ready /\ install.status \in {"paused", "error"}
    /\ \E f \in Restartable : Fetches(departed(early("restartsFile")), {f}, TRUE)

FetchFails ==
    /\ call.kind = "fetching"
    /\ install' = [install EXCEPT !.stuck = TRUE]
    /\ call' = NoCall
    /\ UNCHANGED <<downloadVars, cache, marker, installer, models, restoring, restarts>>

Fetched ==
    /\ call.kind = "fetching"
    /\ enqueue(call.files, IF call.clears THEN call.files ELSE {}, install)
    /\ call' = NoCall /\ UNCHANGED restoring

\* To be fetched from its first chunk, in at least two.
Fresh(f) == Size > 1 /\ disk[f] = Wiped[f]

\* w comes to look at the flags of its part or of the multi-file job before it goes on
\* with a file that was there.
WillLook(w) ==
    \/ work[w].at \in {"begin", "answer", "start"} /\ Fresh(file(P(w)))
    \/ work[w].at = "load" /\ work[w].next < Size
    \/ work[w].at = "load" /\ work[w].next = Size /\ job[P(w)].cancelled
    \/ work[w].at = "progress" /\ work[w].next <= Size
    \/ work[w].at \in {"raise", "parent", "error"}

\* So a cancellation is noticed, if there is something under way at all.
WillNotice ==
    install.multi # 0 =>
        \/ in_terminal_state(multi[install.multi])
        \/ \E p \in queue : parent(p) = install.multi /\ Fresh(file(p))
        \/ \E w \in Workers : parent(P(w)) = install.multi /\ WillLook(w)

CancelBegins ==
    /\ Ready /\ install.status # "none" /\ ~over
    /\ Unless(WillNotice, "cancelsLate")
    /\ install' = [after(WillNotice, "cancelsLate") EXCEPT !.status = "cancelled", !.asked = TRUE]
    /\ multi' = [m \in Multis |-> IF m = install.multi THEN cancel_job(multi[m]) ELSE multi[m]]
    /\ call' = [kind |-> "cancelling"]
    /\ UNCHANGED <<job, queue, work, disk, service, cache, marker, installer, models, restoring, restarts>>

CancelEnds ==
    /\ call.kind = "cancelling"
    /\ _safe_rmtree
    /\ marker' = "none"
    /\ call' = NoCall
    /\ UNCHANGED <<job, multi, queue, service, install, cache, installer, models, restoring, restarts>>

\* Of the download service: what was submitted is canceled, part by part.
cancel_all_jobs ==
    /\ Ready /\ ~Quiet
    /\ job' = cancelListed
    /\ install' = [install EXCEPT !.asked = TRUE]
    /\ UNCHANGED <<multi, queue, work, disk, service, cache, marker, installer, models, call, restoring, restarts>>

Requests ==
    \/ import_model \/ PauseBegins \/ PauseEnds \/ resume_job \/ restart_failed \/ restart_file
    \/ FetchFails \/ Fetched \/ CancelBegins \/ CancelEnds \/ cancel_all_jobs

-----------------------------------------------------------------------------
(* Callbacks of the multi-file job m.                                      *)

_download_started_callback(m) ==
    IF m \in cache
    THEN /\ install' = [install EXCEPT !.status = "downloading", !.shown = m]
         /\ marker' = "downloading"
         /\ UNCHANGED <<cache, installer, models, call, restoring, restarts>>
    ELSE UNCHANGED installVars

\* Mutated form.  The marker goes when the downloads are done, not when it installs them.
completesUnmarked(m) ==
    IF m \in cache
    THEN /\ cache' = cache \ {m}
         /\ install' = [install EXCEPT !.status = "downloads_done"]
         /\ marker' = "none"
         /\ installer' = [installer EXCEPT !.queued = @ + 1]
         /\ UNCHANGED <<models, call, restoring, restarts>>
    ELSE UNCHANGED installVars

_download_complete_callback(m) ==
    IF m \in cache
    THEN /\ cache' = cache \ {m}
         /\ install' = [install EXCEPT !.status = "downloads_done"]
         /\ marker' = "downloads_done"
         /\ installer' = [installer EXCEPT !.queued = @ + 1]
         /\ UNCHANGED <<models, call, restoring, restarts>>
    ELSE UNCHANGED installVars

_download_error_callback(m) ==
    IF m \in cache
    THEN /\ cache' = cache \ {m}
         /\ install' = [install EXCEPT !.status = "error"]
         /\ marker' = "none"
         /\ UNCHANGED <<installer, models, call, restoring, restarts>>
    ELSE UNCHANGED installVars

RefusedToResume(m) == \E f \in multi[m].parts : job[<<m, f>>].resume_required

\* Mutated form.  A pause is a cancellation.
cancelsPaused(m) == m \in cache /\ ~RefusedToResume(m) /\ install.status # "error"

\* Does it cancel the install, and remove its directory?
Cancels(m) == m \in cache /\ ~RefusedToResume(m) /\ install.status \notin {"error", "paused"}

_download_cancelled_callback(m) ==
    /\ cache' = cache \ {m}
    /\ install' = IF Cancels(m) THEN [install EXCEPT !.status = "cancelled"]
                  ELSE IF m \in cache /\ RefusedToResume(m) THEN [install EXCEPT !.status = "paused"]
                  ELSE install
    /\ marker' = IF Cancels(m) THEN "none"
                 ELSE IF m \in cache /\ RefusedToResume(m) THEN "paused"
                 ELSE marker
    /\ UNCHANGED <<installer, models, call, restoring, restarts>>

Worker(w) ==
    LET m == parent(P(w))
    IN  \/ Step(w) /\ UNCHANGED installVars
        \/ Start(w) /\ IF StartsMulti(w) THEN _download_started_callback(m) ELSE UNCHANGED installVars
        \/ Progress(w, m \in cache /\ install.status = "cancelled") /\ UNCHANGED installVars
        \/ Complete(w) /\ IF AllComplete(w) THEN _download_complete_callback(m) ELSE UNCHANGED installVars
        \/ /\ Parent(w, EndsMulti(w) /\ Cancels(m))
           /\ IF EndsMulti(w) THEN _download_cancelled_callback(m) ELSE UNCHANGED installVars
        \/ /\ Error(w, EndsMulti(w) /\ m \in cache)
           /\ IF EndsMulti(w) THEN _download_error_callback(m) ELSE UNCHANGED installVars

-----------------------------------------------------------------------------
(* The install thread.                                                     *)

\* _install_next_item: a job that is paused meanwhile is neither installed nor canceled.
InstallTakes ==
    /\ installer.at = "idle" /\ installer.queued > 0
    /\ IF install.status \in {"waiting", "downloads_done"}
       THEN /\ install' = [install EXCEPT !.status = "running"]
            /\ marker' = "running"
            /\ installer' = [at |-> "marked", queued |-> installer.queued - 1]
       ELSE /\ marker' = IF install.status \in {"cancelled", "error"} THEN "none" ELSE marker
            /\ installer' = [at |-> "finish", queued |-> installer.queued - 1]
            /\ UNCHANGED install
    /\ UNCHANGED <<downloadVars, cache, models, call, restoring, restarts>>

InstallUnmarks ==
    /\ installer.at = "marked"
    /\ marker' = "none"
    /\ installer' = [installer EXCEPT !.at = "moving"]
    /\ UNCHANGED <<downloadVars, install, cache, models, call, restoring, restarts>>

\* install_path: the files are moved into the models directory, and recorded.
InstallMoves ==
    /\ installer.at = "moving"
    /\ \E f \in Files : disk[f].done # <<>>
    /\ models' = Append(models, [f \in Files |-> disk[f].done])
    /\ disk' = [f \in Files |-> [disk[f] EXCEPT !.done = <<>>]]
    /\ install' = [install EXCEPT !.status = "completed"]
    /\ marker' = "none"
    /\ installer' = [installer EXCEPT !.at = "finish"]
    /\ UNCHANGED <<job, multi, queue, work, service, cache, call, restoring, restarts>>

InstallFails ==
    /\ installer.at \in {"marked", "moving"}
    /\ install' = [install EXCEPT !.status = "error"]
    /\ marker' = "none"
    /\ installer' = [installer EXCEPT !.at = "finish"]
    /\ UNCHANGED <<downloadVars, cache, models, call, restoring, restarts>>

\* Whatever became of it, the temporary directory is removed.
InstallFinishes ==
    /\ installer.at = "finish"
    /\ _safe_rmtree
    /\ marker' = "none"
    /\ installer' = [installer EXCEPT !.at = "idle"]
    /\ UNCHANGED <<job, multi, queue, service, install, cache, models, call, restoring, restarts>>

InstallThread == InstallTakes \/ InstallUnmarks \/ InstallMoves \/ InstallFails \/ InstallFinishes

-----------------------------------------------------------------------------
(* The process.                                                            *)

\* stop() of the install service: downloads are paused, a job without one is canceled.
InstallStops ==
    /\ Departs("stops")
    /\ call = NoCall /\ installer.at = "idle"
    /\ IF over \/ install.status = "none"
       THEN install' = departed("stops") /\ UNCHANGED <<job, disk, work, marker>>
       ELSE IF install.multi # 0
       THEN /\ job' = pausedParts /\ UNCHANGED <<disk, work>>
            /\ install' = [departed("stops") EXCEPT !.status = "paused"]
            /\ marker' = "paused"
       ELSE /\ _safe_rmtree /\ UNCHANGED job
            /\ install' = [departed("stops") EXCEPT !.status = "cancelled"]
            /\ marker' = "none"
    /\ cache' = {}
    /\ installer' = [at |-> "stopped", queued |-> 0]
    /\ UNCHANGED <<multi, queue, service, models, call, restoring, restarts>>

\* Then that of the download service.
Stops ==
    /\ installer.at = "stopped"
    /\ StopBegins \/ StopReturns
    /\ UNCHANGED installVars

NoneRenames == \A w \in Workers : work[w].at # "rename"

\* Neither a file nor the whole install is about to become what the marker does not tell.
NoneLose == NoneRenames /\ installer.at # "moving"
kills == IF NoneRenames THEN "killsInInstall" ELSE "killsInRename"

\* The process ends, at any time or after it stopped, and starts again: what has no
\* marker is removed, what has one goes on as the marker tells.
Restart ==
    /\ restarts < MaxRestarts /\ install.did \in Endings \cup {"nothing"}
    /\ Unless(NoneLose, kills)
    /\ restarts' = restarts + 1
    /\ job' = [p \in Parts |-> NewJob]
    /\ multi' = [m \in Multis |-> NewMulti]
    /\ queue' = {}
    /\ work' = [w \in Workers |-> AtTop]
    /\ service' = "up"
    /\ disk' = IF marker = "none" THEN Wiped ELSE disk
    /\ cache' = {}
    /\ call' = NoCall
    /\ install' = [NoInstall EXCEPT !.asked = install.asked,
                                     !.did = after(NoneLose, kills).did, !.status =
                      IF marker \in {"downloads_done", "running"} THEN "downloads_done"
                      ELSE IF marker = "downloading" THEN "waiting"
                      ELSE marker]
    /\ installer' = [at |-> "idle", queued |-> IF marker \in {"downloads_done", "running"} THEN 1 ELSE 0]
    /\ restoring' = (marker \in {"waiting", "downloading"})
    /\ UNCHANGED <<marker, models>>

\* _restore_incomplete_installs, on a thread of its own.
Restored ==
    /\ restoring
    /\ enqueue(Files, {}, [install EXCEPT !.status = "waiting"])
    /\ restoring' = FALSE /\ UNCHANGED call

RestoreFails ==
    /\ restoring
    /\ install' = [install EXCEPT !.status = "error"]
    /\ marker' = "none"
    /\ _safe_rmtree
    /\ restoring' = FALSE
    /\ UNCHANGED <<job, multi, queue, service, cache, installer, models, call, restarts>>

-----------------------------------------------------------------------------

Init ==
    /\ DownloadInit
    /\ install = NoInstall
    /\ cache = {}
    /\ marker = "none"
    /\ installer = [at |-> "idle", queued |-> 0]
    /\ models = <<>>
    /\ call = NoCall
    /\ restoring = FALSE
    /\ restarts = 0

Next ==
    \/ Requests
    \/ \E w \in Workers : Worker(w)
    \/ InstallThread
    \/ InstallStops \/ Stops
    \/ Restart \/ Restored \/ RestoreFails

\* Threads go on, the network answers or fails, and requests that began come to their end.
Fairness ==
    /\ \A w \in Workers : WF_vars(Worker(w))
    /\ WF_vars(InstallThread)
    /\ WF_vars(PauseEnds \/ FetchFails \/ Fetched \/ CancelEnds)
    /\ WF_vars(Restored \/ RestoreFails)
    /\ WF_vars(Stops)

Spec == Init /\ [][Next]_vars

FairSpec == Spec /\ Fairness

-----------------------------------------------------------------------------
(* Properties.                                                             *)

TypeOK ==
    /\ DownloadTypeOK
    /\ install.status \in {"none", "waiting", "downloading", "downloads_done", "running", "paused",
                           "completed", "error", "cancelled"}
    /\ install.multi \in Multis \cup {0} /\ install.shown \in Multis \cup {0}
    /\ cache \subseteq Multis
    /\ install.did # "actsEarly" => \A w \in Workers : work[w].next <= Size + 1
    /\ installer.queued \in 0 .. Cardinality(Multis) + 1

\* What is registered as a model is all of it, however often its download was paused,
\* refused, resumed, cut off with the process, or canceled.  (After the other departures
\* it may not be.)
InstalledWhole ==
    install.did \in {"nothing", "pausesWaiting", "killsInInstall", "stops"}
        => \A n \in DOMAIN models : \A f \in Files : models[n][f] = Whole

Lost == (\E f \in Files : disk[f] # Wiped[f]) /\ disk' = Wiped

\* In the plain case no step, a restart of the process included, removes what was
\* downloaded, unless the install is completed, failed or was canceled.  (A process that
\* ends between the removal of the marker and the end of the install departs from that
\* case, and does lose it.)
DownloadsKept ==
    [][Lost /\ install'.did = "nothing"
            => install.asked \/ {install.status, install'.status} \cap {"completed", "error"} # {}]_vars

\* An install that waits for a download has one under way that will tell it how it
\* ended, unless the list of files could not be fetched to begin it.
WaitingIsServed ==
    install.status \in {"waiting", "downloading"} /\ service = "up"
        => \/ restoring \/ install.stuck \/ call.kind = "fetching"
           \/ \E m \in cache : underWay(m) # {} /\ (m = install.multi \/ install.did = "actsEarly")

\* An install that did not end has the marker that the next process needs to go on, up
\* to the moment when the thread removes it, before it moves the files.
CrashRecoverable ==
    install.status \in {"waiting", "downloading", "paused", "downloads_done", "running"}
        /\ ~install.asked
        /\ install.did \in {"nothing", "pausesWaiting", "killsInRename", "killsInInstall", "stops"}
        => marker # "none" \/ installer.at = "moving"

\* When all threads came to rest, an install that ended left nothing on the disk.  (A
\* pause that meets an error may leave its marker, and a download that is overtaken
\* by the next one that one's.)
NothingLeft ==
    over /\ install.did \notin {"actsEarly", "pausesDone"} /\ Quiet /\ call = NoCall /\ ~restoring /\ installer = [at |-> "idle", queued |-> 0]
        => disk = Wiped /\ marker \in {"none", "paused"}

InstallInv == OneAtATime /\ WaitingIsServed /\ CrashRecoverable /\ NothingLeft

\* stop() stops the threads and returns.
StopTerminates == service = "stopping" ~> service = "stopped"

=============================================================================
