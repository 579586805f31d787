---------------------------- MODULE DownloadQueue ----------------------------
(***************************************************************************)
(* The download service: worker threads that take jobs from a queue.  A    *)
(* job fetches a file, chunk by chunk, into a file that is renamed in the  *)
(* end; a multi-file job submits its parts one after the other.  Callbacks *)
(* of parts run under the service's lock, which stop() holds, too.         *)
(*                                                                         *)
(* Parts of different multi-file jobs that have the same file are written  *)
(* to the same place: the later job resumes the earlier one's work.  Of a  *)
(* file that two workers write at once only the order of chunks is kept.   *)
(***************************************************************************)
EXTENDS Integers, Sequences, FiniteSets, FiniteSetsExt

CONSTANTS
    Workers,      \* threads of the pool
    Multis,       \* bound: multi-file jobs
    Files,        \* files of the source, in the order of their names
    Size          \* chunks of a file

ASSUME DownloadAssumption ==
    /\ Multis \subseteq Nat \ {0} /\ IsFiniteSet(Multis)
    /\ Files \subseteq Nat \ {0} /\ IsFiniteSet(Files) /\ Files # {}
    /\ Size \in Nat \ {0}

VARIABLES
    job,        \* of each part: status, the flags, resume_required
    multi,      \* of each multi-file job: status, flags, download_parts, _mfd_pending, _mfd_active
    queue,      \* parts waiting to be taken
    work,       \* of each worker: where it is, with which part, its open file
    disk,       \* of each file: its ".downloading" file and the finished one
    service     \* "up", "stopping" (stop() holds the lock) or "stopped"

downloadVars == <<job, multi, queue, work, disk, service>>

Parts == Multis \X Files
parent(p) == p[1]
file(p) == p[2]

None == <<0, 0>>
in_terminal_state(j) == j.status \notin {"waiting", "running"}
Whole == [i \in 1 .. Size |-> i]

NewJob == [status |-> "waiting", cancelled |-> FALSE, paused |-> FALSE, resume_required |-> FALSE]
NewMulti == [status |-> "waiting", cancelled |-> FALSE, paused |-> FALSE,
             parts |-> {}, pending |-> {}, active |-> 0]
AtTop == [at |-> "top", part |-> None, next |-> 0, open |-> FALSE, buffer |-> 0]

DownloadInit ==
    /\ job = [p \in Parts |-> NewJob]
    /\ multi = [m \in Multis |-> NewMulti]
    /\ queue = {}
    /\ work = [w \in Workers |-> AtTop]
    /\ disk = [f \in Files |-> [partial |-> <<>>, done |-> <<>>]]
    /\ service = "up"

Unlocked == service # "stopping"

-----------------------------------------------------------------------------
(* Jobs and their flags.                                                   *)

cancel(j) == [j EXCEPT !.cancelled = TRUE, !.paused = FALSE]
pause(j) == [j EXCEPT !.cancelled = TRUE, !.paused = TRUE]

cancel_job(j) == IF in_terminal_state(j) THEN j ELSE cancel(j)
pause_job(j) == IF in_terminal_state(j) THEN j ELSE pause(j)

\* cancel_job on each part, submitted or not.
cancelParts(jobs, m) ==
    [p \in Parts |-> IF parent(p) = m /\ file(p) \in multi[m].parts THEN cancel_job(jobs[p]) ELSE jobs[p]]

\* What multi[m] becomes, and what is queued, when mf's next part is submitted.
\* submit_download_job raises when the service stops, after the part was taken
\* from the pending ones.
_submit_next_mfd_part(m, mf) ==
    IF mf.pending = {} \/ mf.active # 0
    THEN multi' = [multi EXCEPT ![m] = mf] /\ UNCHANGED queue
    ELSE LET f == Min(mf.pending)
         IN  /\ multi' = [multi EXCEPT ![m] = [mf EXCEPT !.pending = @ \ {f}, !.active = f]]
             /\ queue' = IF service = "up" THEN queue \cup {<<m, f>>} ELSE queue

\* multifile_download and submit_multifile_download.
submit_multifile_download(m, files) ==
    /\ service = "up"
    /\ multi[m].parts = {}
    /\ _submit_next_mfd_part(m, [NewMulti EXCEPT !.parts = files, !.pending = files])

-----------------------------------------------------------------------------
(* A worker, up to the first chunk.                                        *)

Goes(w, place) == work' = [work EXCEPT ![w].at = place]

\* Its part.
P(w) == work[w].part

GetJob(w) ==
    /\ work[w].at = "top" /\ service = "up"
    /\ \E p \in queue :
        /\ queue' = queue \ {p}
        /\ work' = [work EXCEPT ![w].at = "begin", ![w].part = p]
    /\ UNCHANGED <<job, multi, disk, service>>

\* The loop's test of the stop event.
Exit(w) ==
    /\ work[w].at = "top" /\ service # "up"
    /\ Goes(w, "exited")
    /\ UNCHANGED <<job, multi, queue, disk, service>>

\* _do_download asks for what is missing of the partial file.
Request(w) ==
    /\ work[w].at = "begin"
    /\ work' = IF job[P(w)].cancelled
               THEN [work EXCEPT ![w].at = "raise"]
               ELSE [work EXCEPT ![w].at = "answer", ![w].next = Len(disk[file(P(w))].partial) + 1]
    /\ UNCHANGED <<job, multi, queue, disk, service>>

\* No connection, an error of the server, a full disk.
RequestFails(w) ==
    /\ work[w].at = "answer"
    /\ Goes(w, "error")
    /\ UNCHANGED <<job, multi, queue, disk, service>>

\* The server sends the file from its first byte instead.
ResumeRefused(w) ==
    /\ work[w].at = "answer" /\ work[w].next > 1
    /\ job' = [job EXCEPT ![P(w)] = [pause(@) EXCEPT !.resume_required = TRUE]]
    /\ Goes(w, "raise")
    /\ UNCHANGED <<multi, queue, disk, service>>

\* The finished file is there, or the partial file is complete (status 416).
NothingToFetch(w) ==
    /\ work[w].at = "answer"
    /\ \/ work[w].next = 1 /\ disk[file(P(w))].done = Whole
       \/ work[w].next > Size
    /\ Goes(w, "startComplete")
    /\ UNCHANGED <<job, multi, queue, disk, service>>

\* A finished file of another size is deleted first.
Answered(w) ==
    /\ work[w].at = "answer" /\ work[w].next \in 1 .. Size
    /\ work[w].next = 1 => disk[file(P(w))].done # Whole
    /\ disk' = IF work[w].next = 1 THEN [disk EXCEPT ![file(P(w))].done = <<>>] ELSE disk
    /\ Goes(w, "start")
    /\ UNCHANGED <<job, multi, queue, service>>

\* _signal_job_started and, if it is the first part's, the multi-file job's on_start.
StartsMulti(w) == multi[parent(P(w))].status = "waiting"

Start(w) ==
    /\ work[w].at \in {"start", "startComplete"} /\ Unlocked
    /\ job' = [job EXCEPT ![P(w)].status = "running"]
    /\ multi' = [multi EXCEPT ![parent(P(w))].status = IF @ = "waiting" THEN "running" ELSE @]
    /\ IF work[w].at = "startComplete"
       THEN Goes(w, "complete") /\ UNCHANGED disk
       ELSE /\ work' = [work EXCEPT ![w].at = "load", ![w].open = TRUE]
            /\ disk' = IF work[w].next = 1 THEN [disk EXCEPT ![file(P(w))].partial = <<>>] ELSE disk
    /\ UNCHANGED <<queue, service>>

-----------------------------------------------------------------------------
(* The chunks: one stands for what comes between two reports of progress.  *)
(* What was written last may still be in the buffer of the file; a file    *)
(* that was unlinked takes what is written with it.                        *)

flushed(w) ==
    IF work[w].open /\ work[w].buffer # 0
    THEN [disk EXCEPT ![file(P(w))].partial = Append(@, work[w].buffer)]
    ELSE disk

\* Mutated form.  A partial file is cut off when its download stops.
leavesWithout(w, place) ==
    /\ disk' = disk
    /\ work' = [work EXCEPT ![w].at = place, ![w].buffer = 0]

\* The file is closed on the way out of the loop.
Leaves(w, place) ==
    /\ disk' = flushed(w)
    /\ work' = [work EXCEPT ![w].at = place, ![w].buffer = 0]

\* Mutated form.  The loop goes on for one chunk too many.
receivesBeyond(w) ==
    /\ work[w].at = "load" /\ work[w].next <= Size + 1
    /\ disk' = flushed(w)
    /\ work' = [work EXCEPT ![w].at = "progress", ![w].next = @ + 1, ![w].buffer = work[w].next]
    /\ UNCHANGED <<job, multi, queue, service>>

Receive(w) ==
    /\ work[w].at = "load" /\ work[w].next <= Size
    /\ IF job[P(w)].cancelled
       THEN Leaves(w, "raise")
       ELSE /\ disk' = flushed(w)
            /\ work' = [work EXCEPT ![w].at = "progress", ![w].next = @ + 1, ![w].buffer = work[w].next]
    /\ UNCHANGED <<job, multi, queue, service>>

\* _mfd_progress; stops is whether the multi-file job's on_progress cancels it.
Progress(w, stops) ==
    LET m == parent(P(w))
    IN  /\ work[w].at = "progress" /\ Unlocked
        /\ job' = IF multi[m].cancelled THEN cancelParts(job, m) ELSE job
        /\ multi' = IF ~multi[m].cancelled /\ multi[m].status = "running" /\ stops
                    THEN [multi EXCEPT ![m] = cancel_job(@)] ELSE multi
        /\ Goes(w, "load")
        /\ UNCHANGED <<queue, disk, service>>

\* The connection ends early: with an error, or unnoticed but for the size.
Breaks(w) ==
    /\ work[w].at = "load" /\ work[w].next <= Size
    /\ \/ Leaves(w, "error") /\ UNCHANGED job
       \/ /\ Leaves(w, "raise")
          /\ job' = [job EXCEPT ![P(w)] = [pause(@) EXCEPT !.resume_required = TRUE]]
    /\ UNCHANGED <<multi, queue, service>>

Received(w) ==
    /\ work[w].at = "load" /\ work[w].next > Size
    /\ Leaves(w, "rename")
    /\ UNCHANGED <<job, multi, queue, service>>

Rename(w) ==
    LET f == file(P(w))
    IN  /\ work[w].at = "rename"
        /\ IF disk[f].partial # <<>>
           THEN /\ disk' = [disk EXCEPT ![f] = [partial |-> <<>>, done |-> disk[f].partial]]
                /\ Goes(w, "complete")
           ELSE Goes(w, "error") /\ UNCHANGED disk
        /\ UNCHANGED <<job, multi, queue, service>>

-----------------------------------------------------------------------------
(* The ends of a job.                                                      *)

AllComplete(w) ==
    LET m == parent(P(w))
    IN  \A f \in multi[m].parts : f = file(P(w)) \/ job[<<m, f>>].status = "completed"

\* _signal_job_complete and _mfd_complete: if that was the last part, with the
\* multi-file job's on_complete.
Complete(w) ==
    LET m == parent(P(w))
    IN  /\ work[w].at = "complete" /\ Unlocked
        /\ job' = [job EXCEPT ![P(w)].status = "completed"]
        /\ multi' = [multi EXCEPT ![m].active = 0, ![m].status = IF AllComplete(w) THEN "completed" ELSE @]
        /\ Goes(w, IF ~AllComplete(w) /\ ~in_terminal_state(multi[m]) /\ ~multi[m].paused
                   THEN "submit" ELSE "finally")
        /\ UNCHANGED <<queue, disk, service>>

\* The rest of _mfd_complete, after it released the lock.
SubmitNext(w) ==
    /\ work[w].at = "submit"
    /\ _submit_next_mfd_part(parent(P(w)), multi[parent(P(w))])
    /\ Goes(w, "finally")
    /\ UNCHANGED <<job, disk, service>>

\* _signal_job_paused or _signal_job_cancelled, up to the multi-file job: _mfd_cancelled.
Raise(w) ==
    LET m == parent(P(w))
        asked == IF job[P(w)].paused THEN pause(multi[m]) ELSE cancel(multi[m])
        mf == IF in_terminal_state(multi[m]) THEN multi[m] ELSE asked
        ended == [job EXCEPT ![P(w)].status = IF job[P(w)].paused THEN "paused" ELSE "cancelled"]
    IN  /\ work[w].at = "raise" /\ Unlocked
        /\ IF job[P(w)].paused
           THEN job' = ended /\ multi' = [multi EXCEPT ![m] = [mf EXCEPT !.active = 0]]
           ELSE /\ job' = cancelParts(ended, m)
                /\ multi' = [multi EXCEPT ![m] = [mf EXCEPT !.active = 0, !.pending = {}]]
        /\ Goes(w, "parent")
        /\ UNCHANGED <<queue, disk, service>>

\* Files of a directory that was removed, and what workers have open of them.
unlinked(ws, files) == [v \in Workers |-> [ws[v] EXCEPT !.open = @ /\ file(ws[v].part) \notin files]]
Wiped == [f \in Files |-> [partial |-> <<>>, done |-> <<>>]]

EndsMulti(w) == ~in_terminal_state(multi[parent(P(w))])

\* Their other half, outside of the lock: the multi-file job's status and its
\* on_cancelled, which may remove the directory (wipes), and _cleanup_cancelled_job.
Parent(w, wipes) ==
    LET m == parent(P(w))
        moved == [work EXCEPT ![w].at = "finally"]
        cleaned == IF ~job[P(w)].paused /\ work[w].next # 0 THEN {file(P(w))} ELSE {}
    IN  /\ work[w].at = "parent"
        /\ multi' = IF EndsMulti(w) THEN [multi EXCEPT ![m].status = job[P(w)].status] ELSE multi
        /\ disk' = IF wipes THEN Wiped
                   ELSE [f \in Files |-> IF f \in cleaned THEN [disk[f] EXCEPT !.partial = <<>>] ELSE disk[f]]
        /\ work' = unlinked(moved, IF wipes THEN Files ELSE cleaned)
        /\ UNCHANGED <<job, queue, service>>

\* _signal_job_error, _mfd_error and the multi-file job's on_error.
Error(w, wipes) ==
    LET m == parent(P(w))
        mf == [multi[m] EXCEPT !.active = 0]
        moved == [work EXCEPT ![w].at = "finally"]
    IN  /\ work[w].at = "error" /\ Unlocked
        /\ job' = [p \in Parts |-> IF p = P(w) THEN [job[p] EXCEPT !.status = "error"]
                                   ELSE IF EndsMulti(w) /\ parent(p) = m /\ job[p].status = "running"
                                        THEN cancel(job[p]) ELSE job[p]]
        /\ multi' = [multi EXCEPT ![m] = IF EndsMulti(w)
                                         THEN [mf EXCEPT !.status = "error", !.pending = {}] ELSE mf]
        /\ disk' = IF wipes THEN Wiped ELSE disk
        /\ work' = IF wipes THEN unlinked(moved, Files) ELSE moved
        /\ UNCHANGED <<queue, service>>

Finally(w) ==
    /\ work[w].at = "finally"
    /\ work' = [work EXCEPT ![w] = AtTop]
    /\ UNCHANGED <<job, multi, queue, disk, service>>

-----------------------------------------------------------------------------
(* What others do.                                                         *)

\* The jobs that were submitted and are not over.
Listed == (queue \cup {P(w) : w \in Workers}) \ {None}

cancelListed == [p \in Parts |-> IF p \in Listed THEN cancel_job(job[p]) ELSE job[p]]

\* stop(), up to its wait for the threads.
StopBegins ==
    /\ service = "up"
    /\ service' = "stopping"
    /\ queue' = {}
    /\ job' = cancelListed
    /\ UNCHANGED <<multi, work, disk>>

StopReturns ==
    /\ service = "stopping"
    /\ \A w \in Workers : work[w].at = "exited"
    /\ service' = "stopped"
    /\ UNCHANGED <<job, multi, queue, work, disk>>

\* The steps of a worker that call nobody back.
Step(w) ==
    \/ GetJob(w) \/ Exit(w) \/ Request(w) \/ RequestFails(w) \/ ResumeRefused(w) \/ NothingToFetch(w)
    \/ Answered(w) \/ Receive(w) \/ Breaks(w) \/ Received(w) \/ Rename(w) \/ SubmitNext(w)
    \/ Raise(w) \/ Finally(w)

-----------------------------------------------------------------------------
(* Properties.                                                             *)

DownloadTypeOK ==
    /\ \A p \in Parts : job[p].status \in {"waiting", "running", "paused", "completed", "cancelled", "error"}
    /\ \A m \in Multis :
        /\ multi[m].pending \subseteq multi[m].parts /\ multi[m].parts \subseteq Files
        /\ multi[m].active \in Files \cup {0}
    /\ queue \subseteq Parts
    /\ \A w \in Workers : P(w) \in Parts \cup {None} /\ work[w].next \in Nat

\* The files of a multi-file job that wait for a worker, or are with one that is not
\* done with their ends.
underWay(m) == {f \in multi[m].parts :
                    \/ <<m, f>> \in queue
                    \/ \E w \in Workers : P(w) = <<m, f>> /\ work[w].at # "finally"}

\* The parts of a multi-file job are fetched one at a time, however the ends of one
\* and the submission of the next fall among pauses, cancellations and errors: what
\* _mfd_cancelled and _mfd_error do to the others relies on it.
OneAtATime ==
    \A m \in Multis : /\ Cardinality(underWay(m)) <= 1
                      /\ \A f \in underWay(m) : multi[m].active \in {f, 0}

=============================================================================
