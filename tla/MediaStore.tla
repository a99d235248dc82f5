----------------------------- MODULE MediaStore -----------------------------
(***************************************************************************)
(* The temporary media store (media.py): uploads that several threads      *)
(* write at once, the sweeps that drop what expired or does not fit, and    *)
(* the resolver that hands a file to ComfyUI for a job.  Every region under *)
(* the store's lock is one action; between two of them the other threads    *)
(* run.  An id may be drawn again once its item and its file are gone.      *)
(*                                                                         *)
(* An upload stands for the MediaItem it makes, which its writer and a      *)
(* resolver keep hold of after the store dropped it.  Files and fields are  *)
(* of one kind, and a byte stands for a chunk.                              *)
(***************************************************************************)
EXTENDS Naturals, FiniteSetsExt

CONSTANTS
  Uploads,   \* the POST /media requests, each with the item it makes
  NoUpload,  \* no item under an id, no file at a path
  MediaIds,  \* the ids _reserve draws from
  Jobs,      \* the submissions with a media field
  Limit,     \* max_upload_bytes
  Capacity,  \* max_store_bytes; no setting keeps it above Limit
  TTL,       \* ttl_seconds
  MaxTime    \* bound on the clock

ASSUME MediaAssumption ==
  /\ NoUpload \notin Uploads
  /\ Limit \in Nat /\ Capacity \in Nat /\ TTL \in Nat /\ MaxTime \in Nat

VARIABLES
  now,       \* the clock
  held,      \* _items: the item under each id
  disk,      \* whose bytes the file of each id holds
  leftover,  \* ids whose file could not be unlinked: another thread had it open
  upload,    \* each upload's thread and the fields of its item
  job,       \* each submission's thread and what it found
  copies,    \* the files ComfyUI stored; the last one's reference
  closed     \* close() ran

vars == <<now, held, disk, leftover, upload, job, copies, closed>>

UploadRecords ==
  [at : {"idle", "reserving", "reserved", "writing", "settling", "accepted",
         "abandoned", "refused"},
   id : MediaIds, written : Nat, bytes : Nat, created : Nat, resolved : Nat]

JobRecords ==
  [at : {"idle", "looking", "waiting", "sending", "bound", "media_expired",
         "media_kind_mismatch", "unreadable", "comfy_unavailable"},
   ref : Uploads, item : Uploads, asked : Nat, file : Uploads \cup {NoUpload},
   value : Nat]

Init ==
  /\ now = 0
  /\ held = [i \in MediaIds |-> NoUpload]
  /\ disk = [i \in MediaIds |-> NoUpload]
  /\ leftover = {}
  /\ \E i \in MediaIds :
       upload = [u \in Uploads |-> [at |-> "idle", id |-> i, written |-> 0,
                                    bytes |-> 0, created |-> 0, resolved |-> 0]]
  /\ \E u \in Uploads :
       job = [j \in Jobs |-> [at |-> "idle", ref |-> u, item |-> u, asked |-> 0,
                              file |-> NoUpload, value |-> 0]]
  /\ copies = 0
  /\ closed = FALSE

Held == {held[i] : i \in MediaIds} \ {NoUpload}
Writing == {"reserved", "writing", "settling", "abandoned"}

IsSettled(u) == upload[u].bytes > 0
IsOpen(i) == \E j \in Jobs : job[j].at = "sending" /\ job[j].file = disk[i]

-----------------------------------------------------------------------------
(***************************************************************************)
(* Housekeeping, always under the lock.                                    *)
(***************************************************************************)

\* Mutant of Discard: the file goes and the entry stays.
DiscardKeepingEntry(dropped) ==
  LET ids == {i \in MediaIds : held[i] \in dropped}
  IN  /\ disk' = [i \in MediaIds |-> IF i \in ids THEN NoUpload ELSE disk[i]]
      /\ UNCHANGED <<held, leftover>>

\* The entries go, and their files: but unlink fails, and is only logged, for
\* a file a resolver has open where the platform locks open files.
Discard(dropped) ==
  LET ids == {i \in MediaIds : held[i] \in dropped}
  IN  \E stuck \in SUBSET {i \in ids : IsOpen(i)} :
        /\ held' = [i \in MediaIds |-> IF i \in ids THEN NoUpload ELSE held[i]]
        /\ disk' = [i \in MediaIds |->
                      IF i \in ids \ stuck THEN NoUpload ELSE disk[i]]
        /\ leftover' = leftover \cup stuck

\* Mutant of Expired: a reservation still being written is taken too.
ExpiredAnyway ==
  {u \in Held : upload[u].created + TTL <= now}

Expired == {u \in Held : IsSettled(u) /\ upload[u].created + TTL <= now}

Reap == Discard(Expired)

\* bytes of the items in S, by the fields up
Total(S, up) == MapThenSumSet(LAMBDA u : up[u].bytes, S)

\* dropped are the oldest settled items, as few as make the rest fit.  Of two
\* created at once either may count as the older.
Evicts(dropped, up) ==
  LET settled == {u \in Held : up[u].bytes > 0}
  IN  /\ dropped \subseteq settled
      /\ \A u \in dropped, v \in settled \ dropped : up[u].created <= up[v].created
      /\ Total(Held \ dropped, up) <= Capacity
      /\ dropped # {} =>
           \E last \in dropped :
             /\ \A u \in dropped : up[u].created <= up[last].created
             /\ Total(Held \ (dropped \ {last}), up) > Capacity

-----------------------------------------------------------------------------
(***************************************************************************)
(* POST /media: MediaStore.store, step by step.                            *)
(***************************************************************************)

Goto(u, label) == upload' = [upload EXCEPT ![u].at = label]

\* The head of the body was identified; housekeeping comes before the id.
Arrive(u) ==
  /\ upload[u].at = "idle"
  /\ Reap
  /\ Goto(u, "reserving")
  /\ UNCHANGED <<now, job, copies, closed>>

Free == {i \in MediaIds : held[i] = NoUpload /\ disk[i] = NoUpload}

Reserve(u) ==
  /\ upload[u].at = "reserving"
  /\ \E i \in Free :
       /\ held' = [held EXCEPT ![i] = u]
       /\ upload' = [upload EXCEPT ![u].at = "reserved", ![u].id = i,
                                   ![u].created = now]
  /\ UNCHANGED <<now, disk, leftover, job, copies, closed>>

\* media_store_unavailable: every draw was taken.
ReserveFails(u) ==
  /\ upload[u].at = "reserving"
  /\ Free = {}
  /\ Goto(u, "refused")
  /\ UNCHANGED <<now, held, disk, leftover, job, copies, closed>>

OpenFile(u) ==
  /\ upload[u].at = "reserved"
  /\ disk' = [disk EXCEPT ![upload[u].id] = u]
  /\ Goto(u, "writing")
  /\ UNCHANGED <<now, held, leftover, job, copies, closed>>

WriteChunk(u) ==
  /\ upload[u].at = "writing"
  /\ upload[u].written < Limit
  /\ upload' = [upload EXCEPT ![u].written = @ + 1]
  /\ UNCHANGED <<now, held, disk, leftover, job, copies, closed>>

\* Mutant of Abandon: the partial file stays.
AbandonKeepingFile(u) ==
  /\ upload[u].at \in {"reserved", "writing"}
  /\ Goto(u, "abandoned")
  /\ UNCHANGED <<now, held, disk, leftover, job, copies, closed>>

\* The body was over the limit, or reading or writing it failed: the file goes
\* first, outside the lock ...
Abandon(u) ==
  /\ upload[u].at \in {"reserved", "writing"}
  /\ disk' = [disk EXCEPT ![upload[u].id] = NoUpload]
  /\ Goto(u, "abandoned")
  /\ UNCHANGED <<now, held, leftover, job, copies, closed>>

\* ... and then the reservation.
Forget(u) ==
  /\ upload[u].at = "abandoned"
  /\ held' = [held EXCEPT ![upload[u].id] = NoUpload]
  /\ Goto(u, "refused")
  /\ UNCHANGED <<now, disk, leftover, job, copies, closed>>

\* The whole body is written (its head was not empty), and the clock is read
\* before the lock is taken.
ReadClock(u) ==
  /\ upload[u].at = "writing"
  /\ upload[u].written > 0
  /\ upload' = [upload EXCEPT ![u].at = "settling", ![u].created = now]
  /\ UNCHANGED <<now, held, disk, leftover, job, copies, closed>>

\* The item gets its size and the store is cut down to its ceiling, in one
\* lock; the answer is 201.
Settle(u) ==
  /\ upload[u].at = "settling"
  /\ LET filledIn == [upload EXCEPT ![u].at = "accepted",
                                    ![u].bytes = upload[u].written]
     IN  /\ upload' = filledIn
         /\ \E dropped \in SUBSET Held : Evicts(dropped, filledIn) /\ Discard(dropped)
  /\ UNCHANGED <<now, job, copies, closed>>

-----------------------------------------------------------------------------
(***************************************************************************)
(* ComfyInputResolver.resolve, for a submission that names an upload.      *)
(***************************************************************************)

\* get() first reaps ...
Ask(j) ==
  /\ job[j].at = "idle"
  /\ \E u \in Uploads :
       /\ upload[u].at = "accepted"
       /\ job' = [job EXCEPT ![j].at = "looking", ![j].ref = u, ![j].asked = now]
  /\ Reap
  /\ UNCHANGED <<now, upload, copies, closed>>

\* ... and then looks the id up.  A reservation has no kind yet.
LookUp(j) ==
  LET u == held[upload[job[j].ref].id]
  IN  /\ job[j].at = "looking"
      /\ IF u = NoUpload
           THEN job' = [job EXCEPT ![j].at = "media_expired"]
         ELSE IF ~IsSettled(u)
           THEN job' = [job EXCEPT ![j].at = "media_kind_mismatch"]
         ELSE job' = [job EXCEPT ![j].at = "waiting", ![j].item = u]
      /\ UNCHANGED <<now, held, disk, leftover, upload, copies, closed>>

\* Mutant of Unlocked: nobody waits for the item's lock.
NeverLocked(u) == TRUE

\* The item's lock is held exactly while its file is handed over.
Unlocked(u) == ~ \E j \in Jobs : job[j].at = "sending" /\ job[j].item = u

\* The item was handed over before: the memo is the value.
UseMemo(j) ==
  LET u == job[j].item
  IN  /\ job[j].at = "waiting" /\ Unlocked(u) /\ upload[u].resolved # 0
      /\ job' = [job EXCEPT ![j].at = "bound", ![j].value = upload[u].resolved]
      /\ UNCHANGED <<now, held, disk, leftover, upload, copies, closed>>

\* upload_input opens the file.  It may be gone by now, which is an OSError,
\* hence a ComfyError, hence a 503 that says ComfyUI is not running.
HandOver(j) ==
  LET u == job[j].item
      file == disk[upload[u].id]
  IN  /\ job[j].at = "waiting" /\ Unlocked(u) /\ upload[u].resolved = 0
      /\ job' = [job EXCEPT ![j].at = IF file = NoUpload THEN "unreadable"
                                                         ELSE "sending",
                            ![j].file = file]
      /\ UNCHANGED <<now, held, disk, leftover, upload, copies, closed>>

\* ComfyUI keeps what it has and names the new file by itself.
ComfyStores(j) ==
  /\ job[j].at = "sending"
  /\ copies' = copies + 1
  /\ upload' = [upload EXCEPT ![job[j].item].resolved = copies']
  /\ job' = [job EXCEPT ![j].at = "bound", ![j].value = copies']
  /\ UNCHANGED <<now, held, disk, leftover, closed>>

\* ComfyUI refuses, cannot be reached, or its answer is lost.
ComfyFails(j) ==
  /\ job[j].at = "sending"
  /\ job' = [job EXCEPT ![j].at = "comfy_unavailable"]
  /\ UNCHANGED <<now, held, disk, leftover, upload, copies, closed>>

-----------------------------------------------------------------------------
Tick ==
  /\ now < MaxTime
  /\ now' = now + 1
  /\ UNCHANGED <<held, disk, leftover, upload, job, copies, closed>>

\* The gateway exits: its server has answered every request, and the store
\* removes the directory it made.
Close ==
  /\ \A u \in Uploads : upload[u].at \in {"idle", "accepted", "refused"}
  /\ \A j \in Jobs : job[j].at \notin {"looking", "waiting", "sending"}
  /\ held' = [i \in MediaIds |-> NoUpload]
  /\ disk' = [i \in MediaIds |-> NoUpload]
  /\ closed' = TRUE
  /\ UNCHANGED <<now, leftover, upload, job, copies>>

Store(u) ==
  \/ Arrive(u) \/ Reserve(u) \/ ReserveFails(u) \/ OpenFile(u) \/ WriteChunk(u)
  \/ Abandon(u) \/ Forget(u) \/ ReadClock(u) \/ Settle(u)

Resolve(j) ==
  \/ Ask(j) \/ LookUp(j) \/ UseMemo(j) \/ HandOver(j) \/ ComfyStores(j)
  \/ ComfyFails(j)

Next ==
  /\ ~closed
  /\ \/ \E u \in Uploads : Store(u)
     \/ \E j \in Jobs : Resolve(j)
     \/ Tick
     \/ Close

Spec == Init /\ [][Next]_vars

-----------------------------------------------------------------------------
\* Every variable has the type its comment says.
TypeOK ==
  /\ now \in Nat
  /\ held \in [MediaIds -> Uploads \cup {NoUpload}]
  /\ disk \in [MediaIds -> Uploads \cup {NoUpload}]
  /\ leftover \subseteq MediaIds
  /\ upload \in [Uploads -> UploadRecords]
  /\ job \in [Jobs -> JobRecords]
  /\ copies \in Nat
  /\ closed \in BOOLEAN

\* An item the store answers for has its own file on disk, whatever was reaped,
\* evicted, abandoned or drawn again since it was written.
HeldFilesExist ==
  \A i \in MediaIds :
    held[i] # NoUpload => (upload[held[i]].bytes > 0 => disk[i] = held[i])

\* No sweep takes the reservation of an upload still being written, so the
\* entry its writer fills in at the end is there and is its own (is_settled).
ReservationIsKept ==
  \A u \in Uploads : upload[u].at \in Writing => held[upload[u].id] = u

\* A file in the store's directory is one the store knows, except for those
\* whose unlink failed, and those go when the gateway exits.
EveryFileIsKnown ==
  \A i \in MediaIds :
    disk[i] # NoUpload => disk[i] = held[i] \/ (i \in leftover /\ ~closed)

\* A job that got the upload it names got one that had not expired when the
\* gateway was asked, although nothing runs on a timer and the sweep and the
\* look-up are two locks.
NotExpiredWhenAsked ==
  \A j \in Jobs :
    (job[j].at \in {"waiting", "sending", "bound"} /\ job[j].item = job[j].ref)
      => job[j].asked < upload[job[j].item].created + TTL

\* All jobs bound to one item got the same file of ComfyUI's: it is handed over
\* once, however many submissions ask for it at the same time.
HandedOverOnce ==
  \A j \in Jobs :
    job[j].at = "bound" => job[j].value = upload[job[j].item].resolved

-----------------------------------------------------------------------------
(***************************************************************************)
(* What makes the properties inductive.                                    *)
(***************************************************************************)

\* An item is under its own id, and only while it is written or accepted.
HeldUnderItsId ==
  \A i \in MediaIds :
    held[i] # NoUpload =>
      /\ upload[held[i]].id = i
      /\ upload[held[i]].at \in Writing \cup {"accepted"}

\* An item has bytes exactly when it is accepted: a sweep sees every one that
\* is and none that is still being written.
SettledAreAccepted ==
  \A u \in Uploads :
    /\ upload[u].bytes > 0 <=> upload[u].at = "accepted"
    /\ upload[u].at = "settling" => upload[u].written > 0

\* The file at a writer's path: its own, or none before it is opened and after
\* it is abandoned.
WritersFiles ==
  \A u \in Uploads :
    /\ upload[u].at \in {"writing", "settling"} => disk[upload[u].id] = u
    /\ upload[u].at \in {"reserved", "abandoned"} => disk[upload[u].id] = NoUpload

\* A job names an accepted upload, and what it got is one too; what it looks
\* for, if it is still held, was not expired when it asked.
JobsNameAccepted ==
  \A j \in Jobs :
    /\ job[j].at # "idle" => upload[job[j].ref].at = "accepted"
    /\ job[j].at \in {"waiting", "sending", "bound"} =>
         upload[job[j].item].at = "accepted"
    /\ (job[j].at = "looking" /\ held[upload[job[j].ref].id] = job[j].ref) =>
         job[j].asked < upload[job[j].ref].created + TTL

\* One job at a time hands an item over, and only while nobody has.
OneHandsOver ==
  /\ \A j \in Jobs :
       /\ job[j].at = "sending" => upload[job[j].item].resolved = 0
       /\ job[j].at = "bound" => upload[job[j].item].resolved # 0
  /\ \A j, k \in Jobs :
       (job[j].at = "sending" /\ job[k].at = "sending" /\ job[j].item = job[k].item)
         => j = k

IInv ==
  /\ TypeOK
  /\ HeldFilesExist /\ ReservationIsKept /\ EveryFileIsKnown
  /\ NotExpiredWhenAsked /\ HandedOverOnce
  /\ HeldUnderItsId /\ SettledAreAccepted /\ WritersFiles
  /\ JobsNameAccepted /\ OneHandsOver
=============================================================================
