---------------------------- MODULE Inputs_proofs ----------------------------
(***************************************************************************)
(* Theorems about what a submission is made of: MediaStore, for any number *)
(* of uploads, ids and jobs, any limits and any time to live, and          *)
(* Submission, for any definition files, documents, edits and clients.     *)
(***************************************************************************)
EXTENDS MediaStore, Submission, SequenceTheorems, WellFoundedInduction, TLAPS

-----------------------------------------------------------------------------
(* The media store                                                         *)

\* What a sweep of the items in dropped does to each id: the entry goes with
\* its file, or its file is left over, and every other id is left alone.
LEMMA DiscardFacts ==
  ASSUME TypeOK, NEW dropped \in SUBSET Held, Discard(dropped)
  PROVE  /\ held' \in [MediaIds -> Uploads \cup {NoUpload}]
         /\ disk' \in [MediaIds -> Uploads \cup {NoUpload}]
         /\ leftover \subseteq leftover' /\ leftover' \subseteq MediaIds
         /\ \A i \in MediaIds :
              \/ held[i] \notin dropped /\ held'[i] = held[i] /\ disk'[i] = disk[i]
              \/ /\ held[i] \in dropped /\ held'[i] = NoUpload
                 /\ disk'[i] = NoUpload \/ i \in leftover'
<1> DEFINE ids == {i \in MediaIds : held[i] \in dropped}
<1>1. PICK stuck \in SUBSET {i \in ids : IsOpen(i)} :
        /\ held' = [i \in MediaIds |-> IF i \in ids THEN NoUpload ELSE held[i]]
        /\ disk' = [i \in MediaIds |->
                      IF i \in ids \ stuck THEN NoUpload ELSE disk[i]]
        /\ leftover' = leftover \cup stuck
  BY DEF Discard
<1>2. \A i \in MediaIds :
        \/ held[i] \notin dropped /\ held'[i] = held[i] /\ disk'[i] = disk[i]
        \/ /\ held[i] \in dropped /\ held'[i] = NoUpload
           /\ disk'[i] = NoUpload \/ i \in leftover'
  BY <1>1 DEF TypeOK
<1> QED
  BY <1>1, <1>2 DEF TypeOK

LEMMA InitIInv == Init => IInv
<1> SUFFICES ASSUME Init PROVE IInv
  OBVIOUS
<1>1. PICK i \in MediaIds :
        upload = [u \in Uploads |-> [at |-> "idle", id |-> i, written |-> 0,
                                     bytes |-> 0, created |-> 0, resolved |-> 0]]
  BY DEF Init
<1>2. PICK r \in Uploads :
        job = [j \in Jobs |-> [at |-> "idle", ref |-> r, item |-> r, asked |-> 0,
                               file |-> NoUpload, value |-> 0]]
  BY DEF Init
<1>3. upload \in [Uploads -> UploadRecords] /\ job \in [Jobs -> JobRecords]
  BY <1>1, <1>2 DEF UploadRecords, JobRecords
<1>4. TypeOK
  <2>1. /\ now = 0 /\ copies = 0 /\ closed = FALSE /\ leftover = {}
        /\ held = [k \in MediaIds |-> NoUpload]
        /\ disk = [k \in MediaIds |-> NoUpload]
    BY DEF Init
  <2> QED
    BY <1>3, <2>1 DEF TypeOK
<1>5. /\ HeldFilesExist /\ ReservationIsKept /\ EveryFileIsKnown
      /\ HeldUnderItsId /\ SettledAreAccepted /\ WritersFiles
  BY <1>1 DEF Init, HeldFilesExist, ReservationIsKept, EveryFileIsKnown, Writing,
              HeldUnderItsId, SettledAreAccepted, WritersFiles
<1>6. NotExpiredWhenAsked /\ HandedOverOnce /\ JobsNameAccepted /\ OneHandsOver
  BY <1>2 DEF NotExpiredWhenAsked, HandedOverOnce, JobsNameAccepted, OneHandsOver
<1> QED
  BY <1>4, <1>5, <1>6 DEF IInv

\* What the jobs know stays true while accepted uploads keep their fields and
\* none of them comes back under its id.
LEMMA JobsUndisturbed ==
  ASSUME IInv, UNCHANGED job,
         \A v \in Uploads :
           upload[v].at = "accepted" =>
             /\ upload'[v] = upload[v]
             /\ held'[upload[v].id] = v => held[upload[v].id] = v
  PROVE  (NotExpiredWhenAsked /\ HandedOverOnce /\ JobsNameAccepted /\ OneHandsOver)'
<1>1. \A j \in Jobs : job[j].ref \in Uploads /\ job[j].item \in Uploads
  BY DEF IInv, TypeOK, JobRecords
<1>2. NotExpiredWhenAsked' /\ HandedOverOnce'
  BY <1>1 DEF IInv, NotExpiredWhenAsked, HandedOverOnce, JobsNameAccepted
<1>3. JobsNameAccepted'
  BY <1>1 DEF IInv, JobsNameAccepted
<1>4. OneHandsOver'
  BY <1>1 DEF IInv, OneHandsOver, JobsNameAccepted
<1> QED
  BY <1>2, <1>3, <1>4

LEMMA NextIInv == IInv /\ Next => IInv'
<1> SUFFICES ASSUME IInv, Next PROVE IInv'
  OBVIOUS
<1> USE MediaAssumption
<1> DEFINE StoreInv == /\ HeldFilesExist /\ ReservationIsKept /\ EveryFileIsKnown
                       /\ HeldUnderItsId /\ SettledAreAccepted /\ WritersFiles
           JobInv == /\ NotExpiredWhenAsked /\ HandedOverOnce
                     /\ JobsNameAccepted /\ OneHandsOver
<1>a. TypeOK
  BY DEF IInv
<1>c. ~closed
  BY DEF Next
<1>b. (TypeOK /\ StoreInv /\ JobInv)' => IInv'
  BY DEF IInv
<1>1. ASSUME NEW u \in Uploads, Arrive(u) PROVE IInv'
  <2>1. /\ Expired \in SUBSET Held
        /\ Discard(Expired)
        /\ \A v \in Expired : upload[v].bytes > 0
        /\ upload[u].at = "idle"
        /\ upload' = [upload EXCEPT ![u].at = "reserving"]
        /\ UNCHANGED <<now, job, copies, closed>>
    BY <1>1 DEF Arrive, Reap, Expired, IsSettled, Goto
  <2>2. /\ held' \in [MediaIds -> Uploads \cup {NoUpload}]
        /\ disk' \in [MediaIds -> Uploads \cup {NoUpload}]
        /\ leftover \subseteq leftover' /\ leftover' \subseteq MediaIds
        /\ \A i \in MediaIds :
             \/ held'[i] = held[i] /\ disk'[i] = disk[i]
             \/ /\ upload[held[i]].bytes > 0 /\ held'[i] = NoUpload
                /\ disk'[i] = NoUpload \/ i \in leftover'
    BY <1>a, <2>1, DiscardFacts
  <2>3. TypeOK'
    <3> DEFINE r == [upload[u] EXCEPT !.at = "reserving"]
    <3>1. r \in UploadRecords
      BY <1>a, <2>1, <2>2 DEF TypeOK, UploadRecords, JobRecords
    <3>2. upload' = [upload EXCEPT ![u] = r]
      BY <1>a, <2>1, <2>2 DEF TypeOK, UploadRecords, JobRecords
    <3> QED
      BY <1>a, <2>1, <2>2, <3>1, <3>2 DEF TypeOK, UploadRecords, JobRecords
  <2>4. StoreInv'
    BY <1>a, <1>c, <2>1, <2>2 DEF IInv, TypeOK, UploadRecords, HeldFilesExist,
       ReservationIsKept, EveryFileIsKnown, HeldUnderItsId, SettledAreAccepted,
       WritersFiles, Writing
  <2>5. \A v \in Uploads :
          upload[v].at = "accepted" =>
            /\ upload'[v] = upload[v]
            /\ held'[upload[v].id] = v => held[upload[v].id] = v
    BY <1>a, <1>c, <2>1, <2>2 DEF TypeOK, UploadRecords
  <2>6. JobInv'
    BY <2>5, <1>c, <2>1, <2>2, JobsUndisturbed
  <2> QED BY <1>b, <2>3, <2>4, <2>6
<1>2. ASSUME NEW u \in Uploads, Reserve(u) PROVE IInv'
  <2>1. PICK i \in Free :
          /\ held' = [held EXCEPT ![i] = u]
          /\ upload' = [upload EXCEPT ![u].at = "reserved", ![u].id = i,
                                      ![u].created = now]
    BY <1>2 DEF Reserve
  <2>2. /\ upload[u].at = "reserving" /\ held[i] = NoUpload /\ disk[i] = NoUpload
        /\ i \in MediaIds
        /\ UNCHANGED <<now, disk, leftover, job, copies, closed>>
    BY <1>2, <2>1 DEF Reserve, Free
  <2>3. TypeOK'
    <3> DEFINE r == [upload[u] EXCEPT !.at = "reserved", !.id = i, !.created = now]
    <3>1. r \in UploadRecords
      BY <1>a, <2>1, <2>2, ZenonT(40) DEF TypeOK, UploadRecords, JobRecords
    <3>2. upload' = [upload EXCEPT ![u] = r]
      BY <1>a, <2>1, <2>2 DEF TypeOK, UploadRecords, JobRecords
    <3> QED
      BY <1>a, <2>1, <2>2, <3>1, <3>2 DEF TypeOK, UploadRecords, JobRecords
  <2>4. StoreInv'
    BY <1>a, <2>1, <2>2 DEF IInv, TypeOK, UploadRecords, HeldFilesExist,
       ReservationIsKept, EveryFileIsKnown, HeldUnderItsId, SettledAreAccepted,
       WritersFiles, Writing
  <2>5. \A v \in Uploads :
          upload[v].at = "accepted" =>
            /\ upload'[v] = upload[v]
            /\ held'[upload[v].id] = v => held[upload[v].id] = v
    BY <1>a, <2>1, <2>2 DEF TypeOK, UploadRecords
  <2>6. JobInv'
    BY <2>5, <2>1, <2>2, JobsUndisturbed
  <2> QED BY <1>b, <2>3, <2>4, <2>6
<1>3. ASSUME NEW u \in Uploads, ReserveFails(u) PROVE IInv'
  <2>3. TypeOK'
    <3> DEFINE r == [upload[u] EXCEPT !.at = "refused"]
    <3>1. r \in UploadRecords
      BY <1>a DEF TypeOK, UploadRecords
    <3>2. upload' = [upload EXCEPT ![u] = r]
      BY <1>a, <1>3 DEF TypeOK, UploadRecords, ReserveFails, Goto
    <3> QED
      BY <1>a, <1>3, <3>1, <3>2 DEF TypeOK, UploadRecords, ReserveFails, Goto
  <2>4. StoreInv'
    BY <1>a, <1>3 DEF IInv, TypeOK, UploadRecords, HeldFilesExist,
       ReservationIsKept, EveryFileIsKnown, HeldUnderItsId, SettledAreAccepted,
       WritersFiles, Writing, ReserveFails, Goto
  <2>5. \A v \in Uploads :
          upload[v].at = "accepted" =>
            /\ upload'[v] = upload[v]
            /\ held'[upload[v].id] = v => held[upload[v].id] = v
    BY <1>a, <1>3 DEF TypeOK, UploadRecords, ReserveFails, Goto
  <2>6. JobInv'
    BY <2>5, <1>3, JobsUndisturbed DEF ReserveFails, Goto
  <2> QED BY <1>b, <2>3, <2>4, <2>6
<1>4. ASSUME NEW u \in Uploads, OpenFile(u) PROVE IInv'
  <2>3. TypeOK'
    <3> DEFINE r == [upload[u] EXCEPT !.at = "writing"]
    <3>1. r \in UploadRecords
      BY <1>a DEF TypeOK, UploadRecords
    <3>2. upload' = [upload EXCEPT ![u] = r]
      BY <1>a, <1>4 DEF TypeOK, UploadRecords, OpenFile, Goto
    <3> QED
      BY <1>a, <1>4, <3>1, <3>2 DEF TypeOK, UploadRecords, OpenFile, Goto
  <2>4. StoreInv'
    BY <1>a, <1>4 DEF IInv, TypeOK, UploadRecords, HeldFilesExist,
       ReservationIsKept, EveryFileIsKnown, HeldUnderItsId, SettledAreAccepted,
       WritersFiles, Writing, OpenFile, Goto
  <2>5. \A v \in Uploads :
          upload[v].at = "accepted" =>
            /\ upload'[v] = upload[v]
            /\ held'[upload[v].id] = v => held[upload[v].id] = v
    BY <1>a, <1>4 DEF TypeOK, UploadRecords, OpenFile, Goto
  <2>6. JobInv'
    BY <2>5, <1>4, JobsUndisturbed DEF OpenFile, Goto
  <2> QED BY <1>b, <2>3, <2>4, <2>6
<1>5. ASSUME NEW u \in Uploads, WriteChunk(u) PROVE IInv'
  <2>3. TypeOK'
    <3> DEFINE r == [upload[u] EXCEPT !.written = @ + 1]
    <3>1. r \in UploadRecords
      BY <1>a DEF TypeOK, UploadRecords
    <3>2. upload' = [upload EXCEPT ![u] = r]
      BY <1>a, <1>5 DEF TypeOK, UploadRecords, WriteChunk
    <3> QED
      BY <1>a, <1>5, <3>1, <3>2 DEF TypeOK, UploadRecords, WriteChunk
  <2>4. StoreInv'
    BY <1>a, <1>5 DEF IInv, TypeOK, UploadRecords, HeldFilesExist,
       ReservationIsKept, EveryFileIsKnown, HeldUnderItsId, SettledAreAccepted,
       WritersFiles, Writing, WriteChunk
  <2>5. \A v \in Uploads :
          upload[v].at = "accepted" =>
            /\ upload'[v] = upload[v]
            /\ held'[upload[v].id] = v => held[upload[v].id] = v
    BY <1>a, <1>5 DEF TypeOK, UploadRecords, WriteChunk
  <2>6. JobInv'
    BY <2>5, <1>5, JobsUndisturbed DEF WriteChunk
  <2> QED BY <1>b, <2>3, <2>4, <2>6
<1>6. ASSUME NEW u \in Uploads, Abandon(u) PROVE IInv'
  <2>3. TypeOK'
    <3> DEFINE r == [upload[u] EXCEPT !.at = "abandoned"]
    <3>1. r \in UploadRecords
      BY <1>a DEF TypeOK, UploadRecords
    <3>2. upload' = [upload EXCEPT ![u] = r]
      BY <1>a, <1>6 DEF TypeOK, UploadRecords, Abandon, Goto
    <3> QED
      BY <1>a, <1>6, <3>1, <3>2 DEF TypeOK, UploadRecords, Abandon, Goto
  <2>4. StoreInv'
    BY <1>a, <1>6 DEF IInv, TypeOK, UploadRecords, HeldFilesExist,
       ReservationIsKept, EveryFileIsKnown, HeldUnderItsId, SettledAreAccepted,
       WritersFiles, Writing, Abandon, Goto
  <2>5. \A v \in Uploads :
          upload[v].at = "accepted" =>
            /\ upload'[v] = upload[v]
            /\ held'[upload[v].id] = v => held[upload[v].id] = v
    BY <1>a, <1>6 DEF TypeOK, UploadRecords, Abandon, Goto
  <2>6. JobInv'
    BY <2>5, <1>6, JobsUndisturbed DEF Abandon, Goto
  <2> QED BY <1>b, <2>3, <2>4, <2>6
<1>7. ASSUME NEW u \in Uploads, Forget(u) PROVE IInv'
  <2>3. TypeOK'
    <3> DEFINE r == [upload[u] EXCEPT !.at = "refused"]
    <3>1. r \in UploadRecords
      BY <1>a DEF TypeOK, UploadRecords
    <3>2. upload' = [upload EXCEPT ![u] = r]
      BY <1>a, <1>7 DEF TypeOK, UploadRecords, Forget, Goto
    <3> QED
      BY <1>a, <1>7, <3>1, <3>2 DEF TypeOK, UploadRecords, Forget, Goto
  <2>4. StoreInv'
    BY <1>a, <1>7 DEF IInv, TypeOK, UploadRecords, HeldFilesExist,
       ReservationIsKept, EveryFileIsKnown, HeldUnderItsId, SettledAreAccepted,
       WritersFiles, Writing, Forget, Goto
  <2>5. \A v \in Uploads :
          upload[v].at = "accepted" =>
            /\ upload'[v] = upload[v]
            /\ held'[upload[v].id] = v => held[upload[v].id] = v
    BY <1>a, <1>7 DEF TypeOK, UploadRecords, Forget, Goto
  <2>6. JobInv'
    BY <2>5, <1>7, JobsUndisturbed DEF Forget, Goto
  <2> QED BY <1>b, <2>3, <2>4, <2>6
<1>8. ASSUME NEW u \in Uploads, ReadClock(u) PROVE IInv'
  <2>3. TypeOK'
    <3> DEFINE r == [upload[u] EXCEPT !.at = "settling", !.created = now]
    <3>1. r \in UploadRecords
      BY <1>a, ZenonT(40) DEF TypeOK, UploadRecords
    <3>2. upload' = [upload EXCEPT ![u] = r]
      BY <1>a, <1>8 DEF TypeOK, UploadRecords, ReadClock
    <3> QED
      BY <1>a, <1>8, <3>1, <3>2 DEF TypeOK, UploadRecords, ReadClock
  <2>4. StoreInv'
    BY <1>a, <1>8 DEF IInv, TypeOK, UploadRecords, HeldFilesExist,
       ReservationIsKept, EveryFileIsKnown, HeldUnderItsId, SettledAreAccepted,
       WritersFiles, Writing, ReadClock
  <2>5. \A v \in Uploads :
          upload[v].at = "accepted" =>
            /\ upload'[v] = upload[v]
            /\ held'[upload[v].id] = v => held[upload[v].id] = v
    BY <1>a, <1>8 DEF TypeOK, UploadRecords, ReadClock
  <2>6. JobInv'
    BY <2>5, <1>8, JobsUndisturbed DEF ReadClock
  <2> QED BY <1>b, <2>3, <2>4, <2>6
<1>9. ASSUME NEW u \in Uploads, Settle(u) PROVE IInv'
  <2> DEFINE filledIn == [upload EXCEPT ![u].at = "accepted",
                                        ![u].bytes = upload[u].written]
  <2>1. /\ upload[u].at = "settling" /\ upload' = filledIn
        /\ UNCHANGED <<now, job, copies, closed>>
    BY <1>9 DEF Settle
  <2>2. PICK dropped \in SUBSET Held : Evicts(dropped, filledIn) /\ Discard(dropped)
    BY <1>9 DEF Settle
  <2>6. \A v \in dropped : filledIn[v].bytes > 0
    BY <2>2 DEF Evicts
  <2>7. /\ held' \in [MediaIds -> Uploads \cup {NoUpload}]
        /\ disk' \in [MediaIds -> Uploads \cup {NoUpload}]
        /\ leftover \subseteq leftover' /\ leftover' \subseteq MediaIds
        /\ \A i \in MediaIds :
             \/ held'[i] = held[i] /\ disk'[i] = disk[i]
             \/ /\ filledIn[held[i]].bytes > 0 /\ held'[i] = NoUpload
                /\ disk'[i] = NoUpload \/ i \in leftover'
    BY <1>a, <2>2, <2>6, DiscardFacts
  <2>3. TypeOK'
    <3> DEFINE r == [upload[u] EXCEPT !.at = "accepted", !.bytes = upload[u].written]
    <3>1. upload[u] \in UploadRecords
      BY <1>a DEF TypeOK
    <3>2. upload[u].written \in Nat
      BY <3>1 DEF UploadRecords
    <3>3. r \in UploadRecords
      BY <3>1, <3>2 DEF UploadRecords
    <3>4. upload' = [upload EXCEPT ![u] = r]
      BY <1>a, <2>1 DEF TypeOK, UploadRecords
    <3> QED
      BY <1>a, <2>1, <2>7, <3>3, <3>4 DEF TypeOK
  <2>4. StoreInv'
    BY <1>a, <1>c, <2>1, <2>7 DEF IInv, TypeOK, UploadRecords, HeldFilesExist,
       ReservationIsKept, EveryFileIsKnown, HeldUnderItsId, SettledAreAccepted,
       WritersFiles, Writing
  <2>5. \A v \in Uploads :
          upload[v].at = "accepted" =>
            /\ upload'[v] = upload[v]
            /\ held'[upload[v].id] = v => held[upload[v].id] = v
    BY <1>a, <1>c, <2>1, <2>7 DEF TypeOK, UploadRecords
  <2>8. JobInv'
    BY <2>5, <1>c, <2>1, <2>7, JobsUndisturbed
  <2> QED BY <1>b, <2>3, <2>4, <2>8
<1>10. ASSUME NEW j \in Jobs, Ask(j) PROVE IInv'
  <2>1. /\ Expired \in SUBSET Held
        /\ Discard(Expired)
        /\ \A v \in Expired : upload[v].bytes > 0
        /\ job[j].at = "idle"
        /\ UNCHANGED <<now, upload, copies, closed>>
    BY <1>10 DEF Ask, Reap, Expired, IsSettled
  <2>2. PICK u \in Uploads :
          /\ upload[u].at = "accepted"
          /\ job' = [job EXCEPT ![j].at = "looking", ![j].ref = u, ![j].asked = now]
    BY <1>10 DEF Ask
  <2>7. /\ held' \in [MediaIds -> Uploads \cup {NoUpload}]
        /\ disk' \in [MediaIds -> Uploads \cup {NoUpload}]
        /\ leftover \subseteq leftover' /\ leftover' \subseteq MediaIds
        /\ \A i \in MediaIds :
             \/ held[i] \notin Expired /\ held'[i] = held[i] /\ disk'[i] = disk[i]
             \/ /\ upload[held[i]].bytes > 0 /\ held'[i] = NoUpload
                /\ disk'[i] = NoUpload \/ i \in leftover'
    BY <1>a, <2>1, DiscardFacts
  <2>3. TypeOK'
    <3> DEFINE r == [job[j] EXCEPT !.at = "looking", !.ref = u, !.asked = now]
    <3>1. r \in JobRecords
      BY <1>a, <2>1, <2>2, <2>7, ZenonT(40) DEF TypeOK, UploadRecords, JobRecords
    <3>2. job' = [job EXCEPT ![j] = r]
      BY <1>a, <2>1, <2>2, <2>7 DEF TypeOK, UploadRecords, JobRecords
    <3> QED
      BY <1>a, <2>1, <2>2, <2>7, <3>1, <3>2 DEF TypeOK, UploadRecords, JobRecords
  <2>4. StoreInv'
    BY <1>a, <1>c, <2>1, <2>2, <2>7 DEF IInv, TypeOK, UploadRecords, HeldFilesExist,
       ReservationIsKept, EveryFileIsKnown, HeldUnderItsId, SettledAreAccepted,
       WritersFiles, Writing
  <2>a. held'[upload[u].id] = u => now < upload[u].created + TTL
    <3>1. u \in Uploads /\ upload[u].id \in MediaIds /\ upload[u].created \in Nat
      BY <1>a DEF TypeOK, UploadRecords
    <3>2. ASSUME held'[upload[u].id] = u PROVE u \in Held /\ u \notin Expired
      BY <2>7, <3>1, <3>2 DEF Held
    <3>3. upload[u].bytes > 0
      BY <2>2 DEF IInv, SettledAreAccepted
    <3> QED
      BY <1>a, <3>1, <3>2, <3>3 DEF Expired, IsSettled, TypeOK

  <2>b. /\ \A k \in Jobs : k # j => job'[k] = job[k]
        /\ job'[j].at = "looking" /\ job'[j].ref = u /\ job'[j].asked = now
    BY <1>a, <2>2 DEF TypeOK, JobRecords
  <2>5. NotExpiredWhenAsked'
    BY <2>1, <2>b DEF IInv, NotExpiredWhenAsked
  <2>6. HandedOverOnce'
    BY <1>a, <1>c, <2>1, <2>2, <2>7, <2>a DEF IInv, HandedOverOnce, OneHandsOver, TypeOK, JobRecords
  <2>8. JobsNameAccepted'
    <3>1. ASSUME NEW k \in Jobs, k # j, job[k].at = "looking",
                 held'[upload[job[k].ref].id] = job[k].ref
          PROVE  job[k].asked < upload[job[k].ref].created + TTL
      <4>1. upload[job[k].ref].id \in MediaIds /\ job[k].ref # NoUpload
        BY <1>a DEF TypeOK, UploadRecords, JobRecords
      <4>2. held[upload[job[k].ref].id] = job[k].ref
        BY <2>7, <3>1, <4>1
      <4> QED
        BY <3>1, <4>2 DEF IInv, JobsNameAccepted
    <3>2. upload' = upload /\ upload[u].at = "accepted" /\ job[j].at = "idle"
      BY <2>1, <2>2
    <3>3. ASSUME NEW k \in Jobs
          PROVE  /\ job'[k].at # "idle" => upload[job'[k].ref].at = "accepted"
                 /\ job'[k].at \in {"waiting", "sending", "bound"} =>
                      upload[job'[k].item].at = "accepted"
                 /\ (job'[k].at = "looking"
                       /\ held'[upload[job'[k].ref].id] = job'[k].ref) =>
                      job'[k].asked < upload[job'[k].ref].created + TTL
      <4>1. CASE k = j
        BY <2>a, <2>b, <3>2, <4>1
      <4>2. CASE k # j
        BY <2>b, <3>1, <4>2 DEF IInv, JobsNameAccepted
      <4> QED
        BY <4>1, <4>2
    <3> QED
      BY <3>2, <3>3 DEF JobsNameAccepted
  <2>9. OneHandsOver'
    BY <1>a, <1>c, <2>1, <2>2, <2>7, <2>a DEF IInv, OneHandsOver, TypeOK, JobRecords
  <2> QED BY <1>b, <2>3, <2>4, <2>5, <2>6, <2>8, <2>9
<1>11. ASSUME NEW j \in Jobs, LookUp(j) PROVE IInv'
  <2> DEFINE u == held[upload[job[j].ref].id]
  <2>1. /\ job[j].at = "looking"
        /\ upload[job[j].ref].at = "accepted" /\ upload[job[j].ref].id \in MediaIds
        /\ UNCHANGED <<now, held, disk, leftover, upload, copies, closed>>
    BY <1>a, <1>11 DEF LookUp, IInv, JobsNameAccepted, TypeOK, UploadRecords, JobRecords
  <2>2. \/ job' = [job EXCEPT ![j].at = "media_expired"]
        \/ job' = [job EXCEPT ![j].at = "media_kind_mismatch"]
        \/ /\ u \in Uploads /\ upload[u].at = "accepted"
           /\ job' = [job EXCEPT ![j].at = "waiting", ![j].item = u]
    BY <1>a, <1>11, <2>1 DEF LookUp, IsSettled, IInv, SettledAreAccepted, TypeOK
  <2>3. TypeOK'
    BY <1>a, <2>1, <2>2 DEF TypeOK, JobRecords
  <2>7. /\ \A k \in Jobs : k # j => job'[k] = job[k]
        /\ job'[j].ref = job[j].ref /\ job'[j].asked = job[j].asked
        /\ \/ job'[j].at \in {"media_expired", "media_kind_mismatch"}
           \/ /\ u \in Uploads /\ upload[u].at = "accepted"
              /\ job'[j].at = "waiting" /\ job'[j].item = u
    BY <1>a, <2>2, SMTT(30) DEF TypeOK, JobRecords
  <2>4. StoreInv'
    BY <1>a, <2>1, <2>7 DEF IInv, TypeOK, UploadRecords, HeldFilesExist,
       ReservationIsKept, EveryFileIsKnown, HeldUnderItsId, SettledAreAccepted,
       WritersFiles, Writing
  <2>5. NotExpiredWhenAsked'
    <3>1. ASSUME job'[j].at = "waiting", u = job[j].ref
          PROVE  job[j].asked < upload[u].created + TTL
      BY <2>1, <3>1 DEF IInv, JobsNameAccepted
    <3> QED
      BY <2>1, <2>7, <3>1 DEF IInv, NotExpiredWhenAsked
  <2>6. HandedOverOnce'
    BY <1>a, <2>1, <2>7, SMTT(30) DEF IInv, HandedOverOnce, OneHandsOver, TypeOK, JobRecords
  <2>8. JobsNameAccepted'
    BY <1>a, <2>1, <2>7, SMTT(30) DEF IInv, JobsNameAccepted, TypeOK, JobRecords
  <2>9. OneHandsOver'
    <3>1. job'[j].at \notin {"sending", "bound"}
      BY <2>7
    <3>2. \A k \in Jobs : job'[k].at \in {"sending", "bound"} => job'[k] = job[k]
      BY <2>7, <3>1
    <3> QED
      BY <2>1, <3>2 DEF IInv, OneHandsOver
  <2> QED BY <1>b, <2>3, <2>4, <2>5, <2>6, <2>8, <2>9
<1>12. ASSUME NEW j \in Jobs, UseMemo(j) PROVE IInv'
  <2> DEFINE u == job[j].item
  <2>1. /\ job[j].at = "waiting" /\ upload[u].resolved # 0
        /\ u \in Uploads /\ upload[u].resolved \in Nat
        /\ job' = [job EXCEPT ![j].at = "bound", ![j].value = upload[u].resolved]
        /\ UNCHANGED <<now, held, disk, leftover, upload, copies, closed>>
    BY <1>a, <1>12 DEF UseMemo, TypeOK, JobRecords, UploadRecords
  <2>3. TypeOK'
    <3> DEFINE r == [job[j] EXCEPT !.at = "bound", !.value = upload[u].resolved]
    <3>1. job[j] \in JobRecords
      BY <1>a DEF TypeOK
    <3>2. r \in JobRecords
      BY <2>1, <3>1 DEF JobRecords
    <3>3. job' = [job EXCEPT ![j] = r]
      BY <1>a, <2>1 DEF TypeOK, JobRecords
    <3> QED
      BY <1>a, <2>1, <3>2, <3>3 DEF TypeOK
  <2>4. StoreInv'
    BY <1>a, <2>1 DEF IInv, TypeOK, UploadRecords, HeldFilesExist,
       ReservationIsKept, EveryFileIsKnown, HeldUnderItsId, SettledAreAccepted,
       WritersFiles, Writing
  <2>7. /\ \A k \in Jobs : k # j => job'[k] = job[k]
        /\ job'[j].ref = job[j].ref /\ job'[j].asked = job[j].asked
        /\ job'[j].item = u
    BY <1>a, <2>1 DEF TypeOK, JobRecords
  <2>8. job[j].at = "waiting" /\ upload' = upload
    BY <2>1
  <2>5. NotExpiredWhenAsked'
    BY <2>7, <2>8 DEF IInv, NotExpiredWhenAsked
  <2>6. HandedOverOnce'
    BY <1>a, <2>1 DEF IInv, HandedOverOnce, OneHandsOver, TypeOK, JobRecords
  <2>b. JobsNameAccepted'
    BY <1>a, <2>1 DEF IInv, JobsNameAccepted, TypeOK, JobRecords
  <2>9. OneHandsOver'
    BY <1>a, <2>1 DEF IInv, OneHandsOver, TypeOK, JobRecords
  <2> QED BY <1>b, <2>3, <2>4, <2>5, <2>6, <2>b, <2>9
<1>13. ASSUME NEW j \in Jobs, HandOver(j) PROVE IInv'
  <2> DEFINE u == job[j].item
             file == disk[upload[u].id]
  <2>1. /\ job[j].at = "waiting" /\ upload[u].resolved = 0
        /\ \A k \in Jobs : job[k].at = "sending" => job[k].item # u
        /\ u \in Uploads /\ file \in Uploads \cup {NoUpload}
        /\ \/ job' = [job EXCEPT ![j].at = "unreadable", ![j].file = file]
           \/ job' = [job EXCEPT ![j].at = "sending", ![j].file = file]
        /\ UNCHANGED <<now, held, disk, leftover, upload, copies, closed>>
    BY <1>a, <1>13 DEF HandOver, Unlocked, TypeOK, JobRecords, UploadRecords
  <2>0. /\ job[j].at = "waiting" /\ upload[u].resolved = 0
        /\ \A k \in Jobs : job[k].at = "sending" => job[k].item # u
        /\ UNCHANGED <<now, held, disk, leftover, upload, copies, closed>>
    BY <2>1
  <2>3. TypeOK'
    BY <1>a, <2>1 DEF TypeOK, JobRecords
  <2>7. /\ \A k \in Jobs : k # j => job'[k] = job[k]
        /\ job'[j].at \in {"unreadable", "sending"}
        /\ job'[j].ref = job[j].ref /\ job'[j].asked = job[j].asked
        /\ job'[j].item = u
    BY <1>a, <2>1 DEF TypeOK, JobRecords
  <2>4. StoreInv'
    BY <1>a, <2>0, <2>7 DEF IInv, TypeOK, UploadRecords, HeldFilesExist,
       ReservationIsKept, EveryFileIsKnown, HeldUnderItsId, SettledAreAccepted,
       WritersFiles, Writing
  <2>5. NotExpiredWhenAsked'
    BY <2>0, <2>7 DEF IInv, NotExpiredWhenAsked
  <2>6. HandedOverOnce'
    BY <1>a, <2>0, <2>7 DEF IInv, HandedOverOnce, OneHandsOver, TypeOK, JobRecords
  <2>8. JobsNameAccepted'
    BY <1>a, <2>0, <2>7 DEF IInv, JobsNameAccepted, TypeOK, JobRecords
  <2>9. OneHandsOver'
    <3>1. \A k \in Jobs :
            /\ job'[k].at = "sending" => upload'[job'[k].item].resolved = 0
            /\ job'[k].at = "bound" => upload'[job'[k].item].resolved # 0
      BY <2>0, <2>7 DEF IInv, OneHandsOver
    <3>2. ASSUME NEW k \in Jobs, NEW l \in Jobs, job'[k].at = "sending",
                 job'[l].at = "sending", job'[k].item = job'[l].item
          PROVE  k = l
      BY <2>0, <2>7, <3>2 DEF IInv, OneHandsOver
    <3> QED
      BY <3>1, <3>2 DEF OneHandsOver
  <2> QED BY <1>b, <2>3, <2>4, <2>5, <2>6, <2>8, <2>9
<1>14. ASSUME NEW j \in Jobs, ComfyStores(j) PROVE IInv'
  <2> DEFINE u == job[j].item
  <2>0. /\ job[j].at = "sending" /\ u \in Uploads /\ copies \in Nat
        /\ copies' = copies + 1
        /\ UNCHANGED <<now, held, disk, leftover, closed>>
    BY <1>a, <1>14 DEF ComfyStores, TypeOK, JobRecords
  <2>1. /\ job[j].at = "sending" /\ u \in Uploads /\ copies \in Nat
        /\ upload' = [upload EXCEPT ![u].resolved = copies + 1]
        /\ job' = [job EXCEPT ![j].at = "bound", ![j].value = copies + 1]
        /\ copies' = copies + 1
        /\ UNCHANGED <<now, held, disk, leftover, closed>>
    BY <1>a, <1>14 DEF ComfyStores, TypeOK, JobRecords
  <2>3. TypeOK'
    <3>1. upload' \in [Uploads -> UploadRecords]
      <4> DEFINE r == [upload[u] EXCEPT !.resolved = copies + 1]
      <4>1. upload[u] \in UploadRecords /\ copies + 1 \in Nat
        BY <1>a, <2>1 DEF TypeOK
      <4>2. r \in UploadRecords
        BY <4>1 DEF UploadRecords
      <4>3. upload' = [upload EXCEPT ![u] = r]
        BY <2>1
      <4> QED
        BY <1>a, <4>2, <4>3 DEF TypeOK
    <3>2. job' \in [Jobs -> JobRecords]
      <4> DEFINE r == [job[j] EXCEPT !.at = "bound", !.value = copies + 1]
      <4>1. job[j] \in JobRecords /\ copies + 1 \in Nat
        BY <1>a, <2>1 DEF TypeOK
      <4>2. r \in JobRecords
        BY <4>1 DEF JobRecords
      <4>3. job' = [job EXCEPT ![j] = r]
        BY <1>a, <2>1 DEF TypeOK, JobRecords
      <4> QED
        BY <1>a, <4>2, <4>3 DEF TypeOK
    <3> QED
      BY <1>a, <2>1, <3>1, <3>2 DEF TypeOK
  <2>7. /\ \A k \in Jobs : k # j => job'[k] = job[k]
        /\ job'[j].at = "bound" /\ job'[j].value = copies + 1
        /\ job'[j].ref = job[j].ref /\ job'[j].asked = job[j].asked
        /\ job'[j].item = u
    BY <1>a, <2>1 DEF TypeOK, JobRecords
  <2>8. /\ \A v \in Uploads : v # u => upload'[v] = upload[v]
        /\ upload'[u].resolved = copies + 1
        /\ \A v \in Uploads :
             /\ upload'[v].at = upload[v].at /\ upload'[v].id = upload[v].id
             /\ upload'[v].written = upload[v].written
             /\ upload'[v].bytes = upload[v].bytes
             /\ upload'[v].created = upload[v].created
    BY <1>a, <2>1 DEF TypeOK, UploadRecords
  <2>4. StoreInv'
    BY <1>a, <2>0, <2>7, <2>8 DEF IInv, TypeOK, UploadRecords, HeldFilesExist,
       ReservationIsKept, EveryFileIsKnown, HeldUnderItsId, SettledAreAccepted,
       WritersFiles, Writing
  <2>5. NotExpiredWhenAsked'
    BY <1>a, <2>0, <2>7, <2>8 DEF IInv, NotExpiredWhenAsked, JobsNameAccepted, TypeOK,
       JobRecords, UploadRecords
  <2>6. HandedOverOnce'
    BY <1>a, <2>0, <2>7, <2>8 DEF IInv, HandedOverOnce, OneHandsOver, TypeOK, JobRecords
  <2>a. \A k \in Jobs : job[k].ref \in Uploads /\ job[k].item \in Uploads
    BY <1>a DEF TypeOK, JobRecords
  <2>b. JobsNameAccepted'
    BY <2>0, <2>7, <2>8, <2>a DEF IInv, JobsNameAccepted
  <2>9. OneHandsOver'
    <3>1. copies + 1 # 0
      BY <2>0
    <3> QED
      BY <2>0, <2>7, <2>8, <2>a, <3>1 DEF IInv, OneHandsOver
  <2> QED BY <1>b, <2>3, <2>4, <2>5, <2>6, <2>b, <2>9
<1>15. ASSUME NEW j \in Jobs, ComfyFails(j) PROVE IInv'
  <2>1. /\ job[j].at = "sending"
        /\ job' = [job EXCEPT ![j].at = "comfy_unavailable"]
        /\ UNCHANGED <<now, held, disk, leftover, upload, copies, closed>>
    BY <1>15 DEF ComfyFails
  <2>3. TypeOK'
    BY <1>a, <2>1 DEF TypeOK, JobRecords
  <2>4. StoreInv'
    BY <1>a, <2>1 DEF IInv, TypeOK, UploadRecords, HeldFilesExist,
       ReservationIsKept, EveryFileIsKnown, HeldUnderItsId, SettledAreAccepted,
       WritersFiles, Writing
  <2>5. NotExpiredWhenAsked'
    BY <1>a, <2>1 DEF IInv, NotExpiredWhenAsked, JobsNameAccepted, TypeOK,
       JobRecords, UploadRecords
  <2>6. HandedOverOnce'
    BY <1>a, <2>1 DEF IInv, HandedOverOnce, OneHandsOver, TypeOK, JobRecords
  <2>8. JobsNameAccepted'
    BY <1>a, <2>1 DEF IInv, JobsNameAccepted, TypeOK, JobRecords
  <2>9. OneHandsOver'
    BY <1>a, <2>1 DEF IInv, OneHandsOver, TypeOK, JobRecords
  <2> QED BY <1>b, <2>3, <2>4, <2>5, <2>6, <2>8, <2>9
<1>16. CASE Tick
  <2>3. TypeOK'
    BY <1>a, <1>16 DEF TypeOK, Tick
  <2>4. StoreInv'
    BY <1>a, <1>16 DEF IInv, TypeOK, UploadRecords, HeldFilesExist,
       ReservationIsKept, EveryFileIsKnown, HeldUnderItsId, SettledAreAccepted,
       WritersFiles, Writing, Tick
  <2>5. JobInv'
    BY <1>16, JobsUndisturbed DEF Tick
  <2> QED BY <1>b, <2>3, <2>4, <2>5
<1>17. CASE Close
  <2>1. /\ \A u \in Uploads : upload[u].at \in {"idle", "accepted", "refused"}
        /\ held' = [i \in MediaIds |-> NoUpload] /\ disk' = [i \in MediaIds |-> NoUpload]
        /\ closed' = TRUE
        /\ UNCHANGED <<now, leftover, upload, job, copies>>
    BY <1>17 DEF Close
  <2>3. TypeOK'
    BY <1>a, <2>1 DEF TypeOK
  <2>4. StoreInv'
    BY <1>a, <2>1 DEF IInv, TypeOK, UploadRecords, HeldFilesExist,
       ReservationIsKept, EveryFileIsKnown, HeldUnderItsId, SettledAreAccepted,
       WritersFiles, Writing
  <2>5. \A v \in Uploads : held'[upload[v].id] # v
    BY <1>a, <2>1 DEF TypeOK, UploadRecords
  <2>6. JobInv'
    BY <2>1, <2>5, JobsUndisturbed
  <2> QED BY <1>b, <2>3, <2>4, <2>6
<1> QED
  BY <1>1, <1>2, <1>3, <1>4, <1>5, <1>6, <1>7, <1>8, <1>9, <1>10, <1>11, <1>12,
     <1>13, <1>14, <1>15, <1>16, <1>17
     DEF Next, Store, Resolve

\* A step that changes nothing keeps the invariant.
LEMMA StutterIInv == IInv /\ UNCHANGED vars => IInv'
<1> SUFFICES ASSUME IInv, UNCHANGED vars PROVE IInv'
  OBVIOUS
<1> USE DEF IInv, vars
<1>1. /\ now' = now /\ held' = held /\ disk' = disk /\ leftover' = leftover
      /\ upload' = upload /\ job' = job /\ copies' = copies /\ closed' = closed
  OBVIOUS
<1>2. TypeOK'
  BY <1>1 DEF TypeOK
<1>3. /\ HeldFilesExist' /\ ReservationIsKept' /\ EveryFileIsKnown'
      /\ HeldUnderItsId' /\ SettledAreAccepted' /\ WritersFiles'
  BY <1>1 DEF HeldFilesExist, ReservationIsKept, EveryFileIsKnown, HeldUnderItsId,
              SettledAreAccepted, WritersFiles
<1>4. NotExpiredWhenAsked' /\ HandedOverOnce' /\ JobsNameAccepted' /\ OneHandsOver'
  BY <1>1 DEF NotExpiredWhenAsked, HandedOverOnce, JobsNameAccepted, OneHandsOver
<1> QED
  BY <1>2, <1>3, <1>4

\* IInv holds in every reachable state of the media store: what each property
\* below is a part of.
THEOREM Inductive == Spec => []IInv
<1>1. IInv /\ [Next]_vars => IInv'
  BY NextIInv, StutterIInv
<1> QED
  BY InitIInv, <1>1, PTL DEF Spec

\* Every variable of the media store keeps its type.
THEOREM TypeCorrect == Spec => []TypeOK
<1>1. IInv => TypeOK
  BY DEF IInv
<1> QED
  BY Inductive, <1>1, PTL

\* For any number of uploads over any number of ids: no sweep and no id drawn
\* again separates an item from its file (media.py, _discard and _reserve).
THEOREM ItemsHaveTheirFiles == Spec => []HeldFilesExist
<1>1. IInv => HeldFilesExist
  BY DEF IInv
<1> QED
  BY Inductive, <1>1, PTL

\* No sweep takes the reservation of an upload in flight, whatever the time to
\* live and the ceiling (MediaItem.is_settled).
THEOREM UploadsInFlightAreKept == Spec => []ReservationIsKept
<1>1. IInv => ReservationIsKept
  BY DEF IInv
<1> QED
  BY Inductive, <1>1, PTL

\* The only files the store forgets are those it could not unlink, and the exit
\* removes those too (media.py, _discard and close).
THEOREM FilesAreKnown == Spec => []EveryFileIsKnown
<1>1. IInv => EveryFileIsKnown
  BY DEF IInv
<1> QED
  BY Inductive, <1>1, PTL

\* Expiry without a timer is exact at the moment of asking (MediaStore.get).
THEOREM ExpiryIsExact == Spec => []NotExpiredWhenAsked
<1>1. IInv => NotExpiredWhenAsked
  BY DEF IInv
<1> QED
  BY Inductive, <1>1, PTL

\* However many submissions share an item, ComfyUI's answer to one transfer is
\* the value all of them bind (ComfyInputResolver.resolve).
THEOREM OneTransfer == Spec => []HandedOverOnce
<1>1. IInv => HandedOverOnce
  BY DEF IInv
<1> QED
  BY Inductive, <1>1, PTL

-----------------------------------------------------------------------------
(* Submission                                                              *)

(* The files that may be served: they load, and claim their id alone       *)
Good(fs) == {p \in Paths : Loads(fs[p]) /\ Alone(fs, p)}

LEMMA GoodFilesHaveTheirId ==
  ASSUME NEW fs, NEW p \in Good(fs)
  PROVE  Claims(fs[p], fs[p].id) /\ \A q \in Good(fs) : fs[q].id = fs[p].id => q = p
<1>1. fs[p] # None /\ Claimants(fs, fs[p].id) = {p}
  BY DEF Good, Loads, Alone
<1>2. ASSUME NEW q \in Good(fs), fs[q].id = fs[p].id PROVE q = p
  <2>1. fs[q] # None /\ q \in Paths
    BY DEF Good, Loads
  <2>2. q \in Claimants(fs, fs[p].id)
    BY <1>2, <2>1 DEF Claimants, Claims
  <2> QED
    BY <1>1, <2>2
<1> QED
  BY <1>1, <1>2 DEF Claims

(* What a registry serves is the good files, each under its own id         *)
LEMMA RegistryServesTheGood ==
  ASSUME NEW fs, NEW p \in Paths
  PROVE  Serves(Registry(fs), p) <=> p \in Good(fs)
<1> DEFINE Source(id) == CHOOSE q \in Good(fs) : fs[q].id = id
           ids == {fs[q].id : q \in Good(fs)}
<1>1. Registry(fs) = [id \in ids |-> [path |-> Source(id), doc |-> fs[Source(id)],
                                      graph |-> fs[Source(id)].graph]]
  BY DEF Registry, Good
<1>2. DOMAIN Registry(fs) = ids /\ \A id \in ids : Registry(fs)[id].path = Source(id)
  <2> HIDE DEF Source, ids
  <2>1. DOMAIN Registry(fs) = ids
    BY <1>1
  <2>2. ASSUME NEW id \in ids PROVE Registry(fs)[id].path = Source(id)
    BY <1>1, <2>2
  <2> QED
    BY <2>1, <2>2
<1>3. ASSUME NEW id \in ids PROVE Source(id) \in Good(fs) /\ fs[Source(id)].id = id
  <2>1. \E q \in Good(fs) : fs[q].id = id
    BY DEF ids
  <2> QED
    BY <2>1
<1>4. ASSUME p \in Good(fs) PROVE Serves(Registry(fs), p)
  <2>1. fs[p].id \in ids
    BY <1>4
  <2>2. Source(fs[p].id) \in Good(fs) /\ fs[Source(fs[p].id)].id = fs[p].id
    BY <1>3, <2>1
  <2>3. Source(fs[p].id) = p
    BY <1>4, <2>2, GoodFilesHaveTheirId
  <2> QED
    BY <1>2, <2>1, <2>3 DEF Serves
<1>5. ASSUME Serves(Registry(fs), p) PROVE p \in Good(fs)
  BY <1>2, <1>3, <1>5 DEF Serves
<1> QED
  BY <1>4, <1>5

(* An edit of p that keeps its claim gives nobody a rival that had none    *)
LEMMA AnEditMakesNoRival ==
  ASSUME NEW old, NEW new, NEW p \in Paths,
         \A q \in Paths \ {p} : new[q] = old[q],
         old[p] # None, Claims(new[p], old[p].id),
         NEW q \in Paths \ {p}, q \in Good(old)
  PROVE  q \in Good(new)
<1>1. new[q] = old[q] /\ Loads(new[q])
  BY DEF Good
<1>2. Claimants(old, old[q].id) = {q}
  BY DEF Good, Alone
<1>3. old[q].id # old[p].id
  BY <1>2 DEF Claimants, Claims
<1>4. ASSUME NEW r \in Paths, Claims(new[r], old[q].id) PROVE r = q
  <2>1. r # p
    BY <1>3, <1>4 DEF Claims
  <2>2. r \in Claimants(old, old[q].id)
    BY <1>4, <2>1 DEF Claimants
  <2> QED
    BY <1>2, <2>2
<1>5. Claims(new[q], old[q].id)
  BY <1>1 DEF Claims, Loads
<1>6. Claimants(new, new[q].id) = {q}
  BY <1>1, <1>4, <1>5 DEF Claimants
<1> QED
  BY <1>1, <1>6 DEF Good, Alone

(* A gateway serves what its files say, from its start to its end          *)
ServesItsFiles ==
  gateway = [up |-> gateway.up, files |-> gateway.files, served |-> Registry(gateway.files)]

THEOREM ServedIsLoaded == SubmissionSpec => []ServesItsFiles
<1>1. SubmissionInit => ServesItsFiles
  BY DEF SubmissionInit, ServesItsFiles
<1>2. ASSUME ServesItsFiles, [SubmissionNext]_submissionVars PROVE ServesItsFiles'
  <2>1. CASE Start
    BY <2>1 DEF Start, ServesItsFiles
  <2>2. CASE Stop
    <3> DEFINE loaded == gateway.files
               served == Registry(loaded)
    <3>1. gateway = [up |-> gateway.up, files |-> loaded, served |-> served]
      BY <1>2 DEF ServesItsFiles
    <3>2. gateway' = [gateway EXCEPT !.up = FALSE]
      BY <2>2 DEF Stop
    <3> HIDE DEF loaded, served
    <3>3. gateway' = [up |-> FALSE, files |-> loaded, served |-> served]
      <4>1. PICK was : gateway = [up |-> was, files |-> loaded, served |-> served]
        BY <3>1
      <4> QED
        BY <3>2, <4>1
    <3>4. gateway'.files = loaded /\ gateway'.up = FALSE
      BY <3>3
    <3>5. served = Registry(gateway'.files)
      BY <3>4 DEF served
    <3> QED
      BY <3>3, <3>4, <3>5 DEF ServesItsFiles
  <2>3. CASE UNCHANGED gateway
    BY <1>2, <2>3 DEF ServesItsFiles
  <2> QED
    BY <1>2, <2>1, <2>2, <2>3
    DEF SubmissionNext, submissionVars, Edit, Expire, ComfyGoesOrComes, GetWorkflow, Submit, Apply, ApplyFails, Bind,
        BindFails, Send
<1> QED
  BY <1>1, <1>2, PTL DEF SubmissionSpec

(* Mending or breaking one file that keeps its id takes no other file's    *)
(* workflow away, over whatever files the gateway starts.                  *)
THEOREM FixingIsSafe == SubmissionSpec => FixingTakesNothingAway
<1> DEFINE Harmless ==
      \A p \in Paths :
        (/\ \A q \in Paths \ {p} : gateway'.files[q] = gateway.files[q]
         /\ gateway.files[p] # None /\ Claims(gateway'.files[p], gateway.files[p].id))
        => \A q \in Paths \ {p} : Serves(gateway.served, q) => Serves(gateway'.served, q)
<1>1. ASSUME ServesItsFiles, ServesItsFiles' PROVE Harmless
  <2>1. gateway.served = Registry(gateway.files) /\ gateway'.served = Registry(gateway'.files)
    BY <1>1 DEF ServesItsFiles
  <2>2. ASSUME NEW p \in Paths,
               \A q \in Paths \ {p} : gateway'.files[q] = gateway.files[q],
               gateway.files[p] # None, Claims(gateway'.files[p], gateway.files[p].id),
               NEW q \in Paths \ {p}, Serves(gateway.served, q)
        PROVE  Serves(gateway'.served, q)
    <3>1. q \in Good(gateway.files)
      BY <2>1, <2>2, RegistryServesTheGood
    <3>2. q \in Good(gateway'.files)
      BY <2>2, <3>1, AnEditMakesNoRival
    <3> QED
      BY <2>1, <3>2, RegistryServesTheGood
  <2> QED
    BY <2>2
<1> QED
  BY <1>1, ServedIsLoaded, PTL DEF FixingTakesNothingAway


-----------------------------------------------------------------------------
(* The fields of a definition that loads, and what binding does with them  *)

LEMMA FieldsAreApart ==
  ASSUME NEW doc, Shaped(doc), Loads(doc),
         NEW i \in DOMAIN doc.fields, NEW j \in DOMAIN doc.fields, i # j
  PROVE  /\ doc.fields[i].id # doc.fields[j].id
         /\ Targets(doc.fields[i]) \cap Targets(doc.fields[j]) = {}
<1>1. DOMAIN doc.fields = 1..Len(doc.fields) /\ Len(doc.fields) \in Nat
  BY DEF Shaped
<1>2. \A k \in DOMAIN doc.fields : \A l \in 1..(k - 1) :
        /\ doc.fields[k].id # doc.fields[l].id
        /\ Targets(doc.fields[k]) \cap Targets(doc.fields[l]) = {}
  BY DEF Loads, FieldsFit
<1>3. i \in 1..(j - 1) \/ j \in 1..(i - 1)
  BY <1>1
<1> QED
  BY <1>2, <1>3

LEMMA FieldOfItsId ==
  ASSUME NEW doc, Shaped(doc), Loads(doc), NEW f \in ToSet(doc.fields)
  PROVE  FieldOf(doc, f.id) = f /\ FieldFits(f, doc.graph)
<1>1. PICK i \in DOMAIN doc.fields : doc.fields[i] = f
  BY DEF ToSet
<1>2. \A g \in ToSet(doc.fields) : g.id = f.id => g = f
  BY <1>1, FieldsAreApart DEF ToSet
<1>3. FieldFits(f, doc.graph)
  BY <1>1 DEF Loads, FieldsFit
<1> QED
  BY <1>2, <1>3 DEF FieldOf

LEMMA BindingWrites ==
  ASSUME NEW doc, Shaped(doc), Loads(doc), NEW graph, NEW values,
         NEW target \in DOMAIN graph
  PROVE  LET bound == BindValues(doc, graph, values)
         IN  /\ DOMAIN bound = DOMAIN graph
             /\ \A f \in ToSet(doc.fields) :
                  f.id \in DOMAIN values /\ target \in Targets(f) =>
                    bound[target] = Resolved(values[f.id])
             /\ (\A f \in ToSet(doc.fields) :
                   f.id \in DOMAIN values => target \notin Targets(f)) =>
                    bound[target] = graph[target]
<1> DEFINE W == {i \in DOMAIN doc.fields : /\ doc.fields[i].id \in DOMAIN values
                                           /\ target \in Targets(doc.fields[i])}
           l == CHOOSE i \in W : \A j \in W : j <= i
           bound == BindValues(doc, graph, values)
<1>1. /\ DOMAIN bound = DOMAIN graph
      /\ bound[target] = IF W = {} THEN graph[target]
                         ELSE Resolved(values[doc.fields[l].id])
  BY DEF BindValues
<1> HIDE DEF bound
<1>2. DOMAIN doc.fields = 1..Len(doc.fields) /\ Len(doc.fields) \in Nat
  BY DEF Shaped
<1>3. ASSUME NEW f \in ToSet(doc.fields), f.id \in DOMAIN values, target \in Targets(f)
      PROVE  bound[target] = Resolved(values[f.id])
  <2>1. PICK i \in DOMAIN doc.fields : doc.fields[i] = f
    BY DEF ToSet
  <2>2. i \in W
    BY <1>3, <2>1
  <2>3. \A j \in W : j = i
    BY <2>2, FieldsAreApart
  <2>4. l = i
    BY <1>2, <2>2, <2>3
  <2> QED
    BY <1>1, <2>1, <2>2, <2>4
<1>4. ASSUME \A f \in ToSet(doc.fields) : f.id \in DOMAIN values => target \notin Targets(f)
      PROVE  bound[target] = graph[target]
  <2>1. W = {}
    BY <1>4 DEF ToSet
  <2> QED
    BY <1>1, <2>1
<1> QED
  BY <1>1, <1>3, <1>4 DEF bound

(* A value that was accepted meets its field                               *)
LEMMA AcceptedMeets ==
  ASSUME NEW f, NEW graph, FieldFits(f, graph), NEW x, Accepts(f, x),
         f.type \in TextTypes \cup NumericTypes \cup MediaTypes \cup {"boolean", "select"}
  PROVE  Meets(f, x)
BY DEF Accepts, Meets, AcceptsText, AcceptsNumber, AcceptsSelect, ToSet,
       TextTypes, NumericTypes, MediaTypes

(* What validation, and translation where the field has it, make of one    *)
Carried(f, x, y) ==
  y = Checked(f, x) \/ (f.translatable /\ y.kind = Checked(f, x).kind)

LEMMA TranslatableIsText ==
  ASSUME NEW f, NEW graph, FieldFits(f, graph), f.translatable
  PROVE  f.type \in TextTypes
<1>1. "translatable" \in TypeExtras(f.type)
  BY DEF FieldFits, KeysFit, KeysOf
<1> QED
  BY <1>1 DEF TypeExtras

LEMMA AcceptedByType ==
  ASSUME NEW f, NEW x, Accepts(f, x)
  PROVE  /\ f.type \in TextTypes => x.kind = "text"
         /\ f.type \in NumericTypes => x.kind \in NumberKinds
         /\ f.type = "boolean" => x.kind = "bool"
         /\ f.type = "select" => x \in ToSet(f.options)
         /\ f.type \in MediaTypes => x.kind = "media"
BY DEF Accepts, AcceptsText, AcceptsNumber, AcceptsSelect, IsText, IsNumber,
       TextTypes, NumericTypes, MediaTypes

LEMMA CheckedByType ==
  ASSUME NEW f, NEW x, IsValue(x)
  PROVE  /\ f.type \in NumericTypes =>
              Checked(f, x).kind \in NumberKinds /\ Checked(f, x).v = x.v
         /\ f.type \notin NumericTypes => Checked(f, x) = x
<1>1. \A kind : /\ [x EXCEPT !.kind = kind].kind = kind
                /\ [x EXCEPT !.kind = kind].v = x.v
  BY DEF IsValue
<1>2. CASE f.type = "integer"
  BY <1>1, <1>2 DEF Checked, NumericTypes, NumberKinds
<1>3. CASE f.type = "float"
  BY <1>1, <1>3 DEF Checked, NumericTypes, NumberKinds
<1>4. CASE f.type \notin NumericTypes
  BY <1>4 DEF Checked, NumericTypes
<1> QED
  BY <1>2, <1>3, <1>4 DEF NumericTypes

LEMMA CarriedIsWritten ==
  ASSUME NEW f, NEW graph, FieldFits(f, graph),
         f.type \in TextTypes \cup NumericTypes \cup MediaTypes \cup {"boolean", "select"},
         NEW x, IsValue(x), Accepts(f, x), NEW y, Carried(f, x, y)
  PROVE  /\ IsWritten(Resolved(y), x)
         /\ Resolved(y).kind = "file" => f.type \in MediaTypes /\ Resolved(y).v = y.v
<1>1. CASE f.type \in TextTypes
  <2>1. x.kind = "text" /\ Checked(f, x) = x
    BY <1>1, AcceptedByType, CheckedByType DEF TextTypes, NumericTypes
  <2>2. y.kind = "text"
    BY <2>1 DEF Carried
  <2>3. Resolved(y) = y
    BY <2>2 DEF Resolved
  <2> QED
    BY <2>1, <2>2, <2>3 DEF IsWritten, IsText
<1>2. CASE f.type \notin TextTypes
  <2>1. y = Checked(f, x)
    BY <1>2, TranslatableIsText DEF Carried
  <2>2. CASE f.type \in NumericTypes
    <3>1. x.kind \in NumberKinds
      BY <2>2, AcceptedByType
    <3>2. y.kind \in NumberKinds /\ y.v = x.v
      BY <2>1, <2>2, CheckedByType
    <3>3. Resolved(y) = y
      BY <3>2 DEF Resolved, NumberKinds
    <3> QED
      BY <3>1, <3>2, <3>3 DEF IsWritten, IsText, Equal, NumberKinds
  <2>3. CASE f.type = "boolean"
    <3>1. x.kind = "bool" /\ y = x
      BY <2>1, <2>3, AcceptedByType, CheckedByType DEF NumericTypes
    <3>2. Resolved(y) = y
      BY <3>1 DEF Resolved
    <3> QED
      BY <3>1, <3>2 DEF IsWritten, IsText, Equal
  <2>4. CASE f.type = "select"
    <3>1. x.kind \in NumberKinds \cup {"text"} /\ y = x
      <4>1. x \in ToSet(f.options) /\ y = x
        BY <2>1, <2>4, AcceptedByType, CheckedByType DEF NumericTypes
      <4>2. OptionsFit(f)
        BY DEF FieldFits
      <4> QED
        BY <2>4, <4>1, <4>2 DEF OptionsFit, ToSet
    <3>2. Resolved(y) = y
      BY <3>1 DEF Resolved, NumberKinds
    <3> QED
      BY <3>1, <3>2 DEF IsWritten, IsText, Equal, NumberKinds
  <2>5. CASE f.type \in MediaTypes
    <3>1. x.kind = "media" /\ y = x
      BY <2>1, <2>5, AcceptedByType, CheckedByType DEF NumericTypes, MediaTypes
    <3>2. Resolved(y).kind = "file" /\ Resolved(y).v = x.v
      <4>1. Resolved(y) = [x EXCEPT !.kind = "file"]
        BY <3>1 DEF Resolved
      <4>2. PICK k, v : x = [kind |-> k, v |-> v]
        BY DEF IsValue
      <4> QED
        BY <4>1, <4>2
    <3> QED
      BY <2>5, <3>1, <3>2 DEF IsWritten, IsText
  <2> QED
    BY <1>2, <2>2, <2>3, <2>4, <2>5
<1> QED
  BY <1>1, <1>2

-----------------------------------------------------------------------------
(* The invariant: what the gateway serves are definitions that load, and   *)
(* what a submission carries from stage to stage is its own                *)

FilesOf(fs) ==
  /\ fs = [p \in Paths |-> fs[p]]
  /\ \A p \in Paths : fs[p] \in Documents[p]

(* A submission between two stages, at a gateway g, with u handed over     *)
Carrying(r, g) ==
  /\ r.stage \in {"validated", "translated"}
  /\ r = [stage |-> r.stage, id |-> r.id, asked |-> r.asked, wanted |-> r.wanted,
          values |-> r.values]
  /\ g.up /\ r.id \in DOMAIN g.served
  /\ r.asked \in Inputs
  /\ LET doc == g.served[r.id].doc
     IN  /\ InputsAccepted(doc, r.asked)
         /\ DOMAIN r.values = DOMAIN r.asked
         /\ \A id \in DOMAIN r.asked :
              /\ IsValue(r.values[id])
              /\ Carried(FieldOf(doc, id), r.asked[id], r.values[id])

IsAsAsked(s, u) == FieldsAreMet(s) /\ InputsAreWritten(s) /\ MediaIsIn(s, u)

InProgress(r, g, u) ==
  \/ r = NoRequest
  \/ Carrying(r, g)
  \/ /\ r.stage = "bound" /\ g.up
     /\ IsAsAsked(r, u)

SubmissionInv ==
  /\ ServesItsFiles
  /\ FilesOf(files) /\ FilesOf(gateway.files)
  /\ requests = [c \in Clients |-> requests[c]]
  /\ \A c \in Clients : InProgress(requests[c], gateway, uploaded)
  /\ \A s \in sent : IsAsAsked(s, uploaded)

(* What is served is a definition that loads, over the graph it came with  *)
LEMMA ServedLoads ==
  ASSUME NEW fs, FilesOf(fs), NEW id \in DOMAIN Registry(fs)
  PROVE  LET w == Registry(fs)[id]
         IN  Loads(w.doc) /\ Shaped(w.doc) /\ w.graph = w.doc.graph
<1> DEFINE Source(i) == CHOOSE q \in Good(fs) : fs[q].id = i
           ids == {fs[q].id : q \in Good(fs)}
<1>1. Registry(fs) = [i \in ids |-> [path |-> Source(i), doc |-> fs[Source(i)],
                                     graph |-> fs[Source(i)].graph]]
  BY DEF Registry, Good
<1>2. id \in ids
  <2> HIDE DEF ids, Source
  <2> QED
    BY <1>1
<1>3. Source(id) \in Good(fs)
  BY <1>2
<1>4. Registry(fs)[id] = [path |-> Source(id), doc |-> fs[Source(id)],
                          graph |-> fs[Source(id)].graph]
  <2> HIDE DEF ids, Source
  <2> QED
    BY <1>1, <1>2
<1> HIDE DEF Source
<1>5. Loads(fs[Source(id)]) /\ Shaped(fs[Source(id)])
  BY <1>3, DocumentsAssumption DEF Good, FilesOf, Loads
<1> QED
  BY <1>4, <1>5

(* What was given stays given, and a prompt that is right stays right      *)
LEMMA UploadsOnlyGrow ==
  ASSUME NEW s, NEW u, NEW v, u \subseteq v, IsAsAsked(s, u)
  PROVE  IsAsAsked(s, v)
BY DEF IsAsAsked, MediaIsIn

LEMMA ProgressKept ==
  ASSUME NEW r, NEW g, NEW u, NEW v, u \subseteq v, InProgress(r, g, u)
  PROVE  InProgress(r, g, v)
BY UploadsOnlyGrow DEF InProgress

(* A step of one client, over a gateway and files that stay                *)
LEMMA ClientStep ==
  ASSUME SubmissionInv, UNCHANGED <<files, gateway>>, uploaded \subseteq uploaded',
         NEW c \in Clients, NEW x, requests' = [requests EXCEPT ![c] = x],
         InProgress(x, gateway, uploaded'),
         \A s \in sent' : IsAsAsked(s, uploaded')
  PROVE  SubmissionInv'
<1>1. requests' = [d \in Clients |-> IF d = c THEN x ELSE requests[d]]
  BY DEF SubmissionInv
<1>2. \A d \in Clients : InProgress(requests'[d], gateway', uploaded')
  BY <1>1, ProgressKept DEF SubmissionInv
<1>3. ServesItsFiles' /\ FilesOf(files') /\ FilesOf(gateway'.files)
  BY DEF SubmissionInv, ServesItsFiles
<1> QED
  BY <1>1, <1>2, <1>3 DEF SubmissionInv

(* A step of nobody's submission                                           *)
LEMMA OtherStep ==
  ASSUME SubmissionInv, UNCHANGED <<gateway, requests, sent, uploaded>>, FilesOf(files')
  PROVE  SubmissionInv'
BY DEF SubmissionInv, ServesItsFiles

LEMMA EditStep == ASSUME SubmissionInv, NEW p \in Paths, Edit(p) PROVE SubmissionInv'
<1>1. FilesOf(files')
  BY DEF SubmissionInv, FilesOf, Edit
<1> QED
  BY <1>1, OtherStep DEF Edit

LEMMA StartStep == ASSUME SubmissionInv, Start PROVE SubmissionInv'
<1>1. \A c \in Clients : requests[c] = NoRequest
  BY DEF SubmissionInv, InProgress, Carrying, Start
<1>2. /\ gateway' = [up |-> TRUE, files |-> files, served |-> Registry(files)]
      /\ UNCHANGED <<files, requests, sent, uploaded>>
  BY DEF Start
<1>3. ServesItsFiles' /\ FilesOf(gateway'.files)
  BY <1>2 DEF ServesItsFiles, SubmissionInv
<1> QED
  BY <1>1, <1>2, <1>3 DEF SubmissionInv, InProgress

LEMMA StopStep == ASSUME SubmissionInv, Stop PROVE SubmissionInv'
<1>1. ServesItsFiles' /\ gateway'.files = gateway.files
  <2>1. gateway = [up |-> gateway.up, files |-> gateway.files, served |-> gateway.served]
    BY DEF SubmissionInv, ServesItsFiles
  <2>2. gateway' = [up |-> FALSE, files |-> gateway.files, served |-> gateway.served]
    BY <2>1 DEF Stop
  <2>3. gateway.served = Registry(gateway.files)
    BY DEF SubmissionInv, ServesItsFiles
  <2> QED
    BY <2>2, <2>3 DEF ServesItsFiles
<1> QED
  BY <1>1 DEF Stop, SubmissionInv, InProgress

LEMMA RefuseStep ==
  ASSUME SubmissionInv, NEW c \in Clients, Refuse(c), UNCHANGED <<files, gateway>>,
         uploaded \subseteq uploaded', \A s \in sent' : IsAsAsked(s, uploaded')
  PROVE  SubmissionInv'
<1>1. InProgress(NoRequest, gateway, uploaded')
  BY DEF InProgress
<1> QED
  BY <1>1, ClientStep DEF Refuse

(* A value stays one when its v changes, and has the kind it had           *)
LEMMA ValueKept ==
  ASSUME NEW y, IsValue(y), NEW new
  PROVE  LET z == [y EXCEPT !.v = new] IN IsValue(z) /\ z.kind = y.kind
BY DEF IsValue

LEMMA CheckedIsValue ==
  ASSUME NEW f, NEW x, IsValue(x)
  PROVE  IsValue(Checked(f, x))
<1>1. \A kind : IsValue([x EXCEPT !.kind = kind])
  BY DEF IsValue
<1>2. Checked(f, x) \in {x, [x EXCEPT !.kind = "int"], [x EXCEPT !.kind = "float"]}
  <2>1. CASE f.type = "integer"
    BY <2>1 DEF Checked
  <2>2. CASE f.type = "float"
    BY <2>2 DEF Checked
  <2>3. CASE f.type \notin {"integer", "float"}
    BY <2>3 DEF Checked
  <2> QED
    BY <2>1, <2>2, <2>3
<1> QED
  BY <1>1, <1>2

LEMMA SubmitStep == ASSUME SubmissionInv, NEW c \in Clients, Submit(c) PROVE SubmissionInv'
<1>1. /\ gateway.up /\ UNCHANGED <<files, gateway, sent, uploaded>>
  BY DEF Submit
<1>2. PICK inputs \in Inputs :
        IF /\ forms[c].id \in DOMAIN gateway.served
           /\ InputsAccepted(gateway.served[forms[c].id].doc, inputs)
        THEN requests' = [requests EXCEPT ![c] =
               [stage |-> "validated", id |-> forms[c].id, asked |-> inputs,
                wanted |-> inputs \notin LeftAlone,
                values |-> Validated(gateway.served[forms[c].id].doc, inputs)]]
        ELSE Refuse(c)
  BY DEF Submit
<1>3. CASE Refuse(c)
  BY <1>1, <1>3, RefuseStep DEF SubmissionInv
<1>4. CASE ~Refuse(c)
  <2> DEFINE doc == gateway.served[forms[c].id].doc
             x == [stage |-> "validated", id |-> forms[c].id, asked |-> inputs,
                   wanted |-> inputs \notin LeftAlone, values |-> Validated(doc, inputs)]
  <2>1. /\ forms[c].id \in DOMAIN gateway.served
        /\ InputsAccepted(doc, inputs) /\ requests' = [requests EXCEPT ![c] = x]
    BY <1>2, <1>4
  <2>2. /\ x.stage = "validated" /\ x.id = forms[c].id /\ x.asked = inputs
        /\ x.wanted = (inputs \notin LeftAlone) /\ x.values = Validated(doc, inputs)
    OBVIOUS
  <2>3. \A id \in DOMAIN inputs : /\ IsValue(Checked(FieldOf(doc, id), inputs[id]))
                                  /\ Carried(FieldOf(doc, id), inputs[id],
                                             Checked(FieldOf(doc, id), inputs[id]))
    BY InputsAssumption, CheckedIsValue DEF Carried
  <2>4. /\ DOMAIN x.values = DOMAIN inputs
        /\ \A id \in DOMAIN inputs : x.values[id] = Checked(FieldOf(doc, id), inputs[id])
    BY <2>2 DEF Validated
  <2>5. x = [stage |-> x.stage, id |-> x.id, asked |-> x.asked, wanted |-> x.wanted,
             values |-> x.values]
    OBVIOUS
  <2> HIDE DEF x
  <2>6. Carrying(x, gateway)
    BY <1>1, <2>1, <2>2, <2>3, <2>4, <2>5 DEF Carrying
  <2> QED
    BY <1>1, <2>1, <2>6, ClientStep DEF SubmissionInv, InProgress
<1> QED
  BY <1>3, <1>4

(* The stage and the values of a submission, changed together              *)
LEMMA AppliedTo ==
  ASSUME NEW c \in Clients, NEW v, requests = [d \in Clients |-> requests[d]],
         LET r == requests[c]
         IN  r = [stage |-> r.stage, id |-> r.id, asked |-> r.asked, wanted |-> r.wanted,
                  values |-> r.values],
         requests' = [requests EXCEPT ![c].stage = "translated", ![c].values = v]
  PROVE  LET r == requests[c]
         IN  requests' = [requests EXCEPT ![c] =
               [stage |-> "translated", id |-> r.id, asked |-> r.asked,
                wanted |-> r.wanted, values |-> v]]
<1> DEFINE r == requests[c]
           x == [stage |-> "translated", id |-> r.id, asked |-> r.asked,
                 wanted |-> r.wanted, values |-> v]
<1>1. r = [stage |-> r.stage, id |-> r.id, asked |-> r.asked, wanted |-> r.wanted,
           values |-> r.values]
  OBVIOUS
<1>2. requests' = [requests EXCEPT ![c] = [[r EXCEPT !.stage = "translated"]
                                             EXCEPT !.values = v]]
  OBVIOUS
<1> HIDE DEF r
<1>3. [[r EXCEPT !.stage = "translated"] EXCEPT !.values = v] = x
  <2>1. PICK stage, id, asked, wanted, values :
          r = [stage |-> stage, id |-> id, asked |-> asked, wanted |-> wanted,
               values |-> values]
    BY <1>1
  <2>2. r.id = id /\ r.asked = asked /\ r.wanted = wanted
    BY <2>1
  <2> DEFINE half == [stage |-> "translated", id |-> id, asked |-> asked,
                      wanted |-> wanted, values |-> values]
  <2>3. [r EXCEPT !.stage = "translated"] = half
    BY <2>1
  <2>4. [half EXCEPT !.values = v]
          = [stage |-> "translated", id |-> id, asked |-> asked, wanted |-> wanted,
             values |-> v]
    OBVIOUS
  <2> HIDE DEF half
  <2> QED
    BY <2>2, <2>3, <2>4
<1> QED
  BY <1>2, <1>3 DEF r

LEMMA ApplyStep == ASSUME SubmissionInv, NEW c \in Clients, Apply(c) PROVE SubmissionInv'
<1> DEFINE r == requests[c]
           doc == gateway.served[r.id].doc
           v == IF Translation /\ Translates(doc, r.wanted) THEN Translated(doc, r.values)
                ELSE r.values
           x == [stage |-> "translated", id |-> r.id, asked |-> r.asked,
                 wanted |-> r.wanted, values |-> v]
<1>1. UNCHANGED <<files, gateway, sent, uploaded>>
  BY DEF Apply
<1>2. Carrying(r, gateway)
  BY DEF SubmissionInv, InProgress, Apply, NoRequest
<1>3. requests' = [requests EXCEPT ![c].stage = "translated", ![c].values = v]
  BY DEF Apply, Workflow
<1>4. requests' = [requests EXCEPT ![c] = x]
  <2>1. /\ r = [stage |-> r.stage, id |-> r.id, asked |-> r.asked, wanted |-> r.wanted,
                values |-> r.values]
        /\ requests = [d \in Clients |-> requests[d]]
    BY <1>2 DEF Carrying, SubmissionInv
  <2> HIDE DEF v
  <2> QED
    BY <1>3, <2>1, AppliedTo
<1>5. /\ DOMAIN v = DOMAIN r.asked
      /\ \A id \in DOMAIN r.asked : IsValue(v[id]) /\ Carried(FieldOf(doc, id), r.asked[id], v[id])
  <2>1. /\ DOMAIN r.values = DOMAIN r.asked
        /\ \A id \in DOMAIN r.asked :
             IsValue(r.values[id]) /\ Carried(FieldOf(doc, id), r.asked[id], r.values[id])
    BY <1>2 DEF Carrying
  <2>2. CASE v = r.values
    BY <2>1, <2>2
  <2>3. CASE v = Translated(doc, r.values)
    <3> HIDE DEF v, r, doc
    <3>1. /\ DOMAIN v = DOMAIN r.values
          /\ \A id \in DOMAIN r.values :
               v[id] = IF FieldOf(doc, id).translatable
                       THEN [r.values[id] EXCEPT !.v = Effective(r.values[id].v)]
                       ELSE r.values[id]
      BY <2>3 DEF Translated
    <3>2. \A id \in DOMAIN r.values :
            \/ v[id] = r.values[id]
            \/ /\ FieldOf(doc, id).translatable
               /\ IsValue(v[id]) /\ v[id].kind = r.values[id].kind
      <4> TAKE id \in DOMAIN r.values
      <4>1. CASE FieldOf(doc, id).translatable
        <5>1. v[id] = [r.values[id] EXCEPT !.v = Effective(r.values[id].v)]
          BY <3>1, <4>1
        <5>2. IsValue(r.values[id])
          BY <2>1
        <5> QED
          BY <4>1, <5>1, <5>2, ValueKept
      <4>2. CASE ~FieldOf(doc, id).translatable
        BY <3>1, <4>2
      <4> QED
        BY <4>1, <4>2
    <3> QED
      BY <2>1, <3>1, <3>2 DEF Carried
  <2> QED
    BY <2>2, <2>3
<1> HIDE DEF v
<1>6. /\ x.stage = "translated" /\ x.id = r.id /\ x.asked = r.asked
      /\ x.wanted = r.wanted /\ x.values = v
      /\ x = [stage |-> x.stage, id |-> x.id, asked |-> x.asked, wanted |-> x.wanted,
              values |-> x.values]
  OBVIOUS
<1> HIDE DEF x
<1>7. Carrying(x, gateway)
  BY <1>2, <1>5, <1>6 DEF Carrying
<1> QED
  BY <1>1, <1>4, <1>7, ClientStep DEF SubmissionInv, InProgress

(* What binding makes of a submission that was accepted is what was asked  *)
LEMMA BoundAsAsked ==
  ASSUME NEW doc, Loads(doc), Shaped(doc), NEW asked, InputsAccepted(doc, asked),
         NEW values, DOMAIN values = DOMAIN asked,
         \A id \in DOMAIN asked :
           IsValue(asked[id]) /\ Carried(FieldOf(doc, id), asked[id], values[id]),
         NEW u, \A f \in ToSet(doc.fields) :
           f.type \in MediaTypes /\ f.id \in DOMAIN values => values[f.id].v \in u,
         NEW s, s.doc = doc, s.asked = asked, s.graph = BindValues(doc, doc.graph, values)
  PROVE  IsAsAsked(s, u)
<1>1. \A f \in ToSet(doc.fields) :
        /\ FieldOf(doc, f.id) = f /\ FieldFits(f, doc.graph)
        /\ f.type \in TextTypes \cup NumericTypes \cup MediaTypes \cup {"boolean", "select"}
  BY FieldOfItsId DEF Shaped
<1>2. \A f \in ToSet(doc.fields) : f.id \in DOMAIN asked => Accepts(f, asked[f.id])
  BY <1>1 DEF InputsAccepted
<1>3. FieldsAreMet(s)
  BY <1>1, <1>2, AcceptedMeets DEF FieldsAreMet, InputsAccepted, NothingMissing
<1>4. \A f \in ToSet(doc.fields) : f.id \in DOMAIN asked =>
        /\ IsWritten(Resolved(values[f.id]), asked[f.id])
        /\ Resolved(values[f.id]).kind = "file" =>
             f.type \in MediaTypes /\ Resolved(values[f.id]).v = values[f.id].v
  BY <1>1, <1>2, CarriedIsWritten
<1>5. DOMAIN s.graph = DOMAIN doc.graph
  BY DEF BindValues
<1>6. \A target \in DOMAIN doc.graph :
        /\ \A f \in ToSet(doc.fields) :
             f.id \in DOMAIN asked /\ target \in Targets(f) =>
               s.graph[target] = Resolved(values[f.id])
        /\ (\A f \in ToSet(doc.fields) :
              f.id \in DOMAIN asked => target \notin Targets(f)) =>
               s.graph[target] = doc.graph[target]
  BY BindingWrites
<1>7. InputsAreWritten(s)
  <2> SUFFICES ASSUME NEW target \in DOMAIN doc.graph
               PROVE  LET by == BoundTo(doc, asked, target) IN
                        IF by = {}
                        THEN s.graph[target] = doc.graph[target]
                        ELSE /\ doc.graph[target].kind # "wire"
                             /\ \A id \in by : IsWritten(s.graph[target], asked[id])
    BY <1>5 DEF InputsAreWritten
  <2>1. CASE BoundTo(doc, asked, target) = {}
    BY <1>6, <2>1 DEF BoundTo
  <2>2. ASSUME NEW id \in BoundTo(doc, asked, target)
        PROVE  /\ doc.graph[target].kind # "wire"
               /\ IsWritten(s.graph[target], asked[id])
    <3>1. PICK f \in ToSet(doc.fields) : f.id = id /\ target \in Targets(f)
      BY <2>2 DEF BoundTo
    <3>2. id \in DOMAIN asked
      BY <2>2 DEF BoundTo
    <3>3. doc.graph[target].kind # "wire"
      BY <1>1, <3>1 DEF FieldFits, BindFits, Bindable, Targets, ToSet
    <3> QED
      BY <1>4, <1>6, <3>1, <3>2, <3>3
  <2> QED
    BY <2>1, <2>2
<1>8. MediaIsIn(s, u)
  <2> SUFFICES ASSUME NEW target \in DOMAIN doc.graph, s.graph[target].kind = "file"
               PROVE  s.graph[target].v \in u
    BY <1>5 DEF MediaIsIn
  <2>1. doc.graph[target].kind # "file"
    BY DEF Shaped, Loads
  <2>2. PICK f \in ToSet(doc.fields) : f.id \in DOMAIN asked /\ target \in Targets(f)
    BY <1>6, <2>1
  <2> QED
    BY <1>4, <1>6, <2>2
<1> QED
  BY <1>3, <1>7, <1>8 DEF IsAsAsked

LEMMA BindStep == ASSUME SubmissionInv, NEW c \in Clients, Bind(c) PROVE SubmissionInv'
<1> DEFINE r == requests[c]
           w == gateway.served[r.id]
           x == [stage |-> "bound", id |-> r.id, asked |-> r.asked, wanted |-> r.wanted,
                 doc |-> w.doc, graph |-> BindValues(w.doc, w.graph, r.values)]
<1>1. /\ UNCHANGED <<files, gateway, sent>> /\ uploaded' = uploaded \cup HandedOver(c)
      /\ requests' = [requests EXCEPT ![c] = x] /\ Resolvable(c)
  BY DEF Bind, Workflow
<1>2. Carrying(r, gateway)
  BY DEF SubmissionInv, InProgress, Bind, NoRequest
<1>3. Loads(w.doc) /\ Shaped(w.doc) /\ w.graph = w.doc.graph
  BY <1>2, ServedLoads DEF SubmissionInv, ServesItsFiles, Carrying
<1>4. \A f \in ToSet(w.doc.fields) :
        f.type \in MediaTypes /\ f.id \in DOMAIN r.values => r.values[f.id].v \in HandedOver(c)
  <2> SUFFICES ASSUME NEW f \in ToSet(w.doc.fields), f.type \in MediaTypes,
                      f.id \in DOMAIN r.values
               PROVE  r.values[f.id].v \in HandedOver(c)
    OBVIOUS
  <2>1. PICK i \in DOMAIN w.doc.fields : w.doc.fields[i] = f
    BY DEF ToSet
  <2>2. i \in AskedMedia(c)
    BY <2>1 DEF AskedMedia, MediaFields, Workflow
  <2> QED
    BY <1>1, <2>1, <2>2 DEF HandedOver, Resolvable, Workflow
<1>5. /\ x.stage = "bound" /\ x.doc = w.doc /\ x.asked = r.asked
      /\ x.graph = BindValues(w.doc, w.doc.graph, r.values)
  BY <1>3
<1> HIDE DEF x
<1>6. /\ InputsAccepted(w.doc, r.asked) /\ DOMAIN r.values = DOMAIN r.asked
      /\ \A id \in DOMAIN r.asked :
           /\ IsValue(r.asked[id])
           /\ Carried(FieldOf(w.doc, id), r.asked[id], r.values[id])
      /\ gateway.up
  BY <1>2, InputsAssumption DEF Carrying
<1> HIDE DEF r, w
<1>7. IsAsAsked(x, uploaded')
  BY <1>1, <1>3, <1>4, <1>5, <1>6, BoundAsAsked
<1>8. \A s \in sent' : IsAsAsked(s, uploaded')
  BY <1>1, UploadsOnlyGrow DEF SubmissionInv
<1> QED
  BY <1>1, <1>5, <1>6, <1>7, <1>8, ClientStep DEF InProgress

LEMMA BindFailsStep == ASSUME SubmissionInv, NEW c \in Clients, BindFails(c) PROVE SubmissionInv'
<1>1. /\ UNCHANGED <<files, gateway, sent>> /\ uploaded \subseteq uploaded' /\ Refuse(c)
  BY DEF BindFails
<1>2. \A s \in sent' : IsAsAsked(s, uploaded')
  BY <1>1, UploadsOnlyGrow DEF SubmissionInv
<1> QED
  BY <1>1, <1>2, RefuseStep

LEMMA ApplyFailsStep == ASSUME SubmissionInv, NEW c \in Clients, ApplyFails(c) PROVE SubmissionInv'
BY RefuseStep DEF ApplyFails, SubmissionInv

LEMMA SendStep == ASSUME SubmissionInv, NEW c \in Clients, Send(c) PROVE SubmissionInv'
<1> DEFINE r == requests[c]
           prompt == [doc |-> r.doc, asked |-> r.asked, wanted |-> r.wanted,
                      graph |-> r.graph]
<1>1. /\ UNCHANGED <<files, gateway, uploaded>> /\ Refuse(c) /\ r.stage = "bound"
      /\ sent' \in {sent, sent \cup {prompt}}
  BY DEF Send
<1>2. IsAsAsked(r, uploaded)
  BY <1>1 DEF SubmissionInv, InProgress, Carrying, NoRequest
<1>3. /\ prompt.doc = r.doc /\ prompt.asked = r.asked /\ prompt.graph = r.graph
  OBVIOUS
<1> HIDE DEF prompt
<1>4. IsAsAsked(prompt, uploaded)
  BY <1>2, <1>3 DEF IsAsAsked, FieldsAreMet, InputsAreWritten, MediaIsIn
<1>5. \A s \in sent' : IsAsAsked(s, uploaded')
  BY <1>1, <1>4 DEF SubmissionInv
<1> QED
  BY <1>1, <1>5, RefuseStep

LEMMA SubmissionNextInv ==
  ASSUME SubmissionInv, [SubmissionNext]_submissionVars PROVE SubmissionInv'
<1>1. CASE \E p \in Paths : Edit(p)
  BY <1>1, EditStep
<1>2. CASE Start \/ Stop
  BY <1>2, StartStep, StopStep
<1>3. CASE (\E m \in Media : Expire(m)) \/ ComfyGoesOrComes
  BY <1>3, OtherStep DEF Expire, ComfyGoesOrComes, SubmissionInv
<1>4. ASSUME NEW c \in Clients,
             \/ GetWorkflow(c) \/ Submit(c) \/ Apply(c) \/ ApplyFails(c)
             \/ Bind(c) \/ BindFails(c) \/ Send(c)
      PROVE  SubmissionInv'
  <2>1. CASE GetWorkflow(c)
    BY <2>1, OtherStep DEF GetWorkflow, SubmissionInv
  <2> QED
    BY <1>4, <2>1, SubmitStep, ApplyStep, ApplyFailsStep, BindStep, BindFailsStep, SendStep
<1>5. CASE UNCHANGED submissionVars
  BY <1>5, OtherStep DEF submissionVars, SubmissionInv
<1> QED
  BY <1>1, <1>2, <1>3, <1>4, <1>5 DEF SubmissionNext

LEMMA SubmissionInitInv == SubmissionInit => SubmissionInv
<1> SUFFICES ASSUME SubmissionInit PROVE SubmissionInv
  OBVIOUS
<1>1. FilesOf(FirstFiles)
  BY SubmissionAssumption DEF FilesOf
<1>2. ServesItsFiles /\ FilesOf(files) /\ FilesOf(gateway.files)
  BY <1>1 DEF SubmissionInit, ServesItsFiles
<1> QED
  BY <1>2 DEF SubmissionInv, SubmissionInit, InProgress

(* Every prompt ComfyUI is sent is its own submission's, over the graph    *)
(* the curator wrote (validation.py, binding.py, jobs.py _submit).         *)
THEOREM PromptsAreAsAsked == SubmissionSpec => []SentIsWhatWasAsked
<1>1. SubmissionInv => SentIsWhatWasAsked
  BY DEF SubmissionInv, SentIsWhatWasAsked, IsAsAsked
<1> QED
  BY <1>1, SubmissionInitInv, SubmissionNextInv, PTL DEF SubmissionSpec

-----------------------------------------------------------------------------
(* What translation does to one text, for texts of any length              *)

Below == {p \in Nat \X Nat : p[1] < p[2]}

LEMMA BelowWF == IsWellFoundedOn(Below, Nat)
<1>1. Below = OpToRel(<, Nat)
  BY Zenon DEF Below, OpToRel
<1> QED BY Zenon, <1>1, NatLessThanWellFounded

(* What no number is the first to fail, none fails                         *)
LEMMA NoneFails ==
  ASSUME NEW Bad, Bad \subseteq Nat, \A x \in Bad : \E y \in Bad : y < x
  PROVE  Bad = {}
<1> SUFFICES ASSUME Bad # {} PROVE FALSE
  OBVIOUS
<1>1. \A a, b \in Nat : a < b => <<a, b>> \in Below
  BY DEF Below
<1>2. PICK x \in Bad : \A y \in Bad : ~(<<y, x>> \in Below)
  BY BelowWF, WFMin
<1> QED
  BY <1>1, <1>2

(* A function may be defined by what it does at lower ranks                *)
Ranked(D, V, rank, bound, step) ==
  /\ V # {} /\ bound \in Nat /\ rank \in [D -> Nat] /\ \A x \in D : rank[x] < bound
  /\ step \in [D -> [[D -> V] -> V]]
  /\ \A x \in D : \A f, g \in [D -> V] :
       (\A y \in D : rank[y] < rank[x] => f[y] = g[y]) => step[x][f] = step[x][g]

Follows(D, V, step) == {f \in [D -> V] : \A x \in D : f[x] = step[x][f]}

LEMMA DefinedByRank ==
  ASSUME NEW D, NEW V, NEW rank, NEW bound, NEW step, Ranked(D, V, rank, bound, step)
  PROVE  Follows(D, V, step) # {}
<1> USE DEF Ranked
<1> DEFINE Solves(f, k) == \A x \in D : rank[x] < k => f[x] = step[x][f]
           Bad == {k \in Nat : ~ \E f \in [D -> V] : Solves(f, k)}
<1>1. 0 \notin Bad
  <2>1. PICK v : v \in V
    OBVIOUS
  <2>2. [x \in D |-> v] \in [D -> V] /\ Solves([x \in D |-> v], 0)
    BY <2>1
  <2> QED
    BY <2>2
<1>2. ASSUME NEW k \in Nat, k \notin Bad PROVE k + 1 \notin Bad
  <2>1. PICK f \in [D -> V] : Solves(f, k)
    BY <1>2
  <2> DEFINE g == [x \in D |-> IF rank[x] < k THEN f[x] ELSE step[x][f]]
  <2>2. g \in [D -> V] /\ \A x \in D : rank[x] < k => g[x] = f[x]
    OBVIOUS
  <2>3. \A x \in D : ~(rank[x] < k) => g[x] = step[x][f]
    OBVIOUS
  <2> HIDE DEF g
  <2>4. ASSUME NEW x \in D, rank[x] < k + 1 PROVE g[x] = step[x][g]
    <3>1. \A y \in D : rank[y] < rank[x] => f[y] = g[y]
      BY <2>2, <2>4
    <3>2. step[x][f] = step[x][g]
      BY <2>2, <3>1
    <3> QED
      BY <2>1, <2>2, <2>3, <3>2
  <2>5. Solves(g, k + 1)
    BY <2>4
  <2> QED
    BY <2>2, <2>5
<1>3. Bad = {}
  <2> HIDE DEF Bad
  <2>1. Bad \subseteq Nat
    BY DEF Bad
  <2>2. ASSUME NEW k \in Bad PROVE \E j \in Bad : j < k
    <3>1. k \in Nat \ {0} /\ k - 1 \in Nat /\ (k - 1) + 1 = k
      BY <1>1, <2>1, <2>2
    <3>2. k - 1 \in Bad
      BY <1>2, <2>2, <3>1
    <3> QED
      BY <3>1, <3>2
  <2> QED
    BY <2>1, <2>2, NoneFails
<1>4. PICK f \in [D -> V] : Solves(f, bound)
  BY <1>3
<1> QED
  BY <1>4 DEF Follows

-----------------------------------------------------------------------------
(* Reading a text character by character                                   *)

MarksOf == {"outside", "inside", "escaping", "closed"}
Met == [mark : MarksOf, literals : Seq(Characters), scripts : SUBSET ToSet(Sources)]
Fresh == [mark |-> "outside", literals |-> << >>, scripts |-> {}]

LEMMA ReadIsMet ==
  ASSUME NEW met \in Met, NEW char \in Characters
  PROVE  /\ Read(met, char) \in Met
         /\ Read(met, char).mark = MarkAfter(met.mark, char)
<1>1. MarkAfter(met.mark, char) \in MarksOf
  BY DEF MarkAfter, Met, MarksOf
<1>2. Append(met.literals, char) \in Seq(Characters)
  BY AppendProperties DEF Met
<1> QED
  BY <1>1, <1>2 DEF Read, Met

IsReading(text, h) ==
  h = [i \in 0..Len(text) |-> IF i = 0 THEN Fresh ELSE Read(h[i - 1], text[i])]

LEMMA FreshIsMet == Fresh \in Met
BY DEF Fresh, Met, MarksOf

LEMMA ReadingsExist ==
  ASSUME NEW text \in Seq(Characters)
  PROVE  \E h \in [0..Len(text) -> Met] : IsReading(text, h)
<1> DEFINE D == 0..Len(text)
           At(f, i) == IF i = 0 THEN Fresh ELSE Read(f[i - 1], text[i])
           step == [i \in D |-> [f \in [D -> Met] |-> At(f, i)]]
           rank == [i \in D |-> i]
<1>1. Len(text) \in Nat /\ rank \in [D -> Nat]
  OBVIOUS
<1>2. \A f \in [D -> Met] : \A i \in D : At(f, i) \in Met
  <2> TAKE f \in [D -> Met]
  <2> TAKE i \in D
  <2>1. CASE i = 0
    BY <2>1, FreshIsMet
  <2>2. CASE i # 0
    <3>1. i - 1 \in D /\ i \in 1..Len(text)
      BY <1>1, <2>2
    <3>2. f[i - 1] \in Met /\ text[i] \in Characters
      BY <3>1
    <3> QED
      BY <2>2, <3>2, ReadIsMet
  <2> QED
    BY <2>1, <2>2
<1>3. \A i \in D : \A f, g \in [D -> Met] :
        (\A y \in D : y < i => f[y] = g[y]) => At(f, i) = At(g, i)
  <2> SUFFICES ASSUME NEW i \in D, NEW f \in [D -> Met], NEW g \in [D -> Met],
                      \A y \in D : y < i => f[y] = g[y]
               PROVE  At(f, i) = At(g, i)
    OBVIOUS
  <2>1. i # 0 => i - 1 \in D /\ i - 1 < i
    BY <1>1
  <2> QED
    BY <2>1
<1> HIDE DEF At
<1>4. step \in [D -> [[D -> Met] -> Met]]
  BY <1>2
<1>5. \A i \in D : rank[i] = i /\ \A f \in [D -> Met] : step[i][f] = At(f, i)
  OBVIOUS
<1> HIDE DEF step, rank, D
<1>6. \A x \in D : \A f, g \in [D -> Met] :
        (\A y \in D : rank[y] < rank[x] => f[y] = g[y]) => step[x][f] = step[x][g]
  BY <1>3, <1>5
<1>7. Len(text) + 1 \in Nat /\ \A x \in D : rank[x] < Len(text) + 1
  BY <1>1, <1>5 DEF D
<1>8. PICK h \in [D -> Met] : \A x \in D : h[x] = step[x][h]
  <2>1. Ranked(D, Met, rank, Len(text) + 1, step)
    BY <1>1, <1>4, <1>6, <1>7, FreshIsMet DEF Ranked
  <2>2. Follows(D, Met, step) # {}
    BY Zenon, <2>1, DefinedByRank
  <2> QED
    BY <2>2 DEF Follows
<1>9. h = [i \in D |-> At(h, i)]
  BY <1>5, <1>8
<1> QED
  BY <1>9 DEF IsReading, At, D

(* Two readings agree as far as their texts do                             *)
LEMMA ReadingsAgree ==
  ASSUME NEW a \in Seq(Characters), NEW b \in Seq(Characters), NEW h, NEW j,
         IsReading(a, h), IsReading(b, j), NEW n \in Nat, n <= Len(a), n <= Len(b),
         \A i \in 1..n : a[i] = b[i]
  PROVE  h[n] = j[n]
<1> DEFINE Bad == {k \in 0..n : h[k] # j[k]}
<1>1. Len(a) \in Nat /\ Len(b) \in Nat
  OBVIOUS
<1>2. ASSUME NEW k \in Bad PROVE \E i \in Bad : i < k
  <2>1. /\ h[k] = IF k = 0 THEN Fresh ELSE Read(h[k - 1], a[k])
        /\ j[k] = IF k = 0 THEN Fresh ELSE Read(j[k - 1], b[k])
    <3>1. k \in 0..Len(a) /\ k \in 0..Len(b)
      BY <1>1, <1>2
    <3>2. /\ h = [i \in 0..Len(a) |-> IF i = 0 THEN Fresh ELSE Read(h[i - 1], a[i])]
          /\ j = [i \in 0..Len(b) |-> IF i = 0 THEN Fresh ELSE Read(j[i - 1], b[i])]
      BY Zenon DEF IsReading
    <3> QED
      BY <3>1, <3>2
  <2>2. k # 0 /\ k \in 1..n /\ k - 1 \in 0..n
    BY <1>2, <2>1
  <2>3. h[k - 1] # j[k - 1]
    BY <1>2, <2>1, <2>2
  <2> QED
    BY <2>2, <2>3
<1>3. Bad = {}
  <2>1. Bad \subseteq Nat
    OBVIOUS
  <2> HIDE DEF Bad
  <2> QED
    BY <1>2, <2>1, NoneFails
<1> QED
  BY <1>3

LEMMA ReadingIsAReading ==
  ASSUME NEW text \in Seq(Characters)
  PROVE  \E h : IsReading(text, h) /\ Reading(text) = h[Len(text)] /\ Reading(text) \in Met
<1> DEFINE After(f) == [i \in 0..Len(text) |->
                          IF i = 0 THEN [mark |-> "outside", literals |-> << >>, scripts |-> {}]
                          ELSE Read(f[i - 1], text[i])]
           after == CHOOSE f : f = After(f)
<1>1. Reading(text) = after[Len(text)]
  BY Zenon DEF Reading
<1>2. \A h : IsReading(text, h) <=> h = After(h)
  BY DEF IsReading, Fresh
<1>3. PICK h \in [0..Len(text) -> Met] : h = After(h)
  <2> HIDE DEF After
  <2> QED
    BY <1>2, ReadingsExist
<1>4. after = After(after)
  <2> HIDE DEF After
  <2> QED
    BY Zenon, <1>3
<1>5. IsReading(text, h) /\ IsReading(text, after)
  <2> HIDE DEF After, after
  <2> QED
    BY <1>2, <1>3, <1>4
<1> HIDE DEF after
<1>6. Len(text) \in Nat
  OBVIOUS
<1>7. after[Len(text)] = h[Len(text)]
  BY <1>5, <1>6, ReadingsAgree
<1>8. h[Len(text)] \in Met
  BY <1>3, <1>6
<1> QED
  BY <1>1, <1>5, <1>7, <1>8

LEMMA ReadingNothing == Reading(<< >>) = Fresh
<1>1. << >> \in Seq(Characters) /\ Len(<< >>) = 0
  OBVIOUS
<1>2. PICK h : IsReading(<< >>, h) /\ Reading(<< >>) = h[0]
  BY <1>1, ReadingIsAReading
<1> QED
  BY <1>1, <1>2 DEF IsReading

LEMMA ReadingOneMore ==
  ASSUME NEW text \in Seq(Characters), NEW char \in Characters
  PROVE  Reading(Append(text, char)) = Read(Reading(text), char)
<1> DEFINE more == Append(text, char)
           n == Len(text)
<1>1. /\ more \in Seq(Characters) /\ Len(more) = n + 1 /\ n \in Nat
      /\ more[n + 1] = char /\ \A i \in 1..n : text[i] = more[i]
  OBVIOUS
<1> HIDE DEF more
<1>2. PICK h : IsReading(text, h) /\ Reading(text) = h[n]
  BY ReadingIsAReading
<1>3. PICK j : IsReading(more, j) /\ Reading(more) = j[n + 1]
  BY <1>1, ReadingIsAReading
<1>4. j[n + 1] = Read(j[n], char)
  <2>1. n + 1 \in 0..Len(more) /\ n + 1 # 0 /\ (n + 1) - 1 = n
    BY <1>1
  <2> QED
    BY <1>1, <1>3, <2>1 DEF IsReading
<1>5. h[n] = j[n]
  BY <1>1, <1>2, <1>3, ReadingsAgree
<1> QED
  BY <1>2, <1>3, <1>4, <1>5 DEF more

-----------------------------------------------------------------------------
(* Pieces put together                                                     *)

(* What no number up to n is the last to fail, none fails                  *)
LEMMA NoneFailsLater ==
  ASSUME NEW n \in Nat, NEW Bad, Bad \subseteq 0..n, \A x \in Bad : \E y \in Bad : x < y
  PROVE  Bad = {}
<1> DEFINE Left == {k \in Nat : n - k \in Bad}
<1>1. \A x \in Left : \E y \in Left : y < x
  <2> SUFFICES ASSUME NEW x \in Left PROVE \E y \in Left : y < x
    OBVIOUS
  <2>1. PICK y \in Bad : n - x < y
    OBVIOUS
  <2>2. n - y \in Left /\ n - y < x
    BY <2>1
  <2> QED
    BY <2>2
<1>2. Left \subseteq Nat
  OBVIOUS
<1> HIDE DEF Left
<1>3. Left = {}
  BY <1>1, <1>2, NoneFails
<1>4. \A y \in Bad : n - y \in Left
  BY DEF Left
<1> QED
  BY <1>3, <1>4

Texts == Seq(Characters)

IsJoining(pieces, h) ==
  h = [i \in 1..(Len(pieces) + 1) |->
         IF i > Len(pieces) THEN << >> ELSE pieces[i] \o h[i + 1]]

LEMMA JoiningsExist ==
  ASSUME NEW pieces \in Seq(Texts)
  PROVE  \E h \in [1..(Len(pieces) + 1) -> Texts] : IsJoining(pieces, h)
<1> DEFINE n == Len(pieces)
           D == 1..(n + 1)
           At(f, i) == IF i > n THEN << >> ELSE pieces[i] \o f[i + 1]
           step == [i \in D |-> [f \in [D -> Texts] |-> At(f, i)]]
           rank == [i \in D |-> n + 1 - i]
<1>1. n \in Nat /\ rank \in [D -> Nat]
  OBVIOUS
<1>2. \A f \in [D -> Texts] : \A i \in D : At(f, i) \in Texts
  <2> TAKE f \in [D -> Texts]
  <2> TAKE i \in D
  <2>1. CASE i > n
    BY <2>1 DEF Texts
  <2>2. CASE ~(i > n)
    <3>1. i + 1 \in D /\ i \in 1..n
      BY <1>1, <2>2
    <3>2. f[i + 1] \in Texts /\ pieces[i] \in Texts
      BY <3>1
    <3>3. pieces[i] \o f[i + 1] \in Texts
      BY <3>2, ConcatProperties DEF Texts
    <3> QED
      BY <2>2, <3>3
  <2> QED
    BY <2>1, <2>2
<1>3. \A i \in D : \A f, g \in [D -> Texts] :
        (\A y \in D : i < y => f[y] = g[y]) => At(f, i) = At(g, i)
  <2> SUFFICES ASSUME NEW i \in D, NEW f \in [D -> Texts], NEW g \in [D -> Texts],
                      \A y \in D : i < y => f[y] = g[y]
               PROVE  At(f, i) = At(g, i)
    OBVIOUS
  <2>1. ~(i > n) => i + 1 \in D /\ i < i + 1
    BY <1>1
  <2> QED
    BY <2>1
<1> HIDE DEF At
<1>4. step \in [D -> [[D -> Texts] -> Texts]]
  BY <1>2
<1>5. \A i \in D : rank[i] = n + 1 - i /\ \A f \in [D -> Texts] : step[i][f] = At(f, i)
  OBVIOUS
<1>6. \A i, y \in D : i < y => rank[y] < rank[i]
  BY <1>1, <1>5
<1>7. n + 1 \in Nat /\ \A x \in D : rank[x] < n + 1
  BY <1>1, <1>5
<1> HIDE DEF step, rank, D
<1>8. \A x \in D : \A f, g \in [D -> Texts] :
        (\A y \in D : rank[y] < rank[x] => f[y] = g[y]) => step[x][f] = step[x][g]
  BY <1>3, <1>5, <1>6
<1>9. PICK h \in [D -> Texts] : \A x \in D : h[x] = step[x][h]
  <2>1. Texts # {}
    BY DEF Texts
  <2>2. Ranked(D, Texts, rank, n + 1, step)
    BY <1>1, <1>4, <1>7, <1>8, <2>1 DEF Ranked
  <2>3. Follows(D, Texts, step) # {}
    BY Zenon, <2>2, DefinedByRank
  <2> QED
    BY <2>3 DEF Follows
<1>10. h = [i \in D |-> At(h, i)]
  BY <1>5, <1>9
<1> QED
  BY <1>10 DEF IsJoining, At, D

LEMMA JoinedIsAJoining ==
  ASSUME NEW pieces \in Seq(Texts)
  PROVE  \E h \in [1..(Len(pieces) + 1) -> Texts] :
           IsJoining(pieces, h) /\ Joined(pieces) = h[1]
<1> DEFINE from == CHOOSE f : IsJoining(pieces, f)
<1>1. Joined(pieces) = from[1]
  BY Zenon DEF Joined, IsJoining
<1>2. IsJoining(pieces, from)
  BY Zenon, JoiningsExist
<1> HIDE DEF from
<1>3. PICK h \in [1..(Len(pieces) + 1) -> Texts] : IsJoining(pieces, h)
  BY JoiningsExist
<1>4. from = h
  <2> DEFINE n == Len(pieces)
             Bad == {i \in 1..(n + 1) : from[i] # h[i]}
  <2>1. n \in Nat
    OBVIOUS
  <2>2. /\ from = [i \in 1..(n + 1) |-> IF i > n THEN << >> ELSE pieces[i] \o from[i + 1]]
        /\ h = [i \in 1..(n + 1) |-> IF i > n THEN << >> ELSE pieces[i] \o h[i + 1]]
    BY Zenon, <1>2, <1>3 DEF IsJoining
  <2>3. ASSUME NEW i \in Bad PROVE \E j \in Bad : i < j
    <3>1. /\ from[i] = IF i > n THEN << >> ELSE pieces[i] \o from[i + 1]
          /\ h[i] = IF i > n THEN << >> ELSE pieces[i] \o h[i + 1]
      BY <2>2, <2>3
    <3>2. ~(i > n) /\ from[i + 1] # h[i + 1]
      BY <2>3, <3>1
    <3>3. i + 1 \in Bad /\ i < i + 1
      BY <2>1, <2>3, <3>2
    <3> QED
      BY <3>3
  <2>4. Bad \subseteq 0..(n + 1) /\ n + 1 \in Nat
    BY <2>1
  <2>5. Bad = {}
    <3> HIDE DEF Bad, n
    <3> QED
      BY <2>3, <2>4, NoneFailsLater
  <2>6. \A i \in 1..(n + 1) : from[i] = h[i]
    BY <2>5
  <2> QED
    BY <2>2, <2>6
<1> QED
  BY <1>1, <1>2, <1>3, <1>4

LEMMA JoinedNothing == Joined(<< >>) = << >>
<1>1. << >> \in Seq(Texts) /\ Len(<< >>) = 0
  OBVIOUS
<1>2. PICK h : IsJoining(<< >>, h) /\ Joined(<< >>) = h[1]
  BY <1>1, JoinedIsAJoining
<1> QED
  BY <1>1, <1>2 DEF IsJoining

LEMMA JoinedOneMore ==
  ASSUME NEW first \in Texts, NEW rest \in Seq(Texts)
  PROVE  Joined(<<first>> \o rest) = first \o Joined(rest) /\ Joined(rest) \in Texts
<1> DEFINE all == <<first>> \o rest
           n == Len(rest)
<1>1. /\ all \in Seq(Texts) /\ Len(all) = n + 1 /\ n \in Nat
      /\ all[1] = first /\ \A i \in 1..n : all[i + 1] = rest[i]
  OBVIOUS
<1> HIDE DEF all
<1>2. PICK h \in [1..(n + 1) -> Texts] : IsJoining(rest, h) /\ Joined(rest) = h[1]
  BY JoinedIsAJoining
<1>3. PICK g : IsJoining(all, g) /\ Joined(all) = g[1]
  BY <1>1, JoinedIsAJoining
<1>4. /\ g = [i \in 1..(n + 2) |-> IF i > n + 1 THEN << >> ELSE all[i] \o g[i + 1]]
      /\ h = [i \in 1..(n + 1) |-> IF i > n THEN << >> ELSE rest[i] \o h[i + 1]]
  <2>1. (n + 1) + 1 = n + 2
    BY <1>1
  <2> QED
    BY <1>1, <1>2, <1>3, <2>1 DEF IsJoining
<1> DEFINE Bad == {i \in 1..(n + 1) : g[i + 1] # h[i]}
<1>5. ASSUME NEW i \in Bad PROVE \E j \in Bad : i < j
  <2>1. /\ g[i + 1] = IF i > n THEN << >> ELSE all[i + 1] \o g[(i + 1) + 1]
        /\ h[i] = IF i > n THEN << >> ELSE rest[i] \o h[i + 1]
    <3>1. i \in 1..(n + 1) /\ i + 1 \in 1..(n + 2) /\ (i + 1 > n + 1 <=> i > n)
      BY <1>1, <1>5
    <3> QED
      BY <1>4, <3>1
  <2>2. g[i + 1] # h[i] /\ i \in 1..(n + 1)
    BY <1>5
  <2>3. ~(i > n)
    BY <2>1, <2>2
  <2>4. all[i + 1] = rest[i]
    BY <1>1, <2>2, <2>3
  <2>5. g[(i + 1) + 1] # h[i + 1]
    BY Zenon, <2>1, <2>2, <2>3, <2>4
  <2>6. i + 1 \in Bad /\ i < i + 1
    BY <1>1, <2>2, <2>3, <2>5
  <2> QED
    BY <2>6
<1>6. Bad \subseteq 0..(n + 1) /\ n + 1 \in Nat
  BY <1>1
<1>7. Bad = {}
  <2> HIDE DEF Bad, n
  <2> QED
    BY <1>5, <1>6, NoneFailsLater
<1>8. g[2] = h[1]
  BY <1>1, <1>7
<1>9. g[1] = all[1] \o g[2]
  <2>1. 1 \in 1..(n + 2) /\ ~(1 > n + 1) /\ 1 + 1 = 2
    BY <1>1
  <2>2. g[1] = all[1] \o g[1 + 1]
    BY <1>4, <2>1
  <2> QED
    BY <2>1, <2>2
<1>10. h[1] \in Texts
  BY <1>1, <1>2
<1>11. Joined(all) = first \o Joined(rest)
  BY Zenon, <1>1, <1>2, <1>3, <1>8, <1>9
<1> QED
  BY <1>2, <1>10, <1>11 DEF all

-----------------------------------------------------------------------------
(* Readings of parts of a text                                             *)

LEMMA OneLonger ==
  ASSUME NEW text \in Texts, NEW s \in Nat, NEW e \in Nat, 1 <= s, s <= e, e <= Len(text)
  PROVE  /\ SubSeq(text, s, e) \in Texts /\ SubSeq(text, s, e - 1) \in Texts
         /\ text[e] \in Characters
         /\ SubSeq(text, s, e) = Append(SubSeq(text, s, e - 1), text[e])
<1> USE DEF Texts
<1>1. SubSeq(text, s, e - 1) \in Texts /\ Len(SubSeq(text, s, e - 1)) = e - s
      /\ \A i \in 1..(e - s) : SubSeq(text, s, e - 1)[i] = text[s + i - 1]
  OBVIOUS
<1>2. SubSeq(text, s, e) \in Texts /\ Len(SubSeq(text, s, e)) = e - s + 1
      /\ \A i \in 1..(e - s + 1) : SubSeq(text, s, e)[i] = text[s + i - 1]
  OBVIOUS
<1>3. text[e] \in Characters
  OBVIOUS
<1> DEFINE short == SubSeq(text, s, e - 1)
           long == SubSeq(text, s, e)
<1> HIDE DEF short, long
<1>4. Append(short, text[e]) \in Texts /\ Len(Append(short, text[e])) = e - s + 1
      /\ \A i \in 1..(e - s) : Append(short, text[e])[i] = text[s + i - 1]
      /\ Append(short, text[e])[e - s + 1] = text[e]
  BY <1>1, <1>3 DEF short
<1>5. \A i \in 1..(e - s + 1) : long[i] = Append(short, text[e])[i]
  BY <1>2, <1>4 DEF long
<1>6. long = Append(short, text[e])
  BY <1>2, <1>4, <1>5, SeqEqual DEF long
<1> QED
  BY <1>1, <1>2, <1>3, <1>6 DEF short, long

LEMMA ReadingIsMet == ASSUME NEW text \in Texts PROVE Reading(text) \in Met
BY ReadingIsAReading DEF Texts

(* A text that follows one whose literals are closed is read as it is read *)
(* alone                                                                   *)
Open == {"outside", "closed"}

Together(r, a, b) ==
  /\ r.literals = a.literals \o b.literals
  /\ r.scripts = a.scripts \cup b.scripts

LEMMA ConcatOneMore ==
  ASSUME NEW s \in Texts, NEW t \in Texts, NEW x \in Characters
  PROVE  s \o Append(t, x) = Append(s \o t, x)
<1> USE DEF Texts
<1>1. s \o Append(t, x) \in Texts /\ Append(s \o t, x) \in Texts
  OBVIOUS
<1>2. Len(s \o Append(t, x)) = Len(Append(s \o t, x))
  OBVIOUS
<1>3. \A i \in 1..Len(s \o Append(t, x)) : (s \o Append(t, x))[i] = Append(s \o t, x)[i]
  OBVIOUS
<1> QED
  BY <1>1, <1>2, <1>3, SeqEqual

LEMMA ReadTogether ==
  ASSUME NEW r \in Met, NEW a \in Met, NEW b \in Met, NEW char \in Characters,
         Together(r, a, b), r.mark = b.mark \/ (r.mark \in Open /\ b.mark \in Open)
  PROVE  /\ Together(Read(r, char), a, Read(b, char))
         /\ Read(r, char).mark = Read(b, char).mark
<1>1. MarkAfter(r.mark, char) = MarkAfter(b.mark, char)
  BY DEF MarkAfter, Open
<1>2. a.literals \o Append(b.literals, char) = Append(a.literals \o b.literals, char)
  <2>1. a.literals \in Texts /\ b.literals \in Texts
    BY DEF Met, Texts
  <2> QED
    BY <2>1, ConcatOneMore
<1> DEFINE m == MarkAfter(b.mark, char)
<1> HIDE DEF m
<1>3. CASE m = "outside"
  <2> DEFINE new == {char} \cap ToSet(Sources)
  <2>1. /\ Read(r, char) = [mark |-> m, literals |-> r.literals, scripts |-> r.scripts \cup new]
        /\ Read(b, char) = [mark |-> m, literals |-> b.literals, scripts |-> b.scripts \cup new]
    BY Zenon, <1>1, <1>3 DEF Read, m
  <2> HIDE DEF new
  <2>2. /\ Read(r, char).mark = m /\ Read(b, char).mark = m
        /\ Read(r, char).literals = r.literals /\ Read(b, char).literals = b.literals
        /\ Read(r, char).scripts = r.scripts \cup new
        /\ Read(b, char).scripts = b.scripts \cup new
    BY <2>1
  <2> QED
    BY <2>2 DEF Together
<1>4. CASE m # "outside"
  <2>1. /\ Read(r, char) = [mark |-> m, literals |-> Append(r.literals, char),
                            scripts |-> r.scripts]
        /\ Read(b, char) = [mark |-> m, literals |-> Append(b.literals, char),
                            scripts |-> b.scripts]
    BY Zenon, <1>1, <1>4 DEF Read, m
  <2>2. /\ Read(r, char).mark = m /\ Read(b, char).mark = m
        /\ Read(r, char).literals = Append(r.literals, char)
        /\ Read(b, char).literals = Append(b.literals, char)
        /\ Read(r, char).scripts = r.scripts /\ Read(b, char).scripts = b.scripts
    BY <2>1
  <2> QED
    BY Zenon, <1>2, <2>2 DEF Together
<1> QED
  BY <1>3, <1>4

LEMMA ReadingOfTwo ==
  ASSUME NEW a \in Texts, NEW b \in Texts, Reading(a).mark \in Open \/ b = << >>
  PROVE  /\ a \o b \in Texts
         /\ Together(Reading(a \o b), Reading(a), Reading(b))
<1>1. Reading(a) \in Met /\ a \o b \in Texts
  BY ReadingIsMet, ConcatProperties DEF Texts
<1>2. a \o << >> = a /\ Reading(<< >>) = Fresh
  BY ReadingNothing DEF Texts
<1>3. Together(Reading(a), Reading(a), Fresh)
  BY <1>1 DEF Together, Fresh, Met
<1>4. CASE b = << >>
  BY <1>1, <1>2, <1>3, <1>4
<1>5. CASE Reading(a).mark \in Open
  <2> DEFINE n == Len(b)
             part(k) == SubSeq(b, 1, k)
             r(k) == Reading(a \o part(k))
             l(k) == Reading(part(k))
             Agree(k) == /\ Together(r(k), Reading(a), l(k))
                         /\ r(k).mark = l(k).mark \/ (r(k).mark \in Open /\ l(k).mark \in Open)
             Bad == {k \in 0..n : ~Agree(k)}
  <2>1. n \in Nat /\ part(0) = << >> /\ part(n) = b
    BY DEF Texts
  <2>2. Agree(0)
    <3>1. r(0) = Reading(a) /\ l(0) = Fresh
      BY <1>2, <2>1
    <3>2. Fresh.mark \in Open
      BY DEF Fresh, Open
    <3> HIDE DEF r, l
    <3> QED
      BY <1>3, <1>5, <3>1, <3>2
  <2>3. ASSUME NEW k \in 1..n, Agree(k - 1) PROVE Agree(k)
    <3>1. /\ part(k) \in Texts /\ part(k - 1) \in Texts /\ b[k] \in Characters
          /\ part(k) = Append(part(k - 1), b[k])
      <4>1. k \in Nat /\ 1 \in Nat /\ 1 <= 1 /\ 1 <= k /\ k <= Len(b)
        BY <2>1
      <4> QED
        BY <4>1, OneLonger
    <3> HIDE DEF part
    <3>2. /\ a \o part(k - 1) \in Texts
          /\ a \o part(k) = Append(a \o part(k - 1), b[k])
      BY <3>1 DEF Texts
    <3>3. r(k) = Read(r(k - 1), b[k]) /\ l(k) = Read(l(k - 1), b[k])
      <4>1. Reading(Append(part(k - 1), b[k])) = Read(Reading(part(k - 1)), b[k])
        BY <3>1, ReadingOneMore DEF Texts
      <4>2. Reading(Append(a \o part(k - 1), b[k])) = Read(Reading(a \o part(k - 1)), b[k])
        BY <3>1, <3>2, ReadingOneMore DEF Texts
      <4> QED
        BY Zenon, <3>1, <3>2, <4>1, <4>2
    <3>4. r(k - 1) \in Met /\ l(k - 1) \in Met
      BY <3>1, <3>2, ReadingIsMet
    <3> HIDE DEF r, l
    <3> QED
      BY <1>1, <2>3, <3>1, <3>3, <3>4, ReadTogether
  <2>4. ASSUME NEW k \in Bad PROVE \E j \in Bad : j < k
    <3> HIDE DEF Agree
    <3>1. k # 0 /\ k \in 1..n /\ k - 1 \in 0..n /\ k - 1 < k
      BY <2>1, <2>2, <2>4
    <3>2. ~Agree(k - 1)
      BY <2>3, <2>4, <3>1
    <3> QED
      BY <3>1, <3>2
  <2>5. Bad \subseteq Nat
    BY <2>1
  <2>6. Bad = {}
    <3> HIDE DEF Bad
    <3> QED
      BY <2>4, <2>5, NoneFails
  <2>7. Agree(n)
    <3> HIDE DEF Agree
    <3> QED
      BY <2>1, <2>6
  <2>8. Together(r(n), Reading(a), l(n))
    BY <2>7
  <2> QED
    BY Zenon, <1>1, <2>1, <2>8
<1> QED
  BY <1>4, <1>5

(* What has no quote in it is outside of literals, all of it               *)
LEMMA ReadingOfPlain ==
  ASSUME NEW text \in Texts, \A i \in 1..Len(text) : text[i] # "quote"
  PROVE  Reading(text) = [mark |-> "outside", literals |-> << >>,
                          scripts |-> ToSet(text) \cap ToSet(Sources)]
<1> DEFINE n == Len(text)
           part(k) == SubSeq(text, 1, k)
           met(k) == {text[i] : i \in 1..k} \cap ToSet(Sources)
           Plain(k) == [mark |-> "outside", literals |-> << >>, scripts |-> met(k)]
           Bad == {k \in 0..n : Reading(part(k)) # Plain(k)}
<1>1. n \in Nat /\ part(0) = << >> /\ part(n) = text
  BY DEF Texts
<1>2. Reading(part(0)) = Plain(0)
  <2>1. met(0) = {}
    OBVIOUS
  <2> HIDE DEF met
  <2> QED
    BY <1>1, <2>1, ReadingNothing DEF Fresh
<1>3. ASSUME NEW k \in 1..n, Reading(part(k - 1)) = Plain(k - 1)
      PROVE  Reading(part(k)) = Plain(k)
  <2>1. /\ part(k) \in Texts /\ part(k - 1) \in Texts /\ text[k] \in Characters
        /\ part(k) = Append(part(k - 1), text[k])
    <3>1. k \in Nat /\ 1 \in Nat /\ 1 <= 1 /\ 1 <= k /\ k <= Len(text)
      BY <1>1
    <3> QED
      BY <3>1, OneLonger
  <2>2. Reading(part(k)) = Read(Plain(k - 1), text[k])
    BY <1>3, <2>1, ReadingOneMore DEF Texts
  <2>3. MarkAfter("outside", text[k]) = "outside"
    BY <1>1 DEF MarkAfter
  <2>4. met(k) = met(k - 1) \cup ({text[k]} \cap ToSet(Sources))
    <3>1. {text[i] : i \in 1..k} = {text[i] : i \in 1..(k - 1)} \cup {text[k]}
      <4>1. 1..k = (1..(k - 1)) \cup {k}
        BY <1>1
      <4> QED
        BY <4>1
    <3> QED
      BY <3>1
  <2> HIDE DEF met, part
  <2>5. Read(Plain(k - 1), text[k]) = Plain(k)
    BY <2>3, <2>4 DEF Read
  <2> QED
    BY <2>2, <2>5
<1>4. ASSUME NEW k \in Bad PROVE \E j \in Bad : j < k
  <2> HIDE DEF part, Plain
  <2>1. k # 0 /\ k \in 1..n /\ k - 1 \in 0..n /\ k - 1 < k
    BY <1>1, <1>2, <1>4
  <2> QED
    BY <1>3, <1>4, <2>1
<1>5. Bad \subseteq Nat
  BY <1>1
<1>6. Bad = {}
  <2> HIDE DEF Bad
  <2> QED
    BY <1>4, <1>5, NoneFails
<1>7. Reading(part(n)) = Plain(n)
  <2> HIDE DEF part, Plain
  <2> QED
    BY <1>1, <1>6
<1>8. {text[i] : i \in 1..n} = ToSet(text)
  BY DEF ToSet
<1> QED
  BY <1>1, <1>7, <1>8

-----------------------------------------------------------------------------
(* Where a literal ends                                                    *)

IsScan(text, start, h) ==
  h = [i \in (start + 1)..(Len(text) + 1) |->
         IF i > Len(text) THEN Len(text) + 1
         ELSE CASE i < Len(text) /\ text[i] = "escape" -> h[i + 2]
                [] text[i] = "quote"                   -> i + 1
                [] OTHER                               -> h[i + 1]]

LEMMA ScansExist ==
  ASSUME NEW text \in Texts, NEW start \in 1..Len(text)
  PROVE  \E h : IsScan(text, start, h)
<1> DEFINE n == Len(text)
           D == (start + 1)..(n + 1)
           At(f, i) == IF i > n THEN n + 1
                       ELSE CASE i < n /\ text[i] = "escape" -> f[i + 2]
                              [] text[i] = "quote"           -> i + 1
                              [] OTHER                       -> f[i + 1]
           step == [i \in D |-> [f \in [D -> D] |-> At(f, i)]]
           rank == [i \in D |-> n + 1 - i]
<1>1. n \in Nat /\ start \in 1..n /\ rank \in [D -> Nat] /\ n + 1 \in D
  BY DEF Texts
<1>2. \A i \in D : /\ i > n \/ i + 1 \in D
                   /\ i < n => i + 2 \in D
                   /\ i < i + 1 /\ i < i + 2
  BY <1>1
<1>3. \A f \in [D -> D] : \A i \in D : At(f, i) \in D
  BY <1>1, <1>2
<1>4. \A i \in D : \A f, g \in [D -> D] :
        (\A y \in D : i < y => f[y] = g[y]) => At(f, i) = At(g, i)
  <2> SUFFICES ASSUME NEW i \in D, NEW f \in [D -> D], NEW g \in [D -> D],
                      \A y \in D : i < y => f[y] = g[y]
               PROVE  At(f, i) = At(g, i)
    OBVIOUS
  <2>1. ~(i > n) => f[i + 1] = g[i + 1]
    BY <1>2
  <2>2. i < n => f[i + 2] = g[i + 2]
    BY <1>2
  <2> QED
    BY <2>1, <2>2
<1> HIDE DEF At
<1>5. step \in [D -> [[D -> D] -> D]]
  BY <1>3
<1>6. \A i \in D : rank[i] = n + 1 - i /\ \A f \in [D -> D] : step[i][f] = At(f, i)
  OBVIOUS
<1>7. \A i, y \in D : i < y => rank[y] < rank[i]
  BY <1>1, <1>6
<1>8. n + 1 \in Nat /\ \A x \in D : rank[x] < n + 1
  BY <1>1, <1>6
<1> HIDE DEF step, rank, D
<1>9. \A x \in D : \A f, g \in [D -> D] :
        (\A y \in D : rank[y] < rank[x] => f[y] = g[y]) => step[x][f] = step[x][g]
  BY <1>4, <1>6, <1>7
<1>10. PICK h \in [D -> D] : \A x \in D : h[x] = step[x][h]
  <2>1. Ranked(D, D, rank, n + 1, step)
    BY <1>1, <1>5, <1>8, <1>9 DEF Ranked
  <2>2. Follows(D, D, step) # {}
    BY Zenon, <2>1, DefinedByRank
  <2> QED
    BY <2>2 DEF Follows
<1>11. h = [i \in D |-> At(h, i)]
  BY <1>6, <1>10
<1> QED
  BY Zenon, <1>11 DEF IsScan, At, D

LEMMA LiteralEndIsOfAScan ==
  ASSUME NEW text \in Texts, NEW start \in 1..Len(text)
  PROVE  \E h : IsScan(text, start, h) /\ LiteralEnd(text, start) = h[start + 1]
<1> DEFINE from == CHOOSE f : IsScan(text, start, f)
<1>1. LiteralEnd(text, start) = from[start + 1]
  BY Zenon DEF LiteralEnd, IsScan
<1>2. IsScan(text, start, from)
  BY Zenon, ScansExist
<1> QED
  BY <1>1, <1>2

(* All of a text that begins with a quote is literal up to its LiteralEnd, *)
(* where the literal is closed or the text is at its end                   *)
Literal(a) == Reading(a).literals = a /\ Reading(a).scripts = {}

LEMMA LiteralGoesOn ==
  ASSUME NEW a \in Texts, NEW char \in Characters, Literal(a),
         Reading(a).mark \in {"inside", "escaping"}
  PROVE  /\ Literal(Append(a, char))
         /\ Reading(Append(a, char)).mark = MarkAfter(Reading(a).mark, char)
<1>1. MarkAfter(Reading(a).mark, char) # "outside"
  BY DEF MarkAfter
<1>2. Reading(Append(a, char)) = Read(Reading(a), char)
  BY ReadingOneMore DEF Texts
<1> DEFINE m == MarkAfter(Reading(a).mark, char)
<1>3. Reading(Append(a, char)) =
        [mark |-> m, literals |-> Append(Reading(a).literals, char),
         scripts |-> Reading(a).scripts]
  BY Zenon, <1>1, <1>2 DEF Read
<1> HIDE DEF m
<1> QED
  BY <1>3 DEF Literal, m

LEMMA LiteralEndFacts ==
  ASSUME NEW text \in Texts, NEW start \in 1..Len(text), text[start] = "quote"
  PROVE  LET e == LiteralEnd(text, start)
             literal == SubSeq(text, start, e - 1)
         IN  /\ e \in (start + 1)..(Len(text) + 1)
             /\ literal \in Texts
             /\ Literal(literal)
             /\ e = Len(text) + 1 \/ Reading(literal).mark \in Open
<1> DEFINE n == Len(text)
           part(i) == SubSeq(text, start, i - 1)
<1>1. PICK h : IsScan(text, start, h) /\ LiteralEnd(text, start) = h[start + 1]
  BY LiteralEndIsOfAScan
<1>2. n \in Nat /\ start \in 1..n
  BY DEF Texts
<1> DEFINE So(i) == /\ Literal(part(i))
                    /\ i > n \/ Reading(part(i)).mark = "inside"
           Ends(e) == /\ e \in (start + 1)..(n + 1)
                      /\ part(e) \in Texts
                      /\ Literal(part(e))
                      /\ e = n + 1 \/ Reading(part(e)).mark \in Open
           Bad == {i \in (start + 1)..(n + 1) : So(i) /\ ~Ends(h[i])}
<1>3. \A i \in start..n : /\ part(i + 1) \in Texts /\ part(i) \in Texts
                          /\ text[i] \in Characters
                          /\ part(i + 1) = Append(part(i), text[i])
  <2> TAKE i \in start..n
  <2>1. i \in Nat /\ start \in Nat /\ 1 <= start /\ start <= i /\ i <= Len(text)
        /\ (i + 1) - 1 = i
    BY <1>2
  <2> QED
    BY <2>1, OneLonger
<1>4. So(start + 1)
  <2>1. part(start) = << >>
    BY <1>2 DEF Texts
  <2>2. part(start + 1) = Append(<< >>, "quote")
    <3>1. start \in start..n
      BY <1>2
    <3>2. part(start + 1) = Append(part(start), text[start])
      BY <1>3, <3>1
    <3> HIDE DEF part
    <3> QED
      BY <2>1, <3>2
  <2>3. "quote" \in Characters /\ << >> \in Seq(Characters)
    BY DEF Characters, Common
  <2>4. Reading(Append(<< >>, "quote")) = Read(Fresh, "quote")
    BY <2>3, ReadingNothing, ReadingOneMore
  <2>5. MarkAfter("outside", "quote") = "inside"
    BY DEF MarkAfter
  <2>6. Read(Fresh, "quote") = [mark |-> "inside", literals |-> Append(<< >>, "quote"),
                                scripts |-> {}]
    BY <2>5 DEF Read, Fresh
  <2> HIDE DEF part
  <2> QED
    BY <2>2, <2>4, <2>6 DEF Literal
<1>5. ASSUME NEW i \in Bad PROVE \E j \in Bad : i < j
  <2>1. /\ i \in (start + 1)..(n + 1) /\ So(i) /\ ~Ends(h[i])
    BY <1>5
  <2>2. h[i] = IF i > n THEN n + 1
               ELSE CASE i < n /\ text[i] = "escape" -> h[i + 2]
                      [] text[i] = "quote"           -> i + 1
                      [] OTHER                       -> h[i + 1]
    BY <1>1, <2>1 DEF IsScan
  <2>3. part(i) \in Texts
    <3>1. i - 1 \in start..n /\ (i - 1) + 1 = i
      BY <1>2, <2>1
    <3> QED
      BY <1>3, <3>1
  <2> HIDE DEF part, Ends
  <2>4. CASE i > n
    <3>1. i = n + 1 /\ h[i] = i
      BY <1>2, <2>1, <2>2, <2>4
    <3>2. Ends(h[i])
      BY <1>2, <2>1, <2>3, <3>1 DEF Ends
    <3> QED
      BY <2>1, <3>2
  <2>5. CASE ~(i > n)
    <3>1. i \in start..n /\ i + 1 \in (start + 1)..(n + 1)
      BY <1>2, <2>1, <2>5
    <3>2. /\ Literal(part(i + 1))
          /\ Reading(part(i + 1)).mark = MarkAfter("inside", text[i])
      BY <1>3, <2>1, <2>3, <2>5, <3>1, LiteralGoesOn
    <3>3. CASE i < n /\ text[i] = "escape"
      <4>1. i + 1 \in start..n /\ i + 2 \in (start + 1)..(n + 1) /\ (i + 1) + 1 = i + 2
        BY <1>2, <3>1, <3>3
      <4>2. Reading(part(i + 1)).mark = "escaping"
        BY <3>2, <3>3 DEF MarkAfter
      <4>3. /\ Literal(part(i + 2))
            /\ Reading(part(i + 2)).mark = MarkAfter("escaping", text[i + 1])
        BY <1>3, <3>2, <4>1, <4>2, LiteralGoesOn
      <4>4. So(i + 2)
        BY <4>3 DEF MarkAfter
      <4>5. h[i] = h[i + 2]
        BY <2>2, <2>5, <3>3
      <4>6. i + 2 \in Bad
        BY <2>1, <4>1, <4>4, <4>5
      <4> QED
        BY <1>2, <3>1, <4>6
    <3>4. CASE text[i] = "quote"
      <4>1. h[i] = i + 1
        BY <2>2, <2>5, <3>4
      <4>2. Reading(part(i + 1)).mark \in Open
        BY <3>2, <3>4 DEF MarkAfter, Open
      <4>3. Ends(h[i])
        BY <1>3, <3>1, <3>2, <4>1, <4>2 DEF Ends
      <4> QED
        BY <2>1, <4>3
    <3>5. CASE ~(i < n /\ text[i] = "escape") /\ text[i] # "quote"
      <4>1. h[i] = h[i + 1]
        BY <2>2, <2>5, <3>5
      <4>2. i + 1 > n \/ Reading(part(i + 1)).mark = "inside"
        <5>1. i < n => text[i] # "escape"
          BY <3>5
        <5> QED
          BY <1>2, <3>1, <3>2, <3>5, <5>1 DEF MarkAfter
      <4>3. i + 1 \in Bad
        BY <2>1, <3>1, <3>2, <4>1, <4>2
      <4> QED
        BY <1>2, <3>1, <4>3
    <3> QED
      BY <3>3, <3>4, <3>5
  <2> QED
    BY <2>4, <2>5
<1>6. Bad \subseteq 0..(n + 1) /\ n + 1 \in Nat
  BY <1>2
<1>7. Bad = {}
  <2> HIDE DEF Bad, n
  <2> QED
    BY <1>5, <1>6, NoneFailsLater
<1>8. Ends(h[start + 1])
  <2>1. start + 1 \in (start + 1)..(n + 1)
    BY <1>2
  <2> HIDE DEF So, Ends
  <2> QED
    BY <1>4, <1>7, <2>1
<1> QED
  BY Zenon, <1>1, <1>8

LEMMA PlainEndFacts ==
  ASSUME NEW text \in Texts, NEW start \in 1..Len(text), text[start] # "quote"
  PROVE  LET e == PlainEnd(text, start)
             plain == SubSeq(text, start, e - 1)
         IN  /\ e \in (start + 1)..(Len(text) + 1)
             /\ plain \in Texts
             /\ \A i \in 1..Len(plain) : plain[i] # "quote"
<1> DEFINE n == Len(text)
           P(e) == /\ \A i \in start..(e - 1) : text[i] # "quote"
                   /\ e = n + 1 \/ text[e] = "quote"
<1>1. n \in Nat /\ start \in 1..n
  BY DEF Texts
<1>2. \E e \in (start + 1)..(n + 1) : P(e)
  <2> DEFINE Clear == {e \in (start + 1)..(n + 1) : \A i \in start..(e - 1) : text[i] # "quote"}
  <2> SUFFICES ASSUME \A e \in Clear : ~(e = n + 1 \/ text[e] = "quote") PROVE FALSE
    OBVIOUS
  <2>1. start + 1 \in Clear
    <3>1. \A i \in start..((start + 1) - 1) : i = start
      BY <1>1
    <3> QED
      BY <1>1, <3>1
  <2>2. ASSUME NEW e \in Clear PROVE \E f \in Clear : e < f
    <3>1. e # n + 1 /\ text[e] # "quote"
      OBVIOUS
    <3>2. \A i \in start..((e + 1) - 1) : i = e \/ i \in start..(e - 1)
      BY <1>1
    <3>3. e + 1 \in Clear
      BY <1>1, <3>1, <3>2
    <3>4. e < e + 1
      BY <1>1
    <3> QED
      BY <3>3, <3>4
  <2>3. Clear \subseteq 0..(n + 1) /\ n + 1 \in Nat
    BY <1>1
  <2>4. Clear = {}
    <3> HIDE DEF Clear, n
    <3> QED
      BY <2>2, <2>3, NoneFailsLater
  <2> QED
    BY <2>1, <2>4
<1> DEFINE e == CHOOSE e \in (start + 1)..(n + 1) : P(e)
<1>3. PlainEnd(text, start) = e
  BY Zenon DEF PlainEnd
<1>4. e \in (start + 1)..(n + 1) /\ P(e)
  <2> HIDE DEF P
  <2> QED
    BY <1>2
<1> HIDE DEF e
<1> DEFINE plain == SubSeq(text, start, e - 1)
<1>5. /\ plain \in Texts /\ Len(plain) = e - start
      /\ \A i \in 1..(e - start) : plain[i] = text[start + i - 1]
  BY <1>1, <1>4 DEF Texts
<1>6. \A i \in 1..Len(plain) : plain[i] # "quote"
  <2> TAKE i \in 1..Len(plain)
  <2>1. i \in 1..(e - start) /\ start + i - 1 \in start..(e - 1)
    BY <1>1, <1>4, <1>5
  <2> QED
    BY <1>4, <1>5, <2>1
<1> HIDE DEF plain
<1>7. /\ e \in (start + 1)..(n + 1) /\ plain \in Texts
      /\ \A i \in 1..Len(plain) : plain[i] # "quote"
  BY <1>4, <1>5, <1>6
<1> QED
  BY Zenon, <1>3, <1>7 DEF plain

-----------------------------------------------------------------------------
(* What is translated, and into what                                       *)

LEMMA InTheText ==
  ASSUME NEW text \in Texts, NEW x
  PROVE  x \in ToSet(text) <=> \E i \in 1..Len(text) : text[i] = x
<1>1. DOMAIN text = 1..Len(text)
  BY DEF Texts
<1> QED
  BY <1>1 DEF ToSet

LEMMA SeqOfItsElements ==
  ASSUME NEW S, NEW T, NEW s \in Seq(S), \A i \in 1..Len(s) : s[i] \in T
  PROVE  s \in Seq(T)
OBVIOUS

LEMMA SourcesAreApart ==
  /\ \A source \in ToSet(Sources) : source # "space" /\ source # "made" /\ source # "quote"
  /\ {"space", "made"} \subseteq Characters /\ "quote" \notin {"space", "made"}
BY SourcesAssumption DEF Common, Characters

LEMMA CoreFacts ==
  ASSUME NEW text \in Texts, Filled(text) # {}
  PROVE  /\ CoreStart(text) \in Filled(text) /\ CoreEnd(text) \in Filled(text)
         /\ \A i \in Filled(text) : CoreStart(text) <= i /\ i <= CoreEnd(text)
<1>1. Len(text) \in Nat /\ Filled(text) \subseteq 1..Len(text)
  BY DEF Texts, Filled
<1>2. \E i \in Filled(text) : \A j \in Filled(text) : i <= j
  <2> SUFFICES ASSUME \A x \in Filled(text) : \E y \in Filled(text) : y < x PROVE FALSE
    BY <1>1
  <2>1. Filled(text) \subseteq Nat
    BY <1>1
  <2> QED
    BY <2>1, NoneFails
<1>3. \E i \in Filled(text) : \A j \in Filled(text) : j <= i
  <2> SUFFICES ASSUME \A x \in Filled(text) : \E y \in Filled(text) : x < y PROVE FALSE
    BY <1>1
  <2>1. Filled(text) \subseteq 0..Len(text)
    BY <1>1
  <2> QED
    BY <1>1, <2>1, NoneFailsLater
<1>4. CoreStart(text) \in Filled(text) /\ \A i \in Filled(text) : CoreStart(text) <= i
  BY <1>2 DEF CoreStart
<1>5. CoreEnd(text) \in Filled(text) /\ \A i \in Filled(text) : i <= CoreEnd(text)
  BY <1>3 DEF CoreEnd
<1> QED
  BY <1>4, <1>5

LEMMA CoreHasTheScripts ==
  ASSUME NEW text \in Texts, NEW source \in ToSet(Sources)
  PROVE  HasSourceScript(Core(text), source) <=> source \in ToSet(text)
<1> DEFINE first == CoreStart(text)
           last == CoreEnd(text)
<1>1. Len(text) \in Nat /\ source # "space"
  BY SourcesAreApart DEF Texts
<1>2. \A i \in 1..Len(text) : text[i] = source => i \in Filled(text)
  BY <1>1 DEF Filled
<1>3. CASE Filled(text) = {}
  <2>1. Core(text) = << >>
    BY <1>3 DEF Core
  <2>2. source \notin ToSet(text)
    BY <1>2, <1>3 DEF ToSet
  <2> QED
    BY <2>1, <2>2 DEF HasSourceScript, ToSet
<1>4. CASE Filled(text) # {}
  <2>1. /\ first \in 1..Len(text) /\ last \in 1..Len(text) /\ first <= last
        /\ \A i \in Filled(text) : first <= i /\ i <= last
    BY <1>4, CoreFacts DEF Filled
  <2>2. Core(text) = SubSeq(text, first, last)
    BY <1>4 DEF Core
  <2> HIDE DEF first, last
  <2>3. /\ SubSeq(text, first, last) \in Texts
        /\ Len(SubSeq(text, first, last)) = last - first + 1
        /\ \A i \in 1..(last - first + 1) : SubSeq(text, first, last)[i] = text[first + i - 1]
    BY <1>1, <2>1 DEF Texts
  <2>4. ASSUME source \in ToSet(text) PROVE source \in ToSet(Core(text))
    <3>1. PICK i \in 1..Len(text) : text[i] = source
      BY <2>4 DEF ToSet
    <3>2. first <= i /\ i <= last
      BY <1>2, <2>1, <3>1
    <3>3. i - first + 1 \in 1..(last - first + 1) /\ first + (i - first + 1) - 1 = i
      BY <2>1, <3>2
    <3>4. SubSeq(text, first, last)[i - first + 1] = source
      BY <2>3, <3>1, <3>3
    <3> QED
      BY <2>2, <2>3, <3>3, <3>4, InTheText
  <2>5. ASSUME source \in ToSet(Core(text)) PROVE source \in ToSet(text)
    <3>1. PICK i \in 1..(last - first + 1) : SubSeq(text, first, last)[i] = source
      BY <2>2, <2>3, <2>5, InTheText
    <3>2. first + i - 1 \in 1..Len(text) /\ text[first + i - 1] = source
      BY <1>1, <2>1, <2>3, <3>1
    <3> QED
      BY <3>2 DEF ToSet
  <2> QED
    BY <2>4, <2>5 DEF HasSourceScript
<1> QED
  BY <1>3, <1>4

Spans == [text : Texts, protected : BOOLEAN]

LEMMA TranslatedIsPlain ==
  ASSUME NEW span \in Spans, ~span.protected, NEW source \in ToSet(Sources),
         \A i \in 1..Len(span.text) : span.text[i] # "quote"
  PROVE  /\ TranslatedSpan(span, source) \in Texts
         /\ \A i \in 1..Len(TranslatedSpan(span, source)) :
              TranslatedSpan(span, source)[i] \notin {"quote", source}
<1> DEFINE text == span.text
           first == CoreStart(text)
           last == CoreEnd(text)
<1>1. text \in Texts /\ Len(text) \in Nat
  BY DEF Spans, Texts
<1>2. CASE ~HasSourceScript(Core(text), source)
  <2>1. TranslatedSpan(span, source) = text
    BY <1>2 DEF TranslatedSpan
  <2>2. source \notin ToSet(text)
    BY <1>1, <1>2, CoreHasTheScripts
  <2>3. \A i \in 1..Len(text) : text[i] # source
    BY <2>2 DEF ToSet
  <2> QED
    BY <1>1, <2>1, <2>3
<1>3. CASE HasSourceScript(Core(text), source)
  <2>1. Filled(text) # {}
    <3>1. Filled(text) = {} => Core(text) = << >>
      BY DEF Core
    <3> QED
      BY <1>3, <3>1 DEF HasSourceScript, ToSet
  <2>2. /\ first \in 1..Len(text) /\ last \in 1..Len(text)
        /\ \A i \in Filled(text) : first <= i /\ i <= last
    BY <1>1, <2>1, CoreFacts DEF Filled
  <2>3. TranslatedSpan(span, source) =
          SubSeq(text, 1, first - 1) \o <<"made">> \o SubSeq(text, last + 1, Len(text))
    BY Zenon, <1>3 DEF TranslatedSpan, Answer
  <2> HIDE DEF first, last
  <2> DEFINE White == {"space", "made"}
  <2>4. SubSeq(text, 1, first - 1) \in Seq(White)
    <3>1. /\ SubSeq(text, 1, first - 1) \in Texts /\ Len(SubSeq(text, 1, first - 1)) = first - 1
          /\ \A i \in 1..(first - 1) : SubSeq(text, 1, first - 1)[i] = text[i]
      BY <1>1, <2>2 DEF Texts
    <3>2. \A i \in 1..(first - 1) : text[i] = "space"
      BY <1>1, <2>2 DEF Filled
    <3> QED
      BY <3>1, <3>2 DEF Texts
  <2>5. SubSeq(text, last + 1, Len(text)) \in Seq(White)
    <3>1. /\ SubSeq(text, last + 1, Len(text)) \in Texts
          /\ Len(SubSeq(text, last + 1, Len(text))) = Len(text) - last
          /\ \A i \in 1..(Len(text) - last) :
               SubSeq(text, last + 1, Len(text))[i] = text[last + i]
      BY <1>1, <2>2 DEF Texts
    <3>2. \A i \in 1..(Len(text) - last) : text[last + i] = "space"
      <4> TAKE i \in 1..(Len(text) - last)
      <4>1. last + i \in 1..Len(text) /\ ~(last + i <= last)
        BY <1>1, <2>2
      <4> QED
        BY <2>2, <4>1 DEF Filled
    <3> DEFINE rest == SubSeq(text, last + 1, Len(text))
    <3>3. \A i \in 1..(Len(text) - last) : rest[i] \in White
      BY <3>1, <3>2
    <3> HIDE DEF rest, White
    <3>4. \A i \in 1..Len(rest) : rest[i] \in White
      BY <3>1, <3>3 DEF rest
    <3>5. rest \in Seq(Characters)
      BY <3>1 DEF Texts, rest
    <3> QED
      BY <3>4, <3>5, SeqOfItsElements DEF rest
  <2>6. TranslatedSpan(span, source) \in Seq(White)
    <3>1. <<"made">> \in Seq(White)
      OBVIOUS
    <3>2. SubSeq(text, 1, first - 1) \o <<"made">> \in Seq(White)
      BY <2>4, <3>1, ConcatProperties
    <3> HIDE DEF White
    <3> QED
      BY <2>3, <2>5, <3>2, ConcatProperties
  <2> DEFINE new == TranslatedSpan(span, source)
  <2> HIDE DEF new
  <2>7. new \in Seq(White)
    BY <2>6 DEF new
  <2>8. new \in Texts
    <3>1. White \subseteq Characters
      BY SourcesAreApart
    <3> HIDE DEF White
    <3> QED
      BY <2>7, <3>1 DEF Texts
  <2>9. \A i \in 1..Len(new) : new[i] \in White
    BY <2>7
  <2>10. \A x \in White : x \notin {"quote", source}
    BY SourcesAreApart
  <2> QED
    BY <2>8, <2>9, <2>10 DEF new
<1> QED
  BY <1>2, <1>3

LEMMA ProtectedIsKept ==
  ASSUME NEW span \in Spans, span.protected, NEW source
  PROVE  TranslatedSpan(span, source) = span.text
BY DEF TranslatedSpan

-----------------------------------------------------------------------------
(* The spans of a text                                                     *)

CutEnd(text, i) ==
  IF text[i] = "quote" THEN LiteralEnd(text, i) ELSE PlainEnd(text, i)

SpanAt(text, i) ==
  [text |-> SubSeq(text, i, CutEnd(text, i) - 1), protected |-> text[i] = "quote"]

LEMMA CutFacts ==
  ASSUME NEW text \in Texts, NEW i \in 1..Len(text)
  PROVE  LET e == CutEnd(text, i)
             span == SpanAt(text, i)
             rest == SubSeq(text, e, Len(text))
         IN  /\ e \in (i + 1)..(Len(text) + 1)
             /\ span \in Spans /\ rest \in Texts
             /\ span.text \o rest = SubSeq(text, i, Len(text))
             /\ span.protected => /\ Literal(span.text)
                                  /\ Reading(span.text).mark \in Open \/ e = Len(text) + 1
             /\ ~span.protected => \A k \in 1..Len(span.text) : span.text[k] # "quote"
<1> DEFINE n == Len(text)
           e == CutEnd(text, i)
           part == SubSeq(text, i, e - 1)
           rest == SubSeq(text, e, n)
<1>1. n \in Nat /\ i \in 1..n
  BY DEF Texts
<1>2. /\ e \in (i + 1)..(n + 1) /\ part \in Texts
      /\ text[i] = "quote" => /\ Literal(part)
                              /\ Reading(part).mark \in Open \/ e = n + 1
      /\ text[i] # "quote" => \A k \in 1..Len(part) : part[k] # "quote"
  <2>1. CASE text[i] = "quote"
    <3>1. e = LiteralEnd(text, i)
      BY <2>1 DEF CutEnd
    <3> HIDE DEF e
    <3>2. /\ e \in (i + 1)..(n + 1) /\ part \in Texts /\ Literal(part)
          /\ e = n + 1 \/ Reading(part).mark \in Open
      BY Zenon, <2>1, <3>1, LiteralEndFacts
    <3> QED
      BY Zenon, <2>1, <3>2
  <2>2. CASE text[i] # "quote"
    <3>1. e = PlainEnd(text, i)
      BY <2>2 DEF CutEnd
    <3> HIDE DEF e
    <3>2. /\ e \in (i + 1)..(n + 1) /\ part \in Texts
          /\ \A k \in 1..Len(part) : part[k] # "quote"
      BY Zenon, <2>2, <3>1, PlainEndFacts
    <3> QED
      BY Zenon, <2>2, <3>2
  <2> QED
    BY <2>1, <2>2
<1>3. SpanAt(text, i).text = part /\ SpanAt(text, i).protected = (text[i] = "quote")
      /\ SpanAt(text, i) \in Spans
  BY <1>2 DEF SpanAt, Spans
<1> HIDE DEF e
<1>4. rest \in Texts /\ part \o rest = SubSeq(text, i, n)
  <2>1. rest \in Texts /\ SubSeq(text, i, n) \in Texts /\ part \in Texts
    BY <1>1, <1>2 DEF Texts
  <2>2. /\ Len(part) = e - i /\ Len(rest) = n - e + 1 /\ Len(SubSeq(text, i, n)) = n - i + 1
        /\ \A k \in 1..(e - i) : part[k] = text[i + k - 1]
        /\ \A k \in 1..(n - e + 1) : rest[k] = text[e + k - 1]
        /\ \A k \in 1..(n - i + 1) : SubSeq(text, i, n)[k] = text[i + k - 1]
    BY <1>1, <1>2 DEF Texts
  <2> DEFINE whole == SubSeq(text, i, n)
  <2> HIDE DEF part, rest, whole
  <2>3. /\ part \o rest \in Texts /\ Len(part \o rest) = n - i + 1
        /\ \A k \in 1..(e - i) : (part \o rest)[k] = part[k]
        /\ \A k \in (e - i + 1)..(n - i + 1) : (part \o rest)[k] = rest[k - (e - i)]
    <3>1. /\ part \o rest \in Seq(Characters) /\ Len(part \o rest) = Len(part) + Len(rest)
          /\ \A k \in 1..(Len(part) + Len(rest)) :
               (part \o rest)[k] = IF k <= Len(part) THEN part[k] ELSE rest[k - Len(part)]
      BY <2>1, ConcatProperties DEF Texts, part, rest
    <3>2. Len(part) = e - i /\ Len(rest) = n - e + 1 /\ (e - i) + (n - e + 1) = n - i + 1
      BY <1>1, <1>2, <2>2 DEF part, rest
    <3> DEFINE both == part \o rest
    <3> HIDE DEF both
    <3>3. /\ Len(both) = n - i + 1 /\ both \in Texts
          /\ \A k \in 1..(n - i + 1) : both[k] = IF k <= e - i THEN part[k] ELSE rest[k - (e - i)]
      BY <3>1, <3>2 DEF Texts, both
    <3>4. /\ \A k \in 1..(e - i) : k \in 1..(n - i + 1) /\ k <= e - i
          /\ \A k \in (e - i + 1)..(n - i + 1) : k \in 1..(n - i + 1) /\ ~(k <= e - i)
      BY <1>1, <1>2
    <3> QED
      BY <3>3, <3>4 DEF both
  <2>4. \A k \in 1..(n - i + 1) : (part \o rest)[k] = whole[k]
    <3> TAKE k \in 1..(n - i + 1)
    <3>1. whole[k] = text[i + k - 1]
      BY <2>2 DEF whole
    <3>2. CASE k <= e - i
      BY <1>1, <1>2, <2>2, <2>3, <3>1, <3>2
    <3>3. CASE ~(k <= e - i)
      <4>1. k - (e - i) \in 1..(n - e + 1) /\ k \in (e - i + 1)..(n - i + 1)
            /\ e + (k - (e - i)) - 1 = i + k - 1
        BY <1>1, <1>2, <3>3
      <4>2. rest[k - (e - i)] = text[e + (k - (e - i)) - 1]
        BY <2>2, <4>1
      <4> QED
        BY <2>3, <3>1, <4>1, <4>2
    <3> QED
      BY <3>2, <3>3
  <2>5. part \o rest = whole
    <3>1. whole \in Texts /\ Len(whole) = n - i + 1
      BY <2>1, <2>2 DEF whole
    <3> QED
      BY <2>3, <2>4, <3>1, SeqEqual DEF Texts
  <2> QED
    BY <2>1, <2>5 DEF whole
<1> HIDE DEF part, rest
<1>5. /\ e \in (i + 1)..(n + 1)
      /\ SpanAt(text, i) \in Spans /\ rest \in Texts
      /\ SpanAt(text, i).text \o rest = SubSeq(text, i, n)
      /\ SpanAt(text, i).protected =>
           /\ Literal(SpanAt(text, i).text)
           /\ Reading(SpanAt(text, i).text).mark \in Open \/ e = n + 1
      /\ ~SpanAt(text, i).protected =>
           \A k \in 1..Len(SpanAt(text, i).text) : SpanAt(text, i).text[k] # "quote"
  BY <1>2, <1>3, <1>4
<1> QED
  BY Zenon, <1>5 DEF e, rest

IsSplit(text, h) ==
  h = [i \in 1..(Len(text) + 1) |->
         IF i > Len(text) THEN << >> ELSE <<SpanAt(text, i)>> \o h[CutEnd(text, i)]]

LEMMA SplitsExist ==
  ASSUME NEW text \in Texts
  PROVE  \E h : IsSplit(text, h)
<1> DEFINE n == Len(text)
           D == 1..(n + 1)
           V == Seq(Spans)
           At(f, i) == IF i > n THEN << >> ELSE <<SpanAt(text, i)>> \o f[CutEnd(text, i)]
           step == [i \in D |-> [f \in [D -> V] |-> At(f, i)]]
           rank == [i \in D |-> n + 1 - i]
<1>1. n \in Nat /\ rank \in [D -> Nat]
  BY DEF Texts
<1>2. \A i \in D : i > n \/ /\ CutEnd(text, i) \in D /\ i < CutEnd(text, i)
                            /\ <<SpanAt(text, i)>> \in V
  <2> TAKE i \in D
  <2> SUFFICES ASSUME ~(i > n) PROVE /\ CutEnd(text, i) \in D /\ i < CutEnd(text, i)
                                     /\ <<SpanAt(text, i)>> \in V
    OBVIOUS
  <2>1. i \in 1..n
    BY <1>1
  <2>2. CutEnd(text, i) \in (i + 1)..(n + 1) /\ SpanAt(text, i) \in Spans
    BY Zenon, <2>1, CutFacts
  <2> QED
    BY <1>1, <2>1, <2>2
<1>3. \A f \in [D -> V] : \A i \in D : At(f, i) \in V
  <2> TAKE f \in [D -> V]
  <2> TAKE i \in D
  <2>1. CASE i > n
    BY <2>1
  <2>2. CASE ~(i > n)
    <3>1. f[CutEnd(text, i)] \in V /\ <<SpanAt(text, i)>> \in V
      BY <1>2, <2>2
    <3>2. <<SpanAt(text, i)>> \o f[CutEnd(text, i)] \in V
      BY <3>1, ConcatProperties
    <3> QED
      BY <2>2, <3>2
  <2> QED
    BY <2>1, <2>2
<1>4. \A i \in D : \A f, g \in [D -> V] :
        (\A y \in D : i < y => f[y] = g[y]) => At(f, i) = At(g, i)
  <2> SUFFICES ASSUME NEW i \in D, NEW f \in [D -> V], NEW g \in [D -> V],
                      \A y \in D : i < y => f[y] = g[y]
               PROVE  At(f, i) = At(g, i)
    OBVIOUS
  <2>1. ~(i > n) => f[CutEnd(text, i)] = g[CutEnd(text, i)]
    BY <1>2
  <2> QED
    BY <2>1
<1> HIDE DEF At
<1>5. step \in [D -> [[D -> V] -> V]]
  BY <1>3
<1>6. \A i \in D : rank[i] = n + 1 - i /\ \A f \in [D -> V] : step[i][f] = At(f, i)
  OBVIOUS
<1>7. \A i, y \in D : i < y => rank[y] < rank[i]
  BY <1>1, <1>6
<1>8. n + 1 \in Nat /\ \A x \in D : rank[x] < n + 1
  BY <1>1, <1>6
<1>9. V # {}
  <2>1. << >> \in V
    OBVIOUS
  <2> QED
    BY <2>1
<1> HIDE DEF step, rank, D, V
<1>10. \A x \in D : \A f, g \in [D -> V] :
         (\A y \in D : rank[y] < rank[x] => f[y] = g[y]) => step[x][f] = step[x][g]
  BY <1>4, <1>6, <1>7
<1>11. PICK h \in [D -> V] : \A x \in D : h[x] = step[x][h]
  <2>1. Ranked(D, V, rank, n + 1, step)
    BY <1>1, <1>5, <1>8, <1>9, <1>10 DEF Ranked
  <2>2. Follows(D, V, step) # {}
    BY Zenon, <2>1, DefinedByRank
  <2> QED
    BY <2>2 DEF Follows
<1>12. h = [i \in D |-> At(h, i)]
  BY <1>6, <1>11
<1> QED
  BY Zenon, <1>12 DEF IsSplit, At, D

LEMMA SplitSpansIsASplit ==
  ASSUME NEW text \in Texts, Preserve
  PROVE  \E h : IsSplit(text, h) /\ SplitSpans(text) = h[1]
<1> DEFINE from == CHOOSE f : IsSplit(text, f)
<1>1. SplitSpans(text) = from[1]
  BY Zenon DEF SplitSpans, IsSplit, SpanAt, CutEnd
<1>2. IsSplit(text, from)
  BY Zenon, SplitsExist
<1> QED
  BY <1>1, <1>2

-----------------------------------------------------------------------------
(* The translated spans of a text, put together                            *)

Outcomes(spans, source) == [k \in DOMAIN spans |-> TranslatedSpan(spans[k], source)]

LEMMA OutcomesOneMore ==
  ASSUME NEW span \in Spans, NEW rest \in Seq(Spans), NEW source,
         Outcomes(rest, source) \in Seq(Texts), TranslatedSpan(span, source) \in Texts
  PROVE  /\ Outcomes(<<span>> \o rest, source) =
              <<TranslatedSpan(span, source)>> \o Outcomes(rest, source)
         /\ Outcomes(<<span>> \o rest, source) \in Seq(Texts)
<1> DEFINE all == <<span>> \o rest
           n == Len(rest)
           first == TranslatedSpan(span, source)
           later == Outcomes(rest, source)
<1>1. /\ n \in Nat /\ DOMAIN rest = 1..n /\ all \in Seq(Spans) /\ DOMAIN all = 1..(n + 1)
      /\ all[1] = span /\ \A k \in 2..(n + 1) : all[k] = rest[k - 1]
  OBVIOUS
<1> HIDE DEF all
<1>2. /\ DOMAIN later = 1..n /\ \A k \in 1..n : later[k] = TranslatedSpan(rest[k], source)
  BY <1>1 DEF Outcomes
<1>3. Len(later) = n
  BY <1>1, <1>2
<1> HIDE DEF first, later
<1>4. <<first>> \in Seq(Texts) /\ later \in Seq(Texts) /\ Len(<<first>>) = 1
  BY DEF first, later
<1> DEFINE both == <<first>> \o later
<1>5. /\ both \in Seq(Texts) /\ Len(both) = n + 1
      /\ both[1] = first /\ \A k \in 2..(n + 1) : both[k] = later[k - 1]
  BY <1>1, <1>3, <1>4
<1>6. DOMAIN both = 1..(n + 1) /\ both = [k \in 1..(n + 1) |-> both[k]]
  BY <1>1, <1>5
<1> HIDE DEF both
<1>7. \A k \in 1..(n + 1) : both[k] = TranslatedSpan(all[k], source)
  <2> TAKE k \in 1..(n + 1)
  <2>1. CASE k = 1
    BY <1>1, <1>5, <2>1 DEF first
  <2>2. CASE k # 1
    <3>1. k \in 2..(n + 1) /\ k - 1 \in 1..n
      BY <1>1, <2>2
    <3> QED
      BY <1>1, <1>2, <1>5, <3>1
  <2> QED
    BY <2>1, <2>2
<1>8. Outcomes(all, source) = both
  BY <1>1, <1>6, <1>7 DEF Outcomes
<1> QED
  BY <1>5, <1>8 DEF all, both, first, later

(* The scripts of the spans that may be translated                         *)
Offered(spans) ==
  {x \in ToSet(Sources) : \E k \in DOMAIN spans : ~spans[k].protected /\ x \in ToSet(spans[k].text)}

LEMMA OfferedOneMore ==
  ASSUME NEW span \in Spans, NEW rest \in Seq(Spans)
  PROVE  Offered(<<span>> \o rest) =
           Offered(rest) \cup
             (IF span.protected THEN {} ELSE ToSet(span.text) \cap ToSet(Sources))
<1> DEFINE all == <<span>> \o rest
           n == Len(rest)
<1>1. /\ n \in Nat /\ DOMAIN rest = 1..n /\ DOMAIN all = 1..(n + 1)
      /\ all[1] = span /\ \A k \in 1..n : all[k + 1] = rest[k]
  OBVIOUS
<1> HIDE DEF all
<1>2. ASSUME NEW x \in ToSet(Sources)
      PROVE  x \in Offered(all) <=>
               x \in Offered(rest) \/ (~span.protected /\ x \in ToSet(span.text))
  <2>1. ASSUME x \in Offered(all)
        PROVE  x \in Offered(rest) \/ (~span.protected /\ x \in ToSet(span.text))
    <3>1. PICK k \in 1..(n + 1) : ~all[k].protected /\ x \in ToSet(all[k].text)
      BY <1>1, <2>1 DEF Offered
    <3>2. CASE k = 1
      BY <1>1, <3>1, <3>2
    <3>3. CASE k # 1
      <4>1. k - 1 \in 1..n /\ (k - 1) + 1 = k
        BY <1>1, <3>3
      <4>2. all[k] = rest[k - 1]
        BY <1>1, <4>1
      <4> QED
        BY <1>1, <3>1, <4>1, <4>2 DEF Offered
    <3> QED
      BY <3>2, <3>3
  <2>2. ASSUME x \in Offered(rest) PROVE x \in Offered(all)
    <3>1. PICK k \in 1..n : ~rest[k].protected /\ x \in ToSet(rest[k].text)
      BY <1>1, <2>2 DEF Offered
    <3>2. k + 1 \in 1..(n + 1) /\ all[k + 1] = rest[k]
      BY <1>1
    <3> QED
      BY <1>1, <3>1, <3>2 DEF Offered
  <2>3. ASSUME ~span.protected, x \in ToSet(span.text) PROVE x \in Offered(all)
    <3>1. 1 \in 1..(n + 1)
      BY <1>1
    <3> QED
      BY <1>1, <2>3, <3>1 DEF Offered
  <2> QED
    BY <2>1, <2>2, <2>3
<1>3. \A x : /\ x \in Offered(all) => x \in ToSet(Sources)
             /\ x \in Offered(rest) => x \in ToSet(Sources)
  BY DEF Offered
<1>4. Offered(all) = Offered(rest) \cup
        (IF span.protected THEN {} ELSE ToSet(span.text) \cap ToSet(Sources))
  BY <1>2, <1>3
<1> QED
  BY <1>4 DEF all

(* A text that is split and translated so keeps its literals, and loses    *)
(* the language it was translated from                                     *)
Keeps(text, spans) ==
  /\ spans \in Seq(Spans)
  /\ Offered(spans) = Reading(text).scripts
  /\ \A source \in ToSet(Sources) :
       /\ Outcomes(spans, source) \in Seq(Texts)
       /\ Joined(Outcomes(spans, source)) \in Texts
       /\ Reading(Joined(Outcomes(spans, source))).literals = Reading(text).literals
       /\ source \notin Reading(Joined(Outcomes(spans, source))).scripts
       /\ text = << >> => Joined(Outcomes(spans, source)) = << >>

LEMMA NothingKeeps == Keeps(<< >>, << >>)
<1>1. Reading(<< >>).scripts = {} /\ Reading(<< >>).literals = << >>
  BY ReadingNothing DEF Fresh
<1>2. \A source : Outcomes(<< >>, source) = << >>
  BY DEF Outcomes
<1>3. Offered(<< >>) = {}
  BY DEF Offered
<1> QED
  <2>1. << >> \in Seq(Spans) /\ << >> \in Seq(Texts) /\ << >> \in Texts
    BY DEF Texts
  <2> QED
    BY <1>1, <1>2, <1>3, <2>1, JoinedNothing DEF Keeps

LEMMA OneMoreKeeps ==
  ASSUME NEW span \in Spans, NEW rest \in Texts, NEW spans, Keeps(rest, spans),
         span.text # << >>,
         span.protected => /\ Literal(span.text)
                           /\ Reading(span.text).mark \in Open \/ rest = << >>,
         ~span.protected => \A k \in 1..Len(span.text) : span.text[k] # "quote"
  PROVE  Keeps(span.text \o rest, <<span>> \o spans)
<1> DEFINE text == span.text \o rest
           all == <<span>> \o spans
<1>1. span.text \in Texts /\ spans \in Seq(Spans) /\ all \in Seq(Spans)
  <2>1. span.text \in Texts /\ spans \in Seq(Spans)
    BY DEF Spans, Keeps
  <2>2. <<span>> \in Seq(Spans)
    OBVIOUS
  <2> QED
    BY <2>1, <2>2, ConcatProperties
<1>2. /\ Reading(span.text).mark \in Open \/ rest = << >>
      /\ ~span.protected =>
           Reading(span.text) = [mark |-> "outside", literals |-> << >>,
                                 scripts |-> ToSet(span.text) \cap ToSet(Sources)]
  <2>1. CASE span.protected
    BY <2>1
  <2>2. CASE ~span.protected
    <3>1. Reading(span.text) = [mark |-> "outside", literals |-> << >>,
                                scripts |-> ToSet(span.text) \cap ToSet(Sources)]
      BY <1>1, <2>2, ReadingOfPlain
    <3> QED
      BY <2>2, <3>1 DEF Open
  <2> QED
    BY <2>1, <2>2
<1>3. text \in Texts /\ Together(Reading(text), Reading(span.text), Reading(rest))
  BY <1>1, <1>2, ReadingOfTwo
<1>4. text # << >>
  BY <1>1 DEF Texts
<1>5. Offered(all) = Reading(text).scripts
  <2>1. Reading(span.text).scripts =
          IF span.protected THEN {} ELSE ToSet(span.text) \cap ToSet(Sources)
    <3>1. CASE span.protected
      BY <3>1 DEF Literal
    <3>2. CASE ~span.protected
      BY <1>2, <3>2
    <3> QED
      BY <3>1, <3>2
  <2>2. Offered(spans) = Reading(rest).scripts
    BY DEF Keeps
  <2>3. Offered(all) = Offered(spans) \cup
          (IF span.protected THEN {} ELSE ToSet(span.text) \cap ToSet(Sources))
    BY <1>1, OfferedOneMore
  <2>4. Reading(text).scripts = Reading(span.text).scripts \cup Reading(rest).scripts
    BY <1>3 DEF Together
  <2> HIDE DEF text, all
  <2> QED
    BY Zenon, <2>1, <2>2, <2>3, <2>4
<1>6. ASSUME NEW source \in ToSet(Sources)
      PROVE  /\ Outcomes(all, source) \in Seq(Texts)
             /\ Joined(Outcomes(all, source)) \in Texts
             /\ Reading(Joined(Outcomes(all, source))).literals = Reading(text).literals
             /\ source \notin Reading(Joined(Outcomes(all, source))).scripts
  <2> DEFINE new == TranslatedSpan(span, source)
             then == Joined(Outcomes(spans, source))
  <2>1. /\ Outcomes(spans, source) \in Seq(Texts) /\ then \in Texts
        /\ Reading(then).literals = Reading(rest).literals
        /\ source \notin Reading(then).scripts
        /\ rest = << >> => then = << >>
    BY DEF Keeps
  <2>2. /\ new \in Texts
        /\ Reading(new).mark \in Open \/ rest = << >>
        /\ Reading(new).literals = Reading(span.text).literals
        /\ source \notin Reading(new).scripts
    <3>1. CASE span.protected
      <4>1. new = span.text
        BY <3>1, ProtectedIsKept
      <4> HIDE DEF new
      <4> QED
        BY <1>1, <1>2, <3>1, <4>1 DEF Literal
    <3>2. CASE ~span.protected
      <4>1. new \in Texts /\ \A i \in 1..Len(new) : new[i] \notin {"quote", source}
        BY <3>2, TranslatedIsPlain
      <4> HIDE DEF new
      <4>2. Reading(new) = [mark |-> "outside", literals |-> << >>,
                            scripts |-> ToSet(new) \cap ToSet(Sources)]
        BY <4>1, ReadingOfPlain
      <4>3. source \notin ToSet(new)
        BY <4>1, InTheText
      <4> QED
        BY <1>2, <3>2, <4>1, <4>2, <4>3 DEF Open
    <3> QED
      BY <3>1, <3>2
  <2>3. Outcomes(all, source) = <<new>> \o Outcomes(spans, source)
        /\ Outcomes(all, source) \in Seq(Texts)
    BY <1>1, <2>1, <2>2, OutcomesOneMore
  <2>4. Joined(Outcomes(all, source)) = new \o then
    BY <2>1, <2>2, <2>3, JoinedOneMore
  <2> HIDE DEF new, then, all, text
  <2>5. new \o then \in Texts /\ Together(Reading(new \o then), Reading(new), Reading(then))
    BY <2>1, <2>2, ReadingOfTwo
  <2>6. /\ Reading(new \o then).literals = Reading(text).literals
        /\ source \notin Reading(new \o then).scripts
    BY <1>3, <2>1, <2>2, <2>5 DEF Together
  <2> QED
    BY <2>3, <2>4, <2>5, <2>6
<1> HIDE DEF text, all
<1>7. Keeps(text, all)
  BY <1>1, <1>4, <1>5, <1>6 DEF Keeps
<1> QED
  BY <1>7 DEF text, all

LEMMA SplitKeeps ==
  ASSUME NEW text \in Texts, Preserve
  PROVE  Keeps(text, SplitSpans(text))
<1> DEFINE n == Len(text)
           rest(i) == SubSeq(text, i, n)
<1>1. PICK h : IsSplit(text, h) /\ SplitSpans(text) = h[1]
  BY SplitSpansIsASplit
<1>2. n \in Nat
  BY DEF Texts
<1> DEFINE Bad == {i \in 1..(n + 1) : ~Keeps(rest(i), h[i])}
<1>3. ASSUME NEW i \in Bad PROVE \E j \in Bad : i < j
  <2>1. i \in 1..(n + 1) /\ ~Keeps(rest(i), h[i])
    BY <1>3
  <2>2. h[i] = IF i > n THEN << >> ELSE <<SpanAt(text, i)>> \o h[CutEnd(text, i)]
    BY <1>1, <2>1 DEF IsSplit
  <2>3. CASE i > n
    <3>1. rest(i) = << >> /\ h[i] = << >>
      BY <1>2, <2>1, <2>2, <2>3 DEF Texts
    <3> HIDE DEF rest
    <3> QED
      BY <2>1, <3>1, NothingKeeps
  <2>4. CASE ~(i > n)
    <3> DEFINE e == CutEnd(text, i)
               span == SpanAt(text, i)
    <3>1. i \in 1..n
      BY <1>2, <2>1, <2>4
    <3>2. /\ e \in (i + 1)..(n + 1)
          /\ span \in Spans /\ rest(e) \in Texts
          /\ span.text \o rest(e) = rest(i)
          /\ span.protected => /\ Literal(span.text)
                               /\ Reading(span.text).mark \in Open \/ e = n + 1
          /\ ~span.protected => \A k \in 1..Len(span.text) : span.text[k] # "quote"
      BY Zenon, <3>1, CutFacts
    <3>3. span.text # << >>
      <4>1. span.text = SubSeq(text, i, e - 1)
        BY DEF SpanAt
      <4> HIDE DEF e, span
      <4>2. Len(SubSeq(text, i, e - 1)) = e - i
        BY <1>2, <3>1, <3>2 DEF Texts
      <4> QED
        <5>1. e - i # 0 /\ Len(<< >>) = 0
          BY <1>2, <3>1, <3>2
        <5> QED
          BY <4>1, <4>2, <5>1
    <3>4. e = n + 1 => rest(e) = << >>
      <4> HIDE DEF e
      <4> QED
        BY <1>2 DEF Texts
    <3>5. h[i] = <<span>> \o h[e]
      BY <2>2, <2>4
    <3> HIDE DEF e, span, rest
    <3>6. ~Keeps(rest(e), h[e])
      <4> SUFFICES ASSUME Keeps(rest(e), h[e]) PROVE FALSE
        OBVIOUS
      <4>1. Keeps(span.text \o rest(e), <<span>> \o h[e])
        BY <3>2, <3>3, <3>4, OneMoreKeeps
      <4> QED
        BY <2>1, <3>2, <3>5, <4>1
    <3>7. e \in 1..(n + 1) /\ i < e
      BY <1>2, <3>1, <3>2
    <3> QED
      BY <3>6, <3>7
  <2> QED
    BY <2>3, <2>4
<1>4. Bad \subseteq 0..(n + 1) /\ n + 1 \in Nat
  BY <1>2
<1>5. Bad = {}
  <2> HIDE DEF Bad, n
  <2> QED
    BY <1>3, <1>4, NoneFailsLater
<1>6. Keeps(rest(1), h[1])
  <2> HIDE DEF rest
  <2> QED
    BY <1>2, <1>5
<1>7. rest(1) = text
  BY DEF Texts
<1> HIDE DEF rest
<1> QED
  BY <1>1, <1>6, <1>7

-----------------------------------------------------------------------------
(* The language that is found, and what is bound                           *)

LEMMA EffectiveKeepsItsWord ==
  ASSUME NEW text \in Texts, Preserve
  PROVE  /\ KeepsItsWord(text, Effective(text))
         /\ Effective(text) \in Texts
<1> DEFINE spans == SplitSpans(text)
           offered == {Core(s.text) : s \in {s \in ToSet(spans) : ~s.protected}}
           found == {k \in DOMAIN Sources :
                       \E c \in offered : HasSourceScript(c, Sources[k])}
           source == DetectSource(text)
<1>1. Keeps(text, spans)
  BY SplitKeeps
<1>2. DOMAIN Sources = 1..Len(Sources) /\ Len(Sources) \in Nat
  BY SourcesAssumption
<1>3. \A k \in DOMAIN Sources : Sources[k] \in ToSet(Sources)
  BY DEF ToSet
<1>4. source = IF found = {} THEN NoSource
               ELSE Sources[CHOOSE k \in found : \A j \in found : k <= j]
  BY Zenon DEF DetectSource
<1>5. \A k \in DOMAIN Sources : k \in found <=> Sources[k] \in ScriptsOutside(text)
  <2> TAKE k \in DOMAIN Sources
  <2>1. \A s \in ToSet(spans) : s.text \in Texts
    <3>1. \A s \in ToSet(spans) : s \in Spans
      BY <1>1 DEF Keeps, ToSet
    <3> QED
      BY <3>1 DEF Spans
  <2>2. \A s \in ToSet(spans) :
          HasSourceScript(Core(s.text), Sources[k]) <=> Sources[k] \in ToSet(s.text)
    BY <1>3, <2>1, CoreHasTheScripts
  <2>3. k \in found <=>
          \E s \in ToSet(spans) : ~s.protected /\ HasSourceScript(Core(s.text), Sources[k])
    OBVIOUS
  <2>4. Sources[k] \in ScriptsOutside(text) <=>
          \E s \in ToSet(spans) : ~s.protected /\ Sources[k] \in ToSet(s.text)
    <3>1. ScriptsOutside(text) = Offered(spans)
      BY <1>1 DEF Keeps, ScriptsOutside
    <3> HIDE DEF spans
    <3> QED
      BY <1>3, <3>1 DEF Offered, ToSet
  <2> HIDE DEF found
  <2> QED
    BY <2>2, <2>3, <2>4
<1>6. \A x \in ScriptsOutside(text) : \E k \in DOMAIN Sources : Sources[k] = x
  <2>1. ScriptsOutside(text) \subseteq ToSet(Sources)
    BY <1>1 DEF Keeps, ScriptsOutside, Offered
  <2> QED
    BY <2>1 DEF ToSet
<1>7. Effective(text) = IF source = NoSource THEN text ELSE Joined(Outcomes(spans, source))
  BY Zenon DEF Effective, Outcomes
<1> HIDE DEF found, source, spans
<1>8. CASE found = {}
  <2>1. source = NoSource
    BY <1>4, <1>8
  <2>2. Effective(text) = text
    BY <1>7, <2>1
  <2>3. ScriptsOutside(text) = {}
    BY <1>5, <1>6, <1>8
  <2> QED
    BY <2>2, <2>3 DEF KeepsItsWord
<1>9. CASE found # {}
  <2>1. PICK k \in found : source = Sources[k] /\ \A j \in found : k <= j
    <3>1. found \subseteq Nat
      BY <1>2 DEF found
    <3>2. \E k \in found : \A j \in found : k <= j
      <4> SUFFICES ASSUME \A x \in found : \E y \in found : y < x PROVE FALSE
        BY <3>1
      <4> QED
        BY <1>9, <3>1, NoneFails
    <3> QED
      BY <1>4, <1>9, <3>2
  <2>2. k \in DOMAIN Sources /\ source \in ToSet(Sources) /\ source \in ScriptsOutside(text)
    BY <1>3, <1>5, <2>1 DEF found
  <2>3. source # NoSource
    BY <2>2, SourcesAssumption
  <2>4. /\ Effective(text) = Joined(Outcomes(spans, source))
        /\ Effective(text) \in Texts
        /\ Literals(Effective(text)) = Literals(text)
        /\ source \notin ScriptsOutside(Effective(text))
    BY <1>1, <1>7, <2>2, <2>3 DEF Keeps, Literals, ScriptsOutside
  <2>5. \A i \in DOMAIN Sources :
          Sources[i] \in ScriptsOutside(text) => \E j \in 1..i : Sources[j] = source
    <3> SUFFICES ASSUME NEW i \in DOMAIN Sources, Sources[i] \in ScriptsOutside(text)
                 PROVE  \E j \in 1..i : Sources[j] = source
      OBVIOUS
    <3>1. k <= i
      BY <1>5, <2>1
    <3>2. k \in 1..i
      BY <1>2, <2>2, <3>1
    <3> QED
      BY <2>1, <3>2
  <2> QED
    BY <2>2, <2>4, <2>5 DEF KeepsItsWord
<1> QED
  BY <1>8, <1>9

-----------------------------------------------------------------------------
(* The texts of a submission, from stage to stage                          *)

Translating(doc, wanted, f) == Translation /\ Translates(doc, wanted) /\ f.translatable

TextsInHand(r, g) ==
  LET doc == g.served[r.id].doc IN
  \A id \in DOMAIN r.asked :
    LET f == FieldOf(doc, id) IN
    f.type \in TextTypes =>
      r.values[id].v =
        IF r.stage = "translated" /\ Translating(doc, r.wanted, f)
        THEN Effective(r.asked[id].v) ELSE r.asked[id].v

TextsAreBound(s) ==
  \A f \in ToSet(s.doc.fields) :
    f.id \in DOMAIN s.asked /\ f.type \in TextTypes =>
      /\ s.asked[f.id].v \in Texts
      /\ \A target \in Targets(f) :
           s.graph[target].v =
             IF Translating(s.doc, s.wanted, f)
             THEN Effective(s.asked[f.id].v) ELSE s.asked[f.id].v

TextsOf(r, g) ==
  /\ r.stage \in {"validated", "translated"} => TextsInHand(r, g)
  /\ r.stage = "bound" => TextsAreBound(r)

TextsInv ==
  /\ \A c \in Clients : TextsOf(requests[c], gateway)
  /\ \A s \in sent : TextsAreBound(s)

LEMMA NoTexts == ASSUME NEW g PROVE TextsOf(NoRequest, g)
BY DEF TextsOf, NoRequest

(* A step of one client, over a gateway that stays                         *)
LEMMA ClientKeepsTexts ==
  ASSUME SubmissionInv, TextsInv, UNCHANGED gateway,
         NEW c \in Clients, NEW x, requests' = [requests EXCEPT ![c] = x],
         TextsOf(x, gateway), \A s \in sent' : TextsAreBound(s)
  PROVE  TextsInv'
<1>1. requests' = [d \in Clients |-> IF d = c THEN x ELSE requests[d]]
  BY DEF SubmissionInv
<1> QED
  BY <1>1 DEF TextsInv

LEMMA RefusalKeepsTexts ==
  ASSUME SubmissionInv, TextsInv, UNCHANGED gateway,
         NEW c \in Clients, Refuse(c), \A s \in sent' : TextsAreBound(s)
  PROVE  TextsInv'
BY ClientKeepsTexts, NoTexts DEF Refuse

LEMMA CheckedText ==
  ASSUME NEW f, f.type \in TextTypes, NEW x
  PROVE  Checked(f, x) = x
BY DEF Checked, TextTypes

LEMMA SubmitKeepsTexts ==
  ASSUME SubmissionInv, TextsInv, NEW c \in Clients, Submit(c)
  PROVE  TextsInv'
<1>1. UNCHANGED <<gateway, sent>>
  BY DEF Submit
<1>2. PICK inputs \in Inputs :
        IF /\ forms[c].id \in DOMAIN gateway.served
           /\ InputsAccepted(gateway.served[forms[c].id].doc, inputs)
        THEN requests' = [requests EXCEPT ![c] =
               [stage |-> "validated", id |-> forms[c].id, asked |-> inputs,
                wanted |-> inputs \notin LeftAlone,
                values |-> Validated(gateway.served[forms[c].id].doc, inputs)]]
        ELSE Refuse(c)
  BY DEF Submit
<1>3. CASE Refuse(c)
  BY <1>1, <1>3, RefusalKeepsTexts DEF TextsInv
<1>4. CASE ~Refuse(c)
  <2> DEFINE doc == gateway.served[forms[c].id].doc
             x == [stage |-> "validated", id |-> forms[c].id, asked |-> inputs,
                   wanted |-> inputs \notin LeftAlone, values |-> Validated(doc, inputs)]
  <2>1. requests' = [requests EXCEPT ![c] = x]
    BY <1>2, <1>4
  <2>2. /\ x.stage = "validated" /\ x.id = forms[c].id /\ x.asked = inputs
        /\ x.values = Validated(doc, inputs)
    OBVIOUS
  <2> HIDE DEF x
  <2>3. \A id \in DOMAIN inputs : x.values[id] = Checked(FieldOf(doc, id), inputs[id])
    BY <2>2 DEF Validated
  <2>4. TextsInHand(x, gateway)
    BY <2>2, <2>3, CheckedText DEF TextsInHand
  <2>5. TextsOf(x, gateway)
    BY <2>2, <2>4 DEF TextsOf
  <2> QED
    BY <1>1, <2>1, <2>5, ClientKeepsTexts DEF TextsInv
<1> QED
  BY <1>3, <1>4

LEMMA ApplyKeepsTexts ==
  ASSUME SubmissionInv, TextsInv, NEW c \in Clients, Apply(c)
  PROVE  TextsInv'
<1> DEFINE r == requests[c]
           doc == gateway.served[r.id].doc
           values == IF Translation /\ Translates(doc, r.wanted)
                     THEN Translated(doc, r.values) ELSE r.values
           x == [stage |-> "translated", id |-> r.id, asked |-> r.asked,
                 wanted |-> r.wanted, values |-> values]
<1>1. /\ UNCHANGED <<gateway, sent>> /\ r.stage = "validated"
      /\ requests' = [requests EXCEPT ![c].stage = "translated", ![c].values = values]
  BY DEF Apply, Workflow
<1>2. Carrying(r, gateway)
  BY <1>1 DEF SubmissionInv, InProgress, NoRequest
<1>3. requests' = [requests EXCEPT ![c] = x]
  <2>1. /\ r = [stage |-> r.stage, id |-> r.id, asked |-> r.asked, wanted |-> r.wanted,
                values |-> r.values]
        /\ requests = [d \in Clients |-> requests[d]]
    BY <1>2 DEF Carrying, SubmissionInv
  <2> HIDE DEF values
  <2> QED
    BY <1>1, <2>1, AppliedTo
<1>4. /\ x.stage = "translated" /\ x.id = r.id /\ x.asked = r.asked
      /\ x.wanted = r.wanted /\ x.values = values
  OBVIOUS
<1>5. \A id \in DOMAIN r.asked :
        FieldOf(doc, id).type \in TextTypes =>
          values[id].v = IF Translating(doc, r.wanted, FieldOf(doc, id))
                         THEN Effective(r.asked[id].v) ELSE r.asked[id].v
  <2> SUFFICES ASSUME NEW id \in DOMAIN r.asked, FieldOf(doc, id).type \in TextTypes
               PROVE  values[id].v = IF Translating(doc, r.wanted, FieldOf(doc, id))
                                     THEN Effective(r.asked[id].v) ELSE r.asked[id].v
    OBVIOUS
  <2>1. /\ id \in DOMAIN r.values /\ IsValue(r.values[id]) /\ r.values[id].v = r.asked[id].v
    BY <1>1, <1>2 DEF Carrying, TextsInv, TextsOf, TextsInHand
  <2>2. [r.values[id] EXCEPT !.v = Effective(r.values[id].v)].v = Effective(r.asked[id].v)
    <3> DEFINE y == r.values[id]
    <3>1. y = [kind |-> y.kind, v |-> y.v]
      BY <2>1 DEF IsValue
    <3> HIDE DEF y
    <3>2. [y EXCEPT !.v = Effective(y.v)].v = Effective(y.v)
      BY <3>1
    <3> QED
      BY <2>1, <3>2 DEF y
  <2>3. CASE Translation /\ Translates(doc, r.wanted)
    <3>1. values[id] = IF FieldOf(doc, id).translatable
                       THEN [r.values[id] EXCEPT !.v = Effective(r.values[id].v)]
                       ELSE r.values[id]
      BY <2>1, <2>3 DEF Translated
    <3> HIDE DEF values, doc, r
    <3> QED
      BY <2>1, <2>2, <2>3, <3>1 DEF Translating
  <2>4. CASE ~(Translation /\ Translates(doc, r.wanted))
    <3>1. values = r.values
      BY <2>4
    <3> HIDE DEF values, doc, r
    <3> QED
      BY <2>1, <2>4, <3>1 DEF Translating
  <2> QED
    BY <2>3, <2>4
<1> HIDE DEF values, x
<1>6. TextsInHand(x, gateway)
  BY <1>4, <1>5 DEF TextsInHand
<1>7. TextsOf(x, gateway)
  BY <1>4, <1>6 DEF TextsOf
<1> QED
  BY <1>1, <1>3, <1>7, ClientKeepsTexts DEF TextsInv

LEMMA BindKeepsTexts ==
  ASSUME SubmissionInv, TextsInv, NEW c \in Clients, Bind(c)
  PROVE  TextsInv'
<1> DEFINE r == requests[c]
           w == gateway.served[r.id]
           x == [stage |-> "bound", id |-> r.id, asked |-> r.asked, wanted |-> r.wanted,
                 doc |-> w.doc, graph |-> BindValues(w.doc, w.graph, r.values)]
<1>1. /\ UNCHANGED <<gateway, sent>> /\ r.stage = "translated"
      /\ requests' = [requests EXCEPT ![c] = x]
  BY DEF Bind, Workflow
<1>2. Carrying(r, gateway) /\ TextsInHand(r, gateway)
  BY <1>1 DEF SubmissionInv, InProgress, NoRequest, TextsInv, TextsOf
<1>3. Loads(w.doc) /\ Shaped(w.doc) /\ w.graph = w.doc.graph
  BY <1>2, ServedLoads DEF SubmissionInv, ServesItsFiles, Carrying
<1>4. /\ x.stage = "bound" /\ x.doc = w.doc /\ x.asked = r.asked /\ x.wanted = r.wanted
      /\ x.graph = BindValues(w.doc, w.doc.graph, r.values)
  BY <1>3
<1> HIDE DEF x
<1>5. TextsAreBound(x)
  <2> SUFFICES ASSUME NEW f \in ToSet(w.doc.fields), f.id \in DOMAIN r.asked,
                      f.type \in TextTypes
               PROVE  /\ r.asked[f.id].v \in Texts
                      /\ \A target \in Targets(f) :
                           x.graph[target].v = IF Translating(w.doc, r.wanted, f)
                                               THEN Effective(r.asked[f.id].v)
                                               ELSE r.asked[f.id].v
    BY <1>4 DEF TextsAreBound
  <2>1. FieldOf(w.doc, f.id) = f /\ FieldFits(f, w.doc.graph)
    BY <1>3, FieldOfItsId
  <2>2. /\ r.asked \in Inputs /\ f.id \in DOMAIN r.values
        /\ Accepts(f, r.asked[f.id]) /\ Carried(f, r.asked[f.id], r.values[f.id])
    BY <1>2, <2>1 DEF Carrying, InputsAccepted
  <2>3. r.asked[f.id].kind = "text" /\ r.asked[f.id].v \in Texts
    BY <2>2, AcceptedByType, InputsAssumption DEF IsText, Texts
  <2>4. r.values[f.id].kind = "text"
    BY <2>2, <2>3, CheckedText DEF Carried
  <2>5. r.values[f.id].v = IF Translating(w.doc, r.wanted, f)
                           THEN Effective(r.asked[f.id].v) ELSE r.asked[f.id].v
    BY <1>1, <1>2, <2>1 DEF TextsInHand
  <2>6. ASSUME NEW target \in Targets(f)
        PROVE  x.graph[target] = r.values[f.id]
    <3>1. target \in DOMAIN w.doc.graph
      BY <2>1 DEF FieldFits, BindFits, Bindable, Targets, ToSet
    <3>2. BindValues(w.doc, w.doc.graph, r.values)[target] = Resolved(r.values[f.id])
      BY <1>3, <2>2, <2>6, <3>1, BindingWrites
    <3>3. Resolved(r.values[f.id]) = r.values[f.id]
      BY <2>4 DEF Resolved
    <3> QED
      BY <1>4, <3>2, <3>3
  <2> QED
    BY <2>3, <2>5, <2>6
<1>6. TextsOf(x, gateway)
  BY <1>4, <1>5 DEF TextsOf
<1> QED
  BY <1>1, <1>6, ClientKeepsTexts DEF TextsInv

LEMMA SendKeepsTexts ==
  ASSUME SubmissionInv, TextsInv, NEW c \in Clients, Send(c)
  PROVE  TextsInv'
<1> DEFINE r == requests[c]
           prompt == [doc |-> r.doc, asked |-> r.asked, wanted |-> r.wanted,
                      graph |-> r.graph]
<1>1. /\ UNCHANGED gateway /\ Refuse(c) /\ r.stage = "bound"
      /\ sent' \in {sent, sent \cup {prompt}}
  BY DEF Send
<1>2. TextsAreBound(r)
  BY <1>1 DEF TextsInv, TextsOf
<1>3. /\ prompt.doc = r.doc /\ prompt.asked = r.asked /\ prompt.graph = r.graph
      /\ prompt.wanted = r.wanted
  OBVIOUS
<1> HIDE DEF prompt
<1>4. TextsAreBound(prompt)
  BY <1>2, <1>3 DEF TextsAreBound
<1>5. \A s \in sent' : TextsAreBound(s)
  BY <1>1, <1>4 DEF TextsInv
<1> QED
  BY <1>1, <1>5, RefusalKeepsTexts

(* What a gateway that starts or stops serves is nobody's submission yet   *)
LEMMA OthersKeepTexts ==
  ASSUME SubmissionInv, TextsInv, UNCHANGED sent,
         \/ UNCHANGED <<gateway, requests>>
         \/ Start
         \/ Stop
  PROVE  TextsInv'
<1>1. CASE UNCHANGED <<gateway, requests>>
  BY <1>1 DEF TextsInv
<1>2. CASE Start
  <2>1. \A c \in Clients : requests'[c] = NoRequest
    BY <1>2 DEF SubmissionInv, InProgress, Carrying, Start
  <2> QED
    BY <2>1, NoTexts DEF TextsInv
<1>3. CASE Stop
  <2>1. \A c \in Clients : requests'[c] = NoRequest
    BY <1>3 DEF Stop
  <2> QED
    BY <2>1, NoTexts DEF TextsInv
<1> QED
  BY <1>1, <1>2, <1>3

LEMMA TextsNext ==
  ASSUME SubmissionInv, TextsInv, [SubmissionNext]_submissionVars PROVE TextsInv'
<1>1. CASE (\E p \in Paths : Edit(p)) \/ (\E m \in Media : Expire(m)) \/ ComfyGoesOrComes
  BY <1>1, OthersKeepTexts DEF Edit, Expire, ComfyGoesOrComes
<1>2. CASE Start \/ Stop
  BY <1>2, OthersKeepTexts DEF Start, Stop
<1>3. ASSUME NEW c \in Clients,
             \/ GetWorkflow(c) \/ Submit(c) \/ Apply(c) \/ ApplyFails(c)
             \/ Bind(c) \/ BindFails(c) \/ Send(c)
      PROVE  TextsInv'
  <2>1. CASE GetWorkflow(c)
    BY <2>1, OthersKeepTexts DEF GetWorkflow
  <2>2. CASE ApplyFails(c) \/ BindFails(c)
    BY <2>2, RefusalKeepsTexts DEF ApplyFails, BindFails, TextsInv
  <2> QED
    BY <1>3, <2>1, <2>2, SubmitKeepsTexts, ApplyKeepsTexts, BindKeepsTexts, SendKeepsTexts
<1>4. CASE UNCHANGED submissionVars
  BY <1>4, OthersKeepTexts DEF submissionVars
<1> QED
  BY <1>1, <1>2, <1>3, <1>4 DEF SubmissionNext

(* What a person put in quotes reaches ComfyUI to the character, and what  *)
(* needs no translation, or was not to be translated, as it was given      *)
(* (spans.py split_spans, service.py apply).                               *)
THEOREM LiteralsAreKept == SubmissionSpec => []LiteralsSurvive
<1>1. SubmissionInit => TextsInv
  BY NoTexts DEF SubmissionInit, TextsInv
<1>2. TextsInv => LiteralsSurvive
  <2> SUFFICES ASSUME TextsInv, NEW s \in sent, NEW f \in ToSet(s.doc.fields),
                      f.id \in DOMAIN s.asked, f.type \in TextTypes, NEW target \in Targets(f)
               PROVE  IF Translation /\ s.wanted /\ s.doc.mode = "auto" /\ f.translatable
                      THEN Preserve => KeepsItsWord(s.asked[f.id].v, s.graph[target].v)
                      ELSE s.graph[target].v = s.asked[f.id].v
    BY DEF LiteralsSurvive
  <2>1. /\ s.asked[f.id].v \in Texts
        /\ s.graph[target].v = IF Translating(s.doc, s.wanted, f)
                               THEN Effective(s.asked[f.id].v) ELSE s.asked[f.id].v
    BY DEF TextsInv, TextsAreBound
  <2>2. Preserve => KeepsItsWord(s.asked[f.id].v, Effective(s.asked[f.id].v))
    BY <2>1, EffectiveKeepsItsWord
  <2> QED
    BY <2>1, <2>2 DEF Translating, Translates
<1> QED
  BY <1>1, <1>2, SubmissionInitInv, SubmissionNextInv, TextsNext, PTL DEF SubmissionSpec
=============================================================================
