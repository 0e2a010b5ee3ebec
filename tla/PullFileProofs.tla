--------------------------- MODULE PullFileProofs ---------------------------
(***************************************************************************)
(* Proofs about PullFile, for every set of versions, size of the file and  *)
(* number of retries, pulls and restarts.                                  *)
(***************************************************************************)
EXTENDS PullFile, SequenceTheorems, TLAPS

\* Files made of chunks of versions that have been named, what they hash to, and the
\* records that hold such hashes.
Partial  == UNION {[1..n -> seen] : n \in 0..Size}
Full     == [1..Size -> seen]
Known    == Full \cup {NoHash}
KnownId  == [v1: Known, v2: Known]
KnownRec == [snap: Full, v1: Known, v2: Known]

\* Where everybody is.
ControlInv ==
    /\ pos \in [Writers -> Positions] /\ fd \in [Writers -> {"none", "live", "tmp", "gone"}]
    /\ tries \in 0..MaxRetries /\ fromLan \in BOOLEAN /\ up \in BOOLEAN
    /\ pulls \in 0..MaxPulls /\ restarts \in 0..MaxRestarts
    /\ (~up => restarts < MaxRestarts)
    /\ job \in {"none", "download", "seed", "done"}

\* What is downloaded comes from versions that have been named, and is whole but for the
\* .tmp file.
FilesKnown ==
    /\ seen \subseteq Versions /\ remote \in seen /\ source \in seen
    /\ part \in Partial /\ dest \in Full \cup {Absent}

\* So is whatever was hashed, ...
HashesKnown ==
    /\ result \in KnownId /\ (job = "download" => result.v1 # NoHash)
    /\ entry \in [by: {"none", "job", "seeder"}, id: KnownId]
    /\ ident \in [Writers -> KnownId]

\* ... and recorded.
RecordsKnown ==
    /\ meta \in KnownRec \cup {Absent, Torn} /\ metaTmp \in KnownRec \cup {Absent, Torn}
    /\ buf \in [Writers -> KnownRec \cup {Absent}]

\* Who is about to write a record has one.
WritersReady ==
    \A w \in Writers : pos[w] \in {"save", "saveWrite", "open", "write"} => buf[w] # Absent

\* Before there is a file, nothing is hashed, seeded or recorded.
FileFirst ==
    dest = Absent =>
        /\ job \notin {"seed", "done"}
        /\ pos["cli"] \notin {"hash", "save", "saveWrite", "seed", "seedWait", "seedPoll"}
        /\ meta \in {Absent, Torn} /\ metaTmp \in {Absent, Torn}
        /\ \A w \in Writers : buf[w] = Absent

Inv == ControlInv /\ FilesKnown /\ HashesKnown /\ RecordsKnown /\ WritersReady /\ FileFirst

-----------------------------------------------------------------------------
\* What is known has the types of the specification.
LEMMA KnownTypes ==
  ASSUME seen \subseteq Versions
  PROVE  /\ Partial \subseteq Content /\ Full \subseteq Content /\ Absent \notin Full
         /\ NoHash \notin Full /\ KnownId \subseteq Identity /\ KnownRec \subseteq Metadata
         /\ Absent \notin KnownRec /\ Torn \notin KnownRec /\ Full \subseteq Partial
<1>1. \A n \in 0..Size : [1..n -> seen] \subseteq [1..n -> Versions]
  OBVIOUS
<1>2. Partial \subseteq Content
  BY <1>1 DEF Partial, Content
<1>3. Size \in 0..Size
  BY PullConstants
<1>4. Full \subseteq Partial
  BY <1>3 DEF Full, Partial
<1>5. Absent \notin Full /\ NoHash \notin Full
  BY <1>2, <1>4, Distinct
<1>6. KnownId \subseteq Identity /\ KnownRec \subseteq Metadata
  BY <1>2, <1>4 DEF KnownId, KnownRec, Known, Identity, Metadata
<1>7. QED
  BY <1>2, <1>4, <1>5, <1>6, Distinct

\* The sets grow with seen.
LEMMA KnownGrows ==
  ASSUME seen \subseteq seen'
  PROVE  /\ Partial \subseteq Partial' /\ Full \subseteq Full'
         /\ KnownId \subseteq KnownId' /\ KnownRec \subseteq KnownRec'
<1>1. \A n \in 0..Size : [1..n -> seen] \subseteq [1..n -> seen']
  OBVIOUS
<1>2. Partial \subseteq Partial'
  BY <1>1 DEF Partial
<1>3. Full \subseteq Full'
  BY DEF Full
<1>4. QED
  BY <1>2, <1>3 DEF KnownId, KnownRec, Known

\* They stay with it.
LEMMA KnownStays ==
  ASSUME seen' = seen
  PROVE  /\ Partial' = Partial /\ Full' = Full /\ Known' = Known
         /\ KnownId' = KnownId /\ KnownRec' = KnownRec
  BY DEF Partial, Full, Known, KnownId, KnownRec

\* A copied chunk is one more, and a partial file as long as the file is the whole of it.
LEMMA PartialFile ==
  ASSUME FilesKnown
  PROVE  /\ Len(part) \in 0..Size
         /\ (Len(part) < Size => Append(part, source) \in Partial)
         /\ (Len(part) >= Size => part \in Full)
         /\ <<>> \in Partial
<1>1. PICK n \in 0..Size : part \in [1..n -> seen]
  BY DEF FilesKnown, Partial
<1>2. n \in Nat /\ Size \in Nat
  BY PullConstants
<1>3. part \in Seq(seen) /\ Len(part) = n
  BY <1>1, <1>2
<1>4. ASSUME Len(part) < Size PROVE Append(part, source) \in Partial
  <2>1. Append(part, source) \in Seq(seen) /\ Len(Append(part, source)) = n + 1
    BY <1>3, AppendProperties DEF FilesKnown
  <2>2. Append(part, source) \in [1..(n + 1) -> seen]
    BY <2>1, LenProperties
  <2>3. n + 1 \in 0..Size
    BY <1>2, <1>3, <1>4
  <2>4. QED
    BY <2>2, <2>3 DEF Partial
<1>5. ASSUME Len(part) >= Size PROVE part \in Full
  BY <1>1, <1>2, <1>3, <1>5 DEF Full
<1>6. <<>> \in [1..0 -> seen] /\ 0 \in 0..Size
  BY <1>2
<1>7. QED
  BY <1>1, <1>2, <1>3, <1>4, <1>5, <1>6 DEF Partial

\* The file of a version is one of them.
LEMMA WholeKnown ==
  ASSUME NEW v \in seen
  PROVE  Whole(v) \in Full
  BY DEF Whole, Full

-----------------------------------------------------------------------------
\* The initial states satisfy it.
THEOREM InitInv == Init => Inv
<1> SUFFICES ASSUME Init PROVE Inv
  OBVIOUS
<1>1. <<>> \in Partial
  <2>1. <<>> \in [1..0 -> seen] /\ 0 \in 0..Size
    BY PullConstants
  <2>2. QED
    BY <2>1 DEF Partial
<1>2. NoIdentity \in KnownId
  BY DEF NoIdentity, KnownId, Known
<1>3. ControlInv
  <2>1. 0 \in 0..MaxRetries /\ 0 \in 0..MaxPulls /\ 0 \in 0..MaxRestarts
    BY PullConstants
  <2>2. QED
    BY <2>1 DEF Init, ControlInv, Positions
<1>4. FilesKnown
  BY <1>1 DEF Init, FilesKnown
<1>5. HashesKnown
  BY <1>2 DEF Init, HashesKnown, Entry
<1>6. RecordsKnown
  BY DEF Init, RecordsKnown
<1>7. WritersReady
  BY DEF Init, WritersReady
<1>8. FileFirst
  BY DEF Init, FileFirst, Writers
<1>9. QED
  BY <1>3, <1>4, <1>5, <1>6, <1>7, <1>8 DEF Inv

\* More versions: what was known stays known.
LEMMA MoveInv ==
  ASSUME Inv, NEW v \in Versions, Move(v)
  PROVE  Inv'
<1>1. seen \subseteq seen'
  BY DEF Move
<1>2. FilesKnown'
  BY <1>1, KnownGrows DEF Inv, FilesKnown, Move, fileVars, pullVars
<1>3. HashesKnown'
  BY <1>1, KnownGrows DEF Inv, HashesKnown, Move, jobVars, argVars
<1>4. RecordsKnown'
  BY <1>1, KnownGrows DEF Inv, RecordsKnown, Move, metaVars, argVars
<1>5. ControlInv' /\ WritersReady' /\ FileFirst'
  BY DEF Inv, ControlInv, WritersReady, FileFirst, Move, fileVars, pullVars,
     jobVars, metaVars, argVars, daemonVars
<1>6. QED
  BY <1>2, <1>3, <1>4, <1>5 DEF Inv

-----------------------------------------------------------------------------
(* The command, and peers *)

\* A new pull, with its retries.
LEMMA BeginInv ==
  ASSUME Inv, Begin
  PROVE  Inv'
<1>1. ControlInv'
  <2>1. pulls + 1 \in 0..MaxPulls /\ MaxRetries \in 0..MaxRetries
    BY PullConstants DEF Inv, ControlInv, Begin
  <2>2. QED
    BY <2>1 DEF Inv, ControlInv, Begin, Goto, jobVars, metaVars, daemonVars, Positions
<1>2. WritersReady'
  BY DEF Inv, WritersReady, Begin, Goto, argVars
<1>3. FileFirst'
  BY DEF Inv, FileFirst, Begin, Goto, fileVars, jobVars, metaVars, argVars
<1>4. FilesKnown' /\ HashesKnown' /\ RecordsKnown'
  BY KnownStays DEF Inv, FilesKnown, HashesKnown, RecordsKnown, Begin, Goto, fileVars,
     remoteVars, jobVars, metaVars, argVars
<1>5. QED
  BY <1>1, <1>2, <1>3, <1>4 DEF Inv

\* A command that dies leaves files and records as they are.
LEMMA DieInv ==
  ASSUME Inv, Die
  PROVE  Inv'
<1>1. ControlInv'
  BY DEF Inv, ControlInv, Die, End, Goto, pullVars, jobVars, daemonVars, Positions
<1>2. WritersReady'
  BY DEF Inv, WritersReady, Die, End, Goto, argVars
<1>3. FileFirst'
  BY DEF Inv, FileFirst, Die, End, Goto, fileVars, jobVars, argVars
<1>4. FilesKnown' /\ HashesKnown' /\ RecordsKnown'
  BY KnownStays DEF Inv, FilesKnown, HashesKnown, RecordsKnown, Die, Goto, fileVars,
     remoteVars, pullVars, jobVars, argVars
<1>5. QED
  BY <1>1, <1>2, <1>3, <1>4 DEF Inv

\* Without a hint nothing happens.
LEMMA LanSkipInv ==
  ASSUME Inv, LanSkip
  PROVE  Inv'
<1>1. ControlInv'
  BY DEF Inv, ControlInv, LanSkip, Goto, pullVars, jobVars, metaVars, daemonVars, Positions
<1>2. WritersReady'
  BY DEF Inv, WritersReady, LanSkip, Goto, argVars
<1>3. FileFirst'
  BY DEF Inv, FileFirst, LanSkip, Goto, fileVars, jobVars, metaVars, argVars
<1>4. FilesKnown' /\ HashesKnown' /\ RecordsKnown'
  BY KnownStays DEF Inv, FilesKnown, HashesKnown, RecordsKnown, LanSkip, Goto, fileVars,
     remoteVars, pullVars, jobVars, metaVars, argVars
<1>5. QED
  BY <1>1, <1>2, <1>3, <1>4 DEF Inv

\* What a peer offers has been named when it is taken up.
LEMMA TakeUpKnown ==
  ASSUME Inv, NEW v, NEW h, TakeUp(v, h)
  PROVE  /\ seen \subseteq seen' /\ seen' \subseteq Versions
         /\ result' \in KnownId' /\ result'.v1 # NoHash
<1>1. seen \subseteq seen' /\ seen' \subseteq Versions /\ v \in seen'
  BY DEF Inv, FilesKnown, TakeUp, Offered
<1>2. Whole(v) \in Full' /\ Whole(v) # NoHash
  <2>1. Whole(v) \in Full'
    BY <1>1 DEF Whole, Full
  <2>2. Full' \subseteq [1..Size -> Versions] /\ Size \in 0..Size
    BY <1>1, PullConstants DEF Full
  <2>3. Whole(v) \in Content
    BY <2>1, <2>2 DEF Content
  <2>4. QED
    BY <2>1, <2>3, Distinct
<1>3. h \in Known'
  <2>1. CASE h = NoHash
    BY <2>1 DEF Known
  <2>2. ASSUME NEW u \in Versions, h = Whole(u) PROVE h \in Known'
    <3>1. u \in seen'
      BY <2>2 DEF TakeUp
    <3>2. QED
      BY <2>2, <3>1 DEF Known, Full, Whole
  <2>3. QED
    BY <2>1, <2>2 DEF TakeUp, Offered
<1>4. QED
  BY <1>1, <1>2, <1>3 DEF TakeUp, KnownId, Known

\* The identity of a hint is one of a version named, and what was known stays known.
LEMMA LanStartInv ==
  ASSUME Inv, NEW v, NEW h, LanStart(v, h)
  PROVE  Inv'
<1>1. ControlInv'
  BY DEF Inv, ControlInv, LanStart, TakeUp, Goto, pullVars, metaVars, daemonVars, Positions
<1>2. /\ seen \subseteq seen' /\ seen' \subseteq Versions
      /\ result' \in KnownId' /\ result'.v1 # NoHash
  BY TakeUpKnown DEF LanStart
<1>3. HashesKnown'
  BY <1>2, KnownGrows DEF Inv, HashesKnown, LanStart, TakeUp, argVars
<1>4. WritersReady'
  BY DEF Inv, WritersReady, LanStart, TakeUp, Goto, argVars
<1>5. FileFirst'
  BY DEF Inv, FileFirst, LanStart, TakeUp, Goto, fileVars, metaVars, argVars
<1>6. FilesKnown'
  BY <1>2, KnownGrows DEF Inv, FilesKnown, LanStart, fileVars, pullVars
<1>7. RecordsKnown'
  BY <1>2, KnownGrows DEF Inv, RecordsKnown, LanStart, metaVars, argVars
<1>8. QED
  BY <1>1, <1>3, <1>4, <1>5, <1>6, <1>7 DEF Inv

\* So is what a user picks among the announcements.
LEMMA NetworkPullInv ==
  ASSUME Inv, NEW v, NEW h, NetworkPull(v, h)
  PROVE  Inv'
<1>1. ControlInv'
  <2>1. pulls + 1 \in 0..MaxPulls /\ 0 \in 0..MaxRetries
    BY PullConstants DEF Inv, ControlInv, NetworkPull
  <2>2. QED
    BY <2>1 DEF Inv, ControlInv, NetworkPull, TakeUp, Goto, metaVars, daemonVars, Positions
<1>2. /\ seen \subseteq seen' /\ seen' \subseteq Versions
      /\ result' \in KnownId' /\ result'.v1 # NoHash
  BY TakeUpKnown DEF NetworkPull
<1>3. HashesKnown'
  BY <1>2, KnownGrows DEF Inv, HashesKnown, NetworkPull, TakeUp, argVars
<1>4. WritersReady'
  BY DEF Inv, WritersReady, NetworkPull, TakeUp, Goto, argVars
<1>5. FileFirst'
  BY DEF Inv, FileFirst, NetworkPull, TakeUp, Goto, fileVars, metaVars, argVars
<1>6. FilesKnown'
  BY <1>2, KnownGrows DEF Inv, FilesKnown, NetworkPull, fileVars
<1>7. RecordsKnown'
  BY <1>2, KnownGrows DEF Inv, RecordsKnown, NetworkPull, metaVars, argVars
<1>8. QED
  BY <1>1, <1>3, <1>4, <1>5, <1>6, <1>7 DEF Inv

\* A rejected request changes nothing.
LEMMA LanRejectInv ==
  ASSUME Inv, LanReject
  PROVE  Inv'
<1>1. ControlInv'
  BY DEF Inv, ControlInv, LanReject, End, Goto, pullVars, jobVars, metaVars, daemonVars,
     Positions
<1>2. WritersReady'
  BY DEF Inv, WritersReady, LanReject, End, Goto, argVars
<1>3. FileFirst'
  BY DEF Inv, FileFirst, LanReject, End, Goto, fileVars, jobVars, metaVars, argVars
<1>4. FilesKnown' /\ HashesKnown' /\ RecordsKnown'
  BY KnownStays DEF Inv, FilesKnown, HashesKnown, RecordsKnown, LanReject, Goto, fileVars,
     remoteVars, pullVars, jobVars, metaVars, argVars
<1>5. QED
  BY <1>1, <1>2, <1>3, <1>4 DEF Inv

\* A download that is done leaves the whole file its infohash names.
LEMMA LanCompleteInv ==
  ASSUME Inv, LanComplete
  PROVE  Inv'
<1>1. ControlInv'
  BY DEF Inv, ControlInv, LanComplete, pullVars, metaVars, daemonVars
<1>2. FilesKnown'
  BY KnownStays DEF Inv, FilesKnown, LanComplete, remoteVars, pullVars, HashesKnown,
     KnownId, Known
<1>3. HashesKnown'
  BY KnownStays DEF Inv, HashesKnown, LanComplete, Entry, remoteVars, argVars
<1>4. FileFirst'
  BY KnownTypes DEF Inv, FileFirst, LanComplete, FilesKnown, HashesKnown, KnownId, Known
<1>5. RecordsKnown' /\ WritersReady'
  BY KnownStays DEF Inv, RecordsKnown, WritersReady, LanComplete, remoteVars, metaVars,
     argVars
<1>6. QED
  BY <1>1, <1>2, <1>3, <1>4, <1>5 DEF Inv

\* One that failed leaves none.
LEMMA LanFailsInv ==
  ASSUME Inv, LanFails
  PROVE  Inv'
<1>1. ControlInv'
  BY DEF Inv, ControlInv, LanFails, End, Goto, pullVars, metaVars, daemonVars, Positions
<1>2. HashesKnown'
  BY KnownStays DEF Inv, HashesKnown, LanFails, Goto, remoteVars, argVars
<1>3. WritersReady'
  BY DEF Inv, WritersReady, LanFails, End, Goto, argVars
<1>4. FileFirst'
  BY DEF Inv, FileFirst, LanFails, End, Goto, fileVars, metaVars, argVars
<1>5. FilesKnown' /\ RecordsKnown'
  BY KnownStays DEF Inv, FilesKnown, RecordsKnown, LanFails, Goto, fileVars, remoteVars,
     pullVars, metaVars, argVars
<1>6. QED
  BY <1>1, <1>2, <1>3, <1>4, <1>5 DEF Inv

-----------------------------------------------------------------------------
(* Client.Download *)

\* An answer without a range starts an empty partial file.
LEMMA AnswerFullInv ==
  ASSUME Inv, AnswerFull
  PROVE  Inv'
<1>1. ControlInv'
  BY DEF Inv, ControlInv, AnswerFull, Goto, jobVars, metaVars, daemonVars, Positions
<1>2. FilesKnown'
  BY KnownStays, PartialFile DEF Inv, FilesKnown, AnswerFull, Goto, remoteVars
<1>3. WritersReady'
  BY DEF Inv, WritersReady, AnswerFull, Goto, argVars
<1>4. FileFirst'
  BY DEF Inv, FileFirst, AnswerFull, Goto, jobVars, metaVars, argVars
<1>5. HashesKnown' /\ RecordsKnown'
  BY KnownStays DEF Inv, HashesKnown, RecordsKnown, AnswerFull, Goto, remoteVars, jobVars,
     metaVars, argVars
<1>6. QED
  BY <1>1, <1>2, <1>3, <1>4, <1>5 DEF Inv

\* One with a range goes on with what the revision denotes now.
LEMMA AnswerRangeInv ==
  ASSUME Inv, AnswerRange
  PROVE  Inv'
<1>1. ControlInv'
  BY DEF Inv, ControlInv, AnswerRange, Goto, jobVars, metaVars, daemonVars, Positions
<1>2. FilesKnown'
  BY KnownStays DEF Inv, FilesKnown, AnswerRange, Goto, fileVars, remoteVars
<1>3. WritersReady'
  BY DEF Inv, WritersReady, AnswerRange, Goto, argVars
<1>4. FileFirst'
  BY DEF Inv, FileFirst, AnswerRange, Goto, fileVars, jobVars, metaVars, argVars
<1>5. HashesKnown' /\ RecordsKnown'
  BY KnownStays DEF Inv, HashesKnown, RecordsKnown, AnswerRange, Goto, remoteVars, jobVars,
     metaVars, argVars
<1>6. QED
  BY <1>1, <1>2, <1>3, <1>4, <1>5 DEF Inv

\* After a 416 the partial file is as long as the file, so it is whole.
LEMMA AnswerUnsatisfiableInv ==
  ASSUME Inv, AnswerUnsatisfiable
  PROVE  Inv'
<1>1. ControlInv'
  BY DEF Inv, ControlInv, AnswerUnsatisfiable, Rename, Goto, pullVars, jobVars, metaVars,
     daemonVars, Positions
<1>2. FilesKnown'
  BY KnownStays, PartialFile DEF Inv, FilesKnown, AnswerUnsatisfiable, Rename, Goto,
     remoteVars, pullVars
<1>3. WritersReady'
  BY DEF Inv, WritersReady, AnswerUnsatisfiable, Rename, Goto, argVars
<1>4. FileFirst'
  BY KnownTypes, Distinct DEF Inv, FileFirst, AnswerUnsatisfiable, Rename, Goto, FilesKnown
<1>5. HashesKnown' /\ RecordsKnown'
  BY KnownStays DEF Inv, HashesKnown, RecordsKnown, AnswerUnsatisfiable, Goto, remoteVars,
     jobVars, metaVars, argVars
<1>6. QED
  BY <1>1, <1>2, <1>3, <1>4, <1>5 DEF Inv

\* A failed request costs a retry.
LEMMA RequestFailsInv ==
  ASSUME Inv, RequestFails
  PROVE  Inv'
<1>1. ControlInv'
  BY PullConstants DEF Inv, ControlInv, RequestFails, RetryOrEnd, Goto, End, jobVars,
     metaVars, daemonVars, Positions
<1>2. WritersReady'
  BY DEF Inv, WritersReady, RequestFails, RetryOrEnd, Goto, End, argVars, ControlInv
<1>3. FileFirst'
  BY DEF Inv, FileFirst, RequestFails, RetryOrEnd, Goto, End, fileVars, jobVars, metaVars,
     argVars, ControlInv
<1>4. FilesKnown' /\ HashesKnown' /\ RecordsKnown'
  BY KnownStays DEF Inv, FilesKnown, HashesKnown, RecordsKnown, RequestFails, Goto,
     fileVars, remoteVars, jobVars, metaVars, argVars
<1>5. QED
  BY <1>1, <1>2, <1>3, <1>4 DEF Inv

\* A copied chunk is of a version that has been named.
LEMMA CopyChunkInv ==
  ASSUME Inv, CopyChunk
  PROVE  Inv'
<1>1. FilesKnown'
  BY KnownStays, PartialFile DEF Inv, FilesKnown, CopyChunk, remoteVars, pullVars
<1>2. ControlInv' /\ HashesKnown' /\ RecordsKnown' /\ WritersReady' /\ FileFirst'
  BY KnownStays DEF Inv, ControlInv, HashesKnown, RecordsKnown, WritersReady, FileFirst,
     CopyChunk, remoteVars, pullVars, jobVars, metaVars, argVars, daemonVars
<1>3. QED
  BY <1>1, <1>2 DEF Inv

\* A copy ends when the file is whole.
LEMMA CopyEndsInv ==
  ASSUME Inv, CopyEnds
  PROVE  Inv'
<1>1. ControlInv'
  BY DEF Inv, ControlInv, CopyEnds, Rename, Goto, pullVars, jobVars, metaVars, daemonVars,
     Positions
<1>2. FilesKnown'
  BY KnownStays, PartialFile DEF Inv, FilesKnown, CopyEnds, Rename, Goto, remoteVars,
     pullVars
<1>3. WritersReady'
  BY DEF Inv, WritersReady, CopyEnds, Rename, Goto, argVars
<1>4. FileFirst'
  BY KnownTypes, Distinct DEF Inv, FileFirst, CopyEnds, Rename, Goto, FilesKnown
<1>5. HashesKnown' /\ RecordsKnown'
  BY KnownStays DEF Inv, HashesKnown, RecordsKnown, CopyEnds, Goto, remoteVars, jobVars,
     metaVars, argVars
<1>6. QED
  BY <1>1, <1>2, <1>3, <1>4, <1>5 DEF Inv

\* A failed one leaves no partial file.
LEMMA CopyFailsInv ==
  ASSUME Inv, CopyFails
  PROVE  Inv'
<1>1. ControlInv'
  BY PullConstants DEF Inv, ControlInv, CopyFails, RetryOrEnd, Goto, End, jobVars, metaVars,
     daemonVars, Positions
<1>2. FilesKnown'
  BY KnownStays, PartialFile DEF Inv, FilesKnown, CopyFails, Goto, remoteVars
<1>3. WritersReady'
  BY DEF Inv, WritersReady, CopyFails, RetryOrEnd, Goto, End, argVars, ControlInv
<1>4. FileFirst'
  BY DEF Inv, FileFirst, CopyFails, RetryOrEnd, Goto, End, jobVars, metaVars, argVars,
     ControlInv
<1>5. HashesKnown' /\ RecordsKnown'
  BY KnownStays DEF Inv, HashesKnown, RecordsKnown, CopyFails, Goto, remoteVars, jobVars,
     metaVars, argVars
<1>6. QED
  BY <1>1, <1>2, <1>3, <1>4, <1>5 DEF Inv

-----------------------------------------------------------------------------
(* Store.Save *)

\* The first record needs a file, which is there by now.
LEMMA HashInv ==
  ASSUME Inv, Hash
  PROVE  Inv'
<1>1. ControlInv'
  BY DEF Inv, ControlInv, Hash, Goto, pullVars, jobVars, metaVars, daemonVars, Positions
<1>2. RecordsKnown'
  BY KnownStays DEF Inv, RecordsKnown, Hash, Goto, remoteVars, HashesKnown, KnownId, Known,
     Writers
<1>3. WritersReady'
  <2>1. buf'["cli"] # Absent
    <3>1. dest \in Full /\ result \in KnownId
      BY DEF Inv, FilesKnown, HashesKnown, FileFirst, Hash
    <3>2. [snap |-> dest, v1 |-> IF fromLan THEN result.v1 ELSE NoHash,
                          v2 |-> IF fromLan THEN result.v2 ELSE NoHash] \in KnownRec
      BY <3>1 DEF KnownRec, KnownId, Known
    <3>3. QED
      BY <3>2, KnownTypes DEF Inv, FilesKnown, RecordsKnown, Writers, Hash
  <2>2. QED
    BY <2>1 DEF Inv, WritersReady, Hash, Goto
<1>4. FileFirst'
  BY DEF Inv, FileFirst, Hash, Goto, fileVars
<1>5. FilesKnown' /\ HashesKnown'
  BY KnownStays DEF Inv, FilesKnown, HashesKnown, Hash, Goto, fileVars, remoteVars,
     pullVars, jobVars
<1>6. QED
  BY <1>1, <1>2, <1>3, <1>4, <1>5 DEF Inv

\* Save truncates the record ...
LEMMA SaveOpenInv ==
  ASSUME Inv, SaveOpen
  PROVE  Inv'
<1>1. ControlInv'
  BY DEF Inv, ControlInv, SaveOpen, Goto, pullVars, jobVars, daemonVars, Positions
<1>2. RecordsKnown'
  BY KnownStays DEF Inv, RecordsKnown, SaveOpen, Goto, remoteVars, HashesKnown,
     WritersReady, KnownId, KnownRec, Writers
<1>3. WritersReady'
  BY DEF Inv, WritersReady, SaveOpen, Goto, argVars
<1>4. FileFirst'
  BY DEF Inv, FileFirst, SaveOpen, Goto, fileVars
<1>5. FilesKnown' /\ HashesKnown'
  BY KnownStays DEF Inv, FilesKnown, HashesKnown, SaveOpen, Goto, fileVars, remoteVars,
     pullVars, jobVars, argVars
<1>6. QED
  BY <1>1, <1>2, <1>3, <1>4, <1>5 DEF Inv

\* ... and writes its own.
LEMMA SaveWriteInv ==
  ASSUME Inv, SaveWrite
  PROVE  Inv'
<1>1. ControlInv'
  BY DEF Inv, ControlInv, SaveWrite, Goto, WriteBuf, pullVars, jobVars, daemonVars,
     Positions
<1>2. RecordsKnown'
  BY KnownStays DEF Inv, RecordsKnown, SaveWrite, Goto, remoteVars, HashesKnown,
     WritersReady, KnownId, KnownRec, Writers
<1>3. WritersReady'
  BY DEF Inv, WritersReady, SaveWrite, Goto, argVars
<1>4. FileFirst'
  BY DEF Inv, FileFirst, SaveWrite, Goto, fileVars
<1>5. FilesKnown' /\ HashesKnown'
  BY KnownStays DEF Inv, FilesKnown, HashesKnown, SaveWrite, Goto, fileVars, remoteVars,
     pullVars, jobVars, argVars
<1>6. QED
  BY <1>1, <1>2, <1>3, <1>4, <1>5 DEF Inv

-----------------------------------------------------------------------------
(* Seeding *)

\* Only a file that is there is seeded.
LEMMA SeedStartInv ==
  ASSUME Inv, SeedStart
  PROVE  Inv'
<1>1. ControlInv'
  BY DEF Inv, ControlInv, SeedStart, Goto, pullVars, metaVars, daemonVars, Positions
<1>2. HashesKnown'
  BY KnownStays DEF Inv, HashesKnown, SeedStart, Goto, Entry, NoIdentity, remoteVars,
     argVars, KnownId, Known
<1>3. WritersReady'
  BY DEF Inv, WritersReady, SeedStart, Goto, argVars
<1>4. FileFirst'
  BY DEF Inv, FileFirst, SeedStart, Goto, fileVars
<1>5. FilesKnown' /\ RecordsKnown'
  BY KnownStays DEF Inv, FilesKnown, RecordsKnown, SeedStart, Goto, fileVars, remoteVars,
     pullVars, metaVars, argVars
<1>6. QED
  BY <1>1, <1>2, <1>3, <1>4, <1>5 DEF Inv

\* The job takes its own hash, or the identity of the entry it finds.
LEMMA SeedCompleteInv ==
  ASSUME Inv, SeedComplete
  PROVE  Inv'
<1>1. ControlInv'
  BY DEF Inv, ControlInv, SeedComplete, pullVars, metaVars, daemonVars
<1>2. HashesKnown'
  BY KnownStays DEF Inv, HashesKnown, SeedComplete, Seeded, Entry, HashOf, remoteVars,
     argVars, FilesKnown, FileFirst, KnownId, Known
<1>3. FileFirst'
  BY DEF Inv, FileFirst, SeedComplete, fileVars
<1>4. FilesKnown' /\ RecordsKnown' /\ WritersReady'
  BY KnownStays DEF Inv, FilesKnown, RecordsKnown, WritersReady, SeedComplete, fileVars,
     remoteVars, pullVars, metaVars, argVars
<1>5. QED
  BY <1>1, <1>2, <1>3, <1>4 DEF Inv

\* A failed job leaves the record.
LEMMA SeedFailsInv ==
  ASSUME Inv, SeedFails
  PROVE  Inv'
<1>1. ControlInv'
  BY DEF Inv, ControlInv, SeedFails, End, Goto, pullVars, metaVars, daemonVars, Positions
<1>2. HashesKnown'
  BY KnownStays DEF Inv, HashesKnown, SeedFails, Goto, remoteVars, argVars
<1>3. WritersReady'
  BY DEF Inv, WritersReady, SeedFails, End, Goto, argVars
<1>4. FileFirst'
  BY DEF Inv, FileFirst, SeedFails, Goto, fileVars
<1>5. FilesKnown' /\ RecordsKnown'
  BY KnownStays DEF Inv, FilesKnown, RecordsKnown, SeedFails, Goto, fileVars, remoteVars,
     pullVars, metaVars, argVars
<1>6. QED
  BY <1>1, <1>2, <1>3, <1>4, <1>5 DEF Inv

\* The handler sets what the job found.
LEMMA PollInv ==
  ASSUME Inv, Poll
  PROVE  Inv'
<1>1. ControlInv'
  BY DEF Inv, ControlInv, Poll, JobStatus, SeedStatus, FindsDone, pullVars, jobVars, metaVars,
     daemonVars, Positions
<1>2. HashesKnown'
  BY KnownStays DEF Inv, HashesKnown, Poll, JobStatus, SeedStatus, FindsDone, remoteVars, jobVars
<1>3. WritersReady'
  BY DEF Inv, WritersReady, Poll, JobStatus, SeedStatus, FindsDone, ControlInv
<1>4. FileFirst'
  BY DEF Inv, FileFirst, Poll, JobStatus, SeedStatus, FindsDone, fileVars
<1>5. FilesKnown' /\ RecordsKnown'
  BY KnownStays DEF Inv, FilesKnown, RecordsKnown, Poll, JobStatus, SeedStatus, FindsDone,
     fileVars, remoteVars, pullVars, metaVars
<1>6. QED
  BY <1>1, <1>2, <1>3, <1>4, <1>5 DEF Inv

\* The command goes on to a file that is there.
LEMMA AnsweredInv ==
  ASSUME Inv, Answered
  PROVE  Inv'
<1>1. ControlInv'
  BY DEF Inv, ControlInv, Answered, Goto, End, metaVars, daemonVars, Positions
<1>2. HashesKnown'
  BY KnownStays DEF Inv, HashesKnown, Answered, Goto, remoteVars, KnownId, Known
<1>3. WritersReady'
  BY DEF Inv, WritersReady, Answered, Goto, End, ControlInv
<1>4. FileFirst'
  BY DEF Inv, FileFirst, Answered, Goto, End, fileVars, metaVars, ControlInv
<1>5. FilesKnown' /\ RecordsKnown'
  BY KnownStays DEF Inv, FilesKnown, RecordsKnown, Answered, Goto, fileVars, remoteVars,
     metaVars
<1>6. QED
  BY <1>1, <1>2, <1>3, <1>4, <1>5 DEF Inv

-----------------------------------------------------------------------------
(* Store.SetInfohash and Store.SetIdentity *)

\* A record that was read exists next to a file, and merging hashes into it keeps it known.
LEMMA SetReadInv ==
  ASSUME Inv, NEW w \in Writers, SetRead(w)
  PROVE  Inv'
<1>1. ControlInv'
  BY DEF Inv, ControlInv, SetRead, Goto, pullVars, jobVars, metaVars, daemonVars, Positions
<1>2. RecordsKnown'
  BY KnownStays DEF Inv, RecordsKnown, SetRead, Goto, remoteVars, metaVars, HashesKnown,
     KnownId, KnownRec, Writers
<1>3. WritersReady'
  <2>1. CASE meta \in {Absent, Torn}
    BY <2>1 DEF Inv, ControlInv, WritersReady, SetRead, Goto
  <2>2. CASE meta \notin {Absent, Torn}
    <3>1. meta \in KnownRec /\ ident[w] \in KnownId
      BY <2>2 DEF Inv, HashesKnown, RecordsKnown
    <3>2. Merged(meta, ident[w]) \in KnownRec
      BY <3>1 DEF Merged, KnownRec, KnownId, Known
    <3>3. buf'[w] # Absent
      BY <2>2, <3>2, KnownTypes DEF Inv, FilesKnown, RecordsKnown, SetRead
    <3>4. QED
      BY <2>2, <3>3 DEF Inv, ControlInv, RecordsKnown, WritersReady, SetRead, Goto
  <2>3. QED
    BY <2>1, <2>2
<1>4. FileFirst'
  BY DEF Inv, FileFirst, SetRead, Goto, fileVars, jobVars, metaVars, ControlInv, Writers
<1>5. FilesKnown' /\ HashesKnown'
  BY KnownStays DEF Inv, FilesKnown, HashesKnown, SetRead, Goto, fileVars, remoteVars,
     pullVars, jobVars
<1>6. QED
  BY <1>1, <1>2, <1>3, <1>4, <1>5 DEF Inv

\* The temporary file is truncated ...
LEMMA SetOpenInv ==
  ASSUME Inv, NEW w \in Writers, SetOpen(w)
  PROVE  Inv'
<1>1. ControlInv'
  BY DEF Inv, ControlInv, SetOpen, Goto, pullVars, jobVars, daemonVars, Positions
<1>2. RecordsKnown'
  BY KnownStays DEF Inv, RecordsKnown, SetOpen, Goto, remoteVars, HashesKnown, WritersReady,
     KnownId, KnownRec, Writers
<1>3. WritersReady'
  BY DEF Inv, WritersReady, SetOpen, Goto, argVars
<1>4. FileFirst'
  BY DEF Inv, FileFirst, SetOpen, Goto, fileVars, WritersReady
<1>5. FilesKnown' /\ HashesKnown'
  BY KnownStays DEF Inv, FilesKnown, HashesKnown, SetOpen, Goto, fileVars, remoteVars,
     pullVars, jobVars, argVars
<1>6. QED
  BY <1>1, <1>2, <1>3, <1>4, <1>5 DEF Inv

\* ... and written, under whatever name it has now.
LEMMA SetWriteInv ==
  ASSUME Inv, NEW w \in Writers, SetWrite(w)
  PROVE  Inv'
<1>1. ControlInv'
  BY DEF Inv, ControlInv, SetWrite, Goto, WriteBuf, pullVars, jobVars, daemonVars, Positions
<1>2. RecordsKnown'
  BY KnownStays DEF Inv, RecordsKnown, SetWrite, Goto, remoteVars, HashesKnown,
     WritersReady, KnownId, KnownRec, Writers
<1>3. WritersReady'
  BY DEF Inv, WritersReady, SetWrite, Goto, argVars
<1>4. FileFirst'
  BY DEF Inv, FileFirst, SetWrite, Goto, fileVars, WritersReady
<1>5. FilesKnown' /\ HashesKnown'
  BY KnownStays DEF Inv, FilesKnown, HashesKnown, SetWrite, Goto, fileVars, remoteVars,
     pullVars, jobVars, argVars
<1>6. QED
  BY <1>1, <1>2, <1>3, <1>4, <1>5 DEF Inv

\* What is renamed is a known record, or torn.
LEMMA SetRenameInv ==
  ASSUME Inv, NEW w \in Writers, SetRename(w)
  PROVE  Inv'
<1>1. ControlInv'
  BY DEF Inv, ControlInv, SetRename, Goto, pullVars, jobVars, metaVars, daemonVars,
     Positions
<1>2. RecordsKnown'
  BY KnownStays DEF Inv, RecordsKnown, SetRename, Goto, remoteVars, metaVars, argVars
<1>3. WritersReady'
  BY DEF Inv, WritersReady, SetRename, Goto, argVars
<1>4. FileFirst'
  BY DEF Inv, FileFirst, SetRename, Goto, fileVars, jobVars, metaVars, argVars
<1>5. FilesKnown' /\ HashesKnown'
  BY KnownStays DEF Inv, FilesKnown, HashesKnown, SetRename, Goto, fileVars, remoteVars,
     pullVars, jobVars, argVars
<1>6. QED
  BY <1>1, <1>2, <1>3, <1>4, <1>5 DEF Inv

-----------------------------------------------------------------------------
(* The daemon *)

\* A daemon that stops forgets its jobs and entries.
LEMMA DaemonStopsInv ==
  ASSUME Inv, DaemonStops
  PROVE  Inv'
<1>1. ControlInv'
  BY DEF Inv, ControlInv, DaemonStops, pullVars, Positions
<1>2. HashesKnown'
  BY KnownStays DEF Inv, HashesKnown, DaemonStops, Entry, NoIdentity, remoteVars, argVars,
     KnownId, Known
<1>3. WritersReady'
  BY DEF Inv, WritersReady, DaemonStops, argVars
<1>4. FileFirst'
  BY DEF Inv, FileFirst, DaemonStops, fileVars, argVars, Writers
<1>5. FilesKnown' /\ RecordsKnown'
  BY KnownStays DEF Inv, FilesKnown, RecordsKnown, DaemonStops, fileVars, remoteVars,
     pullVars, argVars
<1>6. QED
  BY <1>1, <1>2, <1>3, <1>4, <1>5 DEF Inv

\* One that starts was stopped at most MaxRestarts times.
LEMMA DaemonStartsInv ==
  ASSUME Inv, DaemonStarts
  PROVE  Inv'
<1>1. ControlInv'
  <2>1. restarts + 1 \in 0..MaxRestarts
    BY PullConstants DEF Inv, ControlInv, DaemonStarts
  <2>2. QED
    BY <2>1 DEF Inv, ControlInv, DaemonStarts, Goto, pullVars, jobVars, metaVars, Positions
<1>2. WritersReady'
  BY DEF Inv, WritersReady, DaemonStarts, Goto, argVars
<1>3. FileFirst'
  BY DEF Inv, FileFirst, DaemonStarts, Goto, fileVars, jobVars, metaVars, argVars
<1>4. FilesKnown' /\ HashesKnown' /\ RecordsKnown'
  BY KnownStays DEF Inv, FilesKnown, HashesKnown, RecordsKnown, DaemonStarts, Goto,
     fileVars, remoteVars, pullVars, jobVars, metaVars, argVars
<1>5. QED
  BY <1>1, <1>2, <1>3, <1>4 DEF Inv

\* What it lists is recorded.
LEMMA SeedListInv ==
  ASSUME Inv, SeedList
  PROVE  Inv'
<1>1. ControlInv'
  BY DEF Inv, ControlInv, SeedList, Goto, pullVars, jobVars, metaVars, daemonVars, Positions
<1>2. HashesKnown'
  BY KnownStays DEF Inv, HashesKnown, SeedList, Goto, remoteVars, jobVars, RecordsKnown,
     KnownId, KnownRec
<1>3. WritersReady'
  BY DEF Inv, WritersReady, SeedList, Goto, ControlInv
<1>4. FileFirst'
  BY DEF Inv, FileFirst, SeedList, Goto, fileVars, jobVars, metaVars, ControlInv, Writers
<1>5. FilesKnown' /\ RecordsKnown'
  BY KnownStays DEF Inv, FilesKnown, RecordsKnown, SeedList, Goto, fileVars, remoteVars,
     pullVars, metaVars
<1>6. QED
  BY <1>1, <1>2, <1>3, <1>4, <1>5 DEF Inv

\* Merging the torrent file's identity keeps it known.
LEMMA SeedFileInv ==
  ASSUME Inv, SeedFile
  PROVE  Inv'
<1>1. ControlInv'
  BY DEF Inv, ControlInv, SeedFile, Goto, pullVars, metaVars, daemonVars, Positions
<1>2. HashesKnown'
  BY KnownStays DEF Inv, HashesKnown, SeedFile, Goto, Entry, HashOf, Merge, remoteVars,
     KnownId, Known, Writers
<1>3. WritersReady'
  BY DEF Inv, WritersReady, SeedFile, Goto
<1>4. FileFirst'
  BY DEF Inv, FileFirst, SeedFile, Goto, fileVars, metaVars
<1>5. FilesKnown' /\ RecordsKnown'
  BY KnownStays DEF Inv, FilesKnown, RecordsKnown, SeedFile, Goto, fileVars, remoteVars,
     pullVars, metaVars
<1>6. QED
  BY <1>1, <1>2, <1>3, <1>4, <1>5 DEF Inv

\* A new entry is empty ...
LEMMA RehashInv ==
  ASSUME Inv, Rehash
  PROVE  Inv'
<1>1. ControlInv'
  BY DEF Inv, ControlInv, Rehash, Goto, pullVars, metaVars, daemonVars, Positions
<1>2. HashesKnown'
  BY KnownStays DEF Inv, HashesKnown, Rehash, Goto, Entry, NoIdentity, remoteVars, argVars,
     KnownId, Known
<1>3. WritersReady'
  BY DEF Inv, WritersReady, Rehash, Goto, argVars
<1>4. FileFirst'
  BY DEF Inv, FileFirst, Rehash, Goto, fileVars, metaVars, argVars
<1>5. FilesKnown' /\ RecordsKnown'
  BY KnownStays DEF Inv, FilesKnown, RecordsKnown, Rehash, Goto, fileVars, remoteVars,
     pullVars, metaVars, argVars
<1>6. QED
  BY <1>1, <1>2, <1>3, <1>4, <1>5 DEF Inv

\* ... and is filled with the hash of the file.
LEMMA RehashedInv ==
  ASSUME Inv, Rehashed
  PROVE  Inv'
<1>1. ControlInv'
  BY DEF Inv, ControlInv, Rehashed, Goto, pullVars, metaVars, daemonVars, Positions
<1>2. HashesKnown'
  BY KnownStays DEF Inv, HashesKnown, Rehashed, Goto, Seeded, Entry, HashOf, remoteVars,
     FilesKnown, KnownId, Known
<1>3. WritersReady'
  BY DEF Inv, WritersReady, Rehashed, Goto
<1>4. FileFirst'
  BY DEF Inv, FileFirst, Rehashed, Goto, fileVars
<1>5. FilesKnown' /\ RecordsKnown'
  BY KnownStays DEF Inv, FilesKnown, RecordsKnown, Rehashed, Goto, fileVars, remoteVars,
     pullVars, metaVars
<1>6. QED
  BY <1>1, <1>2, <1>3, <1>4, <1>5 DEF Inv

\* A failure leaves the record.
LEMMA RehashFailsInv ==
  ASSUME Inv, RehashFails
  PROVE  Inv'
<1>1. ControlInv'
  BY DEF Inv, ControlInv, RehashFails, Goto, pullVars, jobVars, metaVars, daemonVars,
     Positions
<1>2. WritersReady'
  BY DEF Inv, WritersReady, RehashFails, Goto, argVars
<1>3. FileFirst'
  BY DEF Inv, FileFirst, RehashFails, Goto, fileVars, jobVars, metaVars, argVars
<1>4. FilesKnown' /\ HashesKnown' /\ RecordsKnown'
  BY KnownStays DEF Inv, FilesKnown, HashesKnown, RecordsKnown, RehashFails, Goto, fileVars,
     remoteVars, pullVars, jobVars, metaVars, argVars
<1>5. QED
  BY <1>1, <1>2, <1>3, <1>4 DEF Inv

-----------------------------------------------------------------------------
(* The theorems *)

\* A step that changes nothing.
LEMMA StutterInv ==
  ASSUME Inv, UNCHANGED vars
  PROVE  Inv'
<1> USE DEF vars, fileVars, remoteVars, pullVars, jobVars, metaVars, argVars, daemonVars
<1>1. ControlInv' /\ WritersReady' /\ FileFirst'
  BY DEF Inv, ControlInv, WritersReady, FileFirst
<1>2. FilesKnown' /\ HashesKnown' /\ RecordsKnown'
  BY KnownStays DEF Inv, FilesKnown, HashesKnown, RecordsKnown
<1>3. QED
  BY <1>1, <1>2 DEF Inv

\* Inv is inductive.
THEOREM NextInv == Inv /\ [Next]_vars => Inv'
<1> SUFFICES ASSUME Inv, [Next]_vars PROVE Inv'
  OBVIOUS
<1>1. CASE \E v \in Versions : Move(v)
  BY <1>1, MoveInv
<1>2. CASE Begins \/ Die
  BY <1>2, BeginInv, NetworkPullInv, DieInv DEF Begins
<1>3. CASE LanAttempt
  BY <1>3, LanSkipInv, LanRejectInv, LanStartInv DEF LanAttempt
<1>4. CASE LanComplete \/ LanFails
  BY <1>4, LanCompleteInv, LanFailsInv
<1>5. CASE Download
  BY <1>5, AnswerFullInv, AnswerRangeInv, AnswerUnsatisfiableInv, RequestFailsInv,
     CopyChunkInv, CopyEndsInv, CopyFailsInv DEF Download
<1>6. CASE Record
  BY <1>6, HashInv, SaveOpenInv, SaveWriteInv DEF Record
<1>7. CASE SeedAndWait
  BY <1>7, SeedStartInv, SeedCompleteInv, SeedFailsInv DEF SeedAndWait
<1>8. CASE Poll \/ Answered
  BY <1>8, PollInv, AnsweredInv
<1>9. CASE \E w \in Writers : Update(w)
  BY <1>9, SetReadInv, SetOpenInv, SetWriteInv, SetRenameInv DEF Update
<1>10. CASE DaemonStops \/ DaemonStarts
  BY <1>10, DaemonStopsInv, DaemonStartsInv
<1>11. CASE SeedExisting
  BY <1>11, SeedListInv, SeedFileInv, RehashInv, RehashedInv, RehashFailsInv DEF SeedExisting
<1>12. CASE UNCHANGED vars
  BY <1>12, StutterInv
<1>13. QED
  BY <1>1, <1>2, <1>3, <1>4, <1>5, <1>6, <1>7, <1>8, <1>9, <1>10, <1>11, <1>12 DEF Next

\* So it always holds.
THEOREM AlwaysInv == Spec => []Inv
  BY InitInv, NextInv, PTL DEF Spec

\* It gives the types, ...
LEMMA InvTypes == Inv => TypeOK
<1> SUFFICES ASSUME Inv PROVE TypeOK
  OBVIOUS
<1>1. /\ remote \in seen /\ seen \subseteq Versions /\ source \in Versions
      /\ part \in Content /\ dest \in Content \cup {Absent}
  BY KnownTypes DEF Inv, FilesKnown
<1>2. KnownId \subseteq Identity /\ KnownRec \subseteq Metadata
  BY KnownTypes DEF Inv, FilesKnown
<1>3. /\ result \in Identity /\ ident \in [Writers -> Identity]
      /\ entry \in [by: {"none", "job", "seeder"}, id: Identity]
  BY <1>2 DEF Inv, HashesKnown
<1>4. /\ meta \in Metadata \cup {Absent, Torn} /\ metaTmp \in Metadata \cup {Absent, Torn}
      /\ buf \in [Writers -> Metadata \cup {Absent}]
  BY <1>2 DEF Inv, RecordsKnown
<1>5. QED
  BY <1>1, <1>3, <1>4 DEF Inv, ControlInv, TypeOK

\* While one version has been named, there is one whole file, and a record, which
\* exists only next to a file, can only be of that one.
LEMMA InvRecord == Inv => RecordDescribesFile
<1> SUFFICES ASSUME Inv, Pinned, meta \in Metadata
             PROVE  /\ dest = Whole(remote) /\ meta.snap = dest
                    /\ {meta.v1, meta.v2} \subseteq {dest, NoHash}
  BY DEF RecordDescribesFile
<1>1. meta \in KnownRec /\ dest # Absent
  BY Distinct DEF Inv, RecordsKnown, FileFirst
<1>2. dest \in Full /\ meta.snap \in Full /\ meta.v1 \in Known /\ meta.v2 \in Known
  BY <1>1 DEF Inv, FilesKnown, KnownRec
<1>3. \A c \in Full : c = Whole(remote)
  BY DEF Full, Whole, Pinned
<1>4. QED
  BY <1>2, <1>3 DEF Known

\* Types: retries are counted (hf/client.go:236-260), and files, hashes and records are what
\* they are called.
THEOREM TypeCorrect == Spec => []TypeOK
  BY AlwaysInv, InvTypes, PTL

\* While the revision stays what it is and no peer delivers another one's file for it,
\* whatever is interrupted, resumed, repeated or written at once by command and daemon, a
\* record that parses describes the file that is there, and that is the revision's
\* (hf/client.go:275-417, store.go:74-161).
THEOREM RecordCorrect == Spec => []RecordDescribesFile
  BY AlwaysInv, InvRecord, PTL

-----------------------------------------------------------------------------
(* Updates of metadata.json *)

\* A writer is between its reading and its renaming, or has truncated the temporary file.
Updating == {"open", "write", "rename"}
Editing  == {"write", "rename"}

\* Two writers use the temporary file at once.
Overlap == \E u, w \in Writers : u # w /\ pos[u] \in Editing /\ pos[w] \in Editing

\* The mutex of a Store: one of the daemon's goroutines at a time.
OneInDaemon == \A u, w \in Daemon : pos[u] \in Updating /\ pos[w] \in Updating => u = w

\* Who has the temporary file open, by that name, is about to write it.
TmpIsOpen == \A w \in Writers : fd[w] = "tmp" => pos[w] = "write"

\* A daemon that is stopped has no goroutines.
StoppedIdle == ~up => \A w \in Daemon : pos[w] = "idle"

\* The temporary file of a writer that no other overlaps: truncated, then its record.
TmpKept ==
    \A w \in Writers :
        /\ fd[w] = "tmp" <=> pos[w] = "write"
        /\ pos[w] = "write" => metaTmp = Torn
        /\ pos[w] = "rename" => metaTmp \in Metadata

\* The temporary file is left alone, and whoever moves does not use it.
Aside ==
    /\ metaTmp' = metaTmp
    /\ \A w \in Writers :
          \/ pos'[w] = pos[w] /\ fd'[w] = fd[w]
          \/ pos'[w] \notin Updating /\ fd'[w] # "tmp"

\* No step but those of Update uses the temporary file: neither Save, which writes to
\* metadata.json, nor a command or a daemon that ends.
LEMMA OthersAside ==
  ASSUME ControlInv, [Next]_vars, ~\E w \in Writers : Update(w),
         TmpIsOpen, StoppedIdle
  PROVE  Aside
<1> USE DEF Aside, Updating, ControlInv, TmpIsOpen, Goto
<1>1. CASE \E v \in Versions : Move(v)
  BY <1>1 DEF Move, metaVars
<1>2. CASE Begins
  BY <1>2 DEF Begins, Begin, NetworkPull, TakeUp, metaVars
<1>3. CASE Die
  BY <1>3 DEF Die, End
<1>4. CASE LanAttempt
  BY <1>4 DEF LanAttempt, LanSkip, LanReject, LanStart, TakeUp, End, metaVars
<1>5. CASE LanComplete \/ LanFails
  BY <1>5 DEF LanComplete, LanFails, End, metaVars
<1>6. CASE Download
  <2>1. UNCHANGED metaVars
    BY <1>6 DEF Download, AnswerFull, AnswerRange, AnswerUnsatisfiable, RequestFails, CopyChunk,
       CopyEnds, CopyFails
  <2>2. /\ pos["cli"] \in {"request", "copy"}
        /\ pos' = pos \/ \E p \in {"copy", "hash", "request", "idle"} : Goto("cli", p)
    BY <1>6 DEF Download, AnswerFull, AnswerRange, AnswerUnsatisfiable, RequestFails, CopyChunk,
       CopyEnds, CopyFails, Rename, RetryOrEnd, End
  <2>3. QED
    BY <2>1, <2>2 DEF metaVars
<1>7. CASE Record
  <2>1. CASE Hash \/ SaveOpen
    BY <2>1 DEF Hash, SaveOpen, metaVars
  <2>2. CASE SaveWrite
    <3>1. fd["cli"] # "tmp"
      BY <2>2 DEF SaveWrite, Writers
    <3>2. metaTmp' = metaTmp /\ fd' = [fd EXCEPT !["cli"] = "none"]
      BY <2>2, <3>1 DEF SaveWrite, WriteBuf
    <3>3. pos' = [pos EXCEPT !["cli"] = "idle"] \/ pos' = [pos EXCEPT !["cli"] = "seed"]
      BY <2>2 DEF SaveWrite
    <3>4. QED
      BY <3>2, <3>3
  <2>3. QED
    BY <1>7, <2>1, <2>2 DEF Record
<1>8. CASE SeedAndWait
  BY <1>8 DEF SeedAndWait, SeedStart, SeedComplete, SeedFails, End, metaVars
<1>9. CASE Poll \/ Answered
  BY <1>9 DEF Poll, JobStatus, SeedStatus, FindsDone, Answered, End, metaVars
<1>10. CASE DaemonStops \/ DaemonStarts
  <2>1. CASE DaemonStops
    <3>1. \A w \in Writers :
             /\ pos'[w] = IF w \in Daemon THEN "idle" ELSE pos[w]
             /\ fd'[w] = IF w \in Daemon THEN "none" ELSE fd[w]
      BY <2>1 DEF DaemonStops
    <3>2. metaTmp' = metaTmp
      BY <2>1 DEF DaemonStops
    <3>3. QED
      BY <3>1, <3>2
  <2>2. CASE DaemonStarts
    BY <2>2 DEF DaemonStarts, metaVars, StoppedIdle, Daemon, Writers
  <2>3. QED
    BY <1>10, <2>1, <2>2
<1>11. CASE SeedExisting
  BY <1>11 DEF SeedExisting, SeedList, SeedFile, Rehash, Rehashed, RehashFails, metaVars
<1>12. CASE UNCHANGED vars
  BY <1>12 DEF vars, metaVars
<1>13. QED
  BY <1>1, <1>2, <1>3, <1>4, <1>5, <1>6, <1>7, <1>8, <1>9, <1>10, <1>11, <1>12 DEF Next

\* The goroutines of a stopped daemon stay where they are.
LEMMA StoppedStays ==
  ASSUME ControlInv, StoppedIdle, [Next]_vars
  PROVE  StoppedIdle'
<1> USE DEF StoppedIdle, ControlInv, Goto, Daemon, Writers, daemonVars
<1>1. CASE (\E v \in Versions : Move(v)) \/ Begins \/ Die
  BY <1>1 DEF Move, Begins, Begin, NetworkPull, TakeUp, Die, End
<1>2. CASE LanAttempt \/ LanComplete \/ LanFails
  BY <1>2 DEF LanAttempt, LanSkip, LanReject, LanStart, TakeUp, LanComplete, LanFails, End
<1>3. CASE Download
  BY <1>3 DEF Download, AnswerFull, AnswerRange, AnswerUnsatisfiable, RequestFails, CopyChunk,
     CopyEnds, CopyFails, Rename, RetryOrEnd, End
<1>4. CASE Record
  BY <1>4 DEF Record, Hash, SaveOpen, SaveWrite
<1>5. CASE SeedAndWait
  BY <1>5 DEF SeedAndWait, SeedStart, SeedComplete, SeedFails, End
<1>6. CASE Poll \/ Answered
  BY <1>6 DEF Poll, JobStatus, SeedStatus, FindsDone, Answered, End
<1>7. CASE \E w \in Writers : Update(w)
  BY <1>7 DEF Update, SetRead, SetOpen, SetWrite, SetRename, Writers
<1>8. CASE DaemonStops \/ DaemonStarts
  BY <1>8 DEF DaemonStops, DaemonStarts, Writers
<1>9. CASE SeedExisting
  BY <1>9 DEF SeedExisting, SeedList, SeedFile, Rehash, Rehashed, RehashFails
<1>10. CASE UNCHANGED vars
  BY <1>10 DEF vars
<1>11. QED
  BY <1>1, <1>2, <1>3, <1>4, <1>5, <1>6, <1>7, <1>8, <1>9, <1>10 DEF Next

\* A step that leaves the file alone leaves it to whoever uses it.
LEMMA AsideKeeps ==
  ASSUME Aside
  PROVE  /\ OneInDaemon => OneInDaemon'
         /\ TmpIsOpen => TmpIsOpen'
         /\ TmpKept => TmpKept'
<1>1. OneInDaemon => OneInDaemon'
  BY DEF Aside, OneInDaemon, Daemon, Writers
<1>2. TmpKept => TmpKept'
  BY DEF Aside, TmpKept, Updating
<1>3. TmpIsOpen => TmpIsOpen'
  BY DEF Aside, TmpIsOpen
<1>4. QED
  BY <1>1, <1>2, <1>3

\* An update by a writer that has the temporary file to itself.
LEMMA UpdateKeeps ==
  ASSUME Inv, TmpKept, ~Overlap, NEW w \in Writers, Update(w), ~Overlap'
  PROVE  TmpKept' /\ (SetRename(w) => meta' # Torn)
<1>1. \A u \in Writers \ {w} : pos'[u] = pos[u]
  BY DEF Update, SetRead, SetOpen, SetWrite, SetRename, Goto, Inv, ControlInv
<1>2. CASE SetRead(w)
  <2>1. pos'[w] \notin Editing /\ fd[w] # "tmp" /\ UNCHANGED <<metaTmp, fd>> /\ ~SetRename(w)
    BY <1>2 DEF SetRead, SetRename, Goto, Inv, ControlInv, TmpKept, metaVars, Editing
  <2>2. QED
    BY <1>1, <2>1 DEF TmpKept, Editing
<1>3. CASE SetOpen(w)
  <2>1. /\ pos'[w] = "write" /\ fd'[w] = "tmp" /\ metaTmp' = Torn /\ ~SetRename(w)
        /\ \A u \in Writers \ {w} : fd'[u] = fd[u]
    BY <1>3 DEF SetOpen, SetRename, Goto, Inv, ControlInv
  <2>2. \A u \in Writers \ {w} : pos'[u] \notin Editing
    BY <2>1 DEF Overlap, Editing
  <2>3. QED
    BY <1>1, <2>1, <2>2 DEF TmpKept, Editing
<1>4. CASE SetWrite(w)
  <2>1. /\ pos[w] = "write" /\ pos'[w] = "rename" /\ fd[w] = "tmp" /\ metaTmp = Torn
        /\ fd' = [fd EXCEPT ![w] = "none"] /\ ~SetRename(w)
    BY <1>4 DEF SetWrite, SetRename, WriteBuf, Goto, Inv, ControlInv, TmpKept
  <2>2. buf[w] \in Metadata
    BY <2>1, KnownTypes DEF Inv, FilesKnown, RecordsKnown, WritersReady
  <2>3. metaTmp' \in Metadata
    BY <1>4, <2>1, <2>2 DEF SetWrite, WriteBuf, After
  <2>4. \A u \in Writers \ {w} : pos'[u] \notin Editing /\ fd'[u] = fd[u]
    BY <2>1 DEF Overlap, Editing, Inv, ControlInv
  <2>5. fd'[w] = "none"
    BY <2>1 DEF Inv, ControlInv
  <2>6. QED
    BY <1>1, <2>1, <2>3, <2>4, <2>5 DEF TmpKept, Editing
<1>5. CASE SetRename(w)
  <2>1. pos[w] = "rename" /\ pos'[w] = "idle" /\ metaTmp \in Metadata
    BY <1>5 DEF SetRename, Goto, Inv, ControlInv, TmpKept
  <2>2. metaTmp # Absent /\ metaTmp # Torn
    BY <2>1, Distinct
  <2>3. \A u \in Writers \ {w} : pos[u] \notin Editing
    BY <2>1 DEF Overlap, Editing
  <2>4. meta' = metaTmp /\ \A u \in Writers : fd'[u] # "tmp"
    BY <1>5, <2>2 DEF SetRename
  <2>5. QED
    BY <1>1, <2>1, <2>2, <2>3, <2>4 DEF TmpKept, Editing
<1>6. QED
  BY <1>2, <1>3, <1>4, <1>5 DEF Update

\* A goroutine of the daemon reads the record only while no other updates it; and a renaming
\* turns the temporary file of another into metadata.json.
LEMMA UpdateExcludes ==
  ASSUME ControlInv, OneInDaemon, TmpIsOpen, NEW w \in Writers, Update(w)
  PROVE  OneInDaemon' /\ TmpIsOpen'
<1>1. CASE SetRead(w)
  <2>1. OneInDaemon'
    BY <1>1 DEF SetRead, Unlocked, Goto, ControlInv, OneInDaemon, Updating, Daemon, Writers
  <2>2. TmpIsOpen'
    BY <1>1 DEF SetRead, Goto, ControlInv, TmpIsOpen, metaVars
  <2>3. QED
    BY <2>1, <2>2
<1>2. CASE SetOpen(w) \/ SetWrite(w) \/ SetRename(w)
  <2>1. OneInDaemon'
    BY <1>2 DEF SetOpen, SetWrite, SetRename, Goto, ControlInv, OneInDaemon, Updating, Daemon,
       Writers
  <2>2. TmpIsOpen'
    BY <1>2 DEF SetOpen, SetWrite, SetRename, WriteBuf, Goto, ControlInv, TmpIsOpen, metaVars
  <2>3. QED
    BY <2>1, <2>2
<1>3. QED
  BY <1>1, <1>2 DEF Update

\* Nobody updates before the first pull.
LEMMA NobodyUpdatesFirst == Init => OneInDaemon /\ TmpIsOpen /\ StoppedIdle /\ TmpKept
  BY DEF Init, OneInDaemon, StoppedIdle, TmpIsOpen, TmpKept, Updating, Daemon, Writers

\* So a stopped daemon never has any.
LEMMA AlwaysStoppedIdle == Spec => []StoppedIdle
<1>1. Inv /\ StoppedIdle /\ [Next]_vars => StoppedIdle'
  BY StoppedStays DEF Inv
<1>2. QED
  BY <1>1, NobodyUpdatesFirst, AlwaysInv, PTL DEF Spec

\* At all times one goroutine of the daemon at most reads and replaces a record: the mutex of
\* the Store excludes the poll that finds a job done and the seeding at start
\* (store.go:98-101).
THEOREM DaemonExcludes == Spec => []OneInDaemon
<1>1. Inv /\ StoppedIdle /\ OneInDaemon /\ TmpIsOpen /\ [Next]_vars => OneInDaemon' /\ TmpIsOpen'
  <2> SUFFICES ASSUME Inv, StoppedIdle, OneInDaemon, TmpIsOpen, [Next]_vars
               PROVE  OneInDaemon' /\ TmpIsOpen'
    OBVIOUS
  <2>1. CASE \E w \in Writers : Update(w)
    BY <2>1, UpdateExcludes DEF Inv
  <2>2. CASE ~\E w \in Writers : Update(w)
    BY <2>2, OthersAside, AsideKeeps DEF Inv
  <2>3. QED
    BY <2>1, <2>2
<1>2. QED
  BY <1>1, NobodyUpdatesFirst, AlwaysInv, AlwaysStoppedIdle, PTL DEF Spec

\* Updates are atomic, as the comment at store.go:97 says, as long as no two writers use the
\* temporary file at once; as the daemon's exclude each other, it takes the command to break
\* that (pull_atomic shows how).
THEOREM AtomicWithinProcess ==
  /\ Spec /\ []~Overlap => UpdatesAreAtomic
  /\ Spec => [](Overlap => pos["cli"] \in Editing)
<1>1. Inv /\ StoppedIdle /\ TmpKept /\ ~Overlap /\ ~Overlap' /\ [Next]_vars
        => TmpKept' /\ ((\E w \in Writers : SetRename(w)) => meta' # Torn)
  <2> SUFFICES ASSUME Inv, StoppedIdle, TmpKept, ~Overlap, ~Overlap', [Next]_vars
               PROVE  TmpKept' /\ ((\E w \in Writers : SetRename(w)) => meta' # Torn)
    OBVIOUS
  <2>1. CASE \E w \in Writers : Update(w)
    <3>1. PICK w \in Writers : Update(w)
      BY <2>1
    <3>2. TmpKept' /\ (SetRename(w) => meta' # Torn)
      BY <3>1, UpdateKeeps
    <3>3. ASSUME NEW u \in Writers, SetRename(u)
          PROVE  meta' # Torn
      <4>1. Update(u)
        BY <3>3 DEF Update
      <4>2. QED
        BY <3>3, <4>1, UpdateKeeps
    <3>4. QED
      BY <3>2, <3>3
  <2>2. CASE ~\E w \in Writers : Update(w)
    <3>1. TmpIsOpen
      BY DEF TmpKept, TmpIsOpen
    <3>2. TmpKept'
      BY <2>2, <3>1, OthersAside, AsideKeeps DEF Inv
    <3>3. QED
      BY <2>2, <3>2 DEF Update
  <2>3. QED
    BY <2>1, <2>2
<1>2. OneInDaemon => (Overlap => pos["cli"] \in Editing)
  BY DEF OneInDaemon, Overlap, Editing, Updating, Daemon, Writers
<1>3. Spec /\ []~Overlap => UpdatesAreAtomic
  BY <1>1, NobodyUpdatesFirst, AlwaysInv, AlwaysStoppedIdle, PTL DEF Spec, UpdatesAreAtomic
<1>4. QED
  BY <1>2, <1>3, DaemonExcludes, PTL
-----------------------------------------------------------------------------
(* Pulls end. PullEnds is an induction over the retries, the phases and the *)
(* chunks that are left, which is out of the provers' reach; what the       *)
(* induction rests on is proved here.                                       *)

\* The phases of a pull that are still to come, at most.
Ahead(p) == CASE p = "lan"                    -> 13
              [] p \in {"request", "lanWait"} -> 12
              [] p \in {"copy", "lanPoll"}    -> 11
              [] p = "hash"                   -> 10
              [] p = "save"                   -> 9
              [] p = "saveWrite"              -> 8
              [] p = "seed"                   -> 7
              [] p = "seedWait"               -> 6
              [] p = "seedPoll"               -> 5
              [] p = "read"                   -> 4
              [] p = "open"                   -> 3
              [] p = "write"                  -> 2
              [] p = "rename"                 -> 1
              [] OTHER                        -> 0

\* A step that uses up a retry, or else enters a later phase, or else copies a chunk.
Advances ==
    \/ tries' < tries
    \/ tries' = tries /\ Ahead(pos'["cli"]) < Ahead(pos["cli"])
    \/ /\ tries' = tries /\ pos'["cli"] = pos["cli"]
       /\ Len(part) < Len(part') /\ Len(part') <= Size

\* A step of anybody else.
Elsewhere == tries' = tries /\ pos'["cli"] = pos["cli"] /\ part' = part

PullAdvances == pos["cli"] # "idle" => pos'["cli"] = "idle" \/ Advances \/ Elsewhere

LEMMA LanAdvances ==
  ASSUME TypeOK, \/ LanAttempt \/ LanComplete \/ LanFails \/ Poll \/ Answered
  PROVE  PullAdvances
  BY DEF TypeOK, Writers, LanAttempt, LanSkip, LanReject, LanStart, TakeUp, LanComplete, LanFails, Poll,
         JobStatus, SeedStatus, FindsDone, Answered, Goto, End, pullVars, fileVars,
         PullAdvances, Advances, Elsewhere, Ahead

\* Retries are counted.
LEMMA RetryAdvances ==
  ASSUME TypeOK, RetryOrEnd
  PROVE  pos'["cli"] = "idle" \/ tries' < tries
  BY PullConstants DEF TypeOK, Writers, RetryOrEnd, Goto, End

LEMMA DownloadAdvances ==
  ASSUME TypeOK, Download
  PROVE  PullAdvances
<1>1. tries \in Nat /\ pos \in [Writers -> Positions] /\ "cli" \in Writers
  BY PullConstants DEF TypeOK, Writers
<1>2. CASE RequestFails \/ CopyFails
  BY <1>2, RetryAdvances DEF RequestFails, CopyFails, PullAdvances, Advances
<1>3. CASE AnswerFull \/ AnswerRange \/ AnswerUnsatisfiable \/ CopyEnds
  BY <1>1, <1>3 DEF AnswerFull, AnswerRange, AnswerUnsatisfiable, CopyEnds, Rename, Goto,
                    pullVars, PullAdvances, Advances, Ahead
<1>4. CASE CopyChunk
  <2>1. part \in Seq(Versions) /\ Len(part) \in Nat /\ Size \in Nat
    BY PullConstants DEF TypeOK, Content
  <2>2. Len(part') = Len(part) + 1
    BY <1>4, <2>1 DEF CopyChunk
  <2>3. QED
    BY <1>1, <1>4, <2>1, <2>2 DEF CopyChunk, pullVars, PullAdvances, Advances
<1>5. QED
  BY <1>2, <1>3, <1>4 DEF Download

LEMMA RecordAdvances ==
  ASSUME TypeOK, Record \/ SeedAndWait
  PROVE  PullAdvances
  BY DEF TypeOK, Writers, Record, Hash, SaveOpen, SaveWrite, SeedAndWait, SeedStart, SeedComplete,
         SeedFails, Goto, End, pullVars, fileVars, PullAdvances, Advances, Elsewhere, Ahead

LEMMA UpdateAdvances ==
  ASSUME TypeOK, NEW w \in Writers, Update(w)
  PROVE  PullAdvances
<1>1. tries' = tries /\ part' = part
  BY DEF Update, SetRead, SetOpen, SetWrite, SetRename, pullVars, fileVars
<1>2. CASE w = "cli"
  BY <1>1, <1>2 DEF TypeOK, Writers, Update, SetRead, SetOpen, SetWrite, SetRename, Goto,
                    PullAdvances, Advances, Ahead
<1>3. CASE w # "cli"
  BY <1>1, <1>3 DEF TypeOK, Writers, Update, SetRead, SetOpen, SetWrite, SetRename, Goto,
                    PullAdvances, Elsewhere
<1>4. QED
  BY <1>2, <1>3

LEMMA DaemonElsewhere ==
  ASSUME TypeOK, DaemonStops \/ DaemonStarts \/ SeedExisting
  PROVE  PullAdvances
  BY DEF TypeOK, Writers, Daemon, DaemonStops, DaemonStarts, SeedExisting, SeedList, SeedFile,
         Rehash, Rehashed, RehashFails, Goto, pullVars, fileVars, PullAdvances, Elsewhere

\* A pull cannot go round for ever: whatever the answers, the peers, the daemon and its restarts
\* do, each of its steps uses up a retry, or enters a later phase, or copies a chunk of a file
\* of Size chunks, and nobody else's step sets it back (hf/client.go:275-417, pull.go:441-517).
THEOREM PullGoesOn == Spec => [][PullAdvances]_vars
<1>1. ASSUME TypeOK, [Next]_vars PROVE PullAdvances
  <2>1. CASE Begins \/ Die
    BY <1>1, <2>1 DEF TypeOK, Writers, Begins, Begin, NetworkPull, TakeUp, Die, End, Goto, PullAdvances
  <2>2. CASE UNCHANGED vars \/ \E v \in Versions : Move(v)
    BY <2>2 DEF vars, Move, pullVars, fileVars, PullAdvances, Elsewhere
  <2>3. QED
    BY <1>1, <2>1, <2>2, LanAdvances, DownloadAdvances, RecordAdvances, UpdateAdvances,
       DaemonElsewhere DEF Next
<1>2. TypeOK /\ [Next]_vars => [PullAdvances]_vars
  BY <1>1
<1>3. QED
  BY <1>2, TypeCorrect, PTL DEF Spec
=============================================================================
