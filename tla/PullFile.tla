------------------------------ MODULE PullFile ------------------------------
(***************************************************************************)
(* Pulling one file of a revision into its model directory: downloadOneFile*)
(* of cmd/pull.go with the Hugging Face client (internal/hf), the cache's  *)
(* metadata.json (internal/cache) and the daemon's part (internal/daemon), *)
(* which downloads from peers, hashes the file for seeding and writes the  *)
(* infohashes into the same metadata.json from another process.            *)
(*                                                                         *)
(* A file is a sequence of chunks, named by the version they come from; a  *)
(* hash stands for what it was computed from. The command may die at any   *)
(* moment and be run again; one runs at a time. The daemon may restart.    *)
(***************************************************************************)
EXTENDS Integers, Sequences

CONSTANTS
    Versions,     \* contents of the model: what the revision denotes, and other revisions do
    Size,         \* chunks of the file
    MaxRetries,   \* of a download, 3
    Absent,       \* no file
    Torn,         \* metadata.json as it does not parse
    NoHash,       \* no infohash
    MaxPulls, MaxRestarts  \* bounds: pulls, restarts of the daemon

ASSUME PullConstants ==
    /\ Versions # {} /\ Size \in Nat \ {0} /\ MaxRetries \in Nat
    /\ MaxPulls \in Nat /\ MaxRestarts \in Nat

\* The bytes of a file, whole or not, and what they hash to.
Content  == UNION {[1..n -> Versions] : n \in 0..Size}
Identity == [v1: Content \cup {NoHash}, v2: Content \cup {NoHash}]
Metadata == [snap: Content, v1: Content \cup {NoHash}, v2: Content \cup {NoHash}]

ASSUME Distinct ==
    /\ NoHash \notin Content /\ Absent \notin Content
    /\ Absent \notin Metadata /\ Torn \notin Metadata /\ Absent # Torn

\* The command, and the daemon's handler of job and seed status and its seedExisting.
Writers == {"cli", "handler", "seeder"}
Daemon  == {"handler", "seeder"}

VARIABLES
    remote,   \* the version the revision denotes
    seen,     \* those that it, or a peer's answer taken up, has named (history)
    part,     \* the .tmp file of the download
    dest,     \* the file of the model
    pos,      \* position of the command and of the daemon's goroutines
    source,   \* version the current answer is streamed from
    tries,    \* retries left
    fromLan,  \* the file came from a peer
    job,      \* the daemon's last job for the command: none, download, seed, done
    result,   \* and the identity it ends with
    entry,    \* the engine's entry of the model: who made it, and its identity
    meta,     \* metadata.json
    metaTmp,  \* metadata.json.tmp
    fd,       \* the file a writer has open: live or tmp by its present name, gone, none
    ident,    \* the identity a writer is about to set
    buf,      \* what it is about to write
    up,       \* the daemon runs
    pulls, restarts

fileVars   == <<part, dest>>
remoteVars == <<remote, seen>>
pullVars   == <<source, tries, fromLan, pulls>>
jobVars    == <<job, result, entry>>
metaVars   == <<meta, metaTmp, fd>>
argVars    == <<ident, buf>>
daemonVars == <<up, restarts>>
vars == <<remoteVars, fileVars, pos, pullVars, jobVars, metaVars, argVars, daemonVars>>

Whole(v) == [i \in 1..Size |-> v]
NoIdentity == [v1 |-> NoHash, v2 |-> NoHash]
HashOf(c)  == [v1 |-> c, v2 |-> c]
Entry(who, id) == [by |-> who, id |-> id]

Init ==
    /\ remote \in Versions /\ seen = {remote}
    /\ part = <<>> /\ dest = Absent
    /\ pos = [w \in Writers |-> "idle"]
    /\ source = remote /\ tries = 0 /\ fromLan = FALSE /\ pulls = 0
    /\ job = "none" /\ result = NoIdentity /\ entry = Entry("none", NoIdentity)
    /\ meta = Absent /\ metaTmp = Absent /\ fd = [w \in Writers |-> "none"]
    /\ ident = [w \in Writers |-> NoIdentity] /\ buf = [w \in Writers |-> Absent]
    /\ up = TRUE /\ restarts = 0

-----------------------------------------------------------------------------
Goto(w, p) == pos' = [pos EXCEPT ![w] = p]

\* The command returns an error, or is done.
End == Goto("cli", "idle")

\* The branch moves.
Move(v) ==
    /\ v # remote /\ remote' = v /\ seen' = seen \cup {v}
    /\ UNCHANGED <<fileVars, pos, pullVars, jobVars, metaVars, argVars, daemonVars>>

\* downloadOneFile
Begin ==
    /\ pos["cli"] = "idle" /\ pulls < MaxPulls /\ pulls' = pulls + 1
    /\ Goto("cli", "lan")
    /\ tries' = MaxRetries /\ fromLan' = FALSE
    /\ UNCHANGED <<remoteVars, fileVars, source, jobVars, metaVars, argVars, daemonVars>>

\* The command is killed; its partial file stays, and what it has half written.
Die ==
    /\ pos["cli"] # "idle" /\ End
    /\ fd' = [fd EXCEPT !["cli"] = "none"]
    /\ UNCHANGED <<remoteVars, fileVars, pullVars, jobVars, meta, metaTmp, argVars, daemonVars>>

-----------------------------------------------------------------------------
(* tryLanDownload *)

\* No daemon, or no hint: go on to Hugging Face.
LanSkip ==
    /\ pos["cli"] = "lan" /\ Goto("cli", "request")
    /\ UNCHANGED <<remoteVars, fileVars, pullVars, jobVars, metaVars, argVars, daemonVars>>

\* The daemon has heard of peers with version v of the model, of this revision or any other:
\* it is asked for the model id, in which there is no revision. The v2 infohash is missing, or
\* perhaps that of another version, which the LAN index mixes in (LanDiscovery).
Offered(v, h) == up /\ v \in Versions /\ h \in {NoHash} \cup {Whole(u) : u \in Versions}

\* The daemon starts to download what it has been offered.
TakeUp(v, h) ==
    /\ Offered(v, h)
    /\ Goto("cli", "lanWait") /\ job' = "download"
    /\ result' = [v1 |-> Whole(v), v2 |-> h]
    /\ seen' = seen \cup {v} \cup {u \in Versions : h = Whole(u)}

LanStart(v, h) ==
    /\ pos["cli"] = "lan" /\ TakeUp(v, h)
    /\ UNCHANGED <<remote, fileVars, pullVars, entry, metaVars, argVars, daemonVars>>

\* The daemon rejects the request: an error, not a reason to ask Hugging Face.
LanReject ==
    /\ pos["cli"] = "lan" /\ up /\ End
    /\ UNCHANGED <<remoteVars, fileVars, pullVars, jobVars, metaVars, argVars, daemonVars>>

\* runNetworkPull: the user pulls what an announcement names, unless there is a metadata.json,
\* which need not parse. There is no other source to turn to.
NetworkPull(v, h) ==
    /\ pos["cli"] = "idle" /\ pulls < MaxPulls /\ pulls' = pulls + 1
    /\ meta = Absent /\ TakeUp(v, h)
    /\ tries' = 0 /\ fromLan' = FALSE
    /\ UNCHANGED <<remote, fileVars, source, entry, metaVars, argVars, daemonVars>>

\* The daemon's download job is done, all pieces verified, whether or not the command that
\* started it still runs, ...
LanComplete ==
    /\ up /\ job = "download"
    /\ job' = "done" /\ dest' = result.v1 /\ entry' = Entry("job", result)
    /\ UNCHANGED <<remoteVars, part, pos, pullVars, result, metaVars, argVars, daemonVars>>

\* ... or failed, is canceled, or the daemon does not answer. A daemon that has restarted
\* answers that there is no such job, which the command does not tell from a job that is not
\* done: it asks on.
LanFails ==
    /\ pos["cli"] = "lanWait" /\ End /\ job' = "none"
    /\ UNCHANGED <<remoteVars, fileVars, pullVars, result, entry, metaVars, argVars, daemonVars>>

-----------------------------------------------------------------------------
(* Client.Download *)

\* 200, also to a request for a range: start over.
AnswerFull ==
    /\ pos["cli"] = "request" /\ Goto("cli", "copy")
    /\ part' = <<>> /\ source' = remote
    /\ UNCHANGED <<remoteVars, dest, tries, fromLan, pulls, jobVars, metaVars, argVars, daemonVars>>

\* 206: append to what there is.
AnswerRange ==
    /\ pos["cli"] = "request" /\ Len(part) \in 1..(Size - 1) /\ Goto("cli", "copy")
    /\ source' = remote
    /\ UNCHANGED <<remoteVars, fileVars, tries, fromLan, pulls, jobVars, metaVars, argVars, daemonVars>>

Rename == dest' = part /\ part' = <<>> /\ Goto("cli", "hash")

\* Takes every 416 for the end.
MutAnswerUnsatisfiableEarly ==
    /\ pos["cli"] = "request" /\ Len(part) > 0 /\ Rename
    /\ UNCHANGED <<remoteVars, pullVars, jobVars, metaVars, argVars, daemonVars>>

\* 416: all of it is there.
AnswerUnsatisfiable ==
    /\ pos["cli"] = "request" /\ Len(part) >= Size /\ Rename
    /\ UNCHANGED <<remoteVars, pullVars, jobVars, metaVars, argVars, daemonVars>>

\* Retries once too often.
MutRetryOffByOne ==
    \/ tries >= 0 /\ tries' = tries - 1 /\ Goto("cli", "request")
    \/ End /\ UNCHANGED tries

\* Counts nothing.
MutRetryForever == (Goto("cli", "request") \/ End) /\ UNCHANGED tries

\* isRetryable: some errors are tried again, after a delay, while retries are left.
RetryOrEnd ==
    \/ tries > 0 /\ tries' = tries - 1 /\ Goto("cli", "request")
    \/ End /\ UNCHANGED tries

\* No answer, one with another status, or a file that cannot be opened: the partial file
\* stays.
RequestFails ==
    /\ pos["cli"] = "request" /\ RetryOrEnd
    /\ UNCHANGED <<remoteVars, fileVars, source, fromLan, pulls, jobVars, metaVars, argVars, daemonVars>>

CopyChunk ==
    /\ pos["cli"] = "copy" /\ Len(part) < Size
    /\ part' = Append(part, source)
    /\ UNCHANGED <<remoteVars, dest, pos, pullVars, jobVars, metaVars, argVars, daemonVars>>

CopyEnds ==
    /\ pos["cli"] = "copy" /\ Len(part) = Size /\ Rename
    /\ UNCHANGED <<remoteVars, pullVars, jobVars, metaVars, argVars, daemonVars>>

\* The connection breaks, the watchdog finds it idle, or the user interrupts.
CopyFails ==
    /\ pos["cli"] = "copy" /\ RetryOrEnd /\ part' = <<>>
    /\ UNCHANGED <<remoteVars, dest, source, fromLan, pulls, jobVars, metaVars, argVars, daemonVars>>

-----------------------------------------------------------------------------
(* Store.Save, which truncates and writes metadata.json itself *)

\* hashFileSHA256; FinishDownloadJob knows the infohashes already.
Hash ==
    /\ pos["cli"] = "hash" /\ Goto("cli", "save")
    /\ buf' = [buf EXCEPT !["cli"] =
                 [snap |-> dest, v1 |-> IF fromLan THEN result.v1 ELSE NoHash,
                                 v2 |-> IF fromLan THEN result.v2 ELSE NoHash]]
    /\ UNCHANGED <<remoteVars, fileVars, pullVars, jobVars, metaVars, ident, daemonVars>>

SaveOpen ==
    /\ pos["cli"] = "save" /\ Goto("cli", "saveWrite")
    /\ meta' = Torn /\ fd' = [fd EXCEPT !["cli"] = "live"]
    /\ UNCHANGED <<remoteVars, fileVars, pullVars, jobVars, metaTmp, argVars, daemonVars>>

\* What a file holds after a writer wrote m at its beginning: m, unless the rest of
\* something longer, that another writer wrote, is left behind it.
After(old, m) == IF old \in {Torn, m} THEN {m} ELSE {m, Torn}

\* Writer w writes its buffer to the file it has opened, by whichever name it now has.
WriteBuf(w) ==
    /\ IF fd[w] = "live" THEN meta' \in After(meta, buf[w]) ELSE UNCHANGED meta
    /\ IF fd[w] = "tmp" THEN metaTmp' \in After(metaTmp, buf[w]) ELSE UNCHANGED metaTmp
    /\ fd' = [fd EXCEPT ![w] = "none"]

SaveWrite ==
    /\ pos["cli"] = "saveWrite" /\ WriteBuf("cli")
    /\ Goto("cli", IF fromLan THEN "idle" ELSE "seed")
    /\ UNCHANGED <<remoteVars, fileVars, pullVars, jobVars, argVars, daemonVars>>

-----------------------------------------------------------------------------
(* seedAndWait, pollSeedJob and the daemon's jobs *)

SeedStart ==
    /\ pos["cli"] = "seed" /\ up
    /\ Goto("cli", "seedWait") /\ job' = "seed" /\ result' = NoIdentity
    /\ entry' = Entry("job", NoIdentity)
    /\ UNCHANGED <<remoteVars, fileVars, pullVars, metaVars, argVars, daemonVars>>

\* An engine's Seed, by the job or by seedExisting, has hashed the file: it fills in the entry
\* it has made, if that is still the model's.
Seeded(who) == entry' = IF entry.by = who THEN Entry(who, HashOf(dest)) ELSE entry

\* StartSeed's goroutine: it takes the identity from the model's entry, perhaps one that
\* seedExisting has put there meanwhile and not filled in.
SeedComplete ==
    /\ up /\ job = "seed" /\ job' = "done"
    /\ Seeded("job") /\ result' = entry'.id
    /\ UNCHANGED <<remoteVars, fileVars, pos, pullVars, metaVars, argVars, daemonVars>>

\* No daemon, an error, an interrupt: the pull ends with an error, though the file is there.
SeedFails ==
    /\ pos["cli"] \in {"seed", "seedWait"} /\ End /\ job' = "none"
    /\ UNCHANGED <<remoteVars, fileVars, pullVars, result, entry, metaVars, argVars, daemonVars>>

\* A poll that finds the job done: the handler sets the identity before it answers.
FindsDone(asking, asked) ==
    /\ pos["cli"] = asking /\ up /\ job = "done" /\ pos["handler"] = "idle"
    /\ pos' = [pos EXCEPT !["cli"] = asked, !["handler"] = "read"]
    /\ ident' = [ident EXCEPT !["handler"] = result]
    /\ UNCHANGED <<remoteVars, fileVars, pullVars, jobVars, metaVars, buf, daemonVars>>

JobStatus  == FindsDone("lanWait", "lanPoll")
SeedStatus == FindsDone("seedWait", "seedPoll")
Poll == JobStatus \/ SeedStatus

\* The answer, unless the daemon has gone: from here FinishDownloadJob hashes and saves, and
\* downloadOneFile sets the infohash, if there is one.
Answered ==
    /\ pos["cli"] \in {"lanPoll", "seedPoll"} /\ pos["handler"] = "idle" /\ job' = "none"
    /\ fromLan' = (pos["cli"] = "lanPoll")
    /\ \/ job = "done" /\ Goto("cli", IF pos["cli"] = "lanPoll" THEN "hash"
                                       ELSE IF result.v1 = NoHash THEN "idle" ELSE "read")
       \/ job # "done" /\ End
    /\ ident' = [ident EXCEPT !["cli"] = [v1 |-> result.v1, v2 |-> NoHash]]
    /\ UNCHANGED <<remoteVars, fileVars, source, tries, pulls, result, entry, metaVars, buf, daemonVars>>

-----------------------------------------------------------------------------
(* Store.SetInfohash, by the command, and Store.SetIdentity, by the daemon *)

\* The mutex of a Store excludes writers of one process.
Unlocked(w) == \A u \in Daemon \ {w} : w \in Daemon => pos[u] \notin {"open", "write", "rename"}

\* Never-downgrade: a missing hash leaves the old one.
Merged(m, id) ==
    [m EXCEPT !.v1 = IF id.v1 = NoHash THEN @ ELSE id.v1,
              !.v2 = IF id.v2 = NoHash THEN @ ELSE id.v2]

\* Reads the file; one that is missing or does not parse is an error.
SetRead(w) ==
    /\ pos[w] = "read" /\ Unlocked(w)
    /\ \/ /\ meta \in {Absent, Torn} /\ Goto(w, "idle") /\ UNCHANGED buf
       \/ /\ meta \notin {Absent, Torn} /\ Goto(w, "open")
          /\ buf' = [buf EXCEPT ![w] = Merged(meta, ident[w])]
    /\ UNCHANGED <<remoteVars, fileVars, pullVars, jobVars, metaVars, ident, daemonVars>>

\* Both processes use the same name for the temporary file.
SetOpen(w) ==
    /\ pos[w] = "open" /\ Goto(w, "write")
    /\ metaTmp' = Torn /\ fd' = [fd EXCEPT ![w] = "tmp"]
    /\ UNCHANGED <<remoteVars, fileVars, pullVars, jobVars, meta, argVars, daemonVars>>

SetWrite(w) ==
    /\ pos[w] = "write" /\ WriteBuf(w) /\ Goto(w, "rename")
    /\ UNCHANGED <<remoteVars, fileVars, pullVars, jobVars, argVars, daemonVars>>

\* Files that are open keep their contents and change their names.
SetRename(w) ==
    /\ pos[w] = "rename" /\ Goto(w, "idle")
    /\ IF metaTmp = Absent THEN UNCHANGED metaVars
       ELSE /\ meta' = metaTmp /\ metaTmp' = Absent
            /\ fd' = [u \in Writers |-> IF fd[u] = "tmp" THEN "live"
                                        ELSE IF fd[u] = "live" THEN "gone" ELSE fd[u]]
    /\ UNCHANGED <<remoteVars, fileVars, pullVars, jobVars, argVars, daemonVars>>

-----------------------------------------------------------------------------
(* The daemon *)

DaemonStops ==
    /\ up /\ restarts < MaxRestarts /\ up' = FALSE
    /\ job' = "none" /\ entry' = Entry("none", NoIdentity)
    /\ pos' = [w \in Writers |-> IF w \in Daemon THEN "idle" ELSE pos[w]]
    /\ fd' = [w \in Writers |-> IF w \in Daemon THEN "none" ELSE fd[w]]
    /\ UNCHANGED <<remoteVars, fileVars, pullVars, result, meta, metaTmp, argVars, restarts>>

\* Start: a goroutine seeds what List finds.
DaemonStarts ==
    /\ ~up /\ up' = TRUE /\ restarts' = restarts + 1
    /\ Goto("seeder", "list")
    /\ UNCHANGED <<remoteVars, fileVars, pullVars, jobVars, metaVars, argVars>>

\* seedExisting: the identity recorded.
SeedList ==
    /\ pos["seeder"] = "list"
    /\ IF meta \in {Absent, Torn} THEN Goto("seeder", "idle") /\ UNCHANGED ident
       ELSE /\ Goto("seeder", "seeding")
            /\ ident' = [ident EXCEPT !["seeder"] = [v1 |-> meta.v1, v2 |-> meta.v2]]
    /\ UNCHANGED <<remoteVars, fileVars, pullVars, jobVars, metaVars, buf, daemonVars>>

\* Merge: fills in what is missing.
Merge(old, new) ==
    [v1 |-> IF old.v1 = NoHash THEN new.v1 ELSE old.v1,
     v2 |-> IF old.v2 = NoHash THEN new.v2 ELSE old.v2]

\* SeedFromTorrentFile finds the torrent file of the v1 infohash, which then is set again.
SeedFile ==
    /\ pos["seeder"] = "seeding" /\ ident["seeder"].v1 # NoHash /\ Goto("seeder", "read")
    /\ entry' = Entry("seeder", Merge(ident["seeder"], HashOf(ident["seeder"].v1)))
    /\ ident' = [ident EXCEPT !["seeder"].v2 = NoHash]
    /\ UNCHANGED <<remoteVars, fileVars, pullVars, job, result, metaVars, buf, daemonVars>>

\* Without one, the file is hashed again ...
Rehash ==
    /\ pos["seeder"] = "seeding" /\ Goto("seeder", "rehash")
    /\ entry' = Entry("seeder", NoIdentity)
    /\ UNCHANGED <<remoteVars, fileVars, pullVars, job, result, metaVars, argVars, daemonVars>>

\* ... and its v1 infohash is set, ...
Rehashed ==
    /\ pos["seeder"] = "rehash" /\ dest # Absent /\ Goto("seeder", "read")
    /\ Seeded("seeder")
    /\ ident' = [ident EXCEPT !["seeder"] = [v1 |-> dest, v2 |-> NoHash]]
    /\ UNCHANGED <<remoteVars, fileVars, pullVars, job, result, metaVars, buf, daemonVars>>

\* ... unless hashing or seeding fails.
RehashFails ==
    /\ pos["seeder"] = "rehash" /\ Goto("seeder", "idle")
    /\ UNCHANGED <<remoteVars, fileVars, pullVars, jobVars, metaVars, argVars, daemonVars>>

SeedExisting == SeedList \/ SeedFile \/ Rehash \/ Rehashed \/ RehashFails

-----------------------------------------------------------------------------
LanAttempt ==
    LanSkip \/ LanReject \/ \E v \in Versions, h \in Content \cup {NoHash} : LanStart(v, h)

Begins == Begin \/ \E v \in Versions, h \in Content \cup {NoHash} : NetworkPull(v, h)

Download ==
    \/ AnswerFull \/ AnswerRange \/ AnswerUnsatisfiable \/ RequestFails
    \/ CopyChunk \/ CopyEnds \/ CopyFails

Record == Hash \/ SaveOpen \/ SaveWrite

SeedAndWait == SeedStart \/ SeedComplete \/ SeedFails

Update(w) == SetRead(w) \/ SetOpen(w) \/ SetWrite(w) \/ SetRename(w)

Next ==
    \/ \E v \in Versions : Move(v)
    \/ Begins \/ Die
    \/ LanAttempt \/ LanComplete \/ LanFails
    \/ Download \/ Record \/ SeedAndWait \/ Poll \/ Answered
    \/ \E w \in Writers : Update(w)
    \/ DaemonStops \/ DaemonStarts \/ SeedExisting

\* The command and the daemon's goroutines run; an answer comes, fails, or is found idle; a
\* file is hashed in the end. Nothing says that a peer delivers.
Fairness ==
    /\ WF_vars(LanAttempt) /\ WF_vars(Download) /\ WF_vars(Record)
    /\ WF_vars(SeedAndWait) /\ WF_vars(Poll) /\ WF_vars(Answered)
    /\ \A w \in Writers : WF_vars(Update(w))

Spec == Init /\ [][Next]_vars /\ Fairness

-----------------------------------------------------------------------------
(* Properties *)

Positions ==
    {"idle", "lan", "lanWait", "lanPoll", "request", "copy", "hash", "save", "saveWrite", "seed",
     "seedWait", "seedPoll", "read", "open", "write", "rename", "list", "seeding", "rehash"}

\* Types.
TypeOK ==
    /\ remote \in seen /\ seen \subseteq Versions /\ source \in Versions
    /\ part \in Content /\ dest \in Content \cup {Absent}
    /\ pos \in [Writers -> Positions]
    /\ tries \in 0..MaxRetries /\ fromLan \in BOOLEAN
    /\ job \in {"none", "download", "seed", "done"} /\ result \in Identity
    /\ entry \in [by: {"none", "job", "seeder"}, id: Identity]
    /\ meta \in Metadata \cup {Absent, Torn} /\ metaTmp \in Metadata \cup {Absent, Torn}
    /\ fd \in [Writers -> {"none", "live", "tmp", "gone"}]
    /\ ident \in [Writers -> Identity] /\ buf \in [Writers -> Metadata \cup {Absent}]
    /\ up \in BOOLEAN /\ pulls \in 0..MaxPulls /\ restarts \in 0..MaxRestarts

Pinned == seen = {remote}

\* While the revision stays what it is, and no peer has delivered another one's file for it,
\* whatever was interrupted, resumed, repeated, or written by the daemon at the same time:
\* metadata that parses describes the file that is there, and that file is the revision's
\* (hf/client.go:275-417, store.go:74-161).
RecordDescribesFile ==
    Pinned /\ meta \in Metadata =>
        /\ dest = Whole(remote) /\ meta.snap = dest
        /\ {meta.v1, meta.v2} \subseteq {dest, NoHash}

\* A pull ends, unless it waits for a peer, which nothing bounds (pull.go:1253-1317).
PullEnds == pos["cli"] # "idle" ~> pos["cli"] \in {"idle", "lanWait"}

\* "Write is atomic (temp file + rename) to prevent corruption on concurrent calls."
\* (store.go:97): a file that SetInfohash or SetIdentity writes never fails to parse.
UpdatesAreAtomic == [][(\E w \in Writers : SetRename(w)) => meta' # Torn]_vars
=============================================================================
