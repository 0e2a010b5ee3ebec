---------------------------- MODULE SeederClients ----------------------------
(***************************************************************************)
(* The publishing hooks (internal/publishing) and the clients of external  *)
(* seeders that they call (internal/seeding): qBittorrent, with a login, a *)
(* look and an add, and Transmission, with one request that is repeated    *)
(* once when the server answers 409 with a new session id.                 *)
(*                                                                         *)
(* Emit starts a goroutine for every hook and forgets it. The goroutines   *)
(* of one seeder share its client: the cookie jar, or the session id. An   *)
(* action is one exchange with the server, or one critical section of      *)
(* Client.mu.                                                              *)
(***************************************************************************)
EXTENDS Integers, FiniteSets

CONSTANTS
    Infohashes,    \* torrents that are published
    Dirs,          \* content directories they are published with
    QBRequests,    \* goroutines of the qBittorrent hook
    TXRequests,    \* goroutines of the Transmission hook
    Configured,    \* sets of seeders that a daemon's configuration may enable
    MaxSessions,   \* bound: session ids that Transmission hands out
    NoDir

Seeders  == {"qbittorrent", "transmission"}
Requests == QBRequests \cup TXRequests
SeederOf(r) == IF r \in QBRequests THEN "qbittorrent" ELSE "transmission"

ASSUME ClientConstants ==
    /\ Configured \subseteq SUBSET Seeders
    /\ Infohashes # {} /\ QBRequests \cap TXRequests = {}
    /\ MaxSessions \in Nat \ {0} /\ NoDir \notin Dirs

VARIABLES
    hooks,       \* seeders whose hook is registered
    pos,         \* where a goroutine is
    torrent, dir,\* the event it handles
    cookie,      \* the jar of the qBittorrent client holds a valid SID
    session,     \* Client.sessionID of Transmission, 0 when empty
    sid,         \* the id that a request was sent with, then the one that a 409 brought
    current,     \* the id that Transmission accepts (external)
    registered,  \* each seeder's torrents, with their save path (external)
    disturbed    \* Transmission has changed its id during the present busy period (history)

clientVars == <<hooks, pos, torrent, dir, cookie, session, sid, current, registered,
                disturbed>>

\* "refused" is the end of a Seed that took qBittorrent's refusal for success.
Ended  == {"ok", "refused", "failed", "conflict"}
ReqPC  == {"idle", "stat", "login", "info", "add", "send", "sent", "refresh", "resend",
           "resent"} \cup Ended
Active == {r \in Requests : pos[r] \notin Ended \cup {"idle"}}
Has(s, i) == registered[s][i] # NoDir

ClientsInit ==
    /\ hooks \in Configured
    /\ pos = [r \in Requests |-> "idle"]
    /\ torrent = [r \in Requests |-> CHOOSE i \in Infohashes : TRUE]
    /\ dir = [r \in Requests |-> NoDir]
    /\ cookie = FALSE /\ session = 0 /\ sid = [r \in Requests |-> 0]
    /\ disturbed = FALSE
    /\ current = 1 /\ registered = [s \in Seeders |-> [i \in Infohashes |-> NoDir]]

-----------------------------------------------------------------------------
ReqGoto(r, p) == pos' = [pos EXCEPT ![r] = p]
ReqEnd(r, p)  == ReqGoto(r, p) /\ sid' = [sid EXCEPT ![r] = 0]
remoteVars == <<current, registered>>
reqVars    == <<torrent, dir>>

\* A fresh goroutine for each registered hook.
Chosen(f) == {f[h] : h \in hooks}
Fresh == {f \in [hooks -> Requests] :
             \A h \in hooks : SeederOf(f[h]) = h /\ pos[f[h]] = "idle"}

\* Emit, and OnTorrentPublished of the hooks.
Emit(i, d) ==
    /\ \E f \in Fresh :
        /\ pos' = [r \in Requests |-> IF r \in Chosen(f) THEN "stat" ELSE pos[r]]
        /\ torrent' = [r \in Requests |-> IF r \in Chosen(f) THEN i ELSE torrent[r]]
        /\ dir' = [r \in Requests |-> IF r \in Chosen(f) THEN d ELSE dir[r]]
    /\ disturbed' = (disturbed /\ Active \cap TXRequests # {})
    /\ UNCHANGED <<hooks, cookie, session, sid, remoteVars>>

\* Seed finds the directory and the .torrent file.
Stat(r) ==
    /\ pos[r] = "stat" /\ ReqGoto(r, IF r \in QBRequests THEN "login" ELSE "send")
    /\ UNCHANGED <<hooks, reqVars, cookie, session, sid, remoteVars, disturbed>>

\* The request ends with an error: no such file, wrong password, no answer in 15 seconds, an
\* answer that says nothing known.
FailRequest(r) ==
    /\ r \in Active /\ ReqEnd(r, "failed")
    /\ UNCHANGED <<hooks, reqVars, cookie, session, remoteVars, disturbed>>

\* What the seeder does with an add: a torrent it has stays where it is.
Register(r) ==
    registered' = [registered EXCEPT ![SeederOf(r)][torrent[r]] =
                      IF @ = NoDir THEN dir[r] ELSE @]

\* The seeder adds the torrent but the answer does not arrive.
LoseAnswer(r) ==
    /\ \/ pos[r] = "add" /\ cookie
       \/ pos[r] \in {"sent", "resent"} /\ sid[r] = current
    /\ ReqEnd(r, "failed") /\ Register(r)
    /\ UNCHANGED <<hooks, reqVars, cookie, session, current, disturbed>>

-----------------------------------------------------------------------------
(* qBittorrent *)

Login(r) ==
    /\ pos[r] = "login" /\ ReqGoto(r, "info") /\ cookie' = TRUE
    /\ UNCHANGED <<hooks, reqVars, session, sid, remoteVars, disturbed>>

\* A torrent that qBittorrent lists needs no add; without a session it lists nothing.
TorrentInfo(r) ==
    /\ pos[r] = "info"
    /\ ReqGoto(r, IF ~cookie THEN "failed"
                  ELSE IF Has("qbittorrent", torrent[r]) THEN "ok" ELSE "add")
    /\ UNCHANGED <<hooks, reqVars, cookie, session, sid, remoteVars, disturbed>>

\* Mutant: every answer to an add is a success.
MutAddTorrentAny(r) ==
    /\ pos[r] = "add" /\ ReqGoto(r, "ok")
    /\ IF cookie THEN Register(r) ELSE UNCHANGED registered
    /\ UNCHANGED <<hooks, reqVars, cookie, session, sid, current, disturbed>>

\* "Ok.", or "Fails." for a torrent that was added meanwhile; "Fails." for one that is not
\* there, for whatever reason, which Seed takes for success, too; or no session.
AddTorrent(r) ==
    /\ pos[r] = "add"
    /\ \/ cookie /\ ReqGoto(r, "ok") /\ Register(r)
       \/ /\ cookie /\ ~Has("qbittorrent", torrent[r])
          /\ ReqGoto(r, "refused") /\ UNCHANGED registered
       \/ ~cookie /\ ReqGoto(r, "failed") /\ UNCHANGED registered
    /\ UNCHANGED <<hooks, reqVars, cookie, session, sid, current, disturbed>>

\* qBittorrent ends the session.
SessionEnds ==
    /\ cookie /\ cookie' = FALSE
    /\ UNCHANGED <<hooks, pos, reqVars, session, sid, remoteVars, disturbed>>

-----------------------------------------------------------------------------
(* Transmission *)

\* sendOnce reads the session id, for the first request and for its repetition.
SendOnce(r) ==
    /\ \/ pos[r] = "send" /\ ReqGoto(r, "sent")
       \/ pos[r] = "resend" /\ ReqGoto(r, "resent")
    /\ sid' = [sid EXCEPT ![r] = session]
    /\ UNCHANGED <<hooks, reqVars, cookie, session, remoteVars, disturbed>>

\* torrent-added or torrent-duplicate.
Accepted(r) ==
    /\ pos[r] \in {"sent", "resent"} /\ sid[r] = current
    /\ ReqEnd(r, "ok") /\ Register(r)
    /\ UNCHANGED <<hooks, reqVars, cookie, session, current, disturbed>>

\* 409 with the id to use; a second one ends the request.
Conflict(r) ==
    /\ sid[r] # current
    /\ \/ /\ pos[r] = "sent" /\ ReqGoto(r, "refresh")
          /\ sid' = [sid EXCEPT ![r] = current]
       \/ pos[r] = "resent" /\ ReqEnd(r, "conflict")
    /\ UNCHANGED <<hooks, reqVars, cookie, session, remoteVars, disturbed>>

\* Mutant: the new id is not stored.
MutRefreshForgets(r) ==
    /\ pos[r] = "refresh" /\ ReqGoto(r, "resend")
    /\ UNCHANGED <<hooks, reqVars, cookie, session, sid, remoteVars, disturbed>>

\* The new id is stored, perhaps over one that is newer still.
Refresh(r) ==
    /\ pos[r] = "refresh" /\ ReqGoto(r, "resend")
    /\ session' = sid[r]
    /\ UNCHANGED <<hooks, reqVars, cookie, sid, remoteVars, disturbed>>

\* Transmission starts anew, or its id has expired.
ChangeSession ==
    /\ current < MaxSessions /\ current' = current + 1
    /\ disturbed' = (disturbed \/ Active \cap TXRequests # {})
    /\ UNCHANGED <<hooks, pos, reqVars, cookie, session, sid, registered>>

-----------------------------------------------------------------------------
\* A new daemon with new clients, after setupPublishingHooks has read its configuration.
RestartClients(H) ==
    /\ hooks' = H
    /\ pos' = [r \in Requests |-> "idle"]
    /\ torrent' = [r \in Requests |-> CHOOSE i \in Infohashes : TRUE]
    /\ dir' = [r \in Requests |-> NoDir]
    /\ cookie' = FALSE /\ session' = 0 /\ sid' = [r \in Requests |-> 0]
    /\ disturbed' = FALSE
    /\ UNCHANGED remoteVars

RequestStep(r) ==
    \/ Stat(r) \/ Login(r) \/ TorrentInfo(r) \/ AddTorrent(r) \/ SendOnce(r)
    \/ Accepted(r) \/ Conflict(r) \/ Refresh(r) \/ LoseAnswer(r) \/ FailRequest(r)

ClientsNext ==
    \/ \E r \in Requests : RequestStep(r)
    \/ SessionEnds \/ ChangeSession
    \/ \E i \in Infohashes, d \in Dirs : Emit(i, d)
    \/ \E H \in Configured : RestartClients(H)

ClientsSpec == ClientsInit /\ [][ClientsNext]_clientVars

-----------------------------------------------------------------------------
(* Properties *)

ClientsTypeOK ==
    /\ hooks \subseteq Seeders /\ pos \in [Requests -> ReqPC]
    /\ torrent \in [Requests -> Infohashes] /\ dir \in [Requests -> Dirs \cup {NoDir}]
    /\ cookie \in BOOLEAN /\ disturbed \in BOOLEAN
    /\ session \in 0..MaxSessions /\ current \in 1..MaxSessions
    /\ sid \in [Requests -> 0..MaxSessions]
    /\ registered \in [Seeders -> [Infohashes -> Dirs \cup {NoDir}]]

\* A Seed that reports success has its torrent registered with the seeder, also when another
\* request added it between the look and the add, a session ended in between, or an answer
\* was lost (qbittorrent/seeder.go:76-101, transmission/seeder.go:65-78); unless qBittorrent
\* answered "Fails." to the add of a torrent it does not have, which Seed takes for a
\* duplicate (qbittorrent/client.go:236-238).
SuccessMeansRegistered ==
    \A r \in Requests : pos[r] = "ok" => Has(SeederOf(r), torrent[r])

EndsInConflict(r) == pos[r] # "conflict" /\ pos'[r] = "conflict"

\* "session conflict after retry" is never the doing of concurrent requests alone: while
\* requests overlap and Transmission keeps its id, storing the id of an older answer does no
\* harm (transmission/client.go:139-161). When it has changed, a request may fail although it
\* began after the change.
ConflictNeedsChange == [][\A r \in TXRequests : EndsInConflict(r) => disturbed]_clientVars
==============================================================================
