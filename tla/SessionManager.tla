----------------------------- MODULE SessionManager -----------------------------
(***************************************************************************)
(* SessionManager: sessions by id, and the ids of each client address.     *)
(* Nothing in src/ creates a session yet, the tests do; the connection     *)
(* handler ends the sessions of a client that disconnects.                 *)
(***************************************************************************)
EXTENDS Functions, Dictionaries

CONSTANTS Sids, Clients, LoopIds, NoTask

VARIABLES
  sessionLoop,  \* the cleanup loop
  sessions,     \* _sessions: client, whether active, whether past the timeout
  byClient      \* _client_sessions

vars == <<sessionLoop, sessions, byClient>>

Loop == INSTANCE BackgroundLoop WITH loop <- sessionLoop

Init == Loop!Init /\ sessions = <<>> /\ byClient = <<>>

IdsOf(c) == IF c \in DOMAIN byClient THEN byClient[c] ELSE {}

\* max_sessions is not looked at.
CreateSession(s, c) ==
  /\ s \notin DOMAIN sessions
  /\ sessions' = Put(sessions, s, [client |-> c, active |-> TRUE, late |-> FALSE])
  /\ byClient' = Put(byClient, c, IdsOf(c) \cup {s})
  /\ UNCHANGED sessionLoop

\* The activity of an ended session is noted and no longer decides anything.
UpdateSession(s) ==
  /\ s \in DOMAIN sessions /\ sessions[s].active
  /\ sessions' = [sessions EXCEPT ![s].late = FALSE]
  /\ UNCHANGED <<sessionLoop, byClient>>

EndSession(c) ==
  /\ sessions' = [s \in DOMAIN sessions |->
       IF s \in IdsOf(c) /\ sessions[s].active
       THEN [sessions[s] EXCEPT !.active = FALSE, !.late = FALSE] ELSE sessions[s]]
  /\ UNCHANGED <<sessionLoop, byClient>>

\* The session_timeout passes since the last activity, or since the end.
GrowsLate(s) ==
  /\ s \in DOMAIN sessions
  /\ sessions' = [sessions EXCEPT ![s].late = TRUE]
  /\ UNCHANGED <<sessionLoop, byClient>>

Expired == {s \in DOMAIN sessions : sessions[s].late}

\* Faulty: the index is kept.
CleanupTableOnly ==
  /\ Loop!Turn
  /\ sessions' = Restrict(sessions, DOMAIN sessions \ Expired)
  /\ UNCHANGED byClient

\* Idle sessions end, and leave with those that ended long enough ago.
CleanupExpired ==
  LET left(c) == byClient[c] \ Expired IN
  /\ Loop!Turn
  /\ sessions' = Restrict(sessions, DOMAIN sessions \ Expired)
  /\ byClient' = [c \in {d \in DOMAIN byClient : left(d) # {}} |-> left(c)]

StartStop == Loop!Life /\ UNCHANGED <<sessions, byClient>>

Next ==
  \/ \E s \in Sids : UpdateSession(s) \/ GrowsLate(s)
                     \/ \E c \in Clients : CreateSession(s, c)
  \/ \E c \in Clients : EndSession(c)
  \/ CleanupExpired
  \/ StartStop

\* _sessions and _client_sessions name the same sessions under the same clients,
\* and no client is left behind with nothing: create_session, end_session and the
\* cleanup each change one or both.
TablesAgree ==
  /\ \A s \in DOMAIN sessions : s \in IdsOf(sessions[s].client)
  /\ \A c \in DOMAIN byClient :
       /\ byClient[c] # {}
       /\ \A s \in byClient[c] : s \in DOMAIN sessions /\ sessions[s].client = c
=============================================================================
