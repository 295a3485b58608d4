------------------------------- MODULE AuthManager -------------------------------
(***************************************************************************)
(* AuthManager: the identities for the WebSocket, and the order in which   *)
(* the lists and rules decide about a client and its target.               *)
(***************************************************************************)
EXTENDS Naturals, Sequences, FiniteSets

CONSTANTS
  Identities,
  Hosts,      \* clients
  Unparsed,   \* those of them that are no IP address, on which no list bears
  Targets,
  Names,      \* names of rules, not necessarily unique
  MaxAccessRules  \* bound on the rules

VARIABLES
  identities,    \* _allowed_identities
  whitelist,     \* _ip_whitelist and _ip_blacklist: the clients they cover, none
                 \* when there is no list
  blacklist,
  accessRules,   \* _access_rules: the targets each matches, and whether it allows
  defaultAllow   \* FALSE from the constructor, TRUE from from_config

vars == <<identities, whitelist, blacklist, accessRules, defaultAllow>>

Init ==
  /\ identities = {}
  /\ whitelist \in SUBSET (Hosts \ Unparsed)
  /\ blacklist \in SUBSET (Hosts \ Unparsed)
  /\ accessRules = <<>>
  /\ defaultAllow \in BOOLEAN

\* An empty set allows everyone.
VerifyIdentity(i) == identities = {} \/ i \in identities

CheckAccess(h, t) ==
  LET hits == SelectSeq(accessRules, LAMBDA r : t \in r.covers) IN
  /\ h \notin blacklist
  /\ whitelist = {} \/ h \in whitelist \cup Unparsed
  /\ IF hits = <<>> THEN defaultAllow ELSE hits[1].allowed

AddIdentity(i) ==
  /\ identities' = identities \cup {i}
  /\ UNCHANGED <<whitelist, blacklist, accessRules, defaultAllow>>

RemoveIdentity(i) ==
  /\ identities' = identities \ {i}
  /\ UNCHANGED <<whitelist, blacklist, accessRules, defaultAllow>>

AddAccessRule(n, covers, allowed) ==
  /\ Len(accessRules) < MaxAccessRules
  /\ accessRules' = Append(accessRules, [name |-> n, covers |-> covers, allowed |-> allowed])
  /\ UNCHANGED <<identities, whitelist, blacklist, defaultAllow>>

RemoveAccessRule(n) ==
  /\ accessRules' = SelectSeq(accessRules, LAMBDA r : r.name # n)
  /\ UNCHANGED <<identities, whitelist, blacklist, defaultAllow>>

Next ==
  \/ \E i \in Identities : AddIdentity(i) \/ RemoveIdentity(i)
  \/ \E n \in Names : RemoveAccessRule(n)
  \/ \E n \in Names, covers \in SUBSET Targets, allowed \in BOOLEAN :
       AddAccessRule(n, covers, allowed)
=============================================================================
