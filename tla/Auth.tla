-------------------------------- MODULE Auth --------------------------------
(***************************************************************************)
(* Users, API keys and the global guard (src/auth, src/users and their     *)
(* repositories).  Every request passes the guard, which tries the         *)
(* configured strategies in order; then its handler works on the store.    *)
(* With the local store a restart forgets users and keys and reads         *)
(* API_KEYS again; with Postgres both persist.                             *)
(***************************************************************************)
EXTENDS Naturals, FiniteSets, Sequences

CONSTANTS
  Reqs,         \* requests
  Names,        \* user names
  Secrets,      \* what generateBase64Secret may return
  API_KEYS,     \* keys of the environment
  Inherited,    \* the names that every JavaScript object inherits
  MaxRestarts,  \* bound on restarts
  NotAUser,     \* what an inherited name finds
  None

ASSUME KeysAssumption ==
  /\ (API_KEYS \cup Inherited) \cap Secrets = {}
  /\ "unknown" \notin API_KEYS \cup Secrets
  /\ None \notin API_KEYS \cup Secrets \cup Names \cup Nat \cup Inherited
       \cup {NotAUser, "unknown", "NotFound"}
  /\ NotAUser \notin Nat
ASSUME RestartAssumption == MaxRestarts \in Nat

\* A key nobody was given.
Unknown == "unknown"

VARIABLES
  AuthStrategy, \* configuration: the strategies, a nonempty subset of {"apiKey", "open"}
  Store,     \* configuration: "local" or "postgres"
  users,     \* function from the ids in use to user names
  apiKeys,   \* function from the valid keys to user ids
  reqs,      \* the requests
  restarts,  \* number of restarts so far
  issued,    \* history: function from the keys ever made valid to the ids they were issued to
  told,      \* history: keys a client was told to have been created
  revoked    \* history: keys a client was told to have been deleted

config == <<AuthStrategy, Store>>
vars == <<config, users, apiKeys, reqs, restarts, issued, told, revoked>>

DefaultName == "DefaultUser"
defaultUser == 0
LocalUsers == [id \in {defaultUser} |-> DefaultName]
LocalKeys == [key \in API_KEYS |-> defaultUser]

\* Mutant: the open strategy comes first.
MutOpenFirst ==
  IF "open" \in AuthStrategy THEN <<"open">> \o (IF "apiKey" \in AuthStrategy THEN <<"apiKey">> ELSE <<>>)
  ELSE <<"apiKey">>

\* The strategies in the order of evaluation.
parseAuthStrategyConfig ==
  IF "apiKey" \notin AuthStrategy THEN <<"open">>
  ELSE IF "open" \in AuthStrategy THEN <<"apiKey", "open">> ELSE <<"apiKey">>

NoRequest ==
  [kind |-> "none", header |-> None, name |-> None, key |-> None, at |-> "idle",
   strategies |-> <<>>, user |-> None, found |-> None, answer |-> None,
   good |-> FALSE, dead |-> FALSE]

Init ==
  /\ AuthStrategy \in {{"apiKey"}, {"open"}, {"apiKey", "open"}}
  /\ Store \in {"local", "postgres"}
  /\ \/ Store = "local" /\ users = LocalUsers /\ apiKeys = LocalKeys
     \/ Store = "postgres" /\ apiKeys = <<>> /\ \E name \in Names : users = [id \in {1} |-> name]
  /\ reqs = [r \in Reqs |-> NoRequest]
  /\ restarts = 0
  /\ issued = apiKeys
  /\ told = {}
  /\ revoked = {}

Kinds == {"createUser", "createKey", "deleteKey", "read"}

SameStore == UNCHANGED <<users, apiKeys, issued>>

\* The keys a client may send.
KnownKeys == told \cup API_KEYS \cup Inherited \cup {Unknown}

DeletionAsked(key) == \E q \in Reqs : reqs[q].kind = "deleteKey" /\ reqs[q].key = key

\* good and dead are what the client knows of the key it sends: told to be created
\* and nobody asked to delete it; told to be deleted.
Receive(r) ==
  /\ reqs[r].at = "idle"
  /\ \E kind \in Kinds, header \in KnownKeys \cup {None} :
       \E name \in IF kind \in {"createUser", "createKey"} THEN Names ELSE {None},
          key \in IF kind = "deleteKey" THEN KnownKeys ELSE {None} :
         reqs' = [reqs EXCEPT ![r] =
                    [@ EXCEPT !.kind = kind, !.header = header, !.name = name, !.key = key,
                              !.strategies = parseAuthStrategyConfig, !.at = "guard",
                              !.good = header \in told /\ ~DeletionAsked(header),
                              !.dead = header \in revoked]]
  /\ UNCHANGED <<restarts, told, revoked>> /\ SameStore

Go(r, place) == reqs' = [reqs EXCEPT ![r].at = place]
Reply(r, status) == reqs' = [reqs EXCEPT ![r] = [@ EXCEPT !.at = "reply", !.answer = status]]

\* The guard tries the next strategy: apiKey passes on a request without the header,
\* open takes every request.
Guard(r) ==
  /\ reqs[r].at = "guard"
  /\ \/ reqs[r].strategies = <<>> /\ Reply(r, "Unauthorized")
     \/ /\ reqs[r].strategies # <<>> /\ Head(reqs[r].strategies) = "open"
        /\ reqs' = [reqs EXCEPT ![r] = [@ EXCEPT !.user = defaultUser, !.at = "handler"]]
     \/ /\ reqs[r].strategies # <<>> /\ Head(reqs[r].strategies) = "apiKey"
        /\ IF reqs[r].header # None THEN Go(r, "validate")
           ELSE reqs' = [reqs EXCEPT ![r].strategies = Tail(@)]
  /\ UNCHANGED <<restarts, told, revoked>> /\ SameStore

\* Queries of Postgres may fail.
QueryFails(r) == Store = "postgres" /\ Reply(r, "InternalServerError") /\ SameStore

\* The local repository keeps the keys in a plain object, in which an inherited name
\* finds what is inherited, and that is no user; Postgres compares the secret.
InPrototype(key) == Store = "local" /\ key \in Inherited
UserOf(key) == IF key \in DOMAIN apiKeys THEN apiKeys[key] ELSE NotAUser

\* ApiKeyStrategy.validate and getUserByApiKey
ValidateApiKey(r) ==
  /\ reqs[r].at = "validate"
  /\ \/ /\ IF reqs[r].header \in DOMAIN apiKeys \/ InPrototype(reqs[r].header)
           THEN reqs' = [reqs EXCEPT ![r] = [@ EXCEPT !.user = UserOf(reqs[r].header), !.at = "handler"]]
           ELSE Reply(r, "NotFound")
        /\ SameStore
     \/ QueryFails(r)
  /\ UNCHANGED <<restarts, told, revoked>>

Named(name) == {id \in DOMAIN users : users[id] = name}
NextId == CHOOSE id \in 1 .. Cardinality(DOMAIN users) + 1 : id \notin DOMAIN users
Extended(f, x, y) == [z \in DOMAIN f \cup {x} |-> IF z = x THEN y ELSE f[z]]

\* Mutant: the name is not compared with those in use.
MutNameTaken(r) ==
  /\ reqs[r].at = "handler" /\ reqs[r].kind = "createUser"
  /\ \/ users' = Extended(users, NextId, reqs[r].name) /\ Reply(r, "Created") /\ UNCHANGED <<apiKeys, issued>>
     \/ QueryFails(r)
  /\ UNCHANGED <<restarts, told, revoked>>

\* The local repository looks for the name and stores the user in one turn of the
\* event loop; Postgres has a unique index.
CreateUser(r) ==
  /\ reqs[r].at = "handler" /\ reqs[r].kind = "createUser"
  /\ \/ Named(reqs[r].name) # {} /\ Reply(r, "Conflict") /\ SameStore
     \/ /\ Named(reqs[r].name) = {}
        /\ users' = Extended(users, NextId, reqs[r].name)
        /\ Reply(r, "Created") /\ UNCHANGED <<apiKeys, issued>>
     \/ QueryFails(r)
  /\ UNCHANGED <<restarts, told, revoked>>

\* createApiKey, up to the secret
FindByName(r) ==
  /\ reqs[r].at = "handler" /\ reqs[r].kind = "createKey"
  /\ \/ /\ \E id \in Named(reqs[r].name) :
             reqs' = [reqs EXCEPT ![r] = [@ EXCEPT !.found = id, !.at = "secret"]]
        /\ SameStore
     \/ Named(reqs[r].name) = {} /\ Reply(r, "NotFound") /\ SameStore
     \/ QueryFails(r)
  /\ UNCHANGED <<restarts, told, revoked>>

\* Mutant: the key is not saved.
MutKeyNotSaved(r) ==
  /\ reqs[r].at = "secret"
  /\ \E secret \in Secrets \ DOMAIN issued :
       /\ issued' = Extended(issued, secret, reqs[r].found)
       /\ reqs' = [reqs EXCEPT ![r] = [@ EXCEPT !.at = "reply", !.answer = "Created", !.key = secret]]
       /\ UNCHANGED <<users, apiKeys>>
  /\ UNCHANGED <<restarts, told, revoked>>

\* A secret was generated, and the key is saved; secrets are never generated twice.
SaveKey(r) ==
  /\ reqs[r].at = "secret"
  /\ \/ \E secret \in Secrets \ DOMAIN issued :
          /\ apiKeys' = Extended(apiKeys, secret, reqs[r].found)
          /\ issued' = Extended(issued, secret, reqs[r].found)
          /\ reqs' = [reqs EXCEPT ![r] = [@ EXCEPT !.at = "reply", !.answer = "Created", !.key = secret]]
          /\ UNCHANGED users
     \/ QueryFails(r)
  /\ UNCHANGED <<restarts, told, revoked>>

Without(f, x) == [z \in DOMAIN f \ {x} |-> f[z]]

\* Mutant: the key that the request itself uses stays.
MutKeepsOwn(r) ==
  /\ reqs[r].at = "handler" /\ reqs[r].kind = "deleteKey"
  /\ apiKeys' = IF reqs[r].key = reqs[r].header THEN apiKeys ELSE Without(apiKeys, reqs[r].key)
  /\ Reply(r, "Created")
  /\ UNCHANGED <<users, issued, restarts, told, revoked>>

\* deleteApiKey does not mind a key that does not exist, nor an inherited name, which
\* stays where it is.
DeleteApiKey(r) ==
  /\ reqs[r].at = "handler" /\ reqs[r].kind = "deleteKey"
  /\ \/ apiKeys' = Without(apiKeys, reqs[r].key) /\ Reply(r, "Created") /\ UNCHANGED <<users, issued>>
     \/ QueryFails(r)
  /\ UNCHANGED <<restarts, told, revoked>>

\* Any other route.
OtherRoute(r) ==
  /\ reqs[r].at = "handler" /\ reqs[r].kind = "read"
  /\ Reply(r, "OK")
  /\ UNCHANGED <<restarts, told, revoked>> /\ SameStore

\* Of a request that is over, only what it asked for remains.
Over(q, place) == [NoRequest EXCEPT !.at = place, !.kind = q.kind, !.key = q.key]

\* The answer reaches the client.
Answer(r) ==
  /\ reqs[r].at = "reply"
  /\ reqs' = [reqs EXCEPT ![r] = Over(@, "answered")]
  /\ told' = IF reqs[r].kind = "createKey" /\ reqs[r].answer = "Created" THEN told \cup {reqs[r].key} ELSE told
  /\ revoked' = IF reqs[r].kind = "deleteKey" /\ reqs[r].answer = "Created" THEN revoked \cup {reqs[r].key}
                ELSE revoked
  /\ UNCHANGED restarts /\ SameStore

\* Requests under way are lost; the local repositories are constructed again.
Restart ==
  /\ restarts < MaxRestarts
  /\ restarts' = restarts + 1
  /\ reqs' = [r \in Reqs |-> IF reqs[r].at \in {"idle", "answered"} THEN reqs[r]
                             ELSE Over(reqs[r], "lost")]
  /\ \/ Store = "local" /\ users' = LocalUsers /\ apiKeys' = LocalKeys
     \/ Store = "postgres" /\ UNCHANGED <<users, apiKeys>>
  /\ UNCHANGED <<issued, told, revoked>>

Handle(r) ==
  \/ Guard(r) \/ ValidateApiKey(r)
  \/ CreateUser(r) \/ FindByName(r) \/ SaveKey(r) \/ DeleteApiKey(r) \/ OtherRoute(r)
  \/ Answer(r)

\* The configuration is read when the process starts, and is the same after a restart.
Next == UNCHANGED config /\ (Restart \/ \E r \in Reqs : Receive(r) \/ Handle(r))

Spec == Init /\ [][Next]_vars
---------------------------------------------------------------------------
\* However requests interleave, a user name belongs to one user, and a key to a user
\* that exists: createApiKey awaits between the user it found and the key it stores.
NamesAndKeysResolve ==
  /\ \A id, other \in DOMAIN users : users[id] = users[other] => id = other
  /\ \A key \in DOMAIN apiKeys : apiKeys[key] \in DOMAIN users

\* With the apiKey strategy configured, a request that has the header acts as the
\* user its key was issued to, or not at all: it never goes on to the open strategy.
\* Only on the local store an inherited name is let in as well, though never as a user.
KeyDecidesUser ==
  \A r \in Reqs :
    reqs[r].user # None /\ reqs[r].header # None /\ "apiKey" \in AuthStrategy
      => \/ reqs[r].header \in DOMAIN issued /\ reqs[r].user = issued[reqs[r].header]
         \/ InPrototype(reqs[r].header) /\ reqs[r].user = NotAUser

\* The local repositories were made anew, and forgot what happened before.
Forgotten == Store = "local" /\ restarts > 0

\* On the local store two sorts of keys outlive their deletion: a restart brings back
\* those of API_KEYS, and deleting an inherited name has no effect.
Undead(key) == (Forgotten /\ key \in API_KEYS) \/ InPrototype(key)

\* A key that a client was told to be deleted authenticates no later request, unless
\* it is an undead one of the local store.
DeletedKeyIsDead ==
  \A r \in Reqs :
    reqs[r].dead /\ "apiKey" \in AuthStrategy /\ ~Undead(reqs[r].header) => reqs[r].user = None

\* A key that a client was told to be created is accepted until somebody asks to
\* delete it; only a restart on the local store loses it.
CreatedKeyWorks ==
  \A r \in Reqs :
    reqs[r].good /\ "apiKey" \in AuthStrategy /\ reqs[r].user = None /\ reqs[r].answer = "NotFound"
      => DeletionAsked(reqs[r].header) \/ Forgotten
=============================================================================
