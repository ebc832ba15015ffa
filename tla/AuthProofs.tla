----------------------------- MODULE AuthProofs -----------------------------
(***************************************************************************)
(* Users, API keys and the guard, for any number of requests, names, keys  *)
(* and restarts, on both stores and with every choice of strategies.       *)
(***************************************************************************)
EXTENDS Auth, FiniteSetTheorems, TLAPS

Keys == Secrets \cup API_KEYS \cup Inherited \cup {Unknown}
Places == {"idle", "guard", "validate", "handler", "secret", "reply", "answered", "lost"}
Answers == {"OK", "Created", "Conflict", "NotFound", "Unauthorized", "InternalServerError"}

Request ==
  [kind : Kinds \cup {"none"}, header : Keys \cup {None}, name : Names \cup {None},
   key : Keys \cup {None}, at : Places, strategies : Seq({"apiKey", "open"}),
   user : Nat \cup {NotAUser, None}, found : Nat \cup {None}, answer : Answers \cup {None},
   good : BOOLEAN, dead : BOOLEAN]

ConfigInv ==
  /\ AuthStrategy \in {{"apiKey"}, {"open"}, {"apiKey", "open"}}
  /\ Store \in {"local", "postgres"}
  /\ restarts \in Nat

\* A valid key is one that was issued, to a user that exists; the local store would
\* issue the keys of API_KEYS to the default user again.
StoreInv ==
  /\ IsFiniteSet(DOMAIN users) /\ DOMAIN users \subseteq Nat
  /\ NamesAndKeysResolve
  /\ \A key \in DOMAIN apiKeys : key \in DOMAIN issued /\ apiKeys[key] = issued[key]
  /\ \A key \in DOMAIN issued : issued[key] \in Nat
  /\ Store = "local" => \A key \in API_KEYS : key \in DOMAIN issued /\ issued[key] = defaultUser

\* A key that was created and is still valid, unless there is a reason; a key that was
\* deleted and stays invalid; a key that no later request can be given.
Alive(key) == key \in DOMAIN apiKeys \/ DeletionAsked(key) \/ Forgotten
Gone(key) == key \notin DOMAIN apiKeys \/ (Forgotten /\ key \in API_KEYS)
NeverNew(key) == key \notin Secrets \/ key \in DOMAIN issued

\* What clients were told is so.
ClientInv ==
  /\ \A key \in told : key \in Secrets /\ key \in DOMAIN issued /\ Alive(key)
  /\ \A key \in revoked : key \in Keys /\ Gone(key) /\ NeverNew(key)

\* How far a request is, and what that says of its user, answer and key.
ProgressInv(q) ==
  /\ q.at \in {"idle", "guard", "validate", "answered", "lost"} => q.user = None /\ q.answer = None
  /\ q.at = "idle" => q.kind = "none"
  /\ q.at \in {"handler", "secret"} => q.user # None
  /\ q.at = "validate" => q.header # None
  /\ q.at = "guard" /\ q.header # None /\ "apiKey" \in AuthStrategy =>
       q.strategies # <<>> /\ Head(q.strategies) = "apiKey"
  /\ q.at = "secret" => q.kind = "createKey" /\ q.found \in DOMAIN users
  /\ q.kind = "deleteKey" => q.key \in Keys /\ NeverNew(q.key)
  /\ q.at = "reply" /\ q.answer = "Created" /\ q.kind = "deleteKey" => Gone(q.key)
  /\ q.at = "reply" /\ q.answer = "Created" /\ q.kind = "createKey" =>
       q.key \in Secrets /\ q.key \in DOMAIN issued /\ Alive(q.key)

\* The properties, for one request, and what the client knew of its key.
KnowledgeInv(q) ==
  /\ q.good => q.header \in told \cap Secrets
  /\ q.dead => q.header \in revoked
  /\ q.user # None /\ q.header # None /\ "apiKey" \in AuthStrategy =>
       \/ q.header \in DOMAIN issued /\ q.user = issued[q.header]
       \/ InPrototype(q.header) /\ q.user = NotAUser
  /\ q.dead /\ "apiKey" \in AuthStrategy /\ ~Undead(q.header) => q.user = None
  /\ q.good /\ "apiKey" \in AuthStrategy /\ q.user = None /\ q.answer = "NotFound" =>
       DeletionAsked(q.header) \/ Forgotten

RequestInv(q) == ProgressInv(q) /\ KnowledgeInv(q)

Inv ==
  /\ reqs \in [Reqs -> Request]
  /\ ConfigInv /\ StoreInv /\ ClientInv
  /\ \A r \in Reqs : RequestInv(reqs[r])

---------------------------------------------------------------------------
\* What a step of a request leaves true for the others.
Grows ==
  /\ UNCHANGED <<AuthStrategy, Store, restarts>>
  /\ DOMAIN users \subseteq DOMAIN users'
  /\ \A key \in DOMAIN issued : key \in DOMAIN issued' /\ issued'[key] = issued[key]
  /\ told \subseteq told' /\ revoked \subseteq revoked'
  /\ \A key \in Keys : /\ DeletionAsked(key) => DeletionAsked(key)'
                       /\ Alive(key) => Alive(key)'
                       /\ Gone(key) /\ NeverNew(key) => Gone(key)'

\* A request that does not take the step keeps its invariant.
LEMMA RequestKept ==
  ASSUME NEW q \in Request, RequestInv(q), Grows
  PROVE  RequestInv(q)'
<1>1. Forgotten' <=> Forgotten
  BY DEF Grows, Forgotten
<1>2. q.header \in Keys \cup {None} /\ q.key \in Keys \cup {None}
  BY DEF Request
<1>3. NeverNew(q.key) => NeverNew(q.key)'
  BY DEF NeverNew, Grows
<1>4. ProgressInv(q)'
  BY <1>2, <1>3 DEF RequestInv, ProgressInv, Grows, Keys
<1>5. KnowledgeInv(q)'
  <2>1. q.good => q.header \in Keys
    BY DEF RequestInv, KnowledgeInv, Keys
  <2>2. /\ InPrototype(q.header)' <=> InPrototype(q.header)
        /\ Undead(q.header)' <=> Undead(q.header)
    BY <1>1 DEF InPrototype, Undead, Grows
  <2> QED
    BY <1>1, <2>1, <2>2 DEF RequestInv, KnowledgeInv, Grows
<1> QED
  BY <1>4, <1>5 DEF RequestInv

\* It is enough to look at the request that takes the step.
LEMMA StepSuffices ==
  ASSUME Inv, NEW r \in Reqs, reqs' \in [Reqs -> Request],
         \A q \in Reqs \ {r} : reqs'[q] = reqs[q],
         Grows, StoreInv', ClientInv', RequestInv(reqs[r])'
  PROVE  Inv'
<1>1. ConfigInv'
  BY DEF Inv, ConfigInv, Grows
<1>2. ASSUME NEW q \in Reqs, q # r PROVE RequestInv(reqs[q])'
  <2>1. reqs[q] \in Request /\ RequestInv(reqs[q]) /\ reqs'[q] = reqs[q]
    BY <1>2 DEF Inv
  <2> DEFINE x == reqs[q]
  <2>2. x \in Request /\ RequestInv(x) /\ reqs'[q] = x
    BY <2>1
  <2>3. x' = x
    BY <2>1
  <2> QED
    BY <2>1, <2>3, RequestKept DEF RequestInv, ProgressInv, KnowledgeInv
<1> QED
  BY <1>1, <1>2 DEF Inv

\* Initially nobody was told anything.
LEMMA InitInv == Init => Inv
<1> SUFFICES ASSUME Init PROVE Inv
  OBVIOUS
<1> USE DEF Init
<1>1. reqs \in [Reqs -> Request]
  <2>1. NoRequest \in Request
    BY DEF NoRequest, Request, Places, Kinds
  <2> QED
    BY <2>1
<1>2. ConfigInv
  BY DEF ConfigInv
<1>3. StoreInv
  <2>1. CASE Store = "local"
    <3>1. DOMAIN users = {0} /\ users[0] = DefaultName
      BY <2>1 DEF LocalUsers, defaultUser
    <3>2. DOMAIN apiKeys = API_KEYS /\ issued = apiKeys /\ \A key \in API_KEYS : apiKeys[key] = 0
      BY <2>1 DEF LocalKeys, defaultUser
    <3>3. IsFiniteSet({0})
      BY FS_Singleton
    <3> QED
      BY <3>1, <3>2, <3>3 DEF StoreInv, NamesAndKeysResolve, defaultUser
  <2>2. CASE Store = "postgres"
    <3>1. DOMAIN users = {1}
      BY <2>2
    <3>2. DOMAIN apiKeys = {} /\ issued = apiKeys
      BY <2>2
    <3>3. IsFiniteSet({1})
      BY FS_Singleton
    <3> QED
      BY <2>2, <3>1, <3>2, <3>3 DEF StoreInv, NamesAndKeysResolve
  <2> QED
    BY <2>1, <2>2
<1>4. ClientInv
  BY DEF ClientInv
<1>5. ASSUME NEW r \in Reqs PROVE RequestInv(reqs[r])
  <2>1. reqs[r] = NoRequest
    OBVIOUS
  <2> QED
    BY <2>1 DEF RequestInv, ProgressInv, KnowledgeInv, NoRequest
<1> QED
  BY <1>1, <1>2, <1>3, <1>4, <1>5 DEF Inv

\* The request keeps asking for the deletion that it asks for.
KeepsAsking(r) ==
  reqs[r].kind = "deleteKey" => reqs'[r].kind = "deleteKey" /\ reqs'[r].key = reqs[r].key

LEMMA AskedKept ==
  ASSUME NEW r \in Reqs, NEW key, \A q \in Reqs \ {r} : reqs'[q] = reqs[q], KeepsAsking(r)
  PROVE  DeletionAsked(key) => DeletionAsked(key)'
BY DEF DeletionAsked, KeepsAsking

\* A step that leaves store and clients alone.
LEMMA QuietStep ==
  ASSUME Inv, NEW r \in Reqs, \A q \in Reqs \ {r} : reqs'[q] = reqs[q], KeepsAsking(r),
         UNCHANGED config, SameStore, UNCHANGED <<restarts, told, revoked>>
  PROVE  Grows /\ StoreInv' /\ ClientInv'
<1>1. UNCHANGED <<AuthStrategy, Store, users, apiKeys, issued, restarts, told, revoked>>
  BY DEF config, SameStore
<1>2. \A key : DeletionAsked(key) => DeletionAsked(key)'
  BY AskedKept
<1>3. \A key : Alive(key) => Alive(key)'
  BY <1>1, <1>2 DEF Alive, Forgotten
<1>4. \A key : (Gone(key) => Gone(key)') /\ (NeverNew(key) => NeverNew(key)')
  BY <1>1 DEF Gone, NeverNew, Forgotten
<1>5. Grows
  BY <1>1, <1>2, <1>3, <1>4 DEF Grows
<1>6. StoreInv'
  BY <1>1 DEF Inv, StoreInv, NamesAndKeysResolve
<1>7. ClientInv'
  BY <1>1, <1>3, <1>4 DEF Inv, ClientInv
<1> QED
  BY <1>5, <1>6, <1>7

\* The fields of a request that is answered.
LEMMA ReplyFacts ==
  ASSUME Inv, NEW r \in Reqs, NEW status \in Answers, Reply(r, status)
  PROVE  /\ reqs' \in [Reqs -> Request]
         /\ \A q \in Reqs \ {r} : reqs'[q] = reqs[q]
         /\ reqs'[r] = [reqs[r] EXCEPT !.at = "reply", !.answer = status]
         /\ KeepsAsking(r)
<1>1. reqs \in [Reqs -> Request] /\ reqs[r] \in Request
  BY DEF Inv
<1>2. [reqs[r] EXCEPT !.at = "reply", !.answer = status] \in Request
  BY <1>1 DEF Request, Places
<1> QED
  BY <1>1, <1>2 DEF Reply, KeepsAsking, Request

\* A request that is answered keeps its invariant when the answer is true.
LEMMA ReplyKeeps ==
  ASSUME Inv, NEW r \in Reqs, NEW status \in Answers, Reply(r, status), Grows,
         status = "Created" => reqs[r].kind # "createKey",
         status = "Created" /\ reqs[r].kind = "deleteKey" => Gone(reqs[r].key)',
         reqs[r].good /\ "apiKey" \in AuthStrategy /\ reqs[r].user = None /\ status = "NotFound" =>
           DeletionAsked(reqs[r].header)' \/ Forgotten'
  PROVE  RequestInv(reqs[r])'
<1> DEFINE q == reqs[r]
           p == [q EXCEPT !.at = "reply", !.answer = status]
<1>1. reqs'[r] = p
  BY ReplyFacts
<1>2. q \in Request /\ RequestInv(q)
  BY DEF Inv
<1>3. /\ p.at = "reply" /\ p.answer = status /\ p.kind = q.kind /\ p.key = q.key
      /\ p.header = q.header /\ p.user = q.user /\ p.good = q.good /\ p.dead = q.dead
  BY <1>2 DEF Request
<1>4. Forgotten' <=> Forgotten
  BY DEF Grows, Forgotten
<1>5. NeverNew(q.key) => (q.key \notin Secrets \/ q.key \in DOMAIN issued')
  BY DEF NeverNew, Grows
<1>6. UNCHANGED <<AuthStrategy, Store>>
  BY DEF Grows
<1>7. ProgressInv(reqs[r])'
  <2>1. reqs'[r].kind = "deleteKey" => reqs'[r].key \in Keys /\ NeverNew(reqs[r].key)'
    BY <1>1, <1>2, <1>3, <1>5 DEF RequestInv, ProgressInv, NeverNew
  <2>2. reqs'[r].at = "reply" /\ reqs'[r].answer = "Created" /\ reqs'[r].kind = "deleteKey" => Gone(reqs[r].key)'
    BY <1>1, <1>3 DEF Gone
  <2>3. reqs'[r].answer = "Created" => reqs'[r].kind # "createKey"
    BY <1>1, <1>3
  <2>4. reqs'[r].at = "reply"
    BY <1>1, <1>3
  <2> QED
    BY <2>1, <2>2, <2>3, <2>4 DEF ProgressInv
<1>8. KnowledgeInv(reqs[r])'
  <2>1. KnowledgeInv(q)
    BY <1>2 DEF RequestInv
  <2>2. /\ q.good => q.header \in told' \cap Secrets
        /\ q.dead => q.header \in revoked'
    BY <2>1 DEF KnowledgeInv, Grows
  <2>3. q.user # None /\ q.header # None /\ "apiKey" \in AuthStrategy =>
          \/ q.header \in DOMAIN issued' /\ q.user = issued'[q.header]
          \/ InPrototype(q.header) /\ q.user = NotAUser
    BY <2>1 DEF KnowledgeInv, Grows
  <2>4. q.dead /\ "apiKey" \in AuthStrategy /\ ~((Forgotten' /\ q.header \in API_KEYS) \/ InPrototype(q.header)) => q.user = None
    BY <2>1, <1>4 DEF KnowledgeInv, Undead
  <2>5. q.good /\ "apiKey" \in AuthStrategy /\ q.user = None /\ status = "NotFound" =>
          DeletionAsked(q.header)' \/ Forgotten'
    OBVIOUS
  <2>6. (DeletionAsked(q.header)' \/ Forgotten') => (DeletionAsked(reqs[r].header)' \/ Forgotten')
    BY <1>1, <1>3 DEF DeletionAsked
  <2>7. /\ InPrototype(reqs[r].header)' <=> InPrototype(q.header)
        /\ Undead(reqs[r].header)' <=> (Forgotten' /\ q.header \in API_KEYS) \/ InPrototype(q.header)
    BY <1>1, <1>3, <1>6 DEF InPrototype, Undead
  <2> HIDE DEF q, p
  <2> QED
    BY <1>1, <1>3, <1>6, <2>2, <2>3, <2>4, <2>5, <2>6, <2>7 DEF KnowledgeInv
<1> QED
  BY <1>7, <1>8 DEF RequestInv

\* A step that moves one request on and does nothing else.
LEMMA MoveStep ==
  ASSUME Inv, NEW r \in Reqs, NEW p \in Request, reqs' = [reqs EXCEPT ![r] = p],
         reqs[r].kind = "deleteKey" => p.kind = "deleteKey" /\ p.key = reqs[r].key,
         UNCHANGED config, SameStore, UNCHANGED <<restarts, told, revoked>>, RequestInv(p)
  PROVE  Inv'
<1>1. /\ reqs' \in [Reqs -> Request] /\ reqs'[r] = p
      /\ \A q \in Reqs \ {r} : reqs'[q] = reqs[q]
  BY DEF Inv
<1>2. KeepsAsking(r)
  BY <1>1 DEF KeepsAsking
<1>3. Grows /\ StoreInv' /\ ClientInv'
  BY <1>1, <1>2, QuietStep
<1>4. RequestInv(p)'
  BY <1>3, RequestKept
<1>5. RequestInv(reqs[r])'
  BY <1>1, <1>4 DEF RequestInv, ProgressInv, KnowledgeInv
<1> QED
  BY <1>1, <1>3, <1>5, StepSuffices

\* An answer that changes nothing.
LEMMA ReplyStep ==
  ASSUME Inv, NEW r \in Reqs, NEW status \in Answers, Reply(r, status),
         UNCHANGED config, SameStore, UNCHANGED <<restarts, told, revoked>>,
         status = "Created" => reqs[r].kind \notin {"createKey", "deleteKey"},
         reqs[r].good /\ "apiKey" \in AuthStrategy /\ reqs[r].user = None /\ status = "NotFound" =>
           DeletionAsked(reqs[r].header) \/ Forgotten
  PROVE  Inv'
<1>1. PICK p \in Request : p = [reqs[r] EXCEPT !.at = "reply", !.answer = status]
  <2>1. reqs[r] \in Request
    BY DEF Inv
  <2>2. [reqs[r] EXCEPT !.at = "reply", !.answer = status] \in Request
    BY <2>1 DEF Request, Places
  <2> QED
    BY <2>2
<1>2. /\ p.at = "reply" /\ p.answer = status /\ p.kind = reqs[r].kind /\ p.key = reqs[r].key
      /\ p.header = reqs[r].header /\ p.user = reqs[r].user /\ p.good = reqs[r].good /\ p.dead = reqs[r].dead
  BY <1>1 DEF Inv, Request
<1>3. RequestInv(reqs[r])
  BY DEF Inv
<1>4. ProgressInv(p)
  BY <1>2, <1>3 DEF RequestInv, ProgressInv
<1>5. KnowledgeInv(p)
  BY <1>2, <1>3 DEF RequestInv, KnowledgeInv
<1>6. reqs' = [reqs EXCEPT ![r] = p]
  BY <1>1 DEF Reply
<1> QED
  BY <1>2, <1>4, <1>5, <1>6, MoveStep DEF RequestInv

\* A query of Postgres that fails.
LEMMA QueryFailsStep ==
  ASSUME Inv, NEW r \in Reqs, QueryFails(r), UNCHANGED config, UNCHANGED <<restarts, told, revoked>>
  PROVE  Inv'
<1>1. Reply(r, "InternalServerError") /\ SameStore
  BY DEF QueryFails
<1>2. "InternalServerError" \in Answers
  BY DEF Answers
<1> QED
  BY <1>1, <1>2, ReplyStep

\* Receive: the client knows what it was told.
LEMMA ReceiveStep ==
  ASSUME Inv, NEW r \in Reqs, Receive(r), UNCHANGED config
  PROVE  Inv'
<1>1. PICK kind \in Kinds, header \in KnownKeys \cup {None} :
        \E name \in IF kind \in {"createUser", "createKey"} THEN Names ELSE {None},
           key \in IF kind = "deleteKey" THEN KnownKeys ELSE {None} :
          reqs' = [reqs EXCEPT ![r] =
                    [@ EXCEPT !.kind = kind, !.header = header, !.name = name, !.key = key,
                              !.strategies = parseAuthStrategyConfig, !.at = "guard",
                              !.good = header \in told /\ ~DeletionAsked(header),
                              !.dead = header \in revoked]]
  BY DEF Receive
<1>2. PICK name \in IF kind \in {"createUser", "createKey"} THEN Names ELSE {None},
           key \in IF kind = "deleteKey" THEN KnownKeys ELSE {None} :
          reqs' = [reqs EXCEPT ![r] =
                    [@ EXCEPT !.kind = kind, !.header = header, !.name = name, !.key = key,
                              !.strategies = parseAuthStrategyConfig, !.at = "guard",
                              !.good = header \in told /\ ~DeletionAsked(header),
                              !.dead = header \in revoked]]
  BY <1>1
<1>3. PICK good, dead \in BOOLEAN :
        /\ good = (header \in told /\ ~DeletionAsked(header))
        /\ dead = (header \in revoked)
  <2> DEFINE isGood == header \in told /\ ~DeletionAsked(header)
             isDead == header \in revoked
  <2>1. isGood \in BOOLEAN /\ isDead \in BOOLEAN
    <3>1. isDead \in BOOLEAN
      OBVIOUS
    <3>2. isGood \in BOOLEAN
      <4>1. CASE isGood
        BY <4>1, Zenon
      <4>2. CASE ~isGood
        BY <4>2, Zenon
      <4> QED
        BY <4>1, <4>2
    <3> QED
      BY <3>1, <3>2
  <2> HIDE DEF isGood, isDead
  <2>2. \E good, dead \in BOOLEAN : good = isGood /\ dead = isDead
    BY <2>1
  <2> QED
    BY <2>2 DEF isGood, isDead
<1> HIDE DEF DeletionAsked
<1>4. PICK strategies \in Seq({"apiKey", "open"}) : strategies = parseAuthStrategyConfig
  <2>1. parseAuthStrategyConfig \in Seq({"apiKey", "open"})
    <3>1. <<"open">> \in Seq({"apiKey", "open"})
      OBVIOUS
    <3>2. <<"apiKey">> \in Seq({"apiKey", "open"})
      OBVIOUS
    <3>3. <<"apiKey", "open">> \in Seq({"apiKey", "open"})
      OBVIOUS
    <3> QED
      BY <3>1, <3>2, <3>3, Zenon DEF parseAuthStrategyConfig
  <2> QED
    BY <2>1
<1>5. told \subseteq Secrets /\ told \subseteq DOMAIN issued
  BY DEF Inv, ClientInv
<1>6. KnownKeys \subseteq Keys /\ \A k \in KnownKeys : NeverNew(k)
  BY <1>5, KeysAssumption DEF KnownKeys, Keys, NeverNew, Unknown
<1>7. /\ kind \in Kinds /\ header \in Keys \cup {None} /\ name \in Names \cup {None}
      /\ key \in Keys \cup {None} /\ (kind = "deleteKey" => key \in KnownKeys)
  <2>1. header \in Keys \cup {None}
    BY <1>6
  <2>2. name \in Names \cup {None}
    BY <1>2
  <2>3. key \in Keys \cup {None} /\ (kind = "deleteKey" => key \in KnownKeys)
    BY <1>2, <1>6
  <2> QED
    BY <2>1, <2>2, <2>3
<1>8. reqs[r] \in Request /\ reqs[r].at = "idle" /\ RequestInv(reqs[r])
  BY DEF Inv, Receive
<1>9. reqs[r].user = None /\ reqs[r].answer = None /\ reqs[r].kind = "none"
  BY <1>8 DEF RequestInv, ProgressInv
<1> DEFINE new == [reqs[r] EXCEPT !.kind = kind, !.header = header, !.name = name, !.key = key,
                              !.strategies = strategies, !.at = "guard", !.good = good, !.dead = dead]
<1>10. new \in Request
  BY <1>7, <1>8, ZenonT(60) DEF Request, Places
<1>11. reqs' = [reqs EXCEPT ![r] = new]
  BY <1>2, <1>3, <1>4
<1>12. PICK p \in Request : p = new
  BY <1>10
<1>13. /\ p.at = "guard" /\ p.kind = kind /\ p.key = key /\ p.header = header /\ p.good = good /\ p.dead = dead
       /\ p.user = None /\ p.answer = None /\ p.strategies = strategies
  BY <1>8, <1>9, <1>12 DEF Request
<1> HIDE DEF new
<1>14. ProgressInv(p)
  <2>1. "apiKey" \in AuthStrategy => strategies # <<>> /\ Head(strategies) = "apiKey"
    BY <1>4 DEF parseAuthStrategyConfig
  <2>2. (key \in Keys /\ NeverNew(key)) \/ kind # "deleteKey"
    BY <1>6, <1>7
  <2> QED
    BY <1>13, <2>1, <2>2 DEF ProgressInv
<1>15. KnowledgeInv(p)
  <2>1. (good => header \in told) /\ (dead => header \in revoked)
    BY <1>3, Zenon
  <2> QED
    BY <1>5, <1>13, <2>1, KeysAssumption DEF KnowledgeInv
<1> QED
  BY <1>9, <1>11, <1>12, <1>14, <1>15, MoveStep DEF Receive, RequestInv

\* Guard: with the apiKey strategy, a request that has the header never meets open.
LEMMA GuardStep ==
  ASSUME Inv, NEW r \in Reqs, Guard(r), UNCHANGED config
  PROVE  Inv'
<1>1. reqs[r] \in Request /\ reqs[r].at = "guard" /\ RequestInv(reqs[r])
  BY DEF Inv, Guard
<1>2. reqs[r].user = None /\ reqs[r].answer = None
  BY <1>1 DEF RequestInv, ProgressInv
<1>3. UNCHANGED <<restarts, told, revoked>> /\ SameStore
  BY DEF Guard
<1>4. CASE reqs[r].strategies = <<>>
  <2>1. Reply(r, "Unauthorized") /\ "Unauthorized" \in Answers
    BY <1>4 DEF Guard, Answers
  <2> QED
    BY <1>3, <2>1, ReplyStep
<1>5. CASE reqs[r].strategies # <<>> /\ Head(reqs[r].strategies) = "open"
  <2> DEFINE new == [reqs[r] EXCEPT !.user = defaultUser, !.at = "handler"]
  <2>1. new \in Request
    BY <1>1 DEF Request, Places, defaultUser
  <2>2. reqs' = [reqs EXCEPT ![r] = new]
    BY <1>5 DEF Guard
  <2>3. PICK p \in Request : p = new
    BY <2>1
  <2>4. /\ p.at = "handler" /\ p.kind = reqs[r].kind /\ p.key = reqs[r].key /\ p.header = reqs[r].header
        /\ p.good = reqs[r].good /\ p.dead = reqs[r].dead /\ p.user = 0 /\ p.answer = None
    BY <1>1, <1>2, <2>3 DEF Request, defaultUser
  <2> HIDE DEF new
  <2>5. ProgressInv(p)
    BY <1>1, <2>4, KeysAssumption DEF RequestInv, ProgressInv
  <2>6. reqs[r].header # None => "apiKey" \notin AuthStrategy
    BY <1>1, <1>5 DEF RequestInv, ProgressInv
  <2>7. reqs[r].dead => reqs[r].header # None
    BY <1>1, KeysAssumption DEF RequestInv, KnowledgeInv, Inv, ClientInv, Keys, Unknown
  <2>8. KnowledgeInv(p)
    BY <1>1, <2>4, <2>6, <2>7, KeysAssumption DEF RequestInv, KnowledgeInv
  <2> QED
    BY <1>3, <2>2, <2>3, <2>4, <2>5, <2>8, MoveStep DEF RequestInv
<1>6. CASE reqs[r].strategies # <<>> /\ Head(reqs[r].strategies) # "open" /\ reqs[r].header # None
  <2> DEFINE new == [reqs[r] EXCEPT !.at = "validate"]
  <2>1. new \in Request
    BY <1>1 DEF Request, Places
  <2>2. reqs' = [reqs EXCEPT ![r] = new]
    BY <1>6 DEF Guard, Go
  <2>3. PICK p \in Request : p = new
    BY <2>1
  <2>4. /\ p.at = "validate" /\ p.kind = reqs[r].kind /\ p.key = reqs[r].key /\ p.header = reqs[r].header
        /\ p.good = reqs[r].good /\ p.dead = reqs[r].dead /\ p.user = None /\ p.answer = None
    BY <1>1, <1>2, <2>3 DEF Request
  <2> HIDE DEF new
  <2>5. ProgressInv(p)
    BY <1>1, <1>6, <2>4 DEF RequestInv, ProgressInv
  <2>6. KnowledgeInv(p)
    BY <1>1, <1>2, <2>4 DEF RequestInv, KnowledgeInv
  <2> QED
    BY <1>3, <2>2, <2>3, <2>4, <2>5, <2>6, MoveStep DEF RequestInv
<1>7. CASE reqs[r].strategies # <<>> /\ Head(reqs[r].strategies) # "open" /\ reqs[r].header = None
  <2> DEFINE new == [reqs[r] EXCEPT !.strategies = Tail(@)]
  <2>1. new \in Request
    <3>1. Tail(reqs[r].strategies) \in Seq({"apiKey", "open"})
      BY <1>1, <1>7 DEF Request
    <3> QED
      BY <1>1, <3>1 DEF Request
  <2>2. reqs' = [reqs EXCEPT ![r] = new]
    BY <1>7 DEF Guard
  <2>3. PICK p \in Request : p = new
    BY <2>1
  <2>4. /\ p.at = "guard" /\ p.kind = reqs[r].kind /\ p.key = reqs[r].key /\ p.header = None
        /\ p.good = reqs[r].good /\ p.dead = reqs[r].dead /\ p.user = None /\ p.answer = None
    BY <1>1, <1>2, <1>7, <2>3 DEF Request
  <2> HIDE DEF new
  <2>5. ProgressInv(p)
    BY <1>1, <2>4 DEF RequestInv, ProgressInv
  <2>6. KnowledgeInv(p)
    BY <1>1, <1>2, <1>7, <2>4 DEF RequestInv, KnowledgeInv
  <2> QED
    BY <1>3, <2>2, <2>3, <2>4, <2>5, <2>6, MoveStep DEF RequestInv
<1> QED
  BY <1>4, <1>5, <1>6, <1>7

\* ValidateApiKey: a created key is valid unless there is a reason, a deleted one is not.
LEMMA ValidateStep ==
  ASSUME Inv, NEW r \in Reqs, ValidateApiKey(r), UNCHANGED config
  PROVE  Inv'
<1>1. reqs[r] \in Request /\ reqs[r].at = "validate" /\ RequestInv(reqs[r])
  BY DEF Inv, ValidateApiKey
<1>2. reqs[r].user = None /\ reqs[r].answer = None /\ reqs[r].header # None
  BY <1>1 DEF RequestInv, ProgressInv
<1>3. UNCHANGED <<restarts, told, revoked>>
  BY DEF ValidateApiKey
<1>4. CASE QueryFails(r)
  BY <1>3, <1>4, QueryFailsStep
<1>5. CASE reqs[r].header \notin DOMAIN apiKeys /\ Reply(r, "NotFound") /\ SameStore
  <2>1. reqs[r].good => DeletionAsked(reqs[r].header) \/ Forgotten
    BY <1>1, <1>5 DEF RequestInv, KnowledgeInv, Inv, ClientInv, Alive
  <2>2. "NotFound" \in Answers
    BY DEF Answers
  <2> QED
    BY <1>3, <1>5, <2>1, <2>2, ReplyStep
<1>6. CASE /\ reqs[r].header \in DOMAIN apiKeys /\ SameStore
           /\ reqs' = [reqs EXCEPT ![r] = [@ EXCEPT !.user = UserOf(reqs[r].header), !.at = "handler"]]
  <2>1. PICK id \in Nat : /\ id = apiKeys[reqs[r].header] /\ reqs[r].header \in DOMAIN issued
                          /\ id = issued[reqs[r].header]
    BY <1>6 DEF Inv, StoreInv
  <2> DEFINE new == [reqs[r] EXCEPT !.user = id, !.at = "handler"]
  <2>2. new \in Request
    BY <1>1 DEF Request, Places
  <2>3. reqs' = [reqs EXCEPT ![r] = new]
    BY <1>6, <2>1 DEF UserOf
  <2>4. PICK p \in Request : p = new
    BY <2>2
  <2>5. /\ p.at = "handler" /\ p.kind = reqs[r].kind /\ p.key = reqs[r].key /\ p.header = reqs[r].header
        /\ p.good = reqs[r].good /\ p.dead = reqs[r].dead /\ p.user = id /\ p.answer = None
    BY <1>1, <1>2, <2>4 DEF Request
  <2> HIDE DEF new
  <2>6. id # None
    BY KeysAssumption
  <2>7. ProgressInv(p)
    BY <1>1, <2>5, <2>6 DEF RequestInv, ProgressInv
  <2>8. reqs[r].dead => Forgotten /\ reqs[r].header \in API_KEYS
    BY <1>1, <1>6 DEF RequestInv, KnowledgeInv, Inv, ClientInv, Gone
  <2>9. KnowledgeInv(p)
    BY <1>1, <2>1, <2>5, <2>6, <2>8 DEF RequestInv, KnowledgeInv, Undead
  <2> QED
    BY <1>3, <1>6, <2>3, <2>4, <2>5, <2>7, <2>9, MoveStep DEF RequestInv
<1>7. CASE /\ reqs[r].header \notin DOMAIN apiKeys /\ InPrototype(reqs[r].header) /\ SameStore
           /\ reqs' = [reqs EXCEPT ![r] = [@ EXCEPT !.user = UserOf(reqs[r].header), !.at = "handler"]]
  <2> DEFINE new == [reqs[r] EXCEPT !.user = NotAUser, !.at = "handler"]
  <2>1. new \in Request
    BY <1>1 DEF Request, Places
  <2>2. reqs' = [reqs EXCEPT ![r] = new]
    BY <1>7 DEF UserOf
  <2>3. PICK p \in Request : p = new
    BY <2>1
  <2>4. /\ p.at = "handler" /\ p.kind = reqs[r].kind /\ p.key = reqs[r].key /\ p.header = reqs[r].header
        /\ p.good = reqs[r].good /\ p.dead = reqs[r].dead /\ p.user = NotAUser /\ p.answer = None
    BY <1>1, <1>2, <2>3 DEF Request
  <2> HIDE DEF new
  <2>5. NotAUser # None
    BY KeysAssumption
  <2>6. ProgressInv(p)
    BY <1>1, <2>4, <2>5 DEF RequestInv, ProgressInv
  <2>7. KnowledgeInv(p)
    BY <1>1, <1>7, <2>4, <2>5 DEF RequestInv, KnowledgeInv, Undead
  <2> QED
    BY <1>3, <1>7, <2>2, <2>3, <2>4, <2>6, <2>7, MoveStep DEF RequestInv
<1> QED
  BY <1>4, <1>5, <1>6, <1>7 DEF ValidateApiKey

\* FindByName: the user that createApiKey found exists.
LEMMA FindStep ==
  ASSUME Inv, NEW r \in Reqs, FindByName(r), UNCHANGED config
  PROVE  Inv'
<1>1. /\ reqs[r] \in Request /\ reqs[r].at = "handler" /\ reqs[r].kind = "createKey" /\ RequestInv(reqs[r])
  BY DEF Inv, FindByName
<1>2. reqs[r].user # None
  BY <1>1 DEF RequestInv, ProgressInv
<1>3. UNCHANGED <<restarts, told, revoked>>
  BY DEF FindByName
<1>4. CASE QueryFails(r)
  BY <1>3, <1>4, QueryFailsStep
<1>5. CASE Reply(r, "NotFound") /\ SameStore
  <2>1. "NotFound" \in Answers
    BY DEF Answers
  <2> QED
    BY <1>2, <1>3, <1>5, <2>1, ReplyStep
<1>6. CASE /\ \E id \in Named(reqs[r].name) :
                reqs' = [reqs EXCEPT ![r] = [@ EXCEPT !.found = id, !.at = "secret"]]
           /\ SameStore
  <2>1. PICK id \in DOMAIN users :
          reqs' = [reqs EXCEPT ![r] = [@ EXCEPT !.found = id, !.at = "secret"]]
    BY <1>6 DEF Named
  <2> DEFINE new == [reqs[r] EXCEPT !.found = id, !.at = "secret"]
  <2>2. new \in Request
    <3>1. id \in Nat
      BY DEF Inv, StoreInv
    <3> QED
      BY <1>1, <3>1 DEF Request, Places
  <2>3. PICK p \in Request : p = new
    BY <2>2
  <2>4. /\ p.at = "secret" /\ p.kind = "createKey" /\ p.key = reqs[r].key /\ p.header = reqs[r].header
        /\ p.good = reqs[r].good /\ p.dead = reqs[r].dead /\ p.user = reqs[r].user /\ p.answer = reqs[r].answer
        /\ p.found = id
    BY <1>1, <2>3 DEF Request
  <2>5. reqs' = [reqs EXCEPT ![r] = p]
    BY <2>1, <2>3
  <2> HIDE DEF new
  <2>6. ProgressInv(p)
    BY <1>1, <1>2, <2>4 DEF RequestInv, ProgressInv
  <2>7. KnowledgeInv(p)
    BY <1>1, <2>4 DEF RequestInv, KnowledgeInv
  <2> QED
    BY <1>1, <1>3, <1>6, <2>4, <2>5, <2>6, <2>7, MoveStep DEF RequestInv
<1> QED
  BY <1>4, <1>5, <1>6 DEF FindByName

\* OtherRoute
LEMMA OtherStep ==
  ASSUME Inv, NEW r \in Reqs, OtherRoute(r), UNCHANGED config
  PROVE  Inv'
BY ReplyStep DEF OtherRoute, Answers

\* Ids are numbers that are not in use.
LEMMA NextIdFresh ==
  ASSUME IsFiniteSet(DOMAIN users)
  PROVE  NextId \in Nat \ DOMAIN users
<1> DEFINE D == DOMAIN users
           n == Cardinality(D)
<1>1. n \in Nat
  BY FS_CardinalityType
<1>2. \E id \in 1 .. n + 1 : id \notin D
  <2> SUFFICES ASSUME 1 .. n + 1 \subseteq D PROVE FALSE
    OBVIOUS
  <2>1. Cardinality(1 .. n + 1) <= n
    BY FS_Subset
  <2>2. Cardinality(1 .. n + 1) = n + 1
    <3>1. 1 \in Int /\ n + 1 \in Int /\ ~(1 > n + 1)
      BY <1>1
    <3>2. Cardinality(1 .. n + 1) = (n + 1) - 1 + 1
      BY <3>1, FS_Interval
    <3> QED
      BY <1>1, <3>2
  <2> QED
    BY <1>1, <2>1, <2>2
<1> HIDE DEF n
<1>3. NextId \in 1 .. n + 1 /\ NextId \notin D
  BY <1>2 DEF NextId, n
<1> QED
  BY <1>1, <1>3

\* CreateUser: a new id for a new name.
LEMMA CreateUserStep ==
  ASSUME Inv, NEW r \in Reqs, CreateUser(r), UNCHANGED config
  PROVE  Inv'
<1>1. /\ reqs[r] \in Request /\ reqs[r].at = "handler" /\ reqs[r].kind = "createUser" /\ RequestInv(reqs[r])
      /\ StoreInv /\ ClientInv
  BY DEF Inv, CreateUser
<1>2. UNCHANGED <<restarts, told, revoked>> /\ UNCHANGED <<AuthStrategy, Store>>
  BY DEF CreateUser, config
<1>3. CASE QueryFails(r)
  BY <1>2, <1>3, QueryFailsStep
<1>4. CASE Reply(r, "Conflict") /\ SameStore
  <2>1. "Conflict" \in Answers
    BY DEF Answers
  <2> QED
    BY <1>2, <1>4, <2>1, ReplyStep
<1>5. CASE /\ Named(reqs[r].name) = {}
           /\ users' = Extended(users, NextId, reqs[r].name)
           /\ Reply(r, "Created") /\ UNCHANGED <<apiKeys, issued>>
  <2>1. PICK id \in Nat \ DOMAIN users : id = NextId
    BY <1>1, NextIdFresh DEF StoreInv
  <2>2. /\ DOMAIN users' = DOMAIN users \cup {id} /\ users'[id] = reqs[r].name
        /\ \A i \in DOMAIN users : users'[i] = users[i] /\ users[i] # reqs[r].name
    BY <1>5, <2>1 DEF Extended, Named
  <2>3. "Created" \in Answers
    BY DEF Answers
  <2>4. /\ reqs' \in [Reqs -> Request] /\ KeepsAsking(r)
        /\ \A q \in Reqs \ {r} : reqs'[q] = reqs[q]
    BY <1>5, <2>3, ReplyFacts
  <2>5. \A key : DeletionAsked(key) => DeletionAsked(key)'
    BY <2>4, AskedKept
  <2>6. \A key : (Alive(key) => Alive(key)') /\ (Gone(key) => Gone(key)') /\ (NeverNew(key) => NeverNew(key)')
    BY <1>2, <1>5, <2>5 DEF Alive, Gone, NeverNew, Forgotten
  <2>7. Grows
    BY <1>2, <1>5, <2>2, <2>5, <2>6 DEF Grows
  <2>8. StoreInv'
    <3>1. IsFiniteSet(DOMAIN users') /\ DOMAIN users' \subseteq Nat
      BY <1>1, <2>2, FS_AddElement DEF StoreInv
    <3>2. NamesAndKeysResolve'
      BY <1>1, <1>5, <2>2 DEF StoreInv, NamesAndKeysResolve
    <3> QED
      BY <1>1, <1>2, <1>5, <3>1, <3>2 DEF StoreInv
  <2>9. ClientInv'
    BY <1>1, <1>2, <1>5, <2>6 DEF ClientInv
  <2>10. RequestInv(reqs[r])'
    BY <1>1, <1>5, <2>3, <2>7, ReplyKeeps
  <2> QED
    BY <2>4, <2>7, <2>8, <2>9, <2>10, StepSuffices
<1> QED
  BY <1>3, <1>4, <1>5 DEF CreateUser

\* DeleteApiKey: the key is gone, and was asked to be.
LEMMA DeleteStep ==
  ASSUME Inv, NEW r \in Reqs, DeleteApiKey(r), UNCHANGED config
  PROVE  Inv'
<1>1. /\ reqs[r] \in Request /\ reqs[r].at = "handler" /\ reqs[r].kind = "deleteKey" /\ RequestInv(reqs[r])
      /\ StoreInv /\ ClientInv
  BY DEF Inv, DeleteApiKey
<1>2. UNCHANGED <<restarts, told, revoked>> /\ UNCHANGED <<AuthStrategy, Store>>
  BY DEF DeleteApiKey, config
<1>3. CASE QueryFails(r)
  BY <1>2, <1>3, QueryFailsStep
<1>4. CASE apiKeys' = Without(apiKeys, reqs[r].key) /\ Reply(r, "Created") /\ UNCHANGED <<users, issued>>
  <2>1. DOMAIN apiKeys' = DOMAIN apiKeys \ {reqs[r].key} /\ \A k \in DOMAIN apiKeys' : apiKeys'[k] = apiKeys[k]
    BY <1>4 DEF Without
  <2>2. "Created" \in Answers
    BY DEF Answers
  <2>3. /\ reqs' \in [Reqs -> Request] /\ KeepsAsking(r)
        /\ \A q \in Reqs \ {r} : reqs'[q] = reqs[q]
    BY <1>4, <2>2, ReplyFacts
  <2>4. reqs'[r].kind = "deleteKey" /\ reqs'[r].key = reqs[r].key
    BY <1>1, <2>3 DEF KeepsAsking
  <2>5. \A key : DeletionAsked(key) => DeletionAsked(key)'
    BY <2>3, AskedKept
  <2>6. DeletionAsked(reqs[r].key)'
    BY <2>4 DEF DeletionAsked
  <2>7. ASSUME NEW key, Alive(key) PROVE Alive(key)'
    <3>1. CASE key = reqs[r].key
      BY <2>4, <3>1 DEF Alive, DeletionAsked
    <3>2. CASE key # reqs[r].key
      BY <1>2, <2>1, <2>5, <2>7, <3>2 DEF Alive, Forgotten
    <3> QED
      BY <3>1, <3>2
  <2>8. \A key : (Gone(key) => Gone(key)') /\ (NeverNew(key) => NeverNew(key)')
    BY <1>2, <1>4, <2>1 DEF Gone, NeverNew, Forgotten
  <2>9. Grows
    BY <1>2, <1>4, <2>5, <2>7, <2>8 DEF Grows
  <2>10. StoreInv'
    BY <1>1, <1>2, <1>4, <2>1 DEF StoreInv, NamesAndKeysResolve
  <2>11. ClientInv'
    BY <1>1, <1>2, <1>4, <2>7, <2>8 DEF ClientInv
  <2>12. Gone(reqs[r].key)'
    BY <2>1, <2>4 DEF Gone
  <2>13. RequestInv(reqs[r])'
    BY <1>1, <1>4, <2>2, <2>9, <2>12, ReplyKeeps
  <2> QED
    BY <2>3, <2>9, <2>10, <2>11, <2>13, StepSuffices
<1> QED
  BY <1>3, <1>4 DEF DeleteApiKey

\* SaveKey: the secret was never a key before, so no deleted key comes back.
LEMMA SaveKeyStep ==
  ASSUME Inv, NEW r \in Reqs, SaveKey(r), UNCHANGED config
  PROVE  Inv'
<1>1. reqs[r] \in Request /\ reqs[r].at = "secret" /\ RequestInv(reqs[r]) /\ StoreInv /\ ClientInv
  BY DEF Inv, SaveKey
<1>2. UNCHANGED <<restarts, told, revoked>> /\ UNCHANGED <<AuthStrategy, Store>>
  BY DEF SaveKey, config
<1>3. CASE QueryFails(r)
  BY <1>2, <1>3, QueryFailsStep
<1>4. ASSUME NEW secret \in Secrets \ DOMAIN issued,
             apiKeys' = Extended(apiKeys, secret, reqs[r].found),
             issued' = Extended(issued, secret, reqs[r].found),
             reqs' = [reqs EXCEPT ![r] = [@ EXCEPT !.at = "reply", !.answer = "Created", !.key = secret]],
             UNCHANGED users
      PROVE  Inv'
  <2>1. reqs[r].kind = "createKey" /\ reqs[r].found \in DOMAIN users /\ reqs[r].found \in Nat
    BY <1>1 DEF RequestInv, ProgressInv, StoreInv
  <2>2. PICK new \in Request : new = [reqs[r] EXCEPT !.at = "reply", !.answer = "Created", !.key = secret]
    <3>1. [reqs[r] EXCEPT !.at = "reply", !.answer = "Created", !.key = secret] \in Request
      BY <1>1 DEF Request, Places, Answers, Keys
    <3> QED
      BY <3>1
  <2>3. /\ new.at = "reply" /\ new.answer = "Created" /\ new.key = secret /\ new.kind = "createKey"
        /\ new.header = reqs[r].header /\ new.user = reqs[r].user /\ new.good = reqs[r].good
        /\ new.dead = reqs[r].dead
    BY <1>1, <2>1, <2>2 DEF Request
  <2>4. /\ reqs' \in [Reqs -> Request] /\ reqs'[r] = new
        /\ \A q \in Reqs \ {r} : reqs'[q] = reqs[q]
    BY <1>4, <2>2 DEF Inv
  <2>5. KeepsAsking(r)
    BY <2>1 DEF KeepsAsking
  <2>6. /\ DOMAIN apiKeys' = DOMAIN apiKeys \cup {secret} /\ DOMAIN issued' = DOMAIN issued \cup {secret}
        /\ apiKeys'[secret] = reqs[r].found /\ issued'[secret] = reqs[r].found
        /\ secret \notin DOMAIN apiKeys
        /\ \A k \in DOMAIN apiKeys : apiKeys'[k] = apiKeys[k]
        /\ \A k \in DOMAIN issued : issued'[k] = issued[k]
    BY <1>1, <1>4 DEF Extended, StoreInv
  <2>7. \A key : DeletionAsked(key) => DeletionAsked(key)'
    BY <2>4, <2>5, AskedKept
  <2>8. \A key : Alive(key) => Alive(key)'
    BY <1>2, <2>6, <2>7 DEF Alive, Forgotten
  <2>9. \A key : (Gone(key) /\ NeverNew(key) => Gone(key)') /\ (NeverNew(key) => NeverNew(key)')
    BY <1>2, <2>6 DEF Gone, NeverNew, Forgotten
  <2>10. Grows
    BY <1>2, <1>4, <2>6, <2>7, <2>8, <2>9 DEF Grows
  <2>11. StoreInv'
    <3>1. NamesAndKeysResolve'
      BY <1>1, <1>4, <2>1, <2>6 DEF StoreInv, NamesAndKeysResolve
    <3>2. secret \notin API_KEYS
      BY KeysAssumption
    <3> QED
      BY <1>1, <1>2, <1>4, <2>1, <2>6, <3>1, <3>2 DEF StoreInv
  <2>12. ClientInv'
    BY <1>1, <1>2, <2>6, <2>8, <2>9 DEF ClientInv
  <2>13. Alive(secret)'
    BY <2>6 DEF Alive
  <2>14. RequestInv(reqs[r])'
    <3>1. Forgotten' <=> Forgotten
      BY <1>2 DEF Forgotten
    <3>2. Alive(reqs[r].key)'
      BY <2>3, <2>4, <2>6 DEF Alive
    <3>3. ProgressInv(reqs[r])'
      BY <2>3, <2>4, <2>6, <3>2 DEF ProgressInv
    <3>4. reqs[r].user # None
      BY <1>1 DEF RequestInv, ProgressInv
    <3>5. KnowledgeInv(reqs[r])'
      <4>1. KnowledgeInv(reqs[r])
        BY <1>1 DEF RequestInv
      <4>2. /\ reqs'[r].header = reqs[r].header /\ reqs'[r].user = reqs[r].user
            /\ reqs'[r].good = reqs[r].good /\ reqs'[r].dead = reqs[r].dead
        BY <2>3, <2>4
      <4>3. /\ InPrototype(reqs[r].header)' <=> InPrototype(reqs[r].header)
            /\ Undead(reqs[r].header)' <=> Undead(reqs[r].header)
        BY <1>2, <3>1, <4>2 DEF InPrototype, Undead
      <4> QED
        BY <1>2, <2>6, <3>4, <4>1, <4>2, <4>3 DEF KnowledgeInv
    <3> QED
      BY <3>3, <3>5 DEF RequestInv
  <2> QED
    BY <2>4, <2>10, <2>11, <2>12, <2>14, StepSuffices
<1> QED
  BY <1>3, <1>4 DEF SaveKey

\* What is left of a request that is over.
LEMMA OverFacts ==
  ASSUME NEW q \in Request, NEW place \in Places
  PROVE  /\ Over(q, place) \in Request
         /\ Over(q, place).at = place /\ Over(q, place).kind = q.kind /\ Over(q, place).key = q.key
         /\ Over(q, place).header = None /\ Over(q, place).user = None /\ Over(q, place).answer = None
         /\ Over(q, place).good = FALSE /\ Over(q, place).dead = FALSE
<1>1. NoRequest \in Request
  BY DEF NoRequest, Request, Places, Kinds
<1>2. [NoRequest EXCEPT !.at = place, !.kind = q.kind, !.key = q.key] \in Request
  BY <1>1 DEF Request
<1>3. /\ NoRequest.header = None /\ NoRequest.user = None /\ NoRequest.answer = None
      /\ NoRequest.good = FALSE /\ NoRequest.dead = FALSE
  BY DEF NoRequest
<1> QED
  BY <1>1, <1>2, <1>3 DEF Over, Request

\* Answer: the client is told what is so.
LEMMA AnswerStep ==
  ASSUME Inv, NEW r \in Reqs, Answer(r), UNCHANGED config
  PROVE  Inv'
<1>1. reqs[r] \in Request /\ reqs[r].at = "reply" /\ RequestInv(reqs[r]) /\ StoreInv /\ ClientInv
  BY DEF Inv, Answer
<1>2. UNCHANGED restarts /\ UNCHANGED <<AuthStrategy, Store>> /\ UNCHANGED <<users, apiKeys, issued>>
  BY DEF Answer, config, SameStore
<1>3. PICK p \in Request : p = Over(reqs[r], "answered")
  <2>1. "answered" \in Places
    BY DEF Places
  <2>2. Over(reqs[r], "answered") \in Request
    BY <1>1, <2>1, OverFacts
  <2> QED
    BY <2>2
<1>4. /\ p.at = "answered" /\ p.kind = reqs[r].kind /\ p.key = reqs[r].key /\ p.header = None
      /\ p.user = None /\ p.answer = None /\ p.good = FALSE /\ p.dead = FALSE
  <2>1. "answered" \in Places
    BY DEF Places
  <2> QED
    BY <1>1, <1>3, <2>1, OverFacts, Zenon
<1>5. reqs' \in [Reqs -> Request] /\ reqs'[r] = p /\ \A q \in Reqs \ {r} : reqs'[q] = reqs[q]
  BY <1>3 DEF Inv, Answer
<1>6. KeepsAsking(r)
  BY <1>4, <1>5 DEF KeepsAsking
<1>7. \A key : DeletionAsked(key) => DeletionAsked(key)'
  BY <1>5, <1>6, AskedKept
<1>8. \A key : (Alive(key) => Alive(key)') /\ (Gone(key) => Gone(key)') /\ (NeverNew(key) => NeverNew(key)')
  BY <1>2, <1>7 DEF Alive, Gone, NeverNew, Forgotten
<1>9. told \subseteq told' /\ revoked \subseteq revoked'
  BY DEF Answer
<1>10. Grows
  BY <1>2, <1>7, <1>8, <1>9 DEF Grows
<1>11. StoreInv'
  BY <1>1, <1>2 DEF StoreInv, NamesAndKeysResolve
<1>12. ClientInv'
  <2>1. ASSUME NEW key \in told' PROVE key \in Secrets /\ key \in DOMAIN issued /\ Alive(key)
    <3>1. CASE key \in told
      BY <1>1, <3>1 DEF ClientInv
    <3>2. CASE key \notin told
      <4>1. reqs[r].kind = "createKey" /\ reqs[r].answer = "Created" /\ key = reqs[r].key
        BY <2>1, <3>2 DEF Answer
      <4> QED
        BY <1>1, <4>1 DEF RequestInv, ProgressInv
    <3> QED
      BY <3>1, <3>2
  <2>2. ASSUME NEW key \in revoked' PROVE key \in Keys /\ Gone(key) /\ NeverNew(key)
    <3>1. CASE key \in revoked
      BY <1>1, <3>1 DEF ClientInv
    <3>2. CASE key \notin revoked
      <4>1. reqs[r].kind = "deleteKey" /\ reqs[r].answer = "Created" /\ key = reqs[r].key
        BY <2>2, <3>2 DEF Answer
      <4> QED
        BY <1>1, <4>1 DEF RequestInv, ProgressInv
    <3> QED
      BY <3>1, <3>2
  <2> QED
    BY <1>2, <1>8, <2>1, <2>2 DEF ClientInv
<1>13. RequestInv(p)
  <2>1. ProgressInv(p)
    BY <1>1, <1>4 DEF RequestInv, ProgressInv
  <2>2. KnowledgeInv(p)
    BY <1>4 DEF KnowledgeInv
  <2> QED
    BY <2>1, <2>2 DEF RequestInv
<1>14. RequestInv(p)'
  BY <1>10, <1>13, RequestKept
<1>15. RequestInv(reqs[r])'
  BY <1>5, <1>14 DEF RequestInv, ProgressInv, KnowledgeInv
<1> QED
  BY <1>5, <1>10, <1>11, <1>12, <1>15, StepSuffices

\* Restart: the local store forgets, and only the keys of API_KEYS come back.
LEMMA RestartStep ==
  ASSUME Inv, Restart, UNCHANGED config
  PROVE  Inv'
<1>1. StoreInv /\ ClientInv /\ ConfigInv /\ reqs \in [Reqs -> Request]
  BY DEF Inv
<1>2. UNCHANGED <<AuthStrategy, Store, issued, told, revoked>> /\ restarts' = restarts + 1
  BY DEF Restart, config
<1>3. ConfigInv'
  BY <1>1, <1>2 DEF ConfigInv
<1>4. Forgotten' <=> Store = "local"
  BY <1>1, <1>2 DEF ConfigInv, Forgotten
<1>5. ASSUME NEW r \in Reqs
      PROVE  /\ reqs'[r] \in Request /\ reqs'[r].kind = reqs[r].kind /\ reqs'[r].key = reqs[r].key
             /\ \/ reqs'[r] = reqs[r] /\ reqs[r].at \in {"idle", "answered"}
                \/ /\ reqs'[r].at = "lost" /\ reqs'[r].header = None /\ reqs'[r].user = None
                   /\ reqs'[r].answer = None /\ reqs'[r].good = FALSE /\ reqs'[r].dead = FALSE
  <2>1. CASE reqs[r].at \in {"idle", "answered"}
    BY <1>1, <2>1 DEF Restart
  <2>2. CASE reqs[r].at \notin {"idle", "answered"}
    <3>1. reqs'[r] = Over(reqs[r], "lost")
      BY <2>2 DEF Restart
    <3>2. "lost" \in Places /\ reqs[r] \in Request
      BY <1>1 DEF Places
    <3> DEFINE p == Over(reqs[r], "lost")
    <3>3. /\ p \in Request /\ p.at = "lost" /\ p.kind = reqs[r].kind /\ p.key = reqs[r].key
          /\ p.header = None /\ p.user = None /\ p.answer = None /\ p.good = FALSE /\ p.dead = FALSE
      BY <3>2, OverFacts, Zenon
    <3> HIDE DEF p
    <3> QED
      BY <3>1, <3>3 DEF p
  <2> QED
    BY <2>1, <2>2
<1>6. reqs' \in [Reqs -> Request]
  <2>1. reqs' = [r \in Reqs |-> reqs'[r]]
    BY DEF Restart
  <2> HIDE DEF Restart
  <2> QED
    BY <1>5, <2>1
<1>7. \A key : DeletionAsked(key) => DeletionAsked(key)'
  BY <1>5 DEF DeletionAsked
<1>8. \/ Store = "local" /\ users' = LocalUsers /\ apiKeys' = LocalKeys
      \/ Store = "postgres" /\ UNCHANGED <<users, apiKeys>>
  BY DEF Restart
<1>9. StoreInv'
  <2>1. CASE Store = "local" /\ users' = LocalUsers /\ apiKeys' = LocalKeys
    <3>1. DOMAIN users' = {0} /\ DOMAIN apiKeys' = API_KEYS /\ \A key \in API_KEYS : apiKeys'[key] = 0
      BY <2>1 DEF LocalUsers, LocalKeys, defaultUser
    <3>2. IsFiniteSet({0})
      BY FS_Singleton
    <3>3. NamesAndKeysResolve'
      BY <3>1 DEF NamesAndKeysResolve
    <3> QED
      BY <1>1, <1>2, <2>1, <3>1, <3>2, <3>3 DEF StoreInv, defaultUser
  <2>2. CASE Store = "postgres" /\ UNCHANGED <<users, apiKeys>>
    BY <1>1, <1>2, <2>2 DEF StoreInv, NamesAndKeysResolve
  <2> QED
    BY <1>8, <2>1, <2>2
<1>10. \A key : (Alive(key) => Alive(key)') /\ (Gone(key) => Gone(key)') /\ (NeverNew(key) => NeverNew(key)')
  <2>1. CASE Store = "local" /\ apiKeys' = LocalKeys
    BY <1>2, <1>4, <2>1 DEF Alive, Gone, NeverNew, LocalKeys
  <2>2. CASE Store = "postgres" /\ UNCHANGED apiKeys
    BY <1>2, <1>4, <1>7, <2>2 DEF Alive, Gone, NeverNew, Forgotten
  <2> QED
    BY <1>8, <2>1, <2>2
<1>11. ClientInv'
  BY <1>1, <1>2, <1>10 DEF ClientInv
<1>12. ASSUME NEW r \in Reqs PROVE RequestInv(reqs[r])'
  <2>1. RequestInv(reqs[r])
    BY DEF Inv
  <2>2. reqs'[r].kind = "deleteKey" => reqs'[r].key \in Keys /\ NeverNew(reqs[r].key)'
    BY <1>2, <1>5, <2>1 DEF RequestInv, ProgressInv, NeverNew
  <2>3. CASE reqs'[r] = reqs[r] /\ reqs[r].at \in {"idle", "answered"}
    <3>1. ProgressInv(reqs[r])'
      BY <1>2, <2>1, <2>2, <2>3 DEF RequestInv, ProgressInv
    <3>2. reqs[r].user = None /\ reqs[r].answer = None
      BY <2>1, <2>3 DEF RequestInv, ProgressInv
    <3>3. KnowledgeInv(reqs[r])'
      <4>1. None # "NotFound"
        BY KeysAssumption
      <4>2. KnowledgeInv(reqs[r])
        BY <2>1 DEF RequestInv
      <4>3. /\ reqs'[r].good => reqs'[r].header \in told' \cap Secrets
            /\ reqs'[r].dead => reqs'[r].header \in revoked'
        BY <1>2, <2>3, <4>2 DEF KnowledgeInv
      <4>4. reqs'[r].user = None /\ reqs'[r].answer = None
        BY <2>3, <3>2
      <4> QED
        BY <4>1, <4>3, <4>4 DEF KnowledgeInv
    <3> QED
      BY <3>1, <3>3 DEF RequestInv
  <2>4. CASE /\ reqs'[r].at = "lost" /\ reqs'[r].header = None /\ reqs'[r].user = None
             /\ reqs'[r].answer = None /\ reqs'[r].good = FALSE /\ reqs'[r].dead = FALSE
    <3>1. ProgressInv(reqs[r])'
      BY <2>2, <2>4 DEF ProgressInv
    <3>2. KnowledgeInv(reqs[r])'
      BY <2>4 DEF KnowledgeInv
    <3> QED
      BY <3>1, <3>2 DEF RequestInv
  <2> QED
    BY <1>5, <2>3, <2>4
<1> QED
  BY <1>3, <1>6, <1>9, <1>11, <1>12 DEF Inv

\* Every step keeps the invariant.
LEMMA NextInv == Inv /\ [Next]_vars => Inv'
<1> SUFFICES ASSUME Inv, [Next]_vars PROVE Inv'
  OBVIOUS
<1>1. ASSUME UNCHANGED config, NEW r \in Reqs, Receive(r) \/ Handle(r) PROVE Inv'
  BY <1>1, ReceiveStep, GuardStep, ValidateStep, CreateUserStep, FindStep, SaveKeyStep, DeleteStep,
     OtherStep, AnswerStep DEF Handle
<1>2. CASE UNCHANGED vars
  BY <1>2 DEF vars, config, Inv, ConfigInv, StoreInv, NamesAndKeysResolve, ClientInv, RequestInv,
     ProgressInv, KnowledgeInv, Alive, Gone, NeverNew, Forgotten, DeletionAsked, InPrototype, Undead
<1> QED
  BY <1>1, <1>2, RestartStep DEF Next

LEMMA AlwaysInv == Spec => []Inv
BY InitInv, NextInv, PTL DEF Spec

\* For any number of requests: a user name belongs to one user and every valid key to
\* a user that exists, although createApiKey awaits between the two.
THEOREM NamesAndKeysResolveHolds == Spec => []NamesAndKeysResolve
<1>1. Inv => NamesAndKeysResolve
  BY DEF Inv, StoreInv
<1> QED
  BY <1>1, AlwaysInv, PTL

\* With the apiKey strategy, a request that has the header acts as the user its key was
\* issued to or not at all, whatever other strategies are configured; an inherited name
\* is let in on the local store, as no user.
THEOREM KeyDecidesUserHolds == Spec => []KeyDecidesUser
<1>1. Inv => KeyDecidesUser
  BY DEF Inv, RequestInv, KnowledgeInv, KeyDecidesUser
<1> QED
  BY <1>1, AlwaysInv, PTL

\* A key that a client was told to be deleted authenticates no later request, except on
\* the local store a key of API_KEYS after a restart, and an inherited name.
THEOREM DeletedKeyIsDeadHolds == Spec => []DeletedKeyIsDead
<1>1. Inv => DeletedKeyIsDead
  BY DEF Inv, RequestInv, KnowledgeInv, DeletedKeyIsDead
<1> QED
  BY <1>1, AlwaysInv, PTL

\* A key that a client was told to be created is refused only if somebody asked to
\* delete it or the local store was restarted.
THEOREM CreatedKeyWorksHolds == Spec => []CreatedKeyWorks
<1>1. Inv => CreatedKeyWorks
  BY DEF Inv, RequestInv, KnowledgeInv, CreatedKeyWorks
<1> QED
  BY <1>1, AlwaysInv, PTL
=============================================================================
