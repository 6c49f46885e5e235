---------------------------- MODULE SessionProofs ----------------------------
(* Theorems about Session, for any number of users, requests and logins. *)
EXTENDS Session, TLAPS

\* A request outside a session is the second half of createAndAdd; the server
\* refuses a token only after it has expired.
Known(x, gone) ==
    x # Nil =>
        /\ x.token = Nil => x.op = "add"
        /\ x.code # 0 => x.stage = "served"
        /\ x.code = 401 /\ x.op # "login" => x.token = Nil \/ x.token \in gone

IInv ==
    /\ TypeOK
    /\ page = "shell" => token # Nil
    /\ \A r \in Requests : Known(req[r], expired)

LEMMA InitInv == Init => IInv
  BY BoundsAssumption
  DEF Init, IInv, TypeOK, Known, NoQuery, Query

-----------------------------------------------------------------------------
\* The operators that send requests and renew the list keep both well-formed.
LEMMA SentType ==
  ASSUME NEW rs \in [Requests -> Request \cup {Nil}], NEW r \in Requests,
         NEW op \in {"login", "list", "create", "add"}, NEW t \in Token \cup {Nil}
  PROVE  Sent(rs, r, op, t) \in [Requests -> Request \cup {Nil}]
  BY DEF Sent, Request

LEMMA AskType ==
  ASSUME NEW rs \in [Requests -> Request \cup {Nil}], NEW q \in Query,
         token' \in Token \cup {Nil}, Ask(rs, q)
  PROVE  /\ req' \in [Requests -> Request \cup {Nil}]
         /\ query' \in Query
<1>1. PICK r \in Unused(rs) :
          /\ req' = Sent(rs, r, "list", token')
          /\ query' = [q EXCEPT !.stage = "first", !.request = r, !.outdated = FALSE]
  BY DEF Ask
<1>2. r \in Requests
  BY DEF Unused
<1>3. query' \in Query
  BY <1>1, <1>2 DEF Query
<1> QED
  BY <1>1, <1>2, <1>3, SentType

LEMMA JoinType ==
  ASSUME NEW rs \in [Requests -> Request \cup {Nil}], NEW q \in Query, Join(rs, q)
  PROVE  /\ req' \in [Requests -> Request \cup {Nil}]
         /\ query' \in Query
<1> DEFINE o == \/ q.outdated
                \/ q.request # Nil /\ (q.invalid \/ rs[q.request].token # token')
<1>1. req' = rs /\ query' = [q EXCEPT !.outdated = o]
  BY DEF Join
<1>2. o \in BOOLEAN
  BY Zenon DEF Query
<1> HIDE DEF o
<1> QED
  BY <1>1, <1>2 DEF Query
LEMMA MountType ==
  ASSUME NEW rs \in [Requests -> Request \cup {Nil}], NEW q \in Query,
         token' \in Token \cup {Nil}, Mount(rs, q)
  PROVE  /\ req' \in [Requests -> Request \cup {Nil}]
         /\ query' \in Query
  BY AskType, JoinType DEF Mount

LEMMA InvalidateType ==
  ASSUME NEW rs \in [Requests -> Request \cup {Nil}], NEW q \in Query,
         token' \in Token \cup {Nil}, Invalidate(rs, q)
  PROVE  /\ req' \in [Requests -> Request \cup {Nil}]
         /\ query' \in Query
<1> DEFINE marked == [q EXCEPT !.invalid = TRUE]
<1>1. marked \in Query
  BY DEF Query
<1>2. \/ req' = rs /\ query' = marked
      \/ Ask(rs, marked)
      \/ Join(rs, marked)
  BY DEF Invalidate
<1> HIDE DEF marked
<1> QED
  BY <1>1, <1>2, AskType, JoinType

LEMMA FailedType ==
  ASSUME TypeOK, NEW r \in Requests, Failed(r)
  PROVE  query' \in Query
  BY DEF TypeOK, Failed, Query

\* Requests that are sent in a session know what they should.
LEMMA SentKnown ==
  ASSUME NEW rs, rs \in [Requests -> Request \cup {Nil}], NEW gone,
         \A r \in Requests : Known(rs[r], gone),
         NEW r \in Requests, NEW op, NEW t, t # Nil \/ op = "add"
  PROVE  \A s \in Requests : Known(Sent(rs, r, op, t)[s], gone)
  BY DEF Sent, Known

LEMMA RenewKnown ==
  ASSUME NEW rs \in [Requests -> Request \cup {Nil}], NEW gone,
         \A r \in Requests : Known(rs[r], gone), NEW q,
         \/ token' # Nil /\ Mount(rs, q)
         \/ (page = "shell" => token' # Nil) /\ page \in {"login", "shell"} /\ Invalidate(rs, q)
  PROVE  \A r \in Requests : Known(req'[r], gone)
<1>1. ASSUME NEW p, Ask(rs, p), token' # Nil
      PROVE  \A r \in Requests : Known(req'[r], gone)
  BY <1>1, SentKnown DEF Ask, Unused
<1>2. ASSUME NEW p, Join(rs, p)
      PROVE  \A r \in Requests : Known(req'[r], gone)
  BY <1>2 DEF Join
<1> QED
  BY <1>1, <1>2 DEF Mount, Invalidate

\* An answered or abandoned request leaves the others alone.
LEMMA OverKnown ==
  ASSUME TypeOK, \A r \in Requests : Known(req[r], expired), NEW r \in Requests
  PROVE  /\ Over(r) \in [Requests -> Request \cup {Nil}]
         /\ \A s \in Requests : Known(Over(r)[s], expired)
  BY DEF TypeOK, Over, Known

-----------------------------------------------------------------------------
\* One action after the other.
LEMMA UserStep ==
  ASSUME IInv, Submit \/ Back \/ Forward \/ Logout \/ MountMore \/ Create
  PROVE  IInv'
<1> USE DEF IInv, TypeOK
<1>1. CASE Submit
  <2>1. logins' \in 1..MaxLogins
    BY <1>1, BoundsAssumption DEF Submit
  <2>2. PICK r \in Requests, u \in Users :
            /\ req' = Sent(req, r, "login", [user |-> u, login |-> logins'])
            /\ loading' = r
    BY <1>1 DEF Submit, Unused
  <2>3. [user |-> u, login |-> logins'] \in Token
    BY <2>1 DEF Token
  <2>4. [user |-> u, login |-> logins'] # Nil
    BY <2>3, NilAssumption
  <2>5. req' \in [Requests -> Request \cup {Nil}]
    BY <2>2, <2>3, SentType
  <2>6. \A s \in Requests : Known(req'[s], expired)
    BY <2>2, <2>4, SentKnown
  <2> QED
    BY <1>1, <2>1, <2>2, <2>5, <2>6 DEF Submit
<1>2. CASE Back \/ Logout
  BY <1>2 DEF Back, Logout
<1>3. CASE Forward
  BY <1>3, MountType, RenewKnown DEF Forward
<1>4. CASE MountMore
  BY <1>4, MountType, RenewKnown DEF MountMore
<1>5. CASE Create
  <2>1. PICK r \in Requests : req' = Sent(req, r, "create", token)
    BY <1>5 DEF Create, Unused
  <2>2. token # Nil
    BY <1>5 DEF Create
  <2>3. req' \in [Requests -> Request \cup {Nil}]
    BY <2>1, SentType
  <2>4. \A s \in Requests : Known(req'[s], expired)
    BY <2>1, <2>2, SentKnown
  <2> QED
    BY <1>5, <2>3, <2>4 DEF Create
<1> QED
  BY <1>1, <1>2, <1>3, <1>4, <1>5

LEMMA AskerKnown ==
  ASSUME NEW x \in Request, NEW gone, Known(x, gone), x # Nil,
         x.op \in {"list", "create"}
  PROVE  x.token.user \in Users
<1>1. x.token \in Token
  BY DEF Known, Request
<1> QED
  BY <1>1 DEF Token

LEMMA ServeStep ==
  ASSUME IInv, NEW r \in Requests, Serve(r)
  PROVE  IInv'
<1> USE DEF IInv, TypeOK
<1>1. PICK code \in Codes(r) :
          LET u == req[r].token.user
              created == req[r].op = "create" /\ code = 200
              list == IF req[r].op # "list" \/ code # 200 THEN Nil
                      ELSE [owner |-> u, version |-> version[u]]
          IN  /\ req' = IF req[r].stage = "abandoned" THEN Over(r)
                        ELSE [req EXCEPT ![r] =
                            [op |-> @.op, token |-> @.token, stage |-> "served",
                             code |-> code, list |-> list]]
              /\ version' = IF created THEN [version EXCEPT ![u] = @ + 1] ELSE version
              /\ query' = [query EXCEPT
                     !.outdated = @ \/ (created /\ req[r].stage = "abandoned")]
  BY DEF Serve
<1>2. /\ code \in {200, 401, 403, 500}
      /\ code = 401 /\ req[r].op # "login" => req[r].token = Nil \/ req[r].token \in expired
  BY DEF Codes, Accepted
<1>3. req[r] \in Request /\ Known(req[r], expired)
  BY DEF Serve
<1>4. req[r].op \in {"list", "create"} => req[r].token.user \in Users
  BY <1>3, AskerKnown DEF Serve
<1>5. version' \in [Users -> Nat]
  BY <1>1, <1>4
<1>6. query' \in Query
  <2> DEFINE o == \/ query.outdated
                  \/ /\ req[r].op = "create" /\ code = 200
                     /\ req[r].stage = "abandoned"
  <2>1. o \in BOOLEAN
    BY Zenon DEF Query
  <2>2. query' = [query EXCEPT !.outdated = o]
    BY <1>1
  <2> HIDE DEF o
  <2> QED
    BY <2>1, <2>2 DEF Query
<1>7. /\ req' \in [Requests -> Request \cup {Nil}]
      /\ \A s \in Requests : Known(req'[s], expired)
  <2>1. CASE req[r].stage = "abandoned"
    BY <1>1, <2>1, OverKnown
  <2>2. CASE req[r].stage # "abandoned"
    <3> DEFINE l == IF req[r].op # "list" \/ code # 200 THEN Nil
                    ELSE [owner |-> req[r].token.user, version |-> version[req[r].token.user]]
               x == [op |-> req[r].op, token |-> req[r].token, stage |-> "served",
                     code |-> code, list |-> l]
    <3>1. l \in List \cup {Nil}
      BY <1>4 DEF List
    <3>2. req' = [req EXCEPT ![r] = x]
      BY <1>1, <2>2
    <3> HIDE DEF l
    <3>3. /\ x \in Request
          /\ x.token = req[r].token /\ x.op = req[r].op /\ x.stage = "served" /\ x.code = code
      BY <1>2, <1>3, <3>1 DEF Request
    <3>5. Known(x, expired)
      BY <1>2, <1>3, <3>3 DEF Known, Serve
    <3> QED
      BY <3>2, <3>3, <3>5
  <2> QED
    BY <2>1, <2>2
<1> QED
  BY <1>5, <1>6, <1>7 DEF Serve
LEMMA ReceiveStep ==
  ASSUME IInv, NEW r \in Requests, Receive(r)
  PROVE  IInv'
<1> USE DEF IInv, TypeOK
<1>0. /\ Over(r) \in [Requests -> Request \cup {Nil}]
      /\ \A s \in Requests : Known(Over(r)[s], expired)
      /\ req[r] \in Request /\ req[r] # Nil /\ Known(req[r], expired)
  BY OverKnown DEF Receive
<1>1. UNCHANGED <<logins, expired, version>>
  BY DEF Receive
<1>2. CASE Refused(r)
  BY <1>0, <1>1, <1>2, FailedType DEF Refused
<1>3. CASE LoggedIn(r)
  <2>1. token' \in Token /\ token' # Nil
    BY <1>0, <1>3 DEF LoggedIn, Known, Request
  <2>2. CASE page = "login"
    <3>1. Mount(Over(r), query)
      BY <1>3, <2>2 DEF LoggedIn
    <3> QED
      BY <1>0, <1>1, <1>3, <2>1, <3>1, MountType, RenewKnown DEF LoggedIn
  <2>3. CASE page # "login"
    <3>1. query' = [query EXCEPT !.outdated = TRUE] /\ req' = Over(r)
      BY <1>3, <2>3 DEF LoggedIn
    <3>2. query' \in Query
      BY <3>1 DEF Query
    <3> QED
      BY <1>0, <1>1, <1>3, <2>1, <3>1, <3>2 DEF LoggedIn
  <2> QED
    BY <2>2, <2>3
<1>4. CASE GotList(r)
  <2>1. query' \in Query
    <3>1. req[r].list \in List \cup {Nil}
      BY <1>0 DEF Request
    <3>2. \/ query' = query
          \/ query' = [query EXCEPT !.data = req[r].list, !.request = Nil,
                                   !.stage = "idle", !.invalid = FALSE]
      BY <1>4 DEF GotList
    <3> QED
      BY <3>1, <3>2 DEF Query
  <2> QED
    BY <1>0, <1>1, <1>4, <2>1 DEF GotList
<1>5. CASE Created(r)
  <2>1. UNCHANGED <<token, page, loading>>
    BY <1>5 DEF Created
  <2>2. PICK rs \in [Requests -> Request \cup {Nil}] :
            /\ \A s \in Requests : Known(rs[s], expired)
            /\ Invalidate(rs, query)
    <3>1. CASE Invalidate(Over(r), query)
      BY <1>0, <3>1
    <3>2. ASSUME NEW a \in Requests, Invalidate(Sent(Over(r), a, "add", token), query)
          PROVE  \E rs \in [Requests -> Request \cup {Nil}] :
                     /\ \A s \in Requests : Known(rs[s], expired)
                     /\ Invalidate(rs, query)
      <4>1. Sent(Over(r), a, "add", token) \in [Requests -> Request \cup {Nil}]
        BY <1>0, SentType
      <4>2. \A s \in Requests : Known(Sent(Over(r), a, "add", token)[s], expired)
        BY <1>0, SentKnown
      <4> QED
        BY <3>2, <4>1, <4>2
    <3> QED
      BY <1>5, <3>1, <3>2 DEF Created, Unused
  <2>3. /\ req' \in [Requests -> Request \cup {Nil}]
        /\ query' \in Query
    BY <2>1, <2>2, InvalidateType
  <2>4. \A s \in Requests : Known(req'[s], expired)
    BY <2>1, <2>2, RenewKnown
  <2> QED
    BY <1>1, <2>1, <2>3, <2>4
<1>6. CASE Other(r)
  BY <1>0, <1>1, <1>6, FailedType DEF Other
<1> QED
  BY <1>2, <1>3, <1>4, <1>5, <1>6 DEF Receive

LEMMA GiveUpStep ==
  ASSUME IInv, NEW r \in Requests, GiveUp(r)
  PROVE  IInv'
<1> USE DEF IInv, TypeOK
<1>0. /\ Over(r) \in [Requests -> Request \cup {Nil}]
      /\ \A s \in Requests : Known(Over(r)[s], expired)
      /\ req[r] \in Request /\ Known(req[r], expired)
  BY OverKnown DEF GiveUp
<1>1. query' \in Query
  <2>1. CASE req[r].op = "create" /\ req[r].code = 200
    <3>1. query' = [query EXCEPT !.outdated = TRUE]
      BY <2>1 DEF GiveUp
    <3> QED
      BY <3>1 DEF Query
  <2>2. CASE ~(req[r].op = "create" /\ req[r].code = 200)
    BY <2>2, FailedType DEF GiveUp
  <2> QED
    BY <2>1, <2>2
<1>2. /\ req' \in [Requests -> Request \cup {Nil}]
      /\ \A s \in Requests : Known(req'[s], expired)
  <2>1. CASE req' = Over(r)
    BY <1>0, <2>1
  <2>2. CASE req[r].stage = "sent" /\ req' = [req EXCEPT ![r].stage = "abandoned"]
    <3>1. [req[r] EXCEPT !.stage = "abandoned"] \in Request
      BY <1>0 DEF Request
    <3>2. req[r].code = 0
      BY <1>0, <2>2 DEF Known, GiveUp
    <3>3. Known([req[r] EXCEPT !.stage = "abandoned"], expired)
      BY <1>0, <3>1, <3>2 DEF Known, Request, GiveUp
    <3> QED
      BY <2>2, <3>1, <3>3
  <2> QED
    BY <2>1, <2>2 DEF GiveUp
<1> QED
  BY <1>1, <1>2 DEF GiveUp

LEMMA TimerStep ==
  ASSUME IInv, Expire \/ RetryDue \/ Forget
  PROVE  IInv'
<1> USE DEF IInv, TypeOK
<1>1. CASE Expire
  BY <1>1 DEF Expire, Known
<1>2. CASE RetryDue
  <2>1. query' \in Query
    BY <1>2 DEF RetryDue, Query, Unused
  <2>2. CASE page = "shell"
    <3>1. PICK r \in Requests : req' = Sent(req, r, "list", token)
      BY <1>2, <2>2 DEF RetryDue, Unused
    <3>2. /\ req' \in [Requests -> Request \cup {Nil}]
          /\ \A s \in Requests : Known(req'[s], expired)
      BY <2>2, <3>1, SentType, SentKnown
    <3> QED
      BY <1>2, <2>1, <3>2 DEF RetryDue
  <2> QED
    BY <1>2, <2>1, <2>2 DEF RetryDue
<1>3. CASE Forget
  BY <1>3 DEF Forget, NoQuery, Query
<1> QED
  BY <1>1, <1>2, <1>3

-----------------------------------------------------------------------------
(* Theorems. *)

LEMMA Invariance == Spec => []IInv
<1>1. IInv /\ [Next]_vars => IInv'
  <2> SUFFICES ASSUME IInv, [Next]_vars
               PROVE  IInv'
    OBVIOUS
  <2>1. CASE UNCHANGED vars
    BY <2>1 DEF vars, IInv, TypeOK
  <2> QED
    BY <2>1, UserStep, ServeStep, ReceiveStep, GiveUpStep, TimerStep DEF Next
<1> QED
  BY InitInv, <1>1, PTL DEF Spec

\* Type correctness of the tab, of what it caches and of what it has sent.
THEOREM TypeCorrect == Spec => []TypeOK
<1>1. IInv => TypeOK
  BY DEF IInv
<1> QED
  BY Invariance, <1>1, PTL

\* The guard holds, and requests are sent in a session, for any number of users,
\* logins and requests under way; only createAndAdd may go on outside of one.
THEOREM RequestsBelongToSessions == Spec => []AskedInSession
<1>1. IInv => AskedInSession
  BY DEF IInv, Known, AskedInSession
<1> QED
  BY Invariance, <1>1, PTL

\* No answer ends a session but that of a login, a refusal of a token that the
\* session does not use, or one of its own token once it has expired.
THEOREM SessionsEndForCause == Spec => SessionEndsForCause
<1> DEFINE Cause ==
             \/ Logout
             \/ \E r \in Requests :
                    /\ req[r] # Nil /\ req[r].stage = "served" /\ req'[r] # req[r]
                    /\ \/ req[r].op = "login"
                       \/ /\ req[r].code = 401
                          /\ req[r].token # token \/ token \in expired
<1>1. IInv /\ [Next]_vars => [token # Nil /\ token' # token => Cause]_vars
  <2> SUFFICES ASSUME IInv, Next, token # Nil, token' # token
               PROVE  Cause
    OBVIOUS
  <2>1. CASE Logout
    BY <2>1
  <2>2. CASE ~Logout
    <3>1. PICK r \in Requests : Receive(r) /\ (Refused(r) \/ LoggedIn(r))
      BY <2>2 DEF Next, Submit, Back, Forward, MountMore, Create, Serve, Receive, GotList,
         Created, Other, GiveUp, Expire, RetryDue, Forget
    <3>2. req' = Over(r) \/ LoggedIn(r)
      BY <3>1 DEF Refused
    <3>3. req[r] # Nil /\ req[r].stage = "served"
      BY <3>1 DEF Receive
    <3>4. CASE LoggedIn(r)
      <4>1. req[r].op = "login" /\ Over(r)[r] = Nil
        BY <3>4 DEF LoggedIn, Over, IInv, TypeOK
      <4>2. ASSUME NEW s \in Requests, req' = Sent(Over(r), s, "list", token')
            PROVE  req'[r] # req[r]
        <5>1. CASE s = r
          BY <4>1, <4>2, <5>1 DEF Sent, Over, IInv, TypeOK
        <5>2. CASE s # r
          BY <3>3, <4>1, <4>2, <5>2 DEF Sent, Over, IInv, TypeOK
        <5> QED
          BY <5>1, <5>2
      <4>3. req' = Over(r) => req'[r] # req[r]
        BY <3>3, <4>1
      <4> QED
        BY <3>3, <3>4, <4>1, <4>2, <4>3 DEF LoggedIn, Mount, Ask, Join, Unused
    <3>5. CASE Refused(r)
      BY <3>3, <3>5 DEF Refused, Over, IInv, TypeOK, Known
    <3> QED
      BY <3>1, <3>4, <3>5
  <2> QED
    BY <2>1, <2>2
<1> QED
  BY Invariance, <1>1, PTL DEF Spec, SessionEndsForCause
-----------------------------------------------------------------------------
(* The list on display. *)

\* A create of u has taken effect, and the tab is about to be told.
Done(u) ==
    \E r \in Requests :
        /\ req[r] # Nil /\ req[r].op = "create" /\ req[r].stage = "served"
        /\ req[r].code = 200 /\ req[r].token.user = u

Fresh(list, u) ==
    list # Nil /\ list.owner = u /\ (list.version = version[u] \/ Done(u))

FetchKnown ==
    /\ query.request # Nil <=> query.stage \in {"first", "second"}
    /\ query.request # Nil =>
           /\ req[query.request] # Nil /\ req[query.request].op = "list"
           /\ req[query.request].stage \in {"sent", "served"}

\* The list on display is fresh, and so is the one that a fetch brings if it goes
\* on display without another fetch; that fetch carries the session's token.
ListKnown ==
    ~query.outdated =>
        /\ page = "shell" /\ query.stage = "idle" /\ query.data # Nil =>
               Fresh(query.data, token.user)
        /\ query.request # Nil =>
               LET x == req[query.request]
               IN  /\ page = "shell" => x.token = token
                   /\ /\ page = "shell" \/ ~query.invalid
                      /\ x.stage = "served" /\ x.code = 200
                      => Fresh(x.list, x.token.user)

LInv == FetchKnown /\ ListKnown

LEMMA InitList == Init => LInv
  BY DEF Init, LInv, FetchKnown, ListKnown, NoQuery

\* A new fetch is all that is needed.
LEMMA AskList ==
  ASSUME NEW rs \in [Requests -> Request \cup {Nil}], NEW q \in Query, Ask(rs, q),
         token' \in Token \cup {Nil}
  PROVE  LInv'
<1>1. PICK r \in Requests :
          /\ req' = Sent(rs, r, "list", token')
          /\ query' = [q EXCEPT !.stage = "first", !.request = r, !.outdated = FALSE]
  BY DEF Ask, Unused
<1>2. r # Nil
  BY NilAssumption
<1>3. query'.stage = "first" /\ query'.request = r
  BY <1>1 DEF Query
<1>4. /\ req'[r].op = "list" /\ req'[r].token = token' /\ req'[r].stage = "sent"
  BY <1>1 DEF Sent
<1>5. req'[r] # Nil
  <2>1. req'[r] = [op |-> "list", token |-> token', stage |-> "sent", code |-> 0,
                   list |-> Nil]
    BY <1>1 DEF Sent
  <2>2. req'[r] \in Request
    BY <2>1 DEF Request
  <2> QED
    BY <2>2, NilAssumption
<1> QED
  BY <1>2, <1>3, <1>4, <1>5 DEF LInv, FetchKnown, ListKnown

\* A list stays fresh as long as it takes a pending create to make it old.
LEMMA FreshStays ==
  ASSUME \A u \in Users : Done(u) => Done(u)',
         \A u \in Users : version'[u] = version[u] \/ Done(u)',
         NEW u \in Users, NEW list, Fresh(list, u)
  PROVE  list # Nil /\ list.owner = u /\ (list.version = version'[u] \/ Done(u)')
  BY DEF Fresh

\* A component that joins a fetch gets a fresh list, or the cache is outdated.
LEMMA JoinList ==
  ASSUME IInv, LInv, NEW rs \in [Requests -> Request \cup {Nil}],
         NEW q \in Query, q.stage = query.stage, q.request = query.request,
         q.outdated = query.outdated, query.invalid => q.invalid,
         Join(rs, q), q.stage # "idle", version' = version,
         query.request # Nil => rs[query.request] = req[query.request],
         q.invalid \/ \A u \in Users : Done(u) => Done(u)'
  PROVE  LInv'
<1> DEFINE o == \/ q.outdated
                \/ q.request # Nil /\ (q.invalid \/ rs[q.request].token # token')
<1>1. req' = rs /\ query' = [q EXCEPT !.outdated = o]
  BY DEF Join
<1>2. /\ query'.stage = query.stage /\ query'.request = query.request
      /\ query'.outdated = o
  BY <1>1 DEF Query
<1>3. FetchKnown'
  BY <1>1, <1>2 DEF LInv, FetchKnown
<1>4. ASSUME ~o, query.request # Nil, NEW x, x = rs[query.request]
      PROVE  /\ x.token = token'
             /\ x.stage = "served" /\ x.code = 200 => Fresh(x.list, x.token.user)'
  <2>1. query.request \in Requests /\ req[query.request] \in Request
    BY <1>4 DEF IInv, TypeOK, Query, LInv, FetchKnown
  <2>2. x = req[query.request] /\ x.op = "list" /\ x # Nil /\ Known(x, expired)
    BY <1>4, <2>1 DEF LInv, FetchKnown, IInv
  <2>3. x.token = token' /\ ~q.invalid /\ ~query.outdated
    BY <1>4
  <2>4. x.token.user \in Users
    BY <2>1, <2>2, AskerKnown
  <2>5. x.stage = "served" /\ x.code = 200 => Fresh(x.list, x.token.user)
    BY <1>4, <2>2, <2>3 DEF LInv, ListKnown
  <2>6. ASSUME x.stage = "served", x.code = 200
        PROVE  Fresh(x.list, x.token.user)'
    BY <2>3, <2>4, <2>5, <2>6, FreshStays DEF Fresh
  <2> QED
    BY <2>3, <2>6
<1> HIDE DEF o
<1>5. ListKnown'
  BY <1>1, <1>2, <1>4 DEF ListKnown
<1> QED
  BY <1>3, <1>5 DEF LInv
\* A step that has nothing to do with the list or its fetch.
LEMMA OtherList ==
  ASSUME IInv, LInv, query'.stage = query.stage, query'.request = query.request,
         query'.data = query.data, query'.invalid = query.invalid,
         query.outdated => query'.outdated,
         (page' = page /\ token' = token) \/ page' = "login",
         query.request # Nil => req'[query.request] = req[query.request],
         query'.outdated \/ \A u \in Users : Done(u) => Done(u)',
         query'.outdated \/ \A u \in Users : version'[u] = version[u] \/ Done(u)'
  PROVE  LInv'
<1>1. FetchKnown'
  BY DEF LInv, FetchKnown
<1>2. ASSUME ~query'.outdated, page' = "shell", query.stage = "idle", query.data # Nil
      PROVE  Fresh(query.data, token.user)'
  <2>1. token.user \in Users /\ token' = token
    BY <1>2 DEF IInv, TypeOK, Token
  <2>2. Fresh(query.data, token.user)
    BY <1>2 DEF LInv, ListKnown
  <2> QED
    BY <1>2, <2>1, <2>2, FreshStays DEF Fresh
<1>3. ASSUME ~query'.outdated, query.request # Nil, NEW x, x = req[query.request]
      PROVE  /\ page' = "shell" => x.token = token'
             /\ (page' = "shell" \/ ~query.invalid) /\ x.stage = "served" /\ x.code = 200
                    => Fresh(x.list, x.token.user)'
  <2>1. query.request \in Requests /\ x \in Request
    BY <1>3 DEF IInv, TypeOK, Query, LInv, FetchKnown
  <2>2. x.op = "list" /\ x # Nil /\ Known(x, expired)
    BY <1>3, <2>1 DEF LInv, FetchKnown, IInv
  <2>3. x.token.user \in Users
    BY <2>1, <2>2, AskerKnown
  <2>4. /\ page = "shell" => x.token = token
        /\ (page = "shell" \/ ~query.invalid) /\ x.stage = "served" /\ x.code = 200
               => Fresh(x.list, x.token.user)
    BY <1>3 DEF LInv, ListKnown
  <2>5. ASSUME Fresh(x.list, x.token.user)
        PROVE  Fresh(x.list, x.token.user)'
    BY <1>3, <2>3, <2>5, FreshStays DEF Fresh
  <2> QED
    BY <2>4, <2>5
<1>4. ListKnown'
  BY <1>2, <1>3 DEF ListKnown
<1> QED
  BY <1>1, <1>4 DEF LInv

\* Sending into a free slot loses nothing.
LEMMA DoneStays ==
  ASSUME IInv, NEW r \in Requests,
         req[r] = Nil \/ ~(/\ req[r].op = "create" /\ req[r].stage = "served"
                           /\ req[r].code = 200),
         \A s \in Requests \ {r} : req'[s] = req[s],
         NEW u \in Users, Done(u)
  PROVE  Done(u)'
  BY DEF Done

LEMMA SendList ==
  ASSUME IInv, LInv, NEW r \in Unused(req), NEW op, NEW t, req' = Sent(req, r, op, t),
         UNCHANGED <<query, version, page, token>>
  PROVE  LInv'
<1>1. \A s \in Requests \ {r} : req'[s] = req[s]
  BY DEF Sent, IInv, TypeOK
<1>2. r \in Requests /\ req[r] = Nil
  BY DEF Unused
<1>3. \A u \in Users : Done(u) => Done(u)'
  BY <1>1, <1>2, DoneStays
<1>4. query.request # Nil => query.request \in Requests \ {r}
  BY <1>2 DEF LInv, FetchKnown, IInv, TypeOK, Query
<1> QED
  BY <1>1, <1>3, <1>4, OtherList

\* A request ends without an effect on the list, or was the fetch itself.
LEMMA FailedList ==
  ASSUME IInv, LInv, NEW r \in Requests, Failed(r), req' = Over(r),
         UNCHANGED version,
         req[r].code # 200 \/ req[r].op # "create",
         (page' = page /\ token' = token) \/ page' = "login"
  PROVE  LInv'
<1>1. \A s \in Requests \ {r} : req'[s] = req[s]
  BY DEF Over, IInv, TypeOK
<1>2. \A u \in Users : Done(u) => Done(u)'
  BY <1>1, DoneStays
<1>3. CASE r # query.request
  <2>1. query.request # Nil => query.request \in Requests \ {r}
    BY <1>3 DEF IInv, TypeOK, Query
  <2> QED
    BY <1>1, <1>2, <1>3, <2>1, OtherList DEF Failed
<1>4. CASE r = query.request
  <2>1. \/ query' = [query EXCEPT !.stage = "waiting", !.request = Nil]
        \/ query' = [query EXCEPT !.stage = "idle", !.request = Nil, !.outdated = TRUE]
    BY <1>4 DEF Failed
  <2>2. /\ query'.request = Nil
        /\ query'.stage = "waiting" \/ (query'.stage = "idle" /\ query'.outdated)
    <3>1. query \in Query
      BY DEF IInv, TypeOK
    <3> QED
      BY <2>1, <3>1 DEF Query
  <2> QED
    BY <2>2 DEF LInv, FetchKnown, ListKnown
<1> QED
  BY <1>3, <1>4

LEMMA MountList ==
  ASSUME IInv, LInv, token' \in Token \cup {Nil}, Mount(req, query), version' = version
  PROVE  LInv'
<1>1. CASE query.stage = "idle"
  BY <1>1, AskList DEF IInv, TypeOK, Mount
<1>2. CASE query.stage # "idle"
  <2>1. Join(req, query) /\ req' = req
    BY <1>2 DEF Mount, Join
  <2>2. \A u \in Users : Done(u) => Done(u)'
    BY <2>1 DEF Done
  <2> QED
    BY <1>2, <2>1, <2>2, JoinList DEF IInv, TypeOK
<1> QED
  BY <1>1, <1>2

LEMMA UserList ==
  ASSUME IInv, LInv, Submit \/ Back \/ Forward \/ Logout \/ MountMore \/ Create
  PROVE  LInv'
<1>1. CASE Submit
  BY <1>1, SendList DEF Submit
<1>2. CASE Create
  BY <1>2, SendList DEF Create
<1>3. CASE Back \/ Logout
  <2>1. UNCHANGED <<query, req, version>> /\ page' = "login"
    BY <1>3 DEF Back, Logout
  <2>2. \A u \in Users : Done(u) => Done(u)'
    BY <2>1 DEF Done
  <2> QED
    BY <2>1, <2>2, OtherList
<1>4. CASE Forward
  <2>1. CASE token # Nil
    BY <1>4, <2>1, MountList DEF Forward, IInv, TypeOK
  <2>2. CASE token = Nil
    BY <1>4, <2>2 DEF Forward, LInv, FetchKnown, ListKnown, Fresh, Done
  <2> QED
    BY <2>1, <2>2
<1>5. CASE MountMore
  BY <1>5, MountList DEF MountMore, IInv, TypeOK
<1> QED
  BY <1>1, <1>2, <1>3, <1>4, <1>5

LEMMA TimerList ==
  ASSUME IInv, LInv, Expire \/ RetryDue \/ Forget
  PROVE  LInv'
<1>1. CASE Expire
  BY <1>1 DEF Expire, LInv, FetchKnown, ListKnown, Fresh, Done
<1>2. CASE RetryDue
  <2>1. CASE page = "shell"
    <3>1. PICK r \in Unused(req) :
              /\ req' = Sent(req, r, "list", token)
              /\ query' = [query EXCEPT !.stage = "second", !.request = r, !.outdated = FALSE]
      BY <1>2, <2>1 DEF RetryDue
    <3>2. r \in Requests /\ r # Nil /\ token' = token
      BY <1>2, NilAssumption DEF Unused, RetryDue
    <3>3. query'.stage = "second" /\ query'.request = r
      BY <3>1 DEF IInv, TypeOK, Query
    <3>4. req'[r] = [op |-> "list", token |-> token, stage |-> "sent", code |-> 0,
                     list |-> Nil]
      BY <3>1, <3>2 DEF Sent, IInv, TypeOK
    <3>5. req'[r] # Nil
      BY <3>4, NilAssumption DEF Request, IInv, TypeOK
    <3> QED
      BY <3>2, <3>3, <3>4, <3>5 DEF LInv, FetchKnown, ListKnown
  <2>2. CASE page # "shell"
    <3>1. query' = [query EXCEPT !.stage = "idle", !.outdated = TRUE]
      BY <1>2, <2>2 DEF RetryDue
    <3>2. query'.stage = "idle" /\ query'.request = query.request /\ query'.outdated
      BY <3>1 DEF IInv, TypeOK, Query
    <3>3. query.request = Nil
      BY <1>2 DEF RetryDue, LInv, FetchKnown
    <3> QED
      BY <3>2, <3>3 DEF LInv, FetchKnown, ListKnown
  <2> QED
    BY <2>1, <2>2
<1>3. CASE Forget
  BY <1>3 DEF Forget, NoQuery, LInv, FetchKnown, ListKnown
<1> QED
  BY <1>1, <1>2, <1>3
\* The server reads the list as it is, and changes it only by a create.
LEMMA ServeList ==
  ASSUME IInv, LInv, IInv', NEW r \in Requests, Serve(r)
  PROVE  LInv'
<1>0. /\ page' = page /\ token' = token
      /\ req[r] # Nil /\ req[r] \in Request /\ Known(req[r], expired)
      /\ query'.stage = query.stage /\ query'.request = query.request
      /\ query'.data = query.data /\ query'.invalid = query.invalid
      /\ query.outdated => query'.outdated
  <2>1. query \in Query
    BY DEF IInv, TypeOK
  <2> QED
    BY <2>1 DEF Serve, IInv, TypeOK, Query
<1>1. CASE req[r].stage = "abandoned"
  <2>1. req' = Over(r)
    BY <1>1 DEF Serve
  <2>2. \A s \in Requests \ {r} : req'[s] = req[s]
    BY <2>1 DEF Over, IInv, TypeOK
  <2>3. version' = version \/ query'.outdated
    BY <1>1 DEF Serve, IInv, TypeOK, Query
  <2>4. \A u \in Users : Done(u) => Done(u)'
    BY <1>1, <2>2, DoneStays
  <2>5. query.request # Nil => query.request \in Requests \ {r}
    BY <1>1 DEF LInv, FetchKnown, IInv, TypeOK, Query
  <2> QED
    BY <1>0, <2>2, <2>3, <2>4, <2>5, OtherList
<1>2. CASE req[r].stage = "sent"
  <2>0. PICK code \in Codes(r) :
            LET u == req[r].token.user
                created == req[r].op = "create" /\ code = 200
                list == IF req[r].op # "list" \/ code # 200 THEN Nil
                        ELSE [owner |-> u, version |-> version[u]]
            IN  /\ req' = [req EXCEPT ![r] =
                          [op |-> @.op, token |-> @.token, stage |-> "served",
                           code |-> code, list |-> list]]
                /\ version' = IF created THEN [version EXCEPT ![u] = @ + 1] ELSE version
    BY <1>2 DEF Serve
  <2> DEFINE served == IF req[r].op # "list" \/ code # 200 THEN Nil
                       ELSE [owner |-> req[r].token.user,
                             version |-> version[req[r].token.user]]
  <2>1. PICK list :
            /\ req' = [req EXCEPT ![r] = [op |-> @.op, token |-> @.token,
                           stage |-> "served", code |-> code, list |-> list]]
            /\ req[r].op = "list" /\ code = 200 =>
                   list = [owner |-> req[r].token.user, version |-> version[req[r].token.user]]
            /\ req[r].op # "list" \/ code # 200 => list = Nil
    <3>1. /\ req' = [req EXCEPT ![r] = [op |-> @.op, token |-> @.token,
                         stage |-> "served", code |-> code, list |-> served]]
          /\ req[r].op = "list" /\ code = 200 =>
               served = [owner |-> req[r].token.user, version |-> version[req[r].token.user]]
          /\ req[r].op # "list" \/ code # 200 => served = Nil
      BY <2>0
    <3> HIDE DEF served
    <3> QED
      BY <3>1
  <2>9. /\ \/ version' = version
           \/ /\ req[r].op = "create" /\ code = 200
              /\ version' = [version EXCEPT ![req[r].token.user] = @ + 1]
        /\ req[r].op = "list" => version' = version
    BY <2>0
  <2>2. \A s \in Requests \ {r} : req'[s] = req[s]
    BY <2>1 DEF IInv, TypeOK
  <2>3. /\ req'[r].op = req[r].op /\ req'[r].token = req[r].token
        /\ req'[r].stage = "served" /\ req'[r].code = code /\ req'[r].list = list
    BY <2>1 DEF IInv, TypeOK
  <2>4. req'[r] # Nil
    <3>1. req'[r] = [op |-> req[r].op, token |-> req[r].token, stage |-> "served",
                     code |-> code, list |-> list]
      BY <2>1 DEF IInv, TypeOK
    <3>2. code \in {200, 401, 403, 500}
      BY DEF Codes
    <3>3. list \in List \cup {Nil}
      BY <1>0, <2>1, AskerKnown DEF List, IInv, TypeOK
    <3>4. req'[r] \in Request
      BY <1>0, <3>1, <3>2, <3>3 DEF Request
    <3> QED
      BY <3>4, NilAssumption
  <2>5. \A u \in Users : Done(u) => Done(u)'
    BY <1>2, <2>2, DoneStays
  <2>6. \A u \in Users : version'[u] = version[u] \/ Done(u)'
    <3>1. CASE version' = version
      BY <3>1
    <3>2. CASE /\ req[r].op = "create" /\ code = 200
               /\ version' = [version EXCEPT ![req[r].token.user] = @ + 1]
      BY <2>3, <2>4, <3>2 DEF Done, IInv, TypeOK
    <3> QED
      BY <2>9, <3>1, <3>2
  <2>7. CASE query.request # r
    <3>1. query.request # Nil => query.request \in Requests \ {r}
      BY <2>7 DEF IInv, TypeOK, Query
    <3> QED
      BY <1>0, <2>2, <2>5, <2>6, <3>1, OtherList
  <2>8. CASE query.request = r
    <3>1. r # Nil /\ req[r].op = "list" /\ query.stage \in {"first", "second"}
      BY <2>8, NilAssumption DEF LInv, FetchKnown
    <3>2. code = 200 => Fresh(list, req[r].token.user)'
      <4>1. ASSUME code = 200
            PROVE  list # Nil
        <5>1. req'[r].list = list /\ req[r].token.user \in Users
          BY <1>0, <2>3, <3>1, AskerKnown
        <5>2. list \in List
          BY <2>1, <3>1, <4>1, <5>1 DEF List, IInv, TypeOK
        <5> QED
          BY <5>2, NilAssumption
      <4> QED
        BY <2>1, <2>9, <3>1, <4>1 DEF Fresh
    <3>3. ~query.outdated /\ page = "shell" => req[r].token = token
      BY <2>8, <3>1 DEF LInv, ListKnown
    <3> QED
      BY <1>0, <2>3, <2>4, <2>8, <3>1, <3>2, <3>3 DEF LInv, FetchKnown, ListKnown, Fresh
  <2> QED
    BY <2>7, <2>8
<1> QED
  BY <1>1, <1>2 DEF Serve
LEMMA ReceiveList ==
  ASSUME IInv, LInv, IInv', NEW r \in Requests, Receive(r)
  PROVE  LInv'
<1>0. /\ version' = version /\ req[r] # Nil
      /\ query \in Query /\ token' \in Token \cup {Nil}
      /\ Over(r) \in [Requests -> Request \cup {Nil}]
      /\ \A s \in Requests \ {r} : Over(r)[s] = req[s]
      /\ query.request \in Requests \cup {Nil}
      /\ page \in {"login", "shell"}
  BY OverKnown DEF Receive, Over, IInv, TypeOK, Query
<1>1. CASE Refused(r)
  BY <1>0, <1>1, FailedList DEF Refused
<1>2. CASE Other(r)
  BY <1>0, <1>2, FailedList DEF Other
<1>3. CASE GotList(r)
  <2>1. \A u \in Users : Done(u) => Done(u)'
    BY <1>0, <1>3, DoneStays DEF GotList
  <2>2. CASE r # query.request
    BY <1>0, <1>3, <2>1, <2>2, OtherList DEF GotList
  <2>3. CASE r = query.request
    <3>1. query' = [query EXCEPT !.data = req[r].list, !.request = Nil,
                                 !.stage = "idle", !.invalid = FALSE]
      BY <1>3, <2>3 DEF GotList
    <3>2. /\ query'.data = req[r].list /\ query'.request = Nil /\ query'.stage = "idle"
          /\ query'.outdated = query.outdated
      BY <1>0, <3>1 DEF Query
    <3>3. req[r].op = "list" /\ req[r].code = 200 /\ Known(req[r], expired)
          /\ page' = page /\ token' = token /\ req[r] \in Request
      BY <1>0, <1>3 DEF GotList, IInv, TypeOK
    <3>4. req[r].token.user \in Users /\ req[r].stage = "served"
      BY <1>0, <3>3, AskerKnown DEF Known
    <3>5. ASSUME ~query.outdated, page = "shell"
          PROVE  req[r].token = token /\ Fresh(req[r].list, token.user)
      <4>1. r # Nil /\ query.request # Nil
        BY <2>3, NilAssumption
      <4>2. req[r].token = token
        BY <2>3, <3>5, <4>1 DEF LInv, ListKnown, FetchKnown
      <4>3. Fresh(req[r].list, req[r].token.user)
        BY <2>3, <3>3, <3>4, <3>5, <4>1 DEF LInv, ListKnown, FetchKnown
      <4> QED
        BY <4>2, <4>3
    <3>6. ASSUME ~query.outdated, page = "shell", NEW l, l = req[r].list
          PROVE  Fresh(l, token.user)'
      BY <1>0, <2>1, <3>3, <3>4, <3>5, <3>6, FreshStays DEF Fresh
    <3> QED
      BY <3>2, <3>3, <3>6 DEF LInv, FetchKnown, ListKnown
  <2> QED
    BY <2>2, <2>3
<1>4. CASE LoggedIn(r)
  <2>1. query.request # Nil => query.request \in Requests \ {r}
    BY <1>0, <1>4 DEF LoggedIn, LInv, FetchKnown
  <2>2. CASE page = "login" /\ query.stage = "idle"
    BY <1>0, <1>4, <2>2, AskList DEF LoggedIn, Mount
  <2>3. CASE page = "login" /\ query.stage # "idle"
    <3>1. Join(Over(r), query) /\ req' = Over(r)
      BY <1>4, <2>3 DEF LoggedIn, Mount, Join
    <3>2. \A u \in Users : Done(u) => Done(u)'
      BY <1>0, <1>4, <3>1, DoneStays DEF LoggedIn
    <3> QED
      BY <1>0, <2>1, <2>3, <3>1, <3>2, JoinList
  <2>4. CASE page # "login"
    <3>1. query' = [query EXCEPT !.outdated = TRUE] /\ req' = Over(r)
      BY <1>4, <2>4 DEF LoggedIn
    <3>2. /\ query'.stage = query.stage /\ query'.request = query.request
          /\ query'.outdated
      BY <1>0, <3>1 DEF Query
    <3> QED
      BY <1>0, <2>1, <3>1, <3>2 DEF LInv, FetchKnown, ListKnown
  <2> QED
    BY <2>2, <2>3, <2>4
<1>5. CASE Created(r)
  <2>1. UNCHANGED <<token, page>>
    BY <1>5 DEF Created
  <2>2. query.request # Nil => query.request \in Requests \ {r}
    BY <1>0, <1>5 DEF Created, LInv, FetchKnown
  <2>3. PICK rs \in [Requests -> Request \cup {Nil}] :
            /\ query.request # Nil => rs[query.request] = req[query.request]
            /\ Invalidate(rs, query)
    <3>1. CASE Invalidate(Over(r), query)
      BY <1>0, <2>2, <3>1
    <3>2. ASSUME NEW a \in Unused(req), Invalidate(Sent(Over(r), a, "add", token), query)
          PROVE  \E rs \in [Requests -> Request \cup {Nil}] :
                     /\ query.request # Nil => rs[query.request] = req[query.request]
                     /\ Invalidate(rs, query)
      <4>1. Sent(Over(r), a, "add", token) \in [Requests -> Request \cup {Nil}]
        BY <1>0, <2>1, SentType DEF Unused
      <4>2. query.request # a
        BY NilAssumption DEF Unused, LInv, FetchKnown
      <4>3. query.request # Nil =>
                Sent(Over(r), a, "add", token)[query.request] = req[query.request]
        BY <1>0, <2>2, <4>2 DEF Sent
      <4> QED
        BY <3>2, <4>1, <4>3
    <3> QED
      BY <1>5, <3>1, <3>2 DEF Created
  <2> DEFINE marked == [query EXCEPT !.invalid = TRUE]
  <2>4. /\ marked \in Query /\ marked.invalid = TRUE
        /\ marked.stage = query.stage /\ marked.request = query.request
        /\ marked.outdated = query.outdated
    BY <1>0 DEF Query
  <2>5. \/ page = "login" /\ req' = rs /\ query' = marked
        \/ Ask(rs, marked)
        \/ marked.stage # "idle" /\ Join(rs, marked)
    BY <2>3, <2>4 DEF Invalidate
  <2>6. CASE page = "login" /\ req' = rs /\ query' = marked
    BY <2>1, <2>3, <2>4, <2>6 DEF LInv, FetchKnown, ListKnown
  <2> HIDE DEF marked
  <2>7. CASE Ask(rs, marked)
    BY <1>0, <2>4, <2>7, AskList
  <2>8. CASE marked.stage # "idle" /\ Join(rs, marked)
    BY <1>0, <2>3, <2>4, <2>8, JoinList
  <2> QED
    BY <2>5, <2>6, <2>7, <2>8
<1> QED
  BY <1>1, <1>2, <1>3, <1>4, <1>5 DEF Receive

LEMMA GiveUpList ==
  ASSUME IInv, LInv, NEW r \in Requests, GiveUp(r)
  PROVE  LInv'
<1>0. /\ UNCHANGED <<version, page, token>> /\ query \in Query
      /\ query.request \in Requests \cup {Nil}
  BY DEF GiveUp, IInv, TypeOK, Query
<1>1. \A s \in Requests \ {r} : req'[s] = req[s]
  BY DEF GiveUp, Over, IInv, TypeOK
<1>2. CASE req[r].op = "create" /\ req[r].code = 200
  <2>1. query' = [query EXCEPT !.outdated = TRUE]
    BY <1>2 DEF GiveUp
  <2>2. /\ query'.stage = query.stage /\ query'.request = query.request
        /\ query'.outdated
    BY <1>0, <2>1 DEF Query
  <2>3. query.request # Nil => query.request \in Requests \ {r}
    BY <1>0, <1>2 DEF LInv, FetchKnown
  <2> QED
    BY <1>1, <2>2, <2>3 DEF LInv, FetchKnown, ListKnown
<1>3. CASE ~(req[r].op = "create" /\ req[r].code = 200)
  <2>1. Failed(r)
    BY <1>3 DEF GiveUp
  <2>2. CASE req' = Over(r)
    BY <1>0, <1>3, <2>1, <2>2, FailedList
  <2>3. CASE req[r].op = "create" /\ req[r].stage = "sent"
    <3>1. query.request # Nil => query.request \in Requests \ {r}
      BY <1>0, <2>3 DEF LInv, FetchKnown
    <3>2. query' = query
      <4>1. r # query.request
        BY <3>1, NilAssumption
      <4> QED
        BY <2>1, <4>1 DEF Failed
    <3>3. \A u \in Users : Done(u) => Done(u)'
      BY <1>1, <2>3, DoneStays
    <3> QED
      BY <1>0, <1>1, <3>1, <3>2, <3>3, OtherList
  <2> QED
    BY <2>2, <2>3 DEF GiveUp
<1> QED
  BY <1>2, <1>3

LEMMA ListInvariance == Spec => []LInv
<1>1. IInv /\ LInv /\ [Next]_vars /\ IInv' => LInv'
  <2> SUFFICES ASSUME IInv, LInv, [Next]_vars, IInv'
               PROVE  LInv'
    OBVIOUS
  <2>1. CASE UNCHANGED vars
    BY <2>1 DEF vars, LInv, FetchKnown, ListKnown, Fresh, Done
  <2> QED
    BY <2>1, UserList, ServeList, ReceiveList, GiveUpList, TimerList DEF Next
<1> QED
  BY Invariance, InitList, <1>1, PTL DEF Spec

\* A list at rest that is not `outdated', and whose user has no create under way, is
\* the logged-in user's and complete, with any number of users, of requests that
\* overlap, and of logins.  The theorem says nothing of a list that came by a fetch
\* begun in another session or before a change, by a login that ended on a page
\* already there, or that stayed when a fetch failed twice or a create's answer
\* got lost: YourPlaylists is false of those.
THEOREM FreshListsAreOwn == Spec => []OwnListShown
<1>1. IInv /\ LInv => OwnListShown
  <2> SUFFICES ASSUME IInv, LInv, page = "shell", query.stage = "idle", query.data # Nil,
                      ~query.outdated,
                      \A r \in Requests : req[r] # Nil => req[r].op # "create"
               PROVE  query.data = [owner |-> token.user, version |-> version[token.user]]
    BY DEF OwnListShown
  <2>1. Fresh(query.data, token.user) /\ query.data \in List
    BY DEF LInv, ListKnown, IInv, TypeOK, Query
  <2>2. ~Done(token.user)
    BY DEF Done
  <2> QED
    BY <2>1, <2>2 DEF Fresh, List
<1> QED
  BY Invariance, ListInvariance, <1>1, PTL
=============================================================================
