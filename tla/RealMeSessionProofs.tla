------------------------ MODULE RealMeSessionProofs ------------------------
(***************************************************************************)
(* Proofs about the RealMe session, for any number of tabs, people and     *)
(* sign-ins: a request of the browser that the guard lets through was      *)
(* verified in the sign-in its token comes from, less than MaxAge ago, and *)
(* an answered logout ends its session.  The heart is that the browser     *)
(* only copies tokens: SessionInv says of every copy, wherever it is, what *)
(* its sign-in said.  Requests of other clients, whose tokens need not     *)
(* come from a sign-in, are steps of the specification as well.            *)
(***************************************************************************)
EXTENDS RealMeSession, TLAPS

(* extractIdentity yields identities, with the one FLT of the assertion. *)
LEMMA ExtractType ==
    ASSUME NEW a \in Assertion, NEW id \in extractIdentity(a)
    PROVE  /\ id \in Identity
           /\ a.flt = {id.flt}
           /\ id.level = assuranceLevel(a.context)
<1>1. PICK f \in a.flt : id = [flt |-> f, level |-> assuranceLevel(a.context)]
  BY DEF extractIdentity
<1>2. a.flt = {f} /\ f \in FLT
  BY DEF Assertion
<1>3. assuranceLevel(a.context) \in Level
  BY DEF assuranceLevel, Level
<1> QED
  BY <1>1, <1>2, <1>3 DEF Identity

(* assuranceLevel: only the class ModStrength gives the verified level. *)
LEMMA OnlyModStrength ==
    ASSUME NEW context, assuranceLevel(context) >= LevelVerified
    PROVE  context = "ModStrength"
BY DEF assuranceLevel, LevelNone, LevelLogin, LevelVerified

(* A sign-in, and the copy of a token, keep their meaning as time passes and
   others sign in. *)
LEMMA EarnedStays ==
    ASSUME TypeOK, signIns \subseteq signIns', now' \in Nat, now <= now',
           NEW k, Earned(k)
    PROVE  Earned(k)'
<1>1. PICK s \in signIns :
        /\ s.of = k.of
        /\ k.id \in extractIdentity(s.assertion)
        /\ k.exp = s.at + MaxAge /\ s.at <= now
  BY DEF Earned
<1>2. s \in signIns' /\ s.at \in Nat
  BY <1>1 DEF TypeOK
<1>3. s.at <= now'
  BY <1>1, <1>2 DEF TypeOK
<1> QED
  BY <1>1, <1>2, <1>3 DEF Earned, extractIdentity

(* Init satisfies the invariant: there is no token yet. *)
LEMMA InitSession == Init => SessionInv
BY DEF Init, SessionInv, TypeOK, TabState, Idle, Tokens, TabTokens,
       SignInHonoured, Earned

(* What a tab holds keeps its type when the tab is given a new state. *)
LEMMA TabType ==
    ASSUME TypeOK, NEW t \in Tab, NEW v \in TabState,
           tab' = [tab EXCEPT ![t] = v]
    PROVE  tab' \in [Tab -> TabState]
BY DEF TypeOK

(* The types of the requests and answers a tab may be given. *)
LEMMA SentType ==
    ASSUME NEW path \in Path, NEW c \in SUBSET Token
    PROVE  Sent(path, c) \in TabState
BY DEF Sent, TabState

LEMMA AnswerType ==
    ASSUME NEW op \in {"guard", "login", "callback", "logout"},
           NEW set \in SUBSET SUBSET Token, NEW next \in Path
    PROVE  Answer(op, set, next) \in TabState
BY DEF Answer, TabState

(* The fields of a tab's state, by where it is. *)
LEMMA TabFields ==
    ASSUME TypeOK, NEW t \in Tab
    PROVE  /\ tab[t] \in TabState
           /\ tab[t].at = "sent" =>
                /\ tab[t].path \in Path
                /\ tab[t].cookie \in SUBSET Token
           /\ tab[t].at = "answer" =>
                /\ tab[t].set \in SUBSET SUBSET Token
                /\ tab[t].next \in Path
           /\ tab[t].at = "callback" => tab[t].assertion \in Assertion
<1>1. tab[t] \in TabState
  BY DEF TypeOK
<1> QED
  BY <1>1 DEF TabState, Idle

(* The cookie a browser sends holds tokens of its jar. *)
LEMMA CookieType ==
    ASSUME TypeOK
    PROVE  Cookie \in SUBSET Token /\ Cookie \subseteq {c.token : c \in jar}
BY DEF TypeOK, Cookie

(* When only one tab changes, the tokens after are those of the jar and of
   that tab, and others that were there before. *)
LEMMA TokensAfter ==
    ASSUME TypeOK, NEW t \in Tab, NEW v, tab' = [tab EXCEPT ![t] = v],
           NEW k \in Tokens'
    PROVE  k \in {c.token : c \in jar'} \/ k \in TabTokens(t)' \/ k \in Tokens
<1>1. CASE k \in {c.token : c \in jar'}
  BY <1>1
<1>2. CASE \E u \in Tab : k \in TabTokens(u)'
  <2>1. PICK u \in Tab : k \in TabTokens(u)'
    BY <1>2
  <2>2. u # t => tab'[u] = tab[u]
    BY DEF TypeOK
  <2>3. u # t => k \in TabTokens(u)
    BY <2>1, <2>2 DEF TabTokens
  <2> QED
    BY <2>1, <2>3 DEF Tokens
<1> QED
  BY <1>1, <1>2 DEF Tokens

(* A step of one tab that serves nobody keeps the invariant, if its new state
   and the new jar hold only earned tokens. *)
LEMMA TabStep ==
    ASSUME SessionInv, NEW t \in Tab, NEW v \in TabState,
           tab' = [tab EXCEPT ![t] = v],
           jar' \in SUBSET [token : Token, drop : Nat],
           signIns' \in SUBSET [of : SignIn, assertion : Assertion, at : Nat],
           ended' \in SUBSET SignIn,
           signIns \subseteq signIns', served' = {}, now' = now,
           \A k \in {c.token : c \in jar'} : k \in Tokens,
           \A k \in TabTokens(t)' : k \in Tokens \/ Earned(k)'
    PROVE  SessionInv'
<1> USE DEF SessionInv
<1>1. TypeOK'
  BY TabType DEF TypeOK
<1>2. SignInHonoured'
  BY DEF SignInHonoured
<1>3. now' \in Nat /\ now <= now'
  BY DEF TypeOK
<1>4. ASSUME NEW k \in Tokens PROVE Earned(k)'
  BY <1>3, <1>4, EarnedStays
<1>5. ASSUME NEW k \in Tokens' PROVE Earned(k)'
  BY <1>4, <1>5, TokensAfter
<1> QED
  BY <1>1, <1>2, <1>5

(* A request or an answer holds the tokens it was made with. *)
LEMMA SentTokens ==
    ASSUME TypeOK, NEW t \in Tab, NEW path, NEW c,
           tab' = [tab EXCEPT ![t] = Sent(path, c)]
    PROVE  TabTokens(t)' = c
BY DEF TypeOK, TabTokens, Sent

LEMMA AnswerTokens ==
    ASSUME TypeOK, NEW t \in Tab, NEW op, NEW set, NEW next,
           tab' = [tab EXCEPT ![t] = Answer(op, set, next)]
    PROVE  TabTokens(t)' = UNION set
<1>1. tab'[t] = Answer(op, set, next)
  BY DEF TypeOK
<1> QED
  BY <1>1 DEF TabTokens, Answer

(* Any other state of a tab holds none. *)
LEMMA NoTokens ==
    ASSUME TypeOK, NEW t \in Tab, NEW v, tab' = [tab EXCEPT ![t] = v],
           v.at \notin {"sent", "answer"}
    PROVE  TabTokens(t)' = {}
BY DEF TypeOK, TabTokens

(* A step that gives a tab a state without tokens and touches nothing else. *)
LEMMA QuietStep ==
    ASSUME SessionInv, NEW t \in Tab, NEW v \in TabState,
           v.at \notin {"sent", "answer"}, tab' = [tab EXCEPT ![t] = v],
           UNCHANGED <<jar, now, signIns, ended>>, served' = {}
    PROVE  SessionInv'
<1>1. TypeOK
  BY DEF SessionInv
<1>2. TabTokens(t)' = {}
  BY <1>1, NoTokens
<1> QED
  BY <1>1, <1>2, TabStep DEF TypeOK, Tokens

(* The same for a request that carries the cookie, and for an answer that
   stores no token. *)
LEMMA SendStep ==
    ASSUME SessionInv, NEW t \in Tab, NEW path \in Path,
           tab' = [tab EXCEPT ![t] = Sent(path, Cookie)],
           UNCHANGED <<jar, now, signIns, ended>>, served' = {}
    PROVE  SessionInv'
<1>1. TypeOK
  BY DEF SessionInv
<1>2. TabTokens(t)' = Cookie
  BY <1>1, SentTokens
<1>3. Cookie \subseteq Tokens
  BY <1>1, CookieType DEF Tokens
<1>4. Sent(path, Cookie) \in TabState
  BY <1>1, CookieType, SentType
<1> QED
  BY <1>1, <1>2, <1>3, <1>4, TabStep DEF TypeOK, Tokens

LEMMA ReplyStep ==
    ASSUME SessionInv, NEW t \in Tab,
           NEW op \in {"guard", "login", "callback", "logout"},
           NEW set \in {{}, {{}}}, NEW next \in Path,
           tab' = [tab EXCEPT ![t] = Answer(op, set, next)],
           UNCHANGED <<jar, now, signIns, ended>>, served' = {}
    PROVE  SessionInv'
<1>1. TypeOK
  BY DEF SessionInv
<1>2. TabTokens(t)' = {}
  <2>1. UNION set = {}
    OBVIOUS
  <2> QED
    BY <1>1, <2>1, AnswerTokens
<1>3. Answer(op, set, next) \in TabState
  BY AnswerType
<1> QED
  BY <1>1, <1>2, <1>3, TabStep DEF TypeOK, Tokens

(* The guard: whom requireAssuranceLevel lets through holds a token that has
   not expired and is of the verified level, hence earned by a sign-in with a
   verified assertion less than MaxAge ago. *)
LEMMA GuardStep ==
    ASSUME SessionInv, NEW t \in Tab, RequireVerified(t)
    PROVE  SessionInv'
<1> DEFINE session == GetSession(tab[t].cookie)
           allowed == {k \in session : k.id.level >= LevelVerified}
<1>1. /\ TypeOK /\ SignInHonoured
      /\ \A k \in Tokens : Earned(k)
  BY DEF SessionInv
<1>2. /\ tab[t].at = "sent"
      /\ served' = {[by |-> {k.of}, flt |-> k.id.flt, at |-> now]
                       : k \in allowed}
      /\ tab' = [tab EXCEPT ![t] =
           IF session = {} THEN Answer("guard", {}, "/auth/realme/login")
           ELSE IF allowed = {}
           THEN Answer("guard", {}, "/auth/realme/verified")
           ELSE Idle]
      /\ UNCHANGED <<jar, now, signIns, ended>>
  BY DEF RequireVerified, requireAssuranceLevel, At
<1>3. ASSUME NEW k \in allowed
      PROVE  /\ k \in Token
             /\ \E s \in signIns :
                  /\ s.of = k.of
                  /\ s.assertion.flt = {k.id.flt}
                  /\ s.assertion.context = "ModStrength"
                  /\ s.at <= now /\ now < s.at + MaxAge
  <2>1. k \in tab[t].cookie /\ now < k.exp
    BY <1>3 DEF GetSession
  <2>2. k \in Tokens /\ k \in Token
    BY <1>1, <1>2, <2>1, TabFields DEF Tokens, TabTokens
  <2>3. PICK s \in signIns :
          /\ s.of = k.of
          /\ k.id \in extractIdentity(s.assertion)
          /\ k.exp = s.at + MaxAge /\ s.at <= now
    BY <1>1, <2>2 DEF Earned
  <2>4. s.assertion \in Assertion
    BY <1>1, <2>3 DEF TypeOK
  <2>5. /\ s.assertion.flt = {k.id.flt}
        /\ k.id.level = assuranceLevel(s.assertion.context)
    BY <2>3, <2>4, ExtractType
  <2>6. s.assertion.context = "ModStrength"
    BY <1>3, <2>5, OnlyModStrength
  <2> QED
    BY <2>1, <2>2, <2>3, <2>5, <2>6
<1>4. SignInHonoured'
  <2> SUFFICES ASSUME NEW r \in served', NEW n \in r.by
               PROVE  \E s \in signIns :
                        /\ s.of = n
                        /\ s.assertion.flt = {r.flt}
                        /\ s.assertion.context = "ModStrength"
                        /\ s.at <= r.at /\ r.at < s.at + MaxAge
    BY <1>2 DEF SignInHonoured
  <2>1. PICK k \in allowed : r = [by |-> {k.of}, flt |-> k.id.flt, at |-> now]
    BY <1>2
  <2>2. n = k.of /\ r.flt = k.id.flt /\ r.at = now
    BY <2>1
  <2> QED
    BY <1>3, <2>2
<1>5. served' \in SUBSET [by : SUBSET SignIn, flt : FLT, at : Nat]
  BY <1>1, <1>2, <1>3 DEF TypeOK, Token, Identity
<1>6. PICK v \in TabState :
        /\ tab' = [tab EXCEPT ![t] = v]
        /\ v.at = "answer" => v.set = {}
        /\ v.at # "sent"
  <2>1. ASSUME NEW next \in {"/auth/realme/login", "/auth/realme/verified"}
        PROVE  /\ Answer("guard", {}, next) \in TabState
               /\ Answer("guard", {}, next).set = {}
               /\ Answer("guard", {}, next).at = "answer"
    BY AnswerType DEF Path, Answer
  <2>2. Idle \in TabState /\ Idle.at = "idle"
    BY DEF TabState, Idle
  <2> QED
    BY <1>2, <2>1, <2>2
<1>7. TabTokens(t)' = {}
  <2>1. tab'[t] = v
    BY <1>1, <1>6 DEF TypeOK
  <2> QED
    BY <1>6, <2>1 DEF TabTokens
<1>8. TypeOK'
  BY <1>1, <1>2, <1>5, <1>6, TabType DEF TypeOK
<1>9. ASSUME NEW k \in Tokens' PROVE Earned(k)'
  <2>1. k \in Tokens
    BY <1>1, <1>2, <1>6, <1>7, <1>9, TokensAfter DEF Tokens
  <2> QED
    BY <1>1, <1>2, <2>1 DEF Earned, extractIdentity
<1> QED
  BY <1>4, <1>8, <1>9 DEF SessionInv

(* CallbackHandler: the token in the answer is earned by this very sign-in. *)
LEMMA CallbackStep ==
    ASSUME SessionInv, NEW t \in Tab, CallbackHandler(t)
    PROVE  SessionInv'
<1>1. TypeOK
  BY DEF SessionInv
<1>2. PICK a \in Assertion : a = tab[t].assertion
  BY <1>1, TabFields DEF CallbackHandler
<1>3. PICK next \in Target, id \in extractIdentity(a), n \in SignIn \ Used :
        /\ signIns' = signIns \cup {[of |-> n, assertion |-> a, at |-> now]}
        /\ tab' = [tab EXCEPT ![t] =
             Answer("callback",
                    {{[id |-> id, exp |-> now + MaxAge, of |-> n]}}, next)]
  BY <1>2 DEF CallbackHandler, CreateSession
<1>4. PICK k : k = [id |-> id, exp |-> now + MaxAge, of |-> n]
  OBVIOUS
<1>5. k \in Token
  <2>1. id \in Identity
    BY <1>3, ExtractType
  <2> QED
    BY <1>1, <1>4, <2>1, SessionAssumption DEF Token, TypeOK
<1>6. Answer("callback", {{k}}, next) \in TabState
  BY <1>5, AnswerType DEF Path, Target, Route
<1>7. TabTokens(t)' = {k}
  <2>1. TabTokens(t)' = UNION {{k}}
    BY <1>1, <1>3, <1>4, AnswerTokens
  <2> QED
    BY <2>1
<1>8. UNCHANGED <<jar, now, ended>> /\ served' = {}
  BY DEF CallbackHandler, ServesNobody
<1>9. Earned(k)'
  <2>1. PICK s \in signIns' : s = [of |-> n, assertion |-> a, at |-> now]
    BY <1>3
  <2>2. s.of = k.of /\ k.id \in extractIdentity(s.assertion)
    BY <1>3, <1>4, <2>1
  <2>3. k.exp = s.at + MaxAge /\ s.at <= now'
    BY <1>1, <1>4, <1>8, <2>1 DEF TypeOK
  <2> QED
    BY <2>1, <2>2, <2>3 DEF Earned, extractIdentity
<1>10. /\ signIns' \in SUBSET [of : SignIn, assertion : Assertion, at : Nat]
       /\ signIns \subseteq signIns'
  BY <1>1, <1>3 DEF TypeOK
<1>11. /\ jar' \in SUBSET [token : Token, drop : Nat]
       /\ ended' \in SUBSET SignIn
       /\ \A x \in {c.token : c \in jar'} : x \in Tokens
  BY <1>1, <1>8 DEF TypeOK, Tokens
<1> QED
  BY <1>3, <1>4, <1>6, <1>7, <1>8, <1>9, <1>10, <1>11, TabStep

(* Arrive: the tokens that go into the jar and into the next request are the
   answer's, or those of the jar. *)
LEMMA ArriveStep ==
    ASSUME SessionInv, NEW t \in Tab, Arrive(t)
    PROVE  SessionInv'
<1> DEFINE stored == {{[token |-> k, drop |-> now + MaxAge] : k \in s}
                        : s \in tab[t].set}
           sent == {c.token : c \in {d \in jar' : now < d.drop}}
<1>1. TypeOK
  BY DEF SessionInv
<1>2. /\ tab[t].at = "answer"
      /\ jar' = jar \/ jar' \in stored
      /\ tab' = [tab EXCEPT ![t] = Sent(tab[t].next, sent)]
      /\ UNCHANGED <<now, signIns>> /\ served' = {}
  BY DEF Arrive, ServesNobody
<1>3. tab[t].set \in SUBSET SUBSET Token /\ tab[t].next \in Path
  BY <1>1, <1>2, TabFields
<1>4. /\ jar' \in SUBSET [token : Token, drop : Nat]
      /\ {c.token : c \in jar'} \subseteq Tokens
  <2>1. CASE jar' = jar
    BY <1>1, <2>1 DEF TypeOK, Tokens
  <2>2. CASE jar' \in stored
    <3>1. PICK s \in tab[t].set :
            jar' = {[token |-> k, drop |-> now + MaxAge] : k \in s}
      BY <2>2
    <3>2. s \subseteq Token /\ s \subseteq Tokens
      BY <1>2, <1>3, <3>1 DEF Tokens, TabTokens
    <3>3. now + MaxAge \in Nat
      BY <1>1, SessionAssumption DEF TypeOK
    <3> QED
      BY <3>1, <3>2, <3>3
  <2> QED
    BY <1>2, <2>1, <2>2
<1>5. sent \subseteq Tokens /\ sent \in SUBSET Token
  BY <1>4
<1> HIDE DEF sent
<1>6. ended' \in SUBSET SignIn
  <2>1. \A k \in Cookie : k.of \in SignIn
    BY <1>1, CookieType DEF Token
  <2> QED
    BY <1>1, <2>1 DEF Arrive, TypeOK
<1>7. Sent(tab[t].next, sent) \in TabState
  BY <1>3, <1>5, SentType
<1>8. TabTokens(t)' = sent
  BY <1>1, <1>2, SentTokens
<1>9. signIns' \in SUBSET [of : SignIn, assertion : Assertion, at : Nat]
  BY <1>1, <1>2 DEF TypeOK
<1> QED
  BY <1>2, <1>4, <1>5, <1>6, <1>7, <1>8, <1>9, TabStep

(* The clock: no token is touched, and no sign-in lies ahead of it. *)
LEMMA TickStep ==
    ASSUME SessionInv, Tick
    PROVE  SessionInv'
<1>1. TypeOK /\ SignInHonoured /\ \A k \in Tokens : Earned(k)
  BY DEF SessionInv
<1>2. /\ now' \in Nat /\ now <= now'
      /\ UNCHANGED <<jar, tab, signIns, ended>> /\ served' = {}
  BY <1>1 DEF Tick, TypeOK, ServesNobody
<1>3. TypeOK'
  BY <1>1, <1>2 DEF TypeOK
<1>4. Tokens' = Tokens
  BY <1>2 DEF Tokens, TabTokens
<1>5. ASSUME NEW k \in Tokens' PROVE Earned(k)'
  BY <1>1, <1>2, <1>4, <1>5, EarnedStays
<1>6. SignInHonoured'
  BY <1>2 DEF SignInHonoured
<1> QED
  BY <1>3, <1>5, <1>6 DEF SessionInv

(* Another client is served: the browser keeps what it has. *)
LEMMA ElsewhereStep ==
    ASSUME SessionInv, Elsewhere
    PROVE  SessionInv'
<1>1. TypeOK /\ \A k \in Tokens : Earned(k)
  BY DEF SessionInv
<1>2. PICK f \in FLT : served' = {[by |-> {}, flt |-> f, at |-> now]}
  BY DEF Elsewhere
<1>3. UNCHANGED <<jar, tab, now, signIns, ended>>
  BY DEF Elsewhere
<1>4. TypeOK'
  BY <1>1, <1>2, <1>3 DEF TypeOK
<1>5. ASSUME NEW k \in Tokens' PROVE Earned(k)'
  BY <1>1, <1>3, <1>5 DEF Tokens, TabTokens, Earned, extractIdentity
<1>6. SignInHonoured'
  BY <1>2 DEF SignInHonoured
<1> QED
  BY <1>4, <1>5, <1>6 DEF SessionInv

(* Every step keeps the invariant. *)
LEMMA NextSession == SessionInv /\ [Next]_vars => SessionInv'
<1> SUFFICES ASSUME SessionInv, [Next]_vars PROVE SessionInv'
  OBVIOUS
<1>1. TypeOK
  BY DEF SessionInv
<1>2. Idle \in TabState /\ Idle.at = "idle"
  BY DEF TabState, Idle
<1>3. ASSUME NEW a \in Assertion
      PROVE  /\ [at |-> "callback", assertion |-> a] \in TabState
             /\ [at |-> "callback", assertion |-> a].at = "callback"
  BY DEF TabState
<1>4. ASSUME NEW t \in Tab, Step(t) PROVE SessionInv'
  <2>1. CASE Ask(t)
    <3>1. PICK path \in Path : tab' = [tab EXCEPT ![t] = Sent(path, Cookie)]
      BY <2>1 DEF Ask, Path, Route
    <3> QED
      BY <2>1, <3>1, SendStep DEF Ask, ServesNobody
  <2>2. CASE RequireVerified(t)
    BY <2>2, GuardStep
  <2>3. CASE LoginHandler(t)
    <3>1. ASSUME NEW return \in Target,
                 tab' = [tab EXCEPT ![t] = Answer("login", {}, return)]
          PROVE  SessionInv'
      BY <2>3, <3>1, ReplyStep DEF LoginHandler, Path, Target, Route,
                                   ServesNobody
    <3>2. CASE tab' = [tab EXCEPT ![t] = [at |-> "idp"]]
      <4>1. [at |-> "idp"] \in TabState
        BY DEF TabState
      <4> QED
        BY <2>3, <3>2, <4>1, QuietStep DEF LoginHandler, ServesNobody
    <3> QED
      BY <2>3, <3>1, <3>2 DEF LoginHandler
  <2>4. CASE RealMe(t)
    <3>1. CASE tab' = [tab EXCEPT ![t] = Idle]
      BY <1>2, <2>4, <3>1, QuietStep DEF RealMe, ServesNobody
    <3>2. ASSUME NEW a \in Assertion,
                 tab' = [tab EXCEPT ![t] = [at |-> "callback", assertion |-> a]]
          PROVE  SessionInv'
      BY <1>3, <2>4, <3>2, QuietStep DEF RealMe, ServesNobody
    <3> QED
      BY <2>4, <3>1, <3>2 DEF RealMe
  <2>5. CASE Resubmit(t)
    <3>1. PICK s \in signIns :
            tab' = [tab EXCEPT ![t] =
                      [at |-> "callback", assertion |-> s.assertion]]
      BY <2>5 DEF Resubmit
    <3>2. s.assertion \in Assertion
      BY <1>1, <3>1 DEF TypeOK
    <3> QED
      BY <1>3, <2>5, <3>1, <3>2, QuietStep DEF Resubmit, ServesNobody
  <2>6. CASE CallbackHandler(t)
    BY <2>6, CallbackStep
  <2>7. CASE CallbackRefused(t)
    BY <1>2, <2>7, QuietStep DEF CallbackRefused, ServesNobody
  <2>8. CASE LogoutHandler(t)
    <3>1. PICK return \in Path :
            tab' = [tab EXCEPT ![t] = Answer("logout", {{}}, return)]
      BY <2>8 DEF LogoutHandler, Path, Target, Route
    <3> QED
      BY <2>8, <3>1, ReplyStep DEF LogoutHandler, ServesNobody
  <2>9. CASE NotFound(t)
    BY <1>2, <2>9, QuietStep DEF NotFound, ServesNobody
  <2>10. CASE Arrive(t)
    BY <2>10, ArriveStep
  <2>11. CASE Lost(t)
    BY <1>2, <2>11, QuietStep DEF Lost, ServesNobody
  <2> QED
    BY <1>4, <2>1, <2>2, <2>3, <2>4, <2>5, <2>6, <2>7, <2>8, <2>9, <2>10, <2>11
    DEF Step
<1>5. CASE Tick
  BY <1>5, TickStep
<1>6. CASE Elsewhere
  BY <1>6, ElsewhereStep
<1>7. CASE UNCHANGED vars
  <2>1. UNCHANGED <<jar, tab, now, signIns, ended, served>>
    BY <1>7 DEF vars
  <2>2. TypeOK' /\ SignInHonoured'
    BY <2>1 DEF SessionInv, TypeOK, SignInHonoured
  <2>3. ASSUME NEW k \in Tokens' PROVE Earned(k)'
    BY <2>1, <2>3 DEF SessionInv, Tokens, TabTokens, Earned, extractIdentity
  <2> QED
    BY <2>2, <2>3 DEF SessionInv
<1> QED
  BY <1>4, <1>5, <1>6, <1>7 DEF Next

(* Every copy of a token in the browser says what its sign-in said, although
   other clients are served with tokens that come from none. *)
THEOREM SessionInvariance == Spec => []SessionInv
BY InitSession, NextSession, PTL DEF Spec

(* RequireVerified: a request of the browser that reaches the API carries a
   token of a sign-in in which RealMe verified the same person less than
   MaxAge ago, whatever the tabs do. *)
THEOREM GuardSound == Spec => []SignInHonoured
<1>1. SessionInv => SignInHonoured
  BY DEF SessionInv
<1> QED
  BY <1>1, SessionInvariance, PTL

-----------------------------------------------------------------------------
(* The tokens in the jar and in answers come from earlier sign-ins. *)
LEMMA SessionsUsed ==
    ASSUME SessionInv
    PROVE  Kept \subseteq Used /\ \A t \in Tab : Carried(t) \subseteq Used
<1>1. ASSUME NEW k \in Tokens PROVE k.of \in Used
  BY <1>1 DEF SessionInv, Earned, Used
<1>2. \A c \in jar : c.token \in Tokens
  BY DEF Tokens
<1>3. ASSUME NEW t \in Tab, tab[t].at = "answer", NEW k \in UNION tab[t].set
      PROVE  k \in Tokens
  BY <1>3 DEF Tokens, TabTokens
<1> QED
  BY <1>1, <1>2, <1>3 DEF Kept, Carried

(* A tab is given a state that brings no token. *)
LEMMA BareStep ==
    ASSUME SessionInv, LogoutInv, NEW t \in Tab, NEW v,
           tab' = [tab EXCEPT ![t] = v],
           v.at = "answer" => /\ UNION v.set = {}
                              /\ v.op = "logout" => v.set = {{}},
           UNCHANGED <<jar, signIns, ended>>
    PROVE  LogoutInv'
<1>1. tab'[t] = v /\ \A u \in Tab \ {t} : tab'[u] = tab[u]
  BY DEF SessionInv, TypeOK
<1>2. Kept' = Kept /\ Used' = Used /\ ended' = ended
  BY DEF Kept, Used
<1>3. Carried(t)' = {} /\ \A u \in Tab \ {t} : Carried(u)' = Carried(u)
  BY <1>1 DEF Carried
<1> QED
  BY <1>1, <1>2, <1>3 DEF LogoutInv

(* CallbackHandler: the answer sets a session nobody has seen yet. *)
LEMMA SetStep ==
    ASSUME SessionInv, LogoutInv, NEW t \in Tab, CallbackHandler(t)
    PROVE  LogoutInv'
<1>1. TypeOK /\ tab[t].at = "callback"
  BY DEF SessionInv, CallbackHandler
<1>2. PICK next \in Target, id \in extractIdentity(tab[t].assertion),
           n \in SignIn \ Used :
        /\ signIns' = signIns \cup
              {[of |-> n, assertion |-> tab[t].assertion, at |-> now]}
        /\ tab' = [tab EXCEPT ![t] =
             Answer("callback",
                    {{[id |-> id, exp |-> now + MaxAge, of |-> n]}}, next)]
  BY DEF CallbackHandler, CreateSession
<1>3. PICK k : k = [id |-> id, exp |-> now + MaxAge, of |-> n]
  OBVIOUS
<1>4. /\ tab'[t] = Answer("callback", {{k}}, next)
      /\ \A u \in Tab \ {t} : tab'[u] = tab[u]
  BY <1>1, <1>2, <1>3 DEF TypeOK
<1>5. /\ tab'[t].at = "answer" /\ tab'[t].op = "callback"
      /\ tab'[t].set = {{k}}
  BY <1>4 DEF Answer
<1>6. Carried(t)' = {n}
  <2>1. UNION tab'[t].set = {k}
    BY <1>5
  <2>2. Carried(t)' = {x.of : x \in UNION tab'[t].set}
    BY <1>5 DEF Carried
  <2>3. k.of = n
    BY <1>3
  <2> QED
    BY <2>1, <2>2, <2>3
<1>7. Used' = Used \cup {n}
  <2>1. PICK s : s = [of |-> n, assertion |-> tab[t].assertion, at |-> now]
    OBVIOUS
  <2>2. s.of = n /\ signIns' = signIns \cup {s}
    BY <1>2, <2>1
  <2> QED
    BY <2>2 DEF Used
<1>8. Kept' = Kept /\ ended' = ended
  BY DEF CallbackHandler, Kept
<1>9. \A u \in Tab \ {t} : Carried(u)' = Carried(u)
  BY <1>4 DEF Carried
<1>10. /\ n \notin Kept /\ n \notin ended
       /\ \A u \in Tab : n \notin Carried(u)
  BY <1>2, SessionsUsed DEF LogoutInv
<1>11. /\ ended' \subseteq Used'
       /\ Kept' \cap ended' = {}
       /\ \A u \in Tab : Carried(u)' \cap (ended' \cup Kept') = {}
  BY <1>6, <1>7, <1>8, <1>9, <1>10 DEF LogoutInv
<1>12. \A u, v \in Tab : u # v => Carried(u)' \cap Carried(v)' = {}
  BY <1>6, <1>9, <1>10 DEF LogoutInv
<1>13. \A u \in Tab : tab'[u].at = "answer" /\ tab'[u].op = "logout" =>
         tab'[u].set = {{}}
  BY <1>4, <1>5 DEF LogoutInv
<1> QED
  BY <1>11, <1>12, <1>13 DEF LogoutInv

(* Arrive: the answer's session moves to the jar; a logout's answer empties
   it, and what was in it never comes back. *)
LEMMA StoreStep ==
    ASSUME SessionInv, LogoutInv, NEW t \in Tab, Arrive(t)
    PROVE  /\ LogoutInv'
           /\ \A k \in tab'[t].cookie : k.of \in Kept'
           /\ \A u \in Tab \ {t} : tab'[u] = tab[u]
<1> DEFINE stored == {{[token |-> k, drop |-> now + MaxAge] : k \in s}
                        : s \in tab[t].set}
           sent == {c.token : c \in {d \in jar' : now < d.drop}}
<1>1. TypeOK
  BY DEF SessionInv
<1>2. /\ tab[t].at = "answer"
      /\ \/ tab[t].set = {} /\ jar' = jar
         \/ jar' \in stored
      /\ tab' = [tab EXCEPT ![t] = Sent(tab[t].next, sent)]
      /\ signIns' = signIns
      /\ ended' = IF tab[t].op = "logout"
                  THEN ended \cup {k.of : k \in Cookie} ELSE ended
  BY DEF Arrive
<1>3. /\ tab'[t].at = "sent" /\ tab'[t].cookie = sent
      /\ \A u \in Tab \ {t} : tab'[u] = tab[u]
  BY <1>1, <1>2 DEF TypeOK, Sent
<1>4. \A k \in sent : k.of \in Kept'
  BY DEF Kept
<1>5. Kept' = Kept \/ Kept' \subseteq Carried(t)
  <2>1. CASE jar' = jar
    BY <2>1 DEF Kept
  <2>2. CASE jar' \in stored
    <3>1. PICK s \in tab[t].set :
            jar' = {[token |-> k, drop |-> now + MaxAge] : k \in s}
      BY <2>2
    <3>2. \A c \in jar' : c.token \in UNION tab[t].set
      BY <3>1
    <3> QED
      BY <1>2, <3>2 DEF Kept, Carried
  <2> QED
    BY <1>2, <2>1, <2>2
<1>6. Carried(t)' = {} /\ \A u \in Tab \ {t} : Carried(u)' = Carried(u)
  BY <1>3 DEF Carried
<1>7. ended' \subseteq ended \cup Kept
  <2>1. \A k \in Cookie : k.of \in Kept
    BY DEF Cookie, Kept
  <2> QED
    BY <1>2, <2>1
<1>8. tab[t].op = "logout" => Kept' = {}
  <2> SUFFICES ASSUME tab[t].op = "logout" PROVE jar' = {}
    BY DEF Kept
  <2>1. tab[t].set = {{}}
    BY <1>2 DEF LogoutInv
  <2> QED
    BY <1>2, <2>1
<1>9. tab[t].op # "logout" => ended' = ended
  BY <1>2
<1>10. Used' = Used
  BY <1>2 DEF Used
<1>11. ended' \subseteq Used'
  BY <1>7, <1>10, SessionsUsed DEF LogoutInv
<1>12. Kept' \cap ended' = {}
  BY <1>5, <1>8, <1>9 DEF LogoutInv
<1>13. \A u \in Tab : Carried(u)' \cap (ended' \cup Kept') = {}
  BY <1>5, <1>6, <1>7 DEF LogoutInv
<1>14. \A u, v \in Tab : u # v => Carried(u)' \cap Carried(v)' = {}
  BY <1>6 DEF LogoutInv
<1>15. \A u \in Tab : tab'[u].at = "answer" /\ tab'[u].op = "logout" =>
         tab'[u].set = {{}}
  BY <1>3 DEF LogoutInv
<1> QED
  BY <1>3, <1>4, <1>11, <1>12, <1>13, <1>14, <1>15 DEF LogoutInv

(* Every step keeps the invariant, and a tab that sends a request sends the
   cookie the jar holds then. *)
LEMMA NextLogout ==
    ASSUME SessionInv, LogoutInv, [Next]_vars
    PROVE  /\ LogoutInv'
           /\ \A t \in Tab : tab'[t] # tab[t] /\ tab'[t].at = "sent" =>
                \A k \in tab'[t].cookie : k.of \in Kept'
<1> DEFINE Sends(t) == tab'[t] # tab[t] /\ tab'[t].at = "sent" =>
                          \A k \in tab'[t].cookie : k.of \in Kept'
<1>1. TypeOK
  BY DEF SessionInv
<1>2. CASE UNCHANGED vars \/ Tick \/ Elsewhere
  <2>1. UNCHANGED <<jar, tab, signIns, ended>>
    BY <1>2 DEF vars, Tick, Elsewhere
  <2> QED
    BY <2>1 DEF LogoutInv, Kept, Carried, Used
<1>3. ASSUME NEW t \in Tab, NEW v, tab' = [tab EXCEPT ![t] = v]
      PROVE  /\ tab'[t] = v /\ \A u \in Tab \ {t} : tab'[u] = tab[u]
             /\ v.at # "sent" => \A u \in Tab : Sends(u)
  BY <1>1, <1>3 DEF TypeOK
<1>4. ASSUME NEW t \in Tab, NEW v, tab' = [tab EXCEPT ![t] = v],
             v.at # "sent",
             v.at = "answer" => /\ UNION v.set = {}
                                /\ v.op = "logout" => v.set = {{}},
             UNCHANGED <<jar, signIns, ended>>
      PROVE  LogoutInv' /\ \A u \in Tab : Sends(u)
  BY <1>3, <1>4, BareStep
<1>5. ASSUME NEW t \in Tab, tab' = [tab EXCEPT ![t] = Idle],
             UNCHANGED <<jar, signIns, ended>>
      PROVE  LogoutInv' /\ \A u \in Tab : Sends(u)
  <2>1. Idle.at = "idle"
    BY DEF Idle
  <2> QED
    BY <1>4, <1>5, <2>1
<1>6. ASSUME NEW t \in Tab, NEW op, NEW set \in {{}, {{}}}, NEW next,
             tab' = [tab EXCEPT ![t] = Answer(op, set, next)],
             op = "logout" => set = {{}},
             UNCHANGED <<jar, signIns, ended>>
      PROVE  LogoutInv' /\ \A u \in Tab : Sends(u)
  <2>1. /\ Answer(op, set, next).at = "answer"
        /\ Answer(op, set, next).op = op /\ Answer(op, set, next).set = set
    BY DEF Answer
  <2>2. UNION set = {}
    BY <1>6
  <2> QED
    BY <1>4, <1>6, <2>1, <2>2
<1>7. ASSUME NEW t \in Tab, Ask(t)
      PROVE  LogoutInv' /\ \A u \in Tab : Sends(u)
  <2>1. PICK path : tab' = [tab EXCEPT ![t] = Sent(path, Cookie)]
    BY <1>7 DEF Ask
  <2>2. UNCHANGED <<jar, signIns, ended>>
    BY <1>7 DEF Ask
  <2>3. /\ Sent(path, Cookie).at = "sent"
        /\ Sent(path, Cookie).cookie = Cookie
    BY DEF Sent
  <2>4. LogoutInv'
    BY <2>1, <2>2, <2>3, BareStep
  <2>5. \A k \in Cookie : k.of \in Kept'
    BY <2>2 DEF Cookie, Kept
  <2> QED
    BY <1>3, <2>1, <2>3, <2>4, <2>5
<1>8. ASSUME NEW t \in Tab, RequireVerified(t) \/ LoginHandler(t)
      PROVE  LogoutInv' /\ \A u \in Tab : Sends(u)
  <2>1. UNCHANGED <<jar, signIns, ended>>
    BY <1>8 DEF RequireVerified, LoginHandler
  <2>2. \/ tab' = [tab EXCEPT ![t] = Idle]
        \/ \E op \in {"guard", "login"} : \E next :
             tab' = [tab EXCEPT ![t] = Answer(op, {}, next)]
        \/ tab' = [tab EXCEPT ![t] = [at |-> "idp"]]
    BY <1>8 DEF RequireVerified, requireAssuranceLevel, LoginHandler
  <2>3. [at |-> "idp"].at = "idp"
    OBVIOUS
  <2> QED
    BY <1>4, <1>5, <1>6, <2>1, <2>2, <2>3
<1>9. ASSUME NEW t \in Tab, RealMe(t) \/ Resubmit(t)
      PROVE  LogoutInv' /\ \A u \in Tab : Sends(u)
  <2>1. UNCHANGED <<jar, signIns, ended>>
    BY <1>9 DEF RealMe, Resubmit
  <2>2. CASE tab' = [tab EXCEPT ![t] = Idle]
    BY <1>5, <2>1, <2>2
  <2>3. ASSUME NEW a,
               tab' = [tab EXCEPT ![t] = [at |-> "callback", assertion |-> a]]
        PROVE  LogoutInv' /\ \A u \in Tab : Sends(u)
    <3>1. [at |-> "callback", assertion |-> a].at = "callback"
      OBVIOUS
    <3> QED
      BY <1>4, <2>1, <2>3, <3>1
  <2> QED
    BY <1>9, <2>2, <2>3 DEF RealMe, Resubmit
<1>10. ASSUME NEW t \in Tab, CallbackHandler(t)
       PROVE  LogoutInv' /\ \A u \in Tab : Sends(u)
  <2>1. PICK set, next :
          tab' = [tab EXCEPT ![t] = Answer("callback", set, next)]
    BY <1>10 DEF CallbackHandler, CreateSession
  <2>2. Answer("callback", set, next).at = "answer"
    BY DEF Answer
  <2> QED
    BY <1>3, <1>10, <2>1, <2>2, SetStep
<1>11. ASSUME NEW t \in Tab,
              CallbackRefused(t) \/ NotFound(t) \/ Lost(t) \/ LogoutHandler(t)
       PROVE  LogoutInv' /\ \A u \in Tab : Sends(u)
  <2>1. /\ UNCHANGED <<jar, signIns, ended>>
        /\ \/ tab' = [tab EXCEPT ![t] = Idle]
           \/ \E next : tab' = [tab EXCEPT ![t] = Answer("logout", {{}}, next)]
    BY <1>11 DEF CallbackRefused, NotFound, Lost, LogoutHandler
  <2> QED
    BY <1>5, <1>6, <2>1
<1>12. ASSUME NEW t \in Tab, Arrive(t)
       PROVE  LogoutInv' /\ \A u \in Tab : Sends(u)
  BY <1>12, StoreStep
<1> QED
  BY <1>2, <1>7, <1>8, <1>9, <1>10, <1>11, <1>12 DEF Next, Step

(* No cookie and no answer on its way holds a session that a logout ended. *)
THEOREM LogoutInvariance == Spec => []LogoutInv
<1>1. Init => LogoutInv
  BY DEF Init, LogoutInv, Kept, Carried, Used, Idle
<1>2. SessionInv /\ LogoutInv /\ [Next]_vars => LogoutInv'
  BY NextLogout
<1> QED
  BY <1>1, <1>2, SessionInvariance, PTL DEF Spec

(* LogoutHandler: once the answer to a logout has arrived, no tab sends the
   session it ended with a new request, for any number of tabs, people and
   sign-ins and whatever answers are still on their way. *)
THEOREM LogoutFinal == Spec => LogoutEnds
<1> DEFINE Clean == \A t \in Tab :
             /\ tab'[t] # tab[t]
             /\ tab'[t].at = "sent"
             => \A k \in tab'[t].cookie : k.of \notin ended'
<1>1. SessionInv /\ LogoutInv /\ [Next]_vars => [Clean]_vars
  <2> SUFFICES ASSUME SessionInv, LogoutInv, [Next]_vars, NEW t \in Tab,
                      tab'[t] # tab[t], tab'[t].at = "sent",
                      NEW k \in tab'[t].cookie
               PROVE  k.of \notin ended'
    OBVIOUS
  <2>1. k.of \in Kept' /\ Kept' \cap ended' = {}
    BY NextLogout DEF LogoutInv
  <2> QED
    BY <2>1
<1> QED
  BY <1>1, SessionInvariance, LogoutInvariance, PTL DEF Spec, LogoutEnds
=============================================================================
