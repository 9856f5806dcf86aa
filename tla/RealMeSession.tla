--------------------------- MODULE RealMeSession ---------------------------
(***************************************************************************)
(* The RealMe session of one browser with several tabs (packages/realme-go *)
(* and the routes of cmd/server/main.go).  The server keeps nothing: the   *)
(* session is a signed token in the browser's cookie, which every request  *)
(* copies when it is sent and every answer may replace when it arrives, in *)
(* whatever order the tabs' answers come.                                  *)
(*                                                                         *)
(* The tokens are signed with the entity ID (newCookieSessionStore), which *)
(* the metadata handler publishes.  A signature therefore does not show    *)
(* that a sign-in produced the token, and the guard also serves requests   *)
(* of other clients with tokens that none produced (Elsewhere).  Each      *)
(* token of this browser carries, as history, the sign-in it comes from,   *)
(* and the properties speak of those tokens only.                          *)
(*                                                                         *)
(* Optional values are sets with at most one element: no token is {}.      *)
(***************************************************************************)
EXTENDS Integers, FiniteSets

CONSTANTS
    Tab,            \* tabs of the browser, each with one request under way
    FLT,            \* federated login tokens of the people who sign in here
    SignIn,         \* names for the callbacks accepted (bounds them)
    MaxAge,         \* sessionMaxAge()
    MaxTime         \* bound on the clock

ASSUME SessionAssumption ==
    /\ MaxAge \in Nat \ {0}
    /\ MaxTime \in Nat

VARIABLES
    jar,        \* the session cookie in the browser
    tab,        \* what each tab is doing
    now,        \* the clock
    signIns,    \* history: the assertions the callback accepted
    ended,      \* history: sign-ins in the jar when a logout's answer arrived
    served      \* history: the request the last step let through to the API

vars == <<jar, tab, now, signIns, ended, served>>

LevelNone == 0
LevelLogin == 1
LevelVerified == 2

(* What RealMe asserts of a person: the class of the authentication context
   (none when there is no statement or no class; LowStrength stands for every
   class without "ModStrength" in it) and an FLT or none.  Nothing looks at
   the session index and the attributes that are copied into the token. *)
Assertion ==
    [context : {"none", "LowStrength", "ModStrength"},
     flt : {{}} \cup {{f} : f \in FLT}]

Level == {LevelNone, LevelLogin, LevelVerified}

(* identityClaims without the registered claims, and with them: a token. *)
Identity == [flt : FLT, level : Level]

Token == [id : Identity, exp : Nat, of : SignIn]

Idle == [at |-> "idle"]

(* A request on its way, with a copy of the cookie. *)
Sent(path, cookie) == [at |-> "sent", path |-> path, cookie |-> cookie]

(* An answer on its way: what it does to the cookie (set is {} when it does
   nothing, else holds the new content) and where it redirects. *)
Answer(op, set, next) ==
    [at |-> "answer", op |-> op, set |-> set, next |-> next]

Path ==
    {"/", "/api/wills", "/auth/login", "/auth/logout", "/auth/realme/login",
     "/auth/realme/verified"}

(* Patterns of main.go that a browser asks for (the callback's is used by
   RealMe's answer only); any other path is answered with 404. *)
Route == {"/api/wills", "/auth/login", "/auth/logout"}

(* Where the client may ask to be sent: a route, or (as "/") nowhere. *)
Target == Route \cup {"/"}

Init ==
    /\ jar = {}
    /\ tab = [t \in Tab |-> Idle]
    /\ now = 0
    /\ signIns = {}
    /\ ended = {}
    /\ served = {}

\* Mutant: every class that names a strength counts as verified.
assuranceLevel_AnyStrength(context) ==
    IF context = "none" THEN LevelNone
    ELSE IF context \in {"ModStrength", "LowStrength"} THEN LevelVerified
    ELSE LevelLogin

(* LevelNone when the assertion has no authentication statement or class. *)
assuranceLevel(context) ==
    IF context = "none" THEN LevelNone
    ELSE IF context = "ModStrength" THEN LevelVerified
    ELSE LevelLogin

(* No identity without an FLT. *)
extractIdentity(a) ==
    {[flt |-> f, level |-> assuranceLevel(a.context)] : f \in a.flt}

(* The session in the cookie of a request, unless the token has expired. *)
GetSession(cookie) == {k \in cookie : now < k.exp}

(* The cookie the browser sends: it drops it when its Max-Age is over, which
   counts from the arrival of the answer. *)
Cookie == {c.token : c \in {d \in jar : now < d.drop}}

ServesNobody == served' = {}

(* The sign-ins so far. *)
Used == {s.of : s \in signIns}

(* A tab asks for a page, or its person signs in or out. *)
Ask(t) ==
    /\ tab[t] = Idle
    /\ \E path \in Route : tab' = [tab EXCEPT ![t] = Sent(path, Cookie)]
    /\ UNCHANGED <<jar, now, signIns, ended>> /\ ServesNobody

At(t, path) == tab[t].at = "sent" /\ tab[t].path = path

(* The guard: without a session the request is sent to the login, with too
   low a level to redirectTo, else the handler runs with the identity. *)
requireAssuranceLevel(t, required, redirectTo) ==
    LET session == GetSession(tab[t].cookie)
        allowed == {k \in session : k.id.level >= required}
    IN  /\ served' = {[by |-> {k.of}, flt |-> k.id.flt, at |-> now]
                         : k \in allowed}
        /\ tab' = [tab EXCEPT ![t] =
             IF session = {} THEN Answer("guard", {}, "/auth/realme/login")
             ELSE IF allowed = {} THEN Answer("guard", {}, redirectTo)
             ELSE Idle]

RequireVerified(t) ==
    /\ At(t, "/api/wills")
    /\ requireAssuranceLevel(t, LevelVerified, "/auth/realme/verified")
    /\ UNCHANGED <<jar, now, signIns, ended>>

(* The guard lets another client's request through, whose token says that it
   is f, verified: no sign-in that this model follows produced it. *)
Elsewhere ==
    /\ \E f \in FLT : served' = {[by |-> {}, flt |-> f, at |-> now]}
    /\ UNCHANGED <<jar, tab, now, signIns, ended>>

(* A live session, of whatever level, goes straight to the page named by the
   query parameter "return"; otherwise the person is sent to RealMe. *)
LoginHandler(t) ==
    /\ At(t, "/auth/login")
    /\ \E return \in Target :
        tab' = [tab EXCEPT ![t] =
          IF GetSession(tab[t].cookie) # {} THEN Answer("login", {}, return)
          ELSE [at |-> "idp"]]
    /\ UNCHANGED <<jar, now, signIns, ended>> /\ ServesNobody

(* RealMe authenticates the person and sends the browser back with an
   assertion, or the person gives up. *)
RealMe(t) ==
    /\ tab[t].at = "idp"
    /\ \/ tab' = [tab EXCEPT ![t] = Idle]
       \/ \E a \in Assertion :
            tab' = [tab EXCEPT ![t] = [at |-> "callback", assertion |-> a]]
    /\ UNCHANGED <<jar, now, signIns, ended>> /\ ServesNobody

(* The browser posts a response again that was accepted before (a reloaded
   page): the handler passes ParseResponse no request ids and remembers no
   response, so it may be accepted again. *)
Resubmit(t) ==
    /\ tab[t] = Idle
    /\ \E s \in signIns :
        tab' = [tab EXCEPT ![t] =
                  [at |-> "callback", assertion |-> s.assertion]]
    /\ UNCHANGED <<jar, now, signIns, ended>> /\ ServesNobody

\* Mutant: the token outlives the session.
CreateSession_Prolonged(t, next) ==
    \E id \in extractIdentity(tab[t].assertion), n \in SignIn \ Used :
      /\ signIns' = signIns \cup
            {[of |-> n, assertion |-> tab[t].assertion, at |-> now]}
      /\ tab' = [tab EXCEPT ![t] =
           Answer("callback",
                  {{[id |-> id, exp |-> now + 2 * MaxAge, of |-> n]}}, next)]

(* The identity goes into a token that expires MaxAge from now. *)
CreateSession(t, next) ==
    \E id \in extractIdentity(tab[t].assertion), n \in SignIn \ Used :
      /\ signIns' = signIns \cup
            {[of |-> n, assertion |-> tab[t].assertion, at |-> now]}
      /\ tab' = [tab EXCEPT ![t] =
           Answer("callback",
                  {{[id |-> id, exp |-> now + MaxAge, of |-> n]}}, next)]

(* The RelayState of the posted form says where to go on. *)
CallbackHandler(t) ==
    /\ tab[t].at = "callback"
    /\ \E relayState \in Target : CreateSession(t, relayState)
    /\ UNCHANGED <<jar, now, ended>> /\ ServesNobody

(* ParseResponse refuses the response, or the assertion has no FLT. *)
CallbackRefused(t) ==
    /\ tab[t].at = "callback"
    /\ tab' = [tab EXCEPT ![t] = Idle]
    /\ UNCHANGED <<jar, now, signIns, ended>> /\ ServesNobody

\* Mutant: DeleteSession names another cookie.
LogoutHandler_OtherName(t) ==
    /\ At(t, "/auth/logout")
    /\ \E return \in Target :
        tab' = [tab EXCEPT ![t] = Answer("logout", {}, return)]
    /\ UNCHANGED <<jar, now, signIns, ended>> /\ ServesNobody

(* DeleteSession clears the cookie; copies of the token stay valid. *)
LogoutHandler(t) ==
    /\ At(t, "/auth/logout")
    /\ \E return \in Target :
        tab' = [tab EXCEPT ![t] = Answer("logout", {{}}, return)]
    /\ UNCHANGED <<jar, now, signIns, ended>> /\ ServesNobody

NotFound(t) ==
    /\ tab[t].at = "sent" /\ tab[t].path \notin Route
    /\ tab' = [tab EXCEPT ![t] = Idle]
    /\ UNCHANGED <<jar, now, signIns, ended>> /\ ServesNobody

(* The answer arrives: its cookie replaces the one in the jar and the browser
   follows the redirect with it. *)
Arrive(t) ==
    /\ tab[t].at = "answer"
    /\ LET stored == {{[token |-> k, drop |-> now + MaxAge] : k \in s}
                        : s \in tab[t].set}
       IN  \/ tab[t].set = {} /\ jar' = jar
           \/ stored # {} /\ jar' \in stored
    /\ ended' = IF tab[t].op = "logout"
                THEN ended \cup {k.of : k \in Cookie}
                ELSE ended
    /\ tab' = [tab EXCEPT ![t] =
         Sent(tab[t].next, {c.token : c \in {d \in jar' : now < d.drop}})]
    /\ UNCHANGED <<now, signIns>> /\ ServesNobody

(* The connection breaks, or the tab is closed. *)
Lost(t) ==
    /\ tab[t] # Idle
    /\ tab' = [tab EXCEPT ![t] = Idle]
    /\ UNCHANGED <<jar, now, signIns, ended>> /\ ServesNobody

Tick ==
    /\ now < MaxTime
    /\ now' = now + 1
    /\ UNCHANGED <<jar, tab, signIns, ended>> /\ ServesNobody

Step(t) ==
    \/ Ask(t) \/ RequireVerified(t) \/ LoginHandler(t) \/ RealMe(t)
    \/ Resubmit(t) \/ CallbackHandler(t) \/ CallbackRefused(t)
    \/ LogoutHandler(t) \/ NotFound(t) \/ Arrive(t) \/ Lost(t)

Next == Tick \/ Elsewhere \/ \E t \in Tab : Step(t)

Spec == Init /\ [][Next]_vars

-----------------------------------------------------------------------------
(* Types: what a tab holds, and what the jar and the histories hold. *)
TabState ==
    {Idle}
      \cup [at : {"sent"}, path : Path, cookie : SUBSET Token]
      \cup [at : {"answer"}, op : {"guard", "login", "callback", "logout"},
            set : SUBSET SUBSET Token, next : Path]
      \cup [at : {"idp"}]
      \cup [at : {"callback"}, assertion : Assertion]

(* Type correctness of the browser's cookie, its tabs and the histories. *)
TypeOK ==
    /\ jar \in SUBSET [token : Token, drop : Nat]
    /\ tab \in [Tab -> TabState]
    /\ now \in Nat
    /\ signIns \in SUBSET [of : SignIn, assertion : Assertion, at : Nat]
    /\ ended \in SUBSET SignIn
    /\ served \in SUBSET [by : SUBSET SignIn, flt : FLT, at : Nat]

(* RequireVerified and CreateSession: a request of this browser that reaches a
   handler of the API does so as the person whom RealMe verified in the very
   sign-in its token comes from, which was accepted less than MaxAge ago.  No
   sequence of redirects, sign-ins in other tabs or late answers prolongs a
   session, raises its level or gives it to somebody else.  (Nothing is said
   of tokens that no sign-in produced: see Elsewhere.) *)
SignInHonoured ==
    \A r \in served : \A n \in r.by :
      \E s \in signIns :
        /\ s.of = n
        /\ s.assertion.flt = {r.flt} /\ s.assertion.context = "ModStrength"
        /\ s.at <= r.at /\ r.at < s.at + MaxAge

(* The tokens in the jar, in requests and in answers. *)
TabTokens(t) ==
    IF tab[t].at = "sent" THEN tab[t].cookie
    ELSE IF tab[t].at = "answer" THEN UNION tab[t].set
    ELSE {}

Tokens == {c.token : c \in jar} \cup UNION {TabTokens(t) : t \in Tab}

(* A token is the trace of its sign-in, and expires MaxAge after it. *)
Earned(k) ==
    \E s \in signIns :
      /\ s.of = k.of
      /\ k.id \in extractIdentity(s.assertion)
      /\ k.exp = s.at + MaxAge /\ s.at <= now

(* The inductive invariant: every copy of a token in this browser, in the jar,
   in a request or in an answer, says what its sign-in said: GetSession trusts
   whatever token it can read. *)
SessionInv ==
    /\ TypeOK
    /\ \A k \in Tokens : Earned(k)
    /\ SignInHonoured

(* The sign-ins of the cookie in the jar and of the answer on its way to a
   tab. *)
Kept == {c.token.of : c \in jar}

Carried(t) ==
    IF tab[t].at = "answer" THEN {k.of : k \in UNION tab[t].set} ELSE {}

(* The inductive invariant behind LogoutEnds: the cookie holds no ended
   session and no answer on its way brings one back, because a session is set
   by one answer only and a logout's answer leaves the jar empty. *)
LogoutInv ==
    /\ ended \subseteq Used
    /\ Kept \cap ended = {}
    /\ \A t \in Tab : Carried(t) \cap (ended \cup Kept) = {}
    /\ \A t, u \in Tab : t # u => Carried(t) \cap Carried(u) = {}
    /\ \A t \in Tab : tab[t].at = "answer" /\ tab[t].op = "logout" =>
         tab[t].set = {{}}

(* LogoutHandler: once the answer to a logout has arrived, no tab sends the
   session it ended with a new request, whatever answers are still on their
   way and although a response may be posted again, which is a sign-in of its
   own.  (A request sent before that still carries the ended session.) *)
LogoutEnds ==
    [][\A t \in Tab :
         /\ tab'[t] # tab[t]
         /\ tab'[t].at = "sent"
         => \A k \in tab'[t].cookie : k.of \notin ended']_vars
=============================================================================
