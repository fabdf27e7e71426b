--------------------------- MODULE SessionClients ---------------------------
(***************************************************************************)
(* The plugins that keep something in the session: StatusMessage,          *)
(* Authentication and CSRFProtection.                                      *)
(*                                                                         *)
(* Each call of them makes several calls of Session without a return to    *)
(* the event loop and is one step.  What they hold of a request is in the  *)
(* stash of its context, and ends with it.                                 *)
(*                                                                         *)
(* A message, its token and a secret are named by the request that made    *)
(* them.  A token of a form is the secret it was salted from: two tokens   *)
(* are compared without their salt.  Passwords are not modelled: that      *)
(* credential and store know a user is a choice.                           *)
(***************************************************************************)
EXTENDS Session

CONSTANTS Users, Realms,
          DefaultRealm          \* what AuthenticationPrivate looks for without a name:
                                \* nothing sets it, so that it is the empty name

Somebody == Users \X Realms
Secrets  == Requests \cup {None}

\* What a session holds: a key of the application's own, the id and the realm of
\* the user, the messages, and the secret of the forms.
Contents == [own : BOOLEAN, user : Users \cup {None}, realm : Realms \cup {None},
             messages : SUBSET Requests, secret : Secrets]
Bare == [own |-> FALSE, user |-> None, realm |-> None, messages |-> {}, secret |-> None]

VARIABLES
    page,                   \* what the plugins keep in the stash of each request,
                            \* and what they told it
    cookie,                 \* the secret in the client's cookie, and its expiry
    forms,                  \* the secret in the form of each request
    login, untold, valid    \* what the session should hold: who logged in last,
                            \* the messages that were not shown, and the forms
                            \* that belong to it

plugins == <<page, cookie, forms, login, untold, valid>>

Malformed == 0
CookieType == [secret : Secrets \cup {Malformed}, until : Expiry]

\* The values of a session are its contents, and nobody and nothing are not values.
ASSUME ClientsConstants ==
    /\ Contents \ {Bare} \subseteq Values
    /\ None \notin Users /\ None \notin Requests \cup {Malformed}

NewPage == [cookie |-> [secret |-> None, until |-> 0], dispatched |-> FALSE,
    user |-> None, secret |-> None, setCookie |-> FALSE, head |-> None,
    seen |-> None, loggedIn |-> None, shown |-> FALSE, owed |-> FALSE,
    check |-> "none", ours |-> FALSE]

ClientsTypeOK ==
    /\ TypeOK
    /\ cookie \in CookieType
    /\ forms \in [Requests -> Secrets]
    /\ login \in Somebody \cup {None}
    /\ untold \subseteq Requests /\ valid \subseteq Requests
    /\ \A r \in Requests :
          LET p == page[r] IN
          /\ p.cookie \in CookieType /\ p.user \in Somebody \cup {None}
          /\ p.secret \in Secrets /\ p.check \in {"none", "accepted", "rejected"}

ClientsInit ==
    /\ Init
    /\ page = [r \in Requests |-> NewPage]
    /\ cookie = NewPage.cookie
    /\ forms = [r \in Requests |-> None]
    /\ login = None /\ untold = {} /\ valid = {}

----------------------------------------------------------------------------
(* Session::value, setValue and deleteValues, of the stash q.               *)

Held(q)   == IF q.values.value \in {NoValue, None} THEN Bare ELSE q.values.value
Put(r, q, c) == StoreValue(r, q, IF c = Bare THEN NoValue ELSE c)

\* A call of a plugin that leaves q as the stash of Session and p as its own.
Leaves(r, q, p) ==
    /\ Becomes(r, q)
    /\ page' = [page EXCEPT ![r] = p]

Calls(r, habit) ==
    /\ Touches(r) /\ habit \in habits
    /\ "protects" \in habits => page[r].dispatched

----------------------------------------------------------------------------
(* StatusMessage.                                                           *)

\* status and error: a message under a new token.
Status(r) ==
    /\ Calls(r, "notifies")
    /\ \E q \in {LoadSession(r, req[r])} :
          /\ MayStore(q)
          /\ Leaves(r, Put(r, q, [Held(q) EXCEPT !.messages = @ \cup {r}]), page[r])
    /\ untold' = untold \cup {r}
    /\ UNCHANGED <<cookie, forms, login, valid>>

\* Wrong variant: the message stays in the session.
ShownKeeps(r, q, t) == q
\* load, of a session that has the message: it is taken out.
Shown(r, q, t) == Put(r, q, [Held(q) EXCEPT !.messages = @ \ {t}])

Load(r, t) ==
    /\ Calls(r, "notifies")
    /\ \E q \in {LoadSession(r, req[r])} :
          LET found == t \in Held(q).messages
              p == [page[r] EXCEPT !.shown = found, !.owed = t \in untold]
          IN Leaves(r, IF found THEN Shown(r, q, t) ELSE q, p)
    /\ untold' = untold \ {t}
    /\ UNCHANGED <<cookie, forms, login, valid>>

----------------------------------------------------------------------------
(* Authentication.                                                          *)

\* findRealmForPersistedUser: the session has a user.
Restorable(q) == Held(q).user # None
\* restoreUser, which is called without the name of a realm: a realm of the default
\* name comes before that of the session, whoever the user is.
RealmOf(q)  == IF DefaultRealm \in Realms THEN DefaultRealm ELSE Held(q).realm
Restored(q) == IF Restorable(q) THEN <<Held(q).user, RealmOf(q)>> ELSE None

\* Wrong variant: the realm that is persisted is the first that ever was.
PersistUserOnce(r, q, who) ==
    Put(r, q, [Held(q) EXCEPT !.user = who[1], !.realm = IF @ = None THEN who[2] ELSE @])
PersistUser(r, q, who) ==
    Put(r, q, [Held(q) EXCEPT !.user = who[1], !.realm = who[2]])

\* authenticate, of a user the credential accepts. One it does not accept leaves
\* everything as it is.
Authenticate(r, who) ==
    /\ Calls(r, "authenticates")
    /\ \E q \in {LoadSession(r, req[r])} :
          /\ MayStore(q)
          /\ Leaves(r, PersistUser(r, q, who), [page[r] EXCEPT !.user = who])
    /\ login' = who
    /\ UNCHANGED <<cookie, forms, untold, valid>>

\* user: from the stash of the request, or else restored into it.
User(r) ==
    /\ Calls(r, "authenticates")
    /\ \E q \in {IF page[r].user # None THEN req[r] ELSE LoadSession(r, req[r])} :
          LET who == IF page[r].user # None THEN page[r].user ELSE Restored(q)
          IN Leaves(r, q, [page[r] EXCEPT !.user = who, !.seen = who, !.loggedIn = login])
    /\ UNCHANGED <<cookie, forms, login, untold, valid>>

\* logout. The realm under the key of the plugin stays in the session:
\* removePersistedUser deletes the one that it had stored itself.
Logout(r) ==
    /\ Calls(r, "authenticates")
    /\ \E q \in {LoadSession(r, req[r])} :
          /\ Restorable(q) => MayStore(q)
          /\ Leaves(r, IF Restorable(q) THEN Put(r, q, [Held(q) EXCEPT !.user = None]) ELSE q,
                    [page[r] EXCEPT !.user = None])
    /\ login' = None
    /\ UNCHANGED <<cookie, forms, untold, valid>>

----------------------------------------------------------------------------
(* CSRFProtection.                                                          *)

InSession == scenario.secretIn = "session"

\* getToken: None when there is none, and a new one for one that is malformed.
GetToken(r, q) ==
    IF InSession THEN Held(q).secret
    ELSE IF page[r].cookie.secret = Malformed THEN r ELSE page[r].cookie.secret

\* setToken: into the session or the cookie of the answer.
SetToken(r, q, p) ==
    IF InSession THEN Leaves(r, Put(r, q, [Held(q) EXCEPT !.secret = p.secret]), p)
    ELSE Leaves(r, q, [p EXCEPT !.setCookie = p.head = None])

\* Wrong variant: every request makes a secret of its own.
SecretOfRequest(r, token) == r
\* The secret of the page is the one of the client, if it has one.
SecretOfPage(r, token) == IF token = None THEN r ELSE token

\* reject: without an action to detach to, the answer is sent, with the cookies it
\* has. The dispatch goes on.
Rejected(q, p) ==
    [p EXCEPT !.check = "rejected", !.head = q]

\* The check of a request with an unsafe method and the token of form f, or none.
Checked(r, q, p, f) ==
    LET token == GetToken(r, q)
        tried == [p EXCEPT !.ours = f \in valid]
    IN IF token # None /\ f # None /\ forms[f] = token
       THEN [tried EXCEPT !.check = "accepted"] ELSE Rejected(q, tried)

\* beforeDispatch: the token of an action that is not protected is neither checked
\* nor kept, and only a new one is kept.
Arrived(r, q) ==
    [page[r] EXCEPT !.dispatched = TRUE, !.secret = SecretOfPage(r, GetToken(r, q))]
Kinds == {"safe", "unsafe"} \cup IF "ignores" \in habits THEN {"ignored"} ELSE {}
Sent  == {None} \cup {f \in Requests : req[f].pc = "done" /\ forms[f] # None}

BeforeDispatch(r, kind, f) ==
    /\ Touches(r) /\ "protects" \in habits /\ ~page[r].dispatched
    /\ \E q \in {IF InSession THEN LoadSession(r, req[r]) ELSE req[r]} :
          LET p == IF kind = "unsafe" THEN Checked(r, q, Arrived(r, q), f) ELSE Arrived(r, q)
          IN IF GetToken(r, q) = None /\ kind # "ignored"
             THEN MayStore(q) /\ SetToken(r, q, p)
             ELSE Leaves(r, q, p)
    /\ UNCHANGED <<cookie, forms, login, untold, valid>>

\* getToken of the application: the page gets a form.
TokenFormField(r) ==
    /\ Calls(r, "protects") /\ page[r].head = None
    /\ forms' = [forms EXCEPT ![r] = page[r].secret]
    /\ valid' = valid \cup {r}
    /\ UNCHANGED <<vars, page, cookie, login, untold>>

----------------------------------------------------------------------------
(* The requests and their client.                                           *)

\* What a session held is not expected of the next one.
Returned == {cookie} \cup IF "mangles" \in habits THEN {[cookie EXCEPT !.secret = Malformed]} ELSE {}
Arrives(r) ==
    /\ \E c \in Returned : page' = [page EXCEPT ![r] = [NewPage EXCEPT !.cookie = c]]
    /\ login'  = IF client.sid = NoSid THEN None ELSE login
    /\ untold' = IF client.sid = NoSid THEN {} ELSE untold
    /\ valid'  = IF (IF InSession THEN client.sid = NoSid ELSE cookie.secret = None)
                 THEN {} ELSE valid
    /\ UNCHANGED <<cookie, forms>>

\* The cookies of an answer are those it had when it was sent.
ClientAnswered(r) ==
    /\ AnsweredWith(r, IF page[r].head = None THEN req[r] ELSE page[r].head)
    /\ cookie' = IF page[r].setCookie
                 THEN [secret |-> page[r].secret, until |-> now + Lifetime] ELSE cookie
    /\ page' = [page EXCEPT ![r] = NewPage]
    /\ UNCHANGED <<forms, login, untold, valid>>

\* The client drops the cookie of the forms.
FormCookieExpires ==
    /\ cookie.secret # None /\ cookie.until < now
    /\ cookie' = NewPage.cookie
    /\ UNCHANGED <<vars, page, forms, login, untold, valid>>

PluginCall(r) ==
    \/ Status(r)
    \/ \E t \in Requests : t <= r /\ Load(r, t)
    \/ \E who \in Somebody : Authenticate(r, who)
    \/ User(r) \/ Logout(r)
    \/ \E kind \in Kinds, f \in Sent : (kind = "unsafe" \/ f = None) /\ BeforeDispatch(r, kind, f)
    \/ TokenFormField(r)

ClientsNext ==
    \/ \E r \in Requests :
          \/ (\E t \in Threads, p \in Peers : Start(r, t, p)) /\ Arrives(r)
          \/ PluginCall(r)
          \/ ClientAnswered(r)
          \/ (Call(r) \/ AfterDispatch(r) \/ ContextDeleted(r)) /\ UNCHANGED plugins
    \/ FormCookieExpires
    \/ (CookieExpires \/ Tick \/ Over) /\ UNCHANGED plugins

ClientsSpec == ClientsInit /\ [][ClientsNext]_<<vars, plugins>>
=============================================================================
