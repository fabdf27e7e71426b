------------------------------- MODULE Session -------------------------------
(***************************************************************************)
(* The sessions of one client: what the Session plugin keeps in the stash  *)
(* of each request, the files of SessionStoreFile that the requests of all *)
(* threads and workers share, and the cookie that ties them together.      *)
(*                                                                         *)
(* A call of the plugin runs without a return to the event loop, and reads *)
(* at most one file: it is one step.  Between two calls of a request other *)
(* requests run.  The calls are operators on the stash q of a request.     *)
(*                                                                         *)
(* The data of a session is a record: the value, which stands for what all *)
(* its keys hold, the peer (address and user agent) it was created for,    *)
(* and the session it was created for, which the code does not have and    *)
(* the properties need.                                                    *)
(* Files are named by the id of the session; what is in them belongs to an *)
(* inode, so that a file that was removed lives on in an open handle.      *)
(***************************************************************************)
EXTENDS Integers, Sequences, FiniteSets, SequencesExt

CONSTANTS MaxRequests,      \* bound on the requests of the client
          MaxSessions,      \* bound on the sessions a request creates
          Values,           \* what a session holds, with one of its keys
          Peers,
          Threads,          \* each has an Application of its own
          Lifetime,         \* SessionPrivate::sessionExpires
          MaxTime,          \* bound on the clock
          Scenarios,        \* what client and application may do,
                            \* SessionPrivate::expiryThreshold, the values it
                            \* stores, where it keeps the secret of its forms,
                            \* and for how many requests and how long
          NoSid, NoPeer,
          NoValue,          \* a session without the key
          None              \* no session data at all

Habits == {"returns",       \* the client has a session from an earlier visit
           "moves",         \* the client changes its address
           "spreads",       \* its requests go to several threads or workers
           "overlaps",      \* they overlap
           "lingers",       \* the context outlives its request for a while
           "extends",       \* the application asks for and changes the expiry
           "idles",         \* a request may end without looking at its session
           "deletes",       \* ... delete it
           "deletesUnseen", \* ... delete it without having looked
           "deletesUpdated",\* ... delete it after it stored a value
           "storesLate",    \* ... store values in place of a deleted session
           "notifies",      \* the application uses StatusMessage
          "authenticates", \* ... Authentication
          "protects",      \* ... CSRFProtection
          "ignores",       \* ... and leaves some actions unprotected
          "mangles"}       \* the client returns a cookie it was not given

Requests == 1 .. MaxRequests
Sids     == Requests \X (1 .. MaxSessions)
Times    == 1 .. MaxTime
NoTime   == -1
NoFile   == 0
Home     == CHOOSE p \in Peers : TRUE

ASSUME SessionConstants ==
    /\ MaxRequests \in Nat \ {0} /\ MaxSessions \in Nat \ {0}
    /\ MaxTime \in Nat \ {0} /\ Lifetime \in Nat
    /\ \A s \in Scenarios : /\ s.habits \subseteq Habits /\ s.threshold \in Nat
                             /\ s.requests <= MaxRequests /\ s.time <= MaxTime
                             /\ s.values \subseteq Values \cup {NoValue}
                             /\ s.secretIn \in {"session", "cookie"}
    /\ NoSid \notin Sids /\ NoPeer \notin Peers
    /\ NoValue \notin Values /\ None \notin Values /\ NoValue # None

VARIABLES
    scenario,               \* chosen once
    now,
    client,                 \* the client's cookie, and what its session holds
    req,                    \* the requests, with their stashes
    dir, content,           \* the files of the store
    conns,                  \* contexts connected to afterDispatch by the store,
                            \* in the order of their connection
    dead,                   \* sessions that answered requests deleted
    alone                   \* no two requests were served at a time

vars == <<scenario, now, client, req, dir, content, conns, dead, alone>>

habits    == scenario.habits
threshold == scenario.threshold

Hash(v, p, o) == [value |-> v, peer |-> p, owner |-> o]
Null      == Hash(None, NoPeer, NoSid)
ToHash(h, sid) == IF h = Null THEN Hash(NoValue, NoPeer, sid) ELSE h
NoData    == [session |-> Null, expires |-> 0]

HashType   == [value : Values \cup {NoValue, None}, peer : Peers \cup {NoPeer},
               owner : Sids \cup {NoSid}]
Expiry     == {NoTime} \cup 0 .. MaxTime + 2 * Lifetime
DataType   == [session : HashType, expires : Expiry]
ClientType == [sid : Sids \cup {NoSid}, until : Expiry, value : Values \cup {NoValue},
               peer : Peers \cup {NoPeer}]

NewRequest == [pc |-> "new", thread |-> CHOOSE t \in Threads : TRUE, peer |-> NoPeer,
    client |-> [sid |-> NoSid, until |-> 0, value |-> NoValue, peer |-> NoPeer], past |-> {},
    id |-> NoSid, triedId |-> FALSE, deletedId |-> FALSE,
    values |-> Null, updated |-> FALSE,
    expires |-> NoTime, triedExpires |-> FALSE, extended |-> NoTime,
    setCookie |-> FALSE, cookie |-> NoSid, until |-> 0, created |-> 0,
    loaded |-> FALSE, data |-> NoData, save |-> FALSE, file |-> NoSid, inode |-> NoFile,
    read |-> NoValue, readAt |-> 0, gone |-> {}]

RequestType == [pc : {"new", "active", "answered", "done"}, thread : Threads,
    peer : Peers \cup {NoPeer}, client : ClientType, past : SUBSET Sids,
    id : Sids \cup {NoSid}, triedId : BOOLEAN, deletedId : BOOLEAN,
    values : HashType, updated : BOOLEAN,
    expires : Expiry, triedExpires : BOOLEAN, extended : Expiry,
    setCookie : BOOLEAN, cookie : Sids \cup {NoSid}, until : Expiry,
    created : 0 .. MaxSessions,
    loaded : BOOLEAN, data : DataType, save : BOOLEAN,
    file : Sids \cup {NoSid}, inode : {NoFile} \cup Requests,
    read : Values \cup {NoValue}, readAt : {0} \cup Times, gone : SUBSET Sids]

TypeOK ==
    /\ now \in Times
    /\ client \in ClientType
    /\ \A r \in Requests : req[r] \in RequestType
    /\ dir \in [Sids -> {NoFile} \cup Requests]
    /\ content \in [Requests -> DataType]
    /\ Len(conns) <= MaxRequests /\ Range(conns) \subseteq Requests
    /\ dead \subseteq Sids
    /\ alone \in BOOLEAN

Init ==
    /\ scenario \in Scenarios
    /\ now = 1
    /\ LET old == "returns" \in habits
           sid == <<1, 1>>
           until == 1 + Lifetime
       IN \E v \in IF old THEN scenario.values \ {NoValue} ELSE {NoValue} :
          /\ client = IF old THEN [sid |-> sid, until |-> until, value |-> v, peer |-> Home]
                            ELSE NewRequest.client
          /\ req = [r \in Requests |-> [NewRequest EXCEPT
                        !.pc = IF old /\ r = 1 THEN "done" ELSE "new"]]
          /\ dir = [s \in Sids |-> IF old /\ s = sid THEN 1 ELSE NoFile]
          /\ content = [r \in Requests |-> IF old /\ r = 1
                            THEN [session |-> Hash(v, Home, sid), expires |-> until]
                            ELSE NoData]
    /\ conns = <<>>
    /\ dead = {}
    /\ alone = TRUE

----------------------------------------------------------------------------
(* The store: SessionStoreFile and its loadSessionData.                     *)

\* Opening creates the file; without an id it fails, and nothing is kept.
LoadData(r, q, sid) ==
    IF q.loaded \/ sid = NoSid THEN q
    ELSE LET i == IF dir[sid] = NoFile THEN r ELSE dir[sid]
         IN [q EXCEPT !.loaded = TRUE, !.data = content[i], !.file = sid, !.inode = i]

\* storeSessionData and deleteSessionData, of a stash that was loaded.
Stored(q, data)    == [q EXCEPT !.loaded = TRUE, !.data = data, !.save = TRUE]
StoreExpires(q, e) == Stored(q, [q.data EXCEPT !.expires = e])
StoreSession(q, h) == Stored(q, [q.data EXCEPT !.session = h])

\* Wrong variant: the data is taken from the context the signal carries.
HandledBySignal(stash, own, emitted) ==
    [stash[own] EXCEPT !.data = stash[emitted].data, !.save = stash[emitted].save]

\* The handler uses the context it was connected for.
Handled(stash, own, emitted) == stash[own]

----------------------------------------------------------------------------
(* SessionPrivate.                                                          *)

LoadId(q) ==
    IF q.id # NoSid \/ q.triedId THEN q
    ELSE [q EXCEPT !.triedId = TRUE,
                   !.id = IF q.deletedId THEN NoSid ELSE q.client.sid]

SetCookie(q, sid, until) ==
    [q EXCEPT !.setCookie = TRUE, !.cookie = sid, !.until = until]

Own(q) == {IF q.id # NoSid THEN q.id ELSE q.client.sid} \ {NoSid}
Reset(q) == [q EXCEPT !.deletedId = TRUE, !.values = Null, !.id = NoSid,
                      !.expires = NoTime, !.gone = @ \cup Own(q)]

\* Wrong variant: only the cookie and the stash are reset.
DoDeleteStash(r, q) == Reset(SetCookie(q, NoSid, now))

\* deleteSession, also of a session that expired or belongs to another peer.
DoDelete(r, q) ==
    Reset(SetCookie(Stored(LoadData(r, q, q.id), NoData), NoSid, now))

\* Wrong variant: a session is over in the second it expires.
CheckExpiresStrict(r, q) ==
    IF q.id = NoSid THEN q
    ELSE IF q.data.expires > now THEN [q EXCEPT !.expires = q.data.expires]
    ELSE DoDelete(r, q)

CheckExpires(r, q) ==
    IF q.id = NoSid THEN q
    ELSE IF q.data.expires >= now THEN [q EXCEPT !.expires = q.data.expires]
    ELSE DoDelete(r, q)

\* loadSessionExpires, and whether what it returns is a value: it is 0, which
\* is one, after the session was found to have expired.
LoadExpires(r, q) ==
    IF q.triedExpires THEN q
    ELSE CheckExpires(r, LoadData(r, [q EXCEPT !.triedExpires = TRUE], q.id))
ReturnsExpires(q) == IF q.triedExpires THEN q.expires # NoTime ELSE q.id # NoSid

\* loadSession, without and with the test for what is in the stash.
Restore(r, q) ==
    IF q.data.session.peer \in {NoPeer, q.peer}
    THEN [q EXCEPT !.values = ToHash(q.data.session, q.id)]
    ELSE DoDelete(r, q)
FindSession(r, q) ==
    IF ReturnsExpires(q) /\ q.id # NoSid
    THEN Restore(r, LoadData(r, LoadExpires(r, q), q.id))
    ELSE LoadExpires(r, q)
Seen(q) == IF q.readAt # 0 THEN q
           ELSE [q EXCEPT !.readAt = now,
                          !.read = IF q.values = Null THEN NoValue ELSE q.values.value]
LoadSession(r, q) == IF q.values # Null THEN q ELSE Seen(FindSession(r, LoadId(q)))

InitialExpires == now + Lifetime
CalculateExpires(q) ==
    IF q.data.expires > InitialExpires THEN q.data.expires ELSE InitialExpires

\* createSessionIdIfNeeded, then initializeSessionData.
CreateSessionId(q, sid) ==
    [SetCookie(q, sid, InitialExpires) EXCEPT
        !.id = sid, !.created = @ + 1, !.triedExpires = TRUE,
        !.expires = CalculateExpires(q), !.extended = CalculateExpires(q)]
Initialize(q) == [q EXCEPT !.values = Hash(NoValue, q.peer, q.id)]
CreateSession(r, q) ==
    IF q.id # NoSid THEN Initialize(q)
    ELSE Initialize(CreateSessionId(LoadData(r, q, <<r, q.created + 1>>), <<r, q.created + 1>>))

\* Session::expires with extendSessionExpires, and what it returns.
ExtendLoaded(q) ==
    IF threshold = 0 \/ q.data.expires - threshold <= now \/ q.updated
    THEN [SetCookie(q, q.id, CalculateExpires(q)) EXCEPT !.extended = CalculateExpires(q)]
    ELSE q
Extend(r, q) == IF q.id = NoSid THEN q ELSE ExtendLoaded(LoadData(r, q, q.id))
ExpiresOf(r, q) == IF ReturnsExpires(q) THEN Extend(r, LoadExpires(r, q)) ELSE LoadExpires(r, q)
Expires(r, q) == IF q.extended # NoTime THEN q ELSE ExpiresOf(r, LoadId(q))
ReturnedExpires(q) == IF q.extended # NoTime THEN q.extended ELSE q.data.expires

\* saveSessionExpires.
StoreIfLater(r, q, current) ==
    IF ReturnedExpires(q) > current
    THEN StoreExpires(LoadData(r, q, q.id), ReturnedExpires(q))
    ELSE q
SaveIfLater(r, q) == StoreIfLater(r, Expires(r, q), q.data.expires)
SaveExpires(r, q) ==
    IF q.expires = NoTime \/ LoadId(q).id = NoSid THEN q
    ELSE SaveIfLater(r, LoadData(r, LoadId(q), LoadId(q).id))

\* _q_saveSession.
StoreValues(r, q) ==
    IF ~q.updated THEN q
    ELSE LET l == LoadData(r, q, q.id) IN StoreSession(l, ToHash(q.values, l.file))
SaveSession(r, q) == StoreValues(r, SaveExpires(r, Expires(r, SaveExpires(r, q))))

----------------------------------------------------------------------------
(* The calls of the application.                                            *)

Touches(r) == req[r].pc = "active"

\* A call that leaves q as the stash of r.
Becomes(r, q) ==
    /\ req' = [req EXCEPT ![r] = q]
    /\ IF q.file = req[r].file THEN UNCHANGED <<dir, conns>>
       ELSE /\ dir' = [dir EXCEPT ![q.file] = q.inode]
            /\ conns' = Append(conns, r)
    /\ UNCHANGED <<scenario, now, client, content, dead, alone>>

\* Session::value, isValid.
Value(r) ==
    /\ Touches(r)
    /\ Becomes(r, LoadSession(r, req[r]))

\* Session::setValue, and with NoValue deleteValue and deleteValues.
MayStore(q) ==
    /\ q.deletedId => "storesLate" \in habits
    /\ q.created < MaxSessions \/ q.values # Null
WithValue(q, v) == [q EXCEPT !.values.value = v, !.updated = TRUE]
StoreValue(r, q, v) == WithValue(IF q.values = Null THEN CreateSession(r, q) ELSE q, v)
SetValue(r, v) ==
    /\ Touches(r)
    /\ \E q \in {LoadSession(r, req[r])} : MayStore(q) /\ Becomes(r, StoreValue(r, q, v))

CallExpires(r) ==
    /\ Touches(r) /\ "extends" \in habits
    /\ Becomes(r, Expires(r, req[r]))

\* Session::changeExpires, of a session the request has.
ChangeExpires(r) ==
    /\ Touches(r) /\ "extends" \in habits
    /\ req[r].id # NoSid /\ req[r].readAt # 0
    /\ Becomes(r, StoreExpires(LoadData(r, req[r], req[r].id), now + 2 * Lifetime))

\* Session::deleteSession.
DeleteSession(r) ==
    /\ Touches(r) /\ "deletes" \in habits
    /\ req[r].readAt # 0 \/ "deletesUnseen" \in habits
    /\ ~req[r].updated \/ "deletesUpdated" \in habits
    /\ Becomes(r, DoDelete(r, req[r]))

----------------------------------------------------------------------------
(* The requests and their client.                                           *)

\* Requests are numbered in the order they arrive.
Start(r, t, p) ==
    /\ req[r].pc = "new" /\ r <= scenario.requests
    /\ \A o \in Requests : o < r => req[o].pc # "new"
    /\ "overlaps" \in habits \/ \A o \in Requests : o < r => req[o].pc = "done"
    /\ "moves" \in habits \/ p = Home
    /\ "spreads" \in habits \/ t = NewRequest.thread
    /\ req' = [req EXCEPT ![r] = [NewRequest EXCEPT !.pc = "active", !.thread = t,
                                      !.peer = p, !.client = client, !.past = dead]]
    /\ alone' = (alone /\ conns = <<>> /\ \A o \in Requests : o < r => req[o].pc = "done")
    /\ UNCHANGED <<scenario, now, client, dir, content, conns, dead>>

\* The stash dies with the context; the response that is on its way does not.
Forget(q) == IF q.pc = "done" THEN [NewRequest EXCEPT !.pc = "done"]
             ELSE [NewRequest EXCEPT !.pc = q.pc, !.setCookie = q.setCookie,
                       !.cookie = q.cookie, !.until = q.until, !.values = q.values,
                       !.deletedId = q.deletedId]

\* Application::afterDispatch is emitted: first to the plugin, then to the
\* store for every context connected to this application before the emission.
\* The context goes with the answer, unless its connection has to be closed.
\* Those that save write their data, the last one last, or remove the file.
Emit(r, q, stash) ==
    LET by(i)     == Handled(stash, conns[i], r)
        saves     == {i \in DOMAIN conns : req[conns[i]].thread = q.thread /\ by(i).save}
        writes(n) == {i \in saves : by(i).data # NoData /\ by(i).inode = n}
    IN /\ dir' = [s \in Sids |->
                     IF \E i \in saves : by(i).data = NoData /\ by(i).file = s THEN NoFile
                     ELSE IF s = q.file /\ s # req[r].file THEN q.inode ELSE dir[s]]
       /\ content' = [n \in Requests |->
                         IF writes(n) = {} THEN content[n] ELSE by(Max(writes(n))).data]

AfterDispatch(r) ==
    /\ Touches(r)
    /\ "idles" \in habits \/ req[r].client.sid = NoSid \/ req[r].readAt # 0 \/ req[r].deletedId
    /\ \E q \in {[SaveSession(r, req[r]) EXCEPT !.pc = "answered"]} :
          /\ Emit(r, q, [req EXCEPT ![r] = q])
          /\ \/ /\ conns' = RemoveFirst(conns, r)
                /\ req' = [req EXCEPT ![r] = Forget(q)]
             \/ /\ "lingers" \in habits /\ r \in Range(conns)
                /\ conns' = conns
                /\ req' = [req EXCEPT ![r] = q]
          /\ dead' = dead \cup q.gone
    /\ UNCHANGED <<scenario, now, client, alone>>

\* The context of an answered request is deleted.
ContextDeleted(r) ==
    /\ req[r].pc \in {"answered", "done"} /\ r \in Range(conns)
    /\ conns' = RemoveFirst(conns, r)
    /\ req' = [req EXCEPT ![r] = Forget(req[r])]
    /\ UNCHANGED <<scenario, now, client, dir, content, dead, alone>>

\* The response reaches the client, with the cookies of head.
AnsweredWith(r, head) ==
    LET q == req[r] IN
    /\ q.pc = "answered"
    /\ req' = [req EXCEPT ![r] = LET d == [q EXCEPT !.pc = "done"]
                                 IN IF r \in Range(conns) THEN d ELSE Forget(d)]
    /\ client' = [sid   |-> IF head.setCookie THEN head.cookie ELSE client.sid,
                  until |-> IF head.setCookie THEN head.until ELSE client.until,
                  value |-> IF q.values # Null THEN q.values.value
                            ELSE IF q.deletedId THEN NoValue ELSE client.value,
                  peer  |-> IF q.values # Null THEN q.values.peer ELSE client.peer]
    /\ UNCHANGED <<scenario, now, dir, content, conns, dead, alone>>

Answered(r) == AnsweredWith(r, req[r])

\* The client drops a cookie that has expired.
CookieExpires ==
    /\ client.sid # NoSid /\ client.until < now
    /\ client' = [client EXCEPT !.sid = NoSid]
    /\ UNCHANGED <<scenario, now, req, dir, content, conns, dead, alone>>

Tick ==
    /\ now < scenario.time
    /\ now' = now + 1
    /\ UNCHANGED <<scenario, client, req, dir, content, conns, dead, alone>>

Over ==
    /\ \A r \in 1 .. scenario.requests : req[r].pc = "done"
    /\ UNCHANGED vars

Call(r) ==
    \/ Value(r)
    \/ \E v \in scenario.values : SetValue(r, v)
    \/ CallExpires(r) \/ ChangeExpires(r) \/ DeleteSession(r)

Next ==
    \/ \E r \in Requests :
          \/ \E t \in Threads, p \in Peers : Start(r, t, p)
          \/ Call(r)
          \/ AfterDispatch(r) \/ ContextDeleted(r) \/ Answered(r)
    \/ CookieExpires \/ Tick \/ Over

Spec == Init /\ [][Next]_vars
=============================================================================
