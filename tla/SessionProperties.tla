-------------------------- MODULE SessionProperties --------------------------
(***************************************************************************)
(* What must hold of the sessions in Session, and of SessionClients.       *)
(***************************************************************************)
EXTENDS SessionClients

\* A client whose requests do not overlap finds in its session what its last
\* request left there, as long as its cookie has not expired: the stash, the
\* data of the store, the two expiry times and the cookie have to agree at the
\* end of each request (session.cpp:341-364, sessionstorefile.cpp:115-144).
StoredIsKept ==
    \A r \in Requests :
        LET q == req[r] IN
        alone /\ q.readAt # 0 /\ q.client.sid # NoSid /\ q.readAt <= q.client.until
            /\ q.peer = q.client.peer
                => q.read = q.client.value

\* A session that was deleted gives nothing back, whatever other requests had
\* open, stored or saved meanwhile: no request that starts after the deletion
\* was answered reads a value from it (session.cpp:366-397,
\* sessionstorefile.cpp:122-123).
DeletedIsGone ==
    \A r \in Requests :
        req[r].client.sid \in req[r].past => req[r].read = NoValue

\* The file of a session only ever holds what was stored in that session: the
\* data of the store is not keyed by the session it was read from
\* (sessionstorefile.cpp:92-98).
StoredUnderOwnId ==
    \A s \in Sids :
        dir[s] # NoFile /\ content[dir[s]].session.value \notin {NoValue, None}
            => content[dir[s]].session.owner = s

\* A request of a client whose requests do not overlap, none of which lost its
\* session by deletion or by the expiry of its cookie.
Undisturbed(r) ==
    /\ alone /\ dead = {} /\ req[r].gone = {}
    /\ req[r].client.sid # NoSid => req[r].readAt <= req[r].client.until

\* The user of a request is the last one that was authenticated in its session,
\* in the realm it was authenticated in, or nobody after a logout: the stash of
\* the request, the two keys of the session and what an earlier login left there
\* have to agree (authentication.cpp:107-117, 157-170, 177-231). An application
\* that adds a realm of the empty name gets all the users back in that one.
SameUser(seen, who) ==
    \/ seen = who
    \/ /\ DefaultRealm \in Realms
       /\ \E u \in Users, realm \in Realms : who = <<u, realm>> /\ seen = <<u, DefaultRealm>>
UserAsAuthenticated ==
    \A r \in Requests : Undisturbed(r) => SameUser(page[r].seen, page[r].loggedIn)

\* A status message is shown to the first request that asks for it, and to no
\* other: it has to be saved with the session that it was found in
\* (statusmessage.cpp:103-134).
MessageOnce ==
    \A r \in Requests : Undisturbed(r) => page[r].shown = page[r].owed

\* A form is accepted if it was rendered in the session it is sent in, or for the
\* cookie that is sent with it, and otherwise rejected: the secret of the page has
\* to be the one that is kept (csrfprotection.cpp:593-598, 780-794).
FormAccepted ==
    \A r \in Requests :
        Undisturbed(r) /\ page[r].check # "none"
            => (page[r].check = "accepted") = page[r].ours
=============================================================================
