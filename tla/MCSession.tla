------------------------------ MODULE MCSession ------------------------------
(* Small instances of Session for TLC. *)
EXTENDS SessionProperties

Scenario(h, t, r, e) == [habits |-> h, threshold |-> t, requests |-> r, time |-> e,
    values |-> {[Bare EXCEPT !.own = TRUE], NoValue}, secretIn |-> "session"]

\* The plugins on top of Session, for an application that stores nothing itself.
Plugins(h, r, e, where) == [habits |-> h, threshold |-> 0, requests |-> r, time |-> e,
    values |-> {}, secretIn |-> where]

MCValues == Contents \ {Bare}

\* Three visits of one client until its session expires, in which the client
\* moves or the expiry is only extended near its end; and four requests, of
\* which the first was served before, that overlap: on one thread, with contexts
\* that outlive their requests, and on two threads. Then the plugins, for three
\* requests, with the secrets of the forms in the session or in a cookie.
MCWellBehaved ==
    {Scenario({"moves", "extends", "deletes", "deletesUpdated"}, 0, 3, 3),
     Scenario({"extends", "deletes"}, 1, 3, 3),
     Scenario({"returns", "overlaps", "deletes"}, 0, 4, 2),
     Scenario({"returns", "overlaps", "lingers", "deletes"}, 0, 4, 1),
     Scenario({"returns", "overlaps", "spreads", "deletes"}, 0, 3, 3),
     Plugins({"authenticates"}, 3, 3, "session"),
     Plugins({"authenticates", "notifies"}, 3, 1, "session"),
     Plugins({"notifies", "protects"}, 3, 2, "session"),
     Plugins({"protects"}, 3, 3, "cookie")}

\* What the run leaves out: a request that makes no session call violates
\* StoredIsKept, deleteSession as the first session call DeletedIsGone, and a value
\* that is set after deleteSession StoredUnderOwnId and StoredIsKept. A form of an
\* unprotected action and one of a client whose cookie was malformed violate
\* FormAccepted.
MCIdle   == {Scenario({"returns", "idles", "deletes"}, 0, 3, 3)}
MCDelete == {Scenario({"returns", "overlaps", "deletes", "deletesUnseen"}, 0, 3, 2)}
MCLate   == {Scenario({"returns", "storesLate", "deletes"}, 0, 3, 3)}
MCIgnore == {Plugins({"notifies", "protects", "ignores"}, 3, 1, "session")}
MCMangle == {Plugins({"protects", "mangles"}, 3, 1, "cookie")}
=============================================================================
