---------------------------- MODULE Session_proofs ----------------------------
(***************************************************************************)
(* That the sessions of a client do not mix, that a deleted one stays      *)
(* deleted, that what is stored is found again, and that the plugins know  *)
(* of their client what is true: for any number of requests, sessions,     *)
(* threads and values.                                                     *)
(***************************************************************************)
EXTENDS SessionProperties, WellFoundedInduction, SequenceTheorems, TLAPS

----------------------------------------------------------------------------
(* Sets and sequences.                                                      *)

\* The least and the greatest of a set of numbers.
LEMMA MinIn ==
    ASSUME NEW S, S \subseteq Nat, S # {}
    PROVE  Min(S) \in S /\ \A x \in S : Min(S) <= x
<1>1. PICK x \in S : \A y \in S : ~ (<<y, x>> \in OpToRel(<, Nat))
  BY NatLessThanWellFounded, WFMin
<1>2. ASSUME NEW y \in S PROVE x <= y
  <2>1. <<y, x>> \in Nat \X Nat
    OBVIOUS
  <2>2. ~(y < x)
    BY <1>1, <2>1 DEF OpToRel
  <2>3. x \in Nat /\ y \in Nat
    OBVIOUS
  <2> QED BY <2>2, <2>3
<1> QED BY <1>2 DEF Min

LEMMA MaxIn ==
    ASSUME NEW S, NEW n \in Nat, S \subseteq 1 .. n, S # {}
    PROVE  Max(S) \in S
<1> DEFINE T == {n - x : x \in S}
<1>1. T \subseteq Nat /\ T # {}
  <2>1. \A x \in S : n - x \in Nat
    OBVIOUS
  <2> QED BY <2>1
<1>2. Min(T) \in T /\ \A y \in T : Min(T) <= y
  BY <1>1, MinIn
<1>3. PICK x \in S : Min(T) = n - x
  BY <1>2
<1>4. ASSUME NEW y \in S PROVE x >= y
  <2>1. n - x <= n - y
    BY <1>2, <1>3
  <2>2. x \in Nat /\ y \in Nat
    OBVIOUS
  <2> QED BY <2>1, <2>2
<1> QED BY <1>4 DEF Max

\* A sequence without an element, or with one more.
LEMMA RemoveFirstProperties ==
    ASSUME NEW S, NEW s \in Seq(S), NEW e
    PROVE  /\ RemoveFirst(s, e) \in Seq(S)
           /\ \A x \in Range(s) : x # e => x \in Range(RemoveFirst(s, e))
<1> DEFINE n == Len(s)
           t == RemoveFirst(s, e)
<1>1. n \in Nat /\ DOMAIN s = 1 .. n /\ \A i \in 1 .. n : s[i] \in S
  BY LenProperties, ElementOfSeq
<1>2. CASE ~ \E i \in 1 .. n : s[i] = e
  <2>1. t = s
    BY <1>2 DEF RemoveFirst
  <2> QED BY <1>1, <1>2, <2>1 DEF Range
<1>3. CASE \E i \in 1 .. n : s[i] = e
  <2> DEFINE I == {i \in 1 .. n : s[i] = e}
             k == Min(I)
             a == SubSeq(s, 1, k - 1)
             b == SubSeq(s, k + 1, n)
  <2>1. k \in 1 .. n /\ s[k] = e
    <3>1. I \subseteq Nat /\ I # {}
      BY <1>1, <1>3
    <3> QED BY <3>1, MinIn
  <2>2. t = a \o b
    BY <1>3, <2>1 DEF RemoveFirst, RemoveAt, SelectInSeq
  <2> HIDE DEF k, t
  <2>3. a \in Seq(S) /\ Len(a) = k - 1 /\ \A i \in 1 .. k - 1 : a[i] = s[i]
    <3>1. 1 \in 1 .. Len(s) + 1 /\ k - 1 \in 0 .. Len(s)
      BY <1>1, <2>1
    <3> QED BY <1>1, <2>1, <3>1, SubSeqProperties
  <2>4. b \in Seq(S) /\ Len(b) = n - k /\ \A i \in 1 .. n - k : b[i] = s[k + i]
    <3>1. k + 1 \in 1 .. Len(s) + 1 /\ Len(s) \in 0 .. Len(s)
      BY <1>1, <2>1
    <3>2. b \in Seq(S) /\ Len(b) = n - k /\ \A i \in 1 .. n - k : b[i] = s[(k + 1) + i - 1]
      <4>1. Len(b) = IF k + 1 <= n THEN n - (k + 1) + 1 ELSE 0
        BY <1>1, <2>1, <3>1, SubSeqProperties
      <4>2. Len(b) = n - k
        <5> HIDE DEF b, n
        <5>1. n \in Nat /\ k \in 1 .. n
          BY <1>1, <2>1
        <5> QED BY <5>1, <4>1
      <4> HIDE DEF b
      <4>3. b \in Seq(S) /\ \A i \in 1 .. Len(b) : b[i] = s[(k + 1) + i - 1]
        BY <1>1, <2>1, <3>1, SubSeqProperties DEF b
      <4> QED BY <4>2, <4>3
    <3>3. \A i \in 1 .. n - k : (k + 1) + i - 1 = k + i
      BY <1>1, <2>1
    <3> QED BY <3>2, <3>3
  <2> HIDE DEF a, b
  <2>5. /\ t \in Seq(S) /\ Len(t) = n - 1
        /\ \A i \in 1 .. n - 1 : t[i] = IF i < k THEN s[i] ELSE s[i + 1]
    <3>1. t \in Seq(S) /\ Len(t) = (k - 1) + (n - k)
          /\ \A i \in 1 .. (k - 1) + (n - k) : t[i] = IF i <= k - 1 THEN a[i] ELSE b[i - (k - 1)]
      <4>1. a \in Seq(S) /\ b \in Seq(S) /\ Len(a) = k - 1 /\ Len(b) = n - k
        BY <2>3, <2>4
      <4>2. /\ a \o b \in Seq(S) /\ Len(a \o b) = Len(a) + Len(b)
            /\ \A i \in 1 .. Len(a) + Len(b) :
                   (a \o b)[i] = IF i <= Len(a) THEN a[i] ELSE b[i - Len(a)]
        BY <4>1, ConcatProperties
      <4> QED BY <2>2, <4>1, <4>2
    <3>3. (k - 1) + (n - k) = n - 1
      BY <1>1, <2>1
    <3>2. ASSUME NEW i \in 1 .. n - 1 PROVE t[i] = IF i < k THEN s[i] ELSE s[i + 1]
      <4>1. CASE i < k
        <5>1. i \in 1 .. k - 1
          BY <1>1, <2>1, <4>1
        <5> QED BY <2>3, <3>1, <3>3, <4>1, <5>1
      <4>2. CASE ~(i < k)
        <5>1. i - (k - 1) \in 1 .. n - k /\ k + (i - (k - 1)) = i + 1 /\ ~(i <= k - 1)
          BY <1>1, <2>1, <4>2
        <5>2. t[i] = b[i - (k - 1)]
          BY <3>1, <3>3, <5>1
        <5> QED BY <2>4, <4>2, <5>1, <5>2
      <4> QED BY <4>1, <4>2
    <3> QED BY <3>1, <3>2, <3>3
  <2>6. DOMAIN t = 1 .. n - 1
    BY <2>5, LenProperties
  <2>8. ASSUME NEW j \in 1 .. n, j # k
        PROVE  \E i \in 1 .. n - 1 : t[i] = s[j]
    <3>1. CASE j < k
      <4>1. j \in 1 .. n - 1
        BY <1>1, <2>1, <3>1
      <4> QED BY <2>5, <3>1, <4>1
    <3>2. CASE ~(j < k)
      <4>1. j - 1 \in 1 .. n - 1 /\ ~(j - 1 < k) /\ (j - 1) + 1 = j
        BY <1>1, <2>1, <2>8, <3>2
      <4> QED BY <2>5, <4>1
    <3> QED BY <3>1, <3>2
  <2>9. Range(t) = {t[i] : i \in 1 .. n - 1} /\ Range(s) = {s[j] : j \in 1 .. n}
    BY <1>1, <2>6 DEF Range
  <2>10. ASSUME NEW x \in Range(s), x # e PROVE x \in Range(t)
    BY <2>1, <2>8, <2>9, <2>10
  <2> QED BY <2>5, <2>10 DEF t
<1> QED BY <1>1, <1>2, <1>3

LEMMA AppendRange ==
    ASSUME NEW S, NEW s \in Seq(S), NEW e \in S
    PROVE  /\ Append(s, e) \in Seq(S)
           /\ \A x : x \in Range(s) \/ x = e => x \in Range(Append(s, e))
<1> DEFINE t == Append(s, e)
<1>1. /\ Len(s) \in Nat /\ DOMAIN s = 1 .. Len(s)
      /\ t \in Seq(S) /\ Len(t) = Len(s) + 1
      /\ \A i \in 1 .. Len(s) : t[i] = s[i]
      /\ t[Len(s) + 1] = e
  BY AppendProperties, LenProperties
<1>2. DOMAIN t = 1 .. Len(s) + 1
  BY <1>1, LenProperties
<1> HIDE DEF t
<1> QED BY <1>1, <1>2 DEF t, Range

----------------------------------------------------------------------------
(* The invariant behind StoredUnderOwnId.                                   *)

\* The application stores no values in place of a session that the request deleted.
NeverLate == "storesLate" \notin habits

Fields == {"pc", "thread", "peer", "client", "past", "id", "triedId", "deletedId", "values",
           "updated", "expires", "triedExpires", "extended", "setCookie", "cookie", "until",
           "created", "loaded", "data", "save", "file", "inode", "read", "readAt", "gone"}
Blank(h)  == h = Null \/ h.value = NoValue
Of(h, s)  == h # Null => h.owner = s
IsHash(h) == DOMAIN h = {"value", "peer", "owner"}
IsData(d) == DOMAIN d = {"session", "expires"} /\ IsHash(d.session)
AnySid    == Sids \cup {NoSid}

\* The open file of a stash and the data it has of it belong together.
Stash(q) ==
    /\ DOMAIN q = Fields /\ IsHash(q.values) /\ IsData(q.data)
    /\ {q.id, q.cookie, q.file, q.client.sid} \subseteq AnySid
    /\ q.file # NoSid => q.loaded /\ q.inode \in Requests
    /\ q.file = NoSid => q.inode = NoFile
    /\ ~q.loaded => q.data = NoData /\ ~q.save
    /\ Of(q.data.session, q.file) /\ q.created \in Nat

\* While its request is served, what is open and what the stash holds is of the
\* session with the id of the request.
Live(q) ==
    /\ q.deletedId => q.id = NoSid /\ Blank(q.values)
    /\ q.loaded /\ ~q.deletedId => q.id # NoSid /\ q.file = q.id
    /\ q.updated => (q.deletedId <=> q.values = Null)
    /\ q.values # Null /\ ~q.deletedId => q.id # NoSid /\ q.values.owner = q.id

TypesInv ==
    /\ scenario \in Scenarios
    /\ DOMAIN req = Requests /\ DOMAIN content = Requests
    /\ dir \in [Sids -> {NoFile} \cup Requests]
    /\ \A n \in Requests : IsData(content[n])
    /\ DOMAIN client = {"sid", "until", "value", "peer"} /\ client.sid \in AnySid
    /\ conns \in Seq(Requests)

StashInv ==
    \A r \in Requests : Stash(req[r]) /\ (req[r].pc \in {"new", "active"} => Live(req[r]))

\* A file is one session's, and so is what is in it.
FilesInv ==
    /\ \A s \in Sids : dir[s] # NoFile => Of(content[dir[s]].session, s)
    /\ \A s, t \in Sids : dir[s] = dir[t] /\ dir[s] # NoFile => s = t
    /\ \A s \in Sids, r \in Requests : dir[s] = req[r].inode /\ dir[s] # NoFile => req[r].file = s

\* The inode a request may still create is not in use.
Fresh(q) == q.pc = "new" \/ (q.pc = "active" /\ ~q.loaded)
Unused(r) ==
    /\ content[r] = NoData /\ \A s \in Sids : dir[s] # r
    /\ \A o \in Requests : req[o].inode # r
UnusedInv ==
    \A r \in Requests : Fresh(req[r]) => Unused(r)

SessionInv == TypesInv /\ StashInv /\ FilesInv /\ UnusedInv

\* The cookie of an answer that was sent early is one of Session.
Page(p) == DOMAIN p = DOMAIN NewPage /\ (p.head # None => p.head.cookie \in AnySid)
HeadInv == DOMAIN page = Requests /\ \A r \in Requests : Page(page[r])

OwnInv == SessionInv /\ HeadInv

\* What the calls of a request make of its stash: q is one that it can have.
Good(r, q) ==
    /\ Stash(q) /\ Live(q)
    /\ q.pc = "active" /\ q.client = req[r].client
    /\ q.loaded \/ ~req[r].loaded
    /\ \/ q.file = req[r].file /\ q.inode = req[r].inode
       \/ /\ ~req[r].loaded /\ q.file # NoSid
          /\ q.inode = IF dir[q.file] = NoFile THEN r ELSE dir[q.file]

LEMMA NoSids == NoSid \notin Sids /\ NoFile \notin Requests /\ NewRequest.inode = NoFile
BY SessionConstants DEF Requests, NoFile, NewRequest

LEMMA GoodAtFirst ==
    ASSUME SessionInv, NEW r \in Requests, Touches(r)
    PROVE  Good(r, req[r])
BY DEF SessionInv, StashInv, Touches, Good

\* What a call leaves alone.
Same(q, a, changed) == DOMAIN a = Fields /\ \A f \in Fields \ changed : a[f] = q[f]

\* The file of sid was opened: a is q with what is in it.
Opened(r, q, a, sid) ==
    /\ Same(q, a, {"loaded", "data", "file", "inode"})
    /\ a.loaded = TRUE /\ a.file = sid
    /\ IsData(a.data) /\ Of(a.data.session, sid)
    /\ a.inode \in Requests /\ a.inode = IF dir[sid] = NoFile THEN r ELSE dir[sid]

LEMMA LoadDataNew ==
    ASSUME SessionInv, NEW r \in Requests, NEW q, Good(r, q), Touches(r), ~q.loaded,
           NEW sid \in Sids, NEW a, a = LoadData(r, q, sid)
    PROVE  Opened(r, q, a, sid)
<1> DEFINE i == IF dir[sid] = NoFile THEN r ELSE dir[sid]
<1>1. i \in Requests
  BY DEF SessionInv, TypesInv
<1>2. IsData(content[i])
  BY <1>1 DEF SessionInv, TypesInv
<1>3. Of(content[i].session, sid)
  <2>1. CASE dir[sid] = NoFile
    <3>1. content[r] = NoData
      BY DEF Good, SessionInv, UnusedInv, Unused, Touches, Fresh
    <3> QED BY <2>1, <3>1 DEF NoData, Of
  <2>2. CASE dir[sid] # NoFile
    BY <2>2 DEF SessionInv, FilesInv
  <2> QED BY <2>1, <2>2
<1>4. a = [q EXCEPT !.loaded = TRUE, !.data = content[i], !.file = sid, !.inode = i]
  BY NoSids DEF LoadData
<1> HIDE DEF i
<1>5. /\ Same(q, a, {"loaded", "data", "file", "inode"})
      /\ a.loaded = TRUE /\ a.file = sid /\ a.data = content[i] /\ a.inode = i
  BY <1>4 DEF Good, Stash, Same, Fields
<1> QED BY <1>1, <1>2, <1>3, <1>5 DEF i, Opened

LEMMA LoadDataGood ==
    ASSUME SessionInv, NEW r \in Requests, NEW q, Good(r, q), Touches(r),
           NEW a, a = LoadData(r, q, q.id)
    PROVE  /\ Good(r, a) /\ (q.id # NoSid => a.loaded)
           /\ Same(q, a, {"loaded", "data", "file", "inode"})
<1>1. CASE q.loaded \/ q.id = NoSid
  BY <1>1 DEF LoadData, Same, Good, Stash
<1>2. CASE ~q.loaded /\ q.id # NoSid
  <2>1. PICK sid \in Sids : sid = q.id
    BY <1>2 DEF Good, Stash, AnySid
  <2>2. Opened(r, q, a, sid)
    <3>1. a = LoadData(r, q, sid)
      BY <2>1
    <3> QED BY <1>2, <3>1, LoadDataNew
  <2>3. /\ DOMAIN a = Fields
        /\ a.id = q.id /\ a.deletedId = q.deletedId /\ a.values = q.values /\ a.pc = q.pc
        /\ a.client = q.client /\ a.cookie = q.cookie /\ a.created = q.created
        /\ a.updated = q.updated
    BY <2>2 DEF Opened, Same, Fields
  <2>4. Stash(a) /\ Live(a)
    BY <1>2, <2>1, <2>2, <2>3, NoSids DEF Good, Stash, Live, AnySid, Opened
  <2>5. Good(r, a)
    BY <1>2, <2>1, <2>2, <2>3, <2>4, NoSids DEF Good, Opened
  <2> QED BY <2>2, <2>5 DEF Opened
<1> QED BY <1>1, <1>2

LEMMA DoDeleteGood ==
    ASSUME SessionInv, NEW r \in Requests, NEW q, Good(r, q), Touches(r), NEW a, a = DoDelete(r, q)
    PROVE  /\ Good(r, a) /\ a.created = q.created /\ a.updated = q.updated
           /\ a.deletedId /\ a.loaded /\ a.data = NoData
<1> DEFINE l == LoadData(r, q, q.id)
<1>1. Good(r, l) /\ Same(q, l, {"loaded", "data", "file", "inode"})
  BY LoadDataGood
<1>2. a = Reset(SetCookie(Stored(l, NoData), NoSid, now))
  BY DEF DoDelete
<1> HIDE DEF l
<1>3. /\ DOMAIN a = Fields /\ a.deletedId = TRUE /\ a.id = NoSid /\ a.values = Null /\ a.data = NoData
      /\ a.loaded = TRUE /\ a.cookie = NoSid
      /\ \A f \in {"file", "inode", "client", "pc", "created", "updated"} : a[f] = l[f]
  BY <1>1, <1>2, ZenonT(40) DEF Reset, SetCookie, Stored, Good, Stash, Fields
<1>4. IsData(NoData) /\ Of(NoData.session, a.file) /\ IsHash(Null) /\ Blank(Null)
  BY DEF IsData, IsHash, NoData, Null, Hash, Of, Blank
<1>5. Stash(a) /\ Live(a)
  BY <1>1, <1>3, <1>4 DEF Good, Stash, Live, AnySid
<1>6. Good(r, a)
  BY <1>1, <1>3, <1>5 DEF Good
<1>7. l.created = q.created /\ l.updated = q.updated
  BY <1>1 DEF Same, Fields
<1> QED BY <1>3, <1>6, <1>7

LEMMA LoadIdGood ==
    ASSUME SessionInv, NEW r \in Requests, NEW q, Good(r, q), NEW a, a = LoadId(q)
    PROVE  Good(r, a) /\ Same(q, a, {"triedId", "id"})
<1>1. CASE q.id # NoSid \/ q.triedId
  BY <1>1 DEF LoadId, Good, Stash, Same
<1>2. CASE ~(q.id # NoSid \/ q.triedId)
  <2>1. a = [q EXCEPT !.triedId = TRUE, !.id = IF q.deletedId THEN NoSid ELSE q.client.sid]
    BY <1>2 DEF LoadId
  <2>2. /\ Same(q, a, {"triedId", "id"})
        /\ a.id = IF q.deletedId THEN NoSid ELSE q.client.sid
    BY <2>1 DEF Good, Stash, Same, Fields
  <2>3. /\ DOMAIN a = Fields
        /\ \A f \in Fields \ {"triedId", "id"} : a[f] = q[f]
    BY <2>2 DEF Same
  <2>4. Stash(a)
    BY <2>2, <2>3 DEF Good, Stash, Fields, AnySid
  <2>5. Live(a)
    BY <1>2, <2>2, <2>3 DEF Good, Live, Fields
  <2> QED BY <1>2, <2>2, <2>3, <2>4, <2>5 DEF Good, Fields
<1> QED BY <1>1, <1>2

LEMMA CheckExpiresGood ==
    ASSUME SessionInv, NEW r \in Requests, NEW q, Good(r, q), Touches(r), NEW a, a = CheckExpires(r, q)
    PROVE  /\ Good(r, a) /\ a.created = q.created /\ a.updated = q.updated
           /\ \/ a.deletedId /\ a.loaded /\ a.data = NoData /\ q.id # NoSid
              \/ Same(q, a, {"expires"})
<1>1. CASE q.id = NoSid
  BY <1>1 DEF CheckExpires, Same, Good, Stash
<1>2. CASE q.id # NoSid /\ q.data.expires >= now
  <2>1. a = [q EXCEPT !.expires = q.data.expires]
    BY <1>2 DEF CheckExpires
  <2>2. Same(q, a, {"expires"})
    BY <2>1 DEF Good, Stash, Same, Fields
  <2>3. DOMAIN a = Fields /\ \A f \in Fields \ {"expires"} : a[f] = q[f]
    BY <2>2 DEF Same
  <2>4. Good(r, a)
    BY <2>3 DEF Good, Stash, Live, Fields
  <2> QED BY <2>2, <2>3, <2>4 DEF Fields
<1>3. CASE q.id # NoSid /\ ~(q.data.expires >= now)
  <2>1. a = DoDelete(r, q)
    BY <1>3 DEF CheckExpires
  <2> QED BY <1>3, <2>1, DoDeleteGood
<1> QED BY <1>1, <1>2, <1>3

LEMMA LoadExpiresGood ==
    ASSUME SessionInv, NEW r \in Requests, NEW q, Good(r, q), Touches(r), NEW a, a = LoadExpires(r, q)
    PROVE  /\ Good(r, a) /\ a.created = q.created /\ a.updated = q.updated
           /\ \/ a.deletedId /\ a.loaded /\ a.data = NoData /\ q.id # NoSid /\ ~q.triedExpires
              \/ Same(q, a, {"loaded", "data", "file", "inode", "expires", "triedExpires"})
<1>1. CASE q.triedExpires
  BY <1>1 DEF LoadExpires, Same, Good, Stash
<1>2. CASE ~q.triedExpires
  <2> DEFINE t == [q EXCEPT !.triedExpires = TRUE]
             l == LoadData(r, t, q.id)
  <2>1. Same(q, t, {"triedExpires"})
    BY DEF Good, Stash, Same, Fields
  <2>2. DOMAIN t = Fields /\ \A f \in Fields \ {"triedExpires"} : t[f] = q[f]
    BY <2>1 DEF Same
  <2>3. a = CheckExpires(r, l) /\ l = LoadData(r, t, t.id)
    BY <1>2, <2>2 DEF LoadExpires, Fields
  <2> HIDE DEF t, l
  <2>4. Good(r, t)
    BY <2>2 DEF Good, Stash, Live, Fields
  <2>5. Good(r, l) /\ Same(t, l, {"loaded", "data", "file", "inode"})
    BY <2>3, <2>4, LoadDataGood
  <2>6. \A f \in Fields \ {"triedExpires", "loaded", "data", "file", "inode"} : l[f] = q[f]
    BY <2>2, <2>5 DEF Same
  <2>7. /\ Good(r, a) /\ a.created = l.created /\ a.updated = l.updated
        /\ \/ a.deletedId /\ a.loaded /\ a.data = NoData /\ l.id # NoSid
           \/ Same(l, a, {"expires"})
    BY <2>3, <2>5, CheckExpiresGood
  <2>8. l.id = q.id /\ l.created = q.created /\ l.updated = q.updated
    BY <2>6 DEF Fields
  <2>9. Same(l, a, {"expires"}) => Same(q, a, {"loaded", "data", "file", "inode", "expires", "triedExpires"})
    BY <2>6 DEF Same
  <2> QED BY <1>2, <2>7, <2>8, <2>9
<1> QED BY <1>1, <1>2

\* What the store gives to a request that has its session.
Known(q) == q.loaded /\ ~q.updated /\ (q.deletedId => q.data = NoData)

LEMMA RestoreGood ==
    ASSUME SessionInv, NEW r \in Requests, NEW q, Good(r, q), Touches(r), Known(q),
           NEW a, a = Restore(r, q)
    PROVE  Good(r, a) /\ a.created = q.created
<1>1. CASE q.data.session.peer \in {NoPeer, q.peer}
  <2>1. a = [q EXCEPT !.values = ToHash(q.data.session, q.id)]
    BY <1>1 DEF Restore
  <2>2. /\ DOMAIN a = Fields /\ \A f \in Fields \ {"values"} : a[f] = q[f]
        /\ a.values = ToHash(q.data.session, q.id)
    BY <2>1 DEF Good, Stash, Fields
  <2>3. IsHash(a.values)
    BY <2>2 DEF Good, Stash, IsData, IsHash, ToHash, Hash
  <2>4. q.deletedId => Blank(a.values)
    BY <2>2 DEF Known, NoData, ToHash, Blank, Hash
  <2>5. ~q.deletedId => q.id # NoSid /\ a.values.owner = q.id
    BY <2>2 DEF Known, Good, Live, Stash, Of, ToHash, Hash
  <2>6. Stash(a)
    BY <2>2, <2>3 DEF Good, Stash, Fields
  <2>7. Live(a)
    BY <2>2, <2>4, <2>5 DEF Known, Good, Live, Fields
  <2> QED BY <2>2, <2>6, <2>7 DEF Good, Fields
<1>2. CASE ~(q.data.session.peer \in {NoPeer, q.peer})
  BY <1>2, DoDeleteGood DEF Restore
<1> QED BY <1>1, <1>2

LEMMA FindSessionGood ==
    ASSUME SessionInv, NEW r \in Requests, NEW q, Good(r, q), Touches(r), q.values = Null,
           NEW a, a = FindSession(r, q)
    PROVE  Good(r, a) /\ a.created = q.created
<1> DEFINE e == LoadExpires(r, q)
           l == LoadData(r, e, q.id)
<1>1. /\ Good(r, e) /\ e.created = q.created /\ e.updated = q.updated
      /\ \/ e.deletedId /\ e.loaded /\ e.data = NoData /\ q.id # NoSid /\ ~q.triedExpires
         \/ Same(q, e, {"loaded", "data", "file", "inode", "expires", "triedExpires"})
  BY LoadExpiresGood
<1>2. CASE ReturnsExpires(q) /\ q.id # NoSid
  <2>1. a = Restore(r, l)
    BY <1>2 DEF FindSession
  <2> HIDE DEF e
  <2>2. ~q.deletedId /\ ~q.updated
    BY <1>2 DEF Good, Live
  <2>3. Good(r, l) /\ l.created = q.created /\ Known(l)
    <3>1. CASE e.deletedId /\ e.loaded /\ e.data = NoData
      BY <1>1, <2>2, <3>1 DEF LoadData, Known
    <3>2. CASE Same(q, e, {"loaded", "data", "file", "inode", "expires", "triedExpires"})
      <4>1. e.id = q.id /\ e.deletedId = q.deletedId
        BY <3>2 DEF Same, Fields
      <4>2. l = LoadData(r, e, e.id)
        BY <4>1
      <4>3. Good(r, l) /\ l.loaded /\ Same(e, l, {"loaded", "data", "file", "inode"})
        <5> HIDE DEF l
        <5> QED BY <1>1, <1>2, <4>1, <4>2, LoadDataGood
      <4> HIDE DEF l
      <4>4. l.created = e.created /\ l.updated = e.updated /\ l.deletedId = e.deletedId
        BY <4>3 DEF Same, Fields
      <4> QED BY <1>1, <2>2, <4>1, <4>3, <4>4 DEF Known
    <3> QED BY <1>1, <3>1, <3>2
  <2> HIDE DEF l
  <2> QED BY <2>1, <2>3, RestoreGood
<1>3. CASE ~(ReturnsExpires(q) /\ q.id # NoSid)
  BY <1>1, <1>3 DEF FindSession
<1> QED BY <1>2, <1>3

LEMMA LoadSessionGood ==
    ASSUME SessionInv, NEW r \in Requests, NEW q, Good(r, q), Touches(r),
           NEW a, a = LoadSession(r, q)
    PROVE  Good(r, a) /\ a.created = q.created
<1>1. CASE q.values # Null
  BY <1>1 DEF LoadSession
<1>2. CASE q.values = Null
  <2> DEFINE i == LoadId(q)
             f == FindSession(r, i)
  <2>1. Good(r, i) /\ Same(q, i, {"triedId", "id"})
    BY LoadIdGood
  <2>2. i.values = Null /\ i.created = q.created
    BY <1>2, <2>1 DEF Same, Fields
  <2> HIDE DEF i
  <2>3. Good(r, f) /\ f.created = q.created
    BY <2>1, <2>2, FindSessionGood
  <2>4. a = Seen(f)
    BY <1>2 DEF LoadSession, i
  <2> HIDE DEF f
  <2>5. DOMAIN a = Fields /\ \A x \in Fields \ {"read", "readAt"} : a[x] = f[x]
    BY <2>3, <2>4 DEF Seen, Good, Stash, Fields
  <2> QED BY <2>3, <2>5 DEF Good, Stash, Live, Fields
<1> QED BY <1>1, <1>2

LEMMA CreateSessionGood ==
    ASSUME SessionInv, NEW r \in Requests, NEW q, Good(r, q), Touches(r),
           q.created < MaxSessions, q.values = Null, ~q.deletedId,
           NEW a, a = CreateSession(r, q)
    PROVE  Good(r, a) /\ a.values # Null /\ ~a.deletedId
<1> DEFINE blank(x) == Hash(NoValue, x.peer, x.id)
<1>1. ASSUME NEW x, Good(r, x), ~x.deletedId, x.id # NoSid, a = Initialize(x)
      PROVE  Good(r, a) /\ a.values # Null /\ ~a.deletedId
  <2>1. /\ DOMAIN a = Fields /\ \A f \in Fields \ {"values"} : a[f] = x[f]
        /\ a.values = blank(x)
    BY <1>1 DEF Initialize, Good, Stash, Fields
  <2>2. IsHash(blank(x)) /\ blank(x).owner = x.id /\ blank(x) # Null
    <3>1. blank(x).value = NoValue /\ Null.value = None
      BY DEF Hash, Null
    <3>2. NoValue # None
      BY SessionConstants
    <3> QED BY <3>1, <3>2 DEF Hash, IsHash
  <2> HIDE DEF blank
  <2> QED BY <1>1, <2>1, <2>2 DEF Good, Stash, Live, Fields
<1>2. CASE q.id # NoSid
  BY <1>1, <1>2 DEF CreateSession
<1>3. CASE q.id = NoSid
  <2> DEFINE sid == <<r, q.created + 1>>
             l == LoadData(r, q, sid)
             c == CreateSessionId(l, sid)
  <2>1. sid \in Sids /\ ~q.loaded /\ sid # NoSid
    <3>1. q.created \in Nat /\ MaxSessions \in Nat
      BY SessionConstants DEF Good, Stash
    <3>2. q.created + 1 \in 1 .. MaxSessions
      BY <3>1
    <3> QED BY <1>3, <3>2, NoSids DEF Good, Live, Sids
  <2>2. Initialize(c) = a
    BY <1>3 DEF CreateSession
  <2> HIDE DEF sid
  <2>3. Opened(r, q, l, sid)
    BY <2>1, LoadDataNew
  <2> HIDE DEF l
  <2>4. /\ DOMAIN c = Fields /\ c.id = sid /\ c.cookie = sid /\ c.created = l.created + 1
        /\ \A f \in {"pc", "client", "deletedId", "values", "updated", "loaded", "data", "save",
                     "file", "inode"} : c[f] = l[f]
    BY <2>3 DEF Opened, Same, CreateSessionId, SetCookie, Fields
  <2> HIDE DEF c
  <2>5. /\ l.created = q.created
        /\ l.pc = q.pc /\ l.client = q.client /\ l.deletedId = q.deletedId /\ l.values = q.values
        /\ l.updated = q.updated /\ l.save = q.save
    BY <2>3 DEF Opened, Same, Fields
  <2>6. Stash(c)
    BY <2>1, <2>3, <2>4, <2>5 DEF Good, Stash, Opened, AnySid
  <2>7. Live(c)
    BY <2>1, <2>3, <2>4, <2>5 DEF Good, Live, Opened
  <2>8. Good(r, c)
    BY <2>1, <2>3, <2>4, <2>5, <2>6, <2>7 DEF Good, Opened
  <2> QED BY <1>1, <2>1, <2>2, <2>4, <2>5, <2>8
<1> QED BY <1>2, <1>3

LEMMA StoreValueGood ==
    ASSUME SessionInv, NEW r \in Requests, NEW q, Good(r, q), Touches(r),
           ~q.deletedId, q.created < MaxSessions \/ q.values # Null,
           NEW v, NEW a, a = StoreValue(r, q, v)
    PROVE  Good(r, a)
<1> DEFINE c == IF q.values = Null THEN CreateSession(r, q) ELSE q
<1>1. Good(r, c) /\ c.values # Null /\ ~c.deletedId
  BY CreateSessionGood
<1>2. a = WithValue(c, v)
  BY DEF StoreValue
<1> HIDE DEF c
<1>3. /\ DOMAIN a = Fields /\ \A f \in Fields \ {"values", "updated"} : a[f] = c[f]
      /\ a.updated = TRUE /\ a.values = [c.values EXCEPT !.value = v]
  BY <1>1, <1>2 DEF WithValue, Good, Stash, Fields
<1>4. IsHash(a.values) /\ a.values.owner = c.values.owner
  BY <1>1, <1>3 DEF Good, Stash, IsHash
<1>5. c.values.owner = c.id /\ c.id # NoSid /\ a.values # Null
  BY <1>1, <1>4 DEF Good, Live, Null, Hash
<1> QED BY <1>1, <1>3, <1>4, <1>5 DEF Good, Stash, Live, Fields

LEMMA StoredGood ==
    ASSUME NEW r \in Requests, NEW q, Good(r, q), q.loaded \/ q.deletedId,
           NEW d, IsData(d), Of(d.session, q.file), NEW a, a = Stored(q, d)
    PROVE  Good(r, a)
<1>1. /\ DOMAIN a = Fields /\ \A f \in Fields \ {"loaded", "data", "save"} : a[f] = q[f]
      /\ a.loaded = TRUE /\ a.data = d
  BY DEF Stored, Good, Stash, Fields
<1> QED BY <1>1 DEF Good, Stash, Live, Fields

\* The session of the request, or what is left of it.
KeepsId(q, a) == a.deletedId \/ (q.id # NoSid => a.id = q.id)

LEMMA ExtendGood ==
    ASSUME SessionInv, NEW r \in Requests, NEW q, Good(r, q), Touches(r), NEW a, a = Extend(r, q)
    PROVE  Good(r, a) /\ KeepsId(q, a)
<1>1. CASE q.id = NoSid
  BY <1>1 DEF Extend, KeepsId
<1>2. CASE q.id # NoSid
  <2> DEFINE l == LoadData(r, q, q.id)
  <2>1. Good(r, l) /\ l.loaded /\ Same(q, l, {"loaded", "data", "file", "inode"})
    BY <1>2, LoadDataGood
  <2>2. a = ExtendLoaded(l)
    BY <1>2 DEF Extend
  <2> HIDE DEF l
  <2>3. l.id = q.id
    BY <2>1 DEF Same, Fields
  <2>4. CASE a = l
    BY <2>1, <2>3, <2>4 DEF KeepsId
  <2>5. CASE a = [SetCookie(l, l.id, CalculateExpires(l)) EXCEPT !.extended = CalculateExpires(l)]
    <3>1. /\ DOMAIN a = Fields /\ a.cookie = l.id
          /\ \A f \in Fields \ {"setCookie", "cookie", "until", "extended"} : a[f] = l[f]
      BY <2>1, <2>5 DEF SetCookie, Good, Stash, Fields
    <3>2. Stash(a)
      BY <2>1, <3>1 DEF Good, Stash, Fields
    <3>3. Live(a)
      BY <2>1, <3>1 DEF Good, Live, Fields
    <3> QED BY <2>1, <2>3, <3>1, <3>2, <3>3 DEF Good, KeepsId, Fields
  <2> QED BY <2>2, <2>4, <2>5 DEF ExtendLoaded
<1> QED BY <1>1, <1>2

LEMMA ExpiresGood ==
    ASSUME SessionInv, NEW r \in Requests, NEW q, Good(r, q), Touches(r), NEW a, a = Expires(r, q)
    PROVE  Good(r, a) /\ KeepsId(q, a)
<1>1. CASE q.extended # NoTime
  BY <1>1 DEF Expires, KeepsId
<1>2. CASE q.extended = NoTime
  <2> DEFINE i == LoadId(q)
             e == LoadExpires(r, i)
  <2>1. Good(r, i) /\ (q.id # NoSid => i.id = q.id)
    <3>1. q.id # NoSid => i = q
      BY DEF LoadId
    <3> QED BY <3>1, LoadIdGood
  <2>2. a = ExpiresOf(r, i)
    BY <1>2 DEF Expires
  <2> HIDE DEF i
  <2>3. Good(r, e) /\ KeepsId(i, e)
    <3>1. /\ Good(r, e)
          /\ e.deletedId \/ Same(i, e, {"loaded", "data", "file", "inode", "expires", "triedExpires"})
      BY <2>1, LoadExpiresGood
    <3> HIDE DEF e
    <3> QED BY <3>1 DEF KeepsId, Same, Fields
  <2>4. a = e \/ a = Extend(r, e)
    BY <2>2 DEF ExpiresOf
  <2> HIDE DEF e
  <2>5. CASE a = e
    BY <2>1, <2>3, <2>5 DEF KeepsId
  <2>6. CASE a = Extend(r, e)
    <3>1. e.deletedId => a.deletedId
      <4>1. e.deletedId => e.id = NoSid
        BY <2>3 DEF Good, Live
      <4> QED BY <2>6, <4>1 DEF Extend
    <3>2. Good(r, a) /\ KeepsId(e, a)
      BY <2>3, <2>6, ExtendGood
    <3> QED BY <2>1, <2>3, <3>1, <3>2 DEF KeepsId
  <2> QED BY <2>4, <2>5, <2>6
<1> QED BY <1>1, <1>2

LEMMA StoreExpiresGood ==
    ASSUME SessionInv, NEW r \in Requests, NEW q, Good(r, q), Touches(r), q.id # NoSid \/ q.deletedId,
           NEW e, NEW a, a = StoreExpires(LoadData(r, q, q.id), e)
    PROVE  Good(r, a)
<1> DEFINE l == LoadData(r, q, q.id)
           d == [l.data EXCEPT !.expires = e]
<1>1. Good(r, l) /\ (q.id # NoSid => l.loaded) /\ Same(q, l, {"loaded", "data", "file", "inode"})
  BY LoadDataGood
<1> HIDE DEF l
<1>2. l.loaded \/ l.deletedId
  BY <1>1 DEF Same, Fields
<1>3. IsData(d) /\ Of(d.session, l.file)
  <2>1. IsData(l.data) /\ Of(l.data.session, l.file)
    BY <1>1 DEF Good, Stash
  <2>2. DOMAIN d = {"session", "expires"} /\ d.session = l.data.session
    BY <2>1 DEF IsData
  <2> QED BY <2>1, <2>2 DEF IsData
<1>4. a = Stored(l, d)
  BY DEF StoreExpires, l
<1> HIDE DEF d
<1> QED BY <1>1, <1>2, <1>3, <1>4, StoredGood

LEMMA SaveExpiresGood ==
    ASSUME SessionInv, NEW r \in Requests, NEW q, Good(r, q), Touches(r), NEW a, a = SaveExpires(r, q)
    PROVE  Good(r, a)
<1>1. CASE q.expires = NoTime \/ LoadId(q).id = NoSid
  BY <1>1 DEF SaveExpires
<1>2. CASE ~(q.expires = NoTime \/ LoadId(q).id = NoSid)
  <2> DEFINE i == LoadId(q)
             l == LoadData(r, i, i.id)
             e == Expires(r, l)
  <2>1. Good(r, i) /\ i.id # NoSid
    BY <1>2, LoadIdGood
  <2>2. a = StoreIfLater(r, e, l.data.expires)
    BY <1>2 DEF SaveExpires, SaveIfLater
  <2> HIDE DEF i
  <2>3. Good(r, l) /\ l.id # NoSid
    <3>1. Good(r, l) /\ Same(i, l, {"loaded", "data", "file", "inode"})
      BY <2>1, LoadDataGood
    <3> HIDE DEF l
    <3> QED BY <2>1, <3>1 DEF Same, Fields
  <2> HIDE DEF l
  <2>4. Good(r, e) /\ (e.id # NoSid \/ e.deletedId)
    BY <2>3, ExpiresGood DEF KeepsId
  <2> HIDE DEF e
  <2> QED BY <2>2, <2>4, StoreExpiresGood DEF StoreIfLater
<1> QED BY <1>1, <1>2

LEMMA SaveSessionGood ==
    ASSUME SessionInv, NEW r \in Requests, NEW q, Good(r, q), Touches(r), NEW a, a = SaveSession(r, q)
    PROVE  Good(r, a)
<1> DEFINE s == SaveExpires(r, q)
           e == Expires(r, s)
           t == SaveExpires(r, e)
           l == LoadData(r, t, t.id)
           h == ToHash(t.values, l.file)
           d == [l.data EXCEPT !.session = h]
<1>1. a = StoreValues(r, t)
  BY DEF SaveSession
<1>2. Good(r, s)
  BY SaveExpiresGood
<1> HIDE DEF s
<1>3. Good(r, e)
  BY <1>2, ExpiresGood
<1> HIDE DEF e
<1>4. Good(r, t)
  BY <1>3, SaveExpiresGood
<1> HIDE DEF t
<1>5. CASE ~t.updated
  BY <1>1, <1>4, <1>5 DEF StoreValues
<1>6. CASE t.updated
  <2>1. a = Stored(l, d)
    BY <1>1, <1>6 DEF StoreValues, StoreSession
  <2>2. Good(r, l) /\ (t.id # NoSid => l.loaded) /\ Same(t, l, {"loaded", "data", "file", "inode"})
    BY <1>4, LoadDataGood
  <2> HIDE DEF l
  <2>3. l.deletedId = t.deletedId /\ l.values = t.values /\ l.id = t.id
    BY <2>2 DEF Same, Fields
  <2>4. l.loaded \/ l.deletedId
    BY <1>4, <1>6, <2>2, <2>3 DEF Good, Live
  <2>5. IsHash(h)
    BY <1>4 DEF ToHash, Hash, IsHash, Good, Stash
  <2>6. Of(h, l.file)
    <3>1. CASE t.values = Null
      BY <3>1 DEF ToHash, Hash, Of
    <3>2. CASE t.values # Null
      <4>1. ~l.deletedId /\ t.values.owner = l.id
        BY <1>4, <1>6, <2>3, <3>2 DEF Good, Live
      <4>2. l.file = l.id
        BY <2>2, <2>4, <4>1 DEF Good, Live
      <4> QED BY <3>2, <4>1, <4>2 DEF ToHash, Of
    <3> QED BY <3>1, <3>2
  <2> HIDE DEF h
  <2>7. IsData(d) /\ Of(d.session, l.file)
    <3>1. DOMAIN d = {"session", "expires"} /\ d.session = h
      BY <2>2 DEF Good, Stash, IsData
    <3> QED BY <2>5, <2>6, <3>1 DEF IsData
  <2> HIDE DEF d
  <2> QED BY <2>1, <2>2, <2>4, <2>7, StoredGood
<1> QED BY <1>5, <1>6

----------------------------------------------------------------------------
(* The steps.                                                               *)

\* The stashes with q for that of r, and the files with what q has opened.
With(r, q)  == [req EXCEPT ![r] = q]
OpenDir(r, q) == [s \in Sids |-> IF s = q.file /\ s # req[r].file THEN q.inode ELSE dir[s]]

LEMMA Openings ==
    ASSUME SessionInv, NEW r \in Requests, Touches(r), NEW q, Good(r, q),
           NEW d, d = OpenDir(r, q)
    PROVE  /\ d \in [Sids -> {NoFile} \cup Requests]
           /\ \A s \in Sids : d[s] # NoFile => Of(content[d[s]].session, s)
           /\ \A s, t \in Sids : d[s] = d[t] /\ d[s] # NoFile => s = t
           /\ \A s \in Sids, o \in Requests :
                  d[s] = With(r, q)[o].inode /\ d[s] # NoFile => With(r, q)[o].file = s
           /\ \A o \in Requests :
                  Fresh(With(r, q)[o])
                      => /\ content[o] = NoData /\ \A s \in Sids : d[s] # o
                         /\ \A p \in Requests : With(r, q)[p].inode # o
<1>1. /\ dir \in [Sids -> {NoFile} \cup Requests] /\ DOMAIN req = Requests
      /\ Stash(q) /\ Stash(req[r]) /\ req[r].pc = "active"
  BY DEF SessionInv, TypesInv, StashInv, Good, Touches
<1>2. \A s \in Sids : d[s] = IF s = q.file /\ s # req[r].file THEN q.inode ELSE dir[s]
  BY DEF OpenDir
<1>3. CASE q.file = req[r].file /\ q.inode = req[r].inode
  <2>1. \A s \in Sids : d[s] = dir[s]
    BY <1>2, <1>3
  <2>2. d = dir
    BY <1>1, <2>1 DEF OpenDir
  <2>3. \A o \in Requests : With(r, q)[o].file = req[o].file /\ With(r, q)[o].inode = req[o].inode
    BY <1>1, <1>3 DEF With
  <2>4. \A o \in Requests : Fresh(With(r, q)[o]) => Fresh(req[o])
    BY <1>1 DEF With, Good, Fresh
  <2> QED BY <1>1, <2>2, <2>3, <2>4 DEF SessionInv, FilesInv, UnusedInv, Unused, Fresh
<1>4. CASE /\ ~req[r].loaded /\ q.file # NoSid
           /\ q.inode = IF dir[q.file] = NoFile THEN r ELSE dir[q.file]
  <2>1. PICK sid \in Sids : sid = q.file
    BY <1>1, <1>4 DEF Stash, AnySid
  <2>2. Unused(r) /\ req[r].file = NoSid /\ q.loaded /\ q.inode \in Requests
    BY <1>1, <1>4 DEF Stash, SessionInv, UnusedInv, Fresh
  <2>3. \A s \in Sids : d[s] = IF s = sid THEN q.inode ELSE dir[s]
    BY <1>2, <2>1, <2>2, NoSids
  <2>4. d \in [Sids -> {NoFile} \cup Requests]
    BY <1>1, <2>2 DEF OpenDir
  <2>5. \A o \in Requests : With(r, q)[o] = IF o = r THEN q ELSE req[o]
    BY <1>1 DEF With
  <2>6. q.inode = IF dir[sid] = NoFile THEN r ELSE dir[sid]
    BY <1>4, <2>1
  <2>7. ASSUME NEW s \in Sids, d[s] # NoFile PROVE Of(content[d[s]].session, s)
    <3>1. CASE d[s] = dir[s]
      BY <2>7, <3>1 DEF SessionInv, FilesInv
    <3>2. CASE d[s] # dir[s]
      <4>1. d[s] = r
        BY <2>3, <2>6, <3>2
      <4>2. content[r] = NoData
        BY <2>2 DEF Unused
      <4> QED BY <4>1, <4>2 DEF NoData, Of
    <3> QED BY <3>1, <3>2
  <2>8. \A s \in Sids : d[s] = dir[s] \/ (s = sid /\ d[s] = r)
    BY <2>3, <2>6
  <2>9. ASSUME NEW s \in Sids, NEW t \in Sids, d[s] = d[t], d[s] # NoFile PROVE s = t
    BY <2>2, <2>8, <2>9 DEF Unused, SessionInv, FilesInv
  <2>10. ASSUME NEW s \in Sids, NEW o \in Requests, d[s] = With(r, q)[o].inode, d[s] # NoFile
         PROVE  With(r, q)[o].file = s
    <3>1. CASE o = r
      <4>1. d[sid] = q.inode
        BY <2>3
      <4> QED BY <2>1, <2>5, <2>9, <2>10, <3>1, <4>1
    <3>2. CASE o # r
      BY <2>2, <2>5, <2>8, <2>10, <3>2 DEF Unused, SessionInv, FilesInv
    <3> QED BY <3>1, <3>2
  <2>11. ASSUME NEW o \in Requests, Fresh(With(r, q)[o])
         PROVE  /\ content[o] = NoData /\ \A s \in Sids : d[s] # o
                /\ \A p \in Requests : With(r, q)[p].inode # o
    <3>1. o # r /\ Unused(o)
      BY <2>2, <2>5, <2>11 DEF SessionInv, UnusedInv, Fresh, Good
    <3>2. \A s \in Sids : d[s] # o
      BY <2>8, <3>1 DEF Unused
    <3>3. q.inode # o
      BY <2>6, <3>1 DEF Unused
    <3> QED BY <2>5, <3>1, <3>2, <3>3 DEF Unused
  <2> QED BY <2>4, <2>7, <2>9, <2>10, <2>11
<1> QED BY <1>3, <1>4 DEF Good

\* The connections of afterDispatch.
LEMMA BecomesInv ==
    ASSUME SessionInv, NEW r \in Requests, Touches(r), NEW q, Good(r, q), Becomes(r, q)
    PROVE  SessionInv'
<1>1. /\ req' = With(r, q) /\ dir' = OpenDir(r, q) /\ conns' \in Seq(Requests)
      /\ UNCHANGED <<scenario, client, content>>
  <2>1. dir \in [Sids -> {NoFile} \cup Requests] /\ conns \in Seq(Requests)
    BY DEF SessionInv, TypesInv
  <2>2. CASE q.file = req[r].file
    <3>1. dir = OpenDir(r, q)
      BY <2>1, <2>2 DEF OpenDir
    <3> QED BY <2>1, <2>2, <3>1 DEF Becomes, With
  <2>3. CASE q.file # req[r].file
    <3>1. dir' = [dir EXCEPT ![q.file] = q.inode] /\ conns' = Append(conns, r)
      BY <2>3 DEF Becomes
    <3>2. [dir EXCEPT ![q.file] = q.inode] = OpenDir(r, q)
      BY <2>1, <2>3 DEF OpenDir
    <3>3. Append(conns, r) \in Seq(Requests)
      BY <2>1, AppendRange
    <3> QED BY <3>1, <3>2, <3>3 DEF Becomes, With
  <2> QED BY <2>2, <2>3
<1>2. TypesInv'
  <2>1. OpenDir(r, q) \in [Sids -> {NoFile} \cup Requests]
    BY Openings
  <2> QED BY <1>1, <2>1 DEF TypesInv, SessionInv, With
<1>3. StashInv'
  BY <1>1 DEF StashInv, SessionInv, TypesInv, With, Good
<1>4. FilesInv' /\ UnusedInv'
  BY <1>1, Openings DEF FilesInv, UnusedInv, Unused
<1> QED BY <1>2, <1>3, <1>4 DEF SessionInv

LEMMA InitInv ==
    ASSUME Init
    PROVE  SessionInv
<1> DEFINE old == "returns" \in habits
           sid == <<1, 1>>
           until == 1 + Lifetime
           first == NewRequest.client
<1>1. PICK v \in IF old THEN scenario.values \ {NoValue} ELSE {NoValue} :
          /\ client = IF old THEN [sid |-> sid, until |-> until, value |-> v, peer |-> Home] ELSE first
          /\ req = [r \in Requests |-> [NewRequest EXCEPT !.pc = IF old /\ r = 1 THEN "done" ELSE "new"]]
          /\ dir = [s \in Sids |-> IF old /\ s = sid THEN 1 ELSE NoFile]
          /\ content = [r \in Requests |-> IF old /\ r = 1
                            THEN [session |-> Hash(v, Home, sid), expires |-> until] ELSE NoData]
  BY DEF Init
<1>2. sid \in Sids /\ 1 \in Requests /\ 0 \notin Requests
  BY SessionConstants DEF Sids, Requests
<1>3. first.sid = NoSid /\ DOMAIN first = {"sid", "until", "value", "peer"}
  BY DEF NewRequest
<1>4. IsData(NoData) /\ NoData.session = Null
  BY DEF IsData, IsHash, NoData, Null, Hash
<1>5. ASSUME NEW n \in Requests PROVE IsData(content[n])
  BY <1>1, <1>4 DEF IsData, IsHash, Hash
<1> HIDE DEF old, sid, until, first
<1>6. TypesInv
  <2>1. DOMAIN client = {"sid", "until", "value", "peer"} /\ client.sid \in AnySid
    BY <1>1, <1>2, <1>3 DEF AnySid
  <2>2. dir \in [Sids -> {NoFile} \cup Requests]
    BY <1>1, <1>2
  <2>3. conns \in Seq(Requests) /\ scenario \in Scenarios
    BY DEF Init
  <2>4. DOMAIN req = Requests /\ DOMAIN content = Requests
    BY <1>1
  <2> QED BY <1>5, <2>1, <2>2, <2>3, <2>4 DEF TypesInv
<1>7. ASSUME NEW r \in Requests
      PROVE  /\ Stash(req[r]) /\ Live(req[r]) /\ req[r].inode = NoFile /\ req[r].file = NoSid
             /\ req[r].pc = IF old /\ r = 1 THEN "done" ELSE "new"
  <2>1. Stash(NewRequest) /\ Live(NewRequest) /\ NewRequest.inode = NoFile /\ NewRequest.file = NoSid
    <3>1. /\ DOMAIN NewRequest = Fields
          /\ NewRequest.values = Null /\ NewRequest.data = NoData /\ NewRequest.created = 0
          /\ NewRequest.client.sid = NoSid /\ NewRequest.file = NoSid /\ NewRequest.cookie = NoSid
          /\ NewRequest.id = NoSid /\ NewRequest.inode = NoFile
          /\ ~NewRequest.loaded /\ ~NewRequest.save /\ ~NewRequest.deletedId /\ ~NewRequest.updated
      BY DEF NewRequest, Fields
    <3>2. IsHash(Null)
      BY DEF Null, Hash, IsHash
    <3> QED BY <1>4, <3>1, <3>2 DEF Stash, Live, Of, AnySid
  <2>2. req[r] = [NewRequest EXCEPT !.pc = IF old /\ r = 1 THEN "done" ELSE "new"]
    BY <1>1
  <2>3. /\ DOMAIN req[r] = Fields /\ \A f \in Fields \ {"pc"} : req[r][f] = NewRequest[f]
        /\ req[r].pc = IF old /\ r = 1 THEN "done" ELSE "new"
    BY <2>1, <2>2 DEF Stash, Fields
  <2> QED BY <2>1, <2>3 DEF Stash, Live, Fields
<1>8. StashInv
  BY <1>7 DEF StashInv
<1>9. \A s \in Sids : dir[s] = IF old /\ s = sid THEN 1 ELSE NoFile
  BY <1>1
<1>10. ASSUME NEW s \in Sids, dir[s] # NoFile PROVE Of(content[dir[s]].session, s)
  <2>1. old /\ s = sid /\ dir[s] = 1
    BY <1>9, <1>10
  <2>2. content[1].session = Hash(v, Home, sid)
    BY <1>1, <1>2, <2>1
  <2> QED BY <2>1, <2>2 DEF Of, Hash
<1>11. FilesInv
  BY <1>7, <1>9, <1>10 DEF FilesInv
<1>12. UnusedInv
  <2> SUFFICES ASSUME NEW r \in Requests, req[r].pc = "new" PROVE Unused(r)
    BY <1>7 DEF UnusedInv, Fresh
  <2>1. ~(old /\ r = 1)
    BY <1>7
  <2>2. content[r] = NoData
    BY <1>1, <2>1
  <2>3. \A s \in Sids : dir[s] # r
    BY <1>2, <1>9, <2>1 DEF NoFile
  <2>4. \A o \in Requests : req[o].inode # r
    BY <1>2, <1>7 DEF NoFile
  <2> QED BY <2>2, <2>3, <2>4 DEF Unused
<1> QED BY <1>6, <1>8, <1>11, <1>12 DEF SessionInv

\* A step of a request that is not served any more.
LEMMA PassiveInv ==
    ASSUME SessionInv, NEW r \in Requests, NEW x, Stash(x), req' = [req EXCEPT ![r] = x],
           x.pc \notin {"new", "active"},
           x.inode = NoFile \/ (x.inode = req[r].inode /\ x.file = req[r].file),
           UNCHANGED <<scenario, dir, content>>, conns' \in Seq(Requests),
           DOMAIN client' = {"sid", "until", "value", "peer"}, client'.sid \in AnySid
    PROVE  SessionInv'
<1>1. DOMAIN req' = Requests /\ \A o \in Requests : req'[o] = IF o = r THEN x ELSE req[o]
  BY DEF SessionInv, TypesInv
<1>2. TypesInv'
  BY <1>1 DEF SessionInv, TypesInv
<1>3. StashInv'
  BY <1>1 DEF SessionInv, StashInv
<1>4. FilesInv'
  <2>1. \A s \in Sids, o \in Requests : dir[s] = req'[o].inode /\ dir[s] # NoFile => req'[o].file = s
    BY <1>1 DEF SessionInv, FilesInv
  <2> QED BY <2>1 DEF SessionInv, FilesInv
<1>5. UnusedInv'
  <2> SUFFICES ASSUME NEW o \in Requests, Fresh(req'[o])
               PROVE  Unused(o)'
    BY DEF UnusedInv
  <2>1. o # r /\ Unused(o)
    BY <1>1 DEF SessionInv, UnusedInv, Fresh
  <2>2. \A p \in Requests : req'[p].inode # o
    BY <1>1, <2>1, NoSids DEF Unused
  <2> QED BY <2>1, <2>2 DEF Unused
<1> QED BY <1>2, <1>3, <1>4, <1>5 DEF SessionInv

LEMMA ForgetGood ==
    ASSUME NEW q, Stash(q), NEW a, a = Forget(q)
    PROVE  Stash(a) /\ a.pc = q.pc /\ a.inode = NoFile
<1>1. /\ DOMAIN NewRequest = Fields
      /\ NewRequest.values = Null /\ NewRequest.data = NoData /\ NewRequest.created = 0
      /\ NewRequest.client.sid = NoSid /\ NewRequest.file = NoSid /\ NewRequest.cookie = NoSid
      /\ NewRequest.id = NoSid /\ NewRequest.inode = NoFile
      /\ ~NewRequest.loaded /\ ~NewRequest.save
  BY DEF NewRequest, Fields
<1>2. /\ DOMAIN a = Fields /\ a.pc = q.pc
      /\ \A f \in Fields \ {"pc", "setCookie", "cookie", "until", "values", "deletedId"} :
             a[f] = NewRequest[f]
      /\ a.values \in {Null, q.values} /\ a.cookie \in {NoSid, q.cookie}
  <2>1. CASE q.pc = "done"
    BY <1>1, <2>1 DEF Forget, Fields
  <2>2. CASE q.pc # "done"
    <3>1. a = [NewRequest EXCEPT !.pc = q.pc, !.setCookie = q.setCookie,
                   !.cookie = q.cookie, !.until = q.until, !.values = q.values,
                   !.deletedId = q.deletedId]
      BY <2>2 DEF Forget
    <3> QED BY <1>1, <3>1, ZenonT(40) DEF Fields
  <2> QED BY <2>1, <2>2
<1>3. IsHash(Null) /\ IsData(NoData) /\ NoData.session = Null
  BY DEF Null, Hash, IsHash, IsData, NoData
<1> QED BY <1>1, <1>2, <1>3 DEF Stash, Of, AnySid, Fields

\* What the store does at the end of a request: a file is removed, or was there or
\* opened before; what is written into an inode was in a stash that has it open.
LEMMA Emitted ==
    ASSUME SessionInv, NEW r \in Requests, Touches(r), NEW q0, Good(r, q0),
           NEW q, q = [q0 EXCEPT !.pc = "answered"], Emit(r, q, With(r, q))
    PROVE  /\ dir' \in [Sids -> {NoFile} \cup Requests] /\ DOMAIN content' = Requests
           /\ \A s \in Sids : dir'[s] \in {NoFile, OpenDir(r, q0)[s]}
           /\ \A n \in Requests :
                  \/ content'[n] = content[n]
                  \/ \E o \in Requests : /\ With(r, q0)[o].inode = n
                                         /\ With(r, q0)[o].data = content'[n]
<1> DEFINE by(i)     == Handled(With(r, q), conns[i], r)
           saves     == {i \in DOMAIN conns : req[conns[i]].thread = q.thread /\ by(i).save}
           writes(n) == {i \in saves : by(i).data # NoData /\ by(i).inode = n}
<1>1. /\ dir' = [s \in Sids |->
                    IF \E i \in saves : by(i).data = NoData /\ by(i).file = s THEN NoFile
                    ELSE IF s = q.file /\ s # req[r].file THEN q.inode ELSE dir[s]]
      /\ content' = [n \in Requests |->
                        IF writes(n) = {} THEN content[n] ELSE by(Max(writes(n))).data]
  BY DEF Emit
<1>2. /\ DOMAIN q = Fields /\ \A f \in Fields \ {"pc"} : q[f] = q0[f]
  BY DEF Good, Stash, Fields
<1>3. q.file = q0.file /\ q.inode = q0.inode /\ q.data = q0.data
  BY <1>2 DEF Fields
<1>4. ASSUME NEW i \in DOMAIN conns
      PROVE  /\ conns[i] \in Requests
             /\ by(i).data = With(r, q0)[conns[i]].data /\ by(i).inode = With(r, q0)[conns[i]].inode
  <2>1. conns[i] \in Requests /\ DOMAIN req = Requests
    <3>1. conns \in Seq(Requests) /\ i \in 1 .. Len(conns)
      BY LenProperties DEF SessionInv, TypesInv
    <3> QED BY <3>1, ElementOfSeq DEF SessionInv, TypesInv
  <2> QED BY <1>3, <2>1 DEF Handled, With
<1>5. saves \subseteq DOMAIN conns
  OBVIOUS
<1> HIDE DEF by, saves
<1>6. ASSUME NEW s \in Sids PROVE dir'[s] \in {NoFile, OpenDir(r, q0)[s]}
  BY <1>1, <1>3 DEF OpenDir
<1>7. dir' \in [Sids -> {NoFile} \cup Requests]
  <2>1. OpenDir(r, q0) \in [Sids -> {NoFile} \cup Requests]
    BY Openings
  <2>2. ASSUME NEW s \in Sids PROVE dir'[s] \in {NoFile} \cup Requests
    BY <1>6, <2>1
  <2> QED BY <1>1, <2>2
<1>8. ASSUME NEW n \in Requests, content'[n] # content[n]
      PROVE  \E o \in Requests : With(r, q0)[o].inode = n /\ With(r, q0)[o].data = content'[n]
  <2>1. writes(n) # {} /\ content'[n] = by(Max(writes(n))).data
    BY <1>1, <1>8
  <2>2. writes(n) \subseteq 1 .. Len(conns) /\ Len(conns) \in Nat
    <3>1. DOMAIN conns = 1 .. Len(conns) /\ Len(conns) \in Nat
      BY LenProperties DEF SessionInv, TypesInv
    <3> QED BY <1>5, <3>1
  <2>3. Max(writes(n)) \in writes(n)
    <3> DEFINE W == writes(n)
    <3> HIDE DEF W
    <3>1. W # {} /\ W \subseteq 1 .. Len(conns) /\ Len(conns) \in Nat
      BY <2>1, <2>2 DEF W
    <3>2. Max(W) \in W
      BY <3>1, MaxIn
    <3> QED BY <3>2 DEF W
  <2>4. PICK i \in DOMAIN conns : i = Max(writes(n)) /\ by(i).inode = n
    BY <1>5, <2>3
  <2> QED BY <1>4, <2>1, <2>4
<1> QED BY <1>1, <1>6, <1>7, <1>8

LEMMA AfterDispatchInv ==
    ASSUME SessionInv, NEW r \in Requests, AfterDispatch(r)
    PROVE  SessionInv'
<1> DEFINE q0 == SaveSession(r, req[r])
           q == [q0 EXCEPT !.pc = "answered"]
           d == OpenDir(r, q0)
<1>1. Touches(r) /\ UNCHANGED <<scenario, client>> /\ Emit(r, q, With(r, q))
  BY DEF AfterDispatch, With
<1>2. PICK x : /\ req' = [req EXCEPT ![r] = x] /\ x \in {q, Forget(q)}
               /\ conns' \in {conns, RemoveFirst(conns, r)}
  BY DEF AfterDispatch
<1>3. Good(r, q0)
  <2>1. Good(r, req[r])
    BY <1>1, GoodAtFirst
  <2> QED BY <1>1, <2>1, SaveSessionGood
<1> HIDE DEF q0
<1>4. /\ DOMAIN q = Fields /\ \A f \in Fields \ {"pc"} : q[f] = q0[f]
      /\ q.pc = "answered"
  BY <1>3 DEF Good, Stash, Fields
<1>5. Stash(q) /\ q.inode = q0.inode /\ q.file = q0.file
  BY <1>3, <1>4 DEF Good, Stash, Fields
<1>6. /\ dir' \in [Sids -> {NoFile} \cup Requests] /\ DOMAIN content' = Requests
      /\ \A s \in Sids : dir'[s] \in {NoFile, d[s]}
      /\ \A n \in Requests : \/ content'[n] = content[n]
                             \/ \E o \in Requests : /\ With(r, q0)[o].inode = n
                                                    /\ With(r, q0)[o].data = content'[n]
  <2> HIDE DEF d
  <2>1. q = [q0 EXCEPT !.pc = "answered"]
    OBVIOUS
  <2> HIDE DEF q
  <2> QED BY <1>1, <1>3, <2>1, Emitted DEF d
<1> HIDE DEF q
<1>7. Stash(x) /\ x.pc = "answered" /\ (x.inode = NoFile \/ (x.inode = q0.inode /\ x.file = q0.file))
  BY <1>2, <1>4, <1>5, ForgetGood
<1>8. DOMAIN req' = Requests /\ \A o \in Requests : req'[o] = IF o = r THEN x ELSE req[o]
  BY <1>2 DEF SessionInv, TypesInv
<1>9. \A o \in Requests : With(r, q0)[o] = IF o = r THEN q0 ELSE req[o]
  BY DEF SessionInv, TypesInv, With
<1>10. \A o \in Requests : Stash(With(r, q0)[o])
  BY <1>3, <1>9 DEF Good, SessionInv, StashInv
<1>11. \A o \in Requests : /\ req'[o].inode # NoFile => /\ req'[o].inode = With(r, q0)[o].inode
                                                       /\ req'[o].file = With(r, q0)[o].file
  BY <1>7, <1>8, <1>9
<1>12. /\ \A s \in Sids : d[s] # NoFile => Of(content[d[s]].session, s)
       /\ \A s, t \in Sids : d[s] = d[t] /\ d[s] # NoFile => s = t
       /\ \A s \in Sids, o \in Requests :
              d[s] = With(r, q0)[o].inode /\ d[s] # NoFile => With(r, q0)[o].file = s
       /\ \A o \in Requests :
              Fresh(With(r, q0)[o])
                  => /\ content[o] = NoData /\ \A s \in Sids : d[s] # o
                     /\ \A p \in Requests : With(r, q0)[p].inode # o
  BY <1>1, <1>3, Openings
<1> HIDE DEF d
<1>13. TypesInv'
  <2>1. conns' \in Seq(Requests)
    BY <1>2, RemoveFirstProperties DEF SessionInv, TypesInv
  <2>2. \A n \in Requests : IsData(content'[n])
    BY <1>6, <1>10 DEF Stash, SessionInv, TypesInv
  <2> QED BY <1>1, <1>6, <1>8, <2>1, <2>2 DEF SessionInv, TypesInv
<1>14. StashInv'
  BY <1>7, <1>8 DEF SessionInv, StashInv
<1>15. FilesInv'
  <2>1. ASSUME NEW s \in Sids, dir'[s] # NoFile PROVE Of(content'[dir'[s]].session, s)
    <3>1. dir'[s] = d[s] /\ d[s] # NoFile /\ d[s] \in Requests
      BY <1>6, <2>1
    <3>2. CASE content'[d[s]] = content[d[s]]
      BY <1>12, <3>1, <3>2
    <3>3. CASE content'[d[s]] # content[d[s]]
      <4>1. PICK o \in Requests : With(r, q0)[o].inode = d[s] /\ With(r, q0)[o].data = content'[d[s]]
        BY <1>6, <3>1, <3>3
      <4>2. With(r, q0)[o].file = s
        BY <1>12, <3>1, <4>1
      <4>3. Of(With(r, q0)[o].data.session, With(r, q0)[o].file)
        BY <1>10 DEF Stash
      <4> QED BY <3>1, <4>1, <4>2, <4>3
    <3> QED BY <3>2, <3>3
  <2>2. \A s, t \in Sids : dir'[s] = dir'[t] /\ dir'[s] # NoFile => s = t
    BY <1>6, <1>12
  <2>3. ASSUME NEW s \in Sids, NEW o \in Requests, dir'[s] = req'[o].inode, dir'[s] # NoFile
        PROVE  req'[o].file = s
    <3>1. d[s] = dir'[s]
      BY <1>6, <2>3
    <3>2. d[s] = With(r, q0)[o].inode /\ req'[o].file = With(r, q0)[o].file
      BY <1>11, <2>3, <3>1
    <3> QED BY <1>12, <2>3, <3>1, <3>2
  <2> QED BY <2>1, <2>2, <2>3 DEF FilesInv
<1>16. UnusedInv'
  <2> SUFFICES ASSUME NEW o \in Requests, Fresh(req'[o])
               PROVE  Unused(o)'
    BY DEF UnusedInv
  <2>1. o # r /\ req'[o] = With(r, q0)[o]
    BY <1>7, <1>8, <1>9 DEF Fresh
  <2>2. /\ content[o] = NoData /\ \A s \in Sids : d[s] # o
        /\ \A p \in Requests : With(r, q0)[p].inode # o
    BY <1>12, <2>1
  <2>3. content'[o] = NoData
    BY <1>6, <2>2
  <2>4. \A s \in Sids : dir'[s] # o
    BY <1>6, <2>2, NoSids
  <2>5. \A p \in Requests : req'[p].inode # o
    BY <1>11, <2>2, NoSids
  <2> QED BY <2>3, <2>4, <2>5 DEF Unused
<1> QED BY <1>13, <1>14, <1>15, <1>16 DEF SessionInv

LEMMA StartInv ==
    ASSUME SessionInv, NEW r \in Requests, NEW t \in Threads, NEW p \in Peers, Start(r, t, p)
    PROVE  SessionInv'
<1> DEFINE x == [NewRequest EXCEPT !.pc = "active", !.thread = t, !.peer = p, !.client = client,
                                   !.past = dead]
<1>1. /\ req[r].pc = "new" /\ req' = [req EXCEPT ![r] = x]
      /\ UNCHANGED <<scenario, client, dir, content, conns>>
  BY DEF Start
<1>2. /\ DOMAIN x = Fields /\ x.pc = "active" /\ x.client = client
      /\ x.values = Null /\ x.data = NoData /\ x.created = 0
      /\ x.file = NoSid /\ x.cookie = NoSid /\ x.id = NoSid /\ x.inode = NoFile
      /\ ~x.loaded /\ ~x.save /\ ~x.deletedId /\ ~x.updated
  BY DEF NewRequest, Fields
<1>3. Stash(x) /\ Live(x)
  <2>1. IsHash(Null) /\ IsData(NoData) /\ NoData.session = Null
    BY DEF Null, Hash, IsHash, IsData, NoData
  <2> HIDE DEF x
  <2> QED BY <1>2, <2>1 DEF Stash, Live, Of, AnySid, SessionInv, TypesInv
<1> HIDE DEF x
<1>4. DOMAIN req' = Requests /\ \A o \in Requests : req'[o] = IF o = r THEN x ELSE req[o]
  BY <1>1 DEF SessionInv, TypesInv
<1>5. TypesInv'
  BY <1>1, <1>4 DEF SessionInv, TypesInv
<1>6. StashInv'
  BY <1>3, <1>4 DEF SessionInv, StashInv
<1>7. FilesInv'
  <2>1. \A s \in Sids, o \in Requests : dir[s] = req'[o].inode /\ dir[s] # NoFile => req'[o].file = s
    BY <1>2, <1>4 DEF SessionInv, FilesInv
  <2> QED BY <1>1, <2>1 DEF SessionInv, FilesInv
<1>8. UnusedInv'
  <2> SUFFICES ASSUME NEW o \in Requests, Fresh(req'[o])
               PROVE  Unused(o)'
    BY DEF UnusedInv
  <2>2. Unused(o)
    BY <1>1, <1>4 DEF SessionInv, UnusedInv, Fresh
  <2>3. \A n \in Requests : req'[n].inode # o
    BY <1>2, <1>4, <2>2, NoSids DEF Unused
  <2> QED BY <1>1, <2>2, <2>3 DEF Unused
<1> QED BY <1>5, <1>6, <1>7, <1>8 DEF SessionInv

LEMMA ContextDeletedInv ==
    ASSUME SessionInv, NEW r \in Requests, ContextDeleted(r)
    PROVE  SessionInv'
<1> DEFINE x == Forget(req[r])
<1>1. Stash(x) /\ x.pc = req[r].pc /\ x.inode = NoFile
  BY ForgetGood DEF SessionInv, StashInv
<1>2. /\ req[r].pc \in {"answered", "done"} /\ req' = [req EXCEPT ![r] = x]
      /\ conns' = RemoveFirst(conns, r) /\ UNCHANGED <<scenario, client, dir, content>>
  BY DEF ContextDeleted
<1> HIDE DEF x
<1>3. conns' \in Seq(Requests)
  BY <1>2, RemoveFirstProperties DEF SessionInv, TypesInv
<1>4. DOMAIN client' = {"sid", "until", "value", "peer"} /\ client'.sid \in AnySid
  BY <1>2 DEF SessionInv, TypesInv
<1> QED BY <1>1, <1>2, <1>3, <1>4, PassiveInv

LEMMA AnsweredInv ==
    ASSUME SessionInv, NEW r \in Requests, NEW head, head.cookie \in AnySid, AnsweredWith(r, head)
    PROVE  SessionInv'
<1> DEFINE d == [req[r] EXCEPT !.pc = "done"]
           x == IF r \in Range(conns) THEN d ELSE Forget(d)
<1>1. Stash(req[r])
  BY DEF SessionInv, StashInv
<1>2. DOMAIN d = Fields /\ d.pc = "done" /\ \A f \in Fields \ {"pc"} : d[f] = req[r][f]
  BY <1>1 DEF Stash, Fields
<1>3. req' = [req EXCEPT ![r] = x] /\ UNCHANGED <<scenario, dir, content, conns>>
  BY DEF AnsweredWith
<1> HIDE DEF d
<1>4. Stash(d) /\ d.inode = req[r].inode /\ d.file = req[r].file
  BY <1>1, <1>2 DEF Stash, Fields
<1>5. Stash(x) /\ x.pc = "done" /\ (x.inode = NoFile \/ (x.inode = req[r].inode /\ x.file = req[r].file))
  BY <1>2, <1>4, ForgetGood
<1>6. DOMAIN client' = {"sid", "until", "value", "peer"} /\ client'.sid \in AnySid
  BY DEF AnsweredWith, SessionInv, TypesInv
<1> HIDE DEF x
<1>7. conns' \in Seq(Requests)
  BY <1>3 DEF SessionInv, TypesInv
<1> QED BY <1>3, <1>5, <1>6, <1>7, PassiveInv

\* An application that stores in no deleted session may store.
LEMMA MayStoreGood ==
    ASSUME SessionInv, NeverLate, NEW q, MayStore(q)
    PROVE  ~q.deletedId /\ (q.created < MaxSessions \/ q.values # Null)
BY DEF MayStore, NeverLate

\* What a call of the application or of a plugin may leave of the stash, if it only
\* reads or stores values, and of what the plugins keep.
Drawn(r, q) ==
    LET l == LoadSession(r, req[r]) IN
    \/ q = l
    \/ /\ ~l.deletedId /\ (l.created < MaxSessions \/ l.values # Null)
       /\ \E v : q = StoreValue(r, l, v)
Reached(r, q) == q = req[r] \/ Drawn(r, q)
Turned(r, q, p) ==
    /\ DOMAIN p = DOMAIN NewPage
    /\ \/ p.head \in {page[r].head, req[r]}
       \/ p.head = LoadSession(r, req[r]) /\ Drawn(r, q)

LEMMA ReachedGood ==
    ASSUME SessionInv, NEW r \in Requests, Touches(r), NEW q, Reached(r, q)
    PROVE  Good(r, q)
<1> DEFINE l == LoadSession(r, req[r])
<1>1. Good(r, req[r])
  BY GoodAtFirst
<1>2. Good(r, l)
  BY <1>1, LoadSessionGood
<1>3. q = req[r] \/ q = l \/ (~l.deletedId /\ (l.created < MaxSessions \/ l.values # Null)
                              /\ \E v : q = StoreValue(r, l, v))
  BY DEF Reached, Drawn
<1> HIDE DEF l
<1>4. ASSUME ~l.deletedId, l.created < MaxSessions \/ l.values # Null, NEW v, q = StoreValue(r, l, v)
      PROVE  Good(r, q)
  BY <1>2, <1>4, StoreValueGood
<1> QED BY <1>1, <1>2, <1>3, <1>4

\* What a plugin stores.
LEMMA PutDrawn ==
    ASSUME SessionInv, NeverLate, NEW r \in Requests, Touches(r), NEW q, q = LoadSession(r, req[r]),
           MayStore(q) \/ Held(q) # Bare, NEW c, NEW a, a = Put(r, q, c)
    PROVE  Drawn(r, a)
<1>1. Good(r, q)
  <2>1. Good(r, req[r])
    BY GoodAtFirst
  <2> QED BY <2>1, LoadSessionGood
<1>2. ~q.deletedId /\ (q.created < MaxSessions \/ q.values # Null)
  <2>1. CASE MayStore(q)
    BY <2>1, MayStoreGood
  <2>2. CASE Held(q) # Bare
    <3>1. q.values.value \notin {NoValue, None}
      BY <2>2 DEF Held
    <3>2. q.values # Null
      BY <3>1 DEF Null, Hash
    <3> QED BY <1>1, <3>1, <3>2 DEF Good, Live, Blank
  <2> QED BY <2>1, <2>2
<1> QED BY <1>2 DEF Drawn, Put

\* A call of the application leaves a stash that the request can have.
LEMMA CallBecomes ==
    ASSUME SessionInv, NeverLate, NEW r \in Requests, Call(r)
    PROVE  Touches(r) /\ \E q : Good(r, q) /\ Becomes(r, q)
<1> DEFINE loaded == LoadSession(r, req[r])
           Goal == \E q : Good(r, q) /\ Becomes(r, q)
<1>1. Touches(r)
  BY DEF Call, Value, SetValue, CallExpires, ChangeExpires, DeleteSession
<1>2. Good(r, req[r])
  BY <1>1, GoodAtFirst
<1>3. Good(r, loaded)
  BY <1>1, <1>2, LoadSessionGood
<1>0. ASSUME NEW q, Good(r, q), Becomes(r, q) PROVE Goal
  BY <1>0
<1> HIDE DEF loaded, Goal
<1>4. ASSUME Value(r) PROVE Goal
  BY <1>0, <1>3, <1>4 DEF Value, loaded
<1>5. ASSUME NEW v \in scenario.values, SetValue(r, v) PROVE Goal
  <2>1. MayStore(loaded) /\ Becomes(r, StoreValue(r, loaded, v))
    BY <1>5 DEF SetValue, loaded
  <2>3. Good(r, StoreValue(r, loaded, v))
    BY <1>1, <1>3, <2>1, MayStoreGood, StoreValueGood
  <2> QED BY <1>0, <2>1, <2>3
<1>6. ASSUME CallExpires(r) PROVE Goal
  <2>1. Good(r, Expires(r, req[r]))
    BY <1>1, <1>2, ExpiresGood
  <2> QED BY <1>0, <1>6, <2>1 DEF CallExpires
<1>7. ASSUME ChangeExpires(r) PROVE Goal
  <2> DEFINE a == StoreExpires(LoadData(r, req[r], req[r].id), now + 2 * Lifetime)
  <2>1. Good(r, a)
    <3>1. req[r].id # NoSid
      BY <1>7 DEF ChangeExpires
    <3> QED BY <1>1, <1>2, <3>1, StoreExpiresGood
  <2>2. Becomes(r, a)
    BY <1>7 DEF ChangeExpires
  <2> HIDE DEF a
  <2> QED BY <1>0, <2>1, <2>2
<1>8. ASSUME DeleteSession(r) PROVE Goal
  <2>1. Good(r, DoDelete(r, req[r]))
    BY <1>1, <1>2, DoDeleteGood
  <2> QED BY <1>0, <1>8, <2>1 DEF DeleteSession
<1>9. Goal
  BY <1>4, <1>5, <1>6, <1>7, <1>8 DEF Call
<1> QED BY <1>1, <1>9 DEF Goal

LEMMA CallInv ==
    ASSUME SessionInv, NeverLate, NEW r \in Requests, Call(r)
    PROVE  SessionInv'
BY CallBecomes, BecomesInv

LEMMA PluginSteps ==
    ASSUME SessionInv, NeverLate, NEW r \in Requests, DOMAIN page[r] = DOMAIN NewPage, PluginCall(r)
    PROVE  /\ Touches(r)
           /\ \/ \E q, p : Reached(r, q) /\ Turned(r, q, p) /\ Leaves(r, q, p)
              \/ UNCHANGED <<vars, page>>
<1> DEFINE loaded == LoadSession(r, req[r])
<1>1. Touches(r)
  BY DEF PluginCall, Status, Load, Authenticate, User, Logout, BeforeDispatch, TokenFormField, Calls
<1>2. Reached(r, req[r]) /\ Drawn(r, loaded)
  BY DEF Reached, Drawn
<1> DEFINE Goal == \E q, p : Reached(r, q) /\ Turned(r, q, p) /\ Leaves(r, q, p)
<1>3. ASSUME NEW q, NEW p, Reached(r, q), Turned(r, q, p), Leaves(r, q, p) PROVE Goal
  BY <1>3
<1>4. ASSUME MayStore(loaded) \/ Held(loaded) # Bare, NEW c PROVE Drawn(r, Put(r, loaded, c))
  BY <1>1, <1>4, PutDrawn
<1>5. ASSUME NEW q, NEW p, DOMAIN p = DOMAIN NewPage,
             p.head \in {page[r].head, req[r]} \/ (p.head = loaded /\ Drawn(r, q))
      PROVE  Turned(r, q, p)
  BY <1>5 DEF Turned
<1>0. ASSUME NEW q, Drawn(r, q) PROVE Reached(r, q)
  BY <1>0 DEF Reached
<1> HIDE DEF loaded, Goal
<1>6. ASSUME Status(r) PROVE Goal
  <2> DEFINE a == Put(r, loaded, [Held(loaded) EXCEPT !.messages = @ \cup {r}])
  <2>1. MayStore(loaded) /\ Leaves(r, a, page[r])
    BY <1>6 DEF Status, loaded
  <2>2. Reached(r, a)
    BY <1>0, <1>4, <2>1
  <2>3. Turned(r, a, page[r])
    BY <1>5
  <2> HIDE DEF a
  <2> QED BY <1>3, <2>1, <2>2, <2>3
<1>7. ASSUME NEW t \in Requests, Load(r, t) PROVE Goal
  <2> DEFINE found == t \in Held(loaded).messages
             p == [page[r] EXCEPT !.shown = found, !.owed = t \in untold]
             a == IF found THEN Shown(r, loaded, t) ELSE loaded
  <2>1. Leaves(r, a, p)
    BY <1>7 DEF Load, loaded
  <2>2. Turned(r, a, p)
    <3>1. DOMAIN p = DOMAIN NewPage /\ p.head = page[r].head
      BY DEF NewPage
    <3> HIDE DEF p
    <3> QED BY <1>5, <3>1
  <2>3. Reached(r, a)
    <3>1. CASE found
      <4>1. Held(loaded) # Bare
        BY <3>1 DEF Bare
      <4>2. a = Put(r, loaded, [Held(loaded) EXCEPT !.messages = @ \ {t}])
        BY <3>1 DEF Shown
      <4> HIDE DEF a
      <4> QED BY <1>0, <1>4, <4>1, <4>2
    <3>2. CASE ~found
      BY <1>0, <1>2, <3>2
    <3> QED BY <3>1, <3>2
  <2> HIDE DEF a, p
  <2> QED BY <1>3, <2>1, <2>2, <2>3
<1>8. ASSUME NEW who \in Somebody, Authenticate(r, who) PROVE Goal
  <2> DEFINE a == PersistUser(r, loaded, who)
             p == [page[r] EXCEPT !.user = who]
  <2>1. MayStore(loaded) /\ Leaves(r, a, p)
    BY <1>8 DEF Authenticate, loaded
  <2>2. Reached(r, a)
    BY <1>0, <1>4, <2>1 DEF PersistUser
  <2>3. Turned(r, a, p)
    <3>1. DOMAIN p = DOMAIN NewPage /\ p.head = page[r].head
      BY DEF NewPage
    <3> HIDE DEF p
    <3> QED BY <1>5, <3>1
  <2> HIDE DEF a, p
  <2> QED BY <1>3, <2>1, <2>2, <2>3
<1>9. ASSUME User(r) PROVE Goal
  <2>1. PICK q \in {loaded, req[r]} :
            \E w : Leaves(r, q, [page[r] EXCEPT !.user = w, !.seen = w, !.loggedIn = login])
    BY <1>9 DEF User, loaded
  <2> PICK who : Leaves(r, q, [page[r] EXCEPT !.user = who, !.seen = who, !.loggedIn = login])
    BY <2>1
  <2> DEFINE p == [page[r] EXCEPT !.user = who, !.seen = who, !.loggedIn = login]
  <2>2. Reached(r, q) /\ Leaves(r, q, p)
    BY <1>0, <1>2, <2>1
  <2>3. Turned(r, q, p)
    <3>1. DOMAIN p = DOMAIN NewPage /\ p.head = page[r].head
      BY DEF NewPage
    <3> HIDE DEF p
    <3> QED BY <1>5, <3>1
  <2> HIDE DEF p
  <2> QED BY <1>3, <2>2, <2>3
<1>10. ASSUME Logout(r) PROVE Goal
  <2> DEFINE a == IF Restorable(loaded) THEN Put(r, loaded, [Held(loaded) EXCEPT !.user = None])
                  ELSE loaded
             p == [page[r] EXCEPT !.user = None]
  <2>1. (Restorable(loaded) => MayStore(loaded)) /\ Leaves(r, a, p)
    BY <1>10 DEF Logout, loaded
  <2>2. Reached(r, a)
    BY <1>0, <1>2, <1>4, <2>1
  <2>3. Turned(r, a, p)
    <3>1. DOMAIN p = DOMAIN NewPage /\ p.head = page[r].head
      BY DEF NewPage
    <3> HIDE DEF p
    <3> QED BY <1>5, <3>1
  <2> HIDE DEF a, p
  <2> QED BY <1>3, <2>1, <2>2, <2>3
<1>11. ASSUME NEW kind \in Kinds, NEW f \in Sent, BeforeDispatch(r, kind, f) PROVE Goal
  <2> DEFINE new(q)   == Arrived(r, q)
             token(q) == [new(q) EXCEPT !.ours = f \in valid]
  <2>1. PICK q \in {loaded, req[r]} :
            /\ InSession => q = loaded
            /\ \E p \in {Checked(r, q, new(q), f), new(q)} :
                   (MayStore(q) /\ SetToken(r, q, p)) \/ Leaves(r, q, p)
    BY <1>11 DEF BeforeDispatch, loaded
  <2> PICK p \in {Checked(r, q, new(q), f), new(q)} :
            (MayStore(q) /\ SetToken(r, q, p)) \/ Leaves(r, q, p)
    BY <2>1
  <2>2. DOMAIN new(q) = DOMAIN NewPage /\ new(q).head = page[r].head
    BY DEF Arrived, NewPage
  <2> HIDE DEF new
  <2>3. DOMAIN token(q) = DOMAIN NewPage /\ token(q).head = page[r].head
    BY <2>2 DEF NewPage
  <2>4. \/ p = new(q)
        \/ p = [token(q) EXCEPT !.check = "accepted"]
        \/ p = [token(q) EXCEPT !.check = "rejected", !.head = q]
    BY DEF Checked, Rejected
  <2> HIDE DEF token
  <2>5. DOMAIN p = DOMAIN NewPage /\ p.head \in {page[r].head, q}
    BY <2>2, <2>3, <2>4 DEF NewPage
  <2>6. q = req[r] \/ Drawn(r, q)
    BY <1>2, <2>1
  <2>7. CASE Leaves(r, q, p)
    <3>1. Reached(r, q) /\ Turned(r, q, p)
      BY <1>0, <1>2, <1>5, <2>1, <2>5, <2>6
    <3> QED BY <1>3, <2>7, <3>1
  <2>8. CASE MayStore(q) /\ SetToken(r, q, p)
    <3>1. CASE InSession
      <4> DEFINE a == Put(r, loaded, [Held(q) EXCEPT !.secret = p.secret])
      <4>1. Leaves(r, a, p)
        BY <2>1, <2>8, <3>1 DEF SetToken
      <4>2. Drawn(r, a)
        BY <1>4, <2>1, <2>8, <3>1
      <4> HIDE DEF a
      <4>3. Turned(r, a, p)
        BY <1>5, <2>1, <2>5, <3>1, <4>2
      <4> QED BY <1>0, <1>3, <4>1, <4>2, <4>3
    <3>2. CASE ~InSession
      <4> DEFINE c == [p EXCEPT !.setCookie = p.head = None]
      <4>1. Leaves(r, q, c)
        BY <2>8, <3>2 DEF SetToken
      <4>2. DOMAIN c = DOMAIN NewPage /\ c.head = p.head
        BY <2>5 DEF NewPage
      <4> HIDE DEF c
      <4>3. Turned(r, q, c)
        BY <1>5, <2>1, <2>5, <2>6, <4>2
      <4> QED BY <1>0, <1>2, <1>3, <2>1, <4>1, <4>3
    <3> QED BY <3>1, <3>2
  <2> QED BY <2>7, <2>8
<1>12. ASSUME TokenFormField(r) PROVE UNCHANGED <<vars, page>>
  BY <1>12 DEF TokenFormField
<1>13. Goal \/ UNCHANGED <<vars, page>>
  BY <1>6, <1>7, <1>8, <1>9, <1>10, <1>11, <1>12 DEF PluginCall
<1> QED BY <1>1, <1>13 DEF Goal

LEMMA PluginCallInv ==
    ASSUME OwnInv, NeverLate, NEW r \in Requests, PluginCall(r)
    PROVE  OwnInv'
<1>1. SessionInv /\ HeadInv /\ DOMAIN page[r] = DOMAIN NewPage
  BY DEF OwnInv, HeadInv, Page
<1>2. ASSUME NEW q, NEW p, Touches(r), Reached(r, q), Turned(r, q, p), Leaves(r, q, p) PROVE OwnInv'
  <2>1. Good(r, q)
    BY <1>1, <1>2, ReachedGood
  <2>2. SessionInv'
    BY <1>1, <1>2, <2>1, BecomesInv DEF Leaves
  <2>3. Good(r, req[r]) /\ Good(r, LoadSession(r, req[r]))
    <3>1. Good(r, req[r])
      BY <1>1, <1>2, GoodAtFirst
    <3> QED BY <1>1, <1>2, <3>1, LoadSessionGood
  <2>4. Page(p)
    BY <1>1, <1>2, <2>3 DEF Turned, Page, HeadInv, Good, Stash
  <2> QED BY <1>1, <1>2, <2>2, <2>4 DEF OwnInv, HeadInv, Leaves
<1>3. CASE UNCHANGED <<vars, page>>
  BY <1>3 DEF vars, OwnInv, HeadInv, SessionInv, TypesInv, StashInv, FilesInv, UnusedInv, Unused
<1> QED BY <1>1, <1>2, <1>3, PluginSteps

LEMMA StepInv ==
    ASSUME OwnInv, NeverLate, [ClientsNext]_<<vars, plugins>>
    PROVE  OwnInv'
<1> DEFINE same == UNCHANGED <<scenario, client, req, dir, content, conns>>
<1>1. SessionInv /\ HeadInv
  BY DEF OwnInv
<1>2. ASSUME same PROVE SessionInv'
  BY <1>1, <1>2 DEF SessionInv, TypesInv, StashInv, FilesInv, UnusedInv, Unused
<1>3. ASSUME SessionInv', page' = page PROVE OwnInv'
  BY <1>1, <1>3 DEF OwnInv, HeadInv
<1>4. CASE UNCHANGED <<vars, plugins>>
  BY <1>2, <1>3, <1>4 DEF vars, plugins
<1>5. ASSUME NEW r \in Requests, (\E t \in Threads, p \in Peers : Start(r, t, p)) /\ Arrives(r)
      PROVE  OwnInv'
  <2>1. SessionInv'
    BY <1>1, <1>5, StartInv
  <2>2. PICK c : page' = [page EXCEPT ![r] = [NewPage EXCEPT !.cookie = c]]
    BY <1>5 DEF Arrives
  <2>3. Page([NewPage EXCEPT !.cookie = c])
    BY DEF Page, NewPage
  <2> QED BY <1>1, <2>1, <2>2, <2>3 DEF OwnInv, HeadInv
<1>6. ASSUME NEW r \in Requests, PluginCall(r) PROVE OwnInv'
  BY <1>6, PluginCallInv
<1>7. ASSUME NEW r \in Requests, ClientAnswered(r) PROVE OwnInv'
  <2>1. PICK head \in {req[r], page[r].head} :
            AnsweredWith(r, head) /\ head.cookie \in AnySid
    BY <1>1, <1>7 DEF ClientAnswered, HeadInv, Page, SessionInv, StashInv, Stash
  <2>2. SessionInv'
    BY <1>1, <2>1, AnsweredInv
  <2>3. page' = [page EXCEPT ![r] = NewPage] /\ Page(NewPage)
    BY <1>7 DEF ClientAnswered, Page, NewPage
  <2> QED BY <1>1, <2>2, <2>3 DEF OwnInv, HeadInv
<1>8. ASSUME NEW r \in Requests, (Call(r) \/ AfterDispatch(r) \/ ContextDeleted(r)) /\ UNCHANGED plugins
      PROVE  OwnInv'
  <2>1. SessionInv'
    BY <1>1, <1>8, CallInv, AfterDispatchInv, ContextDeletedInv
  <2> QED BY <1>3, <1>8, <2>1 DEF plugins
<1>9. CASE FormCookieExpires
  BY <1>2, <1>3, <1>9 DEF FormCookieExpires, vars
<1>10. CASE CookieExpires /\ UNCHANGED plugins
  <2>1. DOMAIN client' = {"sid", "until", "value", "peer"} /\ client'.sid \in AnySid
    BY <1>1, <1>10 DEF CookieExpires, SessionInv, TypesInv, AnySid
  <2>2. UNCHANGED <<scenario, req, dir, content, conns>>
    BY <1>10 DEF CookieExpires
  <2>3. SessionInv'
    BY <1>1, <2>1, <2>2 DEF SessionInv, TypesInv, StashInv, FilesInv, UnusedInv, Unused
  <2> QED BY <1>3, <1>10, <2>3 DEF plugins
<1>11. CASE (Tick \/ Over) /\ UNCHANGED plugins
  BY <1>2, <1>3, <1>11 DEF Tick, Over, vars, plugins
<1> QED BY <1>4, <1>5, <1>6, <1>7, <1>8, <1>9, <1>10, <1>11 DEF ClientsNext

LEMMA FirstInv ==
    ASSUME ClientsInit
    PROVE  OwnInv
<1>1. SessionInv
  BY InitInv DEF ClientsInit
<1>2. HeadInv
  BY DEF ClientsInit, HeadInv, Page, NewPage
<1> QED BY <1>1, <1>2 DEF OwnInv

LEMMA OwnInvImplies ==
    ASSUME OwnInv
    PROVE  StoredUnderOwnId
<1> SUFFICES ASSUME NEW s \in Sids, dir[s] # NoFile, content[dir[s]].session.value \notin {NoValue, None}
             PROVE  content[dir[s]].session.owner = s
  BY DEF StoredUnderOwnId
<1>1. content[dir[s]].session # Null
  BY DEF Null, Hash
<1> QED BY <1>1 DEF OwnInv, SessionInv, FilesInv, Of

LEMMA ScenarioKept ==
    ASSUME [ClientsNext]_<<vars, plugins>>
    PROVE  scenario' = scenario
<1>1. CASE UNCHANGED <<vars, plugins>>
  BY <1>1 DEF vars
<1>2. ASSUME NEW r \in Requests, (\E t \in Threads, p \in Peers : Start(r, t, p)) /\ Arrives(r)
      PROVE  scenario' = scenario
  BY <1>2 DEF Start
<1>3. ASSUME NEW r \in Requests, PluginCall(r) PROVE scenario' = scenario
  <2> DEFINE Kept == scenario' = scenario
  <2>1. ASSUME NEW q, NEW p, Leaves(r, q, p) PROVE Kept
    BY <2>1 DEF Leaves, Becomes
  <2>2. ASSUME NEW q, NEW p, SetToken(r, q, p) PROVE Kept
    BY <2>1, <2>2 DEF SetToken
  <2>3. TokenFormField(r) => Kept
    BY DEF TokenFormField, vars
  <2> HIDE DEF Kept
  <2>4. ASSUME NEW kind, NEW f, BeforeDispatch(r, kind, f) PROVE Kept
    BY <2>1, <2>2, <2>4 DEF BeforeDispatch
  <2>5. ASSUME NEW t, Load(r, t) PROVE Kept
    BY <2>1, <2>5 DEF Load
  <2>6. ASSUME NEW who, Authenticate(r, who) PROVE Kept
    BY <2>1, <2>6 DEF Authenticate
  <2>7. ASSUME Status(r) \/ User(r) \/ Logout(r) PROVE Kept
    BY <2>1, <2>7 DEF Status, User, Logout
  <2>8. Kept
    BY <1>3, <2>3, <2>4, <2>5, <2>6, <2>7 DEF PluginCall
  <2> QED BY <2>8 DEF Kept
<1>4. ASSUME NEW r \in Requests, ClientAnswered(r) PROVE scenario' = scenario
  BY <1>4 DEF ClientAnswered, AnsweredWith
<1>5. ASSUME NEW r \in Requests, Call(r) PROVE scenario' = scenario
  BY <1>5 DEF Call, Value, SetValue, CallExpires, ChangeExpires, DeleteSession, Becomes
<1>6. ASSUME NEW r \in Requests, AfterDispatch(r) \/ ContextDeleted(r) PROVE scenario' = scenario
  BY <1>6 DEF AfterDispatch, ContextDeleted
<1>7. CASE FormCookieExpires \/ CookieExpires \/ Tick \/ Over
  BY <1>7 DEF FormCookieExpires, CookieExpires, Tick, Over, vars
<1> QED BY <1>1, <1>2, <1>3, <1>4, <1>5, <1>6, <1>7 DEF ClientsNext

\* What is stored in a session stays in its file, also when requests of several
\* threads have it open, a context outlives its request, or the plugins store in it.
THEOREM OwnFile == ClientsSpec => [](NeverLate => StoredUnderOwnId)
<1> DEFINE Inv == NeverLate => OwnInv
<1>1. ClientsInit => Inv
  BY FirstInv
<1>2. Inv /\ [ClientsNext]_<<vars, plugins>> => Inv'
  <2> SUFFICES ASSUME Inv, [ClientsNext]_<<vars, plugins>>, NeverLate'
               PROVE  OwnInv'
    OBVIOUS
  <2>1. NeverLate
    BY ScenarioKept DEF NeverLate, habits
  <2> QED BY <2>1, StepInv
<1>3. Inv => (NeverLate => StoredUnderOwnId)
  BY OwnInvImplies
<1> QED BY <1>1, <1>2, <1>3, PTL DEF ClientsSpec

----------------------------------------------------------------------------
(* The invariant behind DeletedIsGone.                                      *)

\* Every request looks at its session before it deletes it, and deletes it only if it
\* stored nothing in it, nor stores anything afterwards.
Careful == habits \cap {"storesLate", "deletesUnseen", "deletesUpdated", "idles"} = {}

\* A session that was sent to the client, or that r may send to it.
Out(s)    == s = NoSid \/ req[s[1]].pc \in {"answered", "done"}
Met(r, s) == Out(s) \/ s[1] = r

\* What the flags of a stash say of its id, its file and its values. A request that
\* deletes the session of its cookie has its file open, and will remove it.
Tidy(r, q) ==
    /\ q.readAt # 0 \/ q.expires # NoTime \/ q.values # Null => q.triedExpires
    /\ q.triedExpires \/ q.id # NoSid => q.triedId
    /\ q.triedExpires /\ q.id # NoSid => q.loaded
    /\ q.triedId /\ q.client.sid # NoSid /\ q.id = NoSid => q.deletedId
    /\ q.updated => q.values # Null
    /\ q.id \notin {NoSid, q.client.sid} => q.updated
    /\ q.deletedId => /\ q.data = NoData /\ q.expires = NoTime /\ ~q.updated
                      /\ q.client.sid # NoSid => q.file = q.client.sid /\ q.save
    /\ q.gone \subseteq {q.client.sid} \ {NoSid}
    /\ q.gone # {} => q.deletedId
    /\ Met(r, q.id) /\ Met(r, q.cookie)
    /\ q.past \subseteq dead /\ (q.client.sid \in q.past => q.read = NoValue)

\* A stash with the file of a session that was deleted, as it is now, was emptied.
Shows(r, q)  == q.file \in dead /\ (q.file = req[r].file => q.inode = dir[q.file])
Fenced(r, q) ==
    ~q.deletedId => /\ ~Shows(r, q)
                    /\ q.client.sid \in q.past /\ q.loaded => q.id # q.client.sid
Calm(r, q) == Good(r, q) /\ Tidy(r, q) /\ Fenced(r, q)

DeadInv ==
    /\ now \in Nat /\ now >= 1 /\ dead \subseteq Sids
    /\ \A s \in dead : Out(s) /\ (dir[s] = NoFile \/ content[dir[s]] = NoData)
ClientInv ==
    /\ Out(client.sid)
    /\ \A r \in Requests :
          /\ Out(req[r].client.sid) /\ Met(r, req[r].cookie)
          /\ req[r].client.sid \in req[r].past => req[r].read = NoValue
          /\ page[r].head # None => Met(r, page[r].head.cookie)
HiddenInv ==
    \A r \in Requests :
        req[r].file \in dead /\ req[r].inode = dir[req[r].file] => req[r].data = NoData
SeatInv ==
    \A r \in Requests :
        req[r].pc = "active" =>
            /\ Tidy(r, req[r]) /\ Fenced(r, req[r])
            /\ req[r].file # NoSid => r \in Range(conns)
GoneInv == DeadInv /\ ClientInv /\ HiddenInv /\ SeatInv

LEMMA CalmAtFirst ==
    ASSUME SessionInv, GoneInv, NEW r \in Requests, Touches(r)
    PROVE  Calm(r, req[r])
BY GoodAtFirst DEF GoneInv, SeatInv, Touches, Calm

LEMMA NothingToLoad ==
    ASSUME NEW r \in Requests, NEW q, Tidy(r, q), q.triedExpires
    PROVE  LoadData(r, q, q.id) = q
BY DEF Tidy, LoadData

\* The file of a deleted session is empty.
LEMMA DeadIsEmpty ==
    ASSUME SessionInv, GoneInv, NEW r \in Requests, Touches(r), NEW q, Good(r, q), ~q.loaded,
           NEW sid \in dead
    PROVE  LoadData(r, q, sid).data = NoData
<1> DEFINE i == IF dir[sid] = NoFile THEN r ELSE dir[sid]
<1>1. sid \in Sids
  BY DEF GoneInv, DeadInv
<1>2. content[i] = NoData
  BY DEF GoneInv, DeadInv, Good, SessionInv, UnusedInv, Unused, Touches, Fresh
<1>3. LoadData(r, q, sid) = [q EXCEPT !.loaded = TRUE, !.data = content[i], !.file = sid, !.inode = i]
  BY <1>1, NoSids DEF LoadData
<1> HIDE DEF i
<1> QED BY <1>2, <1>3 DEF Good, Stash, Fields

LEMMA LoadIdCalm ==
    ASSUME SessionInv, GoneInv, NEW r \in Requests, NEW q, Calm(r, q), NEW a, a = LoadId(q)
    PROVE  /\ Calm(r, a) /\ a.triedId /\ Same(q, a, {"triedId", "id"})
           /\ q.triedId => a = q
<1>1. Good(r, a) /\ Same(q, a, {"triedId", "id"})
  BY LoadIdGood DEF Calm
<1>2. CASE q.id # NoSid \/ q.triedId
  BY <1>1, <1>2 DEF LoadId, Calm, Tidy
<1>3. CASE ~(q.id # NoSid \/ q.triedId)
  <2>1. /\ DOMAIN a = Fields /\ \A f \in Fields \ {"triedId", "id"} : a[f] = q[f]
        /\ a.id = (IF q.deletedId THEN NoSid ELSE q.client.sid) /\ a.triedId = TRUE
    <3>1. a = [q EXCEPT !.triedId = TRUE, !.id = IF q.deletedId THEN NoSid ELSE q.client.sid]
      BY <1>3 DEF LoadId
    <3> QED BY <1>1, <3>1 DEF Calm, Good, Stash, Same, Fields
  <2>2. Out(q.client.sid) /\ Out(NoSid)
    BY DEF Calm, Good, GoneInv, ClientInv, Out
  <2>3. ~q.triedExpires /\ (q.loaded => q.deletedId)
    BY <1>3 DEF Calm, Tidy, Good, Live
  <2>4. Tidy(r, a)
    BY <1>3, <2>1, <2>2, <2>3 DEF Calm, Tidy, Met, Fields
  <2>5. Fenced(r, a)
    BY <2>1, <2>3 DEF Calm, Fenced, Shows, Fields
  <2> QED BY <1>1, <1>3, <2>1, <2>4, <2>5 DEF Calm
<1> QED BY <1>2, <1>3

\* What a call leaves of what the request was told.
Told == {"client", "past", "triedId", "triedExpires", "read", "readAt"}

LEMMA DoDeleteCalm ==
    ASSUME SessionInv, GoneInv, NEW r \in Requests, Touches(r), NEW q, Good(r, q), Tidy(r, q),
           q.triedId, ~q.updated, NEW a, a = DoDelete(r, q)
    PROVE  /\ Calm(r, a) /\ a.deletedId /\ a.values = Null
           /\ \A f \in Told : a[f] = q[f]
<1> DEFINE l == LoadData(r, q, q.id)
<1>1. Good(r, l) /\ Same(q, l, {"loaded", "data", "file", "inode"}) /\ (q.id # NoSid => l.loaded)
  BY LoadDataGood
<1>2. a = Reset(SetCookie(Stored(l, NoData), NoSid, now))
  BY DEF DoDelete
<1>3. q.id = NoSid => l = q
  BY DEF LoadData
<1> HIDE DEF l
<1>4. /\ DOMAIN a = Fields /\ a.deletedId = TRUE /\ a.id = NoSid /\ a.values = Null /\ a.data = NoData
      /\ a.loaded = TRUE /\ a.cookie = NoSid /\ a.save = TRUE /\ a.expires = NoTime
      /\ a.gone = l.gone \cup Own(l)
      /\ \A f \in Told \cup {"file", "inode", "updated"} : a[f] = l[f]
  <2> DEFINE k == Stored(l, NoData)
             c == SetCookie(k, NoSid, now)
  <2>1. /\ DOMAIN k = Fields /\ k.data = NoData /\ k.loaded = TRUE /\ k.save = TRUE
        /\ \A f \in Fields \ {"loaded", "data", "save"} : k[f] = l[f]
    BY <1>1 DEF Stored, Good, Stash, Fields
  <2> HIDE DEF k
  <2>2. /\ DOMAIN c = Fields /\ c.cookie = NoSid
        /\ \A f \in Fields \ {"setCookie", "cookie", "until"} : c[f] = k[f]
    BY <2>1 DEF SetCookie, Fields
  <2> HIDE DEF c
  <2>3. Own(c) = Own(l)
    BY <2>1, <2>2 DEF Own, Fields
  <2>4. a = Reset(c)
    BY <1>2 DEF k, c
  <2>5. /\ DOMAIN a = Fields /\ a.deletedId = TRUE /\ a.id = NoSid /\ a.values = Null
        /\ a.expires = NoTime /\ a.gone = c.gone \cup Own(c)
        /\ \A f \in Fields \ {"deletedId", "values", "id", "expires", "gone"} : a[f] = c[f]
    BY <2>2, <2>4, ZenonT(40) DEF Reset, Fields
  <2>6. c.gone = l.gone /\ c.data = NoData /\ c.loaded = TRUE /\ c.save = TRUE
    BY <2>1, <2>2 DEF Fields
  <2>7. \A f \in Told \cup {"file", "inode", "updated"} : a[f] = l[f]
    BY <2>1, <2>2, <2>5 DEF Told, Fields
  <2> QED BY <2>2, <2>3, <2>5, <2>6, <2>7 DEF Fields
<1>5. /\ \A f \in Told \cup {"id", "deletedId", "gone", "updated", "client"} : l[f] = q[f]
  BY <1>1 DEF Same, Fields, Told
<1>6. Good(r, a)
  BY DoDeleteGood
<1>7. q.client.sid # NoSid => l.file = q.client.sid
  <2>1. CASE q.id = NoSid
    BY <1>3, <2>1 DEF Tidy
  <2>2. CASE q.id # NoSid
    <3>1. q.id = q.client.sid /\ ~q.deletedId
      BY <2>2 DEF Tidy, Good, Live
    <3>2. l.id = q.id /\ l.deletedId = q.deletedId
      BY <1>5
    <3> QED BY <1>1, <2>2, <3>1, <3>2 DEF Good, Live
  <2> QED BY <2>1, <2>2
<1>8. a.gone \subseteq {q.client.sid} \ {NoSid}
  <2>1. l.gone = q.gone /\ l.id = q.id /\ l.client = q.client
    BY <1>5
  <2>2. Own(l) \subseteq {q.client.sid} \ {NoSid}
    BY <2>1 DEF Own, Tidy
  <2> QED BY <1>4, <2>1, <2>2 DEF Tidy
<1>9. \A f \in Told : a[f] = q[f]
  BY <1>4, <1>5
<1>10. a.client = q.client /\ a.past = q.past /\ a.triedId = q.triedId /\ a.updated = q.updated
       /\ a.triedExpires = q.triedExpires /\ a.read = q.read /\ a.readAt = q.readAt /\ a.file = l.file
  BY <1>4, <1>5 DEF Told
<1>11. Tidy(r, a)
  BY <1>4, <1>7, <1>8, <1>10 DEF Tidy, Met, Out
<1> QED BY <1>4, <1>6, <1>9, <1>11 DEF Calm, Fenced

LEMMA LoadExpiresCalm ==
    ASSUME SessionInv, GoneInv, NEW r \in Requests, Touches(r), NEW q, Calm(r, q), q.triedId,
           NEW a, a = LoadExpires(r, q)
    PROVE  /\ Calm(r, a) /\ a.triedExpires /\ a.triedId
           /\ a.deletedId \/ a.id = q.id
           /\ a.values \in {q.values, Null}
           /\ \A f \in {"client", "past", "read", "readAt", "updated"} : a[f] = q[f]
           /\ q.triedExpires => a = q
           /\ q.id = NoSid => Same(q, a, {"triedExpires"})
<1>1. CASE q.triedExpires
  BY <1>1 DEF LoadExpires, Same, Calm, Good, Stash
<1>2. CASE ~q.triedExpires
  <2> DEFINE t == [q EXCEPT !.triedExpires = TRUE]
             l == LoadData(r, t, q.id)
  <2>1. DOMAIN t = Fields /\ t.triedExpires = TRUE /\ \A f \in Fields \ {"triedExpires"} : t[f] = q[f]
    BY DEF Calm, Good, Stash, Fields
  <2>2. a = CheckExpires(r, l) /\ l = LoadData(r, t, t.id)
    BY <1>2, <2>1 DEF LoadExpires, Fields
  <2>3. Good(r, a) /\ a.updated = q.updated
    BY LoadExpiresGood DEF Calm
  <2>4. q.values = Null /\ ~q.updated /\ q.id \in {NoSid, q.client.sid}
    BY <1>2 DEF Calm, Tidy
  <2>5. CASE q.id = NoSid
    <3>1. a = t
      BY <2>1, <2>2, <2>5 DEF LoadData, CheckExpires, Fields
    <3> HIDE DEF t
    <3>2. Tidy(r, a)
      BY <2>1, <2>5, <3>1 DEF Calm, Tidy, Met, Fields
    <3>3. Fenced(r, a)
      BY <2>1, <3>1 DEF Calm, Fenced, Shows, Fields
    <3>4. Same(q, a, {"triedExpires"})
      BY <2>1, <3>1 DEF Same
    <3>5. \A f \in {"client", "past", "read", "readAt", "updated", "id", "values", "triedId"} : a[f] = q[f]
      BY <2>1, <3>1 DEF Fields
    <3> QED BY <1>2, <2>1, <2>3, <3>1, <3>2, <3>3, <3>4, <3>5 DEF Calm
  <2>6. CASE q.id # NoSid
    <3> HIDE DEF t
    <3>1. Good(r, t)
      BY <2>1 DEF Calm, Good, Stash, Live, Fields
    <3>2. t.id = q.id /\ t.loaded = q.loaded /\ t.file = q.file /\ t.inode = q.inode
      BY <2>1 DEF Fields
    <3>3. Good(r, l) /\ l.loaded /\ Same(t, l, {"loaded", "data", "file", "inode"})
      <4> HIDE DEF l
      <4> QED BY <2>2, <2>6, <3>1, <3>2, LoadDataGood
    <3>4. q.loaded => l = t
      BY <3>2 DEF LoadData
    <3>5. ~q.loaded /\ q.id \in dead => l.data = NoData
      BY <3>1, <3>2, DeadIsEmpty
    <3> HIDE DEF l
    <3>6. /\ DOMAIN l = Fields /\ l.triedExpires = TRUE
          /\ \A f \in Fields \ {"triedExpires", "loaded", "data", "file", "inode"} : l[f] = q[f]
      BY <2>1, <3>3 DEF Same, Fields
    <3>7. ~q.deletedId /\ ~l.deletedId /\ l.file = q.id /\ q.id = q.client.sid
      <4>1. l.id = q.id /\ l.deletedId = q.deletedId
        BY <3>6 DEF Fields
      <4> QED BY <2>4, <2>6, <3>3, <4>1 DEF Calm, Good, Live
    <3>8. Tidy(r, l)
      BY <3>3, <3>6, <3>7 DEF Calm, Tidy, Met, Fields
    <3>9. CASE l.data.expires >= now
      <4>1. a = [l EXCEPT !.expires = l.data.expires]
        <5>1. l.id = q.id
          BY <3>6 DEF Fields
        <5> QED BY <2>2, <2>6, <3>9, <5>1 DEF CheckExpires
      <4>2. DOMAIN a = Fields /\ \A f \in Fields \ {"expires"} : a[f] = l[f]
        BY <3>6, <4>1 DEF Fields
      <4>3. Tidy(r, a)
        BY <3>6, <3>7, <3>8, <4>2 DEF Tidy, Met, Fields
      <4>4. ~q.loaded => q.id \notin dead
        <5>1. SUFFICES ASSUME ~q.loaded, q.id \in dead PROVE FALSE
          OBVIOUS
        <5>2. l.data.expires = 0
          BY <3>5, <5>1 DEF NoData
        <5> QED BY <3>9, <5>2 DEF GoneInv, DeadInv
      <4>5. q.past \subseteq dead
        BY DEF Calm, Tidy
      <4>6. Fenced(r, a)
        <5>1. CASE q.loaded
          <6>1. \A f \in {"file", "inode", "client", "past", "loaded", "id", "deletedId"} : a[f] = q[f]
            BY <2>1, <3>4, <4>2, <5>1 DEF Fields
          <6> QED BY <6>1 DEF Calm, Fenced, Shows
        <5>2. CASE ~q.loaded
          <6>1. a.file = q.id /\ a.client = q.client /\ a.past = q.past /\ a.id = q.id
            BY <3>6, <3>7, <4>2 DEF Fields
          <6> QED BY <3>7, <4>4, <4>5, <5>2, <6>1 DEF Fenced, Shows
        <5> QED BY <5>1, <5>2
      <4>7. /\ a.triedExpires /\ a.triedId /\ a.id = q.id /\ a.values = q.values
            /\ \A f \in {"client", "past", "read", "readAt", "updated"} : a[f] = q[f]
        BY <3>6, <4>2 DEF Fields
      <4> QED BY <1>2, <2>3, <2>6, <4>3, <4>6, <4>7 DEF Calm
    <3>10. CASE ~(l.data.expires >= now)
      <4>1. l.id = q.id /\ l.triedId = q.triedId /\ l.updated = q.updated
        BY <3>6 DEF Fields
      <4>2. a = DoDelete(r, l) /\ l.triedId /\ ~l.updated
        BY <2>2, <2>4, <2>6, <3>10, <4>1 DEF CheckExpires
      <4>3. /\ Calm(r, a) /\ a.deletedId /\ a.values = Null
            /\ \A f \in Told : a[f] = l[f]
        BY <3>3, <3>8, <4>2, DoDeleteCalm
      <4>4. /\ a.triedExpires /\ a.triedId
            /\ \A f \in {"client", "past", "read", "readAt"} : a[f] = q[f]
        BY <3>6, <4>3 DEF Told, Fields
      <4> QED BY <1>2, <2>3, <2>6, <4>3, <4>4
    <3> QED BY <3>9, <3>10
  <2> QED BY <2>5, <2>6
<1> QED BY <1>1, <1>2

LEMMA FindSessionCalm ==
    ASSUME SessionInv, GoneInv, NEW r \in Requests, Touches(r), NEW q, Calm(r, q), q.triedId,
           q.values = Null, NEW a, a = FindSession(r, q)
    PROVE  /\ Calm(r, a) /\ a.triedExpires
           /\ q.client.sid \in q.past => Blank(a.values)
           /\ \A f \in {"client", "past", "read", "readAt"} : a[f] = q[f]
<1> DEFINE e == LoadExpires(r, q)
<1>1. /\ Calm(r, e) /\ e.triedExpires /\ e.triedId /\ (e.deletedId \/ e.id = q.id) /\ e.values = Null
      /\ \A f \in {"client", "past", "read", "readAt", "updated"} : e[f] = q[f]
  BY LoadExpiresCalm
<1>2. q.updated = e.updated /\ ~q.updated
  BY <1>1 DEF Calm, Tidy
<1>3. CASE ReturnsExpires(q) /\ q.id # NoSid
  <2>1. LoadData(r, e, q.id) = e
    <3> HIDE DEF e
    <3>1. CASE e.id = q.id
      BY <1>1, <3>1, NothingToLoad DEF Calm
    <3>2. CASE e.deletedId
      <4>1. q.id = q.client.sid
        BY <1>2, <1>3 DEF Calm, Tidy
      <4>2. e.client = q.client
        BY <1>1
      <4>3. e.loaded
        BY <1>1, <1>3, <3>2, <4>1, <4>2 DEF Calm, Tidy, Good, Stash
      <4> QED BY <4>3 DEF LoadData
    <3> QED BY <1>1, <3>1, <3>2
  <2>2. a = Restore(r, e)
    BY <1>3, <2>1 DEF FindSession
  <2> HIDE DEF e
  <2>3. CASE e.data.session.peer \in {NoPeer, e.peer}
    <3>1. a = [e EXCEPT !.values = ToHash(e.data.session, e.id)]
      BY <2>2, <2>3 DEF Restore
    <3>2. /\ DOMAIN a = Fields /\ \A f \in Fields \ {"values"} : a[f] = e[f]
          /\ a.values = ToHash(e.data.session, e.id)
      BY <1>1, <3>1 DEF Calm, Good, Stash, Fields
    <3>3. Good(r, a)
      <4>1. a = FindSession(r, q)
        OBVIOUS
      <4> QED BY <4>1, FindSessionGood DEF Calm
    <3>4. Tidy(r, a)
      BY <1>1, <1>2, <3>2 DEF Calm, Tidy, Met, Fields
    <3>5. Fenced(r, a)
      BY <1>1, <3>2 DEF Calm, Fenced, Shows, Fields
    <3>6. ASSUME q.client.sid \in q.past PROVE Blank(a.values)
      <4>1. CASE e.deletedId
        <5>1. e.data = NoData
          BY <1>1, <4>1 DEF Calm, Tidy
        <5> QED BY <3>2, <5>1 DEF NoData, ToHash, Hash, Blank
      <4>2. CASE ~e.deletedId
        <5>1. e.id = q.id /\ q.id = q.client.sid /\ e.client = q.client /\ e.past = q.past
          BY <1>1, <1>2, <1>3, <4>2 DEF Calm, Tidy
        <5>2. e.loaded
          BY <1>1, <1>3, <5>1 DEF Calm, Tidy
        <5> QED BY <1>1, <3>6, <4>2, <5>1, <5>2 DEF Calm, Fenced
      <4> QED BY <4>1, <4>2
    <3>7. a.triedExpires /\ \A f \in {"client", "past", "read", "readAt"} : a[f] = q[f]
      BY <1>1, <3>2 DEF Fields
    <3> QED BY <3>3, <3>4, <3>5, <3>6, <3>7 DEF Calm
  <2>4. CASE ~(e.data.session.peer \in {NoPeer, e.peer})
    <3>1. a = DoDelete(r, e)
      BY <2>2, <2>4 DEF Restore
    <3>2. /\ Calm(r, a) /\ a.values = Null /\ \A f \in Told : a[f] = e[f]
      BY <1>1, <1>2, <3>1, DoDeleteCalm DEF Calm
    <3>3. a.triedExpires /\ \A f \in {"client", "past", "read", "readAt"} : a[f] = q[f]
      BY <1>1, <3>2 DEF Told
    <3> QED BY <3>2, <3>3 DEF Blank
  <2> QED BY <2>3, <2>4
<1>4. CASE ~(ReturnsExpires(q) /\ q.id # NoSid)
  <2>1. a = e
    BY <1>4 DEF FindSession
  <2> HIDE DEF e
  <2> QED BY <1>1, <2>1 DEF Blank
<1> QED BY <1>3, <1>4

LEMMA LoadSessionCalm ==
    ASSUME SessionInv, GoneInv, NEW r \in Requests, Touches(r), NEW q, Calm(r, q),
           NEW a, a = LoadSession(r, q)
    PROVE  Calm(r, a) /\ a.triedExpires
<1>1. CASE q.values # Null
  BY <1>1 DEF LoadSession, Calm, Tidy
<1>2. CASE q.values = Null
  <2> DEFINE i == LoadId(q)
             f == FindSession(r, i)
  <2>1. Calm(r, i) /\ i.triedId /\ Same(q, i, {"triedId", "id"})
    BY LoadIdCalm
  <2>2. i.values = Null
    BY <1>2, <2>1 DEF Same, Fields
  <2> HIDE DEF i
  <2>3. /\ Calm(r, f) /\ f.triedExpires
        /\ i.client.sid \in i.past => Blank(f.values)
        /\ \A x \in {"client", "past", "read", "readAt"} : f[x] = i[x]
    BY <2>1, <2>2, FindSessionCalm
  <2>4. a = Seen(f)
    BY <1>2 DEF LoadSession, i
  <2>5. Good(r, a)
    BY LoadSessionGood DEF Calm
  <2> HIDE DEF f
  <2>6. /\ DOMAIN a = Fields /\ \A x \in Fields \ {"read", "readAt"} : a[x] = f[x]
        /\ a.read = f.read \/ a.read = (IF f.values = Null THEN NoValue ELSE f.values.value)
    BY <2>3, <2>4 DEF Seen, Calm, Good, Stash, Fields
  <2>7. q.client.sid \in q.past => a.read = NoValue
    <3>1. f.client = q.client /\ f.past = q.past /\ i.client = q.client /\ i.past = q.past
      BY <2>1, <2>3 DEF Same, Fields
    <3> QED BY <2>3, <2>6, <3>1 DEF Calm, Tidy, Blank
  <2>8. Tidy(r, a)
    <3>1. a.client = q.client /\ a.past = q.past
      BY <2>1, <2>3, <2>6 DEF Same, Fields
    <3> QED BY <2>3, <2>6, <2>7, <3>1 DEF Calm, Tidy, Met, Fields
  <2>9. Fenced(r, a)
    BY <2>3, <2>6 DEF Calm, Fenced, Shows, Fields
  <2> QED BY <2>3, <2>5, <2>6, <2>8, <2>9 DEF Calm, Fields
<1> QED BY <1>1, <1>2

LEMMA StoreValueCalm ==
    ASSUME SessionInv, GoneInv, NEW r \in Requests, Touches(r), NEW q, Calm(r, q), q.triedExpires,
           ~q.deletedId, q.created < MaxSessions \/ q.values # Null,
           NEW v, NEW a, a = StoreValue(r, q, v)
    PROVE  Calm(r, a)
<1> DEFINE c == IF q.values = Null THEN CreateSession(r, q) ELSE q
           sid == <<r, q.created + 1>>
<1>1. Good(r, a)
  BY StoreValueGood DEF Calm
<1>2. Good(r, c) /\ c.values # Null /\ ~c.deletedId
  BY CreateSessionGood DEF Calm
<1>3. a = WithValue(c, v)
  BY DEF StoreValue
<1>4. ASSUME q.values = Null, q.id = NoSid
      PROVE  /\ sid \in Sids /\ ~q.loaded
             /\ c.id = sid /\ c.file = sid /\ c.cookie = sid /\ c.triedExpires = TRUE
             /\ \A f \in {"client", "past", "triedId", "read", "readAt", "gone"} : c[f] = q[f]
  <2> DEFINE l == LoadData(r, q, sid)
             d == CreateSessionId(l, sid)
  <2>1. sid \in Sids /\ ~q.loaded
    <3>1. q.created \in Nat /\ MaxSessions \in Nat
      BY SessionConstants DEF Calm, Good, Stash
    <3>2. q.created + 1 \in 1 .. MaxSessions
      BY <1>4, <3>1
    <3> QED BY <1>4, <3>2 DEF Calm, Good, Live, Sids
  <2>2. c = Initialize(d)
    BY <1>4 DEF CreateSession
  <2> HIDE DEF sid, c
  <2>3. Opened(r, q, l, sid)
    BY <2>1, LoadDataNew DEF Calm
  <2> HIDE DEF l
  <2>4. /\ DOMAIN d = Fields /\ d.id = sid /\ d.cookie = sid /\ d.triedExpires = TRUE
        /\ \A f \in {"client", "past", "triedId", "read", "readAt", "gone", "file"} : d[f] = l[f]
    BY <2>3 DEF Opened, Same, CreateSessionId, SetCookie, Fields
  <2> HIDE DEF d
  <2>5. \A f \in Fields \ {"values"} : c[f] = d[f]
    BY <2>2, <2>4 DEF Initialize, Fields
  <2> QED BY <2>1, <2>3, <2>4, <2>5 DEF Opened, Same, Fields
<1>5. ASSUME q.values # Null \/ q.id # NoSid
      PROVE  \A f \in Fields \ {"values"} : c[f] = q[f]
  <2>1. CASE q.values # Null
    BY <2>1
  <2>2. CASE q.values = Null /\ q.id # NoSid
    <3>1. c = Initialize(q)
      BY <2>2 DEF CreateSession
    <3> HIDE DEF c
    <3> QED BY <3>1 DEF Initialize, Calm, Good, Stash, Fields
  <2> QED BY <1>5, <2>1, <2>2
<1> HIDE DEF c, sid
<1>6. /\ DOMAIN a = Fields /\ \A f \in Fields \ {"values", "updated"} : a[f] = c[f]
      /\ a.updated = TRUE
  BY <1>2, <1>3 DEF WithValue, Good, Stash, Fields
<1>7. a.values # Null /\ ~a.deletedId /\ a.id # NoSid /\ a.loaded
  <2>1. a.deletedId = c.deletedId /\ a.id = c.id /\ a.loaded = c.loaded
    BY <1>6 DEF Fields
  <2>2. c.id # NoSid
    BY <1>2 DEF Good, Live
  <2>3. c.loaded
    <3>1. CASE q.values = Null /\ q.id = NoSid
      <4>1. c.file # NoSid
        BY <1>4, <3>1, NoSids
      <4> QED BY <1>2, <4>1 DEF Good, Stash
    <3>2. CASE ~(q.values = Null /\ q.id = NoSid)
      BY <1>5, <2>2, <3>2 DEF Calm, Tidy, Fields
    <3> QED BY <3>1, <3>2
  <2> QED BY <1>1, <1>2, <1>6, <2>1, <2>2, <2>3 DEF Good, Live
<1>8. CASE q.values # Null \/ q.id # NoSid
  <2>1. \A f \in Fields \ {"values", "updated"} : a[f] = q[f]
    BY <1>5, <1>6, <1>8
  <2>2. Tidy(r, a)
    BY <1>6, <1>7, <2>1 DEF Calm, Tidy, Met, Fields
  <2>3. Fenced(r, a)
    BY <2>1 DEF Calm, Fenced, Shows, Fields
  <2> QED BY <1>1, <2>2, <2>3 DEF Calm
<1>9. CASE q.values = Null /\ q.id = NoSid
  <2>1. /\ a.id = sid /\ a.file = sid /\ a.cookie = sid /\ a.triedExpires = TRUE
        /\ \A f \in {"client", "past", "triedId", "read", "readAt", "gone"} : a[f] = q[f]
    BY <1>4, <1>6, <1>9, ZenonT(40) DEF Fields
  <2>2. sid[1] = r /\ ~Out(sid) /\ Out(q.client.sid)
    <3>1. sid[1] = r /\ sid # NoSid
      BY <1>4, <1>9, NoSids DEF sid
    <3>2. req[r].pc = "active"
      BY DEF Touches
    <3> QED BY <3>1, <3>2 DEF Out, Calm, Good, GoneInv, ClientInv
  <2>3. sid \notin dead /\ sid # q.client.sid
    BY <2>2 DEF GoneInv, DeadInv
  <2>4. Tidy(r, a)
    <3>1. q.triedId
      BY DEF Calm, Tidy
    <3> QED BY <1>6, <1>7, <2>1, <2>2, <2>3, <3>1 DEF Calm, Tidy, Met
  <2>5. Fenced(r, a)
    BY <2>1, <2>3 DEF Fenced, Shows
  <2> QED BY <1>1, <2>4, <2>5 DEF Calm
<1> QED BY <1>8, <1>9

LEMMA ReachedCalm ==
    ASSUME SessionInv, GoneInv, NEW r \in Requests, Touches(r), NEW q, Reached(r, q)
    PROVE  Calm(r, q)
<1> DEFINE l == LoadSession(r, req[r])
<1>1. Calm(r, req[r])
  BY CalmAtFirst
<1>2. Calm(r, l) /\ l.triedExpires
  BY <1>1, LoadSessionCalm
<1>3. q = req[r] \/ q = l \/ (~l.deletedId /\ (l.created < MaxSessions \/ l.values # Null)
                              /\ \E v : q = StoreValue(r, l, v))
  BY DEF Reached, Drawn
<1> HIDE DEF l
<1>4. ASSUME ~l.deletedId, l.created < MaxSessions \/ l.values # Null, NEW v, q = StoreValue(r, l, v)
      PROVE  Calm(r, q)
  BY <1>2, <1>4, StoreValueCalm
<1> QED BY <1>1, <1>2, <1>3, <1>4

LEMMA StoredCalm ==
    ASSUME NEW r \in Requests, NEW q, Calm(r, q), q.loaded, ~q.deletedId, NEW d,
           NEW a, a = Stored(q, d), Good(r, a)
    PROVE  Calm(r, a) /\ Same(q, a, {"loaded", "data", "save"})
<1>1. /\ DOMAIN a = Fields /\ \A f \in Fields \ {"loaded", "data", "save"} : a[f] = q[f]
      /\ a.loaded = TRUE
  BY DEF Stored, Calm, Good, Stash, Fields
<1>2. Tidy(r, a)
  BY <1>1 DEF Calm, Tidy, Met, Fields
<1>3. Fenced(r, a)
  BY <1>1 DEF Calm, Fenced, Shows, Fields
<1> QED BY <1>1, <1>2, <1>3 DEF Calm, Same

Cookies == {"setCookie", "cookie", "until", "extended"}

LEMMA ExtendCalm ==
    ASSUME SessionInv, GoneInv, NEW r \in Requests, Touches(r), NEW q, Calm(r, q), q.triedExpires,
           NEW a, a = Extend(r, q)
    PROVE  Calm(r, a) /\ Same(q, a, Cookies)
<1>1. CASE q.id = NoSid
  BY <1>1 DEF Extend, Same, Calm, Good, Stash
<1>2. CASE q.id # NoSid
  <2>1. a = ExtendLoaded(q)
    <3>1. LoadData(r, q, q.id) = q
      BY NothingToLoad DEF Calm
    <3> QED BY <1>2, <3>1 DEF Extend
  <2>2. CASE a = q
    BY <2>2 DEF Same, Calm, Good, Stash
  <2>3. CASE a = [SetCookie(q, q.id, CalculateExpires(q)) EXCEPT !.extended = CalculateExpires(q)]
    <3>1. DOMAIN a = Fields /\ a.cookie = q.id /\ \A f \in Fields \ Cookies : a[f] = q[f]
      BY <2>3 DEF SetCookie, Calm, Good, Stash, Fields, Cookies
    <3>2. Good(r, a)
      BY ExtendGood DEF Calm
    <3>3. Tidy(r, a)
      BY <3>1 DEF Calm, Tidy, Met, Fields, Cookies
    <3>4. Fenced(r, a)
      BY <3>1 DEF Calm, Fenced, Shows, Fields, Cookies
    <3> QED BY <3>1, <3>2, <3>3, <3>4 DEF Calm, Same
  <2> QED BY <2>1, <2>2, <2>3 DEF ExtendLoaded
<1> QED BY <1>1, <1>2

\* The request looked at its session or has none, and the file that it has is known.
Looked(q)   == q.client.sid = NoSid \/ q.readAt # 0 \/ q.deletedId
Still(q, a) == \A f \in {"file", "inode", "id", "client", "past", "deletedId", "gone", "read", "readAt",
                         "thread"} : a[f] = q[f]

LEMMA ExpiresCalm ==
    ASSUME SessionInv, GoneInv, NEW r \in Requests, Touches(r), NEW q, Calm(r, q),
           NEW a, a = Expires(r, q)
    PROVE  /\ Calm(r, a)
           /\ q.triedExpires => Same(q, a, Cookies)
           /\ Looked(q) => Still(q, a)
<1>1. CASE q.extended # NoTime
  BY <1>1 DEF Expires, Same, Still, Calm, Good, Stash
<1>2. CASE q.extended = NoTime
  <2> DEFINE i == LoadId(q)
             e == LoadExpires(r, i)
  <2>1. /\ Calm(r, i) /\ i.triedId /\ Same(q, i, {"triedId", "id"}) /\ (q.triedId => i = q)
    BY LoadIdCalm
  <2>2. a = ExpiresOf(r, i)
    BY <1>2 DEF Expires
  <2>3. Looked(q) => i.id = q.id \/ q.triedId
    BY DEF Looked, LoadId, Calm, Tidy
  <2> HIDE DEF i
  <2>4. /\ Calm(r, e) /\ e.triedExpires
        /\ i.triedExpires => e = i
        /\ i.id = NoSid => Same(i, e, {"triedExpires"})
    BY <2>1, LoadExpiresCalm
  <2>5. a = e \/ a = Extend(r, e)
    BY <2>2 DEF ExpiresOf
  <2> HIDE DEF e
  <2>6. Calm(r, a) /\ Same(e, a, Cookies)
    <3>1. CASE a = e
      BY <2>4, <3>1 DEF Same, Calm, Good, Stash
    <3>2. CASE a = Extend(r, e)
      BY <2>4, <3>2, ExtendCalm
    <3> QED BY <2>5, <3>1, <3>2
  <2>7. q.triedExpires => i = q /\ e = q
    BY <2>1, <2>4 DEF Calm, Tidy
  <2>8. ASSUME Looked(q) PROVE Still(q, a)
    <3>1. CASE q.triedExpires
      BY <2>6, <2>7, <3>1 DEF Same, Still, Fields, Cookies
    <3>2. CASE ~q.triedExpires
      <4>1. i.id = NoSid /\ q.id = NoSid
        <5>1. q.id \in {NoSid, q.client.sid} /\ q.readAt = 0
          BY <3>2 DEF Calm, Tidy
        <5>2. q.id = NoSid
          BY <2>8, <5>1 DEF Looked, Calm, Good, Live
        <5>3. i.id \in {NoSid, q.client.sid} /\ (q.deletedId => i.id = NoSid)
          BY <5>1 DEF i, LoadId, Calm, Good, Live, Stash, Fields
        <5> QED BY <2>8, <5>1, <5>2, <5>3 DEF Looked
      <4>2. Same(i, e, {"triedExpires"})
        BY <2>4, <4>1
      <4>3. a.id = q.id
        BY <2>6, <4>1, <4>2 DEF Same, Fields, Cookies
      <4> QED BY <2>1, <2>6, <4>2, <4>3 DEF Same, Still, Fields, Cookies
    <3> QED BY <3>1, <3>2
  <2> QED BY <2>6, <2>7, <2>8
<1> QED BY <1>1, <1>2

LEMMA SaveExpiresCalm ==
    ASSUME SessionInv, GoneInv, NEW r \in Requests, Touches(r), NEW q, Calm(r, q),
           NEW a, a = SaveExpires(r, q)
    PROVE  Calm(r, a) /\ Still(q, a)
<1>1. CASE q.expires = NoTime \/ LoadId(q).id = NoSid
  BY <1>1 DEF SaveExpires, Still
<1>2. CASE ~(q.expires = NoTime \/ LoadId(q).id = NoSid)
  <2> DEFINE e == Expires(r, q)
  <2>1. q.triedExpires /\ q.triedId
    BY <1>2 DEF Calm, Tidy
  <2>2. LoadId(q) = q /\ LoadData(r, q, q.id) = q
    BY <2>1, LoadIdCalm, NothingToLoad DEF Calm
  <2>3. a = StoreIfLater(r, e, q.data.expires)
    BY <1>2, <2>2 DEF SaveExpires, SaveIfLater
  <2>4. Calm(r, e) /\ Same(q, e, Cookies)
    BY <2>1, ExpiresCalm
  <2> HIDE DEF e
  <2>5. e.triedExpires /\ e.id # NoSid
    BY <1>2, <2>1, <2>2, <2>4 DEF Same, Fields, Cookies
  <2>6. LoadData(r, e, e.id) = e
    BY <2>4, <2>5, NothingToLoad DEF Calm
  <2>7. CASE a = e
    BY <2>4, <2>7 DEF Same, Still, Fields, Cookies
  <2>8. CASE a = StoreExpires(e, ReturnedExpires(e))
    <3>1. Good(r, a)
      BY SaveExpiresGood DEF Calm
    <3>2. e.loaded /\ ~e.deletedId
      BY <2>4, <2>5 DEF Calm, Tidy, Good, Live
    <3>3. Calm(r, a) /\ Same(e, a, {"loaded", "data", "save"})
      BY <2>4, <2>8, <3>1, <3>2, StoredCalm DEF StoreExpires
    <3> QED BY <2>4, <3>3 DEF Same, Still, Fields, Cookies
  <2> QED BY <2>3, <2>6, <2>7, <2>8 DEF StoreIfLater
<1> QED BY <1>1, <1>2

LEMMA SaveSessionCalm ==
    ASSUME SessionInv, GoneInv, NEW r \in Requests, Touches(r), NEW q, Calm(r, q), Looked(q),
           NEW a, a = SaveSession(r, q)
    PROVE  Calm(r, a) /\ Still(q, a)
<1> DEFINE s == SaveExpires(r, q)
           e == Expires(r, s)
           t == SaveExpires(r, e)
<1>1. a = StoreValues(r, t) /\ Good(r, a)
  BY SaveSessionGood DEF SaveSession, Calm
<1>2. Calm(r, s) /\ Still(q, s)
  BY SaveExpiresCalm
<1> HIDE DEF s
<1>3. Calm(r, e) /\ Still(s, e)
  <2>1. Looked(s)
    BY <1>2 DEF Still, Looked
  <2> QED BY <1>2, <2>1, ExpiresCalm
<1> HIDE DEF e
<1>4. Calm(r, t) /\ Still(e, t)
  BY <1>3, SaveExpiresCalm
<1> HIDE DEF t
<1>5. Still(q, t)
  BY <1>2, <1>3, <1>4 DEF Still
<1>6. CASE ~t.updated
  BY <1>1, <1>4, <1>5, <1>6 DEF StoreValues
<1>7. CASE t.updated
  <2>1. t.triedExpires /\ ~t.deletedId
    BY <1>4, <1>7 DEF Calm, Tidy
  <2>2. LoadData(r, t, t.id) = t
    BY <1>4, <2>1, NothingToLoad DEF Calm
  <2>3. t.loaded
    BY <1>4, <1>7, <2>1 DEF Calm, Tidy, Good, Live
  <2>4. PICK d : a = Stored(t, d)
    BY <1>1, <1>7, <2>2 DEF StoreValues, StoreSession
  <2>5. Calm(r, a) /\ Same(t, a, {"loaded", "data", "save"})
    BY <1>1, <1>4, <2>1, <2>3, <2>4, StoredCalm
  <2> QED BY <1>5, <2>5 DEF Same, Still, Fields
<1> QED BY <1>6, <1>7

\* A call leaves the clock, the client and the deleted sessions alone.
LEMMA BecomesGone ==
    ASSUME SessionInv, GoneInv, NEW r \in Requests, Touches(r), NEW q, Calm(r, q), Becomes(r, q),
           \A o \in Requests : page'[o].head # None => /\ page'[o].head.cookie \in AnySid
                                                       /\ Met(o, page'[o].head.cookie)
    PROVE  GoneInv'
<1>1. /\ req' = With(r, q) /\ dir' = OpenDir(r, q)
      /\ \A o \in Requests : o \in Range(conns) => o \in Range(conns')
      /\ q.file # req[r].file => r \in Range(conns')
      /\ UNCHANGED <<scenario, now, client, content, dead>>
  <2>1. dir \in [Sids -> {NoFile} \cup Requests] /\ conns \in Seq(Requests)
    BY DEF SessionInv, TypesInv
  <2>2. CASE q.file = req[r].file
    <3>1. dir = OpenDir(r, q)
      BY <2>1, <2>2 DEF OpenDir
    <3> QED BY <2>2, <3>1 DEF Becomes, With
  <2>3. CASE q.file # req[r].file
    <3>1. dir' = [dir EXCEPT ![q.file] = q.inode] /\ conns' = Append(conns, r)
      BY <2>3 DEF Becomes
    <3>2. [dir EXCEPT ![q.file] = q.inode] = OpenDir(r, q)
      BY <2>1, <2>3 DEF OpenDir
    <3>3. \A x : x \in Range(conns) \/ x = r => x \in Range(Append(conns, r))
      BY <2>1, AppendRange
    <3> QED BY <3>1, <3>2, <3>3 DEF Becomes, With
  <2> QED BY <2>2, <2>3
<1>2. \A o \in Requests : req'[o] = IF o = r THEN q ELSE req[o]
  BY <1>1 DEF With, SessionInv, TypesInv
<1>3. Stash(q) /\ q.pc = "active" /\ req[r].pc = "active" /\ q.client = req[r].client
  BY DEF Calm, Good, Touches
<1>4. \A o \in Requests : req'[o].pc = req[o].pc
  BY <1>2, <1>3
<1>5. \A s \in AnySid : s = NoSid \/ req'[s[1]].pc = req[s[1]].pc
  BY <1>4 DEF AnySid, Sids
<1>6. \A s \in Sids : dir'[s] = IF s = q.file /\ s # req[r].file THEN q.inode ELSE dir[s]
  BY <1>1 DEF OpenDir
<1>7. ASSUME NEW s \in Sids, s = q.file, s # req[r].file
      PROVE  \/ q.inode = dir[s] /\ dir[s] # NoFile
             \/ q.inode = r /\ Unused(r)
  <2>1. /\ ~req[r].loaded /\ q.inode = IF dir[s] = NoFile THEN r ELSE dir[s]
    BY <1>7 DEF Calm, Good
  <2>2. Unused(r)
    BY <1>3, <2>1 DEF SessionInv, UnusedInv, Fresh
  <2> QED BY <2>1, <2>2
<1>8. DeadInv'
  <2>1. ASSUME NEW s \in dead PROVE Out(s)' /\ (dir'[s] = NoFile \/ content[dir'[s]] = NoData)
    <3>1. s \in Sids /\ Out(s) /\ (dir[s] = NoFile \/ content[dir[s]] = NoData)
      BY DEF GoneInv, DeadInv
    <3>2. Out(s)'
      BY <1>5, <3>1 DEF AnySid, Out
    <3>3. dir'[s] = NoFile \/ content[dir'[s]] = NoData
      BY <1>6, <1>7, <3>1 DEF Unused
    <3> QED BY <3>2, <3>3
  <2> QED BY <1>1, <2>1 DEF GoneInv, DeadInv
<1>9. ClientInv'
  <2>1. client.sid \in AnySid /\ \A o \in Requests : req[o].client.sid \in AnySid
    BY DEF SessionInv, TypesInv, StashInv, Stash
  <2>2. Out(client.sid)'
    BY <1>1, <1>5, <2>1 DEF GoneInv, ClientInv, Out
  <2>3. ASSUME NEW o \in Requests
        PROVE  /\ Out(req[o].client.sid)' /\ Met(o, req[o].cookie)'
               /\ req'[o].client.sid \in req'[o].past => req'[o].read = NoValue
    <3>1. req'[o].client.sid = req[o].client.sid /\ req'[o].cookie \in AnySid
      BY <1>2, <1>3 DEF Stash, SessionInv, StashInv
    <3>2. Out(req[o].client.sid)'
      BY <1>5, <2>1, <3>1 DEF GoneInv, ClientInv, Out
    <3>3. Met(o, req[o].cookie)'
      <4>1. Met(o, req'[o].cookie)
        BY <1>2 DEF Calm, Tidy, GoneInv, ClientInv
      <4> QED BY <1>5, <3>1, <4>1 DEF Met, Out
    <3>4. req'[o].client.sid \in req'[o].past => req'[o].read = NoValue
      BY <1>2 DEF Calm, Tidy, GoneInv, ClientInv
    <3> QED BY <3>2, <3>3, <3>4
  <2>4. ASSUME NEW o \in Requests, page'[o].head # None PROVE Met(o, page[o].head.cookie)'
    <3>1. Met(o, page'[o].head.cookie) /\ page'[o].head.cookie \in AnySid
      BY <2>4
    <3> QED BY <1>5, <3>1 DEF Met, Out
  <2> QED BY <2>2, <2>3, <2>4 DEF ClientInv
<1>10. HiddenInv'
  <2> SUFFICES ASSUME NEW o \in Requests, req'[o].file \in dead, req'[o].inode = dir'[req'[o].file]
               PROVE  req'[o].data = NoData
    BY <1>1 DEF HiddenInv
  <2>1. req'[o].file \in Sids
    BY DEF GoneInv, DeadInv
  <2>2. CASE o = r
    <3>1. Shows(r, q)
      BY <1>2, <1>6, <2>1, <2>2 DEF Shows
    <3> QED BY <1>2, <2>2, <3>1 DEF Calm, Fenced, Tidy
  <2>3. CASE o # r
    <3>1. req'[o] = req[o]
      BY <1>2, <2>3
    <3>2. CASE dir'[req[o].file] = dir[req[o].file]
      BY <3>1, <3>2 DEF GoneInv, HiddenInv
    <3>3. CASE dir'[req[o].file] # dir[req[o].file]
      BY <1>6, <1>7, <2>1, <3>1, <3>3 DEF Unused
    <3> QED BY <3>2, <3>3
  <2> QED BY <2>2, <2>3
<1>11. SeatInv'
  <2> SUFFICES ASSUME NEW o \in Requests, req'[o].pc = "active"
               PROVE  /\ Tidy(o, req[o])' /\ Fenced(o, req[o])'
                      /\ req'[o].file # NoSid => o \in Range(conns')
    BY DEF SeatInv
  <2>1. req'[o] = IF o = r THEN q ELSE req[o]
    BY <1>2
  <2>2. Tidy(o, req'[o]) /\ Fenced(o, req'[o])
    BY <1>4, <2>1 DEF Calm, GoneInv, SeatInv
  <2>3. req'[o].id \in AnySid /\ req'[o].cookie \in AnySid
    BY <1>3, <2>1 DEF Stash, SessionInv, StashInv
  <2>4. Tidy(o, req[o])'
    BY <1>1, <1>5, <2>2, <2>3 DEF Tidy, Met, Out
  <2>5. ~req'[o].deletedId /\ req'[o].file \in dead => req'[o].inode # dir'[req'[o].file]
    <3> SUFFICES ASSUME ~req'[o].deletedId, req'[o].file \in dead, req'[o].inode = dir'[req'[o].file]
                 PROVE  FALSE
      OBVIOUS
    <3>1. req'[o].file \in Sids
      BY DEF GoneInv, DeadInv
    <3>2. CASE o = r
      BY <1>6, <2>1, <2>2, <3>1, <3>2 DEF Fenced, Shows
    <3>3. CASE o # r
      BY <1>6, <1>7, <2>1, <2>2, <3>1, <3>3 DEF Fenced, Shows, Unused
    <3> QED BY <3>2, <3>3
  <2>6. Fenced(o, req[o])'
    BY <1>1, <2>2, <2>5 DEF Fenced, Shows
  <2>7. req'[o].file # NoSid => o \in Range(conns')
    <3>1. CASE o = r
      BY <1>1, <1>3, <2>1, <3>1 DEF GoneInv, SeatInv
    <3>2. CASE o # r
      BY <1>1, <1>4, <2>1, <3>2 DEF GoneInv, SeatInv
    <3> QED BY <3>1, <3>2
  <2> QED BY <2>4, <2>6, <2>7
<1> QED BY <1>8, <1>9, <1>10, <1>11 DEF GoneInv

LEMMA CallGone ==
    ASSUME OwnInv, GoneInv, Careful, NEW r \in Requests, Call(r), page' = page
    PROVE  GoneInv'
<1> DEFINE loaded == LoadSession(r, req[r])
<1>1. Touches(r) /\ SessionInv /\ NeverLate
  BY DEF Call, Value, SetValue, CallExpires, ChangeExpires, DeleteSession, OwnInv, Careful, NeverLate
<1>2. Calm(r, req[r])
  BY <1>1, CalmAtFirst
<1>3. \A o \in Requests : page'[o].head # None => /\ page'[o].head.cookie \in AnySid
                                                 /\ Met(o, page'[o].head.cookie)
  BY DEF OwnInv, HeadInv, Page, GoneInv, ClientInv
<1>4. ASSUME NEW q, Calm(r, q), Becomes(r, q) PROVE GoneInv'
  BY <1>1, <1>3, <1>4, BecomesGone
<1>5. \A f : f \in {"storesLate", "deletesUnseen", "deletesUpdated", "idles"} => f \notin habits
  BY DEF Careful
<1>6. CASE Value(r)
  <2>1. Calm(r, loaded)
    BY <1>1, <1>2, LoadSessionCalm
  <2> QED BY <1>4, <1>6, <2>1 DEF Value
<1>7. ASSUME NEW v \in scenario.values, SetValue(r, v) PROVE GoneInv'
  <2>1. MayStore(loaded) /\ Becomes(r, StoreValue(r, loaded, v))
    BY <1>7 DEF SetValue
  <2>2. Calm(r, loaded) /\ loaded.triedExpires
    BY <1>1, <1>2, LoadSessionCalm
  <2> HIDE DEF loaded
  <2>3. Calm(r, StoreValue(r, loaded, v))
    BY <1>1, <2>1, <2>2, MayStoreGood, StoreValueCalm
  <2> QED BY <1>4, <2>1, <2>3
<1>8. CASE CallExpires(r)
  <2>1. Calm(r, Expires(r, req[r]))
    BY <1>1, <1>2, ExpiresCalm
  <2> QED BY <1>4, <1>8, <2>1 DEF CallExpires
<1>9. CASE ChangeExpires(r)
  <2> DEFINE a == StoreExpires(LoadData(r, req[r], req[r].id), now + 2 * Lifetime)
  <2>1. req[r].id # NoSid /\ req[r].readAt # 0 /\ Becomes(r, a)
    BY <1>9 DEF ChangeExpires
  <2>2. LoadData(r, req[r], req[r].id) = req[r]
    BY <1>2, <2>1, NothingToLoad DEF Calm, Tidy
  <2>3. Good(r, a)
    BY <1>1, <1>2, <2>1, StoreExpiresGood DEF Calm
  <2>4. PICK d : a = Stored(req[r], d)
    BY <2>2 DEF StoreExpires
  <2>5. req[r].loaded /\ ~req[r].deletedId
    BY <1>2, <2>1 DEF Calm, Tidy, Good, Live
  <2> HIDE DEF a
  <2>6. Calm(r, a)
    BY <1>2, <2>3, <2>4, <2>5, StoredCalm
  <2> QED BY <1>4, <2>1, <2>6
<1>10. CASE DeleteSession(r)
  <2>1. req[r].readAt # 0 /\ ~req[r].updated /\ Becomes(r, DoDelete(r, req[r]))
    BY <1>5, <1>10 DEF DeleteSession
  <2>2. req[r].triedId
    BY <1>2, <2>1 DEF Calm, Tidy
  <2>3. Calm(r, DoDelete(r, req[r]))
    BY <1>1, <1>2, <2>1, <2>2, DoDeleteCalm DEF Calm
  <2> QED BY <1>4, <2>1, <2>3
<1> QED BY <1>6, <1>7, <1>8, <1>9, <1>10 DEF Call

LEMMA PluginCallGone ==
    ASSUME OwnInv, GoneInv, NeverLate, NEW r \in Requests, PluginCall(r)
    PROVE  GoneInv'
<1>1. SessionInv /\ DOMAIN page = Requests /\ DOMAIN page[r] = DOMAIN NewPage
  BY DEF OwnInv, HeadInv, Page
<1>2. ASSUME NEW q, NEW p, Touches(r), Reached(r, q), Turned(r, q, p), Leaves(r, q, p) PROVE GoneInv'
  <2>1. Calm(r, q)
    BY <1>1, <1>2, ReachedCalm
  <2>2. Calm(r, req[r]) /\ Calm(r, LoadSession(r, req[r]))
    BY <1>1, <1>2, ReachedCalm DEF Reached, Drawn
  <2>3. p.head # None => p.head.cookie \in AnySid /\ Met(r, p.head.cookie)
    <3> DEFINE l == LoadSession(r, req[r])
    <3>1. page[r].head # None => page[r].head.cookie \in AnySid /\ Met(r, page[r].head.cookie)
      BY DEF OwnInv, HeadInv, Page, GoneInv, ClientInv
    <3>2. req[r].cookie \in AnySid /\ Met(r, req[r].cookie)
      BY <2>2 DEF Calm, Tidy, Good, Stash
    <3>3. l.cookie \in AnySid /\ Met(r, l.cookie)
      <4> HIDE DEF l
      <4>1. Calm(r, l)
        BY <2>2 DEF l
      <4> QED BY <4>1 DEF Calm, Tidy, Good, Stash
    <3>4. p.head \in {page[r].head, req[r], l}
      BY <1>2 DEF Turned
    <3> HIDE DEF l
    <3> QED BY <3>1, <3>2, <3>3, <3>4
  <2>4. \A o \in Requests : page'[o] = IF o = r THEN p ELSE page[o]
    BY <1>1, <1>2 DEF Leaves
  <2>5. \A o \in Requests : page'[o].head # None => /\ page'[o].head.cookie \in AnySid
                                                   /\ Met(o, page'[o].head.cookie)
    BY <2>3, <2>4 DEF OwnInv, HeadInv, Page, GoneInv, ClientInv
  <2> QED BY <1>1, <1>2, <2>1, <2>5, BecomesGone DEF Leaves
<1>3. CASE UNCHANGED <<vars, page>>
  BY <1>3, ZenonT(40) DEF vars, GoneInv, DeadInv, ClientInv, HiddenInv, SeatInv, Out, Met, Tidy, Fenced, Shows
<1> QED BY <1>1, <1>2, <1>3, PluginSteps

LEMMA ForgetCalm ==
    ASSUME NEW q, Stash(q), NEW a, a = Forget(q)
    PROVE  /\ a.client.sid = NoSid /\ a.past = {} /\ a.file = NoSid /\ a.cookie \in {NoSid, q.cookie}
           /\ a.pc = q.pc
<1>1. /\ DOMAIN NewRequest = Fields /\ NewRequest.past = {} /\ NewRequest.client.sid = NoSid
      /\ NewRequest.file = NoSid /\ NewRequest.cookie = NoSid
  BY DEF NewRequest, Fields
<1>2. CASE q.pc = "done"
  <2>1. a = [NewRequest EXCEPT !.pc = "done"]
    BY <1>2 DEF Forget
  <2> QED BY <1>1, <1>2, <2>1 DEF Fields
<1>3. CASE q.pc # "done"
  <2>1. a = [NewRequest EXCEPT !.pc = q.pc, !.setCookie = q.setCookie,
                 !.cookie = q.cookie, !.until = q.until, !.values = q.values,
                 !.deletedId = q.deletedId]
    BY <1>3 DEF Forget
  <2> QED BY <1>1, <2>1 DEF Fields
<1> QED BY <1>2, <1>3

\* A session that a request deleted has no file when the request was answered.
LEMMA EmptiesFile ==
    ASSUME SessionInv, GoneInv, NEW r \in Requests, Touches(r), NEW q0, Calm(r, q0), Still(req[r], q0),
           NEW q, q = [q0 EXCEPT !.pc = "answered"], Emit(r, q, With(r, q)),
           NEW s \in q0.gone
    PROVE  s \in Sids /\ dir'[s] = NoFile
<1> DEFINE by(i) == Handled(With(r, q), conns[i], r)
           saves == {i \in DOMAIN conns : req[conns[i]].thread = q.thread /\ by(i).save}
<1>1. dir' = [t \in Sids |->
                 IF \E i \in saves : by(i).data = NoData /\ by(i).file = t THEN NoFile
                 ELSE IF t = q.file /\ t # req[r].file THEN q.inode ELSE dir[t]]
  BY DEF Emit
<1>2. q0.client.sid \in AnySid /\ q0.gone \subseteq {q0.client.sid} \ {NoSid} /\ q0.deletedId
  BY DEF Calm, Tidy, Good, Stash
<1>3. s = q0.client.sid /\ s \in Sids
  BY <1>2 DEF AnySid
<1>4. q0.data = NoData /\ q0.file = s /\ q0.save
  BY <1>2, <1>3, NoSids DEF Calm, Tidy
<1>5. /\ DOMAIN q = Fields /\ \A f \in Fields \ {"pc"} : q[f] = q0[f]
  BY DEF Calm, Good, Stash, Fields
<1>6. q.data = NoData /\ q.file = s /\ q.save /\ q.thread = req[r].thread
  BY <1>4, <1>5 DEF Fields, Still
<1>7. r \in Range(conns)
  <2>1. req[r].file # NoSid
    BY <1>3, <1>4, NoSids DEF Still
  <2> QED BY <2>1 DEF GoneInv, SeatInv, Touches
<1>8. PICK i \in DOMAIN conns : conns[i] = r
  BY <1>7 DEF Range
<1>9. by(i) = q
  BY <1>8 DEF Handled, With, SessionInv, TypesInv
<1>10. i \in saves
  BY <1>6, <1>8, <1>9
<1> HIDE DEF by, saves
<1>11. \E j \in saves : by(j).data = NoData /\ by(j).file = s
  BY <1>6, <1>9, <1>10
<1> QED BY <1>1, <1>3, <1>11

LEMMA AfterDispatchGone ==
    ASSUME OwnInv, GoneInv, Careful, NEW r \in Requests, AfterDispatch(r), page' = page
    PROVE  GoneInv'
<1> DEFINE q0 == SaveSession(r, req[r])
           q == [q0 EXCEPT !.pc = "answered"]
<1>1. /\ SessionInv /\ Touches(r) /\ UNCHANGED <<scenario, client, now>> /\ dead' = dead \cup q.gone
      /\ Emit(r, q, With(r, q))
  BY DEF AfterDispatch, With, OwnInv
<1>2. PICK x : /\ req' = [req EXCEPT ![r] = x] /\ x \in {q, Forget(q)}
               /\ conns' \in {conns, RemoveFirst(conns, r)}
  BY DEF AfterDispatch
<1>3. Calm(r, q0) /\ Still(req[r], q0)
  <2>1. Calm(r, req[r])
    BY <1>1, CalmAtFirst
  <2>2. "idles" \notin habits
    BY DEF Careful
  <2>3. Looked(req[r])
    BY <2>2 DEF AfterDispatch, Looked
  <2> QED BY <1>1, <2>1, <2>3, SaveSessionCalm
<1> HIDE DEF q0
<1>4. /\ DOMAIN q = Fields /\ \A f \in Fields \ {"pc"} : q[f] = q0[f]
      /\ q.pc = "answered"
  BY <1>3 DEF Calm, Good, Stash, Fields
<1>5. /\ Stash(q) /\ q.inode = q0.inode /\ q.file = q0.file /\ q.data = q0.data /\ q.gone = q0.gone
      /\ q.cookie = q0.cookie /\ q.client = q0.client /\ q.past = q0.past /\ q.read = q0.read
  BY <1>3, <1>4 DEF Calm, Good, Stash, Fields
<1>6. /\ \A s \in Sids : dir'[s] \in {NoFile, OpenDir(r, q0)[s]}
      /\ \A n \in Requests : \/ content'[n] = content[n]
                             \/ \E o \in Requests : /\ With(r, q0)[o].inode = n
                                                    /\ With(r, q0)[o].data = content'[n]
  <2>1. q = [q0 EXCEPT !.pc = "answered"] /\ Good(r, q0)
    BY <1>3 DEF Calm
  <2> HIDE DEF q
  <2> QED BY <1>1, <2>1, Emitted
<1>7. \A s \in q0.gone : s \in Sids /\ dir'[s] = NoFile
  <2>1. q = [q0 EXCEPT !.pc = "answered"]
    OBVIOUS
  <2> HIDE DEF q
  <2> QED BY <1>1, <1>3, <2>1, EmptiesFile
<1> HIDE DEF q
<1>8. \/ x = q
      \/ /\ x.client.sid = NoSid /\ x.past = {} /\ x.file = NoSid /\ x.cookie \in {NoSid, q.cookie}
         /\ x.pc = "answered"
  BY <1>2, <1>4, <1>5, ForgetCalm
<1>9. \A o \in Requests : req'[o] = IF o = r THEN x ELSE req[o]
  BY <1>1, <1>2 DEF SessionInv, TypesInv
<1>10. \A s \in Sids : OpenDir(r, q0)[s] = dir[s]
  BY <1>3 DEF OpenDir, Still
<1>11. \A s \in Sids : dir'[s] = NoFile \/ (dir'[s] = dir[s] /\ s \notin q0.gone)
  BY <1>6, <1>7, <1>10
<1>12. \A o \in Requests : With(r, q0)[o] = IF o = r THEN q0 ELSE req[o]
  BY <1>1 DEF SessionInv, TypesInv, With
<1>13. /\ dead \subseteq Sids /\ dead' = dead \cup q0.gone
  BY <1>1, <1>5 DEF GoneInv, DeadInv
<1>14. \A s \in AnySid : s = NoSid \/ (req[s[1]].pc \in {"answered", "done"}
                                        => req'[s[1]].pc \in {"answered", "done"})
  BY <1>4, <1>8, <1>9 DEF AnySid, Sids
<1>15. ASSUME NEW o \in Requests, With(r, q0)[o].file \in dead, With(r, q0)[o].inode = dir[With(r, q0)[o].file]
       PROVE  With(r, q0)[o].data = NoData /\ (o = r => q0.deletedId)
  <2>1. CASE o = r
    <3>1. Shows(r, q0)
      BY <1>12, <1>15, <2>1 DEF Shows
    <3> QED BY <1>3, <1>12, <2>1, <3>1 DEF Calm, Fenced, Tidy
  <2>2. CASE o # r
    BY <1>12, <1>15, <2>2 DEF GoneInv, HiddenInv
  <2> QED BY <2>1, <2>2
<1>16. DeadInv'
  <2>1. ASSUME NEW s \in dead PROVE dir'[s] = NoFile \/ content'[dir'[s]] = NoData
    <3> SUFFICES ASSUME dir'[s] # NoFile PROVE content'[dir[s]] = NoData
      BY <1>11, <1>13
    <3>1. s \in Sids /\ dir[s] # NoFile /\ dir'[s] = dir[s]
      BY <1>11, <1>13
    <3>2. dir[s] \in Requests /\ content[dir[s]] = NoData
      BY <1>1, <3>1 DEF SessionInv, TypesInv, GoneInv, DeadInv
    <3>3. ASSUME NEW o \in Requests, With(r, q0)[o].inode = dir[s] PROVE With(r, q0)[o].data = NoData
      <4>1. With(r, q0)[o].file = s
        BY <1>1, <1>3, <1>10, <3>1, <3>3, Openings DEF Calm
      <4> QED BY <1>15, <3>3, <4>1
    <3> QED BY <1>6, <3>2, <3>3
  <2>2. ASSUME NEW s \in dead' PROVE Out(s)'
    <3>1. Out(s) /\ s \in AnySid
      <4>1. CASE s \in dead
        BY <4>1 DEF GoneInv, DeadInv, AnySid
      <4>2. CASE s \in q0.gone
        <5>1. s = q0.client.sid /\ s \in Sids
          BY <1>3, <1>7, <4>2 DEF Calm, Tidy
        <5>2. Out(q0.client.sid)
          BY <1>3 DEF Calm, Good, GoneInv, ClientInv
        <5> QED BY <5>1, <5>2 DEF AnySid
      <4> QED BY <1>13, <4>1, <4>2
    <3> QED BY <1>14, <3>1 DEF Out
  <2>3. \A s \in dead' : dir'[s] = NoFile \/ content'[dir'[s]] = NoData
    BY <1>7, <1>13, <2>1
  <2>4. dead' \subseteq Sids
    BY <1>7, <1>13
  <2>5. now' \in Nat /\ now' >= 1
    BY <1>1 DEF GoneInv, DeadInv
  <2> QED BY <2>2, <2>3, <2>4, <2>5 DEF DeadInv
<1>17. ClientInv'
  <2>1. client.sid \in AnySid /\ \A o \in Requests : req[o].client.sid \in AnySid /\ req[o].cookie \in AnySid
    BY <1>1 DEF SessionInv, TypesInv, StashInv, Stash
  <2>2. Out(client.sid)'
    BY <1>1, <1>14, <2>1 DEF GoneInv, ClientInv, Out
  <2>3. ASSUME NEW o \in Requests
        PROVE  /\ req'[o].client.sid \in AnySid /\ req'[o].cookie \in AnySid
               /\ Out(req'[o].client.sid) /\ Met(o, req'[o].cookie)
               /\ req'[o].client.sid \in req'[o].past => req'[o].read = NoValue
    <3>1. CASE o # r
      BY <1>9, <2>1, <3>1 DEF GoneInv, ClientInv
    <3>2. CASE o = r
      <4>1. /\ q.client.sid \in AnySid /\ q.cookie \in AnySid /\ Out(q.client.sid) /\ Met(r, q.cookie)
            /\ q.client.sid \in q.past => q.read = NoValue
        <5>1. q0.client = req[r].client
          BY <1>3 DEF Calm, Good
        <5> QED BY <1>3, <1>5, <2>1, <5>1 DEF Stash, Calm, Tidy, GoneInv, ClientInv
      <4>2. Out(NoSid) /\ Met(r, NoSid) /\ NoSid \in AnySid
        BY DEF Out, Met, AnySid
      <4> QED BY <1>8, <1>9, <3>2, <4>1, <4>2
    <3> QED BY <3>1, <3>2
  <2>4. ASSUME NEW o \in Requests PROVE Out(req[o].client.sid)' /\ Met(o, req[o].cookie)'
    BY <1>14, <2>3 DEF Out, Met
  <2>5. ASSUME NEW o \in Requests, page'[o].head # None PROVE Met(o, page[o].head.cookie)'
    <3>1. Met(o, page[o].head.cookie) /\ page[o].head.cookie \in AnySid
      BY <2>5 DEF GoneInv, ClientInv, OwnInv, HeadInv, Page
    <3> QED BY <1>14, <3>1 DEF Met, Out
  <2> QED BY <2>2, <2>3, <2>4, <2>5 DEF ClientInv
\* What a stash has open of a deleted session was there before.
<1>18. ASSUME NEW o \in Requests, req'[o].file \in dead', req'[o].inode = dir'[req'[o].file]
       PROVE  /\ req'[o].data = NoData
              /\ o # r => /\ req[o].file \in dead /\ req[o].inode = dir[req[o].file]
  <2>1. req'[o].file \in Sids /\ req'[o].file # NoSid
    BY <1>7, <1>13, <1>18, NoSids
  <2>2. /\ req'[o].inode \in Requests
        /\ req'[o].inode = With(r, q0)[o].inode /\ req'[o].file = With(r, q0)[o].file
        /\ req'[o].data = With(r, q0)[o].data
    BY <1>1, <1>5, <1>8, <1>9, <1>12, <2>1 DEF SessionInv, StashInv, Stash
  <2>3. dir'[req'[o].file] # NoFile
    BY <1>18, <2>2, NoSids
  <2>4. req'[o].file \in dead /\ req'[o].inode = dir[req'[o].file]
    BY <1>11, <1>13, <1>18, <2>1, <2>3
  <2> QED BY <1>9, <1>15, <2>2, <2>4
<1>19. HiddenInv'
  BY <1>18 DEF HiddenInv
<1>20. SeatInv'
  <2> SUFFICES ASSUME NEW o \in Requests, req'[o].pc = "active"
               PROVE  /\ Tidy(o, req[o])' /\ Fenced(o, req[o])'
                      /\ req'[o].file # NoSid => o \in Range(conns')
    BY DEF SeatInv
  <2>1. o # r /\ req'[o] = req[o]
    BY <1>4, <1>8, <1>9
  <2>2. Tidy(o, req[o]) /\ Fenced(o, req[o]) /\ (req[o].file # NoSid => o \in Range(conns))
    BY <2>1 DEF GoneInv, SeatInv
  <2>3. req[o].id \in AnySid /\ req[o].cookie \in AnySid
    BY <1>1 DEF SessionInv, StashInv, Stash
  <2>4. Tidy(o, req[o])'
    <3>1. req'[o] = req[o] /\ dead \subseteq dead'
      BY <1>13, <2>1
    <3> QED BY <1>14, <2>2, <2>3, <3>1 DEF Tidy, Met, Out
  <2>5. Fenced(o, req[o])'
    BY <1>18, <2>1, <2>2 DEF Fenced, Shows
  <2>6. \A p : p \in Range(conns) /\ p # r => p \in Range(conns')
    BY <1>1, <1>2, RemoveFirstProperties DEF SessionInv, TypesInv
  <2> QED BY <2>1, <2>2, <2>4, <2>5, <2>6
<1> QED BY <1>16, <1>17, <1>19, <1>20 DEF GoneInv

LEMMA StartGone ==
    ASSUME OwnInv, GoneInv, NEW r \in Requests, NEW t \in Threads, NEW p \in Peers, Start(r, t, p),
           Arrives(r)
    PROVE  GoneInv'
<1> DEFINE x == [NewRequest EXCEPT !.pc = "active", !.thread = t, !.peer = p, !.client = client,
                                   !.past = dead]
<1>1. /\ req[r].pc = "new" /\ req' = [req EXCEPT ![r] = x]
      /\ UNCHANGED <<scenario, now, client, dir, content, conns, dead>>
  BY DEF Start
<1>2. /\ DOMAIN x = Fields /\ x.pc = "active" /\ x.client = client /\ x.past = dead
      /\ x.values = Null /\ x.data = NoData /\ x.expires = NoTime /\ x.readAt = 0 /\ x.read = NoValue
      /\ x.file = NoSid /\ x.cookie = NoSid /\ x.id = NoSid /\ x.inode = NoFile /\ x.gone = {}
      /\ ~x.loaded /\ ~x.deletedId /\ ~x.updated /\ ~x.triedId /\ ~x.triedExpires
  BY DEF NewRequest, Fields
<1> HIDE DEF x
<1>3. \A o \in Requests : req'[o] = IF o = r THEN x ELSE req[o]
  BY <1>1 DEF OwnInv, SessionInv, TypesInv
<1>4. \A o \in Requests : page'[o].head # None => o # r /\ page'[o] = page[o]
  <2>1. PICK c : page' = [page EXCEPT ![r] = [NewPage EXCEPT !.cookie = c]]
    BY DEF Arrives
  <2>2. [NewPage EXCEPT !.cookie = c].head = None
    BY DEF NewPage
  <2> QED BY <2>1, <2>2 DEF OwnInv, HeadInv
<1>5. \A s \in AnySid : s = NoSid \/ (req[s[1]].pc \in {"answered", "done"}
                                       => req'[s[1]].pc \in {"answered", "done"})
  BY <1>1, <1>3 DEF AnySid, Sids
<1>6. dead \subseteq Sids /\ NoSid \notin dead
  BY NoSids DEF GoneInv, DeadInv
<1>7. DeadInv'
  <2>1. ASSUME NEW s \in dead PROVE Out(s)'
    BY <1>5, <1>6 DEF GoneInv, DeadInv, Out, AnySid
  <2> QED BY <1>1, <2>1 DEF GoneInv, DeadInv
<1>8. ClientInv'
  <2>1. client.sid \in AnySid /\ \A o \in Requests : req[o].client.sid \in AnySid /\ req[o].cookie \in AnySid
    BY DEF OwnInv, SessionInv, TypesInv, StashInv, Stash
  <2>2. Out(client.sid)'
    BY <1>1, <1>5, <2>1 DEF GoneInv, ClientInv, Out
  <2>3. ASSUME NEW o \in Requests
        PROVE  /\ req'[o].client.sid \in AnySid /\ req'[o].cookie \in AnySid
               /\ Out(req'[o].client.sid) /\ Met(o, req'[o].cookie)
               /\ req'[o].client.sid \in req'[o].past => req'[o].read = NoValue
    <3>1. CASE o # r
      BY <1>3, <2>1, <3>1 DEF GoneInv, ClientInv
    <3>2. CASE o = r
      BY <1>2, <1>3, <2>1, <3>2 DEF GoneInv, ClientInv, Met, Out, AnySid
    <3> QED BY <3>1, <3>2
  <2>4. ASSUME NEW o \in Requests PROVE Out(req[o].client.sid)' /\ Met(o, req[o].cookie)'
    BY <1>5, <2>3 DEF Out, Met
  <2>5. ASSUME NEW o \in Requests, page'[o].head # None PROVE Met(o, page[o].head.cookie)'
    <3>1. page'[o] = page[o] /\ Met(o, page[o].head.cookie) /\ page[o].head.cookie \in AnySid
      BY <1>4, <2>5 DEF GoneInv, ClientInv, OwnInv, HeadInv, Page
    <3> QED BY <1>5, <3>1 DEF Met, Out
  <2> QED BY <2>2, <2>3, <2>4, <2>5 DEF ClientInv
<1>9. HiddenInv'
  BY <1>1, <1>2, <1>3, <1>6 DEF GoneInv, HiddenInv
<1>10. SeatInv'
  <2> SUFFICES ASSUME NEW o \in Requests, req'[o].pc = "active"
               PROVE  /\ Tidy(o, req[o])' /\ Fenced(o, req[o])'
                      /\ req'[o].file # NoSid => o \in Range(conns')
    BY DEF SeatInv
  <2>1. CASE o = r
    <3>1. req'[o] = x
      BY <1>3, <2>1
    <3>2. Tidy(o, req[o])'
      BY <1>1, <1>2, <3>1 DEF Tidy, Met, Out
    <3>3. Fenced(o, req[o])'
      BY <1>1, <1>2, <1>6, <3>1 DEF Fenced, Shows
    <3> QED BY <1>2, <3>1, <3>2, <3>3
  <2>2. CASE o # r
    <3>1. req'[o] = req[o]
      BY <1>3, <2>2
    <3>2. Tidy(o, req[o]) /\ Fenced(o, req[o]) /\ (req[o].file # NoSid => o \in Range(conns))
      BY <3>1 DEF GoneInv, SeatInv
    <3>3. req[o].id \in AnySid /\ req[o].cookie \in AnySid
      BY DEF OwnInv, SessionInv, StashInv, Stash
    <3>4. Tidy(o, req[o])'
      BY <1>1, <1>5, <3>1, <3>2, <3>3 DEF Tidy, Met, Out
    <3>5. Fenced(o, req[o])'
      BY <1>1, <3>1, <3>2 DEF Fenced, Shows
    <3> QED BY <1>1, <3>1, <3>2, <3>4, <3>5
  <2> QED BY <2>1, <2>2
<1> QED BY <1>7, <1>8, <1>9, <1>10 DEF GoneInv

\* A step of a request that was answered, which leaves x of its stash.
Rests(r, x) ==
    /\ req[r].pc \in {"answered", "done"} /\ x.pc \in {"answered", "done"}
    /\ \/ x.file = NoSid
       \/ x.file = req[r].file /\ x.inode = req[r].inode /\ x.data = req[r].data
    /\ x.client.sid \in AnySid /\ Out(x.client.sid) /\ x.cookie \in AnySid /\ Met(r, x.cookie)
    /\ x.client.sid \in x.past => x.read = NoValue

LEMMA PassiveGone ==
    ASSUME OwnInv, GoneInv, NEW r \in Requests, NEW x, Rests(r, x), req' = [req EXCEPT ![r] = x],
           client'.sid \in AnySid, Met(r, client'.sid),
           UNCHANGED <<now, dir, content, dead>>,
           \A o \in Requests : o \in Range(conns) /\ o # r => o \in Range(conns'),
           \A o \in Requests : page'[o].head # None => page'[o].head = page[o].head
    PROVE  GoneInv'
<1>1. \A o \in Requests : req'[o] = IF o = r THEN x ELSE req[o]
  BY DEF OwnInv, SessionInv, TypesInv
<1>2. \A s \in AnySid : s = NoSid \/ (req'[s[1]].pc \in {"answered", "done"}
                                       <=> req[s[1]].pc \in {"answered", "done"})
  BY <1>1 DEF AnySid, Sids, Rests
<1>3. dead \subseteq Sids /\ NoSid \notin dead
  BY NoSids DEF GoneInv, DeadInv
<1>4. DeadInv'
  <2>1. ASSUME NEW s \in dead PROVE Out(s)'
    BY <1>2, <1>3 DEF GoneInv, DeadInv, Out, AnySid
  <2> QED BY <2>1 DEF GoneInv, DeadInv
<1>5. ClientInv'
  <2>1. Out(client.sid)'
    BY <1>1, <1>2 DEF Out, Met, Rests
  <2>2. ASSUME NEW o \in Requests
        PROVE  /\ req'[o].client.sid \in AnySid /\ req'[o].cookie \in AnySid
               /\ Out(req'[o].client.sid) /\ Met(o, req'[o].cookie)
               /\ req'[o].client.sid \in req'[o].past => req'[o].read = NoValue
    BY <1>1 DEF Rests, GoneInv, ClientInv, OwnInv, SessionInv, StashInv, Stash
  <2>3. ASSUME NEW o \in Requests PROVE Out(req[o].client.sid)' /\ Met(o, req[o].cookie)'
    BY <1>2, <2>2 DEF Out, Met
  <2>4. ASSUME NEW o \in Requests, page'[o].head # None PROVE Met(o, page[o].head.cookie)'
    <3>1. /\ page'[o].head.cookie = page[o].head.cookie
          /\ Met(o, page[o].head.cookie) /\ page[o].head.cookie \in AnySid
      BY <2>4 DEF GoneInv, ClientInv, OwnInv, HeadInv, Page
    <3> QED BY <1>2, <3>1 DEF Met, Out
  <2> QED BY <2>1, <2>2, <2>3, <2>4 DEF ClientInv
<1>6. HiddenInv'
  BY <1>1, <1>3 DEF Rests, GoneInv, HiddenInv
<1>7. SeatInv'
  <2> SUFFICES ASSUME NEW o \in Requests, req'[o].pc = "active"
               PROVE  /\ Tidy(o, req[o])' /\ Fenced(o, req[o])'
                      /\ req'[o].file # NoSid => o \in Range(conns')
    BY DEF SeatInv
  <2>1. o # r /\ req'[o] = req[o]
    BY <1>1 DEF Rests
  <2>2. Tidy(o, req[o]) /\ Fenced(o, req[o]) /\ (req[o].file # NoSid => o \in Range(conns))
    BY <2>1 DEF GoneInv, SeatInv
  <2>3. req[o].id \in AnySid /\ req[o].cookie \in AnySid
    BY DEF OwnInv, SessionInv, StashInv, Stash
  <2>4. Tidy(o, req[o])'
    BY <1>2, <2>1, <2>2, <2>3 DEF Tidy, Met, Out
  <2>5. Fenced(o, req[o])'
    BY <2>1, <2>2 DEF Fenced, Shows
  <2> QED BY <2>1, <2>2, <2>4, <2>5
<1> QED BY <1>4, <1>5, <1>6, <1>7 DEF GoneInv

LEMMA ContextDeletedGone ==
    ASSUME OwnInv, GoneInv, NEW r \in Requests, ContextDeleted(r), page' = page
    PROVE  GoneInv'
<1> DEFINE x == Forget(req[r])
<1>1. /\ req[r].pc \in {"answered", "done"} /\ req' = [req EXCEPT ![r] = x]
      /\ conns' = RemoveFirst(conns, r) /\ UNCHANGED <<now, client, dir, content, dead>>
  BY DEF ContextDeleted
<1>2. /\ x.client.sid = NoSid /\ x.past = {} /\ x.file = NoSid /\ x.cookie \in {NoSid, req[r].cookie}
      /\ x.pc = req[r].pc
  BY ForgetCalm DEF OwnInv, SessionInv, StashInv
<1> HIDE DEF x
<1>3. /\ NoSid \in AnySid /\ req[r].cookie \in AnySid /\ client.sid \in AnySid
      /\ Out(NoSid) /\ Met(r, NoSid) /\ Met(r, req[r].cookie) /\ Met(r, client.sid)
  BY DEF AnySid, Out, Met, OwnInv, SessionInv, TypesInv, StashInv, Stash, GoneInv, ClientInv
<1>4. \A o \in Requests : o \in Range(conns) /\ o # r => o \in Range(conns')
  BY <1>1, RemoveFirstProperties DEF OwnInv, SessionInv, TypesInv
<1>5. Rests(r, x)
  BY <1>1, <1>2, <1>3 DEF Rests
<1> QED BY <1>1, <1>3, <1>4, <1>5, PassiveGone

LEMMA ClientAnsweredGone ==
    ASSUME OwnInv, GoneInv, NEW r \in Requests, ClientAnswered(r)
    PROVE  GoneInv'
<1> DEFINE d == [req[r] EXCEPT !.pc = "done"]
           x == IF r \in Range(conns) THEN d ELSE Forget(d)
<1>1. PICK head \in {req[r], page[r].head} :
          AnsweredWith(r, head) /\ (head = req[r] \/ (head = page[r].head /\ head # None))
  BY DEF ClientAnswered
<1>2. /\ req[r].pc = "answered" /\ req' = [req EXCEPT ![r] = x]
      /\ UNCHANGED <<now, dir, content, dead, conns>> /\ client'.sid \in {head.cookie, client.sid}
  BY <1>1 DEF AnsweredWith
<1>3. Stash(req[r])
  BY DEF OwnInv, SessionInv, StashInv
<1>4. DOMAIN d = Fields /\ d.pc = "done" /\ \A f \in Fields \ {"pc"} : d[f] = req[r][f]
  BY <1>3 DEF Stash, Fields
<1> HIDE DEF d
<1>5. /\ Stash(d) /\ d.inode = req[r].inode /\ d.file = req[r].file /\ d.data = req[r].data
      /\ d.client = req[r].client /\ d.past = req[r].past /\ d.read = req[r].read /\ d.cookie = req[r].cookie
  BY <1>3, <1>4 DEF Stash, Fields
<1>6. \/ x = d
      \/ /\ x.client.sid = NoSid /\ x.past = {} /\ x.file = NoSid /\ x.cookie \in {NoSid, d.cookie}
         /\ x.pc = d.pc
  BY <1>5, ForgetCalm
<1> HIDE DEF x
<1>7. /\ NoSid \in AnySid /\ req[r].cookie \in AnySid /\ req[r].client.sid \in AnySid
      /\ Out(NoSid) /\ Met(r, NoSid) /\ Met(r, req[r].cookie) /\ Out(req[r].client.sid)
      /\ req[r].client.sid \in req[r].past => req[r].read = NoValue
  BY <1>3 DEF AnySid, Out, Met, Stash, GoneInv, ClientInv
<1>8. client'.sid \in AnySid /\ Met(r, client'.sid)
  <2>1. client.sid \in AnySid /\ Met(r, client.sid)
    BY DEF OwnInv, SessionInv, TypesInv, GoneInv, ClientInv, Met
  <2>2. head.cookie \in AnySid /\ Met(r, head.cookie)
    BY <1>1, <1>7 DEF OwnInv, HeadInv, Page, GoneInv, ClientInv
  <2> QED BY <1>2, <2>1, <2>2
<1>9. \A o \in Requests : page'[o].head # None => page'[o].head = page[o].head
  <2>1. page' = [page EXCEPT ![r] = NewPage] /\ NewPage.head = None
    BY DEF ClientAnswered, NewPage
  <2> QED BY <2>1 DEF OwnInv, HeadInv
<1>10. Rests(r, x)
  BY <1>2, <1>4, <1>5, <1>6, <1>7 DEF Rests
<1>11. \A o \in Requests : o \in Range(conns) /\ o # r => o \in Range(conns')
  BY <1>2
<1> QED BY <1>2, <1>8, <1>9, <1>10, <1>11, PassiveGone

LEMMA GoneStep ==
    ASSUME OwnInv, GoneInv, Careful, [ClientsNext]_<<vars, plugins>>
    PROVE  GoneInv'
<1>1. ASSUME UNCHANGED <<req, dir, content, conns, dead, page>>, now' \in {now, now + 1},
             client'.sid \in {client.sid, NoSid}
      PROVE  GoneInv'
  <2>1. Out(client.sid)'
    BY <1>1 DEF GoneInv, ClientInv, Out
  <2>2. DeadInv'
    BY <1>1 DEF GoneInv, DeadInv, Out
  <2>3. ClientInv'
    BY <1>1, <2>1 DEF GoneInv, ClientInv, Out, Met
  <2>4. HiddenInv' /\ SeatInv'
    BY <1>1 DEF GoneInv, HiddenInv, SeatInv, Out, Met, Tidy, Fenced, Shows
  <2> QED BY <2>2, <2>3, <2>4 DEF GoneInv
<1>2. CASE UNCHANGED <<vars, plugins>>
  BY <1>1, <1>2 DEF vars, plugins
<1>3. ASSUME NEW r \in Requests, (\E t \in Threads, p \in Peers : Start(r, t, p)) /\ Arrives(r)
      PROVE  GoneInv'
  BY <1>3, StartGone
<1>4. ASSUME NEW r \in Requests, PluginCall(r) PROVE GoneInv'
  BY <1>4, PluginCallGone DEF Careful, NeverLate
<1>5. ASSUME NEW r \in Requests, ClientAnswered(r) PROVE GoneInv'
  BY <1>5, ClientAnsweredGone
<1>6. ASSUME NEW r \in Requests, (Call(r) \/ AfterDispatch(r) \/ ContextDeleted(r)) /\ UNCHANGED plugins
      PROVE  GoneInv'
  <2>1. page' = page
    BY <1>6 DEF plugins
  <2> QED BY <1>6, <2>1, CallGone, AfterDispatchGone, ContextDeletedGone
<1>7. CASE FormCookieExpires
  BY <1>1, <1>7 DEF FormCookieExpires, vars
<1>8. CASE CookieExpires /\ UNCHANGED plugins
  <2>1. client'.sid = NoSid
    BY <1>8 DEF CookieExpires, OwnInv, SessionInv, TypesInv
  <2> QED BY <1>1, <1>8, <2>1 DEF CookieExpires, plugins
<1>9. CASE (Tick \/ Over) /\ UNCHANGED plugins
  BY <1>1, <1>9 DEF Tick, Over, vars, plugins
<1> QED BY <1>2, <1>3, <1>4, <1>5, <1>6, <1>7, <1>8, <1>9 DEF ClientsNext

LEMMA GoneFirst ==
    ASSUME ClientsInit
    PROVE  GoneInv
<1> DEFINE old == "returns" \in habits
           sid == <<1, 1>>
           first == NewRequest.client
<1>1. PICK v \in IF old THEN scenario.values \ {NoValue} ELSE {NoValue} :
          /\ client = IF old THEN [sid |-> sid, until |-> 1 + Lifetime, value |-> v, peer |-> Home]
                             ELSE first
          /\ req = [r \in Requests |-> [NewRequest EXCEPT !.pc = IF old /\ r = 1 THEN "done" ELSE "new"]]
  BY DEF ClientsInit, Init
<1>2. now = 1 /\ dead = {} /\ page = [r \in Requests |-> NewPage] /\ NewPage.head = None
  BY DEF ClientsInit, Init, NewPage
<1>3. /\ NewRequest.client.sid = NoSid /\ NewRequest.cookie = NoSid /\ NewRequest.past = {}
      /\ DOMAIN NewRequest = Fields
  BY DEF NewRequest, Fields
<1>4. 1 \in Requests
  BY SessionConstants DEF Requests
<1> HIDE DEF old, first
<1>5. ASSUME NEW r \in Requests
      PROVE  /\ req[r].client.sid = NoSid /\ req[r].cookie = NoSid /\ req[r].past = {}
             /\ req[r].pc = IF old /\ r = 1 THEN "done" ELSE "new"
  <2>1. req[r] = [NewRequest EXCEPT !.pc = IF old /\ r = 1 THEN "done" ELSE "new"]
    BY <1>1
  <2> QED BY <1>3, <2>1 DEF Fields
<1>6. Out(client.sid)
  <2>1. CASE old
    <3>1. client.sid = sid /\ sid[1] = 1
      BY <1>1, <2>1
    <3> QED BY <1>4, <1>5, <2>1, <3>1 DEF Out
  <2>2. CASE ~old
    BY <1>1, <1>3, <2>2 DEF first, Out
  <2> QED BY <2>1, <2>2
<1>7. ClientInv
  BY <1>2, <1>5, <1>6 DEF ClientInv, Out, Met
<1>8. DeadInv /\ HiddenInv /\ SeatInv
  BY <1>2, <1>5 DEF DeadInv, HiddenInv, SeatInv
<1> QED BY <1>7, <1>8 DEF GoneInv

\* A session that was deleted gives nothing back to a later request, whatever requests
\* that overlap, on all threads, have open, extend or store, and whichever contexts
\* outlive their requests.
THEOREM NothingComesBack == ClientsSpec => [](Careful => DeletedIsGone)
<1> DEFINE Inv == Careful => OwnInv /\ GoneInv
<1>1. ClientsInit => Inv
  BY FirstInv, GoneFirst
<1>2. Inv /\ [ClientsNext]_<<vars, plugins>> => Inv'
  <2> SUFFICES ASSUME Inv, [ClientsNext]_<<vars, plugins>>, Careful'
               PROVE  OwnInv' /\ GoneInv'
    OBVIOUS
  <2>1. Careful
    BY ScenarioKept DEF Careful, habits
  <2>2. NeverLate
    BY <2>1 DEF Careful, NeverLate
  <2> QED BY <2>1, <2>2, StepInv, GoneStep
<1>3. Inv => (Careful => DeletedIsGone)
  BY DEF GoneInv, ClientInv, DeletedIsGone
<1> QED BY <1>1, <1>2, <1>3, PTL DEF ClientsSpec

----------------------------------------------------------------------------
(* The invariant behind StoredIsKept.                                      *)

\* What the file of a session holds.
FileOf(s) == IF dir[s] = NoFile THEN NoData ELSE content[dir[s]]

\* A client and what is on file for it: nothing stored and nothing on file, or the value, the
\* address and a date that is not before the end of its cookie.
Agrees(c, f) ==
    \/ c.value = NoValue /\ f.session.value \in {NoValue, None} /\ f.expires = 0
    \/ /\ f.session # Null /\ f.session.value = c.value /\ f.session.peer = c.peer
       /\ c.until <= f.expires
KeptFor(c) == c.sid # NoSid => Agrees(c, FileOf(c.sid))

\* The greatest date there can be, and the dates a request holds.
Latest == now + 2 * Lifetime
Dates(q) ==
    /\ q.data.expires \in Nat /\ q.data.expires <= Latest
    /\ q.extended \in Nat \cup {NoTime} /\ q.extended <= Latest
    /\ q.expires \in Nat \cup {NoTime} /\ q.until \in Nat /\ q.client.until \in Nat
    /\ q.readAt \in Nat /\ q.readAt <= now

\* What a request remembers of the steps it took, and in which order it took them.
Flags(q) ==
    /\ q.id # NoSid \/ q.triedExpires => q.triedId
    /\ q.triedId => q.id # NoSid \/ q.client.sid = NoSid \/ q.deletedId
    /\ q.readAt # 0 \/ q.expires # NoTime \/ q.values # Null \/ q.save => q.triedExpires
    /\ q.id # NoSid /\ q.readAt # 0 => q.values # Null
    /\ q.updated => q.readAt # 0
    /\ q.client.sid # NoSid => {q.id, q.file} \subseteq {NoSid, q.client.sid}
    /\ q.client.sid = NoSid /\ q.id # NoSid => q.updated

\* A request that deleted its session: only a value that is out of reach may go without being read.
Emptied(q) ==
    q.deletedId =>
        /\ q.loaded /\ q.save /\ q.data = NoData /\ q.expires = NoTime
        /\ q.setCookie /\ q.cookie = NoSid
        /\ q.client.sid # NoSid => q.file = q.client.sid
        /\ q.readAt = 0 => \/ q.client.value = NoValue \/ q.client.until < now
                           \/ q.peer # q.client.peer

\* The copy of the file, and the values read from it.
Copied(r, q) ==
    /\ q.file # NoSid => q.inode = IF dir[q.file] = NoFile THEN r ELSE dir[q.file]
    /\ q.loaded /\ ~q.deletedId =>
           /\ q.data.session = FileOf(q.file).session /\ q.data.expires >= FileOf(q.file).expires
           /\ q.save \/ q.data = FileOf(q.file)
    /\ ~q.updated /\ ~q.deletedId /\ q.values # Null =>
           q.id # NoSid /\ q.values = ToHash(q.data.session, q.id)

\* The cookie an answer sends, and the value a request read.
Sends(q, h) == h.setCookie /\ h.cookie # NoSid => h.cookie = q.file /\ h.until <= q.extended
Reads(q) ==
    q.readAt # 0 /\ q.client.sid # NoSid /\ q.readAt <= q.client.until /\ q.peer = q.client.peer
        => q.read = q.client.value

\* A request that looked at the expiry of its session has it, and the file still has one.
Current(q) ==
    q.triedExpires /\ q.id # NoSid =>
        /\ q.loaded /\ q.expires # NoTime
        /\ q.client.sid # NoSid => FileOf(q.file).expires # 0

\* A request inside an operation, between two of them, and between two of its plugins.
Basic(r, q)   == Dates(q) /\ Flags(q) /\ Emptied(q) /\ Copied(r, q) /\ Sends(q, q) /\ Reads(q)
Settled(r, q) == Basic(r, q) /\ Current(q)
Ready(r, q)   == Settled(r, q) /\ (q.values # Null => q.readAt # 0)

\* A request that has not come, or is over; the headers an answer goes out with.
Resting(r) == req[r].pc \in {"new", "done"}
Answer(r) == IF page[r].head = None THEN req[r] ELSE page[r].head
\* The client after an answer with what is in q, and with the cookie of h.
Given(c, q, h) ==
    [sid   |-> IF h.setCookie THEN h.cookie ELSE c.sid,
     until |-> IF h.setCookie THEN h.until ELSE c.until,
     value |-> IF q.values # Null THEN q.values.value
               ELSE IF q.deletedId THEN NoValue ELSE c.value,
     peer  |-> IF q.values # Null THEN q.values.peer ELSE c.peer]
After(r) == Given(client, req[r], Answer(r))

\* The client of a request that is served, whose cookie may have expired.
Carried(c, was) ==
    /\ c.sid \in {was.sid, NoSid} /\ c.until = was.until
    /\ c.value = was.value /\ c.peer = was.peer
Served(r) ==
    LET q == req[r] IN
    /\ Carried(client, q.client) /\ KeptFor(q.client)
    /\ Ready(r, q)
    /\ conns = IF q.file = NoSid THEN <<>> ELSE <<r>>
    /\ q.file # NoSid => dir[q.file] = q.inode
    /\ page[r].head # None => Sends(q, page[r].head) /\ page[r].head.until \in Nat

\* The client agrees with its file between two requests, and it will after the answer on its way;
\* between, the request that is served carries what its client and the file had in common.
KeptInv ==
    alone =>
        /\ now \in Nat \ {0} /\ client.until \in Nat
        /\ \A n \in Requests : content[n].expires \in Nat /\ content[n].expires <= Latest
        /\ \A r, s \in Requests : /\ r = s \/ Resting(r) \/ Resting(s)
                                  /\ r < s /\ req[r].pc = "new" => req[s].pc = "new"
        /\ (\A r \in Requests : Resting(r)) => KeptFor(client)
        /\ \A r \in Requests :
              /\ Reads(req[r])
              /\ req[r].pc = "active" => Served(r)
              /\ req[r].pc = "answered" => KeptFor(After(r)) /\ After(r).until \in Nat


\* What a call of the request may not change.
Keeps(q, a) ==
    /\ a.client = q.client /\ a.peer = q.peer /\ a.thread = q.thread
    /\ q.file # NoSid => a.file = q.file /\ (q.extended # NoTime => a.extended = q.extended)

\* What a call of a request relies on.
Grounds(c) ==
    /\ now \in Nat \ {0}
    /\ \A n \in Requests : content[n].expires \in Nat /\ content[n].expires <= Latest
    /\ KeptFor(c)

LEMMA Numbers ==
    ASSUME SessionInv
    PROVE  Lifetime \in Nat /\ threshold \in Nat /\ NoTime \notin Nat /\ NoTime \in Int
BY SessionConstants DEF SessionInv, TypesInv, threshold, NoTime

LEMMA FileDates ==
    ASSUME SessionInv, NEW c, Grounds(c), NEW s \in Sids
    PROVE  /\ IsData(FileOf(s)) /\ FileOf(s).expires \in Nat /\ FileOf(s).expires <= Latest
           /\ Latest \in Nat
<1>1. dir[s] # NoFile => dir[s] \in Requests
  BY DEF SessionInv, TypesInv
<1>2. IsData(NoData) /\ NoData.expires = 0
  BY DEF NoData, IsData, IsHash, Null, Hash
<1>3. Latest \in Nat
  BY Numbers DEF Latest, Grounds
<1> QED BY <1>1, <1>2, <1>3 DEF FileOf, Grounds, SessionInv, TypesInv

LEMMA LoadDataReads ==
    ASSUME SessionInv, NEW r \in Requests, NEW q, Good(r, q), Touches(r), ~q.loaded,
           NEW sid \in Sids, NEW a, a = LoadData(r, q, sid)
    PROVE  Opened(r, q, a, sid) /\ a.data = FileOf(sid)
<1>1. Opened(r, q, a, sid)
  BY LoadDataNew
<1> DEFINE i == IF dir[sid] = NoFile THEN r ELSE dir[sid]
<1>2. a = [q EXCEPT !.loaded = TRUE, !.data = content[i], !.file = sid, !.inode = i]
  BY NoSids DEF LoadData
<1> HIDE DEF i
<1>3. a.data = content[i]
  BY <1>2 DEF Good, Stash, Fields
<1>4. dir[sid] = NoFile => content[r] = NoData
  BY DEF Good, SessionInv, UnusedInv, Unused, Touches, Fresh
<1> QED BY <1>1, <1>3, <1>4 DEF FileOf, i

LEMMA KeepsTrans ==
    ASSUME NEW q, NEW a, NEW b, Keeps(q, a), Keeps(a, b), q.file # NoSid => q.file = a.file
    PROVE  Keeps(q, b)
BY DEF Keeps

LEMMA LoadDataBasic ==
    ASSUME SessionInv, NEW r \in Requests, NEW q, Good(r, q), Touches(r), Grounds(q.client),
           Basic(r, q), q.values # Null => q.loaded \/ q.id = NoSid,
           NEW a, a = LoadData(r, q, q.id)
    PROVE  /\ Good(r, a) /\ Same(q, a, {"loaded", "data", "file", "inode"}) /\ (q.id # NoSid => a.loaded)
           /\ Keeps(q, a) /\ Basic(r, a) /\ (Current(q) => Current(a))
<1>1. /\ Good(r, a) /\ (q.id # NoSid => a.loaded)
      /\ Same(q, a, {"loaded", "data", "file", "inode"})
  BY LoadDataGood
<1>2. CASE q.loaded \/ q.id = NoSid
  <2>1. a = q
    BY <1>2 DEF LoadData
  <2> QED BY <1>1, <2>1 DEF Keeps
<1>3. CASE ~q.loaded /\ q.id # NoSid
  <2>1. PICK sid \in Sids : sid = q.id
    BY <1>3 DEF Good, Stash, AnySid
  <2>2. Opened(r, q, a, sid) /\ a.data = FileOf(sid)
    BY <1>3, <2>1, LoadDataReads
  <2>3. DOMAIN a = Fields /\ \A f \in Fields \ {"loaded", "data", "file", "inode"} : a[f] = q[f]
    BY <1>1 DEF Same
  <2>4. q.file = NoSid /\ ~q.deletedId /\ q.data = NoData /\ ~q.save
    BY <1>3 DEF Good, Live, Stash
  <2>5. a.file = sid /\ a.loaded = TRUE /\ a.inode = IF dir[sid] = NoFile THEN r ELSE dir[sid]
    BY <2>2 DEF Opened
  <2>6. /\ a.id = q.id /\ a.client = q.client /\ a.peer = q.peer /\ a.thread = q.thread
        /\ a.deletedId = q.deletedId
        /\ a.values = q.values /\ a.updated = q.updated /\ a.expires = q.expires
        /\ a.triedId = q.triedId /\ a.triedExpires = q.triedExpires /\ a.extended = q.extended
        /\ a.setCookie = q.setCookie /\ a.cookie = q.cookie /\ a.until = q.until
        /\ a.save = q.save /\ a.read = q.read /\ a.readAt = q.readAt
    BY <2>3 DEF Fields
  <2>7. Dates(a)
    BY <2>1, <2>2, <2>6, FileDates DEF Basic, Dates
  <2>8. Flags(a)
    BY <2>1, <2>5, <2>6 DEF Basic, Flags
  <2>9. Emptied(a)
    BY <2>4, <2>6 DEF Emptied
  <2>10. Sends(a, a) /\ Reads(a)
    BY <2>4, <2>6 DEF Basic, Sends, Reads
  <2>11. Copied(r, a)
    <3>1. FileOf(sid).expires \in Nat
      BY FileDates
    <3> QED BY <1>3, <2>1, <2>2, <2>4, <2>5, <2>6, <3>1 DEF Basic, Copied, Flags
  <2>12. Current(q) => Current(a)
    BY <1>3, <2>6 DEF Current
  <2>13. Keeps(q, a)
    BY <2>4, <2>6 DEF Keeps
  <2> QED BY <1>1, <2>7, <2>8, <2>9, <2>10, <2>11, <2>12, <2>13 DEF Basic
<1> QED BY <1>2, <1>3


\* The client holds nothing of the session, or nothing that the request may have.
Stale(q) == \/ q.client.value = NoValue \/ q.client.until < now \/ q.peer # q.client.peer

LEMMA DoDeleteBasic ==
    ASSUME SessionInv, NEW r \in Requests, NEW q, Good(r, q), Touches(r), Grounds(q.client),
           Basic(r, q), q.values # Null => q.loaded \/ q.id = NoSid, q.triedExpires,
           q.readAt = 0 => Stale(q), q.client.sid # NoSid => q.id # NoSid \/ q.deletedId,
           NEW a, a = DoDelete(r, q)
    PROVE  /\ Good(r, a) /\ Keeps(q, a) /\ Settled(r, a) /\ a.deletedId /\ a.values = Null /\ a.id = NoSid
           /\ a.readAt = q.readAt /\ a.updated = q.updated /\ a.read = q.read /\ a.triedId
<1> DEFINE l == LoadData(r, q, q.id)
<1>1. /\ Good(r, l) /\ Same(q, l, {"loaded", "data", "file", "inode"}) /\ (q.id # NoSid => l.loaded)
      /\ Keeps(q, l) /\ Basic(r, l)
  BY LoadDataBasic
<1>2. a = Reset(SetCookie(Stored(l, NoData), NoSid, now))
  BY DEF DoDelete
<1>3. Good(r, a)
  BY DoDeleteGood
<1> HIDE DEF l
<1>4. /\ DOMAIN a = Fields /\ a.deletedId = TRUE /\ a.id = NoSid /\ a.values = Null /\ a.data = NoData
      /\ a.loaded = TRUE /\ a.save = TRUE /\ a.expires = NoTime
      /\ a.setCookie = TRUE /\ a.cookie = NoSid /\ a.until = now
      /\ a.file = l.file /\ a.inode = l.inode /\ a.client = l.client /\ a.peer = l.peer /\ a.thread = l.thread
      /\ a.triedId = l.triedId /\ a.triedExpires = l.triedExpires /\ a.updated = l.updated
      /\ a.extended = l.extended /\ a.read = l.read /\ a.readAt = l.readAt
  <2> DEFINE d == Stored(l, NoData)
             c == SetCookie(d, NoSid, now)
  <2>1. /\ DOMAIN d = Fields /\ d.loaded = TRUE /\ d.data = NoData /\ d.save = TRUE
        /\ \A f \in Fields \ {"loaded", "data", "save"} : d[f] = l[f]
    BY <1>1 DEF Stored, Good, Stash, Fields
  <2> HIDE DEF d
  <2>2. /\ DOMAIN c = Fields /\ c.setCookie = TRUE /\ c.cookie = NoSid /\ c.until = now
        /\ \A f \in Fields \ {"setCookie", "cookie", "until"} : c[f] = d[f]
    BY <2>1 DEF SetCookie, Fields
  <2>3. a = Reset(c)
    BY <1>2 DEF d
  <2> HIDE DEF c
  <2>4. /\ DOMAIN a = Fields /\ a.deletedId = TRUE /\ a.id = NoSid /\ a.values = Null /\ a.expires = NoTime
        /\ \A f \in Fields \ {"deletedId", "id", "values", "expires", "gone"} : a[f] = c[f]
    BY <2>2, <2>3, ZenonT(40) DEF Reset, Fields
  <2> QED BY <2>1, <2>2, <2>4 DEF Fields
<1>5. /\ l.client = q.client /\ l.peer = q.peer /\ l.thread = q.thread /\ l.id = q.id
      /\ l.deletedId = q.deletedId
      /\ l.triedId = q.triedId /\ l.triedExpires = q.triedExpires /\ l.updated = q.updated
      /\ l.read = q.read /\ l.readAt = q.readAt
  BY <1>1 DEF Same, Fields
<1>6. NoData.expires = 0 /\ now \in Nat /\ Latest \in Nat /\ 0 <= Latest
  BY Numbers DEF NoData, Grounds, Latest
<1>7. Dates(a)
  BY <1>1, <1>4, <1>6 DEF Basic, Dates
<1>8. Flags(a)
  BY <1>1, <1>4, <1>5 DEF Basic, Flags
<1>9. Emptied(a)
  <2>1. q.client.sid # NoSid => l.file = q.client.sid
    <3>1. ASSUME q.client.sid # NoSid, q.id # NoSid PROVE l.file = q.client.sid
      BY <1>1, <1>5, <3>1 DEF Good, Live, Basic, Flags
    <3>2. ASSUME q.client.sid # NoSid, q.deletedId PROVE l.file = q.client.sid
      BY <1>1, <1>5, <3>2 DEF Basic, Emptied
    <3> QED BY <3>1, <3>2
  <2> QED BY <1>4, <1>5, <2>1 DEF Emptied, Stale
<1>10. Copied(r, a) /\ Sends(a, a) /\ Reads(a) /\ Current(a)
  BY <1>1, <1>4 DEF Basic, Copied, Sends, Reads, Current
<1>11. Keeps(q, a)
  BY <1>1, <1>4 DEF Keeps
<1>12. a.triedId
  BY <1>4, <1>5 DEF Basic, Flags
<1> QED BY <1>3, <1>4, <1>5, <1>7, <1>8, <1>9, <1>10, <1>11, <1>12 DEF Settled, Basic

LEMMA LoadIdReady ==
    ASSUME SessionInv, NEW r \in Requests, NEW q, Good(r, q), Ready(r, q), NEW a, a = LoadId(q)
    PROVE  /\ Good(r, a) /\ Same(q, a, {"triedId", "id"}) /\ Keeps(q, a) /\ Ready(r, a) /\ a.triedId
           /\ q.triedId => a = q
<1>1. Good(r, a) /\ Same(q, a, {"triedId", "id"})
  BY LoadIdGood
<1>2. CASE q.id # NoSid \/ q.triedId
  BY <1>1, <1>2 DEF LoadId, Keeps, Ready, Settled, Basic, Flags
<1>3. CASE ~(q.id # NoSid \/ q.triedId)
  <2>1. a = [q EXCEPT !.triedId = TRUE, !.id = IF q.deletedId THEN NoSid ELSE q.client.sid]
    BY <1>3 DEF LoadId
  <2>2. a.id = (IF q.deletedId THEN NoSid ELSE q.client.sid) /\ a.triedId = TRUE
    BY <2>1 DEF Good, Stash, Fields
  <2>3. DOMAIN a = Fields /\ \A f \in Fields \ {"triedId", "id"} : a[f] = q[f]
    BY <1>1 DEF Same
  <2>4. /\ a.loaded = q.loaded /\ a.data = q.data /\ a.file = q.file /\ a.inode = q.inode
        /\ a.client = q.client /\ a.peer = q.peer /\ a.thread = q.thread /\ a.deletedId = q.deletedId
        /\ a.values = q.values /\ a.updated = q.updated /\ a.expires = q.expires
        /\ a.triedExpires = q.triedExpires /\ a.extended = q.extended
        /\ a.setCookie = q.setCookie /\ a.cookie = q.cookie /\ a.until = q.until
        /\ a.save = q.save /\ a.read = q.read /\ a.readAt = q.readAt
    BY <2>3 DEF Fields
  <2>5. ~q.triedExpires /\ q.values = Null /\ q.readAt = 0 /\ ~q.updated
    BY <1>3 DEF Ready, Settled, Basic, Flags
  <2>6. Dates(a) /\ Emptied(a) /\ Sends(a, a) /\ Reads(a) /\ Current(a) /\ a.values = Null
    BY <2>4, <2>5 DEF Ready, Settled, Basic, Dates, Emptied, Sends, Reads, Current
  <2>7. Flags(a)
    BY <2>2, <2>4, <2>5 DEF Ready, Settled, Basic, Flags
  <2>8. Copied(r, a)
    BY <2>4, <2>5 DEF Ready, Settled, Basic, Copied
  <2>9. Keeps(q, a)
    BY <2>4 DEF Keeps
  <2> QED BY <1>1, <1>3, <2>2, <2>6, <2>7, <2>8, <2>9 DEF Ready, Settled, Basic
<1> QED BY <1>2, <1>3

LEMMA LoadExpiresSettled ==
    ASSUME SessionInv, NEW r \in Requests, NEW q, Good(r, q), Touches(r), Grounds(q.client),
           Ready(r, q), q.triedId, NEW a, a = LoadExpires(r, q)
    PROVE  /\ Good(r, a) /\ Keeps(q, a) /\ Ready(r, a) /\ a.triedId /\ a.triedExpires
           /\ a.readAt = q.readAt /\ a.updated = q.updated /\ a.read = q.read
           /\ \/ a.deletedId /\ a.values = Null /\ a.id = NoSid /\ ~q.triedExpires /\ q.id # NoSid
              \/ Same(q, a, {"loaded", "data", "file", "inode", "expires", "triedExpires"})
           /\ q.triedExpires => a = q
<1>1. CASE q.triedExpires
  <2>1. a = q
    BY <1>1 DEF LoadExpires
  <2> QED BY <1>1, <2>1 DEF Keeps, Same, Good, Stash
<1>2. CASE ~q.triedExpires
  <2> DEFINE t == [q EXCEPT !.triedExpires = TRUE]
             l == LoadData(r, t, t.id)
  <2>1. DOMAIN t = Fields /\ t.triedExpires = TRUE /\ \A f \in Fields \ {"triedExpires"} : t[f] = q[f]
    BY DEF Good, Stash, Fields
  <2>2. a = CheckExpires(r, l)
    <3>1. t.id = q.id
      BY <2>1 DEF Fields
    <3> QED BY <1>2, <3>1 DEF LoadExpires
  <2> HIDE DEF t
  <2>3. Good(r, t) /\ t.client = q.client
    BY <2>1 DEF Good, Stash, Live, Fields
  <2>4. q.values = Null /\ q.readAt = 0 /\ ~q.updated /\ q.expires = NoTime /\ ~q.save
    BY <1>2 DEF Ready, Settled, Basic, Flags
  <2>5. /\ t.loaded = q.loaded /\ t.data = q.data /\ t.file = q.file /\ t.inode = q.inode
        /\ t.id = q.id /\ t.peer = q.peer /\ t.thread = q.thread /\ t.deletedId = q.deletedId
        /\ t.values = q.values /\ t.updated = q.updated /\ t.expires = q.expires
        /\ t.triedId = q.triedId /\ t.extended = q.extended
        /\ t.setCookie = q.setCookie /\ t.cookie = q.cookie /\ t.until = q.until
        /\ t.save = q.save /\ t.read = q.read /\ t.readAt = q.readAt
    BY <2>1 DEF Fields
  <2>6. Basic(r, t) /\ Keeps(q, t)
    BY <2>1, <2>3, <2>5 DEF Ready, Settled, Basic, Dates, Flags, Emptied, Copied, Sends, Reads, Keeps
  <2>7. /\ Good(r, l) /\ Same(t, l, {"loaded", "data", "file", "inode"}) /\ (t.id # NoSid => l.loaded)
        /\ Keeps(t, l) /\ Basic(r, l)
    BY <2>3, <2>4, <2>5, <2>6, LoadDataBasic
  <2> HIDE DEF l
  <2>8. \A f \in Fields \ {"triedExpires", "loaded", "data", "file", "inode"} : l[f] = q[f]
    BY <2>1, <2>7 DEF Same
  <2>9. /\ l.id = q.id /\ l.client = q.client /\ l.peer = q.peer /\ l.thread = q.thread
        /\ l.deletedId = q.deletedId
        /\ l.values = q.values /\ l.updated = q.updated /\ l.expires = q.expires
        /\ l.triedId = q.triedId /\ l.save = q.save /\ l.read = q.read /\ l.readAt = q.readAt
        /\ l.extended = q.extended /\ l.setCookie = q.setCookie /\ l.cookie = q.cookie
        /\ l.until = q.until /\ l.triedExpires = TRUE
    BY <2>1, <2>7, <2>8 DEF Same, Fields
  <2>10. Keeps(q, l)
    BY <2>5, <2>6, <2>7, KeepsTrans
  <2>11. CASE l.id = NoSid
    <3>1. a = l /\ Current(l)
      BY <2>2, <2>11 DEF CheckExpires, Current
    <3>2. Same(q, a, {"loaded", "data", "file", "inode", "expires", "triedExpires"})
      BY <2>7, <2>8, <3>1 DEF Same
    <3> QED BY <1>2, <2>4, <2>7, <2>9, <2>10, <3>1, <3>2 DEF Ready, Settled
  <2>12. CASE l.id # NoSid
    <3>1. l.loaded /\ ~l.deletedId /\ l.data = FileOf(l.file) /\ l.file = l.id /\ l.client.sid = l.id
      <4>1. l.loaded /\ ~l.deletedId /\ l.file = l.id
        BY <2>5, <2>7, <2>9, <2>12 DEF Good, Live
      <4>2. l.client.sid # NoSid
        BY <2>4, <2>7, <2>9, <2>12 DEF Basic, Flags
      <4> QED BY <2>4, <2>7, <2>9, <2>12, <4>1, <4>2 DEF Basic, Copied, Flags
    <3>2. CASE l.data.expires >= now
      <4>1. a = [l EXCEPT !.expires = l.data.expires]
        BY <2>2, <2>12, <3>2 DEF CheckExpires
      <4>2. /\ DOMAIN a = Fields /\ a.expires = l.data.expires
            /\ \A f \in Fields \ {"expires"} : a[f] = l[f]
        BY <2>7, <4>1 DEF Good, Stash, Fields
      <4>3. /\ a.loaded = l.loaded /\ a.data = l.data /\ a.file = l.file /\ a.inode = l.inode
            /\ a.id = l.id /\ a.client = l.client /\ a.peer = l.peer /\ a.thread = l.thread
            /\ a.deletedId = l.deletedId
            /\ a.values = l.values /\ a.updated = l.updated
            /\ a.triedId = l.triedId /\ a.triedExpires = l.triedExpires /\ a.extended = l.extended
            /\ a.setCookie = l.setCookie /\ a.cookie = l.cookie /\ a.until = l.until
            /\ a.save = l.save /\ a.read = l.read /\ a.readAt = l.readAt
        BY <4>2 DEF Fields
      <4>4. l.data.expires \in Nat /\ l.data.expires # 0 /\ l.data.expires # NoTime
        BY <2>7, <3>2, Numbers DEF Basic, Dates, Grounds
      <4>5. Good(r, a)
        BY <2>7, <4>2 DEF Good, Stash, Live, Fields
      <4>6. Dates(a) /\ Flags(a) /\ Emptied(a) /\ Copied(r, a) /\ Sends(a, a) /\ Reads(a)
        BY <2>7, <2>9, <3>1, <4>2, <4>3, <4>4
           DEF Basic, Dates, Flags, Emptied, Copied, Sends, Reads
      <4>7. Current(a)
        BY <3>1, <4>2, <4>3, <4>4 DEF Current
      <4>8. Same(q, a, {"loaded", "data", "file", "inode", "expires", "triedExpires"})
        BY <2>8, <4>2 DEF Same
      <4>9. Keeps(q, a)
        BY <2>10, <4>3 DEF Keeps
      <4> QED BY <1>2, <2>4, <2>9, <4>3, <4>5, <4>6, <4>7, <4>8, <4>9 DEF Ready, Settled, Basic
    <3>3. CASE ~(l.data.expires >= now)
      <4>1. a = DoDelete(r, l)
        BY <2>2, <2>12, <3>3 DEF CheckExpires
      <4>2. Stale(l)
        <5>1. Agrees(l.client, FileOf(l.file))
          BY <2>9, <2>12, <3>1 DEF Grounds, KeptFor
        <5>2. l.client.until \in Nat /\ l.data.expires \in Nat /\ now \in Nat
          BY <2>7 DEF Basic, Dates, Grounds
        <5> QED BY <3>1, <3>3, <5>1, <5>2 DEF Agrees, Stale
      <4>3. /\ Good(r, a) /\ Keeps(l, a) /\ Settled(r, a) /\ a.deletedId /\ a.values = Null /\ a.id = NoSid
            /\ a.readAt = l.readAt /\ a.updated = l.updated /\ a.read = l.read /\ a.triedId
        BY <2>7, <2>9, <2>12, <3>1, <4>1, <4>2, DoDeleteBasic
      <4>4. Keeps(q, a)
        BY <2>10, <4>3, KeepsTrans DEF Keeps
      <4>5. a.triedExpires
        BY <4>3 DEF Settled, Basic, Emptied, Flags
      <4> QED BY <1>2, <2>9, <2>12, <4>3, <4>4, <4>5 DEF Ready
    <3> QED BY <3>2, <3>3
  <2> QED BY <2>11, <2>12
<1> QED BY <1>1, <1>2


LEMMA RestoreSettled ==
    ASSUME SessionInv, NEW r \in Requests, NEW q, Good(r, q), Touches(r), Grounds(q.client),
           Settled(r, q), q.values = Null, q.loaded, q.triedExpires, q.triedId,
           q.id # NoSid \/ q.deletedId, ~q.updated, NEW a, a = Restore(r, q)
    PROVE  /\ Good(r, a) /\ Keeps(q, a) /\ Settled(r, a) /\ a.triedId /\ a.triedExpires
           /\ a.readAt = q.readAt /\ a.updated = q.updated /\ a.read = q.read
           /\ a.id # NoSid => a.values # Null
<1>1. CASE q.data.session.peer \in {NoPeer, q.peer}
  <2>1. a = [q EXCEPT !.values = ToHash(q.data.session, q.id)]
    BY <1>1 DEF Restore
  <2>2. /\ DOMAIN a = Fields /\ \A f \in Fields \ {"values"} : a[f] = q[f]
        /\ a.values = ToHash(q.data.session, q.id)
    BY <2>1 DEF Good, Stash, Fields
  <2>3. /\ a.loaded = q.loaded /\ a.data = q.data /\ a.file = q.file /\ a.inode = q.inode
        /\ a.id = q.id /\ a.client = q.client /\ a.peer = q.peer /\ a.thread = q.thread
        /\ a.deletedId = q.deletedId
        /\ a.updated = q.updated /\ a.expires = q.expires
        /\ a.triedId = q.triedId /\ a.triedExpires = q.triedExpires /\ a.extended = q.extended
        /\ a.setCookie = q.setCookie /\ a.cookie = q.cookie /\ a.until = q.until
        /\ a.save = q.save /\ a.read = q.read /\ a.readAt = q.readAt
    BY <2>2 DEF Fields
  <2>4. a.values # Null
    <3>1. NoValue # None
      BY SessionConstants
    <3> QED BY <2>2, <3>1 DEF ToHash, Hash, Null
  <2>5. Dates(a) /\ Flags(a) /\ Emptied(a) /\ Sends(a, a) /\ Reads(a) /\ Current(a) /\ Keeps(q, a)
    BY <2>3, <2>4 DEF Settled, Basic, Dates, Flags, Emptied, Sends, Reads, Current, Keeps
  <2>6. Copied(r, a)
    BY <2>2, <2>3 DEF Settled, Basic, Copied
  <2>7. Good(r, a)
    <3>1. Known(q)
      BY DEF Known, Good, Live, Settled, Basic, Emptied
    <3> QED BY <3>1, RestoreGood
  <2> QED BY <2>3, <2>4, <2>5, <2>6, <2>7 DEF Settled, Basic
<1>2. CASE ~(q.data.session.peer \in {NoPeer, q.peer})
  <2>1. a = DoDelete(r, q)
    BY <1>2 DEF Restore
  <2>2. q.data.session # Null /\ ~q.deletedId
    BY <1>2 DEF Null, Hash, Settled, Basic, Emptied, NoData
  <2>3. q.file = q.id /\ q.client.sid = q.id /\ q.data.session = FileOf(q.client.sid).session
    <3>1. q.file = q.id /\ q.id # NoSid /\ q.data.session = FileOf(q.file).session
      BY <2>2 DEF Good, Live, Settled, Basic, Copied
    <3>2. q.client.sid # NoSid
      BY <3>1 DEF Settled, Basic, Flags
    <3> QED BY <3>1, <3>2 DEF Settled, Basic, Flags
  <2>4. Stale(q)
    <3>1. Agrees(q.client, FileOf(q.client.sid))
      BY <2>2, <2>3 DEF Grounds, KeptFor
    <3> QED BY <1>2, <2>3, <3>1 DEF Agrees, Stale
  <2>5. /\ Good(r, a) /\ Keeps(q, a) /\ Settled(r, a) /\ a.id = NoSid
        /\ a.readAt = q.readAt /\ a.updated = q.updated /\ a.read = q.read /\ a.triedId /\ a.deletedId
    BY <2>1, <2>2, <2>4, DoDeleteBasic DEF Settled
  <2>6. a.triedExpires
    BY <2>5 DEF Settled, Basic, Emptied, Flags
  <2> QED BY <2>5, <2>6
<1> QED BY <1>1, <1>2

LEMMA FindSessionSettled ==
    ASSUME SessionInv, NEW r \in Requests, NEW q, Good(r, q), Touches(r), Grounds(q.client),
           Ready(r, q), q.triedId, q.values = Null, NEW a, a = FindSession(r, q)
    PROVE  /\ Good(r, a) /\ Keeps(q, a) /\ Settled(r, a) /\ a.triedId /\ a.triedExpires
           /\ a.readAt = q.readAt /\ a.updated = q.updated /\ a.read = q.read
           /\ a.id # NoSid => a.values # Null
<1> DEFINE e == LoadExpires(r, q)
           l == LoadData(r, e, q.id)
<1>1. /\ Good(r, e) /\ Keeps(q, e) /\ Ready(r, e) /\ e.triedId /\ e.triedExpires
      /\ e.readAt = q.readAt /\ e.updated = q.updated /\ e.read = q.read
      /\ \/ e.deletedId /\ e.values = Null /\ e.id = NoSid /\ ~q.triedExpires
         \/ Same(q, e, {"loaded", "data", "file", "inode", "expires", "triedExpires"})
  BY LoadExpiresSettled
<1>2. FindSession(r, q) = IF ReturnsExpires(q) /\ q.id # NoSid THEN Restore(r, l) ELSE e
  BY DEF FindSession
<1> HIDE DEF e
<1>3. Same(q, e, {"loaded", "data", "file", "inode", "expires", "triedExpires"})
          => e.id = q.id /\ e.values = q.values /\ e.deletedId = q.deletedId
  BY DEF Same, Fields
<1>4. e.values = Null
  BY <1>1, <1>3
<1>5. CASE ReturnsExpires(q) /\ q.id # NoSid
  <2>1. e.loaded /\ (e.id # NoSid \/ e.deletedId) /\ ~e.updated
    <3>1. ~q.updated
      BY <1>5 DEF Good, Live
    <3> QED BY <1>1, <1>3, <1>5, <3>1 DEF Ready, Settled, Basic, Emptied, Current
  <2>2. l = e
    BY <2>1 DEF LoadData
  <2> HIDE DEF l
  <2>3. a = Restore(r, e) /\ e.client = q.client
    BY <1>1, <1>2, <1>5, <2>2 DEF Keeps
  <2>4. /\ Good(r, a) /\ Keeps(e, a) /\ Settled(r, a) /\ a.triedId /\ a.triedExpires
        /\ a.readAt = e.readAt /\ a.updated = e.updated /\ a.read = e.read
        /\ a.id # NoSid => a.values # Null
    BY <1>1, <1>4, <2>1, <2>3, RestoreSettled DEF Ready
  <2>5. Keeps(q, a)
    BY <1>1, <2>4, KeepsTrans DEF Keeps
  <2> QED BY <1>1, <2>4, <2>5
<1>6. CASE ~(ReturnsExpires(q) /\ q.id # NoSid)
  <2>1. a = e
    BY <1>2, <1>6
  <2>2. q.id = NoSid
    BY <1>6 DEF ReturnsExpires, Ready, Settled, Current
  <2> QED BY <1>1, <1>3, <2>1, <2>2 DEF Ready
<1> QED BY <1>5, <1>6

LEMMA SeenReady ==
    ASSUME SessionInv, NEW r \in Requests, NEW q, Good(r, q), Grounds(q.client), Settled(r, q),
           q.triedId, q.triedExpires, q.id # NoSid => q.values # Null, NEW a, a = Seen(q)
    PROVE  Good(r, a) /\ Keeps(q, a) /\ Ready(r, a) /\ a.readAt # 0
<1>1. CASE q.readAt # 0
  BY <1>1 DEF Seen, Keeps, Ready
<1>2. CASE q.readAt = 0
  <2>1. a = [q EXCEPT !.readAt = now, !.read = IF q.values = Null THEN NoValue ELSE q.values.value]
    BY <1>2 DEF Seen
  <2>2. /\ DOMAIN a = Fields /\ \A f \in Fields \ {"read", "readAt"} : a[f] = q[f]
        /\ a.readAt = now /\ a.read = IF q.values = Null THEN NoValue ELSE q.values.value
    BY <2>1 DEF Good, Stash, Fields
  <2>3. /\ a.loaded = q.loaded /\ a.data = q.data /\ a.file = q.file /\ a.inode = q.inode
        /\ a.id = q.id /\ a.client = q.client /\ a.peer = q.peer /\ a.thread = q.thread
        /\ a.deletedId = q.deletedId
        /\ a.values = q.values /\ a.updated = q.updated /\ a.expires = q.expires
        /\ a.triedId = q.triedId /\ a.triedExpires = q.triedExpires /\ a.extended = q.extended
        /\ a.setCookie = q.setCookie /\ a.cookie = q.cookie /\ a.until = q.until
        /\ a.save = q.save
    BY <2>2 DEF Fields
  <2>4. Good(r, a)
    BY <2>2 DEF Good, Stash, Live, Fields
  <2>5. now \in Nat /\ now # 0
    BY DEF Grounds
  <2>6. Dates(a) /\ Flags(a) /\ Emptied(a) /\ Copied(r, a) /\ Sends(a, a) /\ Current(a) /\ Keeps(q, a)
    BY <2>2, <2>3, <2>5
       DEF Settled, Basic, Dates, Flags, Emptied, Copied, Sends, Current, Keeps
  <2>7. ASSUME q.client.sid # NoSid, now <= q.client.until, q.peer = q.client.peer
        PROVE  a.read = q.client.value
    <3>1. ~q.updated
      BY <1>2 DEF Settled, Basic, Flags
    <3>2. CASE q.deletedId
      <4>1. q.client.value = NoValue
        <5>1. q.client.until \in Nat
          BY DEF Settled, Basic, Dates
        <5> QED BY <1>2, <2>5, <2>7, <3>2, <5>1 DEF Settled, Basic, Emptied
      <4> QED BY <2>2, <3>2, <4>1 DEF Good, Live, Blank
    <3>3. CASE ~q.deletedId
      <4>1. q.id # NoSid /\ q.values # Null /\ q.loaded
        BY <2>7, <3>3 DEF Settled, Basic, Flags, Current
      <4>2. q.file = q.client.sid /\ q.values = ToHash(q.data.session, q.id)
        BY <2>7, <3>1, <3>3, <4>1 DEF Good, Live, Settled, Basic, Flags, Copied
      <4>3. q.data.session = FileOf(q.client.sid).session /\ FileOf(q.client.sid).expires # 0
        BY <2>7, <3>3, <4>1, <4>2 DEF Settled, Basic, Copied, Current
      <4>4. Agrees(q.client, FileOf(q.client.sid))
        BY <2>7 DEF Grounds, KeptFor
      <4> QED BY <2>2, <4>1, <4>2, <4>3, <4>4 DEF Agrees, ToHash
    <3> QED BY <3>2, <3>3
  <2>8. Reads(a)
    BY <2>2, <2>3, <2>7 DEF Reads
  <2> QED BY <2>2, <2>4, <2>5, <2>6, <2>8 DEF Ready, Settled, Basic
<1> QED BY <1>1, <1>2

LEMMA LoadSessionReady ==
    ASSUME SessionInv, NEW r \in Requests, NEW q, Good(r, q), Touches(r), Grounds(q.client),
           Ready(r, q), NEW a, a = LoadSession(r, q)
    PROVE  Good(r, a) /\ Keeps(q, a) /\ Ready(r, a) /\ a.readAt # 0
<1>1. CASE q.values # Null
  BY <1>1 DEF LoadSession, Ready, Keeps
<1>2. CASE q.values = Null
  <2> DEFINE i == LoadId(q)
             f == FindSession(r, i)
  <2>1. Good(r, i) /\ Same(q, i, {"triedId", "id"}) /\ Keeps(q, i) /\ Ready(r, i) /\ i.triedId
    BY LoadIdReady
  <2>2. i.values = Null /\ i.client = q.client
    BY <1>2, <2>1 DEF Same, Fields
  <2>3. a = Seen(f)
    BY <1>2 DEF LoadSession
  <2> HIDE DEF i
  <2>4. /\ Good(r, f) /\ Keeps(i, f) /\ Settled(r, f) /\ f.triedId /\ f.triedExpires
        /\ f.id # NoSid => f.values # Null
    BY <2>1, <2>2, FindSessionSettled
  <2> HIDE DEF f
  <2>5. f.client = q.client
    BY <2>2, <2>4 DEF Keeps
  <2>6. Good(r, a) /\ Keeps(f, a) /\ Ready(r, a) /\ a.readAt # 0
    BY <2>3, <2>4, <2>5, SeenReady
  <2>7. Keeps(q, a)
    BY <2>1, <2>4, <2>6 DEF Keeps
  <2> QED BY <2>6, <2>7
<1> QED BY <1>1, <1>2


LEMMA WithValueReady ==
    ASSUME SessionInv, NEW r \in Requests, NEW q, Good(r, q), Settled(r, q), q.readAt # 0,
           q.values # Null, ~q.deletedId, NEW v, NEW a, a = WithValue(q, v), Good(r, a)
    PROVE  Keeps(q, a) /\ Ready(r, a) /\ a.readAt # 0
<1>1. /\ DOMAIN a = Fields /\ \A f \in Fields \ {"values", "updated"} : a[f] = q[f]
      /\ a.updated = TRUE
  BY DEF WithValue, Good, Stash, Fields
<1>2. /\ a.loaded = q.loaded /\ a.data = q.data /\ a.file = q.file /\ a.inode = q.inode
      /\ a.id = q.id /\ a.client = q.client /\ a.peer = q.peer /\ a.thread = q.thread
      /\ a.deletedId = q.deletedId
      /\ a.expires = q.expires
      /\ a.triedId = q.triedId /\ a.triedExpires = q.triedExpires /\ a.extended = q.extended
      /\ a.setCookie = q.setCookie /\ a.cookie = q.cookie /\ a.until = q.until
      /\ a.save = q.save /\ a.read = q.read /\ a.readAt = q.readAt
  BY <1>1 DEF Fields
<1>3. a.values # Null
  BY <1>1, <1>2 DEF Good, Live
<1>4. /\ Dates(a) /\ Flags(a) /\ Emptied(a) /\ Copied(r, a) /\ Sends(a, a) /\ Reads(a) /\ Current(a)
      /\ Keeps(q, a)
  BY <1>1, <1>2, <1>3
     DEF Settled, Basic, Dates, Flags, Emptied, Copied, Sends, Reads, Current, Keeps
<1> QED BY <1>2, <1>4 DEF Ready, Settled, Basic

LEMMA Calculated ==
    ASSUME SessionInv, NEW c, Grounds(c), NEW q, q.data.expires \in Nat, q.data.expires <= Latest
    PROVE  /\ CalculateExpires(q) \in Nat /\ CalculateExpires(q) <= Latest
           /\ CalculateExpires(q) # NoTime /\ InitialExpires \in Nat
           /\ InitialExpires <= CalculateExpires(q)
BY Numbers DEF Grounds, CalculateExpires, InitialExpires, Latest

LEMMA StoreValueReady ==
    ASSUME SessionInv, NEW r \in Requests, NEW q, Good(r, q), Touches(r), Grounds(q.client),
           Ready(r, q), q.readAt # 0, ~q.deletedId, q.created < MaxSessions \/ q.values # Null,
           NEW v, NEW a, a = StoreValue(r, q, v)
    PROVE  Good(r, a) /\ Keeps(q, a) /\ Ready(r, a) /\ a.readAt # 0
<1>1. Good(r, a)
  BY StoreValueGood
<1>2. CASE q.values # Null
  <2>1. a = WithValue(q, v)
    BY <1>2 DEF StoreValue
  <2> QED BY <1>1, <1>2, <2>1, WithValueReady DEF Ready
<1>3. CASE q.values = Null
  <2>1. q.id = NoSid /\ q.client.sid = NoSid /\ ~q.loaded /\ q.triedId
    BY <1>3 DEF Ready, Settled, Basic, Flags, Good, Live
  <2> DEFINE sid == <<r, q.created + 1>>
             l == LoadData(r, q, sid)
             c == CreateSessionId(l, sid)
             n == Initialize(c)
  <2>2. a = WithValue(n, v)
    BY <1>3, <2>1 DEF StoreValue, CreateSession
  <2>3. sid \in Sids /\ sid # NoSid
    <3>1. q.created \in Nat /\ MaxSessions \in Nat
      BY SessionConstants DEF Good, Stash
    <3>2. q.created + 1 \in 1 .. MaxSessions
      BY <1>3, <3>1
    <3> QED BY <3>2, NoSids DEF Sids
  <2> HIDE DEF sid
  <2>4. Opened(r, q, l, sid) /\ l.data = FileOf(sid)
    BY <2>1, <2>3, LoadDataReads
  <2>5. DOMAIN l = Fields /\ \A f \in Fields \ {"loaded", "data", "file", "inode"} : l[f] = q[f]
    BY <2>4 DEF Opened, Same
  <2> HIDE DEF l
  <2>6. /\ IsData(l.data) /\ l.data.expires \in Nat /\ l.data.expires <= Latest
    BY <2>3, <2>4, FileDates
  <2>7. /\ CalculateExpires(l) \in Nat /\ CalculateExpires(l) <= Latest
        /\ CalculateExpires(l) # NoTime /\ InitialExpires \in Nat
        /\ InitialExpires <= CalculateExpires(l)
    BY <2>6, Calculated
  <2> DEFINE ends == CalculateExpires(l)
  <2> HIDE DEF ends
  <2>8. /\ DOMAIN c = Fields /\ c.id = sid /\ c.cookie = sid /\ c.setCookie = TRUE
        /\ c.until = InitialExpires /\ c.triedExpires = TRUE /\ c.expires = ends /\ c.extended = ends
        /\ \A f \in Fields \ {"id", "cookie", "setCookie", "until", "triedExpires", "expires",
                              "extended", "created"} : c[f] = l[f]
    <3> DEFINE k == SetCookie(l, sid, InitialExpires)
    <3>1. /\ DOMAIN k = Fields /\ k.setCookie = TRUE /\ k.cookie = sid /\ k.until = InitialExpires
          /\ \A f \in Fields \ {"setCookie", "cookie", "until"} : k[f] = l[f]
      BY <2>5 DEF SetCookie, Fields
    <3>2. c = [k EXCEPT !.id = sid, !.created = @ + 1, !.triedExpires = TRUE,
                        !.expires = ends, !.extended = ends]
      BY DEF CreateSessionId, ends
    <3> HIDE DEF k, c
    <3>3. /\ DOMAIN c = Fields /\ c.id = sid /\ c.triedExpires = TRUE
          /\ c.expires = ends /\ c.extended = ends
          /\ \A f \in Fields \ {"id", "created", "triedExpires", "expires", "extended"} : c[f] = k[f]
      BY <3>1, <3>2 DEF Fields
    <3> QED BY <3>1, <3>3 DEF Fields
  <2> HIDE DEF c
  <2>9. /\ DOMAIN n = Fields /\ n.values = Hash(NoValue, c.peer, c.id)
        /\ \A f \in Fields \ {"values"} : n[f] = c[f]
    BY <2>8 DEF Initialize, Fields
  <2> HIDE DEF n
  <2>10. /\ DOMAIN a = Fields /\ a.updated = TRUE
         /\ \A f \in Fields \ {"values", "updated"} : a[f] = n[f]
    BY <2>2, <2>9 DEF WithValue, Fields
  <2>11. /\ a.id = sid /\ a.cookie = sid /\ a.setCookie = TRUE /\ a.until = InitialExpires
         /\ a.triedExpires = TRUE /\ a.expires = ends /\ a.extended = ends
         /\ a.loaded = TRUE /\ a.data = FileOf(sid) /\ a.file = sid /\ a.inode = l.inode
         /\ a.triedId = q.triedId /\ a.deletedId = q.deletedId /\ a.client = q.client
         /\ a.peer = q.peer /\ a.thread = q.thread /\ a.save = q.save /\ a.read = q.read
         /\ a.readAt = q.readAt
    BY <2>4, <2>5, <2>8, <2>9, <2>10 DEF Fields, Opened
  <2>12. l.inode = IF dir[sid] = NoFile THEN r ELSE dir[sid]
    BY <2>4 DEF Opened
  <2>13. a.values # Null
    BY <1>1, <2>10, <2>11 DEF Good, Live
  <2>14. ~q.save
    BY <2>1 DEF Good, Stash
  <2>15. Dates(a)
    BY <2>4, <2>6, <2>7, <2>11 DEF ends, Ready, Settled, Basic, Dates
  <2>16. Flags(a)
    BY <2>1, <2>3, <2>10, <2>11, <2>13 DEF Flags
  <2>17. Emptied(a) /\ Sends(a, a) /\ Reads(a) /\ Current(a)
    BY <2>1, <2>7, <2>11 DEF ends, Emptied, Sends, Reads, Current
  <2>18. Copied(r, a)
    BY <2>4, <2>6, <2>10, <2>11, <2>12 DEF Copied
  <2>19. Keeps(q, a)
    BY <2>1, <2>11 DEF Keeps, Good, Stash
  <2> QED BY <1>1, <2>11, <2>15, <2>16, <2>17, <2>18, <2>19 DEF Ready, Settled, Basic
<1> QED BY <1>2, <1>3


\* What the expiry calls leave alone, of a request that has looked for its session.
Dated == {"data", "save", "setCookie", "cookie", "until", "extended"}

LEMMA ExtendLoadedReady ==
    ASSUME SessionInv, NEW r \in Requests, NEW q, Good(r, q), Grounds(q.client), Ready(r, q),
           q.id # NoSid, q.loaded, q.extended = NoTime, NEW a, a = ExtendLoaded(q)
    PROVE  /\ Good(r, a) /\ Keeps(q, a) /\ Ready(r, a)
           /\ Same(q, a, {"setCookie", "cookie", "until", "extended"})
<1>1. CASE a = q
  BY <1>1 DEF Keeps, Same, Good, Stash
<1> DEFINE ends == CalculateExpires(q)
<1>2. ends \in Nat /\ ends <= Latest
  BY Calculated DEF Ready, Settled, Basic, Dates
<1> HIDE DEF ends
<1>3. CASE a = [SetCookie(q, q.id, ends) EXCEPT !.extended = ends]
  <2>1. /\ DOMAIN a = Fields /\ a.cookie = q.id /\ a.until = ends /\ a.extended = ends
        /\ \A f \in Fields \ {"setCookie", "cookie", "until", "extended"} : a[f] = q[f]
    BY <1>3 DEF SetCookie, Good, Stash, Fields
  <2>2. /\ a.loaded = q.loaded /\ a.data = q.data /\ a.file = q.file /\ a.inode = q.inode
        /\ a.id = q.id /\ a.client = q.client /\ a.peer = q.peer /\ a.thread = q.thread
        /\ a.deletedId = q.deletedId
        /\ a.values = q.values /\ a.updated = q.updated /\ a.expires = q.expires
        /\ a.triedId = q.triedId /\ a.triedExpires = q.triedExpires
        /\ a.save = q.save /\ a.read = q.read /\ a.readAt = q.readAt
    BY <2>1 DEF Fields
  <2>3. ~q.deletedId /\ q.file = q.id
    BY DEF Good, Live
  <2>4. Good(r, a)
    <3>1. Stash(a)
      BY <2>1 DEF Good, Stash, Fields
    <3>2. Live(a)
      BY <2>1 DEF Good, Live, Fields
    <3> QED BY <2>2, <3>1, <3>2, <2>1 DEF Good, Fields
  <2>5. /\ Dates(a) /\ Flags(a) /\ Emptied(a) /\ Copied(r, a) /\ Sends(a, a) /\ Reads(a) /\ Current(a)
        /\ Keeps(q, a)
    BY <1>2, <2>1, <2>2, <2>3
       DEF Ready, Settled, Basic, Dates, Flags, Emptied, Copied, Sends, Reads, Current, Keeps
  <2> QED BY <2>1, <2>2, <2>4, <2>5 DEF Ready, Settled, Basic, Same
<1> QED BY <1>1, <1>3 DEF ExtendLoaded, ends

LEMMA ExpiresReady ==
    ASSUME SessionInv, NEW r \in Requests, NEW q, Good(r, q), Touches(r), Grounds(q.client),
           Ready(r, q), NEW a, a = Expires(r, q)
    PROVE  /\ Good(r, a) /\ Keeps(q, a) /\ Ready(r, a)
           /\ a.readAt = q.readAt /\ a.updated = q.updated
           /\ q.triedExpires => Same(q, a, {"setCookie", "cookie", "until", "extended"})
           /\ q.client.sid = NoSid /\ q.id = NoSid /\ ~q.deletedId => a.id = NoSid /\ ~a.deletedId
<1>1. CASE q.extended # NoTime
  BY <1>1 DEF Expires, Keeps, Same, Good, Stash
<1>2. CASE q.extended = NoTime
  <2> DEFINE i == LoadId(q)
             e == LoadExpires(r, i)
  <2>1. /\ Good(r, i) /\ Same(q, i, {"triedId", "id"}) /\ Keeps(q, i) /\ Ready(r, i) /\ i.triedId
        /\ q.triedId => i = q
    BY LoadIdReady
  <2>2. a = IF ReturnsExpires(i) THEN Extend(r, e) ELSE e
    BY <1>2 DEF Expires, ExpiresOf
  <2> HIDE DEF i
  <2>3. /\ i.client = q.client /\ i.readAt = q.readAt /\ i.updated = q.updated
        /\ i.extended = q.extended /\ i.triedExpires = q.triedExpires
        /\ i.deletedId = q.deletedId
    BY <2>1 DEF Same, Fields
  <2>10. q.client.sid = NoSid /\ q.id = NoSid => i.id = NoSid
    BY DEF i, LoadId, Good, Stash, Fields
  <2>4. /\ Good(r, e) /\ Keeps(i, e) /\ Ready(r, e) /\ e.triedId /\ e.triedExpires
        /\ e.readAt = i.readAt /\ e.updated = i.updated
        /\ e.id = NoSid \/ e.extended = i.extended
        /\ i.triedExpires => e = i
        /\ i.id = NoSid /\ ~i.deletedId => e.id = NoSid /\ ~e.deletedId
    <3>1. /\ Good(r, e) /\ Keeps(i, e) /\ Ready(r, e) /\ e.triedId /\ e.triedExpires
          /\ e.readAt = i.readAt /\ e.updated = i.updated
          /\ \/ e.deletedId /\ e.values = Null /\ e.id = NoSid /\ ~i.triedExpires /\ i.id # NoSid
             \/ Same(i, e, {"loaded", "data", "file", "inode", "expires", "triedExpires"})
          /\ i.triedExpires => e = i
      BY <2>1, <2>3, LoadExpiresSettled
    <3> HIDE DEF e
    <3> QED BY <3>1 DEF Same, Fields
  <2> HIDE DEF e
  <2>5. q.triedExpires => e = q
    BY <2>1, <2>3, <2>4 DEF Ready, Settled, Basic, Flags
  <2>6. Keeps(q, e) /\ e.client = q.client
    BY <2>1, <2>3, <2>4 DEF Keeps
  <2>7. CASE a = e
    BY <2>3, <2>4, <2>5, <2>6, <2>7, <2>10 DEF Same, Good, Stash
  <2>8. CASE a = Extend(r, e) /\ e.id # NoSid
    <3>1. e.loaded
      BY <2>4, <2>8 DEF Ready, Settled, Current
    <3>2. a = ExtendLoaded(e)
      BY <2>8, <3>1 DEF Extend, LoadData
    <3>3. /\ Good(r, a) /\ Keeps(e, a) /\ Ready(r, a)
          /\ Same(e, a, {"setCookie", "cookie", "until", "extended"})
      BY <1>2, <2>3, <2>4, <2>6, <2>8, <3>1, <3>2, ExtendLoadedReady
    <3>4. a.readAt = e.readAt /\ a.updated = e.updated
      BY <3>3 DEF Same, Fields
    <3>5. Keeps(q, a)
      BY <2>6, <3>3, KeepsTrans DEF Keeps
    <3> QED BY <2>3, <2>4, <2>5, <2>8, <2>10, <3>3, <3>4, <3>5
  <2>9. CASE a = Extend(r, e) /\ e.id = NoSid
    <3>1. a = e
      BY <2>9 DEF Extend
    <3> QED BY <2>7, <3>1
  <2> QED BY <2>2, <2>7, <2>8, <2>9
<1> QED BY <1>1, <1>2

LEMMA StoreExpiresReady ==
    ASSUME SessionInv, NEW r \in Requests, NEW q, Good(r, q), Touches(r), Grounds(q.client),
           Ready(r, q), q.id # NoSid, q.triedExpires,
           NEW e \in Nat, e <= Latest, e >= q.data.expires,
           NEW a, a = StoreExpires(LoadData(r, q, q.id), e)
    PROVE  /\ Good(r, a) /\ Keeps(q, a) /\ Ready(r, a) /\ Same(q, a, {"data", "save"})
           /\ a.data.expires = e /\ a.data.session = q.data.session
<1>1. q.loaded /\ ~q.deletedId
  BY DEF Ready, Settled, Current, Good, Live
<1>2. Good(r, a)
  BY StoreExpiresGood
<1>3. a = Stored(q, [q.data EXCEPT !.expires = e])
  BY <1>1 DEF StoreExpires, LoadData
<1>4. /\ DOMAIN a = Fields /\ a.loaded = TRUE /\ a.save = TRUE /\ a.data = [q.data EXCEPT !.expires = e]
      /\ \A f \in Fields \ {"loaded", "data", "save"} : a[f] = q[f]
  BY <1>3 DEF Stored, Good, Stash, Fields
<1>5. a.data.expires = e /\ a.data.session = q.data.session
  BY <1>4 DEF Good, Stash, IsData
<1>6. /\ a.file = q.file /\ a.inode = q.inode
      /\ a.id = q.id /\ a.client = q.client /\ a.peer = q.peer /\ a.thread = q.thread
      /\ a.deletedId = q.deletedId
      /\ a.values = q.values /\ a.updated = q.updated /\ a.expires = q.expires
      /\ a.triedId = q.triedId /\ a.triedExpires = q.triedExpires /\ a.extended = q.extended
      /\ a.setCookie = q.setCookie /\ a.cookie = q.cookie /\ a.until = q.until
      /\ a.read = q.read /\ a.readAt = q.readAt
  BY <1>4 DEF Fields
<1>7. /\ Dates(a) /\ Flags(a) /\ Emptied(a) /\ Sends(a, a) /\ Reads(a) /\ Current(a) /\ Keeps(q, a)
  BY <1>1, <1>4, <1>5, <1>6
     DEF Ready, Settled, Basic, Dates, Flags, Emptied, Sends, Reads, Current, Keeps
<1>8. Copied(r, a)
  <2>1. q.file = q.id /\ FileOf(q.file).expires \in Nat
    <3>1. q.file \in Sids /\ q.file = q.id
      BY <1>1 DEF Good, Live, Stash, AnySid
    <3> QED BY <3>1, FileDates
  <2>2. q.data.expires \in Nat
    BY DEF Ready, Settled, Basic, Dates
  <2> QED BY <1>1, <1>4, <1>5, <1>6, <2>1, <2>2 DEF Ready, Settled, Basic, Copied
<1>9. Same(q, a, {"data", "save"})
  <2>1. a.loaded = q.loaded
    BY <1>1, <1>4 DEF Good, Stash, Ready, Settled
  <2> QED BY <1>1, <1>4, <2>1 DEF Same
<1> QED BY <1>2, <1>5, <1>6, <1>7, <1>8, <1>9 DEF Ready, Settled, Basic

\* What the file will hold is not older than what the cookie says.
Covered(q) == q.id # NoSid /\ q.extended # NoTime => q.extended <= q.data.expires

LEMMA SaveExpiresReady ==
    ASSUME SessionInv, NEW r \in Requests, NEW q, Good(r, q), Touches(r), Grounds(q.client),
           Ready(r, q), NEW a, a = SaveExpires(r, q)
    PROVE  /\ Good(r, a) /\ Keeps(q, a) /\ Ready(r, a) /\ Same(q, a, Dated)
           /\ q.triedExpires => Covered(a)
<1>1. CASE q.expires = NoTime \/ LoadId(q).id = NoSid
  <2>1. a = q
    BY <1>1 DEF SaveExpires
  <2>2. q.triedExpires => q.id = NoSid
    BY <1>1, LoadIdReady DEF Ready, Settled, Basic, Flags, Current
  <2> QED BY <2>1, <2>2 DEF Keeps, Same, Good, Stash, Covered
<1>2. CASE ~(q.expires = NoTime \/ LoadId(q).id = NoSid)
  <2>1. q.triedExpires /\ q.triedId
    BY <1>2 DEF Ready, Settled, Basic, Flags
  <2>2. LoadId(q) = q
    BY <2>1 DEF LoadId
  <2>3. q.id # NoSid /\ q.loaded
    BY <1>2, <2>1, <2>2 DEF Ready, Settled, Current
  <2>4. LoadData(r, q, q.id) = q
    BY <2>3 DEF LoadData
  <2> DEFINE e == Expires(r, q)
  <2>5. a = StoreIfLater(r, e, q.data.expires)
    BY <1>2, <2>2, <2>4 DEF SaveExpires, SaveIfLater
  <2>6. /\ Good(r, e) /\ Keeps(q, e) /\ Ready(r, e)
        /\ Same(q, e, {"setCookie", "cookie", "until", "extended"})
    BY <2>1, ExpiresReady
  <2> HIDE DEF e
  <2>7. /\ e.id = q.id /\ e.data = q.data /\ e.client = q.client /\ e.triedExpires = q.triedExpires
    BY <2>6 DEF Same, Fields
  <2>8. e.data.expires \in Nat /\ e.extended \in Nat \cup {NoTime} /\ e.extended <= Latest
    BY <2>6 DEF Ready, Settled, Basic, Dates
  <2>9. CASE ReturnedExpires(e) > q.data.expires
    <3>1. e.extended # NoTime /\ ReturnedExpires(e) = e.extended
      BY <2>7, <2>8, <2>9 DEF ReturnedExpires
    <3>2. a = StoreExpires(LoadData(r, e, e.id), e.extended)
      BY <2>5, <2>9, <3>1 DEF StoreIfLater
    <3>3. e.extended \in Nat /\ e.extended >= e.data.expires
      BY <2>7, <2>8, <2>9, <3>1
    <3> DEFINE x == e.extended
    <3> HIDE DEF x
    <3>4. /\ Good(r, a) /\ Keeps(e, a) /\ Ready(r, a) /\ Same(e, a, {"data", "save"})
          /\ a.data.expires = x
      <4>1. x \in Nat /\ x <= Latest /\ x >= e.data.expires /\ a = StoreExpires(LoadData(r, e, e.id), x)
        BY <2>8, <3>2, <3>3 DEF x
      <4>2. Grounds(e.client) /\ e.id # NoSid /\ e.triedExpires
        BY <2>1, <2>3, <2>7
      <4> QED BY <2>6, <4>1, <4>2, StoreExpiresReady
    <3>5. Keeps(q, a)
      BY <2>6, <3>4, KeepsTrans DEF Keeps
    <3>6. Same(q, a, Dated)
      BY <2>6, <3>4 DEF Same, Dated
    <3>7. a.extended = e.extended
      BY <3>4 DEF Same, Fields
    <3> QED BY <3>3, <3>4, <3>5, <3>6, <3>7 DEF Covered, x
  <2>10. CASE ~(ReturnedExpires(e) > q.data.expires)
    <3>1. a = e
      BY <2>5, <2>10 DEF StoreIfLater
    <3>2. Same(q, a, Dated)
      BY <2>6, <3>1 DEF Same, Dated
    <3>3. Covered(e)
      BY <2>7, <2>8, <2>10 DEF Covered, ReturnedExpires
    <3> QED BY <2>6, <3>1, <3>2, <3>3
  <2> QED BY <2>9, <2>10
<1> QED BY <1>1, <1>2


\* The request has looked at its session, has none, or has deleted it.
Visited(q) == q.client.sid = NoSid \/ q.readAt # 0 \/ q.deletedId

\* The client that gets the answer knows what will be in the file.
Leaving(a) ==
    \A c, h :
        /\ Carried(c, a.client) /\ Sends(a, h) /\ (h.setCookie => h.until \in Nat)
        /\ Given(c, a, h).sid # NoSid
        => Given(c, a, h).sid = a.file /\ Agrees(Given(c, a, h), a.data)

LEMMA StoreValuesSaved ==
    ASSUME SessionInv, NEW r \in Requests, NEW q, Good(r, q), Touches(r), Ready(r, q),
           NEW a, a = StoreValues(r, q)
    PROVE  /\ Same(q, a, {"data", "save"}) /\ a.data.expires = q.data.expires
           /\ ~q.updated => a = q
           /\ q.updated => a.save /\ a.data.session = ToHash(q.values, q.file)
<1>1. CASE ~q.updated
  BY <1>1 DEF StoreValues, Same, Good, Stash
<1>2. CASE q.updated
  <2>1. q.loaded \/ q.id = NoSid
    BY <1>2 DEF Ready, Settled, Basic, Flags, Current
  <2>2. LoadData(r, q, q.id) = q
    BY <2>1 DEF LoadData
  <2> DEFINE d == [q.data EXCEPT !.session = ToHash(q.values, q.file)]
  <2>3. a = Stored(q, d)
    BY <1>2, <2>2 DEF StoreValues, StoreSession
  <2>4. d.session = ToHash(q.values, q.file) /\ d.expires = q.data.expires
    BY DEF Good, Stash, IsData
  <2> HIDE DEF d
  <2>5. /\ DOMAIN a = Fields /\ a.loaded = TRUE /\ a.save = TRUE /\ a.data = d
        /\ \A f \in Fields \ {"loaded", "data", "save"} : a[f] = q[f]
    BY <2>3 DEF Stored, Good, Stash, Fields
  <2>6. q.loaded = TRUE
    <3>1. q.loaded
      BY <1>2, <2>1 DEF Good, Live, Ready, Settled, Basic, Emptied
    <3> QED BY <3>1
  <2> QED BY <1>2, <2>4, <2>5, <2>6 DEF Same
<1> QED BY <1>1, <1>2

LEMMA SavedLeaving ==
    ASSUME SessionInv, NEW r \in Requests, NEW q, Good(r, q), Touches(r), Ready(r, q),
           Grounds(q.client), Visited(q), Covered(q), NEW a, a = StoreValues(r, q)
    PROVE  Leaving(a)
<1>1. /\ Same(q, a, {"data", "save"}) /\ a.data.expires = q.data.expires
      /\ ~q.updated => a = q
      /\ q.updated => a.save /\ a.data.session = ToHash(q.values, q.file)
  BY StoreValuesSaved
<1>2. /\ a.file = q.file /\ a.id = q.id /\ a.client = q.client /\ a.deletedId = q.deletedId
      /\ a.values = q.values /\ a.updated = q.updated /\ a.extended = q.extended
  BY <1>1 DEF Same, Fields
<1> SUFFICES ASSUME NEW c, NEW h, Carried(c, q.client), Sends(q, h), h.setCookie => h.until \in Nat,
                    Given(c, q, h).sid # NoSid
             PROVE  Given(c, q, h).sid = q.file /\ Agrees(Given(c, q, h), a.data)
  BY <1>2 DEF Leaving, Sends, Given
<1> DEFINE g == Given(c, q, h)
<1>3. /\ g.sid = (IF h.setCookie THEN h.cookie ELSE c.sid)
      /\ g.until = (IF h.setCookie THEN h.until ELSE c.until)
      /\ g.value = (IF q.values # Null THEN q.values.value
                    ELSE IF q.deletedId THEN NoValue ELSE c.value)
      /\ g.peer = (IF q.values # Null THEN q.values.peer ELSE c.peer) /\ g.sid # NoSid
  BY DEF Given
<1> HIDE DEF g
<1>4. c.until = q.client.until /\ c.sid \in {q.client.sid, NoSid}
  BY DEF Carried
<1>5. CASE q.deletedId
  <2>1. g.sid = q.file
    BY <1>3, <1>4, <1>5 DEF Sends, Ready, Settled, Basic, Emptied
  <2>2. g.value = NoValue
    BY <1>3, <1>5 DEF Good, Live, Blank
  <2>3. q.data = NoData /\ (q.updated => q.values = Null)
    BY <1>5 DEF Good, Live, Ready, Settled, Basic, Emptied
  <2>4. a.data.expires = 0 /\ a.data.session.value \in {NoValue, None}
    BY <1>1, <2>3 DEF NoData, Null, Hash, ToHash
  <2> QED BY <2>1, <2>2, <2>4 DEF g, Agrees
<1>6. CASE ~q.deletedId /\ q.id = NoSid
  <2>1. q.file = NoSid
    BY <1>6 DEF Good, Live, Stash
  <2>2. q.client.sid # NoSid /\ ~h.setCookie
    BY <1>3, <1>4, <2>1 DEF Sends
  <2> QED BY <1>6, <2>2 DEF Visited, Ready, Settled, Basic, Flags
<1>7. CASE ~q.deletedId /\ q.id # NoSid
  <2>1. q.readAt # 0 /\ q.values # Null /\ q.triedExpires /\ q.loaded
    BY <1>7 DEF Visited, Ready, Settled, Basic, Flags, Current
  <2>2. q.file = q.id
    BY <1>7, <2>1 DEF Good, Live
  <2>3. g.value = q.values.value /\ g.peer = q.values.peer
    BY <1>3, <2>1
  <2>4. g.sid = q.file
    BY <1>3, <1>4, <1>7, <2>2 DEF Sends, Ready, Settled, Basic, Flags
  <2>5. q.client.sid # NoSid =>
            /\ FileOf(q.file).session # Null /\ q.client.until <= FileOf(q.file).expires
            /\ FileOf(q.file).session.value = q.client.value
    <3>1. SUFFICES ASSUME q.client.sid # NoSid
                   PROVE  /\ FileOf(q.file).session # Null /\ q.client.until <= FileOf(q.file).expires
                          /\ FileOf(q.file).session.value = q.client.value
      OBVIOUS
    <3>2. q.client.sid = q.file /\ FileOf(q.file).expires # 0
      BY <1>7, <2>1, <2>2, <3>1 DEF Ready, Settled, Basic, Flags, Current
    <3>3. Agrees(q.client, FileOf(q.file))
      BY <3>1, <3>2 DEF Grounds, KeptFor
    <3> QED BY <3>2, <3>3 DEF Agrees
  <2>6. /\ q.data.session = FileOf(q.file).session /\ q.data.expires >= FileOf(q.file).expires
        /\ FileOf(q.file).expires \in Nat /\ q.data.expires \in Nat
        /\ q.extended \in Nat \cup {NoTime} /\ q.client.until \in Nat
    <3>1. q.file \in Sids
      BY <1>7, <2>2 DEF Good, Stash, AnySid
    <3>2. FileOf(q.file).expires \in Nat
      BY <3>1, FileDates
    <3> QED BY <1>7, <2>1, <3>2 DEF Ready, Settled, Basic, Copied, Dates
  <2>7. g.until <= a.data.expires
    <3>1. CASE h.setCookie
      <4>1. h.until \in Nat /\ h.until <= q.extended
        BY <1>3, <3>1 DEF Sends
      <4>2. q.extended # NoTime
        BY <2>6, <4>1, Numbers DEF NoTime
      <4>3. q.extended <= q.data.expires
        BY <1>7, <4>2 DEF Covered
      <4> QED BY <1>1, <1>3, <2>6, <3>1, <4>1, <4>2, <4>3
    <3>2. CASE ~h.setCookie
      <4>1. q.client.sid # NoSid /\ g.until = q.client.until
        BY <1>3, <1>4, <3>2
      <4> QED BY <1>1, <2>5, <2>6, <4>1
    <3> QED BY <3>1, <3>2
  <2>8. a.data.session # Null /\ a.data.session = q.values
    <3>1. CASE q.updated
      BY <1>1, <2>1, <3>1 DEF ToHash
    <3>2. CASE ~q.updated
      <4>1. q.client.sid # NoSid
        BY <1>7, <3>2 DEF Ready, Settled, Basic, Flags
      <4>2. q.values = ToHash(q.data.session, q.id)
        BY <1>7, <2>1, <3>2 DEF Ready, Settled, Basic, Copied
      <4> QED BY <1>1, <2>5, <2>6, <3>2, <4>1, <4>2 DEF ToHash
    <3> QED BY <3>1, <3>2
  <2> QED BY <2>3, <2>4, <2>7, <2>8 DEF g, Agrees
<1> QED BY <1>5, <1>6, <1>7


LEMMA VisitedNot ==
    ASSUME SessionInv, NEW r \in Requests, NEW q, Good(r, q), Ready(r, q), Visited(q), ~q.triedExpires
    PROVE  q.client.sid = NoSid /\ q.id = NoSid /\ ~q.deletedId /\ q.file = NoSid
<1>1. q.readAt = 0 /\ ~q.save /\ ~q.updated
  BY DEF Ready, Settled, Basic, Flags
<1>2. ~q.deletedId
  BY <1>1 DEF Ready, Settled, Basic, Emptied
<1>3. q.client.sid = NoSid /\ q.id = NoSid
  BY <1>1, <1>2 DEF Visited, Ready, Settled, Basic, Flags
<1> QED BY <1>2, <1>3 DEF Good, Live, Stash

LEMMA SaveSessionReady ==
    ASSUME SessionInv, NEW r \in Requests, NEW q, Good(r, q), Touches(r), Grounds(q.client),
           Ready(r, q), Visited(q), NEW a, a = SaveSession(r, q)
    PROVE  /\ Good(r, a) /\ Keeps(q, a) /\ a.file = q.file /\ Leaving(a)
           /\ Reads(a) /\ Sends(a, a) /\ a.until \in Nat
           /\ a.data.expires \in Nat /\ a.data.expires <= Latest
           /\ a.file # NoSid /\ ~a.save => a.data = FileOf(a.file)
<1> DEFINE s == SaveExpires(r, q)
           e == Expires(r, s)
           t == SaveExpires(r, e)
<1>1. a = StoreValues(r, t)
  BY DEF SaveSession
<1>2. Good(r, a)
  BY SaveSessionGood
<1>3. Good(r, s) /\ Keeps(q, s) /\ Ready(r, s) /\ Same(q, s, Dated)
  BY SaveExpiresReady
<1> HIDE DEF s
<1>4. s.client = q.client /\ s.readAt = q.readAt /\ s.deletedId = q.deletedId /\ s.file = q.file
  BY <1>3 DEF Same, Dated, Fields
<1>5. Visited(s) /\ Grounds(s.client)
  BY <1>4 DEF Visited
<1>6. /\ Good(r, e) /\ Keeps(s, e) /\ Ready(r, e) /\ e.readAt = s.readAt
      /\ s.triedExpires => Same(s, e, {"setCookie", "cookie", "until", "extended"})
      /\ s.client.sid = NoSid /\ s.id = NoSid /\ ~s.deletedId => e.id = NoSid /\ ~e.deletedId
  BY <1>3, <1>5, ExpiresReady
<1> HIDE DEF e
<1>7. e.file = s.file /\ Visited(e) /\ e.client = s.client
  <2>1. CASE s.triedExpires
    <3>1. e.file = s.file /\ e.deletedId = s.deletedId
      BY <1>6, <2>1 DEF Same, Fields
    <3> QED BY <1>5, <1>6, <3>1 DEF Visited, Keeps
  <2>2. CASE ~s.triedExpires
    <3>1. s.client.sid = NoSid /\ s.id = NoSid /\ ~s.deletedId /\ s.file = NoSid
      BY <1>3, <1>5, <2>2, VisitedNot
    <3>2. e.id = NoSid /\ ~e.deletedId
      BY <1>6, <3>1
    <3>3. e.file = NoSid
      BY <1>6, <3>2 DEF Good, Live, Stash
    <3> QED BY <1>6, <3>1, <3>3 DEF Visited, Keeps
  <2> QED BY <2>1, <2>2
<1>8. /\ Good(r, t) /\ Keeps(e, t) /\ Ready(r, t) /\ Same(e, t, Dated)
      /\ e.triedExpires => Covered(t)
  BY <1>4, <1>6, <1>7, SaveExpiresReady
<1> HIDE DEF t
<1>9. /\ t.client = e.client /\ t.readAt = e.readAt /\ t.deletedId = e.deletedId /\ t.file = e.file
      /\ t.id = e.id
  BY <1>8 DEF Same, Dated, Fields
<1>10. Visited(t) /\ Grounds(t.client)
  BY <1>4, <1>7, <1>9 DEF Visited
<1>11. Covered(t)
  BY <1>6, <1>7, <1>8, <1>9, VisitedNot DEF Covered
<1>12. Leaving(a)
  BY <1>1, <1>8, <1>10, <1>11, SavedLeaving
<1>13. /\ Same(t, a, {"data", "save"}) /\ a.data.expires = t.data.expires
       /\ ~t.updated => a = t
       /\ t.updated => a.save
  BY <1>1, <1>8, StoreValuesSaved
<1>14. /\ a.file = t.file /\ a.client = t.client /\ a.peer = t.peer /\ a.thread = t.thread
       /\ a.extended = t.extended /\ a.setCookie = t.setCookie /\ a.cookie = t.cookie
       /\ a.until = t.until /\ a.read = t.read /\ a.readAt = t.readAt
  BY <1>13 DEF Same, Fields
<1>15. Keeps(q, a)
  <2>1. Keeps(q, e)
    BY <1>3, <1>4, <1>6, KeepsTrans
  <2>2. Keeps(q, t)
    BY <1>4, <1>7, <1>8, <2>1, KeepsTrans
  <2> QED BY <1>14, <2>2 DEF Keeps
<1>16. /\ Reads(a) /\ Sends(a, a) /\ a.until \in Nat
       /\ a.data.expires \in Nat /\ a.data.expires <= Latest
  BY <1>8, <1>13, <1>14 DEF Ready, Settled, Basic, Reads, Sends, Dates
<1>17. ASSUME a.file # NoSid, ~a.save PROVE a.data = FileOf(a.file)
  <2>1. a = t /\ t.loaded
    BY <1>8, <1>13, <1>17 DEF Good, Stash
  <2> QED BY <1>8, <1>17, <2>1 DEF Ready, Settled, Basic, Emptied, Copied
<1> QED BY <1>2, <1>4, <1>7, <1>9, <1>12, <1>14, <1>15, <1>16, <1>17

\* Every request looks at its session, before it deletes it too, and stores nothing in
\* place of one that it deleted.
Attentive == habits \cap {"storesLate", "deletesUnseen", "idles"} = {}

\* A call opens a file at most, which is new and empty or the session's own.
LEMMA FilesKept ==
    ASSUME SessionInv, NEW r \in Requests, Touches(r), NEW q, Good(r, q), Becomes(r, q)
    PROVE  /\ \A o \in Requests : req'[o] = IF o = r THEN q ELSE req[o]
           /\ \A s \in Sids : FileOf(s)' = FileOf(s)
           /\ q.file = req[r].file => UNCHANGED <<dir, conns>> /\ q.inode = req[r].inode
           /\ q.file # req[r].file => /\ req[r].file = NoSid /\ q.file \in Sids
                                      /\ conns' = Append(conns, r) /\ dir'[q.file] = q.inode
           /\ UNCHANGED <<now, client, content, alone>>
<1>1. /\ DOMAIN req = Requests /\ dir \in [Sids -> {NoFile} \cup Requests]
      /\ Stash(req[r]) /\ Stash(q) /\ req[r].pc = "active"
  BY DEF SessionInv, TypesInv, StashInv, Good, Touches
<1>2. req' = [req EXCEPT ![r] = q] /\ UNCHANGED <<now, client, content, alone>>
  BY DEF Becomes
<1>3. CASE q.file = req[r].file
  <2>1. UNCHANGED <<dir, conns>>
    BY <1>3 DEF Becomes
  <2>2. q.inode = req[r].inode
    BY <1>1, <1>3 DEF Good, Stash
  <2> QED BY <1>1, <1>2, <1>3, <2>1, <2>2 DEF FileOf
<1>4. CASE q.file # req[r].file
  <2>1. dir' = [dir EXCEPT ![q.file] = q.inode] /\ conns' = Append(conns, r)
    BY <1>4 DEF Becomes
  <2>2. /\ ~req[r].loaded /\ q.file # NoSid
        /\ q.inode = IF dir[q.file] = NoFile THEN r ELSE dir[q.file]
    BY <1>4 DEF Good
  <2>3. q.file \in Sids /\ req[r].file = NoSid /\ content[r] = NoData
    BY <1>1, <2>2 DEF Stash, AnySid, SessionInv, UnusedInv, Unused, Fresh
  <2>4. \A s \in Sids : dir'[s] = IF s = q.file THEN q.inode ELSE dir[s]
    BY <1>1, <2>1
  <2>5. \A s \in Sids : FileOf(s)' = FileOf(s)
    BY <1>2, <2>2, <2>3, <2>4, NoSids DEF FileOf
  <2> QED BY <1>1, <1>2, <1>4, <2>1, <2>3, <2>4, <2>5
<1> QED BY <1>3, <1>4

LEMMA ReadyLasts ==
    ASSUME SessionInv, NEW r \in Requests, NEW q, Good(r, q), Ready(r, q), now \in Nat, now' \in Nat,
           now <= now', \A s \in Sids : FileOf(s)' = FileOf(s),
           q.file # NoSid => q.inode = dir'[q.file] /\ dir'[q.file] # NoFile
    PROVE  Ready(r, q)'
<1>1. Lifetime \in Nat
  BY Numbers
<1>2. Latest \in Nat /\ Latest <= Latest'
  <2>1. PICK n \in Nat, m \in Nat : n = now /\ m = now'
    OBVIOUS
  <2>2. n <= m
    BY <2>1
  <2>3. n + 2 * Lifetime \in Nat /\ n + 2 * Lifetime <= m + 2 * Lifetime
    BY <1>1, <2>2
  <2> QED BY <2>1, <2>3 DEF Latest
<1>3. q.loaded /\ ~q.deletedId => q.file = q.id /\ q.file \in Sids /\ q.file # NoSid
  BY DEF Good, Live, Stash, AnySid
<1>4. Dates(q)'
  <2>1. /\ q.data.expires \in Nat /\ q.data.expires <= Latest
        /\ q.extended \in Nat \cup {NoTime} /\ q.extended <= Latest
        /\ q.readAt \in Nat /\ q.readAt <= now
    BY DEF Ready, Settled, Basic, Dates
  <2>2. NoTime \in Int /\ Latest' \in Nat
    BY <1>1, Numbers DEF Latest
  <2>3. q.data.expires <= Latest' /\ q.readAt <= now'
    BY <1>2, <2>1, <2>2
  <2>4. q.extended <= Latest'
    BY <1>2, <2>1, <2>2
  <2> QED BY <2>3, <2>4 DEF Ready, Settled, Basic, Dates
<1>5. Flags(q)' /\ Sends(q, q)' /\ Reads(q)' /\ (q.values # Null => q.readAt # 0)
  BY DEF Ready, Settled, Basic, Flags, Sends, Reads
<1>6. Emptied(q)'
  <2>1. q.client.until \in Nat
    BY DEF Ready, Settled, Basic, Dates
  <2> QED BY <2>1 DEF Ready, Settled, Basic, Emptied
<1>7. Copied(r, q)'
  BY <1>3 DEF Ready, Settled, Basic, Copied
<1>8. Current(q)'
  <2>1. q.id # NoSid => ~q.deletedId
    BY DEF Good, Live
  <2> QED BY <1>3, <2>1 DEF Ready, Settled, Current
<1> QED BY <1>4, <1>5, <1>6, <1>7, <1>8 DEF Ready, Settled, Basic

LEMMA SendsKept ==
    ASSUME NEW q, NEW a, Keeps(q, a), NEW h, Sends(q, h), h.until \in Nat, q.file # NoSid \/ a.file = q.file,
           q.extended \in Nat \cup {NoTime}
    PROVE  Sends(a, h)
<1> SUFFICES ASSUME h.setCookie, h.cookie # NoSid
             PROVE  h.cookie = a.file /\ h.until <= a.extended
  BY DEF Sends
<1>1. h.cookie = q.file /\ h.until <= q.extended /\ q.file # NoSid
  BY DEF Sends
<1>2. q.extended # NoTime
  BY <1>1 DEF NoTime
<1> QED BY <1>1, <1>2 DEF Keeps

\* What holds of a request that is served when no two are.
LEMMA AloneServed ==
    ASSUME KeptInv, alone, NEW r \in Requests, Touches(r)
    PROVE  /\ Served(r) /\ Ready(r, req[r]) /\ Grounds(req[r].client)
           /\ \A o \in Requests : o # r => Resting(o)
<1>1. ~Resting(r)
  BY DEF Resting, Touches
<1> QED BY <1>1 DEF KeptInv, Touches, Served, Grounds

LEMMA BecomesKept ==
    ASSUME SessionInv, KeptInv, alone, NEW r \in Requests, Touches(r), NEW q, Good(r, q), Ready(r, q),
           Keeps(req[r], q), Becomes(r, q),
           page'[r].head # None => Sends(q, page'[r].head) /\ page'[r].head.until \in Nat
    PROVE  KeptInv'
<1>1. /\ \A o \in Requests : req'[o] = IF o = r THEN q ELSE req[o]
      /\ \A s \in Sids : FileOf(s)' = FileOf(s)
      /\ q.file = req[r].file => UNCHANGED <<dir, conns>> /\ q.inode = req[r].inode
      /\ q.file # req[r].file => /\ req[r].file = NoSid /\ q.file \in Sids
                                 /\ conns' = Append(conns, r) /\ dir'[q.file] = q.inode
      /\ UNCHANGED <<now, client, content, alone>>
  BY FilesKept
<1>2. /\ Served(r) /\ Grounds(req[r].client)
      /\ \A o \in Requests : o # r => Resting(o)
  BY AloneServed
<1>3. \A o \in Requests : req'[o].pc = req[o].pc
  BY <1>1 DEF Good, Touches
<1>4. \A o \in Requests : o # r => Resting(o)'
  BY <1>2, <1>3 DEF Resting
<1>5. /\ now' \in Nat \ {0} /\ client'.until \in Nat
      /\ \A n \in Requests : content'[n].expires \in Nat /\ content'[n].expires <= Latest'
  BY <1>1 DEF KeptInv, Latest
<1>6. \A o, s \in Requests : /\ o = s \/ Resting(o)' \/ Resting(s)'
                             /\ o < s /\ req'[o].pc = "new" => req'[s].pc = "new"
  <2>1. \A o, s \in Requests : o = s \/ Resting(o)' \/ Resting(s)'
    BY <1>4
  <2>2. \A o, s \in Requests : o < s /\ req[o].pc = "new" => req[s].pc = "new"
    BY DEF KeptInv
  <2> QED BY <1>3, <2>1, <2>2
<1>7. \A o \in Requests : Reads(req[o])'
  <2>1. \A o \in Requests : Reads(req[o])
    BY DEF KeptInv
  <2> QED BY <1>1, <2>1 DEF Ready, Settled, Basic, Reads
<1>8. ~Resting(r)' /\ req'[r].pc = "active"
  BY <1>3 DEF Resting, Touches
<1>9. Stash(q) /\ q.file \in AnySid /\ (q.file # NoSid => q.inode # NoFile)
  BY NoSids DEF Good, Stash
<1>10. q.file # NoSid => dir'[q.file] = q.inode
  <2>1. CASE q.file = req[r].file
    BY <1>1, <1>2, <2>1 DEF Served
  <2>2. CASE q.file # req[r].file
    BY <1>1, <2>2
  <2> QED BY <2>1, <2>2
<1>11. Ready(r, q)'
  BY <1>1, <1>5, <1>9, <1>10, ReadyLasts DEF KeptInv
<1>12. conns' = IF q.file = NoSid THEN <<>> ELSE <<r>>
  <2>1. CASE q.file = req[r].file
    BY <1>1, <1>2, <2>1 DEF Served
  <2>2. CASE q.file # req[r].file
    <3>1. q.file # NoSid /\ conns = <<>> /\ conns' = Append(<<>>, r)
      BY <1>1, <1>2, <2>2 DEF Served
    <3> QED BY <3>1
  <2> QED BY <2>1, <2>2
<1>13. Served(r)'
  <2>1. q.client = req[r].client /\ req'[r] = q
    BY <1>1 DEF Good
  <2>2. Carried(client, q.client)'
    BY <1>1, <1>2, <2>1 DEF Served, Carried
  <2>3. KeptFor(q.client)'
    <3>1. q.client.sid \in AnySid /\ KeptFor(q.client)
      BY <1>2, <1>9, <2>1 DEF Stash, Served
    <3> QED BY <1>1, <3>1 DEF AnySid, KeptFor, Agrees
  <2>4. page'[r].head # None => Sends(req'[r], page'[r].head) /\ page'[r].head.until \in Nat
    BY <2>1
  <2> QED BY <1>10, <1>11, <1>12, <2>1, <2>2, <2>3, <2>4 DEF Served
<1> QED BY <1>4, <1>5, <1>6, <1>7, <1>8, <1>13 DEF KeptInv, Resting


LEMMA CallKept ==
    ASSUME SessionInv, KeptInv, Attentive, alone, NEW r \in Requests, Call(r), page' = page
    PROVE  KeptInv'
<1> DEFINE l == LoadSession(r, req[r])
<1>1. Touches(r) /\ NeverLate
  BY DEF Call, Value, SetValue, CallExpires, ChangeExpires, DeleteSession, Attentive, NeverLate
<1>2. Good(r, req[r])
  BY <1>1, GoodAtFirst
<1>3. Served(r) /\ Ready(r, req[r]) /\ Grounds(req[r].client)
  BY <1>1, AloneServed
<1>4. ASSUME NEW q, Good(r, q), Ready(r, q), Keeps(req[r], q), Becomes(r, q) PROVE KeptInv'
  <2>1. page[r].head # None => Sends(q, page[r].head) /\ page[r].head.until \in Nat
    <3>1. page[r].head # None => Sends(req[r], page[r].head) /\ page[r].head.until \in Nat
      BY <1>3 DEF Served
    <3>2. req[r].extended \in Nat \cup {NoTime}
      BY <1>3 DEF Ready, Settled, Basic, Dates
    <3> QED BY <1>4, <3>1, <3>2, SendsKept DEF Sends, Keeps
  <2> QED BY <1>1, <1>4, <2>1, BecomesKept
<1>5. Good(r, l) /\ Keeps(req[r], l) /\ Ready(r, l) /\ l.readAt # 0
  BY <1>1, <1>2, <1>3, LoadSessionReady
<1> HIDE DEF l
<1>6. CASE Value(r)
  BY <1>4, <1>5, <1>6 DEF Value, l
<1>7. ASSUME NEW v \in scenario.values, SetValue(r, v) PROVE KeptInv'
  <2> DEFINE a == StoreValue(r, l, v)
  <2>1. MayStore(l) /\ Becomes(r, a)
    BY <1>7 DEF SetValue, l
  <2>2. ~l.deletedId /\ (l.created < MaxSessions \/ l.values # Null)
    BY <1>1, <2>1, MayStoreGood
  <2>3. Grounds(l.client)
    BY <1>3, <1>5 DEF Keeps
  <2>4. Good(r, a) /\ Keeps(l, a) /\ Ready(r, a)
    BY <1>1, <1>5, <2>2, <2>3, StoreValueReady
  <2> HIDE DEF a
  <2>5. Keeps(req[r], a)
    BY <1>5, <2>4, KeepsTrans DEF Keeps
  <2> QED BY <1>4, <2>1, <2>4, <2>5
<1>8. CASE CallExpires(r)
  <2> DEFINE a == Expires(r, req[r])
  <2>1. Good(r, a) /\ Keeps(req[r], a) /\ Ready(r, a)
    BY <1>1, <1>2, <1>3, ExpiresReady
  <2>2. Becomes(r, a)
    BY <1>8 DEF CallExpires
  <2> HIDE DEF a
  <2> QED BY <1>4, <2>1, <2>2
<1>9. CASE ChangeExpires(r)
  <2> DEFINE a == StoreExpires(LoadData(r, req[r], req[r].id), Latest)
  <2>1. req[r].id # NoSid /\ req[r].readAt # 0 /\ Becomes(r, a)
    BY <1>9 DEF ChangeExpires, Latest
  <2>2. Latest \in Nat /\ Latest >= req[r].data.expires /\ req[r].triedExpires
    <3>1. Latest \in Nat
      BY <1>3, Numbers DEF Latest, Grounds
    <3> QED BY <1>3, <2>1, <3>1 DEF Ready, Settled, Basic, Dates, Flags
  <2>3. Good(r, a) /\ Keeps(req[r], a) /\ Ready(r, a)
    <3>1. Latest <= Latest
      BY <2>2
    <3> QED BY <1>1, <1>2, <1>3, <2>1, <2>2, <3>1, StoreExpiresReady
  <2> HIDE DEF a
  <2> QED BY <1>4, <2>1, <2>3
<1>10. CASE DeleteSession(r)
  <2> DEFINE a == DoDelete(r, req[r])
  <2>1. req[r].readAt # 0 /\ Becomes(r, a)
    BY <1>10 DEF DeleteSession, Attentive
  <2>2. /\ Basic(r, req[r]) /\ req[r].triedExpires
        /\ req[r].values # Null => req[r].loaded \/ req[r].id = NoSid
        /\ req[r].client.sid # NoSid => req[r].id # NoSid \/ req[r].deletedId
    BY <1>3, <2>1 DEF Ready, Settled, Basic, Flags, Current
  <2>3. Good(r, a) /\ Keeps(req[r], a) /\ Settled(r, a) /\ a.values = Null
    BY <1>1, <1>2, <1>3, <2>1, <2>2, DoDeleteBasic
  <2> HIDE DEF a
  <2> QED BY <1>4, <2>1, <2>3 DEF Ready
<1> QED BY <1>6, <1>7, <1>8, <1>9, <1>10 DEF Call

LEMMA PluginCallKept ==
    ASSUME OwnInv, KeptInv, Attentive, alone, NEW r \in Requests, PluginCall(r), ~UNCHANGED <<vars, page>>
    PROVE  KeptInv'
<1> DEFINE l == LoadSession(r, req[r])
<1>1. SessionInv /\ DOMAIN page = Requests /\ DOMAIN page[r] = DOMAIN NewPage /\ NeverLate
  BY DEF OwnInv, HeadInv, Page, Attentive, NeverLate
<1>2. Touches(r) /\ \E q, p : Reached(r, q) /\ Turned(r, q, p) /\ Leaves(r, q, p)
  BY <1>1, PluginSteps
<1>3. PICK q, p : Reached(r, q) /\ Turned(r, q, p) /\ Leaves(r, q, p)
  BY <1>2
<1>4. Good(r, req[r]) /\ Good(r, q)
  BY <1>1, <1>2, <1>3, GoodAtFirst, ReachedGood
<1>5. Served(r) /\ Ready(r, req[r]) /\ Grounds(req[r].client)
  BY <1>2, AloneServed
<1>6. Good(r, l) /\ Keeps(req[r], l) /\ Ready(r, l) /\ l.readAt # 0
  BY <1>1, <1>2, <1>4, <1>5, LoadSessionReady
<1> HIDE DEF l
<1>7. Drawn(r, q) => Keeps(l, q) /\ Ready(r, q)
  <2>1. CASE q = l
    BY <1>6, <2>1 DEF Keeps
  <2>2. ASSUME ~l.deletedId, l.created < MaxSessions \/ l.values # Null, NEW v, q = StoreValue(r, l, v)
        PROVE  Keeps(l, q) /\ Ready(r, q)
    <3>1. Grounds(l.client)
      BY <1>5, <1>6 DEF Keeps
    <3> QED BY <1>1, <1>2, <1>6, <2>2, <3>1, StoreValueReady
  <2> QED BY <2>1, <2>2 DEF Drawn, l
<1>8. Keeps(req[r], q) /\ Ready(r, q)
  <2>1. Drawn(r, q) => Keeps(req[r], q)
    BY <1>6, <1>7, KeepsTrans DEF Keeps
  <2> QED BY <1>3, <1>5, <1>7, <2>1 DEF Reached, Keeps
<1>9. /\ req[r].extended \in Nat \cup {NoTime} /\ req[r].until \in Nat /\ Sends(req[r], req[r])
      /\ l.extended \in Nat \cup {NoTime} /\ l.until \in Nat /\ Sends(l, l)
  BY <1>5, <1>6 DEF Ready, Settled, Basic, Dates
<1>10. ASSUME NEW h, Sends(req[r], h), h.until \in Nat PROVE Sends(q, h)
  BY <1>8, <1>9, <1>10, SendsKept DEF Sends, Keeps
<1>11. Drawn(r, q) => Sends(q, l)
  BY <1>7, <1>9, SendsKept DEF Sends, Keeps
<1>12. p.head # None => Sends(q, p.head) /\ p.head.until \in Nat
  <2>1. CASE p.head = page[r].head
    BY <1>5, <1>10, <2>1 DEF Served
  <2>2. CASE p.head = req[r]
    BY <1>9, <1>10, <2>2
  <2>3. CASE p.head = l /\ Drawn(r, q)
    BY <1>9, <1>11, <2>3
  <2> QED BY <1>3, <2>1, <2>2, <2>3 DEF Turned, l
<1>13. page'[r] = p /\ Becomes(r, q)
  BY <1>1, <1>3 DEF Leaves
<1> QED BY <1>1, <1>2, <1>4, <1>8, <1>12, <1>13, BecomesKept


\* The store writes what the request leaves: alone, its context is the only one that is
\* connected, if it has opened a file.
LEMMA EmitAlone ==
    ASSUME SessionInv, NEW r \in Requests, Touches(r), Served(r), NEW a, Good(r, a), a.file = req[r].file,
           a.thread = req[r].thread, a.file # NoSid /\ ~a.save => a.data = FileOf(a.file),
           NEW q, q = [a EXCEPT !.pc = "answered"], Emit(r, q, With(r, q))
    PROVE  /\ \A n \in Requests : content'[n] \in {content[n], a.data}
           /\ a.file # NoSid => FileOf(a.file)' = a.data
<1> DEFINE by(i)     == Handled(With(r, q), conns[i], r)
           saves     == {i \in DOMAIN conns : req[conns[i]].thread = q.thread /\ by(i).save}
           writes(n) == {i \in saves : by(i).data # NoData /\ by(i).inode = n}
<1>1. /\ dir' = [s \in Sids |->
                    IF \E i \in saves : by(i).data = NoData /\ by(i).file = s THEN NoFile
                    ELSE IF s = q.file /\ s # req[r].file THEN q.inode ELSE dir[s]]
      /\ content' = [n \in Requests |->
                        IF writes(n) = {} THEN content[n] ELSE by(Max(writes(n))).data]
  BY DEF Emit
<1>2. /\ DOMAIN q = Fields /\ \A f \in Fields \ {"pc"} : q[f] = a[f]
  BY DEF Good, Stash, Fields
<1>3. /\ q.file = a.file /\ q.inode = a.inode /\ q.data = a.data /\ q.thread = a.thread
      /\ q.save = a.save
  BY <1>2 DEF Fields
<1>4. conns = IF a.file = NoSid THEN <<>> ELSE <<r>>
  BY DEF Served
<1>5. With(r, q)[r] = q
  BY DEF With, SessionInv, TypesInv
<1>6. CASE a.file = NoSid
  <2>1. DOMAIN conns = {}
    BY <1>4, <1>6
  <2>2. \A n \in Requests : writes(n) = {}
    BY <2>1
  <2> QED BY <1>1, <1>6, <2>2
<1>7. CASE a.file # NoSid
  <2>1. DOMAIN conns = {1} /\ conns[1] = r
    BY <1>4, <1>7
  <2>2. by(1) = q
    BY <1>5, <2>1 DEF Handled
  <2>3. saves = IF a.save THEN {1} ELSE {}
    BY <1>3, <2>1, <2>2
  <2> HIDE DEF by, saves
  <2>4. a.file \in Sids /\ a.inode \in Requests /\ dir[a.file] = a.inode /\ a.inode # NoFile
    <3>1. a.inode = req[r].inode
      BY <1>7 DEF Good, SessionInv, StashInv, Stash
    <3> QED BY <1>7, <3>1, NoSids DEF Good, Stash, AnySid, Served
  <2>5. ASSUME NEW n \in Requests
        PROVE  content'[n] = IF a.save /\ a.data # NoData /\ a.inode = n THEN a.data ELSE content[n]
    <3>1. CASE a.save /\ a.data # NoData /\ a.inode = n
      <4>1. writes(n) = {1}
        BY <1>3, <2>2, <2>3, <3>1
      <4>2. Max({1}) = 1
        <5>1. Max({1}) \in {1}
          <6>1. {1} \subseteq 1 .. 1 /\ {1} # {} /\ 1 \in Nat
            OBVIOUS
          <6> QED BY <6>1, MaxIn
        <5> QED BY <5>1
      <4> QED BY <1>1, <1>3, <2>2, <3>1, <4>1, <4>2
    <3>2. CASE ~(a.save /\ a.data # NoData /\ a.inode = n)
      <4>1. writes(n) = {}
        BY <1>3, <2>2, <2>3, <3>2, ZenonT(40)
      <4> QED BY <1>1, <3>2, <4>1
    <3> QED BY <3>1, <3>2
  <2>6. dir'[a.file] = IF a.save /\ a.data = NoData THEN NoFile ELSE dir[a.file]
    <3>1. (\E i \in saves : by(i).data = NoData /\ by(i).file = a.file) <=> a.save /\ a.data = NoData
      BY <1>3, <2>2, <2>3
    <3> QED BY <1>1, <1>3, <2>4, <3>1
  <2>7. FileOf(a.file)' = a.data
    <3>1. CASE a.save
      BY <2>4, <2>5, <2>6, <3>1 DEF FileOf
    <3>2. CASE ~a.save
      BY <1>7, <2>4, <2>5, <2>6, <3>2 DEF FileOf
    <3> QED BY <3>1, <3>2
  <2> QED BY <2>5, <2>7
<1> QED BY <1>6, <1>7

\* What the client gets of an answer is in x as it was in q.
Alike(q, x) ==
    /\ x.setCookie = q.setCookie /\ x.cookie = q.cookie /\ x.until = q.until
    /\ x.values = q.values /\ x.deletedId = q.deletedId

\* What is left of the stash of a request that was answered.
LEMMA ForgetKept ==
    ASSUME NEW q, Stash(q), NEW a, a = Forget(q)
    PROVE  Reads(a) /\ a.pc = q.pc /\ (q.pc # "done" => Alike(q, a))
<1>1. DOMAIN NewRequest = Fields /\ NewRequest.readAt = 0
  BY DEF NewRequest, Fields
<1>2. CASE q.pc = "done"
  <2>1. a = [NewRequest EXCEPT !.pc = "done"]
    BY <1>2 DEF Forget
  <2> QED BY <1>1, <1>2, <2>1 DEF Fields, Reads, Alike
<1>3. CASE q.pc # "done"
  <2>1. a = [NewRequest EXCEPT !.pc = q.pc, !.setCookie = q.setCookie,
                 !.cookie = q.cookie, !.until = q.until, !.values = q.values,
                 !.deletedId = q.deletedId]
    BY <1>3 DEF Forget
  <2> QED BY <1>1, <2>1 DEF Fields, Reads, Alike
<1> QED BY <1>2, <1>3

LEMMA AfterDispatchKept ==
    ASSUME SessionInv, KeptInv, Attentive, alone, NEW r \in Requests, AfterDispatch(r), page' = page
    PROVE  KeptInv'
<1> PICK a : a = SaveSession(r, req[r])
  OBVIOUS
<1> PICK q : q = [a EXCEPT !.pc = "answered"]
  OBVIOUS
<1>1. /\ Touches(r) /\ Visited(req[r]) /\ UNCHANGED <<now, client, alone>>
      /\ Emit(r, q, With(r, q))
  BY DEF AfterDispatch, With, Attentive, Visited
<1>2. PICK x : req' = [req EXCEPT ![r] = x] /\ x \in {q, Forget(q)}
  BY DEF AfterDispatch
<1>3. Good(r, req[r])
  BY <1>1, GoodAtFirst
<1>4. /\ Served(r) /\ Ready(r, req[r]) /\ Grounds(req[r].client)
      /\ \A o \in Requests : o # r => Resting(o)
  BY <1>1, AloneServed
<1>5. /\ Good(r, a) /\ Keeps(req[r], a) /\ a.file = req[r].file /\ Leaving(a)
      /\ Reads(a) /\ Sends(a, a) /\ a.until \in Nat
      /\ a.data.expires \in Nat /\ a.data.expires <= Latest
      /\ a.file # NoSid /\ ~a.save => a.data = FileOf(a.file)
  BY <1>1, <1>3, <1>4, SaveSessionReady
<1>6. /\ \A n \in Requests : content'[n] \in {content[n], a.data}
      /\ a.file # NoSid => FileOf(a.file)' = a.data
  <2>1. a.thread = req[r].thread
    BY <1>5 DEF Keeps
  <2> QED BY <1>1, <1>4, <1>5, <2>1, EmitAlone
<1>7. DOMAIN q = Fields /\ q.pc = "answered" /\ \A f \in Fields \ {"pc"} : q[f] = a[f]
  BY <1>5 DEF Good, Stash, Fields
<1>8. Stash(q) /\ Reads(q) /\ Alike(a, q)
  BY <1>5, <1>7 DEF Good, Stash, Fields, Reads, Alike
<1>9. Reads(x) /\ x.pc = "answered" /\ Alike(a, x)
  <2>1. CASE x = q
    BY <1>7, <1>8, <2>1
  <2>2. CASE x = Forget(q)
    <3>1. Reads(x) /\ x.pc = q.pc /\ (q.pc # "done" => Alike(q, x))
      BY <1>8, <2>2, ForgetKept
    <3> QED BY <1>7, <1>8, <3>1 DEF Alike
  <2> QED BY <1>2, <2>1, <2>2
<1>10. \A o \in Requests : req'[o] = IF o = r THEN x ELSE req[o]
  BY <1>2 DEF SessionInv, TypesInv
<1>11. \A o \in Requests : o # r => Resting(o)'
  BY <1>4, <1>10 DEF Resting
<1>12. /\ now' \in Nat \ {0} /\ client'.until \in Nat
       /\ \A n \in Requests : content'[n].expires \in Nat /\ content'[n].expires <= Latest'
  BY <1>1, <1>5, <1>6 DEF KeptInv, Latest
<1>13. \A o, s \in Requests : /\ o = s \/ Resting(o)' \/ Resting(s)'
                              /\ o < s /\ req'[o].pc = "new" => req'[s].pc = "new"
  <2>1. \A o, s \in Requests : o = s \/ Resting(o)' \/ Resting(s)'
    BY <1>11
  <2>2. \A o, s \in Requests : o < s /\ req[o].pc = "new" => req[s].pc = "new"
    BY DEF KeptInv
  <2>3. ASSUME NEW o \in Requests, NEW s \in Requests, o < s, req'[o].pc = "new"
        PROVE  req'[s].pc = "new"
    <3>1. o # r /\ req[o].pc = "new"
      BY <1>9, <1>10, <2>3
    <3> QED BY <1>1, <1>9, <1>10, <2>2, <2>3, <3>1 DEF Touches
  <2> QED BY <2>1, <2>3
<1>14. \A o \in Requests : Reads(req[o])'
  <2>1. \A o \in Requests : Reads(req[o])
    BY DEF KeptInv
  <2> QED BY <1>9, <1>10, <2>1 DEF Reads
<1>15. ~Resting(r)'
  BY <1>9, <1>10 DEF Resting
<1>16. KeptFor(After(r))' /\ After(r)'.until \in Nat
  <2> PICK h : h = IF page[r].head = None THEN x ELSE page[r].head
    OBVIOUS
  <2> PICK g : g = Given(client, x, h)
    OBVIOUS
  <2>1. After(r)' = g
    BY <1>1, <1>10 DEF After, Answer
  <2>2. Sends(a, h) /\ (h.setCookie => h.until \in Nat)
    <3>1. CASE page[r].head = None
      <4>1. h = x
        BY <3>1
      <4> QED BY <1>5, <1>9, <4>1 DEF Sends, Alike
    <3>2. CASE page[r].head # None
      <4>1. h = page[r].head /\ Sends(req[r], h) /\ h.until \in Nat
        BY <1>4, <3>2 DEF Served
      <4>2. req[r].extended \in Nat \cup {NoTime}
        BY <1>4 DEF Ready, Settled, Basic, Dates
      <4> QED BY <1>5, <4>1, <4>2, SendsKept
    <3> QED BY <3>1, <3>2
  <2>3. g = Given(client, a, h)
    BY <1>9 DEF Given, Alike
  <2>4. Carried(client, a.client)
    BY <1>4, <1>5 DEF Served, Keeps
  <2>5. g.until \in Nat
    BY <1>1, <1>12, <2>2 DEF Given
  <2>6. g.sid # NoSid => g.sid = a.file /\ Agrees(g, a.data)
    BY <1>5, <2>2, <2>3, <2>4 DEF Leaving
  <2>7. g.sid # NoSid => Agrees(g, FileOf(a.file)') /\ g.sid = a.file
    BY <1>6, <2>6
  <2>8. KeptFor(g)'
    BY <2>7 DEF KeptFor, Agrees
  <2> QED BY <2>1, <2>5, <2>8 DEF KeptFor, Agrees
<1>17. \A o \in Requests : req'[o].pc \in {"active", "answered"} => o = r /\ req'[o].pc = "answered"
  BY <1>9, <1>10, <1>11 DEF Resting
<1> QED BY <1>12, <1>13, <1>14, <1>15, <1>16, <1>17 DEF KeptInv, Resting


LEMMA StartKept ==
    ASSUME OwnInv, KeptInv, alone', NEW r \in Requests, NEW t \in Threads, NEW p \in Peers,
           Start(r, t, p), Arrives(r)
    PROVE  KeptInv'
<1> PICK x : x = [NewRequest EXCEPT !.pc = "active", !.thread = t, !.peer = p, !.client = client,
                                    !.past = dead]
  OBVIOUS
<1>1. /\ req[r].pc = "new" /\ req' = [req EXCEPT ![r] = x]
      /\ UNCHANGED <<now, client, dir, content, conns>>
      /\ alone /\ conns = <<>> /\ \A o \in Requests : o < r => req[o].pc = "done"
  BY DEF Start
<1>2. /\ DOMAIN x = Fields /\ x.pc = "active" /\ x.client = client
      /\ x.values = Null /\ x.data = NoData /\ x.expires = NoTime /\ x.readAt = 0 /\ x.extended = NoTime
      /\ x.file = NoSid /\ x.cookie = NoSid /\ x.id = NoSid /\ x.until = 0
      /\ ~x.loaded /\ ~x.save /\ ~x.deletedId /\ ~x.updated /\ ~x.triedId /\ ~x.triedExpires
      /\ ~x.setCookie
  BY DEF NewRequest, Fields
<1>3. \A o \in Requests : req'[o] = IF o = r THEN x ELSE req[o]
  BY <1>1 DEF OwnInv, SessionInv, TypesInv
<1>4. page'[r].head = None
  <2>1. PICK c : page' = [page EXCEPT ![r] = [NewPage EXCEPT !.cookie = c]]
    BY DEF Arrives
  <2>2. [NewPage EXCEPT !.cookie = c].head = None
    BY DEF NewPage
  <2> QED BY <2>1, <2>2 DEF OwnInv, HeadInv
<1>5. \A o, s \in Requests : o < s /\ req[o].pc = "new" => req[s].pc = "new"
  BY <1>1 DEF KeptInv
<1>6. \A o \in Requests : Resting(o)
  <2> SUFFICES ASSUME NEW o \in Requests PROVE Resting(o)
    OBVIOUS
  <2>1. o < r \/ o = r \/ r < o
    BY DEF Requests
  <2> QED BY <1>1, <1>5, <2>1 DEF Resting
<1>7. /\ now \in Nat \ {0} /\ client.until \in Nat /\ KeptFor(client)
      /\ \A n \in Requests : content[n].expires \in Nat /\ content[n].expires <= Latest
  BY <1>1, <1>6 DEF KeptInv
<1>8. \A o \in Requests : o # r => Resting(o)'
  BY <1>3, <1>6 DEF Resting
<1>9. \A o, s \in Requests : o < s /\ req'[o].pc = "new" => req'[s].pc = "new"
  <2> SUFFICES ASSUME NEW o \in Requests, NEW s \in Requests, o < s, req'[o].pc = "new"
               PROVE  req'[s].pc = "new"
    OBVIOUS
  <2>1. o # r /\ req[o].pc = "new"
    BY <1>2, <1>3
  <2>2. s # r
    BY <1>1, <2>1
  <2> QED BY <1>3, <1>5, <2>1, <2>2
<1>10. \A o \in Requests : Reads(req[o])'
  <2>1. \A o \in Requests : Reads(req[o])
    BY <1>1 DEF KeptInv
  <2> QED BY <1>2, <1>3, <2>1 DEF Reads
<1>11. Ready(r, x)
  <2>1. /\ NoData.expires = 0 /\ Latest \in Nat /\ NoTime \in Int /\ NoTime <= Latest /\ 0 <= Latest
    <3>1. Latest \in Nat
      BY <1>7, Numbers DEF Latest, OwnInv
    <3> QED BY <3>1 DEF NoData, NoTime
  <2>2. Dates(x)
    BY <1>2, <1>7, <2>1 DEF Dates
  <2> QED BY <1>2, <2>2 DEF Ready, Settled, Basic, Flags, Emptied, Copied, Sends, Reads, Current
<1>12. Good(r, x)'
  <2>1. SessionInv'
    BY StartInv DEF OwnInv
  <2>2. Touches(r)' /\ req'[r] = x
    BY <1>2, <1>3 DEF Touches
  <2> QED BY <2>1, <2>2 DEF SessionInv, StashInv, Touches, Good
<1>13. Ready(r, x)'
  BY <1>1, <1>2, <1>11 DEF Ready, Settled, Basic, Dates, Flags, Emptied, Copied, Sends, Reads, Current, Latest
<1>14. Served(r)'
  <2>1. Carried(client, x.client)'
    BY <1>1, <1>2 DEF Carried
  <2>2. KeptFor(x.client)'
    BY <1>1, <1>2, <1>7 DEF KeptFor, Agrees, FileOf
  <2> QED BY <1>1, <1>2, <1>3, <1>4, <1>13, <2>1, <2>2 DEF Served
<1>15. req'[r].pc = "active"
  BY <1>2, <1>3
<1> QED BY <1>1, <1>7, <1>8, <1>9, <1>10, <1>14, <1>15 DEF KeptInv, Resting, Latest

LEMMA ContextDeletedKept ==
    ASSUME SessionInv, KeptInv, alone, NEW r \in Requests, ContextDeleted(r), page' = page
    PROVE  KeptInv'
<1> PICK x : x = Forget(req[r])
  OBVIOUS
<1>1. /\ req[r].pc \in {"answered", "done"} /\ req' = [req EXCEPT ![r] = x] /\ r \in Range(conns)
      /\ UNCHANGED <<now, client, dir, content, alone>>
  BY DEF ContextDeleted
<1>2. Reads(x) /\ x.pc = req[r].pc /\ (req[r].pc # "done" => Alike(req[r], x))
  BY ForgetKept DEF SessionInv, StashInv
<1>3. \A o \in Requests : req'[o] = IF o = r THEN x ELSE req[o]
  BY <1>1 DEF SessionInv, TypesInv
<1>4. \A o \in Requests : req'[o].pc = req[o].pc /\ (Resting(o)' <=> Resting(o))
  BY <1>2, <1>3 DEF Resting
<1>5. ASSUME NEW o \in Requests PROVE req[o].pc # "active"
  <2> SUFFICES ASSUME req[o].pc = "active" PROVE FALSE
    OBVIOUS
  <2>1. conns \in {<<>>, <<o>>}
    BY DEF KeptInv, Served
  <2>2. Range(conns) \subseteq {o}
    BY <2>1 DEF Range
  <2> QED BY <1>1, <2>2
<1>6. \A o \in Requests : Reads(req[o])'
  <2>1. \A o \in Requests : Reads(req[o])
    BY DEF KeptInv
  <2> QED BY <1>2, <1>3, <2>1 DEF Reads
<1>7. ASSUME NEW o \in Requests, req[o].pc = "answered" PROVE After(o)' = After(o)
  BY <1>1, <1>2, <1>3, <1>7 DEF After, Answer, Given, Alike
<1>8. \A c : KeptFor(c)' <=> KeptFor(c)
  BY <1>1 DEF KeptFor, Agrees, FileOf
<1>9. ASSUME NEW o \in Requests, req[o].pc = "answered" PROVE KeptFor(After(o))' /\ After(o)'.until \in Nat
  <2> PICK c : c = After(o)
    OBVIOUS
  <2>1. KeptFor(c) /\ c.until \in Nat
    BY <1>9 DEF KeptInv
  <2>2. KeptFor(c)' /\ After(o)' = c
    BY <1>7, <1>8, <1>9, <2>1
  <2> QED BY <2>1, <2>2 DEF KeptFor, Agrees
<1>10. /\ now' \in Nat \ {0} /\ client'.until \in Nat
       /\ \A n \in Requests : content'[n].expires \in Nat /\ content'[n].expires <= Latest'
       /\ \A o, s \in Requests : /\ o = s \/ Resting(o)' \/ Resting(s)'
                                 /\ o < s /\ req'[o].pc = "new" => req'[s].pc = "new"
       /\ (\A o \in Requests : Resting(o)') => KeptFor(client)'
  <2>1. (\A o \in Requests : Resting(o)) => KeptFor(client)'
    BY <1>1 DEF KeptInv, KeptFor, Agrees, FileOf
  <2> QED BY <1>1, <1>4, <2>1 DEF KeptInv, Latest
<1> QED BY <1>4, <1>5, <1>6, <1>9, <1>10 DEF KeptInv

LEMMA ClientAnsweredKept ==
    ASSUME SessionInv, KeptInv, alone, NEW r \in Requests, ClientAnswered(r)
    PROVE  KeptInv'
<1> PICK d : d = [req[r] EXCEPT !.pc = "done"]
  OBVIOUS
<1> PICK x : x = IF r \in Range(conns) THEN d ELSE Forget(d)
  OBVIOUS
<1>1. /\ req[r].pc = "answered" /\ req' = [req EXCEPT ![r] = x] /\ client' = After(r)
      /\ UNCHANGED <<now, dir, content, alone>>
  BY DEF ClientAnswered, AnsweredWith, After, Given, Answer
<1>2. Stash(req[r])
  BY DEF SessionInv, StashInv
<1>3. DOMAIN d = Fields /\ d.pc = "done" /\ \A f \in Fields \ {"pc"} : d[f] = req[r][f]
  BY <1>2 DEF Stash, Fields
<1>4. Stash(d) /\ Reads(d)
  <2>1. Reads(req[r])
    BY DEF KeptInv
  <2> QED BY <1>2, <1>3, <2>1 DEF Stash, Fields, Reads
<1>5. Reads(x) /\ x.pc = "done"
  BY <1>3, <1>4, ForgetKept
<1>6. \A o \in Requests : req'[o] = IF o = r THEN x ELSE req[o]
  BY <1>1 DEF SessionInv, TypesInv
<1>7. \A o \in Requests : o # r => Resting(o)
  BY <1>1 DEF KeptInv, Resting
<1>8. \A o \in Requests : Resting(o)' /\ Reads(req[o])'
  <2>1. \A o \in Requests : Reads(req[o])
    BY DEF KeptInv
  <2> QED BY <1>5, <1>6, <1>7, <2>1 DEF Resting, Reads
<1>9. KeptFor(client)' /\ client'.until \in Nat
  <2> PICK c : c = After(r)
    OBVIOUS
  <2>1. KeptFor(c) /\ c.until \in Nat
    BY <1>1 DEF KeptInv
  <2>2. KeptFor(c)'
    BY <1>1, <2>1 DEF KeptFor, Agrees, FileOf
  <2> QED BY <1>1, <2>1, <2>2 DEF KeptFor, Agrees
<1>10. \A o, s \in Requests : o < s /\ req'[o].pc = "new" => req'[s].pc = "new"
  <2>1. \A o, s \in Requests : o < s /\ req[o].pc = "new" => req[s].pc = "new"
    BY DEF KeptInv
  <2> QED BY <1>1, <1>5, <1>6, <2>1
<1> QED BY <1>1, <1>8, <1>9, <1>10 DEF KeptInv, Resting, Latest

\* The clock goes on, or the client drops its cookie.
LEMMA PassesKept ==
    ASSUME SessionInv, KeptInv, alone, UNCHANGED <<req, dir, content, conns, alone, page>>,
           now' \in {now, now + 1}, client' \in {client, [client EXCEPT !.sid = NoSid]}
    PROVE  KeptInv'
<1>1. /\ DOMAIN client' = {"sid", "until", "value", "peer"} /\ client'.sid \in {client.sid, NoSid}
      /\ client'.until = client.until /\ client'.value = client.value /\ client'.peer = client.peer
  BY DEF SessionInv, TypesInv
<1>2. /\ now \in Nat \ {0} /\ client.until \in Nat
      /\ \A n \in Requests : content[n].expires \in Nat /\ content[n].expires <= Latest
  BY DEF KeptInv
<1>3. now' \in Nat \ {0} /\ now <= now'
  BY <1>2
<1>4. \A n \in Requests : content'[n].expires \in Nat /\ content'[n].expires <= Latest'
  <2>1. PICK n \in Nat, m \in Nat : n = now /\ m = now'
    BY <1>2, <1>3
  <2>2. n <= m /\ Lifetime \in Nat
    BY <1>3, <2>1, Numbers
  <2>3. \A k \in Nat : k <= n + 2 * Lifetime => k <= m + 2 * Lifetime
    BY <2>2
  <2> QED BY <1>2, <2>1, <2>3 DEF Latest
<1>5. \A o \in Requests : (Resting(o)' <=> Resting(o)) /\ Reads(req[o])'
  BY DEF KeptInv, Resting, Reads
<1>6. (\A o \in Requests : Resting(o)') => KeptFor(client)'
  <2>1. SUFFICES ASSUME \A o \in Requests : Resting(o) PROVE KeptFor(client)'
    BY <1>5
  <2>2. KeptFor(client)
    BY <2>1 DEF KeptInv
  <2> QED BY <1>1, <2>2 DEF KeptFor, Agrees, FileOf
<1>7. ASSUME NEW o \in Requests, req[o].pc = "active" PROVE Served(o)'
  <2>1. Touches(o) /\ Good(o, req[o]) /\ Served(o)
    BY <1>7, GoodAtFirst DEF Touches, KeptInv
  <2> PICK q : q = req[o]
    OBVIOUS
  <2>2. Good(o, q) /\ Ready(o, q) /\ (q.file # NoSid => q.inode = dir[q.file] /\ q.inode # NoFile)
    BY <2>1, NoSids DEF Served, Good, Stash
  <2>3. Ready(o, q)'
    <3>1. \A s \in Sids : FileOf(s)' = FileOf(s)
      BY DEF FileOf
    <3>2. q.file # NoSid => q.inode = dir'[q.file] /\ dir'[q.file] # NoFile
      BY <2>2
    <3> QED BY <1>2, <1>3, <2>2, <3>1, <3>2, ReadyLasts
  <2>4. Carried(client, q.client)'
    BY <1>1, <2>1 DEF Served, Carried
  <2>5. KeptFor(q.client)'
    BY <2>1 DEF Served, KeptFor, Agrees, FileOf
  <2>6. page'[o].head # None => Sends(q, page'[o].head) /\ page'[o].head.until \in Nat
    BY <2>1 DEF Served
  <2> QED BY <2>1, <2>3, <2>4, <2>5, <2>6 DEF Served
<1>8. ASSUME NEW o \in Requests, req[o].pc = "answered" PROVE KeptFor(After(o))' /\ After(o)'.until \in Nat
  <2> PICK c, d : c = After(o) /\ d = After(o)'
    OBVIOUS
  <2>1. KeptFor(c) /\ c.until \in Nat
    BY <1>8 DEF KeptInv
  <2>2. d.sid \in {c.sid, NoSid} /\ d.until = c.until /\ d.value = c.value /\ d.peer = c.peer
    BY <1>1 DEF After, Given, Answer
  <2>3. KeptFor(d)'
    BY <2>1, <2>2 DEF KeptFor, Agrees, FileOf
  <2> QED BY <2>1, <2>2, <2>3 DEF KeptFor, Agrees
<1>9. \A o, s \in Requests : /\ o = s \/ Resting(o)' \/ Resting(s)'
                             /\ o < s /\ req'[o].pc = "new" => req'[s].pc = "new"
  BY <1>5 DEF KeptInv
<1> QED BY <1>1, <1>2, <1>3, <1>4, <1>5, <1>6, <1>7, <1>8, <1>9 DEF KeptInv


LEMMA KeptStep ==
    ASSUME OwnInv, KeptInv, Attentive, [ClientsNext]_<<vars, plugins>>
    PROVE  KeptInv'
<1>1. SessionInv
  BY DEF OwnInv
<1>2. SUFFICES ASSUME alone' PROVE KeptInv'
  BY DEF KeptInv
<1>3. ASSUME alone, UNCHANGED <<req, dir, content, conns, alone, page>>,
             now' \in {now, now + 1}, client' \in {client, [client EXCEPT !.sid = NoSid]}
      PROVE  KeptInv'
  BY <1>1, <1>3, PassesKept
<1>4. CASE UNCHANGED <<vars, page>>
  BY <1>2, <1>3, <1>4 DEF vars
<1>5. ASSUME NEW r \in Requests, (\E t \in Threads, p \in Peers : Start(r, t, p)) /\ Arrives(r)
      PROVE  KeptInv'
  BY <1>2, <1>5, StartKept
<1>6. ASSUME NEW r \in Requests, PluginCall(r) PROVE KeptInv'
  <2>1. alone' = alone
    <3>1. NeverLate /\ DOMAIN page[r] = DOMAIN NewPage
      BY DEF Attentive, NeverLate, OwnInv, HeadInv, Page
    <3>2. (\E q, p : Leaves(r, q, p)) \/ UNCHANGED <<vars, page>>
      BY <1>1, <1>6, <3>1, PluginSteps
    <3> QED BY <3>2 DEF Leaves, Becomes, vars
  <2> QED BY <1>2, <1>4, <1>6, <2>1, PluginCallKept
<1>7. ASSUME NEW r \in Requests, ClientAnswered(r) PROVE KeptInv'
  <2>1. alone' = alone
    BY <1>7 DEF ClientAnswered, AnsweredWith
  <2> QED BY <1>1, <1>2, <1>7, <2>1, ClientAnsweredKept
<1>8. ASSUME NEW r \in Requests, (Call(r) \/ AfterDispatch(r) \/ ContextDeleted(r)) /\ UNCHANGED plugins
      PROVE  KeptInv'
  <2>1. page' = page
    BY <1>8 DEF plugins
  <2>2. alone' = alone
    BY <1>8 DEF Call, Value, SetValue, CallExpires, ChangeExpires, DeleteSession, Becomes,
                AfterDispatch, ContextDeleted
  <2> QED BY <1>1, <1>2, <1>8, <2>1, <2>2, CallKept, AfterDispatchKept, ContextDeletedKept
<1>9. CASE FormCookieExpires
  BY <1>4, <1>9 DEF FormCookieExpires
<1>10. CASE CookieExpires /\ UNCHANGED plugins
  BY <1>2, <1>3, <1>10 DEF CookieExpires, plugins
<1>11. CASE (Tick \/ Over) /\ UNCHANGED plugins
  BY <1>2, <1>3, <1>11 DEF Tick, Over, vars, plugins
<1>12. CASE UNCHANGED <<vars, plugins>>
  BY <1>4, <1>12 DEF plugins
<1> QED BY <1>5, <1>6, <1>7, <1>8, <1>9, <1>10, <1>11, <1>12 DEF ClientsNext

LEMMA KeptFirst ==
    ASSUME ClientsInit
    PROVE  KeptInv
<1> DEFINE old == "returns" \in habits
           sid == <<1, 1>>
           until == 1 + Lifetime
           first == NewRequest.client
<1>1. PICK v \in IF old THEN scenario.values \ {NoValue} ELSE {NoValue} :
          /\ client = IF old THEN [sid |-> sid, until |-> until, value |-> v, peer |-> Home] ELSE first
          /\ req = [r \in Requests |-> [NewRequest EXCEPT !.pc = IF old /\ r = 1 THEN "done" ELSE "new"]]
          /\ dir = [s \in Sids |-> IF old /\ s = sid THEN 1 ELSE NoFile]
          /\ content = [r \in Requests |-> IF old /\ r = 1
                            THEN [session |-> Hash(v, Home, sid), expires |-> until] ELSE NoData]
  BY DEF ClientsInit, Init
<1>2. sid \in Sids /\ 1 \in Requests /\ Lifetime \in Nat /\ now = 1 /\ scenario \in Scenarios
  BY SessionConstants DEF Sids, Requests, ClientsInit, Init
<1>3. /\ first.sid = NoSid /\ first.until = 0
      /\ DOMAIN NewRequest = Fields /\ NewRequest.readAt = 0
  BY DEF NewRequest, Fields
<1>4. until \in Nat /\ Latest \in Nat /\ until <= Latest
  BY <1>2 DEF Latest
<1> HIDE DEF old, until, first
<1>5. client.until \in Nat
  BY <1>1, <1>3, <1>4
<1>6. ASSUME NEW n \in Requests PROVE content[n].expires \in Nat /\ content[n].expires <= Latest
  <2>1. content[n].expires \in {until, 0}
    BY <1>1 DEF NoData
  <2> QED BY <1>4, <2>1
<1>7. ASSUME NEW r \in Requests
      PROVE  req[r].readAt = 0 /\ req[r].pc = IF old /\ r = 1 THEN "done" ELSE "new"
  <2>1. req[r] = [NewRequest EXCEPT !.pc = IF old /\ r = 1 THEN "done" ELSE "new"]
    BY <1>1
  <2> QED BY <1>3, <2>1 DEF Fields
<1>8. KeptFor(client)
  <2>1. CASE old
    <3>1. v # None
      BY <1>1, <1>2, <2>1, SessionConstants
    <3>2. /\ client.sid = sid /\ client.value = v /\ client.peer = Home /\ client.until = until
      BY <1>1, <2>1
    <3>3. dir[sid] = 1 /\ 1 # NoFile
      BY <1>1, <1>2, <2>1 DEF NoFile
    <3>4. FileOf(sid) = [session |-> Hash(v, Home, sid), expires |-> until]
      BY <1>1, <1>2, <2>1, <3>3 DEF FileOf
    <3> HIDE DEF sid
    <3>5. /\ FileOf(sid).session.value = v /\ FileOf(sid).session.peer = Home
          /\ FileOf(sid).expires = until
      BY <3>4 DEF Hash
    <3>6. FileOf(sid).session # Null
      BY <3>1, <3>5 DEF Null, Hash
    <3>7. client.until <= FileOf(sid).expires
      BY <1>4, <3>2, <3>5
    <3> QED BY <3>2, <3>5, <3>6, <3>7 DEF KeptFor, Agrees
  <2>2. CASE ~old
    BY <1>1, <1>3, <2>2 DEF first, KeptFor
  <2> QED BY <2>1, <2>2
<1>9. \A r \in Requests : Resting(r) /\ Reads(req[r])
  BY <1>7 DEF Resting, Reads
<1>10. ASSUME NEW r \in Requests, NEW s \in Requests, r < s, req[r].pc = "new" PROVE req[s].pc = "new"
  <2>1. s # 1
    BY <1>10 DEF Requests
  <2> QED BY <1>7, <2>1
<1> QED BY <1>2, <1>5, <1>6, <1>8, <1>9, <1>10 DEF KeptInv, Resting

\* A client whose requests do not overlap reads in its session what its last request left
\* there, until its cookie expires, whatever the calls of a request are, on all threads,
\* and whichever of them extend, delete or move the session.
THEOREM KeptUntilRead == ClientsSpec => [](Attentive => StoredIsKept)
<1> DEFINE Inv == Attentive => OwnInv /\ KeptInv
<1>1. ClientsInit => Inv
  BY FirstInv, KeptFirst
<1>2. Inv /\ [ClientsNext]_<<vars, plugins>> => Inv'
  <2> SUFFICES ASSUME Inv, [ClientsNext]_<<vars, plugins>>, Attentive'
               PROVE  OwnInv' /\ KeptInv'
    OBVIOUS
  <2>1. Attentive
    BY ScenarioKept DEF Attentive, habits
  <2>2. NeverLate
    BY <2>1 DEF Attentive, NeverLate
  <2> QED BY <2>1, <2>2, StepInv, KeptStep
<1>3. Inv => (Attentive => StoredIsKept)
  BY DEF KeptInv, Reads, StoredIsKept
<1> QED BY <1>1, <1>2, <1>3, PTL DEF ClientsSpec

----------------------------------------------------------------------------
(* The invariant behind the properties of the plugins.                      *)

\* The application looks at its sessions, and stores nothing in them but by the plugins.
ByPlugins == Attentive /\ scenario.values = {}
\* All actions are protected, and the client returns the cookies that it was given.
Protective == habits \cap {"ignores", "mangles"} = {}

\* What a value of a session stands for, and what a request finds in its session.
Meant(v) == IF v \in {NoValue, None} THEN Bare ELSE v
Finds(q) ==
    IF q.readAt # 0 THEN Meant(q.values.value)
    ELSE IF q.client.sid = NoSid THEN Bare ELSE Meant(q.client.value)
\* Only a request without a session can delete it and lose none.
Lost(q) == q.deletedId /\ q.gone = {} => q.client.sid = NoSid

\* The forms made with a secret are those that belong to the session, and it was made by
\* a request that had come to its dispatch.
Made(s) == s # None => /\ s \in Requests /\ req[s].pc # "new"
                       /\ req[s].pc = "active" => page[s].dispatched
Suits(s) == Made(s) /\ \A f \in Requests : f \in valid <=> forms[f] # None /\ forms[f] = s
\* A session holds what it should.
Fits(c) ==
    /\ c \in Contents /\ (c.user # None => c.realm \in Realms)
    /\ login = IF c.user = None THEN None ELSE <<c.user, c.realm>>
    /\ untold = c.messages
    /\ Protective /\ InSession => Suits(c.secret)

\* What a request was told is true.
True(p) ==
    /\ SameUser(p.seen, p.loggedIn) /\ p.shown = p.owed
    /\ Protective /\ p.check # "none" => (p.check = "accepted") = p.ours
\* What the plugins rely on in a request that is served, and what its answer must carry.
Attends(r) ==
    LET q == req[r]  p == page[r] IN
    /\ Lost(q) /\ Fits(Finds(q)) /\ True(p)
    /\ p.user # None => SameUser(p.user, login)
    /\ Protective /\ p.dispatched => p.secret # None
    /\ Protective /\ InSession /\ p.dispatched => p.secret = Finds(q).secret
    /\ Protective /\ ~InSession =>
           /\ cookie.secret \in {None, p.cookie.secret} /\ p.cookie.secret \in Secrets
           /\ IF p.dispatched THEN Suits(p.secret) ELSE Suits(p.cookie.secret)
           /\ p.dispatched /\ p.cookie.secret # None => p.secret = p.cookie.secret
           /\ p.setCookie => p.dispatched
Delivers(r) ==
    LET s == IF page[r].setCookie THEN page[r].secret ELSE cookie.secret IN
    /\ After(r).sid # NoSid => Fits(Meant(After(r).value))
    /\ True(page[r])
    /\ Protective /\ ~InSession => s \in Secrets /\ (s # None => Suits(s))

\* What the plugins keep of a request that is not served, and what it took away.
RestInv ==
    /\ DOMAIN forms = Requests /\ valid \subseteq Requests
    /\ \A r \in Requests : /\ req[r].pc \in {"new", "active", "answered", "done"}
                           /\ Resting(r) => page[r] = NewPage
                           /\ req[r].pc # "active" => req[r].gone \subseteq dead

\* Whoever serves a client alone has its session, and the client has what the last answer
\* left: this holds what it should, as long as no session was lost.
PluginInv ==
    alone /\ dead = {} =>
        /\ Protective /\ (\A r \in Requests : req[r].pc = "active" => req[r].gone = {})
              => \A f \in Requests : Made(forms[f])
        /\ \A r \in Requests :
              /\ req[r].pc = "active" /\ req[r].gone = {} => Attends(r)
              /\ req[r].pc = "answered" => Delivers(r)
        /\ (\A r \in Requests : Resting(r)) =>
              /\ client.sid # NoSid => Fits(Meant(client.value))
              /\ Protective /\ ~InSession => /\ cookie.secret \in Secrets
                                             /\ cookie.secret # None => Suits(cookie.secret)

\* What a call of a request takes away: a goes on from q.
Loses(q, a) ==
    /\ q.gone \subseteq a.gone /\ a.client = q.client /\ a.updated = q.updated
    /\ (q.deletedId => a.deletedId) /\ (Lost(q) => Lost(a))

LEMMA LosesTrans ==
    ASSUME NEW q, NEW a, NEW b, Loses(q, a), Loses(a, b)
    PROVE  Loses(q, b)
BY DEF Loses

LEMMA SameLoses ==
    ASSUME NEW q, NEW a, NEW changed, Same(q, a, changed),
           changed \cap {"gone", "client", "updated", "deletedId"} = {}
    PROVE  Loses(q, a)
<1>1. a.gone = q.gone /\ a.client = q.client /\ a.updated = q.updated /\ a.deletedId = q.deletedId
  BY DEF Same, Fields
<1> QED BY <1>1 DEF Loses, Lost

LEMMA DoDeleteLoses ==
    ASSUME SessionInv, NEW r \in Requests, NEW q, Good(r, q), Touches(r), NEW a, a = DoDelete(r, q)
    PROVE  /\ Loses(q, a) /\ a.values = Null /\ a.deletedId
           /\ a.gone = {} => q.client.sid = NoSid /\ q.id = NoSid
<1> DEFINE l == LoadData(r, q, q.id)
<1>1. Good(r, l) /\ Same(q, l, {"loaded", "data", "file", "inode"})
  BY LoadDataGood
<1>2. a = Reset(SetCookie(Stored(l, NoData), NoSid, now))
  BY DEF DoDelete
<1> HIDE DEF l
<1>3. /\ a.deletedId = TRUE /\ a.gone = l.gone \cup Own(l) /\ a.client = l.client
      /\ a.updated = l.updated /\ a.values = Null
  BY <1>1, <1>2 DEF Reset, SetCookie, Stored, Same, Fields, Own
<1>4. /\ l.gone = q.gone /\ l.client = q.client /\ l.updated = q.updated /\ l.deletedId = q.deletedId
      /\ l.id = q.id
  BY <1>1 DEF Same, Fields
<1>5. a.gone = {} => q.client.sid = NoSid /\ q.id = NoSid
  BY <1>3, <1>4 DEF Own
<1> QED BY <1>3, <1>4, <1>5 DEF Loses, Lost

LEMMA LoadExpiresLoses ==
    ASSUME SessionInv, NEW r \in Requests, NEW q, Good(r, q), Touches(r), NEW a, a = LoadExpires(r, q)
    PROVE  Loses(q, a)
<1>1. CASE q.triedExpires
  BY <1>1 DEF LoadExpires, Loses
<1>2. CASE ~q.triedExpires
  <2> DEFINE t == [q EXCEPT !.triedExpires = TRUE]
             l == LoadData(r, t, q.id)
  <2>1. DOMAIN t = Fields /\ \A f \in Fields \ {"triedExpires"} : t[f] = q[f]
    BY DEF Good, Stash, Fields
  <2>2. a = CheckExpires(r, l) /\ l = LoadData(r, t, t.id)
    BY <1>2, <2>1 DEF LoadExpires, Fields
  <2> HIDE DEF t, l
  <2>3. Good(r, t)
    BY <2>1 DEF Good, Stash, Live, Fields
  <2>4. Good(r, l) /\ Same(t, l, {"loaded", "data", "file", "inode"})
    BY <2>2, <2>3, LoadDataGood
  <2>5. Loses(q, l)
    <3>1. Same(q, l, {"triedExpires", "loaded", "data", "file", "inode"})
      BY <2>1, <2>4 DEF Same
    <3> QED BY <3>1, SameLoses
  <2>6. Loses(l, a)
    <3>1. CASE l.id # NoSid /\ ~(l.data.expires >= now)
      <4>1. a = DoDelete(r, l)
        BY <2>2, <3>1 DEF CheckExpires
      <4> QED BY <2>4, <4>1, DoDeleteLoses
    <3>2. CASE l.id # NoSid /\ l.data.expires >= now
      <4>1. a = [l EXCEPT !.expires = l.data.expires]
        BY <2>2, <3>2 DEF CheckExpires
      <4>2. Same(l, a, {"expires"})
        BY <2>4, <4>1 DEF Good, Stash, Same, Fields
      <4> QED BY <4>2, SameLoses
    <3>3. CASE l.id = NoSid
      BY <2>2, <3>3 DEF CheckExpires, Loses
    <3> QED BY <3>1, <3>2, <3>3
  <2> QED BY <2>5, <2>6, LosesTrans
<1> QED BY <1>1, <1>2

LEMMA FindSessionLoses ==
    ASSUME SessionInv, NEW r \in Requests, NEW q, Good(r, q), Touches(r), Grounds(q.client),
           Ready(r, q), q.triedId, q.values = Null, NEW a, a = FindSession(r, q)
    PROVE  Loses(q, a)
<1> DEFINE e == LoadExpires(r, q)
           l == LoadData(r, e, q.id)
<1>1. /\ Good(r, e) /\ Ready(r, e) /\ e.triedExpires
      /\ \/ e.deletedId /\ e.values = Null /\ e.id = NoSid /\ ~q.triedExpires
         \/ Same(q, e, {"loaded", "data", "file", "inode", "expires", "triedExpires"})
  BY LoadExpiresSettled
<1>2. Loses(q, e)
  BY LoadExpiresLoses
<1>3. FindSession(r, q) = IF ReturnsExpires(q) /\ q.id # NoSid THEN Restore(r, l) ELSE e
  BY DEF FindSession
<1> HIDE DEF e
<1>4. CASE ReturnsExpires(q) /\ q.id # NoSid
  <2>1. e.loaded
    <3>1. Same(q, e, {"loaded", "data", "file", "inode", "expires", "triedExpires"}) => e.id = q.id
      BY DEF Same, Fields
    <3> QED BY <1>1, <1>4, <3>1 DEF Ready, Settled, Basic, Emptied, Current
  <2>2. l = e
    BY <2>1 DEF LoadData
  <2> HIDE DEF l
  <2>3. a = Restore(r, e)
    BY <1>3, <1>4, <2>2
  <2>4. Loses(e, a)
    <3>1. CASE e.data.session.peer \in {NoPeer, e.peer}
      <4>1. a = [e EXCEPT !.values = ToHash(e.data.session, e.id)]
        BY <2>3, <3>1 DEF Restore
      <4>2. Same(e, a, {"values"})
        BY <1>1, <4>1 DEF Good, Stash, Same, Fields
      <4> QED BY <4>2, SameLoses
    <3>2. CASE ~(e.data.session.peer \in {NoPeer, e.peer})
      BY <1>1, <2>3, <3>2, DoDeleteLoses DEF Restore
    <3> QED BY <3>1, <3>2
  <2> QED BY <1>2, <2>4, LosesTrans
<1>5. CASE ~(ReturnsExpires(q) /\ q.id # NoSid)
  BY <1>2, <1>3, <1>5
<1> QED BY <1>4, <1>5

LEMMA LoadSessionLoses ==
    ASSUME SessionInv, NEW r \in Requests, NEW q, Good(r, q), Touches(r), Grounds(q.client),
           Ready(r, q), NEW a, a = LoadSession(r, q)
    PROVE  Loses(q, a) /\ a.triedId
<1>1. CASE q.values # Null
  BY <1>1 DEF LoadSession, Loses, Ready, Settled, Basic, Flags
<1>2. CASE q.values = Null
  <2> DEFINE i == LoadId(q)
             f == FindSession(r, i)
  <2>1. Good(r, i) /\ Same(q, i, {"triedId", "id"}) /\ Ready(r, i) /\ i.triedId
    BY LoadIdReady
  <2>2. i.values = Null /\ i.client = q.client
    BY <1>2, <2>1 DEF Same, Fields
  <2>3. a = Seen(f)
    BY <1>2 DEF LoadSession
  <2> HIDE DEF i
  <2>4. Good(r, f) /\ f.triedId /\ Loses(i, f)
    BY <2>1, <2>2, FindSessionSettled, FindSessionLoses
  <2> HIDE DEF f
  <2>5. Same(f, a, {"read", "readAt"})
    BY <2>3, <2>4 DEF Seen, Good, Stash, Same, Fields
  <2>6. Loses(q, i) /\ Loses(f, a)
    BY <2>1, <2>5, SameLoses
  <2>7. a.triedId
    BY <2>4, <2>5 DEF Same, Fields
  <2> QED BY <2>4, <2>6, <2>7, LosesTrans
<1> QED BY <1>1, <1>2

LEMMA ExpiresLoses ==
    ASSUME SessionInv, NEW r \in Requests, NEW q, Good(r, q), Touches(r), Grounds(q.client),
           Ready(r, q), NEW a, a = Expires(r, q)
    PROVE  Loses(q, a)
<1>1. CASE q.extended # NoTime
  BY <1>1 DEF Expires, Loses
<1>2. CASE q.extended = NoTime
  <2> DEFINE i == LoadId(q)
             e == LoadExpires(r, i)
  <2>1. Good(r, i) /\ Same(q, i, {"triedId", "id"}) /\ Ready(r, i) /\ i.triedId
    BY LoadIdReady
  <2>2. a = IF ReturnsExpires(i) THEN Extend(r, e) ELSE e
    BY <1>2 DEF Expires, ExpiresOf
  <2> HIDE DEF i
  <2>3. i.client = q.client
    BY <2>1 DEF Same, Fields
  <2>4. Good(r, e) /\ Ready(r, e) /\ e.triedExpires /\ Loses(i, e)
    BY <2>1, <2>3, LoadExpiresSettled, LoadExpiresLoses
  <2> HIDE DEF e
  <2>5. Loses(q, i)
    BY <2>1, SameLoses
  <2>6. Loses(e, a)
    <3>1. CASE a = e
      BY <3>1 DEF Loses
    <3>2. CASE a = Extend(r, e) /\ e.id = NoSid
      BY <3>2 DEF Extend, Loses
    <3>3. CASE a = Extend(r, e) /\ e.id # NoSid
      <4>1. e.loaded
        BY <2>4, <3>3 DEF Ready, Settled, Current
      <4>2. a = ExtendLoaded(e)
        BY <3>3, <4>1 DEF Extend, LoadData
      <4>3. Same(e, a, Cookies)
        BY <2>4, <4>2 DEF ExtendLoaded, SetCookie, Same, Good, Stash, Fields, Cookies
      <4> QED BY <4>3, SameLoses DEF Cookies
    <3> QED BY <2>2, <3>1, <3>2, <3>3
  <2> QED BY <2>4, <2>5, <2>6, LosesTrans
<1> QED BY <1>1, <1>2

LEMMA Meaningless == Meant(Null.value) = Bare /\ Meant(NoValue) = Bare
BY DEF Meant, Null, Hash

\* A request that has looked and has no values has no session.
LEMMA NothingThere ==
    ASSUME NEW r, NEW q, Good(r, q), Ready(r, q), Lost(q), q.gone = {}, q.values = Null, q.readAt # 0
    PROVE  q.client.sid = NoSid /\ q.id = NoSid
<1>1. q.id = NoSid /\ q.triedId
  BY DEF Ready, Settled, Basic, Flags
<1>2. q.client.sid = NoSid \/ q.deletedId
  BY <1>1 DEF Ready, Settled, Basic, Flags
<1> QED BY <1>1, <1>2 DEF Lost

\* What a request finds in its session does not depend on whether it has looked.
LEMMA FindsLoaded ==
    ASSUME SessionInv, NEW r \in Requests, NEW q, Good(r, q), Touches(r), Grounds(q.client),
           Ready(r, q), Lost(q), NEW a, a = LoadSession(r, q), a.gone = {}
    PROVE  Finds(a) = Finds(q) /\ Held(a) = Finds(q) /\ q.gone = {}
<1>1. Good(r, a) /\ Keeps(q, a) /\ Ready(r, a) /\ a.readAt # 0
  BY LoadSessionReady
<1>2. Loses(q, a) /\ a.triedId
  BY LoadSessionLoses
<1>3. q.gone = {} /\ a.client = q.client /\ a.updated = q.updated /\ Lost(a)
  BY <1>2 DEF Loses
<1>4. Finds(a) = Held(a) /\ Held(a) = Meant(a.values.value)
  BY <1>1 DEF Finds, Held, Meant
<1>5. CASE q.values # Null
  <2>1. a = q
    BY <1>5 DEF LoadSession
  <2> QED BY <1>3, <1>4, <2>1
<1>6. CASE q.values = Null
  <2>1. ~a.deletedId => ~a.updated
    BY <1>2, <1>3, <1>6 DEF Good, Live, Loses
  <2>2. CASE q.client.sid = NoSid
    <3>1. Finds(q) = Bare
      BY <1>6, <2>2, Meaningless DEF Finds
    <3>2. CASE a.deletedId
      <4>1. Blank(a.values)
        BY <1>1, <3>2 DEF Good, Live
      <4>2. Meant(a.values.value) = Bare
        BY <4>1, Meaningless DEF Blank
      <4> QED BY <1>3, <1>4, <3>1, <4>2
    <3>3. CASE ~a.deletedId
      <4>1. a.id = NoSid
        BY <1>1, <1>3, <2>1, <2>2, <3>3 DEF Ready, Settled, Basic, Flags
      <4>2. a.values = Null
        BY <1>1, <3>3, <4>1 DEF Good, Live
      <4> QED BY <1>3, <1>4, <3>1, <4>2, Meaningless
    <3> QED BY <3>2, <3>3
  <2>3. CASE q.client.sid # NoSid
    <3>1. q.readAt = 0
      BY <1>3, <1>6, <2>3, NothingThere
    <3>2. Finds(q) = Meant(q.client.value)
      BY <2>3, <3>1 DEF Finds
    <3>3. ~a.deletedId
      BY <1>3, <2>3 DEF Lost
    <3>4. a.id # NoSid /\ a.values # Null /\ a.loaded
      BY <1>1, <1>2, <1>3, <2>3, <3>3 DEF Ready, Settled, Basic, Flags, Current
    <3>5. a.id = q.client.sid /\ a.file = q.client.sid
      BY <1>1, <1>3, <2>3, <3>3, <3>4 DEF Ready, Settled, Basic, Flags, Good, Live
    <3>6. /\ a.values = ToHash(a.data.session, a.id)
          /\ a.data.session = FileOf(q.client.sid).session
      BY <1>1, <2>1, <3>3, <3>4, <3>5 DEF Ready, Settled, Basic, Copied
    <3>7. Agrees(q.client, FileOf(q.client.sid))
      BY <2>3 DEF Grounds, KeptFor
    <3>8. Meant(a.values.value) = Meant(q.client.value)
      <4> PICK h : h = FileOf(q.client.sid).session
        OBVIOUS
      <4>1. a.values = IF h = Null THEN Hash(NoValue, NoPeer, a.id) ELSE h
        BY <3>6 DEF ToHash
      <4>2. \/ q.client.value = NoValue /\ h.value \in {NoValue, None}
            \/ h # Null /\ h.value = q.client.value
        BY <3>7 DEF Agrees
      <4>3. a.values.value = IF h = Null THEN NoValue ELSE h.value
        BY <4>1 DEF Hash
      <4>4. Null.value = None
        BY DEF Null, Hash
      <4> QED BY <4>2, <4>3, <4>4 DEF Meant
    <3> QED BY <1>3, <1>4, <3>2, <3>8
  <2> QED BY <2>2, <2>3
<1> QED BY <1>5, <1>6

\* What is stored is what is found.
LEMMA FindsStored ==
    ASSUME SessionInv, NEW r \in Requests, NEW q, Good(r, q), Touches(r), Grounds(q.client),
           Ready(r, q), q.readAt # 0, ~q.deletedId, q.created < MaxSessions \/ q.values # Null,
           NEW c, NEW a, a = Put(r, q, c)
    PROVE  (c \in Contents => Finds(a) = c) /\ a.gone = q.gone /\ (Lost(q) => Lost(a)) /\ Good(r, a)
<1> PICK v : v = IF c = Bare THEN NoValue ELSE c
  OBVIOUS
<1>1. a = StoreValue(r, q, v)
  BY DEF Put
<1>2. a.readAt # 0 /\ Good(r, a)
  BY <1>1, StoreValueReady
<1>3. c \in Contents => Meant(v) = c
  BY ClientsConstants, SessionConstants DEF Meant
<1>4. PICK n : n = IF q.values = Null THEN CreateSession(r, q) ELSE q
  OBVIOUS
<1>5. a = [n EXCEPT !.values.value = v, !.updated = TRUE]
  BY <1>1, <1>4 DEF StoreValue, WithValue
<1>6. /\ DOMAIN n = Fields /\ DOMAIN n.values = {"value", "peer", "owner"} /\ n.gone = q.gone
      /\ n.client = q.client /\ n.deletedId = q.deletedId
  <2>1. CASE q.values # Null
    BY <1>4, <2>1 DEF Good, Stash, IsHash
  <2>2. CASE q.values = Null
    <3>1. q.id = NoSid
      BY <2>2 DEF Ready, Settled, Basic, Flags
    <3> DEFINE sid == <<r, q.created + 1>>
               l == LoadData(r, q, sid)
    <3>2. DOMAIN l = Fields /\ l.gone = q.gone /\ l.client = q.client /\ l.deletedId = q.deletedId
      BY DEF LoadData, Good, Stash, Fields
    <3>3. n = Initialize(CreateSessionId(l, sid))
      BY <1>4, <2>2, <3>1 DEF CreateSession
    <3> HIDE DEF l, sid
    <3>4. n.values = Hash(NoValue, CreateSessionId(l, sid).peer, CreateSessionId(l, sid).id)
      BY <3>2, <3>3 DEF Initialize, CreateSessionId, SetCookie, Fields
    <3>5. /\ DOMAIN n = Fields /\ n.gone = l.gone /\ n.client = l.client /\ n.deletedId = l.deletedId
      BY <3>2, <3>3 DEF Initialize, CreateSessionId, SetCookie, Fields
    <3> QED BY <3>2, <3>4, <3>5 DEF Hash
  <2> QED BY <2>1, <2>2
<1>7. /\ a.values.value = v /\ a.gone = n.gone /\ a.client = n.client /\ a.deletedId = n.deletedId
      /\ a.updated = TRUE
  BY <1>5, <1>6 DEF Fields
<1>8. c \in Contents => Finds(a) = c
  BY <1>2, <1>3, <1>7 DEF Finds
<1> QED BY <1>2, <1>6, <1>7, <1>8 DEF Lost

LEMMA FindsSame ==
    ASSUME NEW q, NEW a, NEW changed, Same(q, a, changed),
           changed \cap {"gone", "client", "deletedId", "values", "readAt"} = {}
    PROVE  Finds(a) = Finds(q) /\ a.gone = q.gone /\ (Lost(q) => Lost(a))
<1>1. /\ a.gone = q.gone /\ a.client = q.client /\ a.values = q.values /\ a.deletedId = q.deletedId
      /\ a.readAt = q.readAt
  BY DEF Same, Fields
<1> QED BY <1>1 DEF Finds, Lost

\* The calls about the expiry, and of deleteSession, take nothing from a request that
\* loses no session.
LEMMA FindsExpires ==
    ASSUME SessionInv, NEW r \in Requests, NEW q, Good(r, q), Touches(r), Grounds(q.client),
           Ready(r, q), NEW a, a = Expires(r, q)
    PROVE  Finds(a) = Finds(q)
<1>1. /\ Keeps(q, a) /\ a.readAt = q.readAt
      /\ q.triedExpires => Same(q, a, {"setCookie", "cookie", "until", "extended"})
  BY ExpiresReady
<1>2. CASE q.readAt # 0
  <2>1. q.triedExpires
    BY <1>2 DEF Ready, Settled, Basic, Flags
  <2>2. Same(q, a, {"setCookie", "cookie", "until", "extended"})
    BY <1>1, <2>1
  <2> QED BY <2>2, FindsSame
<1>3. CASE q.readAt = 0
  BY <1>1, <1>3 DEF Finds, Keeps
<1> QED BY <1>2, <1>3

LEMMA FindsDeleted ==
    ASSUME SessionInv, NEW r \in Requests, NEW q, Good(r, q), Touches(r), q.readAt # 0,
           NEW a, a = DoDelete(r, q), a.gone = {}
    PROVE  Finds(a) = Finds(q)
<1>1. a.values = Null /\ q.client.sid = NoSid /\ q.id = NoSid /\ a.client = q.client
  BY DoDeleteLoses DEF Loses
<1>2. Blank(q.values)
  BY <1>1 DEF Good, Live, Blank
<1>3. Finds(q) = Bare
  BY <1>2, Meaningless DEF Finds, Blank
<1>4. Finds(a) = Bare
  BY <1>1, Meaningless DEF Finds
<1> QED BY <1>3, <1>4

\* afterDispatch changes what is stored about the session, and tries for it.
Ending == Dated \cup {"triedId", "triedExpires"}

LEMMA SaveSessionSame ==
    ASSUME SessionInv, NEW r \in Requests, NEW q, Good(r, q), Touches(r), Grounds(q.client),
           Ready(r, q), Visited(q), NEW a, a = SaveSession(r, q)
    PROVE  Same(q, a, Ending)
<1> DEFINE s == SaveExpires(r, q)
           e == Expires(r, s)
           t == SaveExpires(r, e)
<1>1. a = StoreValues(r, t)
  BY DEF SaveSession
<1>2. Good(r, s) /\ Ready(r, s) /\ Same(q, s, Dated)
  BY SaveExpiresReady
<1> HIDE DEF s
<1>3. s.client = q.client /\ s.readAt = q.readAt /\ s.deletedId = q.deletedId
  BY <1>2 DEF Same, Dated, Fields
<1>4. Visited(s) /\ Grounds(s.client)
  BY <1>3 DEF Visited
<1>5. /\ Good(r, e) /\ Ready(r, e) /\ Keeps(s, e)
      /\ s.triedExpires => Same(s, e, {"setCookie", "cookie", "until", "extended"})
  BY <1>2, <1>4, ExpiresReady
<1>6. Same(s, e, Ending)
  <2>1. CASE s.triedExpires
    BY <1>5, <2>1 DEF Same, Ending, Dated
  <2>2. CASE ~s.triedExpires /\ s.extended # NoTime
    BY <1>2, <2>2 DEF Expires, Same, Good, Stash
  <2>3. CASE ~s.triedExpires /\ s.extended = NoTime
    <3>1. s.client.sid = NoSid /\ s.id = NoSid
      BY <1>2, <1>4, <2>3, VisitedNot
    <3>2. PICK i : i = LoadId(s)
      OBVIOUS
    <3>3. Same(s, i, {"triedId"}) /\ i.id = NoSid /\ ~i.triedExpires
      BY <1>2, <2>3, <3>1, <3>2 DEF LoadId, Same, Good, Stash, Fields
    <3>4. e = LoadExpires(r, i)
      BY <2>3, <3>2, <3>3 DEF Expires, ExpiresOf, ReturnsExpires
    <3>5. e = [i EXCEPT !.triedExpires = TRUE]
      <4> DEFINE u == [i EXCEPT !.triedExpires = TRUE]
      <4>1. u.id = NoSid
        BY <3>3 DEF Same, Fields
      <4>2. LoadData(r, u, NoSid) = u
        BY DEF LoadData
      <4>3. CheckExpires(r, u) = u
        BY <4>1 DEF CheckExpires
      <4> QED BY <3>3, <3>4, <4>2, <4>3 DEF LoadExpires
    <3> HIDE DEF e
    <3>6. Same(i, e, {"triedExpires"})
      BY <3>3, <3>5 DEF Same, Fields
    <3> QED BY <3>3, <3>6 DEF Same, Ending, Dated
  <2> QED BY <2>1, <2>2, <2>3
<1> HIDE DEF e
<1>7. Grounds(e.client)
  BY <1>3, <1>5 DEF Keeps
<1>8. Good(r, t) /\ Ready(r, t) /\ Same(e, t, Dated)
  BY <1>5, <1>7, SaveExpiresReady
<1> HIDE DEF t
<1>9. Same(t, a, {"data", "save"})
  BY <1>1, <1>8, StoreValuesSaved
<1> QED BY <1>2, <1>6, <1>8, <1>9 DEF Same, Ending, Dated

\* What the client is told of its session is what the request found there.
LEMMA FindsGiven ==
    ASSUME SessionInv, NEW r \in Requests, NEW q, Good(r, q), Ready(r, q), Lost(q), q.gone = {},
           NEW a, Same(q, a, Ending), NEW c, Carried(c, q.client), NEW h, Sends(a, h),
           Given(c, a, h).sid # NoSid
    PROVE  Meant(Given(c, a, h).value) = Finds(q)
<1>1. a.values = q.values /\ a.deletedId = q.deletedId /\ a.file = q.file
  BY DEF Same, Ending, Dated, Fields
<1>2. CASE q.values # Null
  BY <1>1, <1>2 DEF Given, Finds, Ready
<1>3. CASE q.values = Null /\ q.deletedId
  BY <1>1, <1>3, Meaningless DEF Given, Finds, Lost
<1>4. CASE q.values = Null /\ ~q.deletedId
  <2>1. q.client.sid # NoSid
    <3> SUFFICES ASSUME q.client.sid = NoSid PROVE FALSE
      OBVIOUS
    <3>1. c.sid = NoSid
      BY DEF Carried
    <3>2. h.setCookie /\ h.cookie # NoSid
      BY <3>1 DEF Given
    <3>3. q.file # NoSid
      BY <1>1, <3>2 DEF Sends
    <3>4. q.id # NoSid
      BY <1>4, <3>3 DEF Good, Stash, Live
    <3>5. q.updated
      BY <3>4 DEF Ready, Settled, Basic, Flags
    <3> QED BY <1>4, <3>5 DEF Good, Live
  <2>2. q.readAt = 0
    BY <1>4, <2>1, NothingThere
  <2> QED BY <1>1, <1>4, <2>1, <2>2 DEF Given, Finds, Carried
<1> QED BY <1>2, <1>3, <1>4

LEMMA RestStep ==
    ASSUME OwnInv, NeverLate, RestInv, [ClientsNext]_<<vars, plugins>>
    PROVE  RestInv'
<1>1. SessionInv /\ DOMAIN page = Requests /\ DOMAIN req = Requests
  BY DEF OwnInv, HeadInv, SessionInv, TypesInv
<1>2. ASSUME NEW r \in Requests, NEW x, req' = [req EXCEPT ![r] = x], x.pc \in {"active", "answered"},
             x.pc # "active" => x.gone \subseteq dead', dead \subseteq dead',
             NEW p, page' = [page EXCEPT ![r] = p] \/ page' = page,
             DOMAIN forms' = Requests, valid' \subseteq Requests
      PROVE  RestInv'
  <2>1. \A o \in Requests : req'[o] = IF o = r THEN x ELSE req[o]
    BY <1>1, <1>2
  <2>2. \A o \in Requests : o # r => page'[o] = page[o]
    BY <1>1, <1>2
  <2> QED BY <1>2, <2>1, <2>2 DEF RestInv, Resting
<1>3. CASE UNCHANGED <<req, page, dead, forms, valid>>
  BY <1>3 DEF RestInv, Resting
<1>4. ASSUME NEW r \in Requests, (\E t \in Threads, p \in Peers : Start(r, t, p)) /\ Arrives(r)
      PROVE  RestInv'
  <2>1. PICK t \in Threads, p \in Peers : Start(r, t, p)
    BY <1>4
  <2> PICK x : x = [NewRequest EXCEPT !.pc = "active", !.thread = t, !.peer = p, !.client = client,
                                      !.past = dead]
    OBVIOUS
  <2>2. req' = [req EXCEPT ![r] = x] /\ dead' = dead /\ x.pc = "active"
    BY <2>1 DEF Start, NewRequest
  <2>3. PICK g : page' = [page EXCEPT ![r] = g]
    BY <1>4 DEF Arrives
  <2>4. forms' = forms /\ valid' \in {{}, valid}
    BY <1>4 DEF Arrives
  <2> QED BY <1>2, <2>2, <2>3, <2>4 DEF RestInv
<1>5. ASSUME NEW r \in Requests, PluginCall(r) PROVE RestInv'
  <2>1. DOMAIN forms' = Requests /\ valid' \subseteq Requests
    BY <1>5 DEF PluginCall, Status, Load, Authenticate, User, Logout, BeforeDispatch, TokenFormField,
                RestInv
  <2>2. DOMAIN page[r] = DOMAIN NewPage
    BY DEF OwnInv, HeadInv, Page
  <2>3. ASSUME NEW q, NEW p, Touches(r), Reached(r, q), Leaves(r, q, p) PROVE RestInv'
    <3>1. q.pc = "active"
      BY <1>1, <2>3, ReachedGood DEF Good
    <3> QED BY <1>2, <2>1, <2>3, <3>1 DEF Leaves, Becomes
  <2>4. CASE UNCHANGED <<vars, page>>
    BY <2>1, <2>4 DEF RestInv, Resting, vars
  <2> QED BY <1>1, <1>5, <2>2, <2>3, <2>4, PluginSteps
<1>6. ASSUME NEW r \in Requests, ClientAnswered(r) PROVE RestInv'
  <2> PICK d : d = [req[r] EXCEPT !.pc = "done"]
    OBVIOUS
  <2> PICK x : x = IF r \in Range(conns) THEN d ELSE Forget(d)
    OBVIOUS
  <2>1. /\ req[r].pc = "answered" /\ req' = [req EXCEPT ![r] = x]
        /\ page' = [page EXCEPT ![r] = NewPage] /\ UNCHANGED <<dead, forms, valid>>
    BY <1>6 DEF ClientAnswered, AnsweredWith
  <2>2. d.pc = "done" /\ d.gone = req[r].gone
    BY <1>1 DEF SessionInv, StashInv, Stash, Fields
  <2>3. x.gone \in {req[r].gone, {}} /\ x.pc = "done"
    BY <2>2 DEF Forget, NewRequest
  <2>4. \A o \in Requests : /\ req'[o] = IF o = r THEN x ELSE req[o]
                            /\ page'[o] = IF o = r THEN NewPage ELSE page[o]
    BY <1>1, <2>1
  <2> QED BY <2>1, <2>3, <2>4 DEF RestInv, Resting
<1>7. ASSUME NEW r \in Requests, (Call(r) \/ AfterDispatch(r) \/ ContextDeleted(r)) /\ UNCHANGED plugins
      PROVE  RestInv'
  <2>1. page' = page /\ DOMAIN forms' = Requests /\ valid' \subseteq Requests
    BY <1>7 DEF plugins, RestInv
  <2>2. CASE Call(r)
    <3>1. PICK q : Good(r, q) /\ Becomes(r, q)
      BY <1>1, <2>2, CallBecomes
    <3> QED BY <1>2, <2>1, <3>1 DEF Becomes, Good
  <2>3. CASE AfterDispatch(r)
    <3> PICK a : a = SaveSession(r, req[r])
      OBVIOUS
    <3> PICK q : q = [a EXCEPT !.pc = "answered"]
      OBVIOUS
    <3>1. PICK x \in {q, Forget(q)} : req' = [req EXCEPT ![r] = x]
      BY <2>3 DEF AfterDispatch
    <3>2. Touches(r) /\ dead' = dead \cup q.gone
      BY <2>3 DEF AfterDispatch
    <3>3. q.pc = "answered"
      <4>1. Good(r, a)
        BY <1>1, <3>2, GoodAtFirst, SaveSessionGood
      <4> QED BY <4>1 DEF Good, Stash, Fields
    <3>4. x.pc = "answered" /\ x.gone \subseteq q.gone
      <4>1. CASE x = q
        BY <3>3, <4>1
      <4>2. CASE x = Forget(q)
        <5>1. DOMAIN NewRequest = Fields /\ NewRequest.gone = {}
          BY DEF NewRequest, Fields
        <5>2. x = [NewRequest EXCEPT !.pc = q.pc, !.setCookie = q.setCookie,
                       !.cookie = q.cookie, !.until = q.until, !.values = q.values,
                       !.deletedId = q.deletedId]
          BY <3>3, <4>2 DEF Forget
        <5> QED BY <3>3, <5>1, <5>2 DEF Fields
      <4> QED BY <4>1, <4>2
    <3> QED BY <1>2, <2>1, <3>1, <3>2, <3>4
  <2>4. CASE ContextDeleted(r)
    <3> PICK x : x = Forget(req[r])
      OBVIOUS
    <3>1. req' = [req EXCEPT ![r] = x] /\ dead' = dead
      BY <2>4 DEF ContextDeleted
    <3>2. x.pc = req[r].pc /\ x.gone = {}
      BY DEF Forget, NewRequest
    <3>3. \A o \in Requests : req'[o] = IF o = r THEN x ELSE req[o]
      BY <1>1, <3>1
    <3> QED BY <2>1, <3>1, <3>2, <3>3 DEF RestInv, Resting
  <2> QED BY <1>7, <2>2, <2>3, <2>4
<1>8. CASE FormCookieExpires
  BY <1>3, <1>8 DEF FormCookieExpires, vars
<1>9. CASE (CookieExpires \/ Tick \/ Over) /\ UNCHANGED plugins
  BY <1>3, <1>9 DEF CookieExpires, Tick, Over, vars, plugins
<1>10. CASE UNCHANGED <<vars, plugins>>
  BY <1>3, <1>10 DEF vars, plugins
<1> QED BY <1>4, <1>5, <1>6, <1>7, <1>8, <1>9, <1>10 DEF ClientsNext

\* A request does not go back, and was dispatched once it was.
Onward ==
    \A r \in Requests :
        req[r].pc # "new" =>
            /\ req'[r].pc # "new"
            /\ req'[r].pc = "active" =>
                   req[r].pc = "active" /\ (page[r].dispatched => page'[r].dispatched)

LEMMA MadeKept ==
    ASSUME Onward, NEW s, Made(s)
    PROVE  Made(s)'
BY DEF Onward, Made

LEMMA SuitsKept ==
    ASSUME Onward, UNCHANGED <<forms, valid>>, NEW s, Suits(s)
    PROVE  Suits(s)'
<1>1. Made(s)'
  BY MadeKept DEF Suits
<1> QED BY <1>1 DEF Suits, Made

LEMMA FitsKept ==
    ASSUME Onward, UNCHANGED <<scenario, forms, login, untold, valid>>, NEW c, Fits(c)
    PROVE  Fits(c)'
<1> PICK s : s = c.secret
  OBVIOUS
<1>1. Suits(s) => Suits(s)'
  BY SuitsKept
<1>2. /\ c \in Contents
      /\ login' = IF c.user = None THEN None ELSE <<c.user, c.realm>>
      /\ untold' = c.messages
  BY DEF Fits
<1>3. Protective' /\ InSession' => Suits(s)'
  BY <1>1 DEF Fits, Protective, InSession, habits
<1> QED BY <1>2, <1>3 DEF Fits, Suits, Made

LEMMA FormsKept ==
    ASSUME Onward, UNCHANGED <<scenario, forms>>, Protective => \A f \in Requests : Made(forms[f])
    PROVE  (Protective => \A f \in Requests : Made(forms[f]))'
<1> SUFFICES ASSUME Protective', NEW f \in Requests PROVE Made(forms[f])'
  OBVIOUS
<1> PICK s : s = forms[f]
  OBVIOUS
<1>1. Made(s)'
  BY MadeKept DEF Protective, habits
<1> QED BY <1>1 DEF Made

\* A step of a request that leaves a as its stash and p as that of the plugins.
Moves(r, a, p) ==
    /\ a.pc # "new" /\ req' = [req EXCEPT ![r] = a]
    /\ \A o \in Requests : page'[o] = IF o = r THEN p ELSE page[o]
    /\ page[r].dispatched => p.dispatched

LEMMA Onwards ==
    ASSUME SessionInv, NEW r \in Requests, Touches(r), NEW a, NEW p, Moves(r, a, p)
    PROVE  Onward /\ req'[r] = a /\ page'[r] = p /\ (\A o \in Requests : o # r => req'[o] = req[o])
<1>1. \A o \in Requests : req'[o] = IF o = r THEN a ELSE req[o]
  BY DEF SessionInv, TypesInv, Moves
<1> QED BY <1>1 DEF Onward, Touches, Moves

\* The forms while the request that is served took no session away.
LEMMA FormsMade ==
    ASSUME KeptInv, PluginInv, alone, dead = {}, NEW r \in Requests, Touches(r), req[r].gone = {}, Protective
    PROVE  \A f \in Requests : Made(forms[f])
<1>1. \A o \in Requests : o # r => Resting(o)
  BY AloneServed
<1>2. \A o \in Requests : req[o].pc = "active" => req[o].gone = {}
  BY <1>1 DEF Resting
<1> QED BY <1>2 DEF PluginInv

LEMMA ActivePlug ==
    ASSUME KeptInv, alone, NEW r \in Requests, Touches(r), UNCHANGED <<dead, alone>>,
           \A o \in Requests : o # r => req'[o] = req[o], req'[r].pc = "active",
           dead = {} /\ req'[r].gone = {} => (Protective => \A f \in Requests : Made(forms[f]))',
           dead = {} /\ req'[r].gone = {} => Attends(r)'
    PROVE  PluginInv'
<1>1. \A o \in Requests : o # r => Resting(o)
  BY AloneServed
<1>2. ASSUME NEW o \in Requests, o # r PROVE req'[o].pc \notin {"active", "answered"}
  BY <1>1, <1>2 DEF Resting
<1>3. ~Resting(r)'
  BY DEF Resting
<1> QED BY <1>2, <1>3 DEF PluginInv

\* A call of Session leaves what the plugins rely on.
LEMMA CallAttends ==
    ASSUME Onward, UNCHANGED <<scenario, plugins>>, NEW r \in Requests, Attends(r),
           Lost(req'[r]), Finds(req'[r]) = Finds(req[r])
    PROVE  Attends(r)'
<1> PICK p, d, c, k : p = page[r] /\ d = cookie /\ c = Finds(req[r]) /\ k = login
  OBVIOUS
<1>1. page'[r] = p /\ cookie' = d /\ login' = k /\ Finds(req'[r]) = c
  BY DEF plugins
<1>2. Fits(c)'
  BY FitsKept DEF Attends, plugins
<1>3. Suits(p.secret) => Suits(p.secret)'
  BY SuitsKept DEF plugins
<1>4. Suits(p.cookie.secret) => Suits(p.cookie.secret)'
  BY SuitsKept DEF plugins
<1>5. (Protective' <=> Protective) /\ (InSession' <=> InSession)
  BY DEF Protective, InSession, habits
<1>6. Lost(req[r])'
  BY DEF Lost
<1>0. Finds(req[r])' = c
  BY <1>1 DEF Finds, Meant
<1>7. Fits(Finds(req[r]))'
  BY <1>0, <1>2 DEF Fits, Suits, Made
<1>8. True(p)'
  BY <1>5 DEF Attends, True
<1> QED BY <1>0, <1>1, <1>3, <1>4, <1>5, <1>6, <1>7, <1>8, SMTT(30) DEF Attends, True, Suits, Made

LEMMA CallPlug ==
    ASSUME OwnInv, KeptInv, PluginInv, ByPlugins, alone, NEW r \in Requests, Call(r), UNCHANGED plugins
    PROVE  PluginInv'
<1> DEFINE l == LoadSession(r, req[r])
<1>1. Touches(r) /\ NeverLate /\ SessionInv /\ DOMAIN page = Requests
  BY DEF Call, Value, SetValue, CallExpires, ChangeExpires, DeleteSession, ByPlugins, Attentive, NeverLate,
         OwnInv, HeadInv
<1>2. Good(r, req[r])
  BY <1>1, GoodAtFirst
<1>3. Ready(r, req[r]) /\ Grounds(req[r].client)
  BY <1>1, AloneServed
<1>4. ASSUME NEW q, Good(r, q), Becomes(r, q), Loses(req[r], q),
             Lost(req[r]) /\ q.gone = {} => Finds(q) = Finds(req[r])
      PROVE  PluginInv'
  <2>1. req' = [req EXCEPT ![r] = q] /\ UNCHANGED <<scenario, dead, alone>> /\ q.pc = "active"
    BY <1>4 DEF Becomes, Good
  <2>2. PICK p : Moves(r, q, p)
    BY <2>1 DEF plugins, Moves
  <2>3. Onward /\ req'[r] = q /\ \A o \in Requests : o # r => req'[o] = req[o]
    BY <1>1, <2>2, Onwards
  <2>4. ASSUME dead = {}, req'[r].gone = {} PROVE (Protective => \A f \in Requests : Made(forms[f]))'
    <3>1. req[r].gone = {}
      BY <1>4, <2>3, <2>4 DEF Loses
    <3>2. Protective => \A f \in Requests : Made(forms[f])
      BY <1>1, <2>4, <3>1, FormsMade
    <3> QED BY <2>1, <2>3, <3>2, FormsKept DEF plugins
  <2>5. ASSUME dead = {}, req'[r].gone = {} PROVE Attends(r)'
    <3>1. req[r].gone = {}
      BY <1>4, <2>3, <2>5 DEF Loses
    <3>2. Attends(r)
      BY <1>1, <2>5, <3>1 DEF PluginInv, Touches
    <3>3. Lost(q) /\ Finds(q) = Finds(req[r])
      BY <1>4, <2>3, <2>5, <3>2 DEF Loses, Attends
    <3> QED BY <2>1, <2>3, <3>2, <3>3, CallAttends
  <2> QED BY <1>1, <2>1, <2>3, <2>4, <2>5, ActivePlug
<1>5. /\ Good(r, l) /\ Loses(req[r], l)
      /\ Lost(req[r]) /\ l.gone = {} => Finds(l) = Finds(req[r])
  BY <1>1, <1>2, <1>3, LoadSessionReady, LoadSessionLoses, FindsLoaded
<1> HIDE DEF l
<1>6. ASSUME Value(r) PROVE PluginInv'
  BY <1>4, <1>5, <1>6 DEF Value, l
<1>7. ASSUME NEW v \in scenario.values, SetValue(r, v) PROVE PluginInv'
  BY <1>7 DEF ByPlugins
<1>8. ASSUME CallExpires(r) PROVE PluginInv'
  <2> DEFINE a == Expires(r, req[r])
  <2>1. Good(r, a) /\ Loses(req[r], a) /\ Finds(a) = Finds(req[r])
    BY <1>1, <1>2, <1>3, ExpiresReady, ExpiresLoses, FindsExpires
  <2>2. Becomes(r, a)
    BY <1>8 DEF CallExpires
  <2> HIDE DEF a
  <2> QED BY <1>4, <2>1, <2>2
<1>9. ASSUME ChangeExpires(r) PROVE PluginInv'
  <2> DEFINE a == StoreExpires(LoadData(r, req[r], req[r].id), Latest)
  <2>1. req[r].id # NoSid /\ req[r].readAt # 0 /\ Becomes(r, a)
    BY <1>9 DEF ChangeExpires, Latest
  <2>2. Latest \in Nat /\ Latest >= req[r].data.expires /\ req[r].triedExpires
    <3>1. Latest \in Nat
      BY <1>1, <1>3, Numbers DEF Latest, Grounds
    <3> QED BY <1>3, <2>1, <3>1 DEF Ready, Settled, Basic, Dates, Flags
  <2>3. Good(r, a) /\ Same(req[r], a, {"data", "save"})
    <3>1. Latest <= Latest
      BY <2>2
    <3> QED BY <1>1, <1>2, <1>3, <2>1, <2>2, <3>1, StoreExpiresReady
  <2> HIDE DEF a
  <2>4. Loses(req[r], a) /\ Finds(a) = Finds(req[r])
    BY <2>3, SameLoses, FindsSame
  <2> QED BY <1>4, <2>1, <2>3, <2>4
<1>10. ASSUME DeleteSession(r) PROVE PluginInv'
  <2> DEFINE a == DoDelete(r, req[r])
  <2>1. req[r].readAt # 0 /\ Becomes(r, a)
    BY <1>10 DEF DeleteSession, ByPlugins, Attentive
  <2>2. Good(r, a) /\ Loses(req[r], a)
    BY <1>1, <1>2, DoDeleteGood, DoDeleteLoses
  <2>3. a.gone = {} => Finds(a) = Finds(req[r])
    BY <1>1, <1>2, <2>1, FindsDeleted
  <2> HIDE DEF a
  <2> QED BY <1>4, <2>1, <2>2, <2>3
<1> QED BY <1>6, <1>7, <1>8, <1>9, <1>10 DEF Call

\* A request that is served alone, in whose sessions no other has left anything undone.
Quiet == OwnInv /\ KeptInv /\ RestInv /\ PluginInv /\ ByPlugins /\ alone /\ dead = {}

\* The session a plugin looks into.
LEMMA Looks ==
    ASSUME Quiet, NEW r \in Requests, Touches(r), NEW l, l = LoadSession(r, req[r])
    PROVE  /\ Good(r, l) /\ Ready(r, l) /\ Grounds(l.client) /\ l.readAt # 0
           /\ l.gone = {} => /\ req[r].gone = {} /\ Attends(r) /\ Lost(l)
                             /\ Finds(l) = Finds(req[r]) /\ Held(l) = Finds(l) /\ Fits(Held(l))
                             /\ Held(l) \in Contents
<1>1. SessionInv /\ Good(r, req[r]) /\ Ready(r, req[r]) /\ Grounds(req[r].client)
  BY GoodAtFirst, AloneServed DEF Quiet, OwnInv
<1>2. Good(r, l) /\ Keeps(req[r], l) /\ Ready(r, l) /\ l.readAt # 0 /\ Loses(req[r], l)
  BY <1>1, LoadSessionReady, LoadSessionLoses
<1>3. Grounds(l.client)
  BY <1>1, <1>2 DEF Loses
<1>4. ASSUME l.gone = {}
      PROVE  /\ req[r].gone = {} /\ Attends(r) /\ Lost(l)
             /\ Finds(l) = Finds(req[r]) /\ Held(l) = Finds(l) /\ Fits(Held(l))
  <2>1. req[r].gone = {}
    BY <1>2, <1>4 DEF Loses
  <2>2. Attends(r)
    BY <2>1 DEF Quiet, PluginInv, Touches
  <2>3. Lost(req[r]) /\ Fits(Finds(req[r]))
    BY <2>2 DEF Attends
  <2>4. Finds(l) = Finds(req[r]) /\ Held(l) = Finds(req[r])
    BY <1>1, <1>4, <2>3, FindsLoaded
  <2> QED BY <1>2, <2>1, <2>2, <2>3, <2>4 DEF Loses
<1> QED BY <1>2, <1>3, <1>4 DEF Fits

\* What a plugin stores there.
Writes(r, l, c, a) ==
    l = LoadSession(r, req[r]) /\ (MayStore(l) \/ Held(l) # Bare) /\ a = Put(r, l, c)

LEMMA Stores ==
    ASSUME Quiet, NEW r \in Requests, Touches(r), NEW l, NEW c, NEW a, Writes(r, l, c, a)
    PROVE  /\ a.gone = l.gone /\ Good(r, a)
           /\ l.gone = {} /\ c \in Contents => Lost(a) /\ Finds(a) = c
<1>1. /\ Good(r, l) /\ Ready(r, l) /\ Grounds(l.client) /\ l.readAt # 0
      /\ l.gone = {} => Lost(l)
  BY Looks DEF Writes
<1>2. ~l.deletedId /\ (l.created < MaxSessions \/ l.values # Null)
  <2>1. CASE MayStore(l)
    BY <2>1, MayStoreGood DEF Quiet, ByPlugins, Attentive, NeverLate, MayStore
  <2>2. CASE Held(l) # Bare
    <3>1. l.values.value \notin {NoValue, None}
      BY <2>2 DEF Held
    <3>2. l.values # Null
      BY <3>1 DEF Null, Hash
    <3> QED BY <1>1, <3>1, <3>2 DEF Good, Live, Blank
  <2> QED BY <2>1, <2>2 DEF Writes
<1> QED BY <1>1, <1>2, FindsStored DEF Quiet, OwnInv, Writes

\* A call of a plugin.
LEMMA PluginPlug ==
    ASSUME OwnInv, KeptInv, alone, UNCHANGED scenario, NEW r \in Requests, Touches(r), NEW a, NEW p,
           Leaves(r, a, p), Good(r, a), page[r].dispatched => p.dispatched,
           forms' = forms,
           PluginInv,
           dead = {} /\ a.gone = {} => req[r].gone = {},
           dead = {} /\ a.gone = {} /\ Onward /\ req'[r] = a /\ page'[r] = p => Attends(r)'
    PROVE  PluginInv'
<1>1. SessionInv /\ DOMAIN page = Requests
  BY DEF OwnInv, HeadInv
<1>2. /\ req' = [req EXCEPT ![r] = a] /\ UNCHANGED <<dead, alone>> /\ a.pc = "active"
      /\ page' = [page EXCEPT ![r] = p]
  BY DEF Leaves, Becomes, Good
<1>3. Moves(r, a, p)
  BY <1>1, <1>2 DEF Moves
<1>4. Onward /\ req'[r] = a /\ page'[r] = p /\ (\A o \in Requests : o # r => req'[o] = req[o])
  BY <1>1, <1>3, Onwards
<1>5. ASSUME dead = {}, a.gone = {} PROVE (Protective => \A f \in Requests : Made(forms[f]))'
  <2>1. Protective => \A f \in Requests : Made(forms[f])
    BY <1>5, FormsMade
  <2> QED BY <1>4, <2>1, FormsKept
<1> QED BY <1>2, <1>4, <1>5, ActivePlug

\* What StatusMessage and Authentication leave of what CSRFProtection keeps.
Keeping(r, p) ==
    /\ p.cookie = page[r].cookie /\ p.dispatched = page[r].dispatched
    /\ p.secret = page[r].secret /\ p.setCookie = page[r].setCookie

\* The request holds c, and it is what the session should hold.
Holds(r, a, c) ==
    /\ req[r].gone = {} /\ Lost(a) /\ Finds(a) = c
    /\ c \in Contents /\ c.secret = Finds(req[r]).secret
    /\ c.user # None => c.realm \in Realms
    /\ login' = IF c.user = None THEN None ELSE <<c.user, c.realm>>
    /\ untold' = c.messages

LEMMA TurnPlug ==
    ASSUME Quiet, NEW r \in Requests, Touches(r), NEW a, NEW p, Leaves(r, a, p), Good(r, a),
           UNCHANGED <<cookie, forms, valid>>, Keeping(r, p), NEW c,
           a.gone = {} => Holds(r, a, c) /\ True(p) /\ (p.user # None => SameUser(p.user, login'))
    PROVE  PluginInv'
<1>1. scenario' = scenario
  BY DEF Leaves, Becomes
<1>2. ASSUME a.gone = {}, Onward, req'[r] = a, page'[r] = p PROVE Attends(r)'
  <2> PICK u, d : u = page[r] /\ d = cookie
    OBVIOUS
  <2> PICK k : k = login'
    OBVIOUS
  <2>1. Attends(r) /\ Holds(r, a, c) /\ True(p) /\ (p.user # None => SameUser(p.user, k))
    BY <1>2 DEF Quiet, PluginInv, Touches, Holds
  <2>2. (Protective' <=> Protective) /\ (InSession' <=> InSession)
    BY <1>1 DEF Protective, InSession, habits
  <2>3. \A s : Suits(s) => Suits(s)'
    BY <1>2, SuitsKept
  <2>4. Finds(req[r])' = c /\ Lost(req[r])'
    BY <1>2, <2>1 DEF Holds, Finds, Meant, Lost
  <2>5. Fits(c)'
    <3>1. Protective /\ InSession => Suits(c.secret)
      BY <2>1 DEF Attends, Fits, Holds
    <3>2. Protective' /\ InSession' => Suits(c.secret)'
      BY <2>2, <2>3, <3>1
    <3> QED BY <2>1, <3>2 DEF Holds, Fits, Suits, Made
  <2>6. Fits(Finds(req[r]))'
    BY <2>4, <2>5 DEF Fits, Suits, Made
  <2>7. True(p)'
    BY <2>1, <2>2 DEF True
  <2>8. p.cookie = u.cookie /\ p.dispatched = u.dispatched /\ p.secret = u.secret /\ p.setCookie = u.setCookie
    BY DEF Keeping
  <2>9. /\ Protective' /\ p.dispatched => p.secret # None
        /\ Protective' /\ InSession' /\ p.dispatched => p.secret = c.secret
        /\ Protective' /\ ~InSession' =>
               /\ d.secret \in {None, p.cookie.secret} /\ p.cookie.secret \in Secrets
               /\ IF p.dispatched THEN Suits(p.secret)' ELSE Suits(p.cookie.secret)'
               /\ p.dispatched /\ p.cookie.secret # None => p.secret = p.cookie.secret
               /\ p.setCookie => p.dispatched
    BY <2>1, <2>2, <2>3, <2>8 DEF Attends, Holds
  <2> QED BY <1>2, <2>1, <2>4, <2>6, <2>7, <2>9 DEF Attends, True, Suits, Made
<1>3. a.gone = {} => req[r].gone = {}
  BY DEF Holds
<1> QED BY <1>1, <1>2, <1>3, PluginPlug DEF Quiet, Keeping

LEMMA StatusPlug ==
    ASSUME Quiet, NEW r \in Requests, Status(r)
    PROVE  PluginInv'
<1> PICK l, p : l = LoadSession(r, req[r]) /\ p = page[r]
  OBVIOUS
<1> PICK c : c = [Held(l) EXCEPT !.messages = @ \cup {r}]
  OBVIOUS
<1> PICK a : a = Put(r, l, c)
  OBVIOUS
<1>1. /\ Touches(r) /\ MayStore(l) /\ Leaves(r, a, p) /\ UNCHANGED <<cookie, forms, login, valid>>
      /\ untold' = untold \cup {r}
  BY DEF Status, Calls
<1>2. Good(r, a) /\ a.gone = l.gone /\ (l.gone = {} /\ c \in Contents => Lost(a) /\ Finds(a) = c)
  <2>1. Writes(r, l, c, a)
    BY <1>1 DEF Writes
  <2> QED BY <1>1, <2>1, Stores
<1>3. ASSUME a.gone = {} PROVE Holds(r, a, c) /\ True(p) /\ (p.user # None => SameUser(p.user, login'))
  <2>1. /\ req[r].gone = {} /\ Attends(r) /\ Held(l) = Finds(req[r]) /\ Fits(Held(l))
        /\ Held(l) \in Contents
    BY <1>1, <1>2, <1>3, Looks, ZenonT(40)
  <2>2. /\ c \in Contents /\ c.messages = Held(l).messages \cup {r}
        /\ c.user = Held(l).user /\ c.realm = Held(l).realm /\ c.secret = Held(l).secret
    BY <2>1 DEF Contents
  <2> QED BY <1>1, <1>2, <1>3, <2>1, <2>2 DEF Holds, Fits, Attends
<1> QED BY <1>1, <1>2, <1>3, TurnPlug, SMTT(30) DEF Keeping

LEMMA LoadPlug ==
    ASSUME Quiet, NEW r \in Requests, NEW t \in Requests, Load(r, t)
    PROVE  PluginInv'
<1> PICK l, g : l = LoadSession(r, req[r]) /\ g = page[r]
  OBVIOUS
<1> DEFINE found == t \in Held(l).messages
<1> PICK p : p = [g EXCEPT !.shown = found, !.owed = t \in untold]
  OBVIOUS
<1> PICK c : c = IF found THEN [Held(l) EXCEPT !.messages = @ \ {t}] ELSE Held(l)
  OBVIOUS
<1> PICK a : a = IF found THEN Put(r, l, c) ELSE l
  OBVIOUS
<1>1. /\ Touches(r) /\ Leaves(r, a, p) /\ UNCHANGED <<cookie, forms, login, valid>>
      /\ untold' = untold \ {t}
  BY DEF Load, Calls, Shown
<1>2. /\ DOMAIN p = DOMAIN NewPage /\ p.shown = found /\ p.owed = (t \in untold)
      /\ \A f \in DOMAIN NewPage \ {"shown", "owed"} : p[f] = g[f]
  BY DEF Quiet, OwnInv, HeadInv, Page, NewPage
<1>3. Good(r, a) /\ a.gone = l.gone /\ (l.gone = {} /\ c \in Contents => Lost(a) /\ Finds(a) = c)
  <2>1. CASE found
    <3>1. Held(l) # Bare
      BY <2>1 DEF Bare
    <3>2. Writes(r, l, c, a)
      BY <2>1, <3>1 DEF Writes
    <3> QED BY <1>1, <3>2, Stores
  <2>2. CASE ~found
    BY <1>1, <2>2, Looks
  <2> QED BY <2>1, <2>2
<1>4. ASSUME a.gone = {} PROVE Holds(r, a, c) /\ True(p) /\ (p.user # None => SameUser(p.user, login'))
  <2>1. /\ req[r].gone = {} /\ Attends(r) /\ Held(l) = Finds(req[r]) /\ Fits(Held(l))
        /\ Held(l) \in Contents
    BY <1>1, <1>3, <1>4, Looks, ZenonT(40)
  <2>2. /\ c \in Contents /\ c.messages = Held(l).messages \ {t}
        /\ c.user = Held(l).user /\ c.realm = Held(l).realm /\ c.secret = Held(l).secret
    BY <2>1 DEF Contents
  <2>3. p.shown = p.owed
    BY <1>2, <2>1 DEF Fits
  <2>4. p.user = g.user /\ p.seen = g.seen /\ p.loggedIn = g.loggedIn /\ p.check = g.check /\ p.ours = g.ours
    BY <1>2 DEF NewPage
  <2>5. True(p) /\ (p.user # None => SameUser(p.user, login))
    BY <2>1, <2>3, <2>4 DEF Attends, True
  <2> QED BY <1>1, <1>3, <1>4, <2>1, <2>2, <2>5 DEF Holds, Fits
<1>5. Keeping(r, p)
  BY <1>2 DEF Keeping, NewPage
<1> QED BY <1>1, <1>3, <1>4, <1>5, TurnPlug, ZenonT(40)

LEMMA AuthenticatePlug ==
    ASSUME Quiet, NEW r \in Requests, NEW who \in Somebody, Authenticate(r, who)
    PROVE  PluginInv'
<1> PICK l, g : l = LoadSession(r, req[r]) /\ g = page[r]
  OBVIOUS
<1> PICK p : p = [g EXCEPT !.user = who]
  OBVIOUS
<1> PICK c : c = [Held(l) EXCEPT !.user = who[1], !.realm = who[2]]
  OBVIOUS
<1> PICK a : a = Put(r, l, c)
  OBVIOUS
<1>1. /\ Touches(r) /\ MayStore(l) /\ Leaves(r, a, p) /\ UNCHANGED <<cookie, forms, untold, valid>>
      /\ login' = who
  BY DEF Authenticate, Calls, PersistUser
<1>2. /\ DOMAIN p = DOMAIN NewPage /\ p.user = who
      /\ \A f \in DOMAIN NewPage \ {"user"} : p[f] = g[f]
  BY DEF Quiet, OwnInv, HeadInv, Page, NewPage
<1>3. Good(r, a) /\ a.gone = l.gone /\ (l.gone = {} /\ c \in Contents => Lost(a) /\ Finds(a) = c)
  <2>1. Writes(r, l, c, a)
    BY <1>1 DEF Writes
  <2> QED BY <1>1, <2>1, Stores
<1>4. ASSUME a.gone = {} PROVE Holds(r, a, c) /\ True(p) /\ (p.user # None => SameUser(p.user, login'))
  <2>1. /\ req[r].gone = {} /\ Attends(r) /\ Held(l) = Finds(req[r]) /\ Fits(Held(l))
        /\ Held(l) \in Contents
    BY <1>1, <1>3, <1>4, Looks, ZenonT(40)
  <2>2. who[1] \in Users /\ who[2] \in Realms /\ who = <<who[1], who[2]>> /\ who[1] # None
    BY ClientsConstants DEF Somebody
  <2>3. /\ c \in Contents /\ c.messages = Held(l).messages
        /\ c.user = who[1] /\ c.realm = who[2] /\ c.secret = Held(l).secret
    BY <2>1, <2>2 DEF Contents
  <2>4. p.seen = g.seen /\ p.loggedIn = g.loggedIn /\ p.shown = g.shown /\ p.owed = g.owed
        /\ p.check = g.check /\ p.ours = g.ours
    BY <1>2 DEF NewPage
  <2>5. True(p)
    BY <2>1, <2>4 DEF Attends, True
  <2>6. who[2] \in Realms
    BY DEF Somebody
  <2>7. p.user # None => SameUser(p.user, login')
    BY <1>1, <1>2, <2>2 DEF SameUser
  <2> QED BY <1>1, <1>2, <1>3, <1>4, <2>1, <2>2, <2>3, <2>5, <2>6, <2>7 DEF Holds, Fits
<1>5. Keeping(r, p)
  BY <1>2 DEF Keeping, NewPage
<1>6. Good(r, a) /\ UNCHANGED <<cookie, forms, valid>>
  BY <1>1, <1>3
<1>7. Touches(r) /\ Leaves(r, a, p)
  BY <1>1
<1> QED BY <1>4, <1>5, <1>6, <1>7, TurnPlug

LEMMA UserPlug ==
    ASSUME Quiet, NEW r \in Requests, User(r)
    PROVE  PluginInv'
<1> PICK l, g : l = LoadSession(r, req[r]) /\ g = page[r]
  OBVIOUS
<1> PICK a : a = IF g.user # None THEN req[r] ELSE l
  OBVIOUS
<1> PICK who : who = IF g.user # None THEN g.user ELSE Restored(a)
  OBVIOUS
<1> PICK p : p = [g EXCEPT !.user = who, !.seen = who, !.loggedIn = login]
  OBVIOUS
<1> PICK c : c = Finds(a)
  OBVIOUS
<1>1. /\ Touches(r) /\ Leaves(r, a, p) /\ UNCHANGED <<cookie, forms, login, untold, valid>>
  BY DEF User, Calls
<1>2. /\ DOMAIN p = DOMAIN NewPage /\ p.user = who /\ p.seen = who /\ p.loggedIn = login
      /\ \A f \in DOMAIN NewPage \ {"user", "seen", "loggedIn"} : p[f] = g[f]
  BY DEF Quiet, OwnInv, HeadInv, Page, NewPage
<1>3. Good(r, a) /\ (a.gone = {} => /\ req[r].gone = {} /\ Attends(r) /\ Lost(a)
                                    /\ Finds(a) = Finds(req[r]) /\ Fits(Finds(a))
                                    /\ g.user = None => Held(a) = Finds(a))
  <2>1. CASE g.user # None
    <3>1. a = req[r] /\ Good(r, a)
      BY <1>1, <2>1, GoodAtFirst DEF Quiet, OwnInv
    <3>2. a.gone = {} => Attends(r)
      BY <1>1, <3>1 DEF Quiet, PluginInv, Touches
    <3> QED BY <2>1, <3>1, <3>2 DEF Attends
  <2>2. CASE g.user = None
    BY <1>1, <2>2, Looks
  <2> QED BY <2>1, <2>2
<1>4. ASSUME a.gone = {} PROVE Holds(r, a, c) /\ True(p) /\ (p.user # None => SameUser(p.user, login'))
  <2>1. SameUser(who, login)
    <3>1. CASE g.user # None
      BY <1>3, <1>4, <3>1 DEF Attends, SameUser
    <3>2. CASE g.user = None
      <4>1. /\ Fits(Held(a))
            /\ who = IF Held(a).user # None THEN <<Held(a).user, RealmOf(a)>> ELSE None
        BY <1>3, <1>4, <3>2 DEF Restored, Restorable
      <4>2. CASE Held(a).user = None
        BY <4>1, <4>2 DEF Fits, SameUser
      <4>3. CASE Held(a).user # None
        <5>1. login = <<Held(a).user, Held(a).realm>> /\ who = <<Held(a).user, RealmOf(a)>>
          BY <4>1, <4>3 DEF Fits
        <5>2. Held(a).user \in Users /\ Held(a).realm \in Realms
          BY <4>1, <4>3 DEF Fits, Contents
        <5> QED BY <5>1, <5>2 DEF RealmOf, SameUser
      <4> QED BY <4>2, <4>3
    <3> QED BY <3>1, <3>2
  <2>2. p.shown = g.shown /\ p.owed = g.owed /\ p.check = g.check /\ p.ours = g.ours
    BY <1>2 DEF NewPage
  <2>3. True(p) /\ (p.user # None => SameUser(p.user, login'))
    BY <1>1, <1>2, <1>3, <1>4, <2>1, <2>2 DEF Attends, True
  <2> QED BY <1>1, <1>3, <1>4, <2>3 DEF Holds, Fits
<1>5. Keeping(r, p)
  BY <1>2 DEF Keeping, NewPage
<1>6. Good(r, a)
  BY <1>3
<1> QED BY <1>1, <1>4, <1>5, <1>6, TurnPlug

LEMMA LogoutPlug ==
    ASSUME Quiet, NEW r \in Requests, Logout(r)
    PROVE  PluginInv'
<1> PICK l, g : l = LoadSession(r, req[r]) /\ g = page[r]
  OBVIOUS
<1> PICK p : p = [g EXCEPT !.user = None]
  OBVIOUS
<1> PICK c : c = IF Restorable(l) THEN [Held(l) EXCEPT !.user = None] ELSE Held(l)
  OBVIOUS
<1> PICK a : a = IF Restorable(l) THEN Put(r, l, c) ELSE l
  OBVIOUS
<1>1. /\ Touches(r) /\ Leaves(r, a, p) /\ UNCHANGED <<cookie, forms, untold, valid>>
      /\ login' = None
  BY DEF Logout, Calls
<1>2. /\ DOMAIN p = DOMAIN NewPage /\ p.user = None
      /\ \A f \in DOMAIN NewPage \ {"user"} : p[f] = g[f]
  BY DEF Quiet, OwnInv, HeadInv, Page, NewPage
<1>3. Good(r, a) /\ a.gone = l.gone /\ (l.gone = {} /\ c \in Contents => Lost(a) /\ Finds(a) = c)
  <2>1. CASE Restorable(l)
    <3>1. Held(l) # Bare
      BY <2>1 DEF Restorable, Bare
    <3>2. Writes(r, l, c, a)
      BY <2>1, <3>1 DEF Writes
    <3> QED BY <1>1, <3>2, Stores
  <2>2. CASE ~Restorable(l)
    BY <1>1, <2>2, Looks
  <2> QED BY <2>1, <2>2
<1>4. ASSUME a.gone = {} PROVE Holds(r, a, c) /\ True(p) /\ (p.user # None => SameUser(p.user, login'))
  <2>1. /\ req[r].gone = {} /\ Attends(r) /\ Held(l) = Finds(req[r]) /\ Fits(Held(l))
        /\ Held(l) \in Contents
    BY <1>1, <1>3, <1>4, Looks
  <2>2. /\ c \in Contents /\ c.messages = Held(l).messages /\ c.user = None /\ c.secret = Held(l).secret
    BY <2>1 DEF Contents, Restorable
  <2>3. p.seen = g.seen /\ p.loggedIn = g.loggedIn /\ p.shown = g.shown /\ p.owed = g.owed
        /\ p.check = g.check /\ p.ours = g.ours
    BY <1>2 DEF NewPage
  <2>4. True(p)
    BY <2>1, <2>3 DEF Attends, True
  <2> QED BY <1>1, <1>2, <1>3, <1>4, <2>1, <2>2, <2>4 DEF Holds, Fits
<1>5. Keeping(r, p)
  BY <1>2 DEF Keeping, NewPage
<1> QED BY <1>1, <1>3, <1>4, <1>5, TurnPlug

\* The token a request comes with, the secret its page gets, and what belongs to either.
LEMMA Token ==
    ASSUME Quiet, Protective, NEW r \in Requests, Touches(r), ~page[r].dispatched,
           NEW q, q = IF InSession THEN LoadSession(r, req[r]) ELSE req[r], q.gone = {},
           NEW s, s = GetToken(r, q)
    PROVE  /\ s \in Secrets /\ Suits(s)
           /\ InSession => s = Finds(req[r]).secret
           /\ ~InSession => s = page[r].cookie.secret
           /\ s = None => valid = {} /\ \A f \in Requests : forms[f] # r
<1>1. Malformed \notin Secrets
  BY ClientsConstants DEF Malformed, Secrets, Requests
<1>2. InSession => s = Finds(req[r]).secret /\ s \in Secrets /\ Suits(s)
  <2> SUFFICES ASSUME InSession PROVE s = Finds(req[r]).secret /\ s \in Secrets /\ Suits(s)
    OBVIOUS
  <2>1. Held(q) = Finds(req[r]) /\ Fits(Held(q)) /\ Held(q) \in Contents
    BY Looks
  <2>2. s = Held(q).secret
    BY DEF GetToken
  <2>3. s \in Secrets
    BY <2>1, <2>2 DEF Contents
  <2>4. Suits(s)
    BY <2>1, <2>2 DEF Fits
  <2> QED BY <2>1, <2>2, <2>3, <2>4
<1>3. ~InSession => s = page[r].cookie.secret /\ s \in Secrets /\ Suits(s)
  <2> SUFFICES ASSUME ~InSession PROVE s = page[r].cookie.secret /\ s \in Secrets /\ Suits(s)
    OBVIOUS
  <2>1. Attends(r)
    BY DEF Quiet, PluginInv, Touches
  <2>2. page[r].cookie.secret \in Secrets /\ Suits(page[r].cookie.secret)
    BY <2>1 DEF Attends
  <2>3. s = page[r].cookie.secret
    BY <1>1, <2>2 DEF GetToken
  <2> QED BY <2>2, <2>3
<1>4. req[r].gone = {}
  <2>1. CASE InSession
    BY <2>1, Looks
  <2>2. CASE ~InSession
    BY <2>2
  <2> QED BY <2>1, <2>2
<1>5. ASSUME s = None PROVE valid = {} /\ \A f \in Requests : forms[f] # r
  <2>1. \A f \in Requests : f \notin valid
    BY <1>2, <1>3, <1>5 DEF Suits
  <2>2. valid = {}
    BY <2>1 DEF Quiet, RestInv
  <2>3. ASSUME NEW f \in Requests, forms[f] = r PROVE FALSE
    <3>1. Made(forms[f])
      BY <1>4, FormsMade DEF Quiet
    <3>2. r # None
      BY ClientsConstants
    <3> QED BY <2>3, <3>1, <3>2 DEF Made, Touches
  <2> QED BY <2>2, <2>3
<1> QED BY <1>2, <1>3, <1>5

LEMMA FormChecked ==
    ASSUME RestInv, NEW f \in Sent, NEW s, Suits(s)
    PROVE  (s # None /\ f # None /\ forms[f] = s) <=> f \in valid
<1>1. f \in Requests => (f \in valid <=> forms[f] # None /\ forms[f] = s)
  BY DEF Suits
<1>2. None \notin Requests /\ valid \subseteq Requests
  BY ClientsConstants DEF RestInv
<1>3. f = None \/ (f \in Requests /\ forms[f] # None)
  BY DEF Sent
<1> QED BY <1>1, <1>2, <1>3

\* The page of a request when its dispatch begins, and after the check of its form.
LEMMA ArrivedPage ==
    ASSUME Quiet, NEW r \in Requests, NEW q, NEW f, NEW n, n = Arrived(r, q),
           NEW p, p \in {n, Checked(r, q, n, f)}
    PROVE  /\ DOMAIN p = DOMAIN NewPage /\ p.dispatched /\ p.secret = SecretOfPage(r, GetToken(r, q))
           /\ \A x \in DOMAIN NewPage \ {"dispatched", "secret", "ours", "check", "head"} : p[x] = page[r][x]
           /\ p = n => p.check = page[r].check /\ p.ours = page[r].ours
           /\ p # n => /\ p.ours = (f \in valid)
                       /\ p.check = IF GetToken(r, q) # None /\ f # None /\ forms[f] = GetToken(r, q)
                                    THEN "accepted" ELSE "rejected"
<1> PICK s : s = GetToken(r, q)
  OBVIOUS
<1>1. DOMAIN page[r] = DOMAIN NewPage
  BY DEF Quiet, OwnInv, HeadInv, Page
<1>2. n = [page[r] EXCEPT !.dispatched = TRUE, !.secret = SecretOfPage(r, s)]
  BY DEF Arrived
<1>3. /\ DOMAIN n = DOMAIN NewPage /\ n.dispatched = TRUE /\ n.secret = SecretOfPage(r, s)
      /\ \A x \in DOMAIN NewPage \ {"dispatched", "secret"} : n[x] = page[r][x]
  BY <1>1, <1>2 DEF NewPage
<1>4. CASE p = n
  BY <1>3, <1>4 DEF NewPage
<1>5. CASE p # n
  <2> PICK t : t = [n EXCEPT !.ours = f \in valid]
    OBVIOUS
  <2>1. /\ DOMAIN t = DOMAIN NewPage /\ t.ours = (f \in valid)
        /\ \A x \in DOMAIN NewPage \ {"ours"} : t[x] = n[x]
    BY <1>3 DEF NewPage
  <2>2. CASE s # None /\ f # None /\ forms[f] = s
    <3>1. p = [t EXCEPT !.check = "accepted"]
      BY <1>5, <2>2 DEF Checked
    <3>2. /\ DOMAIN p = DOMAIN NewPage /\ p.check = "accepted"
          /\ \A x \in DOMAIN NewPage \ {"check"} : p[x] = t[x]
      BY <2>1, <3>1 DEF NewPage
    <3> QED BY <1>3, <1>5, <2>1, <2>2, <3>2 DEF NewPage
  <2>3. CASE ~(s # None /\ f # None /\ forms[f] = s)
    <3>1. p = [t EXCEPT !.check = "rejected", !.head = q]
      BY <1>5, <2>3 DEF Checked, Rejected
    <3>2. /\ DOMAIN p = DOMAIN NewPage /\ p.check = "rejected"
          /\ \A x \in DOMAIN NewPage \ {"check", "head"} : p[x] = t[x]
      BY <2>1, <3>1 DEF NewPage
    <3> QED BY <1>3, <1>5, <2>1, <2>3, <3>2 DEF NewPage
  <2> QED BY <2>2, <2>3
<1> QED BY <1>4, <1>5

LEMMA BeforeDispatchPlug ==
    ASSUME Quiet, NEW r \in Requests, NEW kind \in Kinds, NEW f \in Sent, BeforeDispatch(r, kind, f)
    PROVE  PluginInv'
<1> PICK g, q : g = page[r] /\ q = IF InSession THEN LoadSession(r, req[r]) ELSE req[r]
  OBVIOUS
<1> PICK s, n : s = GetToken(r, q) /\ n = Arrived(r, q)
  OBVIOUS
<1> PICK p : p = IF kind = "unsafe" THEN Checked(r, q, n, f) ELSE n
  OBVIOUS
<1> DEFINE new == s = None /\ kind # "ignored"
<1> PICK c : c = [Held(q) EXCEPT !.secret = p.secret]
  OBVIOUS
<1> PICK a : a = IF new /\ InSession THEN Put(r, q, c) ELSE q
  OBVIOUS
<1> PICK t : t = IF new /\ ~InSession THEN [p EXCEPT !.setCookie = p.head = None] ELSE p
  OBVIOUS
<1>1. /\ Touches(r) /\ ~g.dispatched /\ UNCHANGED <<cookie, forms, login, untold, valid>>
      /\ Leaves(r, a, t) /\ (new => MayStore(q)) /\ scenario' = scenario
  <2>1. /\ Touches(r) /\ ~g.dispatched /\ UNCHANGED <<cookie, forms, login, untold, valid>>
        /\ IF new THEN MayStore(q) /\ SetToken(r, q, p) ELSE Leaves(r, q, p)
    BY DEF BeforeDispatch
  <2>2. Leaves(r, a, t)
    BY <2>1 DEF SetToken
  <2> QED BY <2>1, <2>2 DEF Leaves, Becomes
<1>2. /\ DOMAIN p = DOMAIN NewPage /\ p.dispatched /\ p.secret = SecretOfPage(r, s)
      /\ \A x \in DOMAIN NewPage \ {"dispatched", "secret", "ours", "check", "head"} : p[x] = g[x]
      /\ p = n => p.check = g.check /\ p.ours = g.ours
      /\ p # n => /\ p.ours = (f \in valid)
                  /\ p.check = IF s # None /\ f # None /\ forms[f] = s THEN "accepted" ELSE "rejected"
  BY ArrivedPage
<1>3. /\ DOMAIN t = DOMAIN NewPage
      /\ \A x \in DOMAIN NewPage \ {"setCookie"} : t[x] = p[x]
  BY <1>2 DEF NewPage
<1>4. /\ t.dispatched /\ t.secret = (IF s = None THEN r ELSE s) /\ t.cookie = g.cookie /\ t.user = g.user
      /\ t.seen = g.seen /\ t.loggedIn = g.loggedIn /\ t.shown = g.shown /\ t.owed = g.owed
      /\ t.check = p.check /\ t.ours = p.ours
  BY <1>2, <1>3 DEF NewPage, SecretOfPage
<1>5. Good(r, q) /\ (q.gone = {} => /\ req[r].gone = {} /\ Attends(r) /\ Lost(q)
                                    /\ Finds(q) = Finds(req[r])
                                    /\ InSession => Held(q) = Finds(q))
  <2>1. CASE InSession
    BY <1>1, <2>1, Looks
  <2>2. CASE ~InSession
    BY <1>1, <2>2, GoodAtFirst DEF Quiet, OwnInv, PluginInv, Touches, Attends
  <2> QED BY <2>1, <2>2
<1>6. new /\ InSession => /\ a.gone = q.gone /\ Good(r, a)
                          /\ q.gone = {} /\ c \in Contents => Lost(a) /\ Finds(a) = c
  <2> SUFFICES ASSUME new, InSession
               PROVE  /\ a.gone = q.gone /\ Good(r, a)
                      /\ q.gone = {} /\ c \in Contents => Lost(a) /\ Finds(a) = c
    OBVIOUS
  <2>1. Writes(r, q, c, a)
    BY <1>1 DEF Writes
  <2> QED BY <1>1, <2>1, Stores
<1>7. Good(r, a) /\ a.gone = q.gone
  BY <1>5, <1>6
<1>8. ASSUME a.gone = {}, Onward, req'[r] = a, page'[r] = t PROVE Attends(r)'
  <2>1. Attends(r) /\ Lost(q) /\ Finds(q) = Finds(req[r]) /\ (InSession => Held(q) = Finds(q))
    BY <1>5, <1>7, <1>8
  <2> PICK d, b : d = Finds(a) /\ b = Finds(q)
    OBVIOUS
  <2>2. b \in Contents /\ Fits(b)
    BY <2>1 DEF Attends, Fits
  <2>3. /\ d \in Contents /\ Lost(a) /\ d.user = b.user /\ d.realm = b.realm /\ d.messages = b.messages
        /\ d.secret = IF new /\ InSession THEN r ELSE b.secret
    <3>1. CASE new /\ InSession
      <4>1. p.secret = r /\ Held(q) = b
        BY <1>2, <2>1, <3>1 DEF SecretOfPage
      <4>2. /\ c \in Contents /\ c.user = b.user /\ c.realm = b.realm /\ c.messages = b.messages
            /\ c.secret = r
        BY <2>2, <4>1 DEF Contents, Secrets
      <4> QED BY <1>6, <1>7, <1>8, <3>1, <4>2
    <3>2. CASE ~(new /\ InSession)
      BY <2>1, <2>2, <3>2
    <3> QED BY <3>1, <3>2
  <2>4. (Protective' <=> Protective) /\ (InSession' <=> InSession)
    BY <1>1 DEF Protective, InSession, habits
  <2>5. ASSUME Protective
        PROVE  /\ kind # "ignored" /\ t.secret # None /\ s \in Secrets /\ Suits(s) /\ Suits(t.secret)'
               /\ InSession => s = b.secret
               /\ ~InSession => s = g.cookie.secret
    <3>1. /\ s \in Secrets /\ Suits(s)
          /\ InSession => s = b.secret
          /\ ~InSession => s = g.cookie.secret
          /\ s = None => valid = {} /\ \A x \in Requests : forms[x] # r
      BY <1>1, <1>7, <1>8, <2>1, <2>5, Token
    <3>2. kind # "ignored" /\ r # None
      BY <2>5, ClientsConstants DEF Kinds, Protective
    <3>3. Suits(t.secret)'
      <4>1. CASE s # None
        <5>1. Suits(s)'
          BY <1>1, <1>8, <3>1, SuitsKept
        <5> QED BY <1>4, <4>1, <5>1 DEF Suits, Made
      <4>2. CASE s = None
        <5>1. req'[r].pc = "active"
          BY <1>7, <1>8 DEF Good
        <5>2. Made(r)'
          BY <1>4, <1>8, <5>1 DEF Made
        <5>3. valid' = {} /\ \A x \in Requests : forms'[x] # r
          BY <1>1, <3>1, <4>2
        <5> QED BY <1>4, <4>2, <5>2, <5>3, ZenonT(40) DEF Suits, Made
      <4> QED BY <4>1, <4>2
    <3> QED BY <1>4, <3>1, <3>2, <3>3
  <2>6. True(t)'
    <3>1. ASSUME Protective, t.check # "none" PROVE (t.check = "accepted") = t.ours
      <4>1. CASE p = n
        BY <1>2, <1>4, <2>1, <3>1, <4>1 DEF Attends, True
      <4>2. CASE p # n
        <5>1. (s # None /\ f # None /\ forms[f] = s) <=> f \in valid
          BY <2>5, <3>1, FormChecked DEF Quiet
        <5> QED BY <1>2, <1>4, <4>2, <5>1
      <4> QED BY <4>1, <4>2
    <3> QED BY <1>4, <2>1, <2>4, <3>1 DEF Attends, True
  <2>7. Protective' /\ InSession' => t.secret = d.secret /\ Suits(d.secret)'
    <3> SUFFICES ASSUME Protective, InSession PROVE t.secret = d.secret /\ Suits(d.secret)'
      BY <2>4
    <3>1. t.secret = d.secret
      BY <1>4, <2>3, <2>5
    <3> QED BY <2>5, <3>1, SMTT(30) DEF Suits, Made
  <2>8. Fits(d)'
    BY <1>1, <2>2, <2>3, <2>7 DEF Fits
  <2>9. Finds(req[r])' = d /\ Lost(req[r])'
    BY <1>8, <2>3 DEF Finds, Meant, Lost
  <2>10. Fits(Finds(req[r]))'
    BY <2>8, <2>9 DEF Fits, Suits, Made
  <2>11. Protective' /\ ~InSession' =>
             /\ cookie'.secret \in {None, t.cookie.secret} /\ t.cookie.secret \in Secrets
             /\ Suits(t.secret)'
             /\ t.cookie.secret # None => t.secret = t.cookie.secret
    BY <1>1, <1>4, <2>1, <2>4, <2>5, ZenonT(40) DEF Attends
  <2>12. t.user # None => SameUser(t.user, login')
    BY <1>1, <1>4, <2>1 DEF Attends
  <2>13. True(page[r])'
    BY <1>8, <2>6 DEF True
  <2>14. (Protective /\ page[r].dispatched => page[r].secret # None)'
    BY <1>8, <2>4, <2>5
  <2>15. (Protective /\ InSession /\ page[r].dispatched => page[r].secret = Finds(req[r]).secret)'
    BY <1>8, <2>7, <2>9
  <2>16. (Protective /\ ~InSession =>
             /\ cookie.secret \in {None, page[r].cookie.secret} /\ page[r].cookie.secret \in Secrets
             /\ IF page[r].dispatched THEN Suits(page[r].secret) ELSE Suits(page[r].cookie.secret)
             /\ page[r].dispatched /\ page[r].cookie.secret # None => page[r].secret = page[r].cookie.secret
             /\ page[r].setCookie => page[r].dispatched)'
    BY <1>4, <1>8, <2>11, ZenonT(40) DEF Suits, Made
  <2> QED BY <1>8, <2>9, <2>10, <2>12, <2>13, <2>14, <2>15, <2>16 DEF Attends
<1>9. a.gone = {} => req[r].gone = {}
  BY <1>5, <1>7
<1> QED BY <1>1, <1>4, <1>7, <1>8, <1>9, PluginPlug, ZenonT(40) DEF Quiet

LEMMA TokenPlug ==
    ASSUME Quiet, NEW r \in Requests, TokenFormField(r)
    PROVE  PluginInv'
<1> PICK g, z, c : g = page[r] /\ z = page[r].secret /\ c = Finds(req[r])
  OBVIOUS
<1>1. /\ Touches(r) /\ g.dispatched /\ UNCHANGED <<scenario, req, dead, alone, page, cookie, login, untold>>
      /\ forms' = [forms EXCEPT ![r] = z] /\ valid' = valid \cup {r}
  BY DEF TokenFormField, Calls, vars
<1>2. Onward
  BY <1>1 DEF Onward
<1>3. \A f \in Requests : forms'[f] = IF f = r THEN z ELSE forms[f]
  BY <1>1 DEF Quiet, RestInv
<1>4. (Protective' <=> Protective) /\ (InSession' <=> InSession)
  BY <1>1 DEF Protective, InSession, habits
<1>5. ASSUME req[r].gone = {} PROVE Attends(r) /\ c \in Contents /\ Fits(c)
  BY <1>1, <1>5 DEF Quiet, PluginInv, Touches, Attends, Fits
<1>6. ASSUME req[r].gone = {}, Protective
      PROVE  z # None /\ Suits(z) /\ Suits(z)' /\ (InSession => z = c.secret)
  <2>1. z # None /\ Suits(z) /\ (InSession => z = c.secret)
    BY <1>1, <1>5, <1>6 DEF Attends, Fits
  <2>2. Made(z)'
    BY <1>2, <2>1, MadeKept DEF Suits
  <2>3. ASSUME NEW f \in Requests PROVE f \in valid' <=> forms'[f] # None /\ forms'[f] = z
    BY <1>1, <1>3, <2>1 DEF Suits
  <2> QED BY <2>1, <2>2, <2>3 DEF Suits, Made
<1>7. ASSUME req[r].gone = {} PROVE (Protective => \A f \in Requests : Made(forms[f]))'
  <2> SUFFICES ASSUME Protective, NEW f \in Requests PROVE Made(forms[f])'
    BY <1>4
  <2> PICK s : s = forms[f]
    OBVIOUS
  <2>1. Made(s)'
    BY <1>1, <1>2, <1>7, FormsMade, MadeKept DEF Quiet
  <2>2. Made(z)'
    BY <1>6, <1>7 DEF Suits, Made
  <2> QED BY <1>3, <2>1, <2>2 DEF Made
<1>8. ASSUME req[r].gone = {} PROVE Attends(r)'
  <2>1. Fits(c)'
    <3>1. Protective' /\ InSession' => Suits(c.secret)'
      BY <1>4, <1>6, <1>8 DEF Suits, Made
    <3> QED BY <1>1, <1>5, <1>8, <3>1 DEF Fits, Suits, Made
  <2>2. Finds(req[r])' = c /\ Lost(req[r])'
    BY <1>1, <1>5, <1>8 DEF Attends, Finds, Meant, Lost
  <2>3. Fits(Finds(req[r]))'
    BY <2>1, <2>2 DEF Fits, Suits, Made
  <2>4. True(page[r])'
    BY <1>1, <1>4, <1>5, <1>8 DEF Attends, True
  <2>5. (Protective /\ page[r].dispatched => page[r].secret # None)'
    BY <1>1, <1>4, <1>6, <1>8
  <2>6. (Protective /\ InSession /\ page[r].dispatched => page[r].secret = Finds(req[r]).secret)'
    BY <1>1, <1>4, <1>6, <1>8, <2>2
  <2>7. (Protective /\ ~InSession =>
             /\ cookie.secret \in {None, page[r].cookie.secret} /\ page[r].cookie.secret \in Secrets
             /\ IF page[r].dispatched THEN Suits(page[r].secret) ELSE Suits(page[r].cookie.secret)
             /\ page[r].dispatched /\ page[r].cookie.secret # None => page[r].secret = page[r].cookie.secret
             /\ page[r].setCookie => page[r].dispatched)'
    <3>1. Protective' => Suits(z)'
      BY <1>4, <1>6, <1>8
    <3>2. Protective /\ ~InSession =>
              /\ cookie.secret \in {None, g.cookie.secret} /\ g.cookie.secret \in Secrets
              /\ g.cookie.secret # None => z = g.cookie.secret
      BY <1>1, <1>5, <1>8 DEF Attends
    <3> QED BY <1>1, <1>4, <3>1, <3>2 DEF Suits, Made
  <2>8. page'[r].user # None => SameUser(page'[r].user, login')
    BY <1>1, <1>5, <1>8 DEF Attends
  <2> QED BY <2>2, <2>3, <2>4, <2>5, <2>6, <2>7, <2>8 DEF Attends
<1>9. req'[r].pc = "active" /\ req'[r].gone = req[r].gone
  BY <1>1 DEF Touches
<1> QED BY <1>1, <1>7, <1>8, <1>9, ActivePlug DEF Quiet

LEMMA PluginCallPlug ==
    ASSUME OwnInv, KeptInv, RestInv, PluginInv, ByPlugins, alone, NEW r \in Requests, PluginCall(r)
    PROVE  PluginInv'
<1>1. dead' = dead
  <2>1. SessionInv /\ NeverLate /\ DOMAIN page[r] = DOMAIN NewPage
    BY DEF OwnInv, HeadInv, Page, ByPlugins, Attentive, NeverLate
  <2>2. (\E q, p : Leaves(r, q, p)) \/ UNCHANGED <<vars, page>>
    BY <2>1, PluginSteps
  <2> QED BY <2>2 DEF Leaves, Becomes, vars
<1> SUFFICES ASSUME dead = {} PROVE PluginInv'
  BY <1>1 DEF PluginInv
<1>2. Quiet
  BY DEF Quiet
<1> QED BY <1>2, StatusPlug, LoadPlug, AuthenticatePlug, UserPlug, LogoutPlug, BeforeDispatchPlug, TokenPlug
        DEF PluginCall

LEMMA StartPlug ==
    ASSUME OwnInv, KeptInv, PluginInv, alone', NEW r \in Requests, NEW t \in Threads, NEW p \in Peers,
           Start(r, t, p), Arrives(r)
    PROVE  PluginInv'
<1> PICK x : x = [NewRequest EXCEPT !.pc = "active", !.thread = t, !.peer = p, !.client = client,
                                    !.past = dead]
  OBVIOUS
<1>1. /\ req[r].pc = "new" /\ req' = [req EXCEPT ![r] = x] /\ UNCHANGED <<scenario, dead, cookie, forms>>
      /\ alone /\ \A o \in Requests : o < r => req[o].pc = "done"
      /\ login'  = IF client.sid = NoSid THEN None ELSE login
      /\ untold' = IF client.sid = NoSid THEN {} ELSE untold
      /\ valid'  = IF (IF InSession THEN client.sid = NoSid ELSE cookie.secret = None) THEN {} ELSE valid
  BY DEF Start, Arrives
<1>2. /\ x.pc = "active" /\ x.client = client /\ x.gone = {} /\ x.deletedId = FALSE /\ x.readAt = 0
  BY DEF NewRequest
<1>3. PICK c \in Returned : page' = [page EXCEPT ![r] = [NewPage EXCEPT !.cookie = c]]
  BY DEF Arrives
<1> PICK g : g = [NewPage EXCEPT !.cookie = c]
  OBVIOUS
<1>4. \A o \in Requests : /\ req'[o] = IF o = r THEN x ELSE req[o]
                          /\ page'[o] = IF o = r THEN g ELSE page[o]
  BY <1>1, <1>3 DEF OwnInv, SessionInv, TypesInv, HeadInv
<1>5. /\ g.cookie = c /\ g.dispatched = FALSE /\ g.user = None /\ g.seen = None /\ g.loggedIn = None
      /\ g.shown = FALSE /\ g.owed = FALSE /\ g.check = "none" /\ g.setCookie = FALSE
  BY DEF NewPage
<1>6. \A o \in Requests : Resting(o)
  <2>1. \A o, s \in Requests : o < s /\ req[o].pc = "new" => req[s].pc = "new"
    BY <1>1 DEF KeptInv
  <2> SUFFICES ASSUME NEW o \in Requests PROVE Resting(o)
    OBVIOUS
  <2>2. o < r \/ o = r \/ r < o
    BY DEF Requests
  <2> QED BY <1>1, <2>1, <2>2 DEF Resting
<1> SUFFICES ASSUME dead = {} PROVE PluginInv'
  BY <1>1 DEF PluginInv
<1>7. /\ Protective => \A f \in Requests : Made(forms[f])
      /\ client.sid # NoSid => Fits(Meant(client.value))
      /\ Protective /\ ~InSession => /\ cookie.secret \in Secrets
                                     /\ cookie.secret # None => Suits(cookie.secret)
  BY <1>1, <1>6 DEF PluginInv, Resting
<1>8. Onward
  BY <1>1, <1>4 DEF Onward
<1>9. (Protective' <=> Protective) /\ (InSession' <=> InSession)
  BY <1>1 DEF Protective, InSession, habits
<1>10. (Protective => \A f \in Requests : Made(forms[f]))'
  BY <1>1, <1>7, <1>8, FormsKept
<1>11. ASSUME valid' = {} PROVE Suits(None)'
  BY <1>11 DEF Suits, Made
<1> PICK d : d = Finds(x)
  OBVIOUS
<1>12. Fits(d)'
  <2>1. CASE client.sid = NoSid
    <3>1. d = Bare
      BY <1>2, <2>1 DEF Finds
    <3>2. d \in Contents /\ d.user = None /\ d.messages = {} /\ d.secret = None
      <4>1. Bare \in Contents
        BY DEF Bare, Contents, Secrets
      <4>2. Bare.user = None /\ Bare.messages = {} /\ Bare.secret = None
        BY DEF Bare
      <4> QED BY <3>1, <4>1, <4>2
    <3>3. Protective' /\ InSession' => Suits(d.secret)'
      BY <1>1, <1>9, <1>11, <2>1, <3>2 DEF Suits, Made
    <3> QED BY <1>1, <2>1, <3>2, <3>3 DEF Fits, Suits, Made
  <2>2. CASE client.sid # NoSid
    <3>1. d = Meant(client.value) /\ Fits(d)
      BY <1>2, <1>7, <2>2 DEF Finds
    <3>2. Protective /\ InSession => Suits(d.secret)'
      <4> SUFFICES ASSUME Protective, InSession PROVE Suits(d.secret)'
        OBVIOUS
      <4> PICK s : s = d.secret
        OBVIOUS
      <4>1. Suits(s) /\ valid' = valid
        BY <1>1, <2>2, <3>1 DEF Fits
      <4>2. Suits(s)'
        BY <1>1, <1>8, <4>1, SuitsKept
      <4> QED BY <4>2 DEF Suits, Made
    <3> QED BY <1>1, <1>9, <2>2, <3>1, <3>2 DEF Fits, Suits, Made
  <2> QED BY <2>1, <2>2
<1>13. ASSUME Protective, ~InSession
       PROVE  c = cookie /\ c.secret \in Secrets /\ Suits(c.secret)'
  <2>1. c = cookie
    BY <1>13 DEF Returned, Protective
  <2>2. CASE cookie.secret = None
    BY <1>1, <1>7, <1>11, <1>13, <2>1, <2>2 DEF Suits, Made
  <2>3. CASE cookie.secret # None
    <3> PICK s : s = cookie.secret
      OBVIOUS
    <3>1. Suits(s) /\ valid' = valid
      BY <1>1, <1>7, <1>13, <2>3
    <3>2. Suits(s)'
      BY <1>1, <1>8, <3>1, SuitsKept
    <3> QED BY <1>7, <1>13, <2>1, <3>2 DEF Suits, Made
  <2> QED BY <2>2, <2>3
<1>14. Attends(r)'
  <2>1. Finds(req[r])' = d /\ Lost(req[r])'
    BY <1>2, <1>4 DEF Finds, Meant, Lost
  <2>2. Fits(Finds(req[r]))'
    BY <1>12, <2>1 DEF Fits, Suits, Made
  <2>3. page'[r] = g
    BY <1>4
  <2>4. True(page[r])'
    BY <1>5, <2>3 DEF True, SameUser
  <2>5. (Protective /\ ~InSession =>
             /\ cookie.secret \in {None, page[r].cookie.secret} /\ page[r].cookie.secret \in Secrets
             /\ IF page[r].dispatched THEN Suits(page[r].secret) ELSE Suits(page[r].cookie.secret)
             /\ page[r].dispatched /\ page[r].cookie.secret # None => page[r].secret = page[r].cookie.secret
             /\ page[r].setCookie => page[r].dispatched)'
    BY <1>1, <1>5, <1>9, <1>13, <2>3 DEF Suits, Made
  <2> QED BY <1>5, <2>1, <2>2, <2>3, <2>4, <2>5 DEF Attends
<1>15. ASSUME NEW o \in Requests, o # r PROVE req'[o].pc \notin {"active", "answered"}
  BY <1>4, <1>6, <1>15 DEF Resting
<1>16. req'[r].pc = "active"
  BY <1>2, <1>4
<1> QED BY <1>10, <1>14, <1>15, <1>16 DEF PluginInv, Resting

LEMMA AfterDispatchPlug ==
    ASSUME OwnInv, KeptInv, PluginInv, ByPlugins, alone, NEW r \in Requests, AfterDispatch(r),
           UNCHANGED plugins
    PROVE  PluginInv'
<1> PICK a, g : a = SaveSession(r, req[r]) /\ g = page[r]
  OBVIOUS
<1> PICK q : q = [a EXCEPT !.pc = "answered"]
  OBVIOUS
<1>1. /\ Touches(r) /\ Visited(req[r]) /\ UNCHANGED <<scenario, client, alone, page, cookie, forms>>
      /\ UNCHANGED <<login, untold, valid>> /\ dead' = dead \cup q.gone
  BY DEF AfterDispatch, ByPlugins, Attentive, Visited, plugins
<1>2. PICK x : req' = [req EXCEPT ![r] = x] /\ x \in {q, Forget(q)}
  BY DEF AfterDispatch
<1>3. SessionInv /\ Good(r, req[r])
  BY <1>1, GoodAtFirst DEF OwnInv
<1>4. /\ Served(r) /\ Ready(r, req[r]) /\ Grounds(req[r].client)
      /\ \A o \in Requests : o # r => Resting(o)
  BY <1>1, AloneServed
<1>5. Good(r, a) /\ Keeps(req[r], a) /\ a.file = req[r].file /\ Sends(a, a) /\ a.until \in Nat /\ Reads(a)
  BY <1>1, <1>3, <1>4, SaveSessionReady
<1>6. Same(req[r], a, Ending)
  BY <1>1, <1>3, <1>4, SaveSessionSame
<1>7. DOMAIN q = Fields /\ q.pc = "answered" /\ \A f \in Fields \ {"pc"} : q[f] = a[f]
  BY <1>5 DEF Good, Stash, Fields
<1>8. Stash(q) /\ Reads(q) /\ Alike(a, q)
  BY <1>5, <1>7 DEF Good, Stash, Fields, Reads, Alike
<1>9. x.pc = "answered" /\ Alike(a, x)
  <2>1. CASE x = q
    BY <1>7, <1>8, <2>1
  <2>2. CASE x = Forget(q)
    <3>1. x.pc = q.pc /\ (q.pc # "done" => Alike(q, x))
      BY <1>8, <2>2, ForgetKept
    <3> QED BY <1>7, <1>8, <3>1 DEF Alike
  <2> QED BY <1>2, <2>1, <2>2
<1>10. q.gone = req[r].gone
  BY <1>6, <1>7 DEF Same, Ending, Dated, Fields
<1> SUFFICES ASSUME dead = {}, req[r].gone = {} PROVE PluginInv'
  BY <1>1, <1>10 DEF PluginInv
<1>11. Attends(r)
  BY <1>1 DEF PluginInv, Touches
<1>12. \A o \in Requests : req'[o] = IF o = r THEN x ELSE req[o]
  BY <1>2, <1>3 DEF SessionInv, TypesInv
<1>13. Onward
  BY <1>1, <1>9, <1>12 DEF Onward
<1>14. (Protective => \A f \in Requests : Made(forms[f]))'
  BY <1>1, <1>13, FormsMade, FormsKept
<1>15. (Protective' <=> Protective) /\ (InSession' <=> InSession)
  BY <1>1 DEF Protective, InSession, habits
<1> PICK h : h = IF g.head = None THEN x ELSE g.head
  OBVIOUS
<1> PICK c : c = Given(client, a, h)
  OBVIOUS
<1>16. After(r)' = c
  <2>1. After(r)' = Given(client, x, h)
    BY <1>1, <1>12 DEF After, Answer
  <2> QED BY <1>9, <2>1 DEF Given, Alike
<1>17. Sends(a, h)
  <2>1. CASE g.head = None
    <3>1. h = x
      BY <2>1
    <3> QED BY <1>5, <1>9, <3>1 DEF Sends, Alike
  <2>2. CASE g.head # None
    <3>1. h = g.head /\ Sends(req[r], h) /\ h.until \in Nat
      BY <1>4, <2>2 DEF Served
    <3>2. req[r].extended \in Nat \cup {NoTime}
      BY <1>4 DEF Ready, Settled, Basic, Dates
    <3> QED BY <1>5, <3>1, <3>2, SendsKept
  <2> QED BY <2>1, <2>2
<1>18. ASSUME c.sid # NoSid PROVE Fits(Meant(c.value))'
  <2>1. Carried(client, req[r].client) /\ Lost(req[r])
    BY <1>4, <1>11 DEF Served, Attends
  <2> PICK d : d = Finds(req[r])
    OBVIOUS
  <2>2. Meant(c.value) = d
    BY <1>3, <1>4, <1>6, <1>17, <1>18, <2>1, FindsGiven
  <2>3. Fits(d)'
    BY <1>1, <1>11, <1>13, FitsKept DEF Attends
  <2> QED BY <2>2, <2>3
<1>19. Delivers(r)'
  <2>1. After(r)'.sid # NoSid => Fits(Meant(After(r).value))'
    <3>1. Meant(After(r).value)' = Meant(c.value)
      BY <1>16 DEF Meant
    <3> QED BY <1>16, <1>18, <3>1 DEF Fits, Suits, Made
  <2>2. True(page[r])'
    BY <1>1, <1>11, <1>15 DEF Attends, True
  <2> PICK s : s = IF g.setCookie THEN g.secret ELSE cookie.secret
    OBVIOUS
  <2>3. ASSUME Protective, ~InSession PROVE s \in Secrets /\ (s # None => Suits(s)')
    <3>1. s # None => Suits(s)
      BY <1>11, <2>3 DEF Attends
    <3>2. s # None => Suits(s)'
      BY <1>1, <1>13, <3>1, SuitsKept
    <3>3. s \in Secrets
      BY <3>1 DEF Suits, Made, Secrets
    <3> QED BY <3>2, <3>3
  <2> QED BY <1>1, <1>15, <2>1, <2>2, <2>3 DEF Delivers, Suits, Made
<1>20. ASSUME NEW o \in Requests, req'[o].pc \in {"active", "answered"} PROVE o = r /\ req'[o].pc = "answered"
  BY <1>4, <1>9, <1>12, <1>20 DEF Resting
<1>21. ~Resting(r)'
  BY <1>9, <1>12 DEF Resting
<1> QED BY <1>14, <1>19, <1>20, <1>21 DEF PluginInv

LEMMA ContextDeletedPlug ==
    ASSUME SessionInv, KeptInv, PluginInv, alone, NEW r \in Requests, ContextDeleted(r), UNCHANGED plugins
    PROVE  PluginInv'
<1> PICK x : x = Forget(req[r])
  OBVIOUS
<1>1. /\ req[r].pc \in {"answered", "done"} /\ req' = [req EXCEPT ![r] = x] /\ r \in Range(conns)
      /\ UNCHANGED <<scenario, client, dead, alone, page, cookie, forms, login, untold, valid>>
  BY DEF ContextDeleted, plugins
<1>2. x.pc = req[r].pc /\ (req[r].pc # "done" => Alike(req[r], x))
  BY ForgetKept DEF SessionInv, StashInv
<1>3. \A o \in Requests : req'[o] = IF o = r THEN x ELSE req[o]
  BY <1>1 DEF SessionInv, TypesInv
<1>4. \A o \in Requests : req'[o].pc = req[o].pc /\ (Resting(o)' <=> Resting(o))
  BY <1>2, <1>3 DEF Resting
<1>5. ASSUME NEW o \in Requests PROVE req[o].pc # "active"
  <2> SUFFICES ASSUME req[o].pc = "active" PROVE FALSE
    OBVIOUS
  <2>1. conns \in {<<>>, <<o>>}
    BY DEF KeptInv, Served
  <2>2. Range(conns) \subseteq {o}
    BY <2>1 DEF Range
  <2> QED BY <1>1, <2>2
<1>6. Onward
  BY <1>1, <1>4 DEF Onward
<1> SUFFICES ASSUME dead = {} PROVE PluginInv'
  BY <1>1 DEF PluginInv
<1>7. (Protective' <=> Protective) /\ (InSession' <=> InSession)
  BY <1>1 DEF Protective, InSession, habits
<1>8. (Protective => \A f \in Requests : Made(forms[f]))'
  BY <1>1, <1>5, <1>6, FormsKept DEF PluginInv
<1>9. ASSUME NEW o \in Requests, req[o].pc = "answered" PROVE Delivers(o)'
  <2> PICK c, p, s : /\ c = After(o) /\ p = page[o]
                     /\ s = IF page[o].setCookie THEN page[o].secret ELSE cookie.secret
    OBVIOUS
  <2>1. Delivers(o)
    BY <1>9 DEF PluginInv
  <2>2. After(o)' = c
    BY <1>1, <1>2, <1>3, <1>9 DEF After, Answer, Given, Alike
  <2>3. After(o)'.sid # NoSid => Fits(Meant(After(o).value))'
    <3> PICK d : d = Meant(c.value)
      OBVIOUS
    <3>1. c.sid # NoSid => Fits(d)'
      BY <1>1, <1>6, <2>1, FitsKept DEF Delivers
    <3>2. Meant(After(o).value)' = d
      BY <2>2 DEF Meant
    <3> QED BY <2>2, <3>1, <3>2 DEF Fits, Suits, Made
  <2>4. True(page[o])'
    BY <1>1, <1>7, <2>1 DEF Delivers, True
  <2>5. Protective /\ ~InSession => s \in Secrets /\ (s # None => Suits(s)')
    BY <1>1, <1>6, <2>1, SuitsKept DEF Delivers
  <2> QED BY <1>1, <1>7, <2>3, <2>4, <2>5 DEF Delivers, Suits, Made
<1>10. (\A o \in Requests : Resting(o))' =>
           /\ client'.sid # NoSid => Fits(Meant(client.value))'
           /\ Protective' /\ ~InSession' => /\ cookie'.secret \in Secrets
                                            /\ cookie'.secret # None => Suits(cookie.secret)'
  <2> SUFFICES ASSUME \A o \in Requests : Resting(o)
               PROVE  /\ client'.sid # NoSid => Fits(Meant(client.value))'
                      /\ Protective' /\ ~InSession' => /\ cookie'.secret \in Secrets
                                                       /\ cookie'.secret # None => Suits(cookie.secret)'
    BY <1>4
  <2> PICK d, s : d = Meant(client.value) /\ s = cookie.secret
    OBVIOUS
  <2>1. /\ client.sid # NoSid => Fits(d)
        /\ Protective /\ ~InSession => s \in Secrets /\ (s # None => Suits(s))
    BY DEF PluginInv
  <2>2. Fits(d) => Fits(d)'
    BY <1>1, <1>6, FitsKept
  <2>3. Suits(s) => Suits(s)'
    BY <1>1, <1>6, SuitsKept
  <2>4. Meant(client.value)' = d
    BY <1>1 DEF Meant
  <2> QED BY <1>1, <1>7, <2>1, <2>2, <2>3, <2>4 DEF Fits, Suits, Made
<1> QED BY <1>4, <1>5, <1>8, <1>9, <1>10 DEF PluginInv

LEMMA ClientAnsweredPlug ==
    ASSUME OwnInv, KeptInv, PluginInv, alone, NEW r \in Requests, ClientAnswered(r)
    PROVE  PluginInv'
<1> PICK d : d = [req[r] EXCEPT !.pc = "done"]
  OBVIOUS
<1> PICK x, c, g : x = (IF r \in Range(conns) THEN d ELSE Forget(d)) /\ c = After(r) /\ g = page[r]
  OBVIOUS
<1> PICK s : s = IF g.setCookie THEN g.secret ELSE cookie.secret
  OBVIOUS
<1>1. /\ req[r].pc = "answered" /\ req' = [req EXCEPT ![r] = x] /\ client' = c
      /\ UNCHANGED <<scenario, dead, alone, forms, login, untold, valid>>
      /\ cookie' = IF g.setCookie THEN [secret |-> g.secret, until |-> now + Lifetime] ELSE cookie
  BY DEF ClientAnswered, AnsweredWith, After, Given, Answer
<1>2. x.pc = "done"
  <2>1. Stash(req[r])
    BY <1>1 DEF OwnInv, SessionInv, StashInv
  <2>2. DOMAIN d = Fields /\ d.pc = "done"
    BY <2>1 DEF Stash, Fields
  <2>3. DOMAIN NewRequest = Fields
    BY DEF NewRequest, Fields
  <2>4. CASE x = Forget(d)
    <3>1. x = [NewRequest EXCEPT !.pc = "done"]
      BY <2>2, <2>4 DEF Forget
    <3> QED BY <2>3, <3>1 DEF Fields
  <2> QED BY <2>2, <2>4
<1>3. \A o \in Requests : req'[o] = IF o = r THEN x ELSE req[o]
  BY <1>1 DEF OwnInv, SessionInv, TypesInv
<1>4. \A o \in Requests : o # r => Resting(o)
  BY <1>1 DEF KeptInv, Resting
<1>5. \A o \in Requests : Resting(o)' /\ req'[o].pc \notin {"active", "answered"} /\ req[o].pc # "active"
  BY <1>1, <1>2, <1>3, <1>4 DEF Resting
<1>6. Onward
  BY <1>1, <1>2, <1>3, <1>5 DEF Onward
<1> SUFFICES ASSUME dead = {} PROVE PluginInv'
  BY <1>1 DEF PluginInv
<1>7. (Protective' <=> Protective) /\ (InSession' <=> InSession)
  BY <1>1 DEF Protective, InSession, habits
<1>8. (Protective => \A f \in Requests : Made(forms[f]))'
  BY <1>1, <1>5, <1>6, FormsKept DEF PluginInv
<1>9. Delivers(r)
  BY <1>1 DEF PluginInv
<1>10. client'.sid # NoSid => Fits(Meant(client.value))'
  <2> PICK b : b = Meant(c.value)
    OBVIOUS
  <2>1. c.sid # NoSid => Fits(b)'
    BY <1>1, <1>6, <1>9, FitsKept DEF Delivers
  <2>2. Meant(client.value)' = b
    BY <1>1 DEF Meant
  <2> QED BY <1>1, <2>1, <2>2 DEF Fits, Suits, Made
<1>11. cookie'.secret = s
  BY <1>1
<1>12. Protective /\ ~InSession => s \in Secrets /\ (s # None => Suits(s)')
  BY <1>1, <1>6, <1>9, SuitsKept DEF Delivers
<1>13. Protective' /\ ~InSession' => /\ cookie'.secret \in Secrets
                                     /\ cookie'.secret # None => Suits(cookie.secret)'
  BY <1>7, <1>11, <1>12 DEF Suits, Made
<1> QED BY <1>5, <1>8, <1>10, <1>13 DEF PluginInv

\* The clock goes on, or the client drops a cookie.
LEMMA PassesPlug ==
    ASSUME SessionInv, KeptInv, PluginInv, alone,
           UNCHANGED <<scenario, req, page, dead, alone, forms, login, untold, valid>>,
           client' \in {client, [client EXCEPT !.sid = NoSid]}, cookie' \in {cookie, NewPage.cookie}
    PROVE  PluginInv'
<1>1. /\ client'.sid \in {client.sid, NoSid} /\ client'.value = client.value
      /\ DOMAIN client' = {"sid", "until", "value", "peer"}
  BY DEF SessionInv, TypesInv
<1>2. cookie'.secret \in {cookie.secret, None}
  BY DEF NewPage
<1>3. Onward
  BY DEF Onward
<1> SUFFICES ASSUME dead = {} PROVE PluginInv'
  BY DEF PluginInv
<1>4. (Protective' <=> Protective) /\ (InSession' <=> InSession)
  BY DEF Protective, InSession, habits
<1>5. ASSUME Protective, \A o \in Requests : req[o].pc = "active" => req[o].gone = {}
      PROVE  (\A f \in Requests : Made(forms[f]))'
  <2>1. \A f \in Requests : Made(forms[f])
    BY <1>5 DEF PluginInv
  <2> QED BY <2>1 DEF Made
<1>6. \A c : Fits(c) => Fits(c)'
  BY <1>3, FitsKept
<1>7. \A s : Suits(s) => Suits(s)'
  BY <1>3, SuitsKept
<1>8. ASSUME NEW o \in Requests, req[o].pc = "active", req[o].gone = {} PROVE Attends(o)'
  <2> PICK c, p : c = Finds(req[o]) /\ p = page[o]
    OBVIOUS
  <2>1. Attends(o)
    BY <1>8 DEF PluginInv
  <2>2. Fits(c)' /\ Finds(req[o])' = c /\ Lost(req[o])'
    BY <1>6, <2>1 DEF Attends, Finds, Meant, Lost
  <2>3. Fits(Finds(req[o]))'
    BY <2>2 DEF Fits, Suits, Made
  <2>4. True(page[o])'
    BY <1>4, <2>1 DEF Attends, True
  <2>5. (Suits(p.secret) => Suits(p.secret)') /\ (Suits(p.cookie.secret) => Suits(p.cookie.secret)')
    BY <1>7
  <2>6. (Protective /\ ~InSession =>
             /\ cookie.secret \in {None, page[o].cookie.secret} /\ page[o].cookie.secret \in Secrets
             /\ IF page[o].dispatched THEN Suits(page[o].secret) ELSE Suits(page[o].cookie.secret)
             /\ page[o].dispatched /\ page[o].cookie.secret # None => page[o].secret = page[o].cookie.secret
             /\ page[o].setCookie => page[o].dispatched)'
    BY <1>2, <1>4, <2>1, <2>5 DEF Attends, Suits, Made
  <2> QED BY <1>4, <2>1, <2>2, <2>3, <2>4, <2>6 DEF Attends
<1>9. ASSUME NEW o \in Requests, req[o].pc = "answered" PROVE Delivers(o)'
  <2> PICK c, b, p : c = After(o) /\ b = After(o)' /\ p = page[o]
    OBVIOUS
  <2> PICK s, z : /\ s = (IF p.setCookie THEN p.secret ELSE cookie.secret)
                  /\ z = (IF p.setCookie THEN p.secret ELSE cookie'.secret)
    OBVIOUS
  <2>1. Delivers(o)
    BY <1>9 DEF PluginInv
  <2>2. b.sid \in {c.sid, NoSid} /\ b.value = c.value
    BY <1>1 DEF After, Given, Answer
  <2>3. After(o)'.sid # NoSid => Fits(Meant(After(o).value))'
    <3> PICK d : d = Meant(c.value)
      OBVIOUS
    <3>1. c.sid # NoSid => Fits(d)'
      BY <1>6, <2>1 DEF Delivers
    <3>2. Meant(After(o).value)' = d
      BY <2>2 DEF Meant
    <3> QED BY <2>2, <3>1, <3>2 DEF Fits, Suits, Made
  <2>4. True(page[o])'
    BY <1>4, <2>1 DEF Delivers, True
  <2>5. Protective /\ ~InSession => s \in Secrets /\ (s # None => Suits(s)')
    BY <1>7, <2>1 DEF Delivers
  <2>6. z \in {s, None} /\ None \in Secrets
    BY <1>2 DEF Secrets
  <2>7. Protective /\ ~InSession => z \in Secrets /\ (z # None => Suits(z)')
    BY <2>5, <2>6 DEF Suits, Made
  <2> QED BY <1>4, <2>3, <2>4, <2>7 DEF Delivers, Suits, Made
<1>10. ASSUME \A o \in Requests : Resting(o)
       PROVE  /\ client'.sid # NoSid => Fits(Meant(client.value))'
              /\ Protective' /\ ~InSession' => /\ cookie'.secret \in Secrets
                                               /\ cookie'.secret # None => Suits(cookie.secret)'
  <2> PICK d, s : d = Meant(client.value) /\ s = cookie.secret
    OBVIOUS
  <2>1. /\ client.sid # NoSid => Fits(d)
        /\ Protective /\ ~InSession => s \in Secrets /\ (s # None => Suits(s))
    BY <1>10 DEF PluginInv
  <2>2. (Fits(d) => Fits(d)') /\ (Suits(s) => Suits(s)') /\ None \in Secrets
    BY <1>6, <1>7 DEF Secrets
  <2>3. Meant(client.value)' = d
    BY <1>1 DEF Meant
  <2> QED BY <1>1, <1>2, <1>4, <2>1, <2>2, <2>3 DEF Fits, Suits, Made
<1>11. \A o \in Requests : Resting(o)' <=> Resting(o)
  BY DEF Resting
<1> QED BY <1>4, <1>5, <1>8, <1>9, <1>10, <1>11 DEF PluginInv

LEMMA PlugStep ==
    ASSUME OwnInv, KeptInv, RestInv, PluginInv, ByPlugins, [ClientsNext]_<<vars, plugins>>
    PROVE  PluginInv'
<1>1. SessionInv
  BY DEF OwnInv
<1>2. SUFFICES ASSUME alone' PROVE PluginInv'
  BY DEF PluginInv
<1>3. ASSUME alone, UNCHANGED <<scenario, req, page, dead, alone, forms, login, untold, valid>>,
             client' \in {client, [client EXCEPT !.sid = NoSid]}, cookie' \in {cookie, NewPage.cookie}
      PROVE  PluginInv'
  BY <1>1, <1>3, PassesPlug
<1>4. ASSUME NEW r \in Requests, (\E t \in Threads, p \in Peers : Start(r, t, p)) /\ Arrives(r)
      PROVE  PluginInv'
  BY <1>2, <1>4, StartPlug
<1>5. ASSUME NEW r \in Requests, PluginCall(r) PROVE PluginInv'
  <2>1. alone' = alone
    <3>1. NeverLate /\ DOMAIN page[r] = DOMAIN NewPage
      BY DEF ByPlugins, Attentive, NeverLate, OwnInv, HeadInv, Page
    <3>2. (\E q, p : Leaves(r, q, p)) \/ UNCHANGED <<vars, page>>
      BY <1>1, <1>5, <3>1, PluginSteps
    <3> QED BY <3>2 DEF Leaves, Becomes, vars
  <2> QED BY <1>2, <1>5, <2>1, PluginCallPlug
<1>6. ASSUME NEW r \in Requests, ClientAnswered(r) PROVE PluginInv'
  <2>1. alone' = alone
    BY <1>6 DEF ClientAnswered, AnsweredWith
  <2> QED BY <1>2, <1>6, <2>1, ClientAnsweredPlug
<1>7. ASSUME NEW r \in Requests, (Call(r) \/ AfterDispatch(r) \/ ContextDeleted(r)) /\ UNCHANGED plugins
      PROVE  PluginInv'
  <2>1. alone' = alone
    BY <1>7 DEF Call, Value, SetValue, CallExpires, ChangeExpires, DeleteSession, Becomes,
                AfterDispatch, ContextDeleted
  <2> QED BY <1>1, <1>2, <1>7, <2>1, CallPlug, AfterDispatchPlug, ContextDeletedPlug
<1>8. CASE FormCookieExpires
  BY <1>2, <1>3, <1>8 DEF FormCookieExpires, vars
<1>9. CASE (CookieExpires \/ Tick \/ Over) /\ UNCHANGED plugins
  BY <1>2, <1>3, <1>9 DEF CookieExpires, Tick, Over, vars, plugins
<1>10. CASE UNCHANGED <<vars, plugins>>
  BY <1>2, <1>3, <1>10 DEF vars, plugins
<1> QED BY <1>4, <1>5, <1>6, <1>7, <1>8, <1>9, <1>10 DEF ClientsNext

LEMMA PlugFirst ==
    ASSUME ClientsInit, ByPlugins
    PROVE  RestInv /\ PluginInv
<1>1. /\ client.sid = NoSid /\ \A r \in Requests : req[r] = [NewRequest EXCEPT !.pc = "new"]
  <2>1. "returns" \notin habits
    <3> SUFFICES ASSUME "returns" \in habits PROVE FALSE
      OBVIOUS
    <3>1. \E v \in scenario.values \ {NoValue} : TRUE
      BY DEF ClientsInit, Init
    <3> QED BY <3>1 DEF ByPlugins
  <2>2. client = NewRequest.client /\ req = [r \in Requests |-> [NewRequest EXCEPT !.pc = "new"]]
    BY <2>1 DEF ClientsInit, Init
  <2> QED BY <2>2 DEF NewRequest
<1>2. /\ page = [r \in Requests |-> NewPage] /\ cookie = NewPage.cookie
      /\ forms = [r \in Requests |-> None] /\ valid = {}
  BY DEF ClientsInit
<1>3. \A r \in Requests : req[r].pc = "new" /\ req[r].gone = {} /\ page[r] = NewPage /\ forms[r] = None
  BY <1>1, <1>2, ZenonT(40) DEF NewRequest
<1>4. cookie.secret = None /\ None \in Secrets
  BY <1>2 DEF NewPage, Secrets
<1>5. RestInv
  BY <1>2, <1>3 DEF RestInv
<1> QED BY <1>1, <1>3, <1>4, <1>5 DEF PluginInv, Made

\* The invariant holds as long as the application stores by its plugins alone.
Plugged == ByPlugins => OwnInv /\ KeptInv /\ RestInv /\ PluginInv

LEMMA PluggedFirst == ClientsInit => Plugged
BY FirstInv, KeptFirst, PlugFirst DEF Plugged

LEMMA PluggedStep == Plugged /\ [ClientsNext]_<<vars, plugins>> => Plugged'
<1> SUFFICES ASSUME Plugged, [ClientsNext]_<<vars, plugins>>, ByPlugins'
             PROVE  OwnInv' /\ KeptInv' /\ RestInv' /\ PluginInv'
  BY DEF Plugged
<1>1. ByPlugins
  BY ScenarioKept DEF ByPlugins, Attentive, habits
<1>2. OwnInv /\ KeptInv /\ RestInv /\ PluginInv /\ Attentive /\ NeverLate
  BY <1>1 DEF Plugged, ByPlugins, Attentive, NeverLate
<1> QED BY <1>1, <1>2, StepInv, KeptStep, RestStep, PlugStep

LEMMA TrueThere ==
    ASSUME Plugged, ByPlugins, NEW r \in Requests, Undisturbed(r)
    PROVE  True(page[r])
<1>1. RestInv /\ PluginInv /\ req[r].pc \in {"new", "active", "answered", "done"}
  BY DEF Plugged, RestInv
<1>2. CASE Resting(r)
  <2>1. page[r] = NewPage
    BY <1>1, <1>2 DEF RestInv
  <2>2. NewPage.seen = NewPage.loggedIn /\ NewPage.shown = NewPage.owed /\ NewPage.check = "none"
    BY DEF NewPage
  <2> QED BY <2>1, <2>2 DEF True, SameUser
<1>3. CASE ~Resting(r)
  BY <1>1, <1>3 DEF PluginInv, Resting, Undisturbed, Attends, Delivers
<1> QED BY <1>2, <1>3

\* Of a client whose requests do not overlap, every request has the user that was
\* authenticated last in its session, in the same realm, or nobody after a logout.
THEOREM LoginKept == ClientsSpec => [](ByPlugins => UserAsAuthenticated)
<1>1. Plugged => (ByPlugins => UserAsAuthenticated)
  BY TrueThere DEF UserAsAuthenticated, True
<1> QED BY <1>1, PluggedFirst, PluggedStep, PTL DEF ClientsSpec

\* Its messages are shown to the first request that asks for them, and to no other.
THEOREM MessagesShownOnce == ClientsSpec => [](ByPlugins => MessageOnce)
<1>1. Plugged => (ByPlugins => MessageOnce)
  BY TrueThere DEF MessageOnce, True
<1> QED BY <1>1, PluggedFirst, PluggedStep, PTL DEF ClientsSpec

\* Its forms are accepted if they belong to its session, or to the cookie that is sent with
\* them, and only then, where no action is left unprotected and no cookie is made up.
THEOREM FormsChecked == ClientsSpec => [](ByPlugins /\ Protective => FormAccepted)
<1>1. Plugged => (ByPlugins /\ Protective => FormAccepted)
  BY TrueThere DEF FormAccepted, True
<1> QED BY <1>1, PluggedFirst, PluggedStep, PTL DEF ClientsSpec

=============================================================================
