------------------------- MODULE SubscriptionProofs -------------------------
(* Proofs about Subscription, for every set of subscriptions, requests and  *)
(* workers, and every assignment of UNIQ.                                   *)
EXTENDS Subscription, TLAPS

USE SubAssumption

LEMMA KindType == \A sub : Kind(sub) \in {"each", "daily"}
BY DEF Kind

LEMMA LinkType ==
    ASSUME NEW m \in MailRow
    PROVE  UnsubscribeLink(m) \in Links
BY DEF UnsubscribeLink, Links, Md5, MailRow

\* A mail that was sent is the only addition to the inbox.
LEMMA SentOne ==
    ASSUME NEW m, Sent(m)
    PROVE  \A x \in inbox' : x \in inbox \/ x = m
BY DEF Sent

\* A step of SendMail(w) sends at most one mail, of the next of its jobs.
SentFor(j) ==
    \A x \in inbox' :
        \/ x \in inbox
        \/ \E r \in Results \cup {NoResult} :
              /\ x = MailTo(j.row, r)
              /\ IF Kind(j.row.sub) = "daily"
                 THEN r \in Results /\ SqlFilter(Filter[j.row.sub], r)
                 ELSE r = j.about

LEMMA SendsOne ==
    ASSUME TypeOK, NEW w \in Workers, SendMail(w)
    PROVE  \E j \in to[w] : to' = [to EXCEPT ![w] = @ \ {j}] /\ SentFor(j)
<1>1. PICK j \in to[w] :
         /\ to' = [to EXCEPT ![w] = @ \ {j}]
         /\ IF Kind(j.row.sub) = "daily" THEN SendDailyMail(j.row)
                                        ELSE Sent(MailTo(j.row, j.about))
  BY DEF SendMail
<1>2. j.about \in Results \cup {NoResult}
  BY <1>1 DEF TypeOK, Job
<1>3. CASE Kind(j.row.sub) = "daily"
  <2>1. CASE UNCHANGED inbox
    BY <1>1, <2>1 DEF SentFor
  <2>2. ASSUME NEW r \in Results, SqlFilter(Filter[j.row.sub], r), Sent(MailTo(j.row, r))
        PROVE  SentFor(j)
    BY <1>3, <2>2, SentOne DEF SentFor
  <2>3. QED
    BY <1>1, <1>3, <2>1, <2>2 DEF SendDailyMail
<1>4. CASE Kind(j.row.sub) # "daily"
  BY <1>1, <1>2, <1>4, SentOne DEF SentFor
<1>5. QED
  BY <1>1, <1>3, <1>4

LEMMA MailToType ==
    ASSUME NEW m \in MailRow, NEW r \in Results \cup {NoResult}
    PROVE  MailTo(m, r) \in Mail
BY KindType, LinkType DEF MailTo, Mail, MailRow

\* Following a link changes no row but for making it active.
LEMMA VerifiedRows ==
    ASSUME mail \subseteq MailRow, NEW v
    PROVE  /\ Verified(v) \subseteq MailRow
           /\ \A m \in Verified(v) : \E n \in mail :
                 /\ m.sub = n.sub /\ m.token = n.token
                 /\ m = IF Md5(n.sub, n.token) = v THEN [n EXCEPT !.active = TRUE] ELSE n
<1> SUFFICES ASSUME NEW n \in mail,
                    NEW m, m = IF Md5(n.sub, n.token) = v THEN [n EXCEPT !.active = TRUE] ELSE n
             PROVE  m \in MailRow /\ m.sub = n.sub /\ m.token = n.token
  BY DEF Verified
<1>1. CASE Md5(n.sub, n.token) = v
  BY <1>1 DEF MailRow
<1>2. CASE Md5(n.sub, n.token) # v
  BY <1>2
<1>3. QED
  BY <1>1, <1>2

\* Every page and every mail leaves MAIL, the requests and the inbox well formed, and no
\* two rows with the same UNIQ, whatever Subscribe requests overlap.
THEOREM TypeCorrect == Spec => []TypeOK
<1>1. Init => TypeOK
  BY DEF Init, TypeOK, Request
<1>2. TypeOK /\ [Next]_vars => TypeOK'
  <2> SUFFICES ASSUME TypeOK, [Next]_vars
               PROVE  TypeOK'
    OBVIOUS
  <2> USE DEF TypeOK
  <2>1. ASSUME NEW t \in Tokens, NEW sub \in Subs, Subscribe(t, sub)
        PROVE  TypeOK'
    BY <2>1 DEF Subscribe, Request
  <2>2. ASSUME NEW t \in Tokens, Insert(t)
        PROVE  TypeOK'
    <3>1. request[t].sub \in Subs
      BY <2>2 DEF Insert, Request
    <3>2. [sub |-> request[t].sub, token |-> t, active |-> FALSE] \in MailRow
      BY <3>1 DEF MailRow
    <3>3. \A m, n \in mail' : CRC32[m.sub] = CRC32[n.sub] => m = n
      <4> DEFINE row == [sub |-> request[t].sub, token |-> t, active |-> FALSE]
      <4>1. mail' = mail \cup {row} /\ row.sub = request[t].sub
        BY <2>2 DEF Insert
      <4>2. \A n \in mail : CRC32[n.sub] # CRC32[row.sub]
        BY <2>2, <4>1 DEF Insert, Taken
      <4>3. QED
        BY <4>1, <4>2
    <3>4. /\ request' \in [Tokens -> Request]
          /\ \A u \in Tokens : request'[u].pc # "unused" => request'[u].sub \in Subs
      BY <2>2, <3>1 DEF Insert, Request
    <3>5. QED
      BY <2>2, <3>2, <3>3, <3>4 DEF Insert
  <2>3. ASSUME NEW t \in Tokens, InsertRefused(t)
        PROVE  TypeOK'
    BY <2>3 DEF InsertRefused, Request
  <2>4. ASSUME NEW t \in Tokens, SendVerifyMail(t)
        PROVE  TypeOK'
    <3> DEFINE m == [kind |-> "verify", sub |-> request[t].sub, token |-> t,
                     link |-> Md5(request[t].sub, t), about |-> NoResult]
    <3>1. request[t].sub \in Subs
      BY <2>4 DEF SendVerifyMail, Request
    <3>2. m \in Mail
      BY <3>1 DEF Mail, Links, Md5
    <3>3. Sent(m)
      BY <2>4 DEF SendVerifyMail
    <3>4. inbox' \subseteq Mail
      BY <3>2, <3>3 DEF Sent
    <3>5. /\ request' \in [Tokens -> Request]
          /\ \A u \in Tokens : request'[u].pc # "unused" => request'[u].sub \in Subs
      BY <2>4, <3>1 DEF SendVerifyMail, Request
    <3>6. QED
      BY <2>4, <3>4, <3>5 DEF SendVerifyMail
  <2>5. ASSUME NEW v, Verify(v)
        PROVE  TypeOK'
    <3>1. \A m, n \in mail' : CRC32[m.sub] = CRC32[n.sub] => m = n
      <4> SUFFICES ASSUME NEW m \in mail', NEW n \in mail', CRC32[m.sub] = CRC32[n.sub]
                   PROVE  m = n
        OBVIOUS
      <4>1. mail' = Verified(v)
        BY <2>5 DEF Verify
      <4>2. PICK x \in mail :
               /\ m.sub = x.sub
               /\ m = IF Md5(x.sub, x.token) = v THEN [x EXCEPT !.active = TRUE] ELSE x
        BY <4>1, VerifiedRows
      <4>3. PICK y \in mail :
               /\ n.sub = y.sub
               /\ n = IF Md5(y.sub, y.token) = v THEN [y EXCEPT !.active = TRUE] ELSE y
        BY <4>1, VerifiedRows
      <4>4. x = y
        BY <4>2, <4>3
      <4>5. QED
        BY <4>2, <4>3, <4>4
    <3>2. confirmed' \subseteq Tokens
      BY <2>5 DEF Verify, MailRow
    <3>3. QED
      BY <2>5, <3>1, <3>2, VerifiedRows DEF Verify
  <2>6. ASSUME NEW v, Unsubscribe(v)
        PROVE  TypeOK'
    <3>1. ended' \subseteq Tokens
      BY <2>6 DEF Unsubscribe, MailRow
    <3>2. QED
      BY <2>6, <3>1 DEF Unsubscribe
  <2>7. ASSUME NEW w \in Workers, SendResultMails(w)
        PROVE  TypeOK'
    BY <2>7 DEF SendResultMails, Recipients, Job
  <2>8. ASSUME NEW w \in Workers, DailyReport(w)
        PROVE  TypeOK'
    BY <2>8 DEF DailyReport, Recipients, Job
  <2>9. ASSUME NEW w \in Workers, SendMail(w)
        PROVE  TypeOK'
    <3>1. PICK j \in to[w] : to' = [to EXCEPT ![w] = @ \ {j}] /\ SentFor(j)
      BY <2>9, SendsOne
    <3>2. j.row \in MailRow /\ j.about \in Results \cup {NoResult}
      BY <3>1 DEF Job
    <3>3. inbox' \subseteq Mail
      BY <3>1, <3>2, MailToType DEF SentFor
    <3>4. QED
      BY <2>9, <3>1, <3>3 DEF SendMail
  <2>10. ASSUME NEW w \in Workers, MailsLost(w)
         PROVE  TypeOK'
    BY <2>10 DEF MailsLost
  <2>11. CASE UNCHANGED vars
    BY <2>11 DEF vars
  <2>12. QED
    BY <2>1, <2>2, <2>3, <2>4, <2>5, <2>6, <2>7, <2>8, <2>9, <2>10, <2>11 DEF Next
<1>3. QED
  BY <1>1, <1>2, PTL DEF Spec

----------------------------------------------------------------------------

\* Rows that are active, and rows mails are being sent for, were confirmed.
ActiveConfirmed ==
    /\ \A m \in mail : m.active => m.token \in confirmed
    /\ \A w \in Workers : \A j \in to[w] : j.row.token \in confirmed

\* A request that has not inserted its row has its token nowhere in MAIL's past.
PendingFresh ==
    \A t \in Tokens :
        request[t].pc \in {"unused", "insert"} =>
            t \notin ended /\ \A m \in mail : m.token # t

\* No two rows have the same token.
TokenUnique == \A m, n \in mail : m.token = n.token => m = n

IInv == ActiveConfirmed /\ OnlyConfirmedMailed /\ PendingFresh /\ TokenUnique /\ EndedStaysEnded

LEMMA InductiveInvariant == Spec => []IInv
<1>1. Init => IInv
  BY DEF Init, IInv, ActiveConfirmed, OnlyConfirmedMailed, PendingFresh, TokenUnique,
         EndedStaysEnded
<1>2. TypeOK /\ IInv /\ [Next]_vars => IInv'
  <2> SUFFICES ASSUME TypeOK, IInv, [Next]_vars
               PROVE  IInv'
    OBVIOUS
  <2> USE DEF IInv, ActiveConfirmed, OnlyConfirmedMailed, PendingFresh, TokenUnique,
              EndedStaysEnded
  <2>1. ASSUME NEW t \in Tokens, NEW sub \in Subs, Subscribe(t, sub)
        PROVE  IInv'
    <3>1. \A u \in Tokens : request'[u].pc \in {"unused", "insert"} =>
                                request[u].pc \in {"unused", "insert"}
      BY <2>1 DEF Subscribe, TypeOK, Request
    <3>2. QED
      BY <2>1, <3>1 DEF Subscribe
  <2>2. ASSUME NEW t \in Tokens, Insert(t)
        PROVE  IInv'
    <3> DEFINE row == [sub |-> request[t].sub, token |-> t, active |-> FALSE]
    <3>1. mail' = mail \cup {row} /\ row.token = t /\ row.active = FALSE
      BY <2>2 DEF Insert
    <3>2. UNCHANGED <<to, inbox, confirmed, ended>>
      BY <2>2 DEF Insert
    <3>3. ActiveConfirmed'
      BY <3>1, <3>2
    <3>4. t \notin ended /\ \A m \in mail : m.token # t
      BY <2>2 DEF Insert
    <3>5. \A u \in Tokens : request'[u].pc \in {"unused", "insert"} =>
                                u # t /\ request[u].pc \in {"unused", "insert"}
      BY <2>2 DEF Insert, TypeOK, Request
    <3>6. PendingFresh'
      BY <3>1, <3>2, <3>5
    <3>7. QED
      BY <3>1, <3>2, <3>3, <3>4, <3>6
  <2>3. ASSUME NEW t \in Tokens, InsertRefused(t)
        PROVE  IInv'
    <3>1. \A u \in Tokens : request'[u].pc \in {"unused", "insert"} =>
                                request[u].pc \in {"unused", "insert"}
      BY <2>3 DEF InsertRefused, TypeOK, Request
    <3>2. QED
      BY <2>3, <3>1 DEF InsertRefused
  <2>4. ASSUME NEW t \in Tokens, SendVerifyMail(t)
        PROVE  IInv'
    <3> DEFINE m == [kind |-> "verify", sub |-> request[t].sub, token |-> t,
                     link |-> Md5(request[t].sub, t), about |-> NoResult]
    <3>1. \A x \in inbox' : x \in inbox \/ x = m
      BY <2>4, SentOne DEF SendVerifyMail
    <3>2. OnlyConfirmedMailed'
      BY <2>4, <3>1 DEF SendVerifyMail
    <3>3. \A u \in Tokens : request'[u].pc \in {"unused", "insert"} =>
                                request[u].pc \in {"unused", "insert"}
      BY <2>4 DEF SendVerifyMail, TypeOK, Request
    <3>4. QED
      BY <2>4, <3>2, <3>3 DEF SendVerifyMail
  <2>5. ASSUME NEW v, Verify(v)
        PROVE  IInv'
    <3>1. mail' = Verified(v) /\ UNCHANGED <<request, to, inbox, ended>>
      BY <2>5 DEF Verify
    <3>2. confirmed \subseteq confirmed'
      BY <2>5 DEF Verify
    <3>3. \A n \in mail : Md5(n.sub, n.token) = v => n.token \in confirmed'
      BY <2>5 DEF Verify
    <3>4. \A m \in mail' : m.active => m.token \in confirmed'
      <4> SUFFICES ASSUME NEW m \in mail', m.active
                   PROVE  m.token \in confirmed'
        OBVIOUS
      <4>1. mail \subseteq MailRow
        BY DEF TypeOK
      <4>2. PICK n \in mail :
               /\ m.token = n.token
               /\ m = IF Md5(n.sub, n.token) = v THEN [n EXCEPT !.active = TRUE] ELSE n
        BY <3>1, <4>1, VerifiedRows
      <4>3. n.active \/ Md5(n.sub, n.token) = v
        BY <4>2
      <4>4. QED
        BY <3>2, <3>3, <4>2, <4>3
    <3>5. TokenUnique'
      <4> SUFFICES ASSUME NEW m \in mail', NEW n \in mail', m.token = n.token
                   PROVE  m = n
        OBVIOUS
      <4>1. PICK x \in mail :
               /\ m.token = x.token
               /\ m = IF Md5(x.sub, x.token) = v THEN [x EXCEPT !.active = TRUE] ELSE x
        BY <3>1, VerifiedRows DEF TypeOK
      <4>2. PICK y \in mail :
               /\ n.token = y.token
               /\ n = IF Md5(y.sub, y.token) = v THEN [y EXCEPT !.active = TRUE] ELSE y
        BY <3>1, VerifiedRows DEF TypeOK
      <4>3. x = y
        BY <4>1, <4>2
      <4>4. QED
        BY <4>1, <4>2, <4>3
    <3>6. \A m \in mail' : \E n \in mail : m.token = n.token
      BY <3>1, VerifiedRows DEF TypeOK
    <3>7. PendingFresh' /\ EndedStaysEnded'
      BY <3>1, <3>6
    <3>8. QED
      BY <3>1, <3>2, <3>4, <3>5, <3>7
  <2>6. ASSUME NEW v, Unsubscribe(v)
        PROVE  IInv'
    <3>1. mail' \subseteq mail /\ UNCHANGED <<request, to, inbox, confirmed>>
      BY <2>6 DEF Unsubscribe
    <3>2. ended' = ended \cup {m.token : m \in mail \ mail'}
      BY <2>6 DEF Unsubscribe
    <3>3. EndedStaysEnded'
      BY <3>1, <3>2
    <3>4. PendingFresh'
      BY <3>1, <3>2
    <3>5. QED
      BY <3>1, <3>3, <3>4
  <2>7. ASSUME NEW w \in Workers, SendResultMails(w) \/ DailyReport(w) \/ MailsLost(w)
        PROVE  IInv'
    <3>1. UNCHANGED <<mail, request, inbox, confirmed, ended>>
      BY <2>7 DEF SendResultMails, DailyReport, MailsLost
    <3>2. \A u \in Workers : \A j \in to'[u] : j \in to[u] \/ (j.row \in mail /\ j.row.active)
      <4>1. CASE SendResultMails(w)
        <5>1. PICK r \in Results :
                 to' = [to EXCEPT ![w] = {j \in [row : Recipients("each"), about : {r}] :
                                             MatchFilter(Filter[j.row.sub], r)}]
          BY <4>1 DEF SendResultMails
        <5>2. \A j \in to'[w] : j \in [row : Recipients("each"), about : {r}]
          BY <5>1 DEF TypeOK
        <5>3. \A j \in to'[w] : j.row \in Recipients("each")
          BY <5>2
        <5>4. \A u \in Workers : u # w => to'[u] = to[u]
          BY <5>1 DEF TypeOK
        <5>5. QED
          BY <5>3, <5>4 DEF Recipients
      <4>2. CASE DailyReport(w)
        BY <4>2 DEF DailyReport, Recipients, TypeOK
      <4>3. CASE MailsLost(w)
        BY <4>3 DEF MailsLost, TypeOK
      <4>4. QED
        BY <2>7, <4>1, <4>2, <4>3
    <3>3. QED
      BY <3>1, <3>2
  <2>8. ASSUME NEW w \in Workers, SendMail(w)
        PROVE  IInv'
    <3>1. PICK j \in to[w] : to' = [to EXCEPT ![w] = @ \ {j}] /\ SentFor(j)
      BY <2>8, SendsOne
    <3>2. UNCHANGED <<mail, request, confirmed, ended>>
      BY <2>8 DEF SendMail
    <3>3. j.row.token \in confirmed
      BY <3>1
    <3>4. OnlyConfirmedMailed'
      BY <3>1, <3>2, <3>3 DEF SentFor, MailTo
    <3>5. \A u \in Workers : to'[u] \subseteq to[u]
      BY <3>1 DEF TypeOK
    <3>6. QED
      BY <3>2, <3>4, <3>5
  <2>9. CASE UNCHANGED vars
    BY <2>9 DEF vars
  <2>10. QED
    BY <2>1, <2>2, <2>3, <2>4, <2>5, <2>6, <2>7, <2>8, <2>9 DEF Next
<1>3. QED
  BY <1>1, <1>2, TypeCorrect, PTL DEF Spec

\* No result is mailed for a subscription whose link nobody has followed.
THEOREM MailsConfirmed == Spec => []OnlyConfirmedMailed
BY InductiveInvariant, PTL DEF IInv

\* No request or old link brings back a subscription that was ended.
THEOREM NoReturn == Spec => []EndedStaysEnded
BY InductiveInvariant, PTL DEF IInv

----------------------------------------------------------------------------

\* Each result mail carries the link of the subscription it was sent for.
ResultLinks == \A m \in inbox : m.kind = "each" => m.link = Md5(m.sub, m.token)

LEMMA ResultLinksRight == Spec => []ResultLinks
<1>1. Init => ResultLinks
  BY DEF Init, ResultLinks
<1>2. TypeOK /\ ResultLinks /\ [Next]_vars => ResultLinks'
  <2> SUFFICES ASSUME TypeOK, ResultLinks, [Next]_vars
               PROVE  ResultLinks'
    OBVIOUS
  <2>1. CASE UNCHANGED inbox
    BY <2>1 DEF ResultLinks
  <2>2. ASSUME NEW t \in Tokens, SendVerifyMail(t)
        PROVE  ResultLinks'
    BY <2>2, SentOne DEF SendVerifyMail, ResultLinks
  <2>3. ASSUME NEW w \in Workers, SendMail(w)
        PROVE  ResultLinks'
    <3>1. PICK j \in to[w] : SentFor(j)
      BY <2>3, SendsOne
    <3>2. Kind(j.row.sub) = "each" => UnsubscribeLink(j.row) = Md5(j.row.sub, j.row.token)
      BY DEF UnsubscribeLink
    <3>3. QED
      BY <3>1, <3>2 DEF ResultLinks, SentFor, MailTo
  <2>4. QED
    BY <2>1, <2>2, <2>3
    DEF Next, Subscribe, Insert, InsertRefused, Verify, Unsubscribe, SendResultMails,
        DailyReport, MailsLost, vars
<1>3. QED
  BY <1>1, <1>2, TypeCorrect, PTL DEF Spec

\* The link of a result mail ends the subscription it was sent for, and no other.
THEOREM ResultMailsCanBeEnded == Spec => []EachLinkEnds
<1>1. ResultLinks => EachLinkEnds
  BY DEF ResultLinks, EachLinkEnds, RowOf, Ends, Md5
<1>2. QED
  BY <1>1, ResultLinksRight, PTL

----------------------------------------------------------------------------

\* Apart from path= and branch=, MatchFilter passes just the results that were asked for,
\* and so do SqlFilter apart from branch= and the feed apart from branch= without path=:
\* nothing that was asked for is left out.
THEOREM FiltersExact ==
    ASSUME NEW filter, NEW r, r.ok \in BOOLEAN, WellFormed(filter),
           \A t \in filter : t.key \in {"author", "path", "branch", "client", "status"}
    PROVE  /\ Keys(filter) \cap {"path", "branch"} = {} =>
                 (MatchFilter(filter, r) <=> \A t \in filter : Asked(t, r))
           /\ "branch" \notin Keys(filter) =>
                 (SqlFilter(filter, r) <=> \A t \in filter : Asked(t, r))
           /\ ("branch" \in Keys(filter) => "path" \in Keys(filter)) =>
                 (RssFeed(filter, r) <=> \A t \in filter : Asked(t, r))
<1>1. ASSUME Keys(filter) \cap {"path", "branch"} = {}
      PROVE  MatchFilter(filter, r) <=> \A t \in filter : Asked(t, r)
  <2>1. \A t \in filter : t.key \notin {"path", "branch"}
    BY <1>1 DEF Keys
  <2>2. QED
    BY <2>1 DEF MatchFilter, Asked, WellFormed
<1>2. ASSUME "branch" \notin Keys(filter)
      PROVE  SqlFilter(filter, r) <=> \A t \in filter : Asked(t, r)
  <2>1. \A t \in filter : t.key # "branch"
    BY <1>2 DEF Keys
  <2>2. QED
    BY <2>1 DEF SqlFilter, Asked, WellFormed
<1>3. ASSUME "branch" \in Keys(filter) => "path" \in Keys(filter)
      PROVE  RssFeed(filter, r) <=> \A t \in filter : Asked(t, r)
  <2>1. \A t \in filter : t.key = "branch" => \E u \in filter : u.key = "path"
    BY <1>3 DEF Keys
  <2>2. QED
    BY <2>1 DEF RssFeed, Asked, WellFormed
<1>4. QED
  BY <1>1, <1>2, <1>3

\* The result mails that are still to be sent passed MatchFilter.
JobsMatch ==
    \A w \in Workers : \A j \in to[w] :
        Kind(j.row.sub) = "each" => j.about \in Results /\ MatchFilter(Filter[j.row.sub], j.about)

LEMMA MatchedAsked ==
    ASSUME NEW sub \in Subs, NEW r \in Results, MatchFilter(Filter[sub], r),
           NEW t \in Filter[sub], t.key \notin {"path", "branch"}
    PROVE  Asked(t, r)
BY FilterAssumption DEF MatchFilter, Asked, WellFormed

LEMMA SelectedAsked ==
    ASSUME NEW sub \in Subs, NEW r \in Results, SqlFilter(Filter[sub], r),
           NEW t \in Filter[sub], t.key # "branch"
    PROVE  Asked(t, r)
BY FilterAssumption DEF SqlFilter, Asked, WellFormed

LEMMA JobsMatched == Spec => []JobsMatch
<1>1. Init => JobsMatch
  BY DEF Init, JobsMatch
<1>2. TypeOK /\ JobsMatch /\ [Next]_vars => JobsMatch'
  <2> SUFFICES ASSUME TypeOK, JobsMatch, [Next]_vars
               PROVE  JobsMatch'
    OBVIOUS
  <2>1. ASSUME NEW w \in Workers, SendResultMails(w)
        PROVE  JobsMatch'
    <3>1. PICK r \in Results :
             to' = [to EXCEPT ![w] = {j \in [row : Recipients("each"), about : {r}] :
                                         MatchFilter(Filter[j.row.sub], r)}]
      BY <2>1 DEF SendResultMails
    <3>2. \A j \in to'[w] : /\ j \in [row : Recipients("each"), about : {r}]
                           /\ MatchFilter(Filter[j.row.sub], r)
      BY <3>1 DEF TypeOK
    <3>3. \A j \in to'[w] : j.about = r
      BY <3>2
    <3>4. \A u \in Workers : u # w => to'[u] = to[u]
      BY <3>1 DEF TypeOK
    <3>5. QED
      BY <3>2, <3>3, <3>4 DEF JobsMatch
  <2>2. ASSUME NEW w \in Workers, DailyReport(w)
        PROVE  JobsMatch'
    <3>1. \A j \in to'[w] : j.row \in Recipients("daily")
      BY <2>2 DEF DailyReport, TypeOK
    <3>2. \A u \in Workers : u # w => to'[u] = to[u]
      BY <2>2 DEF DailyReport, TypeOK
    <3>3. QED
      BY <3>1, <3>2 DEF JobsMatch, Recipients
  <2>3. ASSUME NEW w \in Workers, SendMail(w) \/ MailsLost(w)
        PROVE  JobsMatch'
    BY <2>3 DEF SendMail, MailsLost, JobsMatch, TypeOK
  <2>4. CASE UNCHANGED to
    BY <2>4 DEF JobsMatch
  <2>5. QED
    BY <2>1, <2>2, <2>3, <2>4
    DEF Next, Subscribe, Insert, InsertRefused, SendVerifyMail, Verify, Unsubscribe, vars
<1>3. QED
  BY <1>1, <1>2, TypeCorrect, PTL DEF Spec

\* Each mail that reports a result passed the filter of its subscription as the code reads
\* it: MatchFilter for a result mail, SqlFilter for a daily one.
MailsPass ==
    \A m \in inbox :
        m.kind # "verify" =>
            /\ m.about \in Results
            /\ m.kind = "each" => MatchFilter(Filter[m.sub], m.about)
            /\ m.kind = "daily" => SqlFilter(Filter[m.sub], m.about)

\* A worker mails only what its evaluator let pass when it planned the mails, whatever is
\* subscribed, ended or submitted before they go out.
THEOREM MailsPassTheFilters == Spec => []MailsPass
<1>1. Init => MailsPass
  BY DEF Init, MailsPass
<1>2. TypeOK /\ JobsMatch /\ MailsPass /\ [Next]_vars => MailsPass'
  <2> SUFFICES ASSUME TypeOK, JobsMatch, MailsPass, [Next]_vars
               PROVE  MailsPass'
    OBVIOUS
  <2>1. ASSUME NEW t \in Tokens, SendVerifyMail(t)
        PROVE  MailsPass'
    BY <2>1, SentOne DEF SendVerifyMail, MailsPass
  <2>2. ASSUME NEW w \in Workers, SendMail(w)
        PROVE  MailsPass'
    <3>1. PICK j \in to[w] : SentFor(j)
      BY <2>2, SendsOne
    <3>2. SUFFICES ASSUME NEW r \in Results \cup {NoResult},
                          IF Kind(j.row.sub) = "daily"
                          THEN r \in Results /\ SqlFilter(Filter[j.row.sub], r)
                          ELSE r = j.about
                   PROVE  /\ r \in Results
                          /\ Kind(j.row.sub) = "each" => MatchFilter(Filter[j.row.sub], r)
                          /\ Kind(j.row.sub) = "daily" => SqlFilter(Filter[j.row.sub], r)
      BY <3>1 DEF MailsPass, SentFor, MailTo
    <3>3. Kind(j.row.sub) = "each" => j.about \in Results /\ MatchFilter(Filter[j.row.sub], j.about)
      BY DEF JobsMatch
    <3>4. QED
      BY <3>2, <3>3, KindType
  <2>3. CASE UNCHANGED inbox
    BY <2>3 DEF MailsPass
  <2>4. QED
    BY <2>1, <2>2, <2>3
    DEF Next, Subscribe, Insert, InsertRefused, Verify, Unsubscribe, SendResultMails,
        DailyReport, MailsLost, vars
<1>3. QED
  BY <1>1, <1>2, TypeCorrect, JobsMatched, PTL DEF Spec

\* Mails are about what their subscriptions asked for, but for the terms the filters get
\* wrong.
THEOREM OnlyAskedFor == Spec => []MailsAsked
<1>1. TypeOK /\ MailsPass => MailsAsked
  <2> SUFFICES ASSUME TypeOK, MailsPass, NEW m \in inbox, NEW t \in Filter[m.sub],
                      m.kind # "verify", t.key # "branch", ~(t.key = "path" /\ m.kind = "each")
               PROVE  Asked(t, m.about)
    BY DEF MailsAsked
  <2>1. m.sub \in Subs /\ m.kind \in {"each", "daily"}
    BY DEF TypeOK, Mail
  <2> QED
    BY <2>1, MatchedAsked, SelectedAsked DEF MailsPass
<1> QED
  BY <1>1, TypeCorrect, MailsPassTheFilters, PTL

\* A result mail never is about a path or a branch its subscription asked for: it is not one
\* result in some that is mailed wrongly, but every one (PathsAsked is refuted by any).
NeverAskedPath ==
    \A m \in inbox : \A t \in Filter[m.sub] :
        m.kind = "each" /\ t.key \in {"path", "branch"} => ~Asked(t, m.about)

\* MatchFilter turns path= and branch= round, whatever the other terms of the filter.
THEOREM PathsInverted == Spec => []NeverAskedPath
<1>1. MailsPass => NeverAskedPath
  BY DEF MailsPass, NeverAskedPath, MatchFilter, Asked
<1> QED
  BY <1>1, MailsPassTheFilters, PTL

\* The link in a daily mail is the bare token, as DailyReport makes it.
DailyLinks == \A m \in inbox : m.kind = "daily" => m.link = m.token

\* The bare token ends no subscription at all, neither the mail's own nor another, as long as
\* no token is itself the MD5 of a subscription (DailyLinkEnds is refuted by any daily mail
\* whose subscription still exists).
THEOREM DailyLinksEndNothing ==
    ASSUME \A sub \in Subs, token \in Tokens : Md5(sub, token) \notin Tokens
    PROVE  Spec => [](\A m \in inbox : m.kind = "daily" => \A n \in mail : ~Ends(m.link, n))
<1>1. Init => DailyLinks
  BY DEF Init, DailyLinks
<1>2. TypeOK /\ DailyLinks /\ [Next]_vars => DailyLinks'
  <2> SUFFICES ASSUME TypeOK, DailyLinks, [Next]_vars
               PROVE  DailyLinks'
    OBVIOUS
  <2>1. CASE UNCHANGED inbox
    BY <2>1 DEF DailyLinks
  <2>2. ASSUME NEW t \in Tokens, SendVerifyMail(t)
        PROVE  DailyLinks'
    BY <2>2, SentOne DEF SendVerifyMail, DailyLinks
  <2>3. ASSUME NEW w \in Workers, SendMail(w)
        PROVE  DailyLinks'
    <3>1. PICK j \in to[w] : SentFor(j)
      BY <2>3, SendsOne
    <3>2. Kind(j.row.sub) = "daily" => UnsubscribeLink(j.row) = j.row.token
      BY DEF UnsubscribeLink
    <3> QED
      BY <3>1, <3>2 DEF DailyLinks, SentFor, MailTo
  <2> QED
    BY <2>1, <2>2, <2>3
    DEF Next, Subscribe, Insert, InsertRefused, Verify, Unsubscribe, SendResultMails,
        DailyReport, MailsLost, vars
<1>3. TypeOK /\ DailyLinks => \A m \in inbox : m.kind = "daily" => \A n \in mail : ~Ends(m.link, n)
  BY DEF TypeOK, Mail, MailRow, DailyLinks, Ends
<1> QED
  BY <1>1, <1>2, <1>3, TypeCorrect, PTL DEF Spec

=============================================================================
