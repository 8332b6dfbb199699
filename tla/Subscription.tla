---------------------------- MODULE Subscription ----------------------------
(***************************************************************************)
(* Mail subscriptions: the table MAIL, the pages Subscribe, Verify and     *)
(* Unsubscribe of src/src/Watchdog/Server/Feeds.icpp, and the mails that   *)
(* SubmitWork and DailyReport send once they have answered (Email.cpp).    *)
(*                                                                         *)
(* A Subscribe request looks for the subscription, stores it, answers, and *)
(* mails the link: three steps between which other requests run.  Result   *)
(* mails are sent one by one to the subscriptions found beforehand.  Every *)
(* mail may be lost: SendEmail only logs it.                               *)
(***************************************************************************)
EXTENDS Filters

CONSTANTS
    Subs,     \* what one subscribes to: an e-mail address, a filter and a FREQ
    NoSub,
    Daily,    \* those with FREQ "daily"; the others have "each"
    Filter,   \* FILTER of each
    CRC32,    \* UNIQ of each, which two may share
    Results,  \* what is submitted
    NoResult,
    Tokens,   \* TOKENs from Uuid::Create, each also the name of its Subscribe request
    Workers   \* threads that send result mails

ASSUME SubAssumption == Daily \subseteq Subs /\ NoSub \notin Subs
ASSUME FilterAssumption ==
    /\ \A sub \in Subs : WellFormed(Filter[sub])
    /\ \A r \in Results : r.ok \in BOOLEAN

VARIABLES
    mail,       \* rows of MAIL
    request,    \* Subscribe requests
    to,         \* the rows each worker still has to send its mail to, and what about
    inbox,      \* mails that arrived
    confirmed,  \* history: tokens of the rows that Verify set ACTIVE
    ended       \* history: tokens of the rows that Unsubscribe deleted

vars == <<mail, request, to, inbox, confirmed, ended>>

MailRow == [sub : Subs, token : Tokens, active : BOOLEAN]

\* Where a request is: before its INSERT, before its mail, or answered for good.
Request == [pc : {"unused", "insert", "sendmail", "over"}, sub : Subs \cup {NoSub}]

\* The parameter v of the links in mails: the MD5 of EMAIL, FILTER, TOKEN and FREQ, or
\* what else a template writes there.
Md5(sub, token) == <<sub, token>>
Links == (Subs \X Tokens) \cup Tokens

\* about: the result of a result mail, or one of those a daily mail lists.
Mail == [kind : {"verify", "each", "daily"}, sub : Subs, token : Tokens, link : Links,
         about : Results \cup {NoResult}]

\* A mail still to be sent; DailyReport selects the results only when it comes to it.
Job == [row : MailRow, about : Results \cup {NoResult}]

Kind(sub) == IF sub \in Daily THEN "daily" ELSE "each"

\* A row that takes the UNIQ of sub.
Taken(sub) == \E m \in mail : CRC32[m.sub] = CRC32[sub]

\* A mail arrives, or it is lost.
Sent(m) == inbox' \in {inbox, inbox \cup {m}}

----------------------------------------------------------------------------
(* Faulty variants of operators defined below, kept to show that the        *)
(* properties notice such a fault.                                          *)

InsertTwice(t) ==
    /\ request[t].pc = "insert"
    /\ mail' = mail \cup {[sub |-> request[t].sub, token |-> t, active |-> FALSE]}
    /\ request' = [request EXCEPT ![t].pc = "sendmail"]
    /\ UNCHANGED <<to, inbox, confirmed, ended>>

RecipientsOfAll(freq) == {m \in mail : Kind(m.sub) = freq}

UnsubscribeLinkRaw(m) == m.token

VerifiedOrNew(v) ==
    {m \in mail : Md5(m.sub, m.token) # v} \cup {m \in MailRow : Md5(m.sub, m.token) = v /\ m.active}

----------------------------------------------------------------------------

\* Subscribe up to its SELECT; one that finds the UNIQ taken is answered at once.
Subscribe(t, sub) ==
    /\ request[t].pc = "unused"
    /\ request' = [request EXCEPT ![t] = [pc |-> IF Taken(sub) THEN "over" ELSE "insert",
                                          sub |-> sub]]
    /\ UNCHANGED <<mail, to, inbox, confirmed, ended>>

\* The INSERT and the answer, which commits it.
Insert(t) ==
    /\ request[t].pc = "insert"
    /\ ~Taken(request[t].sub)
    /\ mail' = mail \cup {[sub |-> request[t].sub, token |-> t, active |-> FALSE]}
    /\ request' = [request EXCEPT ![t].pc = "sendmail"]
    /\ UNCHANGED <<to, inbox, confirmed, ended>>

\* UNIQ was taken since the SELECT: the INSERT fails, which ends the request or, if the
\* session only logs errors, goes unnoticed.
InsertRefused(t) ==
    /\ request[t].pc = "insert"
    /\ Taken(request[t].sub)
    /\ \E pc \in {"sendmail", "over"} : request' = [request EXCEPT ![t].pc = pc]
    /\ UNCHANGED <<mail, to, inbox, confirmed, ended>>

SendVerifyMail(t) ==
    /\ request[t].pc = "sendmail"
    /\ request' = [request EXCEPT ![t].pc = "over"]
    /\ Sent([kind |-> "verify", sub |-> request[t].sub, token |-> t,
             link |-> Md5(request[t].sub, t), about |-> NoResult])
    /\ UNCHANGED <<mail, to, confirmed, ended>>

\* MAIL after the UPDATE of Verify.
Verified(v) ==
    {IF Md5(m.sub, m.token) = v THEN [m EXCEPT !.active = TRUE] ELSE m : m \in mail}

\* Somebody follows the link of a mail.
Verify(v) ==
    /\ mail' = Verified(v)
    /\ confirmed' = confirmed \cup {m.token : m \in {n \in mail : Md5(n.sub, n.token) = v}}
    /\ UNCHANGED <<request, to, inbox, ended>>

Unsubscribe(v) ==
    /\ mail' = {m \in mail : Md5(m.sub, m.token) # v}
    /\ ended' = ended \cup {m.token : m \in mail \ mail'}
    /\ UNCHANGED <<request, to, inbox, confirmed>>

\* The SELECT of SendResultMails and of DailyReport.
Recipients(freq) == {m \in mail : m.active /\ Kind(m.sub) = freq}

\* SubmitWork has answered.
SendResultMails(w) ==
    /\ to[w] = {}
    /\ \E r \in Results :
          to' = [to EXCEPT ![w] = {j \in [row : Recipients("each"), about : {r}] :
                                      MatchFilter(Filter[j.row.sub], r)}]
    /\ UNCHANGED <<mail, request, inbox, confirmed, ended>>

\* DailyReport has answered.
DailyReport(w) ==
    /\ to[w] = {}
    /\ to' = [to EXCEPT ![w] = [row : Recipients("daily"), about : {NoResult}]]
    /\ UNCHANGED <<mail, request, inbox, confirmed, ended>>

\* What the templates write after "unsubscribe?v=": @token@ of resultmail is the MD5,
\* $TOKEN of dailymail the column TOKEN.
UnsubscribeLink(m) == IF Kind(m.sub) = "daily" THEN m.token ELSE Md5(m.sub, m.token)

MailTo(m, r) ==
    [kind |-> Kind(m.sub), sub |-> m.sub, token |-> m.token, link |-> UnsubscribeLink(m),
     about |-> r]

\* GenerateDailyMail and its mail: whatever yesterday's results are, the mail lists those
\* the filter lets through, and is not sent if there are none.
SendDailyMail(m) ==
    \/ \E r \in Results : SqlFilter(Filter[m.sub], r) /\ Sent(MailTo(m, r))
    \/ UNCHANGED inbox

\* The next mail of a worker.
SendMail(w) ==
    /\ \E j \in to[w] :
          /\ to' = [to EXCEPT ![w] = @ \ {j}]
          /\ IF Kind(j.row.sub) = "daily" THEN SendDailyMail(j.row)
                                         ELSE Sent(MailTo(j.row, j.about))
    /\ UNCHANGED <<mail, request, confirmed, ended>>

\* The worker dies.
MailsLost(w) ==
    /\ to[w] # {}
    /\ to' = [to EXCEPT ![w] = {}]
    /\ UNCHANGED <<mail, request, inbox, confirmed, ended>>

Init ==
    /\ mail = {}
    /\ request = [t \in Tokens |-> [pc |-> "unused", sub |-> NoSub]]
    /\ to = [w \in Workers |-> {}]
    /\ inbox = {}
    /\ confirmed = {}
    /\ ended = {}

Next ==
    \/ \E t \in Tokens, sub \in Subs : Subscribe(t, sub)
    \/ \E t \in Tokens : Insert(t) \/ InsertRefused(t) \/ SendVerifyMail(t)
    \/ \E m \in inbox : Verify(m.link) \/ Unsubscribe(m.link)
    \/ \E w \in Workers : SendResultMails(w) \/ DailyReport(w) \/ SendMail(w) \/ MailsLost(w)

Spec == Init /\ [][Next]_vars

----------------------------------------------------------------------------
(* Properties.                                                              *)

\* Every variable has its type, and no two rows share a UNIQ.
TypeOK ==
    /\ mail \subseteq MailRow
    /\ \A m, n \in mail : CRC32[m.sub] = CRC32[n.sub] => m = n
    /\ request \in [Tokens -> Request]
    /\ \A t \in Tokens : request[t].pc # "unused" => request[t].sub \in Subs
    /\ to \in [Workers -> SUBSET Job]
    /\ inbox \subseteq Mail
    /\ confirmed \subseteq Tokens /\ ended \subseteq Tokens

\* Results are mailed to no one who has not followed the link of the subscription they
\* are mailed for: a subscription that was ended and made anew needs a new confirmation.
OnlyConfirmedMailed == \A m \in inbox : m.kind # "verify" => m.token \in confirmed

\* Whoever gets a mail asked for what it is about: its author, its client and its status
\* are those of the filter, and in daily mails its path.  (MatchFilter's path= and branch=
\* and SqlFilter's branch= do not work.)
MailsAsked ==
    \A m \in inbox : \A t \in Filter[m.sub] :
        \/ m.kind = "verify"
        \/ t.key = "branch"
        \/ t.key = "path" /\ m.kind = "each"
        \/ Asked(t, m.about)

\* "You received this e-mail because this commit matches one of the filters to which you
\* have subscribed", of "Commit affects path".
PathsAsked ==
    \A m \in inbox : \A t \in Filter[m.sub] :
        m.kind = "each" /\ t.key = "path" => Asked(t, m.about)

\* A subscription that was ended never comes back, whatever old links are followed and
\* whatever requests are still under way.
EndedStaysEnded == \A m \in mail : m.token \notin ended

\* The row a mail was sent for.
RowOf(m) == {n \in mail : n.sub = m.sub /\ n.token = m.token}

Ends(link, n) == Md5(n.sub, n.token) = link

\* The link at the end of a result mail ends the subscription it was sent for, as long
\* as it exists, and no other one.
EachLinkEnds ==
    \A m \in inbox : m.kind = "each" => RowOf(m) = {n \in mail : Ends(m.link, n)}

\* The same of daily mails: "You will also receive this link with each email".
DailyLinkEnds ==
    \A m \in inbox : m.kind = "daily" => RowOf(m) = {n \in mail : Ends(m.link, n)}

=============================================================================
