------------------------------- MODULE Filters -------------------------------
(***************************************************************************)
(* Which results a subscription or a feed is about.  A filter is a string  *)
(* of terms, "author=...&status=ok"; here it is a set of terms [key,       *)
(* value].  The server reads it in three places: MatchFilter for mails     *)
(* sent as results come in, SqlFilter for daily mails, and RssFeed for the *)
(* feed that the same page offers.                                         *)
(*                                                                         *)
(* A regular expression is the set of names it matches, and a result is a  *)
(* record of what terms can be about: author, path, branch, client, ok.    *)
(***************************************************************************)

\* Faulty variants of the operators of the same name.
MatchFilterNotFailed(filter, r) ==
    \A t \in filter :
        /\ t.key = "author" => r.author = t.value
        /\ t.key = "path" => r.path \notin t.value
        /\ t.key = "branch" => r.branch \notin t.value
        /\ t.key = "client" => r.client = t.value
        /\ t.key = "status" => (t.value = "ok" => r.ok)

MatchFilter(filter, r) ==
    \A t \in filter :
        /\ t.key = "author" => r.author = t.value
        /\ t.key = "path" => r.path \notin t.value
        /\ t.key = "branch" => r.branch \notin t.value
        /\ t.key = "client" => r.client = t.value
        /\ t.key = "status" => (t.value = "ok" /\ r.ok) \/ (t.value = "failed" /\ ~r.ok)

\* It knows no branch=.
SqlFilter(filter, r) ==
    \A t \in filter :
        /\ t.key = "author" => r.author = t.value
        /\ t.key = "path" => r.path \in t.value
        /\ t.key = "client" => r.client = t.value
        /\ t.key = "status" => IF t.value = "ok" THEN r.ok ELSE ~r.ok

\* The branch only counts if there is a path.
RssFeed(filter, r) ==
    \A t \in filter :
        /\ t.key = "client" => r.client = t.value
        /\ t.key = "author" => r.author = t.value
        /\ t.key = "path" => r.path \in t.value
        /\ t.key = "branch" /\ (\E u \in filter : u.key = "path") => r.branch \in t.value
        /\ t.key = "status" => /\ t.value = "failed" => ~r.ok
                               /\ t.value = "ok" => r.ok

\* What the subscription page says of a term, and the page of feeds of "branch".
Asked(t, r) ==
    /\ t.key = "author" => r.author = t.value
    /\ t.key = "path" => r.path \in t.value
    /\ t.key = "branch" => r.branch \in t.value
    /\ t.key = "client" => r.client = t.value
    /\ t.key = "status" => (t.value = "ok" <=> r.ok)

\* The terms the page of feeds can put together, a status being one of two.
WellFormed(filter) == \A t \in filter : t.key = "status" => t.value \in {"ok", "failed"}

Keys(filter) == {t.key : t \in filter}

=============================================================================
