--------------------------- MODULE MCSubscription ---------------------------
(* Three subscriptions, two of which share their CRC32, and four results.   *)
EXTENDS Subscription, TLC

CONSTANTS each, colliding, daily, author, other, path, elsewhere, client, second

MCCRC32 == [s \in Subs |-> IF s = colliding THEN each ELSE s]

Term(key, value) == [key |-> key, value |-> value]

MCFilter ==
    [s \in Subs |->
        CASE s = each      -> {Term("author", author), Term("status", "failed")}
          [] s = colliding -> {Term("path", {path})}
          [] s = daily     -> {Term("client", client), Term("path", {path})}]

Result(a, p, c, ok) == [author |-> a, path |-> p, branch |-> "master", client |-> c, ok |-> ok]

MCResults ==
    {Result(author, path, client, TRUE), Result(author, elsewhere, client, FALSE),
     Result(author, path, client, FALSE), Result(other, path, second, TRUE)}

MCSymmetry == Permutations(Tokens) \cup Permutations(Workers)

=============================================================================
