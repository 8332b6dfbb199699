# Specifications of The Watchdog

The Watchdog tells build machines which commits of a repository to build and
collects their results. This directory holds TLA+ models of its server and of
its clients, the TLC runs that check them on small instances, and proofs,
checked by TLAPS, of the properties that matter most. All source paths below
are relative to `src/`.

## 1. The system

| Part | Source | State | Operations |
|---|---|---|---|
| Work API of the server `wds` | `src/Watchdog/Server/Api.icpp`, `Util.cpp`, `Entity.cpp`, `Web.icpp`, `Sql.cpp`, `table.sch` | tables COMMITS, CLIENT, RESULT, AUTH; output files `<output_dir>/<commit>/<client>.log` | Auth, GetWork, AcceptWork, SubmitWork, Update, deletebranch, Clean, SaveClient, RemoveClient, Remove |
| Build client `wdc` | `src/Watchdog/Client/Client.cpp`, `Client.h` | `lock_file`, the members of one `WatchdogClient` per process | `--get`, `--accept`, `--submit`, `--run`, `--multirun` |
| Command lines of `wdc` and `wda` | `Client/Client.cpp`, `Admin/Admin.cpp` | the members that options set, two static locals | Execute, ParseArgument, SetAction, ProcessAction |
| Output of the build command | `Client/Client.cpp` (Run) | the text, the four counters | take the lines `@counter=n` out |
| Cookies | `src/Watchdog/Client/CookieFile.cpp` | `cookie_file`, shared by processes | Load, Store, LoadCookies, StoreCookies |
| Admin client `wda` | `src/Watchdog/Admin/Admin.cpp` | none | update, clean, email report, state, delete branch |
| Filter and paging of the pages | `Server/Util.cpp` | `CommitFilter::cache`, shared by the worker threads; the session's filter | CommitFilter, FindInCache |
| Status of results, commits and branches | `Server/Util.cpp`, `Entity.cpp` | none: computed from RESULT | ComputeStatus, SuccessRate, SetComputedAttributes |
| Regular expressions in SQLite | `Server/SqliteCompat.cpp` | an LRU cache of 16 compiled expressions, one for all threads | `sqlite_regexp` |
| Subscriptions and mails | `Server/Feeds.icpp`, `Email.cpp` | table MAIL | Subscribe, Verify, Unsubscribe, SendResultMails, DailyReport |
| Export and import | `Server/Config.icpp`, `Sql.cpp` | all tables and output files | Export, Import |
| Hooks and repository scripts | `Server/Api.icpp` (Hook), `scripts/` | none | run a script, send Update requests |
| Server process | `Server/Server.cpp` | copies of the schema scripts in `db_scripts_dir`, the row of client 0 | OpenDB, UpdateDB, SaveSchema, SetAdmin |
| DynamicSql | `src/DynamicSql` | the selected backend | SetDialect, the names of dialects; forwards to the backend |

How they interact. `wds` runs several worker threads (Skylark), each with its
own database connection; the threads share the database, the output files and
the two caches. Every request that changes the work tables is authenticated
with a nonce: the client first gets `/auth/<action>`, which stores a nonce in
AUTH, and then posts the action with a digest of nonce, action and password;
`CheckAuth` deletes the nonce. `wdc` polls GetWork, writes the lock file,
accepts one commit, runs the build command, posts partial results every
`upload_interval` seconds and a final one, and removes the lock file. `wda`,
run by cron or by repository hooks, adds commits and runs the clean job.

What is hard. Requests are delayed, repeated, or carried out after their
client gave up; builders die at any point; handlers fail between an output
file and the database commit that goes with it; the clean job and removals
race with late submissions; several processes of a machine share files without
atomic operations; worker threads share caches without locks; and work is done
after the response has been sent. `PROJECT.json` lists each such hazard at its
line, with the properties that cover it.

What makes each part correct:

* Work API: nothing is stored for a client that is not registered; one
  submission is stored at most once; output file and counts agree; final
  results are not lost; abandoned builds and nonces are forgotten; commits that
  an Update has stored stay, whatever fails or runs between its batches.
* Build client: a commit is left in progress, and a lock file left behind, only
  when a builder died or could not report; a hanging command is killed and
  reported as failed; only one build runs under the lock (it does not hold);
  a report carries the counts of its own build (it does not hold).
* Filter cache: a page uses the count of its own filter, no older than it may
  be, and the cache keeps to its size. Regular expression cache: what is
  executed is what was asked for, and nothing is freed twice or leaked. But for
  the last, these are properties of the algorithms as long as no two calls
  overlap; nothing in the code makes them hold when worker threads share the
  caches at the same time, and no doc says that they do.
* Pages: each commit is on one page, the links of any page lead to pages that show
  something, and whoever goes from page to page misses nothing that was there.
* Subscriptions: only verified addresses get mails, only about what was asked
  for (with `path=` and `branch=` it does not hold), a subscription that was
  ended stays so, and the link in each mail ends it (daily mails: it does not).
* Export and import: an archive has with every row the output of the same
  submission, and a whole archive restores rows and files, whatever is submitted,
  removed or cleaned meanwhile.
* Server process: whoever serves requests has the tables of its version; the old
  password of the administrator is worth nothing after `--set-admin`.
* Cookies: a request is sent in the session its nonce was made for.
* Command lines and output: what is begun is what the line as a whole says, and
  what is stored is what the output as a whole says (with the exceptions below).
* Status: no page says "OK" of a commit with a failure, or hides one.

## 2. The modules

`JobBoard` is what the server promises its builders, without nonces, files,
transactions or time: one entry per commit and client, which only a member may
report on, which is forgotten unasked only while in progress, and which goes
away with its client. Everything else relates to it:

    JobBoard   <== implemented by ===  WorkApi    (server)
       ^
       +--------- instantiated by  ---  Builder    (client processes)

`WorkApi` implements `JobBoard` (checked by TLC and proved), and `Builder` runs
its processes against `JobBoard`. Together they compose the two programs
without multiplying their states, and that they fit is proved from both sides: no
step of `Builder` does more to its board than `JobBoard` allows (`StaysOnBoard`),
and what `WorkApi` does to any one of its clients is what `Builder` takes its
server to do, beside whatever the other clients and the administrator do
(`ServedAsBuilderAssumes`). `Subscription` shares no state with them, since the
mails are sent after SubmitWork has answered; nor do `FilterCache`,
`RegexpCache`, `Paging` and `Status`, which serve pages that change nothing.
`CookieFile`, `Arguments` and `CommandOutput` are the parts of a client that
`Builder` takes for granted: the session of an exchange, the operation a process
performs, and the counts a build ends with. `Startup` is what happens before
`WorkApi`, `Backup` what an export or import does beside its SubmitWork, and
`CommitUpdate` what happens between the batches of its Update. `MCParts` puts the
ten small modules side by side.

### WorkApi

The four tables and the output files, and one action per handler. `CheckAuth`
begins every handler that writes; its DELETE takes the write lock of the SQLite
database, and Skylark commits when the handler returns. So a handler that only
touches the database is one step. SubmitWork, Remove and RemoveClient also
touch output files, which no transaction covers: they are several steps of the
open transaction `tx`, `Abort` may end them at any point with the database
rolled back and the files as they are, and `torn` remembers the keys this
happened to. Clean answers first and cleans afterwards, in two further steps,
and may die in between.

| Code | TLA+ |
|---|---|
| Auth, WebAuth, WebAuthPost (`Web.icpp`) | `IssueNonce` |
| CheckAuth (`Util.cpp`) | `Authorised`, `AuthorisedAdmin`, `Spend`, `Denied` |
| AcceptWork (`Api.icpp`) | `AcceptWork`, `Accepted` |
| SubmitWork (`Api.icpp`) | `SubmitWork` up to the file, `SubmitCommit` from `result.Save()` on |
| Update, deletebranch (`Api.icpp`, `Entity.cpp`) | `Update`, `DeleteBranch` |
| SaveClient, RemoveClient, Remove (`Web.icpp`), Result::Delete (`Entity.cpp`) | `SaveClient`, `RemoveClient`, `Remove`, `DeleteLog`, `RemoveCommit` |
| Clean, CleanResults, CleanAuth | `Clean`, `CleanResults`, `CleanAuth`, `CleanLost` |
| GetWork | `JobBoard!Open` |

Abstractions. A nonce is also the name of the request that uses it, so that
`result[k].by` and `log[k]` say which submission they come from; counts and
output are not otherwise looked at. START is the age of the time it holds,
counted up to one past `MaxTestTime`; likewise VALID in AUTH and `NonceLife`.
A row that is absent carries the column defaults, which makes Upsert's insert
and update one change. The administrator, client 0, always exists.

Assumptions, from the code or its environment:

* SQLite serialises writers, and a transaction spans a request (the comment in
  `Config.icpp:114` and the explicit `Commit`/`Begin` in `Api.icpp:128-132`
  rely on it). With MySQL and row locks more interleavings are possible.
* `http.Finalize()` ends the transaction of Clean before its deletes.
* UUIDs are fresh: `Unused` picks one that is not stored and that no stored
  row or file still names. `AUTO_INCREMENT` ids are not reused.
* `wdc` names the same client in the path of a request and in `client_id`;
  CheckAuth would also let the administrator stand in for a client.
* START as posted by a client is not later than the server's clock.
* Partial results come from `Run`, which always has a start to post.
* Nobody posts in the name of a client that has no row with an empty password:
  CheckAuth (`Util.cpp:209-213`) does not look whether its SELECT found one.

### Builder

Processes of one machine that share `client_id` and `lock_file`. Each is a
`--run`, a `--multirun`, or a script that calls `--get`, `--accept` and
`--submit` itself, and locks or not (`--nolock`). `proc[p].pc` is the place in
`Run` (or in the script), and one action is one stretch of code between two
points at which another process or the server can act: `CheckLock` and
`WriteLock` are two, since `FileExists` and `SaveFile` are. `Post` is an
exchange with the server that may be refused, lost, answered, or carried out
after the client stopped waiting (`late`, `Arrive`). `Administer` is all that the
server does beside that: builds are forgotten, results or branches removed, or the
client itself, whose later requests are then refused. `Crash` may end a process
anywhere. A count is kept as the commit whose build set it, which is what
`KilledReported` and `CountsOfThisBuild` are about; `ok` stands for the three
counts the client treats alike. A process may also be started with counts
(`Options`), which are then `Given`: the help says that `--ok` and its likes are
"only honoured with --submit" (`Client.cpp:446-447`), but ParseArgument stores
them whatever the action is and Run does not reset them, so that `wdc --run` sends
them for a build that prints none. With one of them a killed build gets no error
(`Client.cpp:248-250`): `KilledReported` states it as what is then reported. `leftover` and `orphans` are history variables
that record why a lock file or a commit may be left.

### Subscription

The table MAIL, the pages that change it and the mails. A Subscribe request is
three steps, its SELECT (`Subscribe`), its INSERT and answer (`Insert`,
`InsertRefused`) and its mail (`SendVerifyMail`), since neither a lock nor the
write transaction covers them together; two requests may pass the SELECT with
one UNIQ. A worker that has answered SubmitWork or DailyReport holds the list
of rows it selected (`to`) and mails them one by one (`SendMail`) while
subscriptions come and go. `Verify` and `Unsubscribe` follow any link of any
mail that ever arrived. `confirmed` and `ended` are history variables.

A subscription (`sub`) stands for an address, a filter and a FREQ; TOKEN is a UUID
and so names the request that made it; `Md5` is taken to be injective, and `CRC32`
is any function, so that two subscriptions may share their UNIQ. Whether the INSERT
that meets a taken UNIQ ends the request or is only logged depends on the database
session; both are allowed. Any mail may be lost, as SendEmail only logs that.

### Filters

The filter of a subscription is a string of terms, read by three pieces of
code; here it is a set of terms, a regular expression is the set of names it
matches, and the three are operators on a filter and a result: `MatchFilter`
(`Util.cpp`, result mails), `SqlFilter` (`Sql.cpp`, daily mails) and `RssFeed`
(`Feeds.icpp`). `Asked` is what `ParseFilter` and the page of feeds tell the
visitor. They disagree: `MatchFilter` turns `path=` and `branch=` round,
`SqlFilter` knows no `branch=`, and `RssFeed` heeds it only beside a `path=`.
`Subscription` uses the first two; of what a result says, only what filters look
at is kept.

### FilterCache

`CommitFilter::FindInCache` and `commitcount`: what the search finds
(`FindFresh`, `FindExpired`, `FindNothing`), the count in the database and the
store of the entry (`Store`), and the read by index (`Return`) are steps of a
thread, each atomic. So is every Vector operation, which the code does not
guarantee. Times are ages, and the time between taking `maxage` and storing is
any number of ticks. `Size` is at least 1: with `filter_cache_size = 0` the
code reads entry 0 of an empty Vector. What Vector::Remove leaves when the expired
entries are dropped is `Selected` of module `Selection`, which `CommandOutput` uses
for String::Remove too.

### RegexpCache

`sqlite_regexp`, which evaluates every regular expression of a query: the search
of the cache, with the move to the front (`Hit`), `pcre_compile` and its error
(`Miss`, `Compile`), the eviction and insertion (`Insert`), and `pcre_exec`
(`Exec`). An entry is an expression and a handle; `heap` says which handles are
allocated, and from which expression. `strdup` does not fail.

### Paging

The constructor of `CommitFilter` and the SELECT of a page. Commits are numbered by
DT, by which pages are ordered. `matching` are those in the table that match the
filter, and `counted` is their number as the filter cache gave it out; `Recount`
brings the two together. Update stores whatever DT it is sent, and so `AddCommit`
may add a commit of any age; as an Upsert may also change whether a commit matches,
`AddCommit` and `RemoveCommits` stand for that too. `Rows` is LIMIT and OFFSET, where
a negative offset counts as none, as it does in SQLite. Pages above the highest give
such offsets: `set_cnt` in `watchdog.js` keeps the page number when it changes the
size (`ChangeSize`), the number can be typed in (`GoTo`), and deletions leave old
links. The links of such a page are those the code makes, and `LinksLead` is about
them too. `FollowNewest` is the link "<< Newest", which has no page number:
`paging.witz` compares the missing number with 0, and the model allows both what
the template may make of it.

`promised` is a history variable, what matched when the page was shown, given up when
something is removed. `NothingSkipped` is about these commits. A commit that is pushed
between two clicks with an old DT may land on a page that was already shown and be
missed; no doc says otherwise. The filter does not change while one pages, and
commits of one DT keep their order from one SELECT to the next, which SQL does not
promise.

### CookieFile

Each process goes through its requests (`place`): GetWork, or Auth and then the
request the nonce is for. `LoadCookies` and `StoreCookies` are the two halves
around each; `Load` and `Store` belong to them only if `always` is set, which no
constructor does and the model therefore leaves open. A `Store` is two steps
(`StoreFile`), since SaveFile empties the file first; what another process reads
between them, and what a killed one leaves, is `Unreadable`. Of several cookies
with one id the one attached last is sent (`Attached`).

| Code | TLA+ |
|---|---|
| CookieFile(), Load, Store, ~CookieFile | `Open`, `Load`, `StoreFile`, `Leave`, `Left` |
| Auth or the request after it that fails | `Refused`: nothing is stored, and Run goes on behind a partial result |
| LoadCookies, StoreCookies | the same names, with `Held`, `Attached`, `StoreIf` |
| GetWork | `GetWorkSent`, `GetWorkAnswered` |
| Auth | `AuthSent`, `AuthAnswered`, `AuthReturns` |
| AcceptWork, SubmitWork, Admin::Update ... | `PostAnswered` |

### Arguments

A command line is a sequence of words, and each turn of the loop in Execute is
an action: one per way a turn can end (`Help`, `Unknown`, `SecondAction`,
`ParametersMissing`, `TakeAction`, `TakeOption`, `TakeTime`), and
`ProcessAction` behind the last word. `action` is the letter that the code keeps,
which is why `--submit` and `--state`, or `--update` and `--run`, need telling
apart. Two things the model allows because the code does: `wda --delete` without
its parameter reads behind the end of the line (`DeleteBeyond`), and a second
`--start` or `--end` in local time is moved by an uninitialised offset (`Scan`).

### CommandOutput

The loop of Run over "\n@". A line is other text, maybe beginning with a number,
or nothing but white space, or mentions a counter; `TakeCount` removes a line and
goes on at its place. The library's ScanInt skips white space, newlines included: a
mention with nothing behind `=`, or without `=`, takes the number that the next line
with something on it begins with (`ScanInt`, `Behind`), and `CountsExact` does not say
what such a mention is worth.
On a last line that no newline ends, Remove is called with a negative length,
which the model does not follow further (`parsed = "broken"`).

### Startup

A process is a record: the step of main it is at, the kind of script, its
version, its backend. `UpdateDB` and `SaveSchema` are one action per script,
since the copies are files of their own and a process may die between any two.
`SqlPerformScript` goes on after a failed statement: any subset may fail.
`LoadAdmin` and `SaveAdmin` are SetAdmin before and after its questions, and
`SaveClientAdmin` and `RemoveAdmin` what the pages do to the account. Client::Save
chooses between UPDATE and INSERT by what was loaded before the questions; if the row
came or went meanwhile its statement changes nothing (`Saves`), and nobody looks.
`stale` is a history variable, the processes that would find the password unchanged
since they loaded the row: `OldPasswordGone` says that there is none when one ends.
Of the account the password is kept, and not its name and filters, which SetAdmin
writes back as it loaded them. `ScriptsLost` and `Exchange` are
what befalls the copies and the database. `excused` is a history variable: what
a failed statement did not make, or what was there before the database was
exchanged, because the copies then say that it is there.

### Backup

For every result its row, its output file and the submission each comes from.
`lock` is SQLite's write lock, as in `WorkApi`. Export reads the tables and then the
files one by one, and Import is five steps: it commits behind CheckAuth (and so gives
the lock away), deletes the files, writes those of the archive one by one, drops the
tables, and loads and commits. It may be aborted between any two. An archive that is
cut off (`whole` is FALSE) is loaded as far as it goes and answered in the same way.

Beside them run the handlers that write RESULT or its files, with the same lock and
in the same steps as in `WorkApi`: SubmitWork (`SubmitBegins`, `HandlerEnds`), Remove
and RemoveClient with their files one by one (`RemoveBegins`, `RemoveFile`), and
CleanResults and Branch::Delete, which delete rows and leave the files
(`RowsDeleted`). Archives with files without rows are therefore ordinary, and
`ArchiveMatches` is about the rows: each has its own output. `torn` and `during` are
history variables: the rows that no longer need to agree with their files, since a
handler was aborted or Import rewrote the files (also those of a request that begins
while Import is at them), and the results that were submitted
or removed since Import gave the lock away. A statement that fails in a request that
goes on is not modelled, and AcceptWork leaves the submission a row is known by.

| Code | TLA+ |
|---|---|
| CheckAuth (`Util.cpp`) | `Free`, `Begins` |
| SubmitWork (`Api.icpp`) | `SubmitBegins`, `HandlerEnds` |
| Remove, RemoveClient (`Web.icpp`), Result::Delete (`Entity.cpp`) | `RemoveBegins`, `RemoveFile`, `HandlerEnds` |
| CleanResults (`Util.cpp`), Branch::Delete (`Entity.cpp`) | `RowsDeleted` |
| Export (`Config.icpp`) | `ExportTables`, `ExportFile`, `ExportSent` |
| Import (`Config.icpp`) | `Import`, `ImportDeletes`, `ImportFile`, `ImportDrops`, `ImportCommit`, `ImportAborted` |

The rows are those of RESULT, without the strings of other tables. `SqlEscape`
writes backslashes and control characters as escapes that SQLite does not read
back, so an exported SRC or BRANCHES expression with a backslash comes back
changed: `PROJECT.json` lists it, and no property covers it.

### CommitUpdate

`WorkApi` stores the commits of an Update one by one; this module has the request
as a whole. `SaveCommit` is a turn of its loop, `SaveLastOfBatch` one that ends
with Commit and Begin, which gives the write lock away until the next commit is
saved. In between other Updates and `DeleteBranches` run. The request fails at
any point, with the open batch rolled back and the earlier ones stored. A row
names the run of `wda --update` whose data it holds; `overtaken` is a history
variable, the commits that somebody else changed since. No script posts a UID
twice in one request, as `git log` and `svn log` do not repeat a commit.

### Status

The rows of one commit, and the pages that show one of them, their sum, or the
branch. `Total` is the sum the SELECT computes, and the STATUS beside it that of
any row (`ShowCommit`), as the column is neither aggregated nor grouped by.
`SuccessRate` is in hundredths of a percent, rounded.

## 3. The runs

The `MC` modules hold the constants' definitions and the symmetry sets;
symmetry is used in the safety runs only.

| Run | Instance | States | Shows |
|---|---|---|---|
| `work_api` | 1 client, 2 commits of 1 branch, 3 nonces, limits 1 and 0 | 1.1 million | `TypeOK`, `OnlyRegisteredHaveResults`, `OutputMatchesResult`, `StoredOnce`, `FinalKept`, `ImplementsBoard` |
| `work_api_live` | 1 client, 1 commit, 3 nonces, limits 0 | 67 thousand | `StaleStartedForgotten`, `NonceForgotten` |
| `builder` | 2 processes of all kinds, 1 commit, 1 delayed request | 1.6 million | `TypeOK`, `LockAccounted`, `InProgressAccounted` |
| `builder_live` | 1 process of any kind, 2 commits, 2 delayed requests | 0.26 million | `KilledReported`, `BuildEnds` |
| `start_kept` | as `work_api`, 2 nonces | | violated: a submission without start erases START |
| `stale_forgotten` | as `work_api_live` | | violated: a partial result without START is never cleaned |
| `lock_exclusive` | 2 locking processes | | violated: both test for the lock file before either writes it |
| `counts_of_this_build` | 1 `--multirun`, 2 commits | | violated: a count of the first build is reported for the second |
| `subscription` | 3 subscriptions, 2 of one CRC32, 4 results, 3 requests, 2 workers | 61 thousand | `TypeOK`, `OnlyConfirmedMailed`, `MailsAsked`, `EndedStaysEnded`, `EachLinkEnds` |
| `daily_link_ends` | 1 daily subscription | | violated: the link in a daily mail ends nothing |
| `paths_asked` | as `subscription` | | violated: a filter with a path is mailed the results of other paths |
| `parts` | the ten small modules, see below | 1.8 million | filter cache: `CacheBounded`, `OneEntryPerFilter`, `OwnFreshCount`, `EvictsLeastRecentlyUsed`; expressions: `HandlesAccounted`, `RightExpression`, `MostRecentKept`; pages: `EachCommitOnOnePage`, `LinksLead`, `NothingSkipped`; cookies: `OwnSession`; command lines: `ActionMeant`, `TimesMeant`; output: `CountsExact`; start-up: `SchemaCurrent`, `OldPasswordGone`; backup: `ArchiveMatches`, `ImportRestores`; updates: `CommitsKept`; status: `NoFalseOK`, `NothingHidden`; and `PartsTypeOK` for all of them |

`MCParts` runs ten modules that share no state: `part` picks one, and a
behaviour is then one of that module alone. It may stop, since command lines
and outputs end.

Bounds. One client is enough for the rows of one key, since a handler names its
client and keys of two clients meet only in RemoveClient; two commits let a
branch or a client be removed with several results and files, half of them
deleted. Three nonces let a row, its file and an open request each have their
own. A limit of 1 distinguishes fresh, old and too old. The proofs cover all
sizes. In `builder`, two processes are what it takes to race for the lock, and
one delayed request what it takes to overtake a final result; two commits
matter only to `--multirun`, which `builder_live` gives two of. Three requests
let a subscription be made, ended and made anew while a third collides with it;
two workers hold a list of result mails and one of daily mails at once.

In `parts`, four filters and room for three let an eviction choose, and an
expiration of 2 gives entries of different ages that are still fresh. Four good
expressions and room for three (`CACHE_SIZE` is 16 in the code) let one be found at
the front, in the middle or at the end, and one be evicted; a fifth does not
compile; one handle more than entries is what a compiled expression needs before the
last is freed. Up to four commits on pages of one, two or three give totals that are
multiples of the page size and that are not, and more pages than the three that get
links on either side; which of the four match, and where new ones come in between,
is any choice. There is one thread, because the properties are those of the
algorithms: with two in `Threads`, or in `Callers`, the modules show how one
overfills the cache, or frees an expression the other is about to execute. The
proofs are about any number of threads (section 4). `MaxCache` bounds the filter
cache where it would then grow for ever; with one thread it is never reached.

Two processes and two sessions are what it takes for one to write the cookie file
between the other's Auth and the request that follows. A command line of four
words holds an action with its two parameters and one word more, or `--utc` with
a time on either side; the eleven words are one or two of each kind of option,
among them the pairs that share a first letter, and all lines up to that length
are tried, also as `wda`. Outputs of four lines have two mentions that follow each
other behind the first line, and text on either side. Two versions, the second
with one index more, and two processes let the older one run between two starts
of the newer, and let one save its copies while the other is between two scripts.
In `Backup` the results meet only in the files that Import and the removals treat
one by one, so two are enough to have one done and the other not; one submission
is enough, since a value that differs from a row or file is then that there is none,
and `DatabaseProofs` covers any number of both. Outputs of four lines also have a
blank one between a count and a number. Batches of two and requests of up to
three commits end behind a batch or within one; two runs overlap, and each may be
sent again. Tests in
`Status` are 0, 1 or 20000 because a rate is rounded to 100.00 % when one test in
20000 fails and not when one in two does.

Fairness. In `work_api_live`: time passes; Auth answers when asked; the clean
job, which cron repeats (`wda --clean`), is not lost every time (strong fairness
of `Clean`, `CleanResults`, `CleanAuth`, which other handlers can disable again
and again); an open transaction ends. Nothing is assumed of builders, and
`StaleStartedForgotten` speaks only of those that have gone silent. In
`builder_live`: a running `Run` loop looks at the clock, a final post and the
end of Run go on. A command need not end by itself and uploads may be endless
as far as fairness is concerned.

## 4. The proofs

Every safety property of a passing run, invariant or action property, is proved for
every value of the constants. Those of the caches that hold only if calls do not
overlap are proved for that case. For every property that a run refutes there is a theorem
that says how far it holds or why it does not, so that the counterexample is the
whole story: `StartKeptIfPosted`, `UnstartedNeverCleaned`,
`LockExclusiveButForTheGap`, `CountsOfOneBuild`, `PathsInverted` and
`DailyLinksEndNothing`. For the two liveness properties of `WorkApi` the safety half
is proved: what waits to be cleaned stays so until it is gone.

`WorkApiProofs` proves for every value of the constants that satisfies the
three assumptions of `WorkApi`:

* `TypeCorrect`: `Spec => []TypeOK`. Inductive as it stands.
* `NoResultsWithoutClient`, `OutputOfSameSubmission`, `NoReplay`: `Spec =>
  []OnlyRegisteredHaveResults`, `[]OutputMatchesResult`, `[]StoredOnce`. They
  need the invariant `IInv`, which adds what holds while a transaction is open:
  a pending submission is for a registered client's key whose output file it has
  already written (`SubmitPending`); a pending removal has files left only for its
  own rows, and if it drops a client then all of that client's rows are in it
  (`RemovePending`); and the rows whose file the open transaction has not
  touched still match (`OutputMatchesUntouched`), which is what an abort relies
  on, since it gives back the rows. TLC has checked `IInv` on the instance of
  `work_api`.
* `FinalResultsKept`: the action property `FinalKept`, from `TypeOK` alone.
* `ServerImplementsBoard`: `Spec => ImplementsBoard`, the refinement. Its
  invariant `TxShape` says what rows an open transaction removes (one key, or all
  keys of the clients it drops), so that the commit of a removal is one step of
  the board. Each action has its step: accept and submission commits are `Report`,
  CleanResults is `Forget`, a branch's deletion is `Withdraw`, a client's removal
  `Leave`, and everything else stutters.
* `ServedAsBuilderAssumes`: the refinement as one client sees it. `Seen(c)` is the
  board of client `c` alone, an instance of `JobBoard` with `c` as its parameter. It
  is empty when `c` is registered and from then on changes by `Report`, `Forget`,
  `Withdraw` and `Leave` only, since a removed client's id is not given out again
  (`RemovedForGood`): these are the steps of the server in `Builder`.
* `StaleStartedWaits` and `NonceLifeNotExtended`, the safety halves of
  `StaleStartedForgotten` and `NonceForgotten`: what only time changes grows older
  and, once old enough, stays so until the clean job takes it (`RowAges`). What
  fairness adds, and TLC checks, is that the clean job comes.
* `UnstartedNeverCleaned`: a build in progress without START keeps its row as it is,
  however much time passes. `StartKeptIfPosted`: a START is lost only to a submission
  that posts none. `AcceptKeepsCounts`: an accept that comes from an old list puts a
  finished result back in progress, but its counts stay until the next submission.

`SubscriptionProofs` proves, for any set of subscriptions, requests and workers and
any assignment of UNIQ, `TypeCorrect` (with the uniqueness of UNIQ),
`MailsConfirmed` (`OnlyConfirmedMailed`), `NoReturn` (`EndedStaysEnded`) and
`ResultMailsCanBeEnded` (`EachLinkEnds`). Its invariant `IInv` adds that an active
row, and every row a worker still has to mail, was confirmed (`ActiveConfirmed`),
that a request that has not inserted yet has a token nobody has seen
(`PendingFresh`), and that no two rows share a token (`TokenUnique`); `ResultLinks`
says what the link of a result mail is. `MailsPassTheFilters` says that a mail about
a result passed its subscription's filter, because every mail still to be sent was
matched when it was planned (`JobsMatch`). From it follow `OnlyAskedFor`
(`MailsAsked`), that mails are about what was asked for, apart from the terms
`path=` and `branch=`, and `PathsInverted`, that a result mail is never about a path
or branch that was asked for. `DailyLinksEndNothing` says that the link in a daily
mail ends no subscription, if no MD5 is a token. `FiltersExact` is about `Filters`
alone: without those terms the three evaluators say the same as `Asked`, so that
nothing that was asked for is left out either. It and `OnlyAskedFor` assume that
filters are the ones the page of feeds can put together (`FilterAssumption`).

`BuilderProofs` proves for any number of processes and commits, under the
assumptions of `Builder`, `TypeCorrect`, `LocksAccounted`, `BuildsAccounted` and
`KilledBuildsReported`. `LockAccounted` and `InProgressAccounted` are inductive
once it is known what a process is at each place (`Good`): past GetWork it has a
commit, only one that locks tests for the lock file, and outside `--multirun`
there are no counts before a build but those of the command line. `ProcessStep` and `ExitStep` say once what
each action of one process has to show: its lock file and its commit pass on to
its next state, or are left behind and counted in `leftover` and `orphans`.
`StaysOnBoard` is the client's side of the composition (section 2).
`CountsOfOneBuild` names what can make a count that is sent another build's: the
process is a `--multirun`, or the count was given as an option (`CountsAccounted`);
where there is neither, `CountsOfThisBuild` holds.
`LockExclusiveButForTheGap` proves `LockExclusive` of the behaviours in which no two
processes are between FileExists and SaveFile at once (`[]OneWriter`). Its invariant
`LockTaken` says that whoever is past the write has the file, and that nobody else
is past the look.

`DatabaseProofs` is about `Startup`, `Backup` and the cache of `RegexpCache`.
`SchemaStaysCurrent` (`SchemaCurrent`) and `OldPasswordsGone` (`OldPasswordGone`) hold for any
processes, backends, versions and things that their scripts make. The first needs
that the copies do not promise more than the database holds (`CopiesHold`), which is
why a process that dies between UpdateDB and SaveSchema does no harm, and that a
process holds what the scripts behind it make (`ProcessesHold`); the second that a
process that could still find the old password has loaded the row and the row is
there (`AccountInv`), so that its UPDATE will change it. `ArchivesMatch` and
`WholeArchivesRestore`, the latter for the action property `ImportRestores`, hold for
any results, submissions and sets of results that are removed or cleaned at once.
Their invariant `BackupInv` follows the handlers through their steps: who has the
write lock (`LockHeld`), a request that Import may have overtaken (`RequestTracked`),
rows that have their own output, all excused while Import is at the files (`FilesMatch`),
the archive as far as it is made (`ArchiveGrows`), and the files as far as they are
restored (`FilesRestored`).

`ClientProofs` is about what the clients do on their own.

* `RequestInOwnSession` (`OwnSession`), for any processes and sessions. It adds
  that behind Auth the session's cookie is the last one held (`OwnLast`), and that
  a process that reads the file each time finds what it wrote there unless another
  wrote since (`OwnStored`).
* `CommittedStays` (`CommitsKept`), for batches of any size. It adds that a request
  that does not have the lock has committed all it saved (`PostsTracked`), and
  that the open transaction has changed rows to its writer's only
  (`UnsavedTracked`); `WholeBatches` is what it needs of division.
* `CountsTakenOff` (`CountsExact`), for outputs of any number of lines. While the
  output is searched there is a place in what the command wrote such that all
  counts before it, and nothing else, are taken off and in the counters
  (`Searched`). The search goes on at the same number in a text that has become
  one line shorter, which is why `Searched` relates the two numberings.
* `BeginsWhatIsMeant` (`ActionMeant`) and `TimesAsMeant` (`TimesMeant`), for
  command lines of any length. What is read is at every moment a beginning of the
  options of the line (`OptionsWalk`, `AdvanceLine`), and action, flags and times are
  what these options say (`ActionRead`, `FlagsRead`, `TimesRead`).

Nothing in the code locks the two caches, so most of what is proved about them, for
any size and any number of threads, is about the behaviours in which no call overlaps
another (`[]OneAtATime`, `[]OneCallAtATime`); without that the properties do not hold.

* `FilterCacheBounded`, `NoSecondEntry`, `CountsAreOwn` and the action property of
  `LeastRecentlyUsedGoes` (in `PagesProofs`) hold because what a call found out about
  the cache still holds when it stores its entry (`SlotTracked`): the place it took is
  one that may be overwritten, or there is room, and no entry is its filter's.
* `FilterCacheTypeCorrect` and `OverfullStays` are about all behaviours. The second
  says what overlapping calls lead to: the cache is taken to be full when its length
  is the limit, so once it is longer it never gives up an entry again.
* `NoHandleLeaked` (in `DatabaseProofs`) needs no such condition either: it holds
  however calls overlap, as long as each memmove with its store is one step. Each
  entry has a handle of its own, compiled from its expression (`EntriesSound`), a
  handle that is allocated is in an entry or about to be (`NoneLost`), and one about
  to be inserted is in no entry and in no other call (`CallHolds`, `HeldOnce`).
* `RightOneExecuted` and `CacheIsMostRecent` (in `DatabaseProofs`) add that what a
  call found out still holds when it uses it (`CallTracked`), and that the entries are
  a beginning of the history of expressions, in which each comes once (`UsedOnce`). An
  expression may have two entries when calls overlap, and the one executed may be freed.

`PagesProofs` is about `FilterCache`, `Paging` and `Status`. `PagesPartition`
(`EachCommitOnOnePage`) and `LinksLeadSomewhere` (`LinksLead`) are facts about
division and rounding, and about the places commits have in a list (`RowsByPlace`,
`PlacesCount`), for any commits, any page size and any page shown, one above the
highest included. `NextPageSkipsNothing` (`NothingSkipped`) needs that what a visitor
sees is a page of the promised commits (`ShownTracked`), and that the older ones of
them are never fewer places from the newest than they were, wherever commits are
added (`NewerGrows`). `OKIsTrue` (`NoFalseOK`) and `FailuresShow` (`NothingHidden`)
follow from `StatusInv`: a view shows the sum of its results, and the sum is zero
only if all are (`TotalProperties`), for any finite number of builders. `SumsExist`
shows that the recursive function in the sum is defined at all.

`PartsProofs` is about `MCParts`, which runs the ten small modules in one run: a
behaviour in which one part runs is a behaviour of its own specification (`PartStarts`,
`PartStep`), so `PartsTypeOK` follows from the ten type theorems.

`Lemmas` holds what these proofs need of numbers, sequences and finite sets.
`LeastNumber`, `Induction` and the rest are stated about a set instead of about a
predicate, since the library's induction theorems take an operator, which none of
the provers can instantiate. `NthProperties` and `RemovedFromSelection` say what
is left of a sequence when elements are taken out of it: the form in which both
`FilterCache` and `CommandOutput` remove (module `Selection`).

Assumptions of these: the constants that stand for "none" are not values
(`NothingAssumption`, `VersionAssumption`, `SessionAssumption`, `CommitAssumption`,
`FilterAssumption` of `FilterCache`, `RegexpAssumption`), a batch, a page and a
cache are not empty (`BatchAssumption`, `SizeAssumption`, `CacheSizeAssumption`),
bounds are numbers (`WordsAssumption`), no counter's name is empty
(`CounterAssumption`), there are finitely many builders and 0 is a number of tests
(`TestAssumption`), and modes, locking and options are as in `ModeAssumption` and `OptionAssumption`;
TLC evaluates each one.

Only model-checked: the three properties under fairness, `StaleStartedForgotten`,
`NonceForgotten` and `BuildEnds`, since liveness and ENABLED are out of the prover's
reach.

## 5. What is not modelled, and the plan

Not modelled, and why:

* Hook, the hook scripts and the repository scripts: Hook starts a program and
  forwards its output; what the scripts send are Update requests, which
  `WorkApi` has.
* Page layout, templates, colours, durations and the graphs the browser draws;
  log files; packaging, makefiles and the integration tests: no state that
  outlives a request.
* The DynamicSql classes, but for the choice of a backend by name (`Startup`):
  each call is forwarded to the session of that backend.
* The columns LAST_ACTIVITY and LAST_WORK, which are only shown, and what
  SaveClient changes of a client that exists already: its name, filters and
  password.
* MySQL: its row locks, and that its DROP and CREATE commit on their own.
* Strings that SqlEscape changes (see Backup), and the digits of numbers that do
  not fit in an int.

Left for later: an import of strings that are escaped and not read back.
