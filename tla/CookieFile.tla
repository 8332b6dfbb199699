----------------------------- MODULE CookieFile -----------------------------
(***************************************************************************)
(* The session cookies of the build and admin clients: CookieFile.cpp and  *)
(* the requests of Client.cpp that use it (src/src/Watchdog/Client).       *)
(*                                                                         *)
(* Every process has a CookieFile, and those of one machine may share the  *)
(* file, cookie_file.  A nonce and its identity are good in one session    *)
(* only.  Auth asks for them without cookies, so that the server opens a   *)
(* new session, and the request that follows has to be sent in it.         *)
(*                                                                         *)
(* The file is read in one step and written in two, for SaveFile empties   *)
(* it first.  All cookies have the id, domain and path of the session      *)
(* cookie: in a request the one attached last replaces the others.         *)
(***************************************************************************)
EXTENDS Sequences

CONSTANTS
    Users,     \* processes
    Sessions,  \* session cookies the server hands out; bounds how many
    NoSession,
    Unreadable \* a file that does not exist yet or is being written

ASSUME SessionAssumption == NoSession \notin Sessions /\ Unreadable \notin Seq(Sessions)

VARIABLES
    file,       \* what cookie_file holds
    cookies,    \* CookieFile::cookies of each process
    always,     \* CookieFile::always, which no constructor sets
    place,      \* where each process is in its requests
    writing,    \* how far Store() is
    attached,   \* the cookie the request will be sent with
    own,        \* the session of the last Auth
    issued,     \* history: the sessions handed out
    disturbed   \* history: another process wrote the file since Auth was answered

cookieVars == <<file, cookies, always, place, writing, attached, own, issued, disturbed>>

Places == {"out", "idle", "get", "auth", "answered", "post", "leaving"}

Move(p, from, to) == place[p] = from /\ writing[p] = "no" /\ place' = [place EXCEPT ![p] = to]

----------------------------------------------------------------------------
(* A faulty variant of an operator defined below, kept to show that the     *)
(* property notices such a fault.                                          *)

AttachedFirst(held) == IF held = <<>> THEN NoSession ELSE Head(held)

----------------------------------------------------------------------------

\* LoadFromJsonFile leaves the cookies alone if the file cannot be read.
Load(p) == IF file = Unreadable THEN cookies[p] ELSE file

\* What a method holds that begins with "if(always) Load();".
Held(p) == IF always[p] THEN Load(p) ELSE cookies[p]

\* HttpRequest::Cookie for each of them in turn.
Attached(held) == IF held = <<>> THEN NoSession ELSE held[Len(held)]

\* The beginning of Store(), if it is called.
StoreIf(p, condition) ==
    writing' = [writing EXCEPT ![p] = IF condition THEN "open" ELSE "no"]

LoadCookies(p) ==
    /\ cookies' = [cookies EXCEPT ![p] = Held(p)]
    /\ attached' = [attached EXCEPT ![p] = Attached(Held(p))]
    /\ StoreIf(p, always[p])

\* received: the cookies of the response.
StoreCookies(p, received) ==
    /\ cookies' = [cookies EXCEPT ![p] = Held(p) \o received]
    /\ StoreIf(p, always[p])

\* StoreAsJsonFile, in two steps.
StoreFile(p) ==
    /\ \/ /\ writing[p] = "open"
          /\ file' = Unreadable
          /\ writing' = [writing EXCEPT ![p] = "data"]
       \/ /\ writing[p] = "data"
          /\ file' = cookies[p]
          /\ writing' = [writing EXCEPT ![p] = "no"]
    /\ disturbed' = [q \in Users |-> disturbed[q] \/ q # p]
    /\ UNCHANGED <<cookies, always, place, attached, own, issued>>

----------------------------------------------------------------------------

\* Execute: the constructor, whose Load() has no file name yet, and SetFilename.
Open(p) ==
    /\ Move(p, "out", "idle")
    /\ \E b \in BOOLEAN : always' = [always EXCEPT ![p] = b]
    /\ cookies' = [cookies EXCEPT ![p] = IF file = Unreadable THEN <<>> ELSE file]
    /\ UNCHANGED <<file, writing, attached, own, issued, disturbed>>

\* GetWork, which needs no session; the server may open one.
GetWorkSent(p) ==
    /\ Move(p, "idle", "get")
    /\ LoadCookies(p)
    /\ UNCHANGED <<file, always, own, issued, disturbed>>

GetWorkAnswered(p) ==
    /\ Move(p, "get", "idle")
    /\ \/ StoreCookies(p, <<>>) /\ UNCHANGED issued
       \/ \E s \in Sessions \ issued :
             /\ attached[p] = NoSession
             /\ StoreCookies(p, <<s>>)
             /\ issued' = issued \cup {s}
    /\ UNCHANGED <<file, always, attached, own, disturbed>>

\* Auth, up to auth.Execute().
AuthSent(p) ==
    /\ Move(p, "idle", "auth")
    /\ LoadCookies(p)
    /\ UNCHANGED <<file, always, own, issued, disturbed>>

AuthAnswered(p) ==
    /\ Move(p, "auth", "answered")
    /\ \E s \in Sessions \ issued :
          /\ StoreCookies(p, <<s>>)
          /\ own' = [own EXCEPT ![p] = s]
          /\ issued' = issued \cup {s}
    /\ disturbed' = [disturbed EXCEPT ![p] = FALSE]
    /\ UNCHANGED <<file, always, attached>>

\* The end of Auth: the cookies, and the identity of the session it opened.
AuthReturns(p) ==
    /\ Move(p, "answered", "post")
    /\ LoadCookies(p)
    /\ UNCHANGED <<file, always, own, issued, disturbed>>

\* AcceptWork, SubmitWork or a request of wda was carried out.
PostAnswered(p) ==
    /\ Move(p, "post", "idle")
    /\ attached[p] = own[p]
    /\ StoreCookies(p, <<>>)
    /\ UNCHANGED <<file, always, attached, own, issued, disturbed>>

\* Auth failed, or the client was unknown, or the request failed or was sent in another
\* session: it returns false and stores nothing.  Run goes on after a partial result.
Refused(p) ==
    /\ place[p] \in {"auth", "answered", "post"}
    /\ Move(p, place[p], "idle")
    /\ UNCHANGED <<file, cookies, always, writing, attached, own, issued, disturbed>>

\* Any other request that failed, or nothing left to do, ends the process: ~CookieFile
\* stores the cookies.
Leave(p) ==
    /\ place[p] \in {"idle", "get"}
    /\ Move(p, place[p], "leaving")
    /\ StoreIf(p, TRUE)
    /\ UNCHANGED <<file, cookies, always, attached, own, issued, disturbed>>

Gone(p) ==
    /\ place' = [place EXCEPT ![p] = "out"]
    /\ cookies' = [cookies EXCEPT ![p] = <<>>]
    /\ always' = [always EXCEPT ![p] = FALSE]
    /\ attached' = [attached EXCEPT ![p] = NoSession]
    /\ own' = [own EXCEPT ![p] = NoSession]
    /\ disturbed' = [disturbed EXCEPT ![p] = FALSE]
    /\ UNCHANGED <<file, issued>>

Left(p) == place[p] = "leaving" /\ writing[p] = "no" /\ Gone(p) /\ UNCHANGED writing

\* The process is killed, maybe while it writes.
Killed(p) ==
    /\ place[p] # "out"
    /\ Gone(p)
    /\ writing' = [writing EXCEPT ![p] = "no"]

CookieInit ==
    /\ file = Unreadable
    /\ cookies = [p \in Users |-> <<>>]
    /\ always = [p \in Users |-> FALSE]
    /\ place = [p \in Users |-> "out"]
    /\ writing = [p \in Users |-> "no"]
    /\ attached = [p \in Users |-> NoSession]
    /\ own = [p \in Users |-> NoSession]
    /\ issued = {}
    /\ disturbed = [p \in Users |-> FALSE]

CookieNext ==
    \E p \in Users :
        \/ Open(p) \/ GetWorkSent(p) \/ GetWorkAnswered(p)
        \/ AuthSent(p) \/ AuthAnswered(p) \/ AuthReturns(p) \/ PostAnswered(p)
        \/ Refused(p) \/ StoreFile(p) \/ Leave(p) \/ Left(p) \/ Killed(p)

CookieSpec == CookieInit /\ [][CookieNext]_cookieVars

----------------------------------------------------------------------------
(* Properties.                                                              *)

\* Every variable has its type.
CookieTypeOK ==
    /\ file \in Seq(Sessions) \cup {Unreadable}
    /\ cookies \in [Users -> Seq(Sessions)]
    /\ always \in [Users -> BOOLEAN] /\ disturbed \in [Users -> BOOLEAN]
    /\ place \in [Users -> Places]
    /\ writing \in [Users -> {"no", "open", "data"}]
    /\ attached \in [Users -> Sessions \cup {NoSession}]
    /\ own \in [Users -> Sessions \cup {NoSession}]
    /\ issued \subseteq Sessions

\* The request that follows an Auth is sent in the session Auth was answered in, whatever
\* other processes of the machine store meanwhile.  It may go out in another session, and
\* be refused, only if this process reads the file each time and another one wrote it
\* in between.
OwnSession ==
    \A p \in Users :
        place[p] = "post" /\ ~(always[p] /\ disturbed[p]) => attached[p] = own[p]

=============================================================================
