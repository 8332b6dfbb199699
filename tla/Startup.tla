------------------------------- MODULE Startup -------------------------------
(***************************************************************************)
(* How a server process starts: main, OpenDB, UpdateDB, SaveSchema and     *)
(* SetAdmin of Server.cpp, with the choice of the backend in DynamicSql.h. *)
(*                                                                         *)
(* The program holds scripts that make its tables and indices.  It keeps a *)
(* copy of them in db_scripts_dir, one directory per dialect, and performs *)
(* a script only if it differs from the copy.  Script and copy are files,  *)
(* the database is another; a process can end between any two of them, and *)
(* "wds --set-admin" or another version may start while a server runs.     *)
(***************************************************************************)
EXTENDS Naturals, Sequences

CONSTANTS
    Servers,      \* processes
    Versions,     \* of the program: what each of its scripts makes
    Backends,     \* the values of db_backend that are tried
    None

Kinds == <<"upgrade", "attributes", "config">>
KindNames == {"upgrade", "attributes", "config"}

Things == UNION {v[k] : v \in Versions, k \in KindNames}

ASSUME VersionAssumption ==
    /\ Versions \subseteq [KindNames -> SUBSET STRING]
    /\ \A x \in SUBSET Things : x # None

VARIABLES
    made,     \* what each backend's database has
    saved,    \* the copies of the scripts, or None
    server,   \* each process: the step it is at, its version and its backend
    excused,  \* history, like made: what a failed statement did not make, or an exchange took away
    admin,    \* the databases with a row of client 0, the administrator
    found,    \* the --set-admin processes that loaded it, and ask for name and password now
    stale     \* history: those of them whose database still has the password it had then

accountVars == <<admin, found, stale>>
startupVars == <<made, saved, server, excused, accountVars>>

NoServer == [step |-> "out", kind |-> 1, version |-> None, backend |-> None, setAdmin |-> FALSE]

\* DynamicSqlSession::Dialects, the bits that stand for them, and SupportedDialects.
Dialects == <<"oracle", "sqlite", "mysql", "mssql", "pgsql">>
Bits == <<1, 2, 4, 8, 16>>
StringToDialect(name) ==
    IF \E n \in 1 .. 5 : Dialects[n] = name THEN Bits[CHOOSE n \in 1 .. 5 : Dialects[n] = name] ELSE 0
SupportedDialects == {2, 4}
Usable(name) == StringToDialect(name) \in SupportedDialects
DialectToString(dialect) == Dialects[CHOOSE n \in 1 .. 5 : Bits[n] = dialect]

\* The backends that a server can run with.
Databases == {"sqlite", "mysql"} \cap Backends

----------------------------------------------------------------------------
(* Faulty variants of operators defined below, kept to show that the        *)
(* properties notice such a fault.                                          *)

StepsSavedFirst == <<"save", "update">>

InsertsOnly(p) == server[p].backend \notin admin

----------------------------------------------------------------------------

\* What main does to the schema, in this order.
Steps == <<"update", "save">>

Script(p) == server[p].version[Kinds[server[p].kind]]
Copy(p) == saved[server[p].backend][Kinds[server[p].kind]]
InStep(p, step) == server[p].step = step

\* After the last kind of script the next step begins.
Advance(p) ==
    LET s == server[p]
        begun(step) == [s EXCEPT !.step = step, !.kind = 1] IN
    server' = [server EXCEPT ![p] =
        IF s.kind < Len(Kinds) THEN [s EXCEPT !.kind = s.kind + 1]
        ELSE IF s.step = Steps[1] THEN begun(Steps[2])
        ELSE begun(IF s.setAdmin THEN "load" ELSE "serve")]

Exit(p) == server' = [server EXCEPT ![p] = NoServer]

\* The Watchdog constructor, which ends the program if it cannot use the backend, and OpenDB.
Start(p) ==
    /\ InStep(p, "out")
    /\ \E v \in Versions, name \in Backends, setAdmin \in BOOLEAN :
          /\ Usable(name)
          /\ server' = [server EXCEPT ![p] =
                [step |-> Steps[1], kind |-> 1, version |-> v,
                 backend |-> DialectToString(StringToDialect(name)), setAdmin |-> setAdmin]]
    /\ UNCHANGED <<made, saved, excused, accountVars>>

\* The things of a script are added to those there are; those of CONFIG replace them.
Performed(p, things) ==
    LET b == server[p].backend
        kind == Kinds[server[p].kind] IN
    made' = [made EXCEPT ![b][kind] = IF kind = "config" THEN things ELSE @ \cup things]

\* UpdateDB.  SqlPerformScript goes on after a statement that fails, and nobody looks at
\* what it returns.
UpdateDB(p) ==
    /\ InStep(p, "update")
    /\ \/ Script(p) = Copy(p) /\ UNCHANGED <<made, excused>>
       \/ /\ Script(p) # Copy(p)
          /\ \E failed \in SUBSET Script(p) :
                /\ Performed(p, Script(p) \ failed)
                /\ excused' = [excused EXCEPT ![server[p].backend][Kinds[server[p].kind]] =
                      (@ \ Script(p)) \cup failed]
    /\ Advance(p)
    /\ UNCHANGED <<saved, accountVars>>

\* SaveSchema, one file after another.
SaveSchema(p) ==
    /\ InStep(p, "save")
    /\ saved' = [saved EXCEPT ![server[p].backend][Kinds[server[p].kind]] = Script(p)]
    /\ Advance(p)
    /\ UNCHANGED <<made, excused, accountVars>>

----------------------------------------------------------------------------
(* The account of the administrator.                                        *)

\* A password is stored in the database b or goes with its row; nobody's is the old one.
NewPassword(b) == stale' = {q \in stale : server[q].backend # b}

\* SetAdmin, up to the questions it asks.
LoadAdmin(p) ==
    /\ InStep(p, "load")
    /\ LET loaded == IF server[p].backend \in admin THEN {p} ELSE {} IN
       found' = found \cup loaded /\ stale' = stale \cup loaded
    /\ server' = [server EXCEPT ![p].step = "ask"]
    /\ UNCHANGED <<made, saved, excused, admin>>

\* Client::Save(0) is an UPDATE if a row was loaded, which changes nothing if it is gone,
\* or else an INSERT, which fails if there is one now.  Nobody looks how it ends.
Saves(p) == (p \in found) = (server[p].backend \in admin)

SaveAdmin(p) ==
    /\ InStep(p, "ask")
    /\ IF Saves(p)
       THEN admin' = admin \cup {server[p].backend} /\ NewPassword(server[p].backend)
       ELSE UNCHANGED <<admin, stale>>
    /\ found' = found \ {p}
    /\ Exit(p)
    /\ UNCHANGED <<made, saved, excused>>

\* SaveClient of client 0 with "changepwd"; without, the row keeps its salt and password.
SaveClientAdmin(p) ==
    /\ InStep(p, "serve") /\ server[p].backend \in admin
    /\ NewPassword(server[p].backend)
    /\ UNCHANGED <<made, saved, server, excused, admin, found>>

\* RemoveClient of client 0.
RemoveAdmin(p) ==
    /\ InStep(p, "serve") /\ server[p].backend \in admin
    /\ admin' = admin \ {server[p].backend}
    /\ NewPassword(server[p].backend)
    /\ UNCHANGED <<made, saved, server, excused, found>>

----------------------------------------------------------------------------

\* A process ends by itself or is killed.
ServerKilled(p) ==
    /\ ~InStep(p, "out")
    /\ Exit(p)
    /\ found' = found \ {p} /\ stale' = stale \ {p}
    /\ UNCHANGED <<made, saved, excused, admin>>

\* It is killed while it performs a script.
KilledInScript(p) ==
    /\ InStep(p, "update") /\ Script(p) # Copy(p) /\ Kinds[server[p].kind] # "config"
    /\ \E done \in SUBSET Script(p) : Performed(p, done)
    /\ Exit(p)
    /\ UNCHANGED <<saved, excused, accountVars>>

\* db_scripts_dir is in /tmp unless the configuration says otherwise.
ScriptsLost ==
    /\ \E b \in Databases : saved' = [saved EXCEPT ![b] = [k \in KindNames |-> None]]
    /\ UNCHANGED <<made, server, excused, accountVars>>

\* The configuration names another database, or one is imported, with an account of its
\* own or none: the copies stay.
Exchange ==
    /\ \E b \in Databases :
          /\ made' = [made EXCEPT ![b] = [k \in KindNames |-> {}]]
          /\ excused' = [excused EXCEPT ![b] = [k \in KindNames |-> made[b][k] \cup @[k]]]
          /\ admin' \in {admin \cup {b}, admin \ {b}}
          /\ NewPassword(b)
    /\ UNCHANGED <<saved, server, found>>

StartupInit ==
    LET everywhere(x) == [b \in Databases |-> [k \in KindNames |-> x]] IN
    /\ made = everywhere({}) /\ saved = everywhere(None) /\ excused = everywhere({})
    /\ server = [p \in Servers |-> NoServer]
    /\ admin = {} /\ found = {} /\ stale = {}

StartupNext ==
    \/ \E p \in Servers :
          \/ Start(p) \/ UpdateDB(p) \/ SaveSchema(p) \/ LoadAdmin(p) \/ SaveAdmin(p)
          \/ SaveClientAdmin(p) \/ RemoveAdmin(p)
          \/ ServerKilled(p) \/ KilledInScript(p)
    \/ ScriptsLost \/ Exchange

StartupSpec == StartupInit /\ [][StartupNext]_startupVars

----------------------------------------------------------------------------
(* Properties.                                                              *)

\* Every variable has its type.
StartupTypeOK ==
    /\ made \in [Databases -> [KindNames -> SUBSET Things]]
    /\ excused \in [Databases -> [KindNames -> SUBSET Things]]
    /\ saved \in [Databases -> [KindNames -> {None} \cup SUBSET Things]]
    /\ server \in [Servers ->
          [step : {"update", "save", "load", "ask", "serve"}, kind : 1 .. 3, version : Versions,
           backend : Databases, setAdmin : BOOLEAN] \cup {NoServer}]
    /\ admin \subseteq Databases
    /\ found \subseteq {p \in Servers : InStep(p, "ask")}
    /\ stale \subseteq Servers

\* A process that serves requests has the tables and indices of its version, whichever
\* versions ran before, wherever they were killed and whatever became of the copies.  It
\* may lack what one statement failed to make, and what another database did not have:
\* the copies then say it is there.
SchemaCurrent ==
    \A p \in Servers :
        InStep(p, "serve") =>
            \A k \in {"upgrade", "attributes"} :
                LET b == server[p].backend IN server[p].version[k] \subseteq made[b][k] \cup excused[b][k]

\* When --set-admin has asked for a password and ends, the one that was there when it
\* began is gone, whoever else set one, added the account or removed it while it asked, and
\* although its own INSERT or UPDATE may have come to nothing.
OldPasswordGone == [][\A p \in Servers : SaveAdmin(p) => p \notin stale']_startupVars

=============================================================================
