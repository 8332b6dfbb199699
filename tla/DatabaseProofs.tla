---------------------------- MODULE DatabaseProofs ----------------------------
(****************************************************************************)
(* Proofs about Startup, Backup and RegexpCache: for any number of          *)
(* processes, versions, results and submissions, any threads, expressions   *)
(* and size of the cache.                                                   *)
(*                                                                          *)
(* Nothing in the code keeps the calls of two threads to the cache apart.   *)
(* That no compiled expression is leaked or freed too early holds all the   *)
(* same; the other theorems about it are about the behaviours in which no   *)
(* two calls overlap.                                                       *)
(****************************************************************************)
EXTENDS Startup, Backup, RegexpCache, Lemmas

----------------------------------------------------------------------------
(* Startup. *)

SchemaKinds == {"upgrade", "attributes"}

\* What a server may rely on in a database: that is there, or is known to be missing.
Holds(b, k) == made[b][k] \cup excused[b][k]

\* A script that was saved was performed: the copies do not promise too much.
CopiesHold ==
    \A b \in Databases, k \in SchemaKinds : saved[b][k] # None => saved[b][k] \subseteq Holds(b, k)

\* A process has performed the scripts that come before the one it is at.
Performs(p, n) ==
    \/ server[p].step \in {"save", "load", "ask", "serve"}
    \/ server[p].step = "update" /\ n < server[p].kind

ProcessHolds(p) ==
    \A n \in 1 .. 2 :
        Performs(p, n) => server[p].version[Kinds[n]] \subseteq Holds(server[p].backend, Kinds[n])

ProcessesHold == \A p \in Servers : ProcessHolds(p)

StartupInv == StartupTypeOK /\ CopiesHold /\ ProcessesHold

\* The kinds of scripts, and what a version holds of each.
LEMMA KindsNamed ==
    /\ Kinds[1] = "upgrade" /\ Kinds[2] = "attributes" /\ Kinds[3] = "config"
    /\ Len(Kinds) = 3 /\ Steps[1] = "update" /\ Steps[2] = "save"
    /\ \A n \in 1 .. 3 : Kinds[n] \in KindNames
BY DEF Kinds, KindNames, Steps

LEMMA VersionThings ==
    ASSUME NEW v \in Versions, NEW k \in KindNames
    PROVE  v[k] \in SUBSET Things /\ v[k] # None
<1>1. v[k] \in SUBSET Things
  BY DEF Things
<1> QED
  BY <1>1, VersionAssumption

\* A backend that can be used is one of the databases, under its own name.
LEMMA DatabaseNamed ==
    ASSUME NEW name \in Backends, Usable(name)
    PROVE  DialectToString(StringToDialect(name)) \in Databases
<1> DEFINE n == CHOOSE m \in 1 .. 5 : Dialects[m] = name
<1>1. \E m \in 1 .. 5 : Dialects[m] = name
  BY DEF Usable, StringToDialect, SupportedDialects
<1>2. n \in 1 .. 5 /\ Dialects[n] = name
  BY <1>1
<1>3. StringToDialect(name) = Bits[n] /\ Bits[n] \in {2, 4}
  BY <1>1 DEF Usable, StringToDialect, SupportedDialects
<1> HIDE DEF n
<1>4. n \in {2, 3}
  BY <1>2, <1>3 DEF Bits
<1>5. (CHOOSE m \in 1 .. 5 : Bits[m] = Bits[n]) = n
  <2>1. \A m \in 1 .. 5 : Bits[m] = Bits[n] => m = n
    BY <1>4 DEF Bits
  <2> QED
    BY <2>1, <1>2
<1>6. name \in {"sqlite", "mysql"}
  BY <1>2, <1>4 DEF Dialects
<1> QED
  BY <1>2, <1>3, <1>5, <1>6 DEF DialectToString, Databases

----------------------------------------------------------------------------
(* Types.                                                                   *)

Alive == [step : {"update", "save", "load", "ask", "serve"}, kind : 1 .. 3, version : Versions,
         backend : Databases, setAdmin : BOOLEAN]

LEMMA Running ==
    ASSUME StartupTypeOK, NEW p \in Servers, server[p].step # "out"
    PROVE  server[p] \in Alive
BY DEF StartupTypeOK, Alive, NoServer

LEMMA RowMoved ==
    ASSUME NEW s \in Alive
    PROVE  /\ s.kind < 3 => [s EXCEPT !.kind = s.kind + 1] \in Alive
           /\ \A step \in {"update", "save", "load", "ask", "serve"} :
                 [s EXCEPT !.step = step, !.kind = 1] \in Alive /\ [s EXCEPT !.step = step] \in Alive
<1>1. s.kind < 3 => [s EXCEPT !.kind = s.kind + 1] \in Alive
  BY DEF Alive
<1>2. 1 \in 1 .. 3
  OBVIOUS
<1> QED
  BY <1>1, <1>2, Zenon DEF Alive

LEMMA AdvanceTyped ==
    ASSUME StartupTypeOK, NEW p \in Servers, server[p].step \in {"update", "save"}, Advance(p)
    PROVE  server' \in [Servers -> Alive \cup {NoServer}]
<1> DEFINE s == server[p]
           begun(step) == [s EXCEPT !.step = step, !.kind = 1]
           next == IF s.kind < Len(Kinds) THEN [s EXCEPT !.kind = s.kind + 1]
                   ELSE IF s.step = Steps[1] THEN begun(Steps[2])
                   ELSE begun(IF s.setAdmin THEN "load" ELSE "serve")
<1>1. s \in Alive
  BY Running
<1>2. next \in Alive
  BY <1>1, RowMoved, KindsNamed, Zenon
<1>3. server' = [server EXCEPT ![p] = next]
  BY DEF Advance
<1> HIDE DEF next
<1> QED
  BY <1>2, <1>3 DEF StartupTypeOK, Alive

LEMMA ExitTyped ==
    ASSUME StartupTypeOK, NEW p \in Servers, Exit(p)
    PROVE  server' \in [Servers -> Alive \cup {NoServer}]
BY DEF StartupTypeOK, Exit, Alive

\* The account is left alone, and no process but one that does not ask moves.
LEMMA AccountKept ==
    ASSUME StartupTypeOK, UNCHANGED accountVars, NEW p \in Servers, ~InStep(p, "ask"),
           \A q \in Servers : q # p => server'[q] = server[q]
    PROVE  /\ admin' \subseteq Databases /\ stale' \subseteq Servers
           /\ found' \subseteq {q \in Servers : InStep(q, "ask")'}
BY DEF StartupTypeOK, accountVars, InStep

LEMMA OthersStay ==
    ASSUME StartupTypeOK, NEW p \in Servers,
           \/ Start(p) \/ Advance(p) \/ Exit(p)
    PROVE  \A q \in Servers : q # p => server'[q] = server[q]
BY DEF StartupTypeOK, Start, Advance, Exit

LEMMA PerformedTyped ==
    ASSUME StartupTypeOK, NEW p \in Servers, server[p].step # "out",
           NEW things \in SUBSET Script(p), Performed(p, things)
    PROVE  made' \in [Databases -> [KindNames -> SUBSET Things]]
<1> DEFINE b == server[p].backend
           k == Kinds[server[p].kind]
           new == IF k = "config" THEN things ELSE made[b][k] \cup things
<1>1. b \in Databases /\ k \in KindNames /\ server[p].version \in Versions
  BY Running, KindsNamed DEF Alive
<1>2. Script(p) \in SUBSET Things
  BY <1>1, VersionThings DEF Script
<1>3. new \in SUBSET Things
  BY <1>1, <1>2 DEF StartupTypeOK
<1>4. made' = [made EXCEPT ![b] = [made[b] EXCEPT ![k] = new]]
  BY <1>1 DEF Performed, StartupTypeOK
<1> HIDE DEF new, b, k
<1> QED
  BY <1>1, <1>3, <1>4 DEF StartupTypeOK

LEMMA StartupTypeStep == StartupTypeOK /\ [StartupNext]_startupVars => StartupTypeOK'
<1> SUFFICES ASSUME StartupTypeOK, [StartupNext]_startupVars
             PROVE  StartupTypeOK'
  OBVIOUS
<1> USE DEF Alive
<1>1. ASSUME NEW p \in Servers, Start(p)
      PROVE  StartupTypeOK'
  <2>1. PICK v \in Versions, name \in Backends, setAdmin \in BOOLEAN :
          /\ Usable(name)
          /\ server' = [server EXCEPT ![p] =
                [step |-> Steps[1], kind |-> 1, version |-> v,
                 backend |-> DialectToString(StringToDialect(name)), setAdmin |-> setAdmin]]
    BY <1>1 DEF Start
  <2>2. DialectToString(StringToDialect(name)) \in Databases
    BY <2>1, DatabaseNamed
  <2>3. server' \in [Servers -> Alive \cup {NoServer}]
    BY <2>1, <2>2, KindsNamed DEF StartupTypeOK
  <2>4. UNCHANGED accountVars /\ ~InStep(p, "ask")
    BY <1>1 DEF Start, InStep
  <2> QED
    BY <1>1, <2>3, <2>4, AccountKept, OthersStay DEF Start, StartupTypeOK
<1>2. ASSUME NEW p \in Servers, UpdateDB(p)
      PROVE  StartupTypeOK'
  <2>1. server' \in [Servers -> Alive \cup {NoServer}] /\ server[p].step # "out"
    BY <1>2, AdvanceTyped DEF UpdateDB, InStep
  <2>4. /\ admin' \subseteq Databases /\ stale' \subseteq Servers
        /\ found' \subseteq {q \in Servers : InStep(q, "ask")'}
    <3>1. UNCHANGED accountVars /\ ~InStep(p, "ask") /\ Advance(p)
      BY <1>2 DEF UpdateDB, InStep
    <3> QED
      BY <3>1, AccountKept, OthersStay
  <2>2. CASE UNCHANGED <<made, excused>>
    BY <1>2, <2>1, <2>2, <2>4 DEF UpdateDB, StartupTypeOK
  <2>3. CASE \E failed \in SUBSET Script(p) :
               /\ Performed(p, Script(p) \ failed)
               /\ excused' = [excused EXCEPT ![server[p].backend][Kinds[server[p].kind]] =
                     (@ \ Script(p)) \cup failed]
    <3> DEFINE b == server[p].backend
               k == Kinds[server[p].kind]
    <3>1. PICK failed \in SUBSET Script(p) :
               /\ Performed(p, Script(p) \ failed)
               /\ excused' = [excused EXCEPT ![b] = [excused[b] EXCEPT ![k] =
                     (excused[b][k] \ Script(p)) \cup failed]]
      BY <2>3
    <3>2. b \in Databases /\ k \in KindNames /\ Script(p) \in SUBSET Things
      BY <2>1, Running, KindsNamed, VersionThings DEF Script
    <3>3. (excused[b][k] \ Script(p)) \cup failed \in SUBSET Things
      BY <3>2 DEF StartupTypeOK
    <3>4. made' \in [Databases -> [KindNames -> SUBSET Things]]
      BY <2>1, <3>1, PerformedTyped
    <3> HIDE DEF b, k
    <3>5. excused' \in [Databases -> [KindNames -> SUBSET Things]]
      BY <3>1, <3>2, <3>3 DEF StartupTypeOK
    <3> QED
      BY <1>2, <2>1, <2>4, <3>4, <3>5 DEF UpdateDB, StartupTypeOK
  <2> QED
    BY <1>2, <2>2, <2>3 DEF UpdateDB
<1>3. ASSUME NEW p \in Servers, SaveSchema(p)
      PROVE  StartupTypeOK'
  <2> DEFINE b == server[p].backend
             k == Kinds[server[p].kind]
  <2>1. server' \in [Servers -> Alive \cup {NoServer}] /\ server[p].step # "out"
    BY <1>3, AdvanceTyped DEF SaveSchema, InStep
  <2>2. b \in Databases /\ k \in KindNames /\ Script(p) \in SUBSET Things
    BY <2>1, Running, KindsNamed, VersionThings DEF Script
  <2>3. saved' = [saved EXCEPT ![b] = [saved[b] EXCEPT ![k] = Script(p)]]
    BY <1>3 DEF SaveSchema
  <2> HIDE DEF b, k
  <2>4. saved' \in [Databases -> [KindNames -> {None} \cup SUBSET Things]]
    BY <2>2, <2>3 DEF StartupTypeOK
  <2>5. UNCHANGED accountVars /\ ~InStep(p, "ask") /\ Advance(p)
    BY <1>3 DEF SaveSchema, InStep
  <2> QED
    BY <1>3, <2>1, <2>4, <2>5, AccountKept, OthersStay DEF SaveSchema, StartupTypeOK
<1>4. ASSUME NEW p \in Servers, LoadAdmin(p)
      PROVE  StartupTypeOK'
  <2>1. server[p] \in Alive
    BY <1>4, Running DEF LoadAdmin, InStep
  <2>2. [server[p] EXCEPT !.step = "ask"] \in Alive
    BY <2>1, RowMoved
  <2>3. server' \in [Servers -> Alive \cup {NoServer}]
    BY <1>4, <2>2 DEF LoadAdmin, StartupTypeOK
  <2>4. server[p].backend \in Databases /\ InStep(p, "ask")'
    BY <1>4, <2>1 DEF LoadAdmin, StartupTypeOK, InStep
  <2>5. \A q \in Servers : q # p => server'[q] = server[q]
    BY <1>4 DEF LoadAdmin, StartupTypeOK
  <2>6. found' \subseteq {q \in Servers : InStep(q, "ask")'}
    BY <1>4, <2>4, <2>5 DEF LoadAdmin, StartupTypeOK, InStep
  <2> QED
    BY <1>4, <2>3, <2>6 DEF LoadAdmin, StartupTypeOK, InStep
<1>5. ASSUME NEW p \in Servers, SaveAdmin(p)
      PROVE  StartupTypeOK'
  <2>1. server' \in [Servers -> Alive \cup {NoServer}]
    BY <1>5, ExitTyped DEF SaveAdmin
  <2>2. admin' \subseteq Databases /\ stale' \subseteq Servers
    <3>1. server[p].backend \in Databases
      BY <1>5, Running DEF SaveAdmin, InStep
    <3> QED
      BY <1>5, <3>1 DEF SaveAdmin, NewPassword, StartupTypeOK
  <2>3. found' = found \ {p} /\ \A q \in Servers : q # p => server'[q] = server[q]
    BY <1>5 DEF SaveAdmin, Exit, StartupTypeOK
  <2> QED
    BY <1>5, <2>1, <2>2, <2>3 DEF SaveAdmin, StartupTypeOK, InStep
<1>6. ASSUME NEW p \in Servers, ServerKilled(p)
      PROVE  StartupTypeOK'
  <2>1. server' \in [Servers -> Alive \cup {NoServer}]
    BY <1>6, ExitTyped DEF ServerKilled
  <2>2. found' = found \ {p} /\ \A q \in Servers : q # p => server'[q] = server[q]
    BY <1>6 DEF ServerKilled, Exit, StartupTypeOK
  <2> QED
    BY <1>6, <2>1, <2>2 DEF ServerKilled, StartupTypeOK, InStep
<1>7. ASSUME NEW p \in Servers, KilledInScript(p)
      PROVE  StartupTypeOK'
  <2>1. server' \in [Servers -> Alive \cup {NoServer}] /\ server[p].step # "out"
    BY <1>7, ExitTyped DEF KilledInScript, InStep
  <2>2. made' \in [Databases -> [KindNames -> SUBSET Things]]
    BY <1>7, <2>1, PerformedTyped DEF KilledInScript
  <2>3. UNCHANGED accountVars /\ ~InStep(p, "ask") /\ Exit(p)
    BY <1>7 DEF KilledInScript, InStep
  <2> QED
    BY <1>7, <2>1, <2>2, <2>3, AccountKept, OthersStay DEF KilledInScript, StartupTypeOK
<1>8. ASSUME NEW p \in Servers, SaveClientAdmin(p) \/ RemoveAdmin(p)
      PROVE  StartupTypeOK'
  BY <1>8 DEF SaveClientAdmin, RemoveAdmin, NewPassword, StartupTypeOK, InStep
<1>9. CASE ScriptsLost
  BY <1>9 DEF ScriptsLost, StartupTypeOK, InStep, accountVars
<1>10. CASE Exchange
  <2>1. PICK b \in Databases :
          /\ made' = [made EXCEPT ![b] = [k \in KindNames |-> {}]]
          /\ excused' = [excused EXCEPT ![b] = [k \in KindNames |-> made[b][k] \cup excused[b][k]]]
          /\ admin' \in {admin \cup {b}, admin \ {b}}
          /\ NewPassword(b)
    BY <1>10 DEF Exchange
  <2>2. /\ made' \in [Databases -> [KindNames -> SUBSET Things]]
        /\ excused' \in [Databases -> [KindNames -> SUBSET Things]]
    BY <2>1 DEF StartupTypeOK
  <2>3. admin' \subseteq Databases /\ stale' \subseteq Servers
    BY <2>1 DEF StartupTypeOK, NewPassword
  <2> QED
    BY <1>10, <2>2, <2>3 DEF Exchange, StartupTypeOK, InStep
<1>11. CASE UNCHANGED startupVars
  BY <1>11 DEF startupVars, accountVars, StartupTypeOK, InStep
<1> QED
  BY <1>1, <1>2, <1>3, <1>4, <1>5, <1>6, <1>7, <1>8, <1>9, <1>10, <1>11 DEF StartupNext

----------------------------------------------------------------------------
(* The schema.                                                              *)

\* A step after which the databases hold at least what they held, no copy is new, and every
\* process is where it was, or has ended.
LEMMA NothingLost ==
    ASSUME StartupInv,
           \A b \in Databases, k \in SchemaKinds : Holds(b, k) \subseteq Holds(b, k)',
           \A b \in Databases, k \in SchemaKinds : saved'[b][k] \in {saved[b][k], None}
    PROVE  /\ CopiesHold'
           /\ \A p \in Servers : server'[p] \in {server[p], NoServer} => ProcessHolds(p)'
<1>1. CopiesHold'
  BY DEF StartupInv, CopiesHold
<1>2. ASSUME NEW p \in Servers, server'[p] \in {server[p], NoServer}, NEW n \in 1 .. 2, Performs(p, n)'
      PROVE  (server[p].version[Kinds[n]] \subseteq Holds(server[p].backend, Kinds[n]))'
  <2> DEFINE c == server[p].backend
             j == Kinds[n]
  <2>1. server'[p] = server[p] /\ server[p].step # "out" /\ Performs(p, n)
    BY <1>2 DEF Performs, NoServer
  <2>2. c \in Databases /\ j \in SchemaKinds
    BY <2>1, Running, KindsNamed DEF Alive, StartupInv, SchemaKinds
  <2>3. server[p].version[j] \subseteq made[c][j] \cup excused[c][j]
    BY <1>2, <2>1 DEF StartupInv, ProcessesHold, ProcessHolds, Holds
  <2>4. made[c][j] \cup excused[c][j] \subseteq made'[c][j] \cup excused'[c][j]
    BY <2>2 DEF Holds
  <2> QED
    BY <2>1, <2>3, <2>4 DEF Holds
<1> QED
  BY <1>1, <1>2 DEF ProcessHolds

\* What a step of the script p is at does to the databases.
LEMMA PerformedHolds ==
    ASSUME StartupTypeOK, NEW p \in Servers, server[p].step # "out",
           NEW things \in SUBSET Script(p), Performed(p, things), UNCHANGED excused
    PROVE  \A b \in Databases, k \in SchemaKinds : Holds(b, k) \subseteq Holds(b, k)'
<1> DEFINE c == server[p].backend
           j == Kinds[server[p].kind]
           new == IF j = "config" THEN things ELSE made[c][j] \cup things
<1>1. c \in Databases /\ j \in KindNames
  BY Running, KindsNamed DEF Alive
<1>2. made' = [made EXCEPT ![c] = [made[c] EXCEPT ![j] = new]]
  BY <1>1 DEF Performed, StartupTypeOK
<1>3. j \in SchemaKinds => made[c][j] \subseteq new
  BY DEF SchemaKinds
<1> HIDE DEF new, c, j
<1>4. \A b \in Databases, k \in SchemaKinds : made[b][k] \subseteq made'[b][k]
  BY <1>1, <1>2, <1>3 DEF StartupTypeOK, SchemaKinds, KindNames
<1> QED
  BY <1>4 DEF Holds

\* UpdateDB of a script that is not in the copy: afterwards the script's things are there.
LEMMA UpdatedHolds ==
    ASSUME StartupTypeOK, NEW p \in Servers, server[p].step # "out",
           NEW failed \in SUBSET Script(p), Performed(p, Script(p) \ failed),
           excused' = [excused EXCEPT ![server[p].backend][Kinds[server[p].kind]] =
                          (@ \ Script(p)) \cup failed]
    PROVE  /\ \A b \in Databases, k \in SchemaKinds : Holds(b, k) \subseteq Holds(b, k)'
           /\ Kinds[server[p].kind] \in SchemaKinds =>
                  LET c == server[p].backend
                      j == Kinds[server[p].kind]
                  IN  Script(p) \subseteq made'[c][j] \cup excused'[c][j]
<1> DEFINE c == server[p].backend
           j == Kinds[server[p].kind]
           new == IF j = "config" THEN Script(p) \ failed ELSE made[c][j] \cup (Script(p) \ failed)
           gone == (excused[c][j] \ Script(p)) \cup failed
<1>1. c \in Databases /\ j \in KindNames
  BY Running, KindsNamed DEF Alive
<1>2. made' = [made EXCEPT ![c] = [made[c] EXCEPT ![j] = new]]
  BY <1>1 DEF Performed, StartupTypeOK
<1>3. excused' = [excused EXCEPT ![c] = [excused[c] EXCEPT ![j] = gone]]
  BY <1>1 DEF StartupTypeOK
<1>4. j \in SchemaKinds => made[c][j] \cup excused[c][j] \subseteq new \cup gone /\ Script(p) \subseteq new \cup gone
  BY DEF SchemaKinds
<1> HIDE DEF new, gone, c, j
<1>5. \A b \in Databases, k \in KindNames :
          IF b = c /\ k = j THEN made'[b][k] = new /\ excused'[b][k] = gone
          ELSE made'[b][k] = made[b][k] /\ excused'[b][k] = excused[b][k]
  <2>1. ASSUME NEW b \in Databases, NEW k \in KindNames
        PROVE  made'[b][k] = IF b = c /\ k = j THEN new ELSE made[b][k]
    BY <1>1, <1>2 DEF StartupTypeOK
  <2>2. ASSUME NEW b \in Databases, NEW k \in KindNames
        PROVE  excused'[b][k] = IF b = c /\ k = j THEN gone ELSE excused[b][k]
    <3>1. excused \in [Databases -> [KindNames -> SUBSET Things]]
      BY DEF StartupTypeOK
    <3>2. excused'[b] = IF b = c THEN [excused[c] EXCEPT ![j] = gone] ELSE excused[b]
      BY <1>3, <3>1, Zenon
    <3> QED
      BY <1>1, <3>1, <3>2, Zenon
  <2> QED
    BY <2>1, <2>2
<1>6. SchemaKinds \subseteq KindNames
  BY DEF SchemaKinds, KindNames
<1>7. \A b \in Databases, k \in SchemaKinds : Holds(b, k) \subseteq Holds(b, k)'
  BY <1>4, <1>5, <1>6 DEF Holds
<1>8. j \in SchemaKinds => Script(p) \subseteq made'[c][j] \cup excused'[c][j]
  BY <1>1, <1>4, <1>5
<1> QED
  BY <1>7, <1>8 DEF c, j

\* One step of a process leaves what the others rely on.
LEMMA StartupInvStep == StartupInv /\ [StartupNext]_startupVars => StartupInv'
<1> SUFFICES ASSUME StartupInv, [StartupNext]_startupVars
             PROVE  CopiesHold' /\ ProcessesHold'
  BY StartupTypeStep DEF StartupInv
<1> DEFINE Kept == /\ \A b \in Databases, k \in SchemaKinds : Holds(b, k) \subseteq Holds(b, k)'
                   /\ \A b \in Databases, k \in SchemaKinds : saved'[b][k] \in {saved[b][k], None}
<1>1. ASSUME Kept, NEW p \in Servers, ProcessHolds(p)',
             \A q \in Servers : q # p => server'[q] = server[q]
      PROVE  CopiesHold' /\ ProcessesHold'
  BY <1>1, NothingLost DEF ProcessesHold
<1>2. StartupTypeOK
  BY DEF StartupInv
<1>3. ASSUME NEW p \in Servers, Start(p)
      PROVE  CopiesHold' /\ ProcessesHold'
  <2>1. Kept
    BY <1>3 DEF Start, Holds
  <2>2. server'[p].step = "update" /\ server'[p].kind = 1
    BY <1>2, <1>3, KindsNamed DEF Start, StartupTypeOK
  <2>3. ProcessHolds(p)'
    BY <2>2 DEF ProcessHolds, Performs
  <2> QED
    BY <1>1, <1>2, <1>3, <2>1, <2>3 DEF Start, StartupTypeOK
<1>4. ASSUME NEW p \in Servers, UpdateDB(p)
      PROVE  CopiesHold' /\ ProcessesHold'
  <2> DEFINE c == server[p].backend
             v == server[p].version
             i == server[p].kind
  <2>1. server[p].step = "update" /\ server[p] \in Alive
    BY <1>2, <1>4, Running DEF UpdateDB, InStep
  <2>2. c \in Databases /\ i \in 1 .. 3 /\ v \in Versions
    BY <2>1 DEF Alive
  <2>3. /\ \A b \in Databases, k \in SchemaKinds : Holds(b, k) \subseteq Holds(b, k)'
        /\ Kinds[i] \in SchemaKinds => v[Kinds[i]] \subseteq made'[c][Kinds[i]] \cup excused'[c][Kinds[i]]
    <3>1. CASE Script(p) = Copy(p) /\ UNCHANGED <<made, excused>>
      <4>1. v[Kinds[i]] # None /\ saved[c][Kinds[i]] = v[Kinds[i]]
        BY <2>2, <3>1, KindsNamed, VersionThings DEF Script, Copy
      <4>2. Kinds[i] \in SchemaKinds => v[Kinds[i]] \subseteq Holds(c, Kinds[i])
        BY <2>2, <4>1 DEF StartupInv, CopiesHold
      <4> QED
        BY <3>1, <4>2 DEF Holds
    <3>2. CASE \E failed \in SUBSET Script(p) :
                 /\ Performed(p, Script(p) \ failed)
                 /\ excused' = [excused EXCEPT ![server[p].backend][Kinds[server[p].kind]] =
                       (@ \ Script(p)) \cup failed]
      BY <1>2, <2>1, <3>2, UpdatedHolds DEF Script
    <3> QED
      BY <1>4, <3>1, <3>2 DEF UpdateDB
  <2>4. /\ server'[p].version = v /\ server'[p].backend = c
        /\ IF i < 3 THEN server'[p].step = "update" /\ server'[p].kind = i + 1
           ELSE server'[p].step = "save"
    BY <1>2, <1>4, <2>1, KindsNamed DEF UpdateDB, Advance, Alive, StartupTypeOK
  <2>5. ASSUME NEW n \in 1 .. 2, Performs(p, n)'
        PROVE  v[Kinds[n]] \subseteq made'[c][Kinds[n]] \cup excused'[c][Kinds[n]]
    <3>1. Kinds[n] \in SchemaKinds
      BY KindsNamed DEF SchemaKinds
    <3>2. CASE n = i
      BY <2>3, <3>1, <3>2
    <3>3. CASE n # i
      <4>1. Performs(p, n)
        BY <2>1, <2>2, <2>4, <2>5, <3>3 DEF Performs
      <4>2. v[Kinds[n]] \subseteq Holds(c, Kinds[n])
        BY <4>1 DEF StartupInv, ProcessesHold, ProcessHolds
      <4> QED
        BY <2>2, <2>3, <3>1, <4>2 DEF Holds
    <3> QED
      BY <3>2, <3>3
  <2>6. ProcessHolds(p)'
    BY <2>4, <2>5 DEF ProcessHolds, Holds
  <2>7. UNCHANGED saved /\ \A q \in Servers : q # p => server'[q] = server[q]
    BY <1>2, <1>4 DEF UpdateDB, Advance, StartupTypeOK
  <2> QED
    BY <1>1, <2>3, <2>6, <2>7
<1>5. ASSUME NEW p \in Servers, SaveSchema(p)
      PROVE  CopiesHold' /\ ProcessesHold'
  <2> DEFINE c == server[p].backend
             j == Kinds[server[p].kind]
  <2>1. server[p].step = "save" /\ server[p] \in Alive
    BY <1>2, <1>5, Running DEF SaveSchema, InStep
  <2>2. c \in Databases /\ j \in KindNames /\ (j \in SchemaKinds => server[p].kind \in 1 .. 2)
    BY <2>1, KindsNamed DEF Alive, SchemaKinds
  <2>3. j \in SchemaKinds => Script(p) \subseteq Holds(c, j)
    BY <2>1, <2>2 DEF StartupInv, ProcessesHold, ProcessHolds, Performs, Script
  <2>4. saved' = [saved EXCEPT ![c] = [saved[c] EXCEPT ![j] = Script(p)]] /\ UNCHANGED <<made, excused>>
    BY <1>5 DEF SaveSchema
  <2>5. \A b \in Databases, k \in SchemaKinds :
            saved'[b][k] = IF b = c /\ k = j THEN Script(p) ELSE saved[b][k]
    <3> SchemaKinds \subseteq KindNames
      BY DEF SchemaKinds, KindNames
    <3> HIDE DEF c, j
    <3> QED
      BY <1>2, <2>2, <2>4, Zenon DEF StartupTypeOK
  <2>6. \A b \in Databases, k \in SchemaKinds : saved'[b][k] # None => saved'[b][k] \subseteq Holds(b, k)
    BY <2>3, <2>5 DEF StartupInv, CopiesHold
  <2>7. /\ server'[p].version = server[p].version /\ server'[p].backend = c
        /\ \A q \in Servers : q # p => server'[q] = server[q]
    BY <1>2, <1>5, <2>1, KindsNamed DEF SaveSchema, Advance, Alive, StartupTypeOK
  <2>8. ASSUME NEW q \in Servers, NEW n \in 1 .. 2, Performs(q, n)'
        PROVE  server'[q].version[Kinds[n]] \subseteq made'[server'[q].backend][Kinds[n]] \cup excused'[server'[q].backend][Kinds[n]]
    <3>1. Performs(q, n)
      BY <2>1, <2>7, <2>8 DEF Performs
    <3>2. server[q].version[Kinds[n]] \subseteq Holds(server[q].backend, Kinds[n])
      BY <3>1 DEF StartupInv, ProcessesHold, ProcessHolds
    <3> QED
      BY <2>4, <2>7, <3>2 DEF Holds
  <2> QED
    BY <2>4, <2>6, <2>8 DEF CopiesHold, ProcessesHold, ProcessHolds, Holds
<1>6. ASSUME NEW p \in Servers, LoadAdmin(p)
      PROVE  CopiesHold' /\ ProcessesHold'
  <2>1. Kept /\ \A q \in Servers : q # p => server'[q] = server[q]
    BY <1>2, <1>6 DEF LoadAdmin, Holds, StartupTypeOK
  <2>2. /\ server[p].step = "load" /\ server'[p].step = "ask"
        /\ server'[p].version = server[p].version /\ server'[p].backend = server[p].backend
    BY <1>2, <1>6, Running DEF LoadAdmin, InStep, StartupTypeOK, Alive
  <2>3. ProcessHolds(p)'
    BY <1>6, <2>2 DEF LoadAdmin, StartupInv, ProcessesHold, ProcessHolds, Performs, Holds
  <2> QED
    BY <1>1, <2>1, <2>3
<1>7. ASSUME NEW p \in Servers, SaveAdmin(p) \/ ServerKilled(p)
      PROVE  CopiesHold' /\ ProcessesHold'
  <2>1. Kept /\ \A q \in Servers : server'[q] \in {server[q], NoServer}
    BY <1>2, <1>7 DEF SaveAdmin, ServerKilled, Exit, Holds, StartupTypeOK
  <2> QED
    BY <2>1, NothingLost DEF ProcessesHold
<1>8. ASSUME NEW p \in Servers, KilledInScript(p)
      PROVE  CopiesHold' /\ ProcessesHold'
  <2>1. server[p].step # "out" /\ UNCHANGED <<saved, excused>>
    BY <1>8 DEF KilledInScript, InStep
  <2>2. PICK things \in SUBSET Script(p) : Performed(p, things)
    BY <1>8 DEF KilledInScript
  <2>3. Kept
    BY <1>2, <2>1, <2>2, PerformedHolds
  <2>4. \A q \in Servers : server'[q] \in {server[q], NoServer}
    BY <1>2, <1>8 DEF KilledInScript, Exit, StartupTypeOK
  <2> QED
    BY <2>3, <2>4, NothingLost DEF ProcessesHold
<1>9. CASE (\E p \in Servers : SaveClientAdmin(p) \/ RemoveAdmin(p)) \/ UNCHANGED startupVars
  <2>1. Kept /\ UNCHANGED server
    BY <1>9 DEF SaveClientAdmin, RemoveAdmin, startupVars, Holds
  <2> QED
    BY <2>1, NothingLost DEF ProcessesHold
<1>10. CASE ScriptsLost
  <2>1. Kept /\ UNCHANGED server
    BY <1>2, <1>10 DEF ScriptsLost, Holds, SchemaKinds, KindNames, StartupTypeOK
  <2> QED
    BY <2>1, NothingLost DEF ProcessesHold
<1>11. CASE Exchange
  <2>1. PICK c \in Databases :
          /\ made' = [made EXCEPT ![c] = [k \in KindNames |-> {}]]
          /\ excused' = [excused EXCEPT ![c] = [k \in KindNames |-> made[c][k] \cup excused[c][k]]]
    BY <1>11 DEF Exchange
  <2>2. \A b \in Databases, k \in SchemaKinds :
            /\ k \in KindNames
            /\ IF b = c THEN made'[b][k] = {} /\ excused'[b][k] = made[b][k] \cup excused[b][k]
               ELSE made'[b][k] = made[b][k] /\ excused'[b][k] = excused[b][k]
    BY <1>2, <2>1 DEF SchemaKinds, KindNames, StartupTypeOK
  <2>3. Kept /\ UNCHANGED server
    BY <1>11, <2>2 DEF Exchange, Holds
  <2> QED
    BY <2>3, NothingLost DEF ProcessesHold
<1> QED
  BY <1>3, <1>4, <1>5, <1>6, <1>7, <1>8, <1>9, <1>10, <1>11 DEF StartupNext

----------------------------------------------------------------------------
(* Theorems.                                                                *)

\* Every variable has its type, however processes start, end and ask.
THEOREM StartupTypeCorrect == StartupSpec => []StartupTypeOK
<1>1. StartupInit => StartupTypeOK
  BY DEF StartupInit, StartupTypeOK
<1> QED
  BY <1>1, StartupTypeStep, PTL DEF StartupSpec

\* A server that serves requests has its tables and indices, for any number of processes, of
\* versions and of tables, wherever processes are killed and whatever becomes of the copies.
THEOREM SchemaStaysCurrent == StartupSpec => []SchemaCurrent
<1>1. StartupInit => StartupInv
  <2> SUFFICES ASSUME StartupInit
               PROVE  StartupInv
    OBVIOUS
  <2>1. StartupTypeOK
    BY DEF StartupInit, StartupTypeOK
  <2>2. CopiesHold
    BY DEF StartupInit, CopiesHold, SchemaKinds, KindNames
  <2>3. ProcessesHold
    BY DEF StartupInit, ProcessesHold, ProcessHolds, Performs, NoServer
  <2> QED
    BY <2>1, <2>2, <2>3 DEF StartupInv
<1>2. StartupInv => SchemaCurrent
  <2> SUFFICES ASSUME StartupInv, NEW p \in Servers, InStep(p, "serve"), NEW n \in 1 .. 2
               PROVE  server[p].version[Kinds[n]] \subseteq Holds(server[p].backend, Kinds[n])
    BY KindsNamed DEF SchemaCurrent, Holds
  <2> QED
    BY DEF StartupInv, ProcessesHold, ProcessHolds, Performs, InStep
<1> QED
  BY <1>1, <1>2, StartupInvStep, PTL DEF StartupSpec

\* A process that found a password and asks, while that is still there, will replace it.
AccountInv == stale \subseteq found /\ \A p \in stale : server[p].backend \in admin

\* The password that --set-admin found is gone when it ends, for any number of processes,
\* versions and databases, whoever sets, adds or removes the account in between.
THEOREM OldPasswordsGone == StartupSpec => OldPasswordGone
<1>1. StartupInit => StartupTypeOK /\ AccountInv
  BY DEF StartupInit, StartupTypeOK, AccountInv
<1>2. ASSUME AccountInv, NEW p \in Servers, SaveAdmin(p)
      PROVE  p \notin stale'
  BY <1>2 DEF AccountInv, SaveAdmin, Saves, NewPassword
<1>3. StartupTypeOK /\ AccountInv /\ [StartupNext]_startupVars => AccountInv'
  <2> SUFFICES ASSUME StartupTypeOK, AccountInv, [StartupNext]_startupVars
               PROVE  AccountInv'
    OBVIOUS
  <2>1. ASSUME UNCHANGED accountVars, NEW p \in Servers, ~InStep(p, "ask"),
               \A q \in Servers : q # p => server'[q] = server[q]
        PROVE  AccountInv'
    BY <2>1 DEF AccountInv, accountVars, StartupTypeOK
  <2>2. ASSUME NEW p \in Servers, Start(p) \/ UpdateDB(p) \/ SaveSchema(p) \/ KilledInScript(p)
        PROVE  AccountInv'
    <3>1. UNCHANGED accountVars /\ ~InStep(p, "ask")
      BY <2>2 DEF Start, UpdateDB, SaveSchema, KilledInScript, InStep, accountVars
    <3>2. \A q \in Servers : q # p => server'[q] = server[q]
      BY <2>2 DEF Start, UpdateDB, SaveSchema, KilledInScript, Advance, Exit, StartupTypeOK
    <3> QED
      BY <2>1, <3>1, <3>2
  <2>3. ASSUME NEW p \in Servers, LoadAdmin(p)
        PROVE  AccountInv'
    <3>1. /\ \A q \in Servers : server'[q].backend = server[q].backend
          /\ UNCHANGED admin
      <4>1. server' = [server EXCEPT ![p] = [server[p] EXCEPT !.step = "ask"]] /\ UNCHANGED admin
        BY <2>3 DEF LoadAdmin
      <4>2. server[p] \in Alive
        BY <2>3, Running DEF LoadAdmin, InStep
      <4> QED
        BY <4>1, <4>2 DEF Alive, StartupTypeOK
    <3> QED
      BY <2>3, <3>1 DEF AccountInv, LoadAdmin
  <2>4. ASSUME NEW p \in Servers, SaveAdmin(p) \/ ServerKilled(p)
        PROVE  AccountInv'
    <3>1. p \notin stale'
      BY <1>2, <2>4 DEF ServerKilled
    <3>2. \A q \in Servers : q # p => server'[q] = server[q]
      BY <2>4 DEF SaveAdmin, ServerKilled, Exit, StartupTypeOK
    <3>3. stale' \subseteq stale /\ found' = found \ {p} /\ admin \subseteq admin'
      BY <2>4 DEF SaveAdmin, ServerKilled, NewPassword
    <3> QED
      BY <3>1, <3>2, <3>3 DEF AccountInv, StartupTypeOK
  <2>5. ASSUME NEW b, NewPassword(b), admin \ {b} \subseteq admin', UNCHANGED <<server, found>>
        PROVE  AccountInv'
    BY <2>5 DEF AccountInv, NewPassword
  <2>6. ASSUME NEW p \in Servers, SaveClientAdmin(p) \/ RemoveAdmin(p)
        PROVE  AccountInv'
    BY <2>5, <2>6 DEF SaveClientAdmin, RemoveAdmin
  <2>7. CASE Exchange
    BY <2>5, <2>7 DEF Exchange
  <2>8. CASE UNCHANGED <<accountVars, server>>
    BY <2>8 DEF AccountInv, accountVars
  <2> QED
    BY <2>2, <2>3, <2>4, <2>6, <2>7, <2>8 DEF StartupNext, ScriptsLost, startupVars
<1>4. StartupTypeOK /\ AccountInv /\ [StartupNext]_startupVars
        => [\A p \in Servers : SaveAdmin(p) => p \notin stale']_startupVars
  BY <1>2
<1> QED
  BY <1>1, <1>3, <1>4, StartupTypeStep, PTL DEF StartupSpec, OldPasswordGone

----------------------------------------------------------------------------
(* Backup. *)

\* The write lock, and where its holder is.
LockHeld ==
    /\ lock = "handler" <=> handler.results # {}
    /\ handler.results = {} => handler = NoHandler
    /\ lock = "import" <=> import = "tables"
    /\ import # "no" => upload # Nothing
    /\ lock = "export" => archive # Nothing

\* A request under way: Import has recorded it, and the files of a submission are its own
\* unless Import was at them.
RequestTracked ==
    /\ handler.todo \subseteq handler.results
    /\ handler.todo # {} => ~handler.alone
    /\ import # "no" => handler.results \subseteq during
    /\ import = "files" => ~handler.alone
    /\ handler.alone => \A r \in handler.results : files[r] = handler.by

\* The row r has its own output, if there is a row.
OwnOutput(content, r) == content.rows[r] \in {content.files[r], Nothing}

\* Files and rows agree but where a request has changed the file and not yet the row, and
\* none of them need to while Import is between the two.
FilesMatch ==
    /\ \A r \in Results \ torn :
          r \notin handler.results \ handler.todo => rows[r] \in {files[r], Nothing}
    /\ import \in {"files", "tables"} => \A r \in Results \ torn : rows[r] = Nothing

\* The archive that Export is making: the tables cannot change, and the files it has read
\* were those of the rows unless Import was at them.
ArchiveGrows ==
    lock = "export" =>
        /\ archive.rows = rows
        /\ \A r \in Results \ (toRead \cup torn) : OwnOutput(archive, r)

\* The archive that Import was given matches as every archive does.
UploadMatches ==
    upload # Nothing => \A r \in Results \ upload.content.torn : OwnOutput(upload.content, r)

\* How far Import has come with the files.
FilesRestored ==
    /\ import = "files" =>
          \A r \in Results \ during :
              files[r] = IF r \in toWrite THEN Nothing ELSE upload.content.files[r]
    /\ import = "tables" /\ upload.whole =>
          \A r \in Results \ during : files[r] = upload.content.files[r]

BackupInv ==
    /\ BackupTypeOK
    /\ LockHeld
    /\ RequestTracked
    /\ FilesMatch
    /\ ArchiveGrows
    /\ ArchiveMatches
    /\ UploadMatches
    /\ FilesRestored

----------------------------------------------------------------------------

LEMMA BackupTypeStep == BackupTypeOK /\ LockHeld /\ [BackupNext]_backupVars => BackupTypeOK'
<1> SUFFICES ASSUME BackupTypeOK, LockHeld, [BackupNext]_backupVars
             PROVE  BackupTypeOK'
  OBVIOUS
<1> USE DEF BackupTypeOK, AnyContent, Archives, Uploads, Handlers, Torn
<1>1. CASE SubmitBegins
  BY <1>1 DEF SubmitBegins, Begins
<1>2. CASE RemoveBegins
  BY <1>2 DEF RemoveBegins, Begins
<1>3. CASE RemoveFile
  BY <1>3 DEF RemoveFile
<1>4. CASE HandlerEnds
  BY <1>4 DEF HandlerEnds, NoHandler
<1>5. CASE RowsDeleted
  BY <1>5 DEF RowsDeleted
<1>6. CASE ExportTables
  BY <1>6 DEF ExportTables, NoContent
<1>7. CASE ExportFile
  <2>1. archive # Nothing
    BY <1>7 DEF ExportFile, LockHeld
  <2>2. PICK r \in toRead : archive' = [archive EXCEPT !.files = [archive.files EXCEPT ![r] = files[r]]]
    BY <1>7 DEF ExportFile
  <2>3. [archive.files EXCEPT ![r] = files[r]] \in AnyContent
    BY <2>1
  <2>4. archive' \in Archives
    BY <2>1, <2>2, <2>3
  <2> QED
    BY <1>7, <2>4 DEF ExportFile
<1>8. CASE ExportSent
  <2>1. archive # Nothing
    BY <1>8 DEF ExportSent, LockHeld
  <2>2. archive' \in Archives
    BY <1>8, <2>1 DEF ExportSent
  <2> QED
    BY <1>8, <2>2 DEF ExportSent
<1>9. CASE Import
  BY <1>9 DEF Import
<1>10. CASE ImportDeletes
  BY <1>10 DEF ImportDeletes, NoContent, DeleteFolderDeep, Disturb
<1>11. CASE ImportFile
  <2>1. upload # Nothing
    BY <1>11 DEF ImportFile, LockHeld
  <2>2. files' \in AnyContent /\ toWrite' \subseteq Results
    BY <1>11, <2>1 DEF ImportFile
  <2>3. handler' \in Handlers
    BY <1>11 DEF ImportFile, Disturb
  <2> QED
    BY <1>11, <2>2, <2>3 DEF ImportFile
<1>12. CASE ImportDrops
  <2>1. upload # Nothing
    BY <1>12 DEF ImportDrops, LockHeld
  <2>2. upload' \in Uploads
    BY <1>12, <2>1 DEF ImportDrops
  <2> QED
    BY <1>12, <2>2 DEF ImportDrops
<1>13. CASE ImportCommit
  <2>1. upload # Nothing
    BY <1>13 DEF ImportCommit, LockHeld
  <2>2. rows' \in AnyContent /\ torn' \subseteq Results
    BY <1>13, <2>1 DEF ImportCommit
  <2> QED
    BY <1>13, <2>2 DEF ImportCommit
<1>14. CASE ImportAborted
  BY <1>14 DEF ImportAborted
<1>15. CASE UNCHANGED backupVars
  BY <1>15 DEF backupVars
<1> QED
  BY <1>1, <1>2, <1>3, <1>4, <1>5, <1>6, <1>7, <1>8, <1>9, <1>10, <1>11, <1>12, <1>13, <1>14,
     <1>15 DEF BackupNext

LEMMA Disturbed ==
  ASSUME handler \in Handlers, Disturb
  PROVE  /\ handler'.results = handler.results /\ handler'.todo = handler.todo
         /\ handler'.by = handler.by /\ ~handler'.alone
         /\ handler = NoHandler => handler' = NoHandler
<1>1. handler' = [handler EXCEPT !.alone = FALSE]
  BY DEF Disturb
<1>2. /\ handler'.results = handler.results /\ handler'.todo = handler.todo
      /\ handler'.by = handler.by /\ ~handler'.alone
  BY <1>1 DEF Handlers
<1>3. handler = NoHandler => handler' = NoHandler
  <2> SUFFICES ASSUME handler = NoHandler
               PROVE  handler' = NoHandler
    OBVIOUS
  <2>1. handler' = [results |-> handler.results, by |-> handler.by, todo |-> handler.todo,
                    alone |-> FALSE]
    BY <1>1 DEF Handlers
  <2> QED
    BY <2>1 DEF NoHandler
<1> QED
  BY <1>2, <1>3

LEMMA BackupInvStep == BackupInv /\ [BackupNext]_backupVars => BackupInv'
<1> SUFFICES ASSUME BackupInv, [BackupNext]_backupVars
             PROVE  BackupInv'
  OBVIOUS
<1>0. BackupTypeOK /\ BackupTypeOK'
  BY BackupTypeStep DEF BackupInv
<1> USE DEF BackupTypeOK, AnyContent, Archives, Uploads, Handlers
<1>1. CASE SubmitBegins
  <2>1. LockHeld'
    BY <1>0, <1>1 DEF SubmitBegins, BackupInv, LockHeld, Begins, NoHandler, Free
  <2>2. RequestTracked'
    <3>1. PICK q \in Results, s \in Submissions :
             /\ Begins([results |-> {q}, by |-> s, todo |-> {}, alone |-> import # "files"], {q})
             /\ files' = [files EXCEPT ![q] = s]
      BY <1>1 DEF SubmitBegins
    <3>2. /\ handler'.results = {q} /\ handler'.by = s /\ handler'.todo = {}
          /\ handler'.alone = (import # "files") /\ UNCHANGED import
          /\ import # "no" => q \in during'
      BY <3>1 DEF Begins
    <3>3. files'[q] = s
      BY <1>0, <3>1, Zenon
    <3> QED
      BY <3>2, <3>3 DEF RequestTracked
  <2>3. FilesMatch'
    BY <1>0, <1>1 DEF SubmitBegins, BackupInv, FilesMatch, Begins, NoHandler, Torn
  <2>4. ArchiveGrows'
    BY <1>0, <1>1 DEF SubmitBegins, BackupInv, ArchiveGrows, Begins, OwnOutput
  <2>5. ArchiveMatches'
    BY <1>0, <1>1 DEF SubmitBegins, BackupInv, ArchiveMatches, Begins, Free, OwnOutput
  <2>6. UploadMatches'
    BY <1>0, <1>1 DEF SubmitBegins, BackupInv, UploadMatches, Begins, OwnOutput
  <2>7. FilesRestored'
    BY <1>0, <1>1 DEF SubmitBegins, BackupInv, FilesRestored, Begins
  <2> QED
    BY <1>0, <2>1, <2>2, <2>3, <2>4, <2>5, <2>6, <2>7 DEF BackupInv
<1>2. CASE RemoveBegins
  <2>1. LockHeld'
    <3>1. PICK R \in (SUBSET Results) \ {{}} :
             handler' = [results |-> R, by |-> Nothing, todo |-> R, alone |-> FALSE]
      BY <1>2 DEF RemoveBegins, Begins
    <3>2. handler'.results # {}
      BY <3>1
    <3> QED
      BY <1>2, <3>2 DEF RemoveBegins, Begins, BackupInv, LockHeld, Free
  <2>2. RequestTracked'
    BY <1>0, <1>2 DEF RemoveBegins, BackupInv, RequestTracked, Begins
  <2>3. FilesMatch'
    BY <1>0, <1>2 DEF RemoveBegins, BackupInv, FilesMatch, Begins, NoHandler, Torn
  <2>4. ArchiveGrows'
    BY <1>0, <1>2 DEF RemoveBegins, BackupInv, ArchiveGrows, Begins, OwnOutput
  <2>5. ArchiveMatches'
    BY <1>0, <1>2 DEF RemoveBegins, BackupInv, ArchiveMatches, Begins, Free, OwnOutput
  <2>6. UploadMatches'
    BY <1>0, <1>2 DEF RemoveBegins, BackupInv, UploadMatches, Begins, OwnOutput
  <2>7. FilesRestored'
    BY <1>0, <1>2 DEF RemoveBegins, BackupInv, FilesRestored, Begins
  <2> QED
    BY <1>0, <2>1, <2>2, <2>3, <2>4, <2>5, <2>6, <2>7 DEF BackupInv
<1>3. CASE RemoveFile
  <2>1. LockHeld'
    BY <1>0, <1>3 DEF RemoveFile, BackupInv, LockHeld, RequestTracked, NoHandler
  <2>2. RequestTracked'
    <3>1. PICK r \in handler.todo : handler' = [handler EXCEPT !.todo = handler.todo \ {r}]
      BY <1>3 DEF RemoveFile
    <3>2. /\ handler'.results = handler.results /\ handler'.todo = handler.todo \ {r}
          /\ handler'.alone = handler.alone
      BY <1>0, <3>1
    <3> QED
      BY <1>3, <3>1, <3>2 DEF RemoveFile, BackupInv, RequestTracked
  <2>3. FilesMatch'
    <3>1. PICK r \in handler.todo :
             /\ handler' = [handler EXCEPT !.todo = handler.todo \ {r}]
             /\ files' = [files EXCEPT ![r] = Nothing]
      BY <1>3 DEF RemoveFile
    <3>2. handler'.results \ handler'.todo = (handler.results \ handler.todo) \cup {r}
      BY <1>0, <3>1 DEF BackupInv, RequestTracked
    <3>3. \A q \in Results : q # r => files'[q] = files[q]
      BY <1>0, <3>1
    <3> QED
      BY <1>3, <3>2, <3>3 DEF RemoveFile, BackupInv, FilesMatch
  <2>4. ArchiveGrows'
    BY <1>0, <1>3 DEF RemoveFile, BackupInv, ArchiveGrows, LockHeld, RequestTracked, OwnOutput
  <2>5. ArchiveMatches'
    BY <1>0, <1>3 DEF RemoveFile, BackupInv, ArchiveMatches, OwnOutput
  <2>6. UploadMatches'
    BY <1>0, <1>3 DEF RemoveFile, BackupInv, UploadMatches, OwnOutput
  <2>7. FilesRestored'
    BY <1>0, <1>3 DEF RemoveFile, BackupInv, FilesRestored, LockHeld, RequestTracked
  <2> QED
    BY <1>0, <2>1, <2>2, <2>3, <2>4, <2>5, <2>6, <2>7 DEF BackupInv
<1>4. CASE HandlerEnds
  <2>1. LockHeld'
    BY <1>0, <1>4 DEF HandlerEnds, BackupInv, LockHeld, Torn, NoHandler
  <2>2. RequestTracked'
    BY <1>0, <1>4 DEF HandlerEnds, BackupInv, RequestTracked, Torn, NoHandler
  <2>3. FilesMatch'
    <3>1. \A r \in Results \ torn' :
             r \notin handler'.results \ handler'.todo => rows'[r] \in {files'[r], Nothing}
      BY <1>0, <1>4 DEF HandlerEnds, BackupInv, FilesMatch, Torn, RequestTracked, NoHandler
    <3>2. import # "tables" /\ UNCHANGED import
      BY <1>4 DEF HandlerEnds, BackupInv, LockHeld
    <3>3. ASSUME import = "files", NEW r \in Results, r \notin torn'
          PROVE  rows'[r] = Nothing
      <4>1. ~handler.alone /\ (r \notin torn => rows[r] = Nothing)
        BY <3>3 DEF BackupInv, RequestTracked, FilesMatch
      <4> QED
        BY <1>0, <1>4, <3>3, <4>1 DEF HandlerEnds, Torn
    <3> QED
      BY <3>1, <3>2, <3>3 DEF FilesMatch
  <2>4. ArchiveGrows'
    BY <1>0, <1>4 DEF HandlerEnds, BackupInv, ArchiveGrows, Torn, LockHeld, NoHandler, OwnOutput
  <2>5. ArchiveMatches'
    BY <1>0, <1>4 DEF HandlerEnds, BackupInv, ArchiveMatches, Torn, LockHeld, NoHandler, OwnOutput
  <2>6. UploadMatches'
    BY <1>0, <1>4 DEF HandlerEnds, BackupInv, UploadMatches, Torn, OwnOutput
  <2>7. FilesRestored'
    BY <1>0, <1>4 DEF HandlerEnds, BackupInv, FilesRestored, Torn
  <2> QED
    BY <1>0, <2>1, <2>2, <2>3, <2>4, <2>5, <2>6, <2>7 DEF BackupInv
<1>5. CASE RowsDeleted
  <2>1. LockHeld'
    BY <1>0, <1>5 DEF RowsDeleted, BackupInv, LockHeld, Torn, Free
  <2>2. RequestTracked'
    BY <1>0, <1>5 DEF RowsDeleted, BackupInv, RequestTracked, Torn
  <2>3. FilesMatch'
    BY <1>0, <1>5 DEF RowsDeleted, BackupInv, FilesMatch, Torn
  <2>4. ArchiveGrows'
    BY <1>0, <1>5 DEF RowsDeleted, BackupInv, ArchiveGrows, Torn, Free, OwnOutput
  <2>5. ArchiveMatches'
    BY <1>0, <1>5 DEF RowsDeleted, BackupInv, ArchiveMatches, Torn, OwnOutput
  <2>6. UploadMatches'
    BY <1>0, <1>5 DEF RowsDeleted, BackupInv, UploadMatches, Torn, OwnOutput
  <2>7. FilesRestored'
    BY <1>0, <1>5 DEF RowsDeleted, BackupInv, FilesRestored, Torn
  <2> QED
    BY <1>0, <2>1, <2>2, <2>3, <2>4, <2>5, <2>6, <2>7 DEF BackupInv
<1>6. CASE ExportTables
  <2>1. LockHeld'
    BY <1>0, <1>6, NothingAssumption DEF ExportTables, BackupInv, LockHeld, Free, NoContent
  <2>2. RequestTracked'
    BY <1>0, <1>6 DEF ExportTables, BackupInv, RequestTracked
  <2>3. FilesMatch'
    BY <1>0, <1>6, NothingAssumption DEF ExportTables, BackupInv, FilesMatch
  <2>4. ArchiveGrows'
    BY <1>0, <1>6, NothingAssumption DEF ExportTables, BackupInv, ArchiveGrows, OwnOutput
  <2>5. ArchiveMatches'
    BY <1>0, <1>6, NothingAssumption DEF ExportTables, BackupInv, ArchiveMatches, OwnOutput
  <2>6. UploadMatches'
    BY <1>0, <1>6 DEF ExportTables, BackupInv, UploadMatches, OwnOutput
  <2>7. FilesRestored'
    BY <1>0, <1>6 DEF ExportTables, BackupInv, FilesRestored
  <2> QED
    BY <1>0, <2>1, <2>2, <2>3, <2>4, <2>5, <2>6, <2>7 DEF BackupInv
<1>7. CASE ExportFile
  <2>1. LockHeld'
    BY <1>0, <1>7, NothingAssumption DEF ExportFile, BackupInv, LockHeld
  <2>2. RequestTracked'
    BY <1>0, <1>7 DEF ExportFile, BackupInv, RequestTracked
  <2>3. FilesMatch'
    BY <1>0, <1>7, NothingAssumption DEF ExportFile, BackupInv, FilesMatch
  <2>4. ArchiveGrows'
    BY <1>0, <1>7, NothingAssumption DEF ExportFile, BackupInv, ArchiveGrows, FilesMatch, LockHeld, OwnOutput
  <2>5. ArchiveMatches'
    BY <1>0, <1>7, NothingAssumption DEF ExportFile, BackupInv, ArchiveMatches, OwnOutput
  <2>6. UploadMatches'
    BY <1>0, <1>7 DEF ExportFile, BackupInv, UploadMatches, OwnOutput
  <2>7. FilesRestored'
    BY <1>0, <1>7 DEF ExportFile, BackupInv, FilesRestored
  <2> QED
    BY <1>0, <2>1, <2>2, <2>3, <2>4, <2>5, <2>6, <2>7 DEF BackupInv
<1>8. CASE ExportSent
  <2>1. LockHeld'
    BY <1>0, <1>8, NothingAssumption DEF ExportSent, BackupInv, LockHeld
  <2>2. RequestTracked'
    BY <1>0, <1>8 DEF ExportSent, BackupInv, RequestTracked
  <2>3. FilesMatch'
    BY <1>0, <1>8, NothingAssumption DEF ExportSent, BackupInv, FilesMatch
  <2>4. ArchiveGrows'
    BY <1>0, <1>8, NothingAssumption DEF ExportSent, BackupInv, ArchiveGrows, OwnOutput
  <2>5. ArchiveMatches'
    BY <1>0, <1>8, NothingAssumption DEF ExportSent, BackupInv, ArchiveMatches, ArchiveGrows, LockHeld, OwnOutput
  <2>6. UploadMatches'
    BY <1>0, <1>8 DEF ExportSent, BackupInv, UploadMatches, OwnOutput
  <2>7. FilesRestored'
    BY <1>0, <1>8 DEF ExportSent, BackupInv, FilesRestored
  <2> QED
    BY <1>0, <2>1, <2>2, <2>3, <2>4, <2>5, <2>6, <2>7 DEF BackupInv
<1>9. CASE Import
  <2>1. LockHeld'
    BY <1>0, <1>9, NothingAssumption DEF Import, BackupInv, LockHeld, Free
  <2>2. RequestTracked'
    BY <1>0, <1>9 DEF Import, BackupInv, RequestTracked, LockHeld, Free, NoHandler
  <2>3. FilesMatch'
    BY <1>0, <1>9, NothingAssumption DEF Import, BackupInv, FilesMatch
  <2>4. ArchiveGrows'
    BY <1>0, <1>9, NothingAssumption DEF Import, BackupInv, ArchiveGrows, OwnOutput
  <2>5. ArchiveMatches'
    BY <1>0, <1>9, NothingAssumption DEF Import, BackupInv, ArchiveMatches, OwnOutput
  <2>6. UploadMatches'
    BY <1>0, <1>9 DEF Import, BackupInv, UploadMatches, ArchiveMatches, Free, OwnOutput
  <2>7. FilesRestored'
    BY <1>0, <1>9 DEF Import, BackupInv, FilesRestored
  <2> QED
    BY <1>0, <2>1, <2>2, <2>3, <2>4, <2>5, <2>6, <2>7 DEF BackupInv
<1>10. CASE ImportDeletes
  <2>1. LockHeld'
    BY <1>0, <1>10, Disturbed DEF ImportDeletes, Torn, BackupInv, LockHeld
  <2>2. RequestTracked'
    BY <1>0, <1>10 DEF ImportDeletes, Torn, BackupInv, RequestTracked, Disturb
  <2>3. FilesMatch'
    BY <1>0, <1>10 DEF ImportDeletes, Torn, BackupInv, FilesMatch, Disturb
  <2>4. ArchiveGrows'
    BY <1>0, <1>10 DEF ImportDeletes, Torn, BackupInv, ArchiveGrows, Disturb, OwnOutput
  <2>5. ArchiveMatches'
    BY <1>0, <1>10 DEF ImportDeletes, Torn, BackupInv, ArchiveMatches, Disturb, OwnOutput
  <2>6. UploadMatches'
    BY <1>0, <1>10 DEF ImportDeletes, Torn, BackupInv, UploadMatches, Disturb, OwnOutput
  <2>7. FilesRestored'
    BY <1>0, <1>10 DEF ImportDeletes, Torn, BackupInv, FilesRestored, Disturb, DeleteFolderDeep, NoContent
  <2> QED
    BY <1>0, <2>1, <2>2, <2>3, <2>4, <2>5, <2>6, <2>7 DEF BackupInv
<1>11. CASE ImportFile
  <2>1. LockHeld'
    BY <1>0, <1>11, Disturbed DEF ImportFile, BackupInv, LockHeld
  <2>2. RequestTracked'
    BY <1>0, <1>11 DEF ImportFile, BackupInv, RequestTracked, Disturb
  <2>3. FilesMatch'
    BY <1>0, <1>11 DEF ImportFile, BackupInv, FilesMatch, Disturb
  <2>4. ArchiveGrows'
    BY <1>0, <1>11 DEF ImportFile, BackupInv, ArchiveGrows, Disturb, OwnOutput
  <2>5. ArchiveMatches'
    BY <1>0, <1>11 DEF ImportFile, BackupInv, ArchiveMatches, Disturb, OwnOutput
  <2>6. UploadMatches'
    BY <1>0, <1>11 DEF ImportFile, BackupInv, UploadMatches, Disturb, OwnOutput
  <2>7. FilesRestored'
    BY <1>0, <1>11 DEF ImportFile, BackupInv, FilesRestored, Disturb
  <2> QED
    BY <1>0, <2>1, <2>2, <2>3, <2>4, <2>5, <2>6, <2>7 DEF BackupInv
<1>12. CASE ImportDrops
  <2>1. LockHeld'
    BY <1>0, <1>12, NothingAssumption DEF ImportDrops, BackupInv, LockHeld, Free
  <2>2. RequestTracked'
    BY <1>0, <1>12 DEF ImportDrops, BackupInv, RequestTracked, LockHeld, Free
  <2>3. FilesMatch'
    BY <1>0, <1>12, NothingAssumption DEF ImportDrops, BackupInv, FilesMatch
  <2>4. ArchiveGrows'
    BY <1>0, <1>12, NothingAssumption DEF ImportDrops, BackupInv, ArchiveGrows, OwnOutput
  <2>5. ArchiveMatches'
    BY <1>0, <1>12, NothingAssumption DEF ImportDrops, BackupInv, ArchiveMatches, Free, OwnOutput
  <2>6. UploadMatches'
    BY <1>0, <1>12 DEF ImportDrops, BackupInv, UploadMatches, LockHeld, OwnOutput
  <2>7. FilesRestored'
    BY <1>0, <1>12 DEF ImportDrops, BackupInv, FilesRestored
  <2> QED
    BY <1>0, <2>1, <2>2, <2>3, <2>4, <2>5, <2>6, <2>7 DEF BackupInv
<1>13. CASE ImportCommit
  <2>1. LockHeld'
    BY <1>0, <1>13 DEF ImportCommit, BackupInv, LockHeld, Torn
  <2>2. RequestTracked'
    BY <1>0, <1>13 DEF ImportCommit, BackupInv, RequestTracked, Torn
  <2>3. FilesMatch'
    <3>1. handler' = handler /\ handler.results = {} /\ UNCHANGED files
      BY <1>13 DEF ImportCommit, BackupInv, LockHeld
    <3>2. ASSUME NEW r \in Results, r \notin torn'
          PROVE  rows'[r] \in {files[r], Nothing}
      <4>1. CASE upload.whole
        BY <1>0, <1>13, <3>2, <4>1 DEF ImportCommit, Torn, BackupInv, LockHeld, UploadMatches,
           OwnOutput, FilesRestored
      <4>2. CASE ~upload.whole
        BY <1>13, <3>2, <4>2 DEF ImportCommit, Torn
      <4> QED
        BY <4>1, <4>2
    <3>3. import' = "no"
      BY <1>13 DEF ImportCommit
    <3> QED
      BY <3>1, <3>2, <3>3 DEF FilesMatch
  <2>4. ArchiveGrows'
    BY <1>0, <1>13 DEF ImportCommit, BackupInv, ArchiveGrows, Torn, LockHeld, OwnOutput
  <2>5. ArchiveMatches'
    BY <1>0, <1>13 DEF ImportCommit, BackupInv, ArchiveMatches, Torn, LockHeld, OwnOutput
  <2>6. UploadMatches'
    BY <1>0, <1>13 DEF ImportCommit, BackupInv, UploadMatches, Torn, OwnOutput
  <2>7. FilesRestored'
    BY <1>0, <1>13 DEF ImportCommit, BackupInv, FilesRestored, Torn
  <2> QED
    BY <1>0, <2>1, <2>2, <2>3, <2>4, <2>5, <2>6, <2>7 DEF BackupInv
<1>14. CASE ImportAborted
  <2>1. LockHeld'
    BY <1>0, <1>14 DEF ImportAborted, BackupInv, LockHeld, Torn
  <2>2. RequestTracked'
    BY <1>0, <1>14 DEF ImportAborted, BackupInv, RequestTracked, Torn
  <2>3. FilesMatch'
    BY <1>0, <1>14 DEF ImportAborted, BackupInv, FilesMatch, Torn
  <2>4. ArchiveGrows'
    BY <1>0, <1>14 DEF ImportAborted, BackupInv, ArchiveGrows, Torn, OwnOutput
  <2>5. ArchiveMatches'
    BY <1>0, <1>14 DEF ImportAborted, BackupInv, ArchiveMatches, Torn, OwnOutput
  <2>6. UploadMatches'
    BY <1>0, <1>14 DEF ImportAborted, BackupInv, UploadMatches, Torn, OwnOutput
  <2>7. FilesRestored'
    BY <1>0, <1>14 DEF ImportAborted, BackupInv, FilesRestored, Torn
  <2> QED
    BY <1>0, <2>1, <2>2, <2>3, <2>4, <2>5, <2>6, <2>7 DEF BackupInv
<1>15. CASE UNCHANGED backupVars
  BY <1>0, <1>15 DEF BackupInv, backupVars, LockHeld, RequestTracked, FilesMatch, ArchiveGrows,
     ArchiveMatches, UploadMatches, FilesRestored, OwnOutput
<1> QED
  BY <1>1, <1>2, <1>3, <1>4, <1>5, <1>6, <1>7, <1>8, <1>9, <1>10, <1>11, <1>12, <1>13, <1>14,
     <1>15 DEF BackupNext

LEMMA BackupInvariant == BackupSpec => []BackupInv
<1>1. BackupInit => BackupInv
  <2> SUFFICES ASSUME BackupInit
               PROVE  BackupInv
    OBVIOUS
  <2> USE DEF BackupInit, NoContent, NoHandler
  <2>1. BackupTypeOK
    BY DEF BackupTypeOK, AnyContent, Handlers
  <2>2. LockHeld /\ RequestTracked /\ FilesMatch
    BY DEF LockHeld, RequestTracked, FilesMatch
  <2>3. ArchiveGrows /\ ArchiveMatches /\ UploadMatches /\ FilesRestored
    BY DEF ArchiveGrows, ArchiveMatches, UploadMatches, FilesRestored
  <2> QED
    BY <2>1, <2>2, <2>3 DEF BackupInv
<1> QED
  BY <1>1, BackupInvStep, PTL DEF BackupSpec

----------------------------------------------------------------------------

\* Every variable has its type.
THEOREM BackupTypeCorrect == BackupSpec => []BackupTypeOK
<1>1. BackupInv => BackupTypeOK
  BY DEF BackupInv
<1> QED
  BY <1>1, BackupInvariant, PTL

\* Every archive Export answers with has the output of every submission whose row it has,
\* however many results are submitted, removed, cleaned or deleted meanwhile: the write lock
\* keeps the rows, and SubmitWork, which writes a file before its row, and Result::Delete,
\* which deletes one before the row's deletion is committed, cannot run beside Export.
THEOREM ArchivesMatch == BackupSpec => []ArchiveMatches
<1>1. BackupInv => ArchiveMatches
  BY DEF BackupInv
<1> QED
  BY <1>1, BackupInvariant, PTL

\* Import of a whole archive leaves the rows and files it holds, but for the files that
\* handlers wrote or deleted after Import had given the lock away.
THEOREM WholeArchivesRestore == BackupSpec => ImportRestores
<1>1. ASSUME BackupInv, ImportCommit, upload.whole, NEW r \in Results
      PROVE  /\ rows'[r] = upload.content.rows[r]
             /\ r \notin during => files'[r] = upload.content.files[r]
  <2>1. import = "tables" /\ UNCHANGED files
    BY <1>1 DEF ImportCommit
  <2>2. rows' = [q \in Results |-> upload.content.rows[q]]
    BY <1>1 DEF ImportCommit
  <2> QED
    BY <1>1, <2>1, <2>2 DEF BackupInv, FilesRestored
<1>2. BackupInv /\ [BackupNext]_backupVars
        => [ImportCommit /\ upload.whole =>
               \A r \in Results :
                   /\ rows'[r] = upload.content.rows[r]
                   /\ r \notin during => files'[r] = upload.content.files[r]]_backupVars
  BY <1>1
<1> QED
  BY <1>2, BackupInvariant, PTL DEF BackupSpec, ImportRestores

----------------------------------------------------------------------------
(* RegexpCache. *)

\* Every entry has a handle of its own, which was compiled from its expression.
EntriesSound ==
    /\ \A i \in DOMAIN compiled : heap[compiled[i].p] = compiled[i].s
    /\ \A i, j \in DOMAIN compiled : compiled[i].p = compiled[j].p => i = j

\* No allocated handle is forgotten.
NoneLost ==
    \A h \in Handles :
        heap[h] # NoRegexp =>
            \/ \E i \in DOMAIN compiled : compiled[i].p = h
            \/ \E t \in Callers : call[t].pc = "insert" /\ call[t].p = h

\* A call that is about to insert has a handle that no entry has.
CallHolds(t) ==
    /\ call[t].pc # "out" => call[t].re \in Regexps
    /\ call[t].pc = "insert" =>
          /\ call[t].p \in Handles /\ heap[call[t].p] = call[t].re
          /\ \A i \in DOMAIN compiled : compiled[i].p # call[t].p

HeldOnce ==
    \A t, u \in Callers :
        call[t].pc = "insert" /\ call[u].pc = "insert" /\ call[t].p = call[u].p => t = u

UsedOnce == \A i, j \in DOMAIN recent : recent[i] = recent[j] => i = j

\* What holds whatever the threads do.
HandleInv ==
    /\ RegexpTypeOK /\ EntriesSound /\ NoneLost /\ UsedOnce /\ HeldOnce
    /\ \A t \in Callers : CallHolds(t)

\* No call of sqlite_regexp overlaps another one.
OneCallAtATime == \A t, u \in Callers : call[t].pc # "out" /\ call[u].pc # "out" => t = u

\* What a call has found out about the cache still holds when it uses it.
CallTracked(t) ==
    /\ call[t].pc \in {"compile", "insert"} => Found(call[t].re) = {}
    /\ call[t].pc = "exec" => call[t].p \in Handles /\ heap[call[t].p] = call[t].re

\* What holds as long as calls do not overlap.
RecencyInv == MostRecentKept /\ \A t \in Callers : CallTracked(t)

----------------------------------------------------------------------------
(* Sequences.                                                               *)

\* In a sequence without repetition there is one element to remove, if any.
LEMMA RemoveFirstProperties ==
    ASSUME NEW S, NEW s \in Seq(S), NEW e, \A i, j \in DOMAIN s : s[i] = s[j] => i = j
    PROVE  /\ \A i \in DOMAIN s : s[i] = e => RemoveFirst(s, e) = RemoveAt(s, i)
           /\ (\A i \in DOMAIN s : s[i] # e) => RemoveFirst(s, e) = s
<1>1. DOMAIN s = 1 .. Len(s)
  OBVIOUS
<1>2. ASSUME NEW i \in DOMAIN s, s[i] = e
      PROVE  RemoveFirst(s, e) = RemoveAt(s, i)
  <2>1. {k \in 1 .. Len(s) : s[k] = e} = {i}
    BY <1>1, <1>2
  <2>2. Min({i}) = i
    BY <1>1 DEF Min
  <2>3. SelectInSeq(s, LAMBDA v : v = e) = i
    BY <2>1, <2>2 DEF SelectInSeq
  <2> QED
    BY <1>1, <1>2, <2>3 DEF RemoveFirst
<1>3. (\A i \in DOMAIN s : s[i] # e) => RemoveFirst(s, e) = s
  BY <1>1 DEF RemoveFirst
<1> QED
  BY <1>2, <1>3

----------------------------------------------------------------------------
(* Operators.                                                               *)

LEMMA RegexpTypes ==
    ASSUME HandleInv
    PROVE  /\ compiled \in Seq(cache_entry) /\ Len(compiled) \in Nat
           /\ DOMAIN compiled = 1 .. Len(compiled) /\ Len(compiled) <= CACHE_SIZE
           /\ \A i \in DOMAIN compiled :
                 /\ compiled[i] \in cache_entry
                 /\ compiled[i].s \in Regexps /\ compiled[i].p \in Handles
                 /\ compiled[i].s # NoRegexp
           /\ recent \in Seq(Regexps) /\ Len(recent) \in Nat
           /\ DOMAIN recent = 1 .. Len(recent)
           /\ heap \in [Handles -> Regexps \cup {NoRegexp}] /\ call \in [Callers -> Call]
           /\ CACHE_SIZE \in Nat \ {0}
<1>1. compiled \in Seq(cache_entry) /\ recent \in Seq(Regexps) /\ Len(compiled) <= CACHE_SIZE
  BY DEF HandleInv, RegexpTypeOK
<1>2. \A i \in DOMAIN compiled : compiled[i] \in cache_entry
  BY <1>1
<1>3. \A i \in DOMAIN compiled : /\ compiled[i].s \in Regexps /\ compiled[i].p \in Handles
                                 /\ compiled[i].s # NoRegexp
  BY <1>2, RegexpAssumption DEF cache_entry
<1> QED
  BY <1>1, <1>2, <1>3, CacheSizeAssumption DEF HandleInv, RegexpTypeOK

\* The cache has no more entries than expressions were used.
LEMMA UsedOftenEnough ==
    ASSUME HandleInv, MostRecentKept
    PROVE  Len(compiled) <= Len(recent)
<1>1. Len(recent) \in Nat /\ CACHE_SIZE \in Nat
  BY RegexpTypes
<1> QED
  BY <1>1 DEF MostRecentKept

\* How the list of all used expressions changes: re comes first, and what stands before
\* its old place moves on by one.
LEMMA UsedProperties ==
    ASSUME HandleInv, NEW re \in Regexps, NEW k \in 1 .. Len(recent) + 1,
           IF k <= Len(recent) THEN recent[k] = re ELSE \A i \in DOMAIN recent : recent[i] # re
    PROVE  /\ Used(re) \in Seq(Regexps)
           /\ Len(Used(re)) = IF k <= Len(recent) THEN Len(recent) ELSE Len(recent) + 1
           /\ Used(re)[1] = re
           /\ \A n \in 2 .. Len(Used(re)) : Used(re)[n] = recent[IF n <= k THEN n - 1 ELSE n]
           /\ \A i, j \in DOMAIN Used(re) : Used(re)[i] = Used(re)[j] => i = j
<1> DEFINE rest == RemoveFirst(recent, re)
<1>0. recent \in Seq(Regexps) /\ Len(recent) \in Nat /\ DOMAIN recent = 1 .. Len(recent)
  BY RegexpTypes
<1>1. UsedOnce
  BY DEF HandleInv
<1>2. /\ rest \in Seq(Regexps)
      /\ Len(rest) = IF k <= Len(recent) THEN Len(recent) - 1 ELSE Len(recent)
      /\ \A n \in 1 .. Len(rest) : rest[n] = recent[IF n < k THEN n ELSE n + 1]
  <2>1. CASE k <= Len(recent)
    <3>1. rest = RemoveAt(recent, k) /\ k \in 1 .. Len(recent)
      BY <1>0, <1>1, <2>1, RemoveFirstProperties DEF UsedOnce
    <3>2. /\ RemoveAt(recent, k) \in Seq(Regexps)
          /\ Len(RemoveAt(recent, k)) = Len(recent) - 1
          /\ \A n \in 1 .. Len(recent) - 1 :
                RemoveAt(recent, k)[n] = recent[IF n < k THEN n ELSE n + 1]
      BY <1>0, <3>1, RemoveAtProperties
    <3> HIDE DEF rest
    <3>3. rest \in Seq(Regexps) /\ Len(rest) = Len(recent) - 1
      BY <3>1, <3>2
    <3>4. \A n \in 1 .. Len(rest) : rest[n] = recent[IF n < k THEN n ELSE n + 1]
      BY <3>1, <3>2, <3>3
    <3>5. Len(rest) = IF k <= Len(recent) THEN Len(recent) - 1 ELSE Len(recent)
      BY <2>1, <3>3
    <3> QED
      BY <3>3, <3>4, <3>5
  <2>2. CASE k = Len(recent) + 1
    <3>1. rest = recent
      BY <1>0, <1>1, <2>2, RemoveFirstProperties DEF UsedOnce
    <3> HIDE DEF rest
    <3>2. \A n \in 1 .. Len(recent) : n < k
      BY <1>0, <2>2
    <3>0. ~ (k <= Len(recent))
      BY <1>0, <2>2
    <3>3. Len(rest) = IF k <= Len(recent) THEN Len(recent) - 1 ELSE Len(recent)
      BY <3>0, <3>1
    <3>4. \A n \in 1 .. Len(rest) : rest[n] = recent[IF n < k THEN n ELSE n + 1]
      BY <3>1, <3>2
    <3> QED
      BY <1>0, <3>1, <3>3, <3>4
  <2> HIDE DEF rest
  <2>3. k <= Len(recent) \/ k = Len(recent) + 1
    BY <1>0
  <2> QED
    BY <2>1, <2>2, <2>3
<1>3. Used(re) = <<re>> \o rest
  BY DEF Used
<1> HIDE DEF rest
<1>4. /\ Used(re) \in Seq(Regexps) /\ Len(Used(re)) = Len(rest) + 1 /\ Used(re)[1] = re
      /\ \A n \in 2 .. Len(rest) + 1 : Used(re)[n] = rest[n - 1]
  BY <1>2, <1>3, ConsProperties
<1>5. Len(Used(re)) = IF k <= Len(recent) THEN Len(recent) ELSE Len(recent) + 1
  <2>1. CASE k <= Len(recent)
    BY <1>0, <1>2, <1>4, <2>1
  <2>2. CASE ~ (k <= Len(recent))
    BY <1>0, <1>2, <1>4, <2>2
  <2> QED
    BY <2>1, <2>2
<1>6. ASSUME NEW n \in 2 .. Len(Used(re))
      PROVE  Used(re)[n] = recent[IF n <= k THEN n - 1 ELSE n]
  <2>1. n - 1 \in 1 .. Len(rest) /\ n \in 2 .. Len(rest) + 1
    BY <1>2, <1>4
  <2>2. Used(re)[n] = recent[IF n - 1 < k THEN n - 1 ELSE n - 1 + 1]
    BY <1>2, <1>4, <2>1
  <2>3. n - 1 < k <=> n <= k
    BY <1>0
  <2>4. n - 1 + 1 = n
    OBVIOUS
  <2> QED
    BY <2>2, <2>3, <2>4
<1>7. DOMAIN Used(re) = 1 .. Len(Used(re)) /\ Len(Used(re)) \in Nat
  BY <1>4
<1>8. ASSUME NEW n \in 2 .. Len(Used(re))
      PROVE  /\ (IF n <= k THEN n - 1 ELSE n) \in DOMAIN recent
             /\ (IF n <= k THEN n - 1 ELSE n) # k
  BY <1>0, <1>5
<1>9. ASSUME NEW n \in 2 .. Len(Used(re))
      PROVE  Used(re)[n] # re
  <2>1. k \in DOMAIN recent => recent[k] = re
    BY <1>0
  <2>2. k \notin DOMAIN recent => \A i \in DOMAIN recent : recent[i] # re
    BY <1>0
  <2> QED
    BY <1>1, <1>6, <1>8, <2>1, <2>2 DEF UsedOnce
<1>10. ASSUME NEW i \in 2 .. Len(Used(re)), NEW j \in 2 .. Len(Used(re)),
              Used(re)[i] = Used(re)[j]
       PROVE  i = j
  <2> DEFINE pi == IF i <= k THEN i - 1 ELSE i
             pj == IF j <= k THEN j - 1 ELSE j
  <2>1. pi \in DOMAIN recent /\ pj \in DOMAIN recent
    BY <1>8
  <2>2. recent[pi] = recent[pj]
    BY <1>6, <1>10
  <2>3. pi = pj
    BY <1>1, <2>1, <2>2 DEF UsedOnce
  <2>4. k \in Int /\ i \in Int /\ j \in Int
    BY <1>0
  <2> QED
    BY <2>3, <2>4
<1>11. \A i, j \in DOMAIN Used(re) : Used(re)[i] = Used(re)[j] => i = j
  <2>1. \A i \in DOMAIN Used(re) : i = 1 \/ i \in 2 .. Len(Used(re))
    BY <1>7
  <2> QED
    BY <1>4, <1>9, <1>10, <2>1
<1> QED
  BY <1>4, <1>5, <1>6, <1>11

\* Moving an entry to the front neither loses nor doubles one.
LEMMA MovedProperties ==
    ASSUME HandleInv, NEW i \in DOMAIN compiled
    PROVE  LET from(n) == IF n = 1 THEN i ELSE IF n <= i THEN n - 1 ELSE n IN
           /\ MovedToFront(i) \in Seq(cache_entry)
           /\ Len(MovedToFront(i)) = Len(compiled)
           /\ DOMAIN MovedToFront(i) = DOMAIN compiled
           /\ \A n \in DOMAIN compiled :
                 from(n) \in DOMAIN compiled /\ MovedToFront(i)[n] = compiled[from(n)]
           /\ \A m, n \in DOMAIN compiled : from(m) = from(n) => m = n
           /\ \A m \in DOMAIN compiled : \E n \in DOMAIN compiled : from(n) = m
<1> DEFINE from(n) == IF n = 1 THEN i ELSE IF n <= i THEN n - 1 ELSE n
           rest == RemoveAt(compiled, i)
<1>0. /\ compiled \in Seq(cache_entry) /\ Len(compiled) \in Nat
      /\ DOMAIN compiled = 1 .. Len(compiled) /\ compiled[i] \in cache_entry
      /\ i \in 1 .. Len(compiled) /\ i \in Int /\ 1 <= i /\ i <= Len(compiled)
  BY RegexpTypes
<1>1. /\ rest \in Seq(cache_entry) /\ Len(rest) = Len(compiled) - 1
      /\ \A n \in 1 .. Len(compiled) - 1 : rest[n] = compiled[IF n < i THEN n ELSE n + 1]
  BY <1>0, RemoveAtProperties
<1>2. MovedToFront(i) = <<compiled[i]>> \o rest
  BY DEF MovedToFront
<1> HIDE DEF rest
<1>3. /\ MovedToFront(i) \in Seq(cache_entry) /\ Len(MovedToFront(i)) = Len(rest) + 1
      /\ MovedToFront(i)[1] = compiled[i]
      /\ \A n \in 2 .. Len(rest) + 1 : MovedToFront(i)[n] = rest[n - 1]
  <2> DEFINE e == compiled[i]
  <2>1. e \in cache_entry /\ MovedToFront(i) = <<e>> \o rest
    BY <1>0, <1>2
  <2> HIDE DEF e
  <2>2. /\ MovedToFront(i) \in Seq(cache_entry) /\ Len(MovedToFront(i)) = Len(rest) + 1
        /\ MovedToFront(i)[1] = e
        /\ \A n \in 2 .. Len(rest) + 1 : MovedToFront(i)[n] = rest[n - 1]
    BY <1>1, <2>1, ConsProperties
  <2> QED
    BY <2>2 DEF e
<1>4. Len(MovedToFront(i)) = Len(compiled) /\ DOMAIN MovedToFront(i) = DOMAIN compiled
  BY <1>0, <1>1, <1>3
<1>5. ASSUME NEW n \in DOMAIN compiled
      PROVE  from(n) \in DOMAIN compiled
  BY <1>0
<1>6. ASSUME NEW n \in DOMAIN compiled
      PROVE  MovedToFront(i)[n] = compiled[from(n)]
  <2>1. CASE n = 1
    BY <1>3, <2>1
  <2>2. CASE n # 1
    <3>1. n - 1 \in 1 .. Len(compiled) - 1 /\ n \in 2 .. Len(rest) + 1
      BY <1>0, <1>1, <2>2
    <3>2. MovedToFront(i)[n] = compiled[IF n - 1 < i THEN n - 1 ELSE n - 1 + 1]
      BY <1>1, <1>3, <3>1
    <3>3. (n - 1 < i <=> n <= i) /\ n - 1 + 1 = n
      BY <1>0
    <3> QED
      BY <2>2, <3>2, <3>3
  <2> QED
    BY <2>1, <2>2
<1>7. ASSUME NEW m \in DOMAIN compiled, NEW n \in DOMAIN compiled, from(m) = from(n)
      PROVE  m = n
  BY <1>0, <1>7
<1>8. ASSUME NEW m \in DOMAIN compiled
      PROVE  \E n \in DOMAIN compiled : from(n) = m
  <2>1. CASE m = i
    BY <1>0, <2>1
  <2>2. CASE m < i
    <3>1. m + 1 \in DOMAIN compiled /\ from(m + 1) = m
      BY <1>0, <2>2
    <3> QED
      BY <3>1
  <2>3. CASE i < m
    <3>1. from(m) = m
      BY <1>0, <2>3
    <3> QED
      BY <3>1
  <2> QED
    BY <1>0, <2>1, <2>2, <2>3
<1> QED
  BY <1>3, <1>4, <1>5, <1>6, <1>7, <1>8

----------------------------------------------------------------------------
(* The handles, whatever the threads do.                                    *)

\* What is used is put into the history of all expressions once.
LEMMA UsedStaysOnce ==
    ASSUME HandleInv, NEW re \in Regexps, recent' = Used(re)
    PROVE  recent' \in Seq(Regexps) /\ UsedOnce'
<1>1. Len(recent) \in Nat /\ DOMAIN recent = 1 .. Len(recent)
  BY RegexpTypes
<1>2. PICK k \in 1 .. Len(recent) + 1 :
         IF k <= Len(recent) THEN recent[k] = re ELSE \A i \in DOMAIN recent : recent[i] # re
  <2>1. CASE \A i \in DOMAIN recent : recent[i] # re
    <3>1. Len(recent) + 1 \in 1 .. Len(recent) + 1 /\ ~ (Len(recent) + 1 <= Len(recent))
      BY <1>1
    <3> QED
      BY <2>1, <3>1
  <2>2. ASSUME NEW i \in DOMAIN recent, recent[i] = re
        PROVE  i \in 1 .. Len(recent) + 1 /\ i <= Len(recent)
    BY <1>1
  <2> QED
    BY <2>1, <2>2
<1>3. /\ Used(re) \in Seq(Regexps)
      /\ \A i, j \in DOMAIN Used(re) : Used(re)[i] = Used(re)[j] => i = j
  BY <1>2, UsedProperties
<1> QED
  BY <1>3 DEF UsedOnce

LEMMA HitHandles ==
    ASSUME HandleInv, NEW t \in Callers, NEW re \in Regexps, Hit(t, re)
    PROVE  HandleInv'
<1>0. PICK i \in Found(re) : compiled' = MovedToFront(i)
  BY DEF Hit
<1> DEFINE from(n) == IF n = 1 THEN i ELSE IF n <= i THEN n - 1 ELSE n
           row == [pc |-> "exec", re |-> re, p |-> compiled'[1].p]
<1>1. i \in DOMAIN compiled
  BY DEF Found
<1>2. /\ compiled' \in Seq(cache_entry)
      /\ Len(compiled') = Len(compiled)
      /\ DOMAIN compiled' = DOMAIN compiled
      /\ \A n \in DOMAIN compiled : from(n) \in DOMAIN compiled /\ compiled'[n] = compiled[from(n)]
      /\ \A m, n \in DOMAIN compiled : from(m) = from(n) => m = n
      /\ \A m \in DOMAIN compiled : \E n \in DOMAIN compiled : from(n) = m
  BY <1>0, <1>1, MovedProperties
<1>3. /\ DOMAIN compiled = 1 .. Len(compiled) /\ Len(compiled) \in Nat
      /\ Len(compiled) <= CACHE_SIZE /\ CACHE_SIZE \in Nat
      /\ call \in [Callers -> Call] /\ heap \in [Handles -> Regexps \cup {NoRegexp}]
  BY RegexpTypes
<1>4. /\ call' = [call EXCEPT ![t] = row] /\ recent' = Used(re) /\ heap' = heap
      /\ call[t].pc = "out"
  BY DEF Hit
<1>5. row \in Call
  <2>1. 1 \in DOMAIN compiled /\ compiled'[1] = compiled[i] /\ compiled[i].p \in Handles
    BY <1>1, <1>2, <1>3, RegexpTypes
  <2> QED
    BY <2>1 DEF Call
<1>6. recent' \in Seq(Regexps) /\ UsedOnce'
  BY <1>4, UsedStaysOnce
<1> HIDE DEF from
<1>7. RegexpTypeOK'
  BY <1>2, <1>3, <1>4, <1>5, <1>6 DEF RegexpTypeOK
<1>8. row.pc = "exec" /\ row.re = re
  OBVIOUS
<1> HIDE DEF row
<1>9. call'[t] = row /\ \A u \in Callers : u # t => call'[u] = call[u]
  BY <1>3, <1>4
<1>10. EntriesSound'
  <2>1. \A n \in DOMAIN compiled' : heap'[compiled'[n].p] = compiled'[n].s
    BY <1>2, <1>4 DEF HandleInv, EntriesSound
  <2>2. ASSUME NEW m \in DOMAIN compiled', NEW n \in DOMAIN compiled',
               compiled'[m].p = compiled'[n].p
        PROVE  m = n
    <3>1. /\ m \in DOMAIN compiled /\ n \in DOMAIN compiled
          /\ from(m) \in DOMAIN compiled /\ from(n) \in DOMAIN compiled
          /\ compiled'[m] = compiled[from(m)] /\ compiled'[n] = compiled[from(n)]
      BY <1>2
    <3>2. from(m) = from(n)
      BY <2>2, <3>1 DEF HandleInv, EntriesSound
    <3> QED
      BY <1>2, <3>1, <3>2
  <2> QED
    BY <2>1, <2>2 DEF EntriesSound
<1>11. NoneLost'
  <2> SUFFICES ASSUME NEW h \in Handles, heap'[h] # NoRegexp
               PROVE  \/ \E n \in DOMAIN compiled' : compiled'[n].p = h
                      \/ \E u \in Callers : call'[u].pc = "insert" /\ call'[u].p = h
    BY DEF NoneLost
  <2>1. CASE \E m \in DOMAIN compiled : compiled[m].p = h
    <3>1. PICK m \in DOMAIN compiled : compiled[m].p = h
      BY <2>1
    <3>2. PICK n \in DOMAIN compiled : from(n) = m
      BY <1>2
    <3>3. compiled'[n] = compiled[m] /\ n \in DOMAIN compiled'
      BY <1>2, <3>2
    <3> QED
      BY <3>1, <3>3
  <2>2. CASE \E u \in Callers : call[u].pc = "insert" /\ call[u].p = h
    BY <1>4, <1>9, <2>2
  <2> QED
    BY <1>4, <2>1, <2>2 DEF HandleInv, NoneLost
<1>12. HeldOnce'
  BY <1>8, <1>9 DEF HandleInv, HeldOnce
<1>13. ASSUME NEW u \in Callers
       PROVE  CallHolds(u)'
  <2>1. CASE u = t
    BY <1>8, <1>9, <2>1 DEF CallHolds
  <2>2. CASE u # t
    <3>1. call'[u] = call[u] /\ CallHolds(u)
      BY <1>9, <2>2 DEF HandleInv
    <3> QED
      BY <1>2, <1>4, <3>1 DEF CallHolds
  <2> QED
    BY <2>1, <2>2
<1> QED
  BY <1>6, <1>7, <1>10, <1>11, <1>12, <1>13 DEF HandleInv

LEMMA MissHandles ==
    ASSUME HandleInv, NEW t \in Callers, NEW re \in Regexps, Miss(t, re)
    PROVE  HandleInv'
<1> DEFINE row == [pc |-> "compile", re |-> re, p |-> NoHandle]
<1>1. /\ call' = [call EXCEPT ![t] = row] /\ UNCHANGED <<compiled, heap, recent>>
      /\ call[t].pc = "out"
  BY DEF Miss
<1>2. row \in Call /\ call \in [Callers -> Call]
  BY RegexpTypes DEF Call
<1>3. row.pc = "compile" /\ row.re = re
  OBVIOUS
<1>4. RegexpTypeOK' /\ EntriesSound' /\ UsedOnce'
  BY <1>1, <1>2 DEF HandleInv, RegexpTypeOK, EntriesSound, UsedOnce
<1> HIDE DEF row
<1>5. call'[t] = row /\ \A u \in Callers : u # t => call'[u] = call[u]
  BY <1>1, <1>2
<1>6. NoneLost'
  BY <1>1, <1>5 DEF HandleInv, NoneLost
<1>7. HeldOnce' /\ \A u \in Callers : CallHolds(u)'
  BY <1>1, <1>3, <1>5 DEF HandleInv, HeldOnce, CallHolds
<1> QED
  BY <1>4, <1>6, <1>7 DEF HandleInv

\* A call after two of its fields were set.
LEMMA CallUpdated ==
    ASSUME NEW c \in Call, NEW a, NEW b
    PROVE  [c EXCEPT !.pc = a, !.p = b] = [pc |-> a, re |-> c.re, p |-> b]
<1>1. c = [pc |-> c.pc, re |-> c.re, p |-> c.p]
  BY DEF Call
<1>2. [c EXCEPT !.pc = a] = [pc |-> a, re |-> c.re, p |-> c.p]
  BY <1>1
<1>3. [[pc |-> a, re |-> c.re, p |-> c.p] EXCEPT !.p = b] = [pc |-> a, re |-> c.re, p |-> b]
  OBVIOUS
<1>4. [c EXCEPT !.pc = a, !.p = b] = [[c EXCEPT !.pc = a] EXCEPT !.p = b]
  OBVIOUS
<1> QED
  BY <1>2, <1>3, <1>4

LEMMA CompileHandles ==
    ASSUME HandleInv, NEW t \in Callers, Compile(t)
    PROVE  HandleInv'
<1>0. /\ call \in [Callers -> Call] /\ call[t] \in Call /\ call[t].pc = "compile"
      /\ heap \in [Handles -> Regexps \cup {NoRegexp}] /\ UNCHANGED <<compiled, recent>>
      /\ call[t].re \in Regexps
  BY RegexpTypes DEF Compile, HandleInv, CallHolds
<1>1. CASE call' = [call EXCEPT ![t] = NoCall] /\ UNCHANGED heap
  <2>1. NoCall \in Call /\ NoCall.pc = "out"
    BY DEF NoCall, Call
  <2>2. call'[t] = NoCall /\ \A u \in Callers : u # t => call'[u] = call[u]
    BY <1>0, <1>1
  <2>3. RegexpTypeOK' /\ EntriesSound' /\ UsedOnce'
    BY <1>0, <1>1, <2>1 DEF HandleInv, RegexpTypeOK, EntriesSound, UsedOnce
  <2>4. NoneLost'
    BY <1>0, <1>1, <2>2 DEF HandleInv, NoneLost
  <2>5. HeldOnce' /\ \A u \in Callers : CallHolds(u)'
    BY <1>0, <1>1, <2>1, <2>2 DEF HandleInv, HeldOnce, CallHolds
  <2> QED
    BY <2>3, <2>4, <2>5 DEF HandleInv
\* A handle that was free is nobody's.
<1>2. ASSUME NEW h \in Handles, heap[h] = NoRegexp, heap' = [heap EXCEPT ![h] = call[t].re],
             call' = [call EXCEPT ![t].pc = "insert", ![t].p = h]
      PROVE  HandleInv'
  <2> DEFINE row == [pc |-> "insert", re |-> call[t].re, p |-> h]
  <2>0. [call[t] EXCEPT !.pc = "insert", !.p = h] = row
    BY <1>0, CallUpdated
  <2>1. row \in Call /\ call' = [call EXCEPT ![t] = row]
    BY <1>0, <1>2, <2>0 DEF Call
  <2>2. row.pc = "insert" /\ row.re = call[t].re /\ row.p = h
    OBVIOUS
  <2>3. RegexpTypeOK' /\ UsedOnce'
    <3>1. heap' \in [Handles -> Regexps \cup {NoRegexp}] /\ call' \in [Callers -> Call]
      <4> HIDE DEF row
      <4> QED
        BY <1>0, <1>2, <2>1
    <3> QED
      BY <1>0, <3>1 DEF HandleInv, RegexpTypeOK, UsedOnce
  <2> HIDE DEF row
  <2>4. call'[t] = row /\ \A u \in Callers : u # t => call'[u] = call[u]
    BY <1>0, <2>1
  <2>5. \A i \in DOMAIN compiled : compiled[i].p # h /\ compiled[i].p \in Handles
    BY <1>2, RegexpTypes DEF HandleInv, EntriesSound
  <2>6. \A u \in Callers : call[u].pc = "insert" => call[u].p # h
    BY <1>2, RegexpAssumption DEF HandleInv, CallHolds
  <2>7. \A g \in Handles : heap'[g] = IF g = h THEN call[t].re ELSE heap[g]
    BY <1>0, <1>2
  <2>8. EntriesSound'
    BY <1>0, <2>5, <2>7 DEF HandleInv, EntriesSound
  <2>9. NoneLost'
    <3> SUFFICES ASSUME NEW g \in Handles, heap'[g] # NoRegexp
                 PROVE  \/ \E i \in DOMAIN compiled' : compiled'[i].p = g
                        \/ \E u \in Callers : call'[u].pc = "insert" /\ call'[u].p = g
      BY DEF NoneLost
    <3>1. CASE g = h
      BY <2>2, <2>4, <3>1
    <3>2. CASE g # h
      <4>1. heap[g] # NoRegexp
        BY <2>7, <3>2
      <4> QED
        BY <1>0, <2>4, <4>1 DEF HandleInv, NoneLost
    <3> QED
      BY <3>1, <3>2
  <2>10. HeldOnce'
    BY <2>2, <2>4, <2>6 DEF HandleInv, HeldOnce
  <2>11. ASSUME NEW u \in Callers
         PROVE  CallHolds(u)'
    <3>1. CASE u = t
      BY <1>0, <1>2, <2>2, <2>4, <2>5, <2>7, <3>1 DEF CallHolds
    <3>2. CASE u # t
      BY <1>0, <2>4, <2>6, <2>7, <3>2 DEF HandleInv, CallHolds
    <3> QED
      BY <3>1, <3>2
  <2> QED
    BY <2>3, <2>8, <2>9, <2>10, <2>11 DEF HandleInv
<1> QED
  BY <1>1, <1>2 DEF Compile

\* The entries that stay are the first ones.
Kept == IF Len(compiled) = CACHE_SIZE THEN CACHE_SIZE - 1 ELSE Len(compiled)

\* How the cache and the call change when an entry is inserted.
LEMMA InsertedProperties ==
    ASSUME HandleInv, NEW t \in Callers, Insert(t)
    PROVE  /\ Kept \in Nat /\ Kept < CACHE_SIZE /\ Kept <= Len(compiled)
           /\ compiled' \in Seq(cache_entry) /\ Len(compiled') = Kept + 1
           /\ DOMAIN compiled' = 1 .. Kept + 1
           /\ compiled'[1] = [s |-> call[t].re, p |-> call[t].p]
           /\ \A n \in 2 .. Kept + 1 : n - 1 \in 1 .. Kept /\ compiled'[n] = compiled[n - 1]
           /\ call' = [call EXCEPT ![t] = [pc |-> "exec", re |-> call[t].re, p |-> call[t].p]]
           /\ [pc |-> "exec", re |-> call[t].re, p |-> call[t].p] \in Call
<1> DEFINE re == call[t].re
           p == call[t].p
           new == [s |-> re, p |-> p]
           rest == IF Len(compiled) = CACHE_SIZE THEN Front(compiled) ELSE compiled
           row == [pc |-> "exec", re |-> re, p |-> p]
<1>0. /\ compiled \in Seq(cache_entry) /\ Len(compiled) \in Nat
      /\ Len(compiled) <= CACHE_SIZE /\ CACHE_SIZE \in Nat /\ CACHE_SIZE > 0
      /\ call \in [Callers -> Call] /\ call[t] \in Call
  BY RegexpTypes
<1>1. re \in Regexps /\ p \in Handles
  BY DEF Insert, HandleInv, CallHolds
<1>2. new \in cache_entry /\ row \in Call
  BY <1>1 DEF cache_entry, Call
<1>3. /\ rest \in Seq(cache_entry) /\ Len(rest) = Kept /\ Kept \in Nat /\ Kept < CACHE_SIZE
      /\ Kept <= Len(compiled)
      /\ \A n \in 1 .. Kept : rest[n] = compiled[n]
  <2>1. CASE Len(compiled) = CACHE_SIZE
    <3>1. Len(compiled) > 0
      BY <1>0, <2>1
    <3>2. /\ Front(compiled) \in Seq(cache_entry)
          /\ Len(Front(compiled)) = Len(compiled) - 1
          /\ \A n \in 1 .. Len(compiled) - 1 : Front(compiled)[n] = compiled[n]
      BY <1>0, <3>1, FrontProperties
    <3>3. rest = Front(compiled) /\ Kept = CACHE_SIZE - 1
      BY <2>1 DEF Kept
    <3> HIDE DEF rest, re, p, new, row
    <3>4. rest \in Seq(cache_entry) /\ Len(rest) = Kept /\ Len(compiled) - 1 = Kept
      BY <2>1, <3>2, <3>3
    <3>5. \A n \in 1 .. Kept : rest[n] = compiled[n]
      BY <3>2, <3>3, <3>4
    <3>6. Kept \in Nat /\ Kept < CACHE_SIZE /\ Kept <= Len(compiled)
      BY <1>0, <2>1, <3>3
    <3> QED
      BY <3>4, <3>5, <3>6, Zenon
  <2>2. CASE Len(compiled) # CACHE_SIZE
    <3>1. rest = compiled /\ Kept = Len(compiled)
      BY <2>2 DEF Kept
    <3> HIDE DEF rest, re, p, new, row
    <3>2. Kept \in Nat /\ Kept < CACHE_SIZE /\ Kept <= Len(compiled)
      BY <1>0, <2>2, <3>1
    <3>3. rest \in Seq(cache_entry) /\ Len(rest) = Kept
      BY <1>0, <3>1
    <3>4. \A n \in 1 .. Kept : rest[n] = compiled[n]
      BY <3>1
    <3> QED
      BY <3>2, <3>3, <3>4
  <2> QED
    BY <2>1, <2>2
<1>4. compiled' = <<new>> \o rest
  BY DEF Insert, PutFirst
<1> HIDE DEF rest
<1>5. /\ compiled' \in Seq(cache_entry) /\ Len(compiled') = Kept + 1 /\ compiled'[1] = new
      /\ DOMAIN compiled' = 1 .. Kept + 1
      /\ \A n \in 2 .. Kept + 1 : n - 1 \in 1 .. Kept /\ compiled'[n] = compiled[n - 1]
  <2>1. /\ compiled' \in Seq(cache_entry) /\ Len(compiled') = Kept + 1 /\ compiled'[1] = new
        /\ \A n \in 2 .. Kept + 1 : compiled'[n] = rest[n - 1]
    BY <1>2, <1>3, <1>4, ConsProperties
  <2>2. \A n \in 2 .. Kept + 1 : n - 1 \in 1 .. Kept
    BY <1>3
  <2> QED
    BY <1>3, <2>1, <2>2
<1>6. call' = [call EXCEPT ![t] = row]
  <2>1. call' = [call EXCEPT ![t].pc = "exec", ![t].p = compiled'[1].p]
    BY DEF Insert
  <2>2. compiled'[1].p = p
    BY <1>5
  <2>3. [call[t] EXCEPT !.pc = "exec", !.p = p] = row
    BY <1>0, CallUpdated
  <2>4. [call EXCEPT ![t].pc = "exec", ![t].p = p] = [call EXCEPT ![t] = row]
    BY <1>0, <2>3
  <2> QED
    BY <2>1, <2>2, <2>4
<1> QED
  BY <1>2, <1>3, <1>5, <1>6

\* The handle that is freed is that of the entry that goes, and only that one.
LEMMA EvictedProperties ==
    ASSUME HandleInv, NEW t \in Callers, Insert(t)
    PROVE  /\ heap' \in [Handles -> Regexps \cup {NoRegexp}]
           /\ \A n \in 1 .. Kept : heap'[compiled[n].p] = heap[compiled[n].p]
           /\ \A h \in Handles :
                 (\A n \in DOMAIN compiled : compiled[n].p # h) => heap'[h] = heap[h]
           /\ \A h \in Handles : heap'[h] # NoRegexp =>
                 /\ heap[h] # NoRegexp
                 /\ \A n \in DOMAIN compiled : compiled[n].p = h => n \in 1 .. Kept
<1>0. /\ DOMAIN compiled = 1 .. Len(compiled) /\ Len(compiled) \in Nat
      /\ heap \in [Handles -> Regexps \cup {NoRegexp}]
      /\ \A n \in DOMAIN compiled : compiled[n].p \in Handles
      /\ CACHE_SIZE \in Nat /\ CACHE_SIZE > 0
  BY RegexpTypes
<1>1. CASE Len(compiled) = CACHE_SIZE
  <2> DEFINE last == compiled[Len(compiled)].p
  <2>1. heap' = [heap EXCEPT ![last] = NoRegexp]
    BY <1>1 DEF Insert, Evicted, Last
  <2>2. Len(compiled) \in DOMAIN compiled /\ last \in Handles
    BY <1>0, <1>1
  <2>3. \A n \in 1 .. Kept : n \in DOMAIN compiled /\ n # Len(compiled)
    BY <1>0, <1>1 DEF Kept
  <2>4. \A n \in 1 .. Kept : compiled[n].p # last /\ compiled[n].p \in Handles
    BY <1>0, <2>2, <2>3 DEF HandleInv, EntriesSound
  <2>5. \A n \in DOMAIN compiled : n \in 1 .. Kept \/ n = Len(compiled)
    BY <1>0, <1>1 DEF Kept
  <2>6. \A h \in Handles : (\A n \in DOMAIN compiled : compiled[n].p # h) => h # last
    BY <2>2
  <2> HIDE DEF last
  <2>7. \A h \in Handles : heap'[h] = IF h = last THEN NoRegexp ELSE heap[h]
    BY <1>0, <2>1
  <2> QED
    BY <1>0, <2>1, <2>2, <2>4, <2>5, <2>6, <2>7 DEF last
<1>2. CASE Len(compiled) # CACHE_SIZE
  BY <1>0, <1>2 DEF Insert, Evicted, Kept
<1> QED
  BY <1>1, <1>2

\* Into a full cache the new entry comes in place of the last one, whose handle is freed.
LEMMA InsertHandles ==
    ASSUME HandleInv, NEW t \in Callers, Insert(t)
    PROVE  HandleInv'
<1> DEFINE re == call[t].re
           p == call[t].p
           new == [s |-> re, p |-> p]
           row == [pc |-> "exec", re |-> re, p |-> p]
<1>0. /\ compiled \in Seq(cache_entry) /\ Len(compiled) \in Nat
      /\ DOMAIN compiled = 1 .. Len(compiled)
      /\ heap \in [Handles -> Regexps \cup {NoRegexp}] /\ call \in [Callers -> Call]
      /\ \A n \in DOMAIN compiled : compiled[n].p \in Handles
      /\ CACHE_SIZE \in Nat
  BY RegexpTypes
<1>1. /\ re \in Regexps /\ p \in Handles /\ heap[p] = re
      /\ \A i \in DOMAIN compiled : compiled[i].p # p
      /\ call[t].pc = "insert"
  BY DEF Insert, HandleInv, CallHolds
<1>2. /\ Kept \in Nat /\ Kept < CACHE_SIZE /\ Kept <= Len(compiled)
      /\ compiled' \in Seq(cache_entry) /\ Len(compiled') = Kept + 1
      /\ DOMAIN compiled' = 1 .. Kept + 1 /\ compiled'[1] = new
      /\ \A n \in 2 .. Kept + 1 : n - 1 \in 1 .. Kept /\ compiled'[n] = compiled[n - 1]
      /\ call' = [call EXCEPT ![t] = row] /\ row \in Call
  BY InsertedProperties
<1>3. /\ heap' \in [Handles -> Regexps \cup {NoRegexp}]
      /\ \A n \in 1 .. Kept : heap'[compiled[n].p] = heap[compiled[n].p]
      /\ \A h \in Handles : (\A n \in DOMAIN compiled : compiled[n].p # h) => heap'[h] = heap[h]
      /\ \A h \in Handles : heap'[h] # NoRegexp =>
            /\ heap[h] # NoRegexp
            /\ \A n \in DOMAIN compiled : compiled[n].p = h => n \in 1 .. Kept
  BY EvictedProperties
<1>4. recent' \in Seq(Regexps) /\ UsedOnce'
  BY <1>1, UsedStaysOnce DEF Insert
<1>5. new.s = re /\ new.p = p /\ row.pc = "exec" /\ row.re = re
  OBVIOUS
<1> HIDE DEF re, p, new, row
<1>6. RegexpTypeOK'
  <2>1. call' \in [Callers -> Call] /\ Len(compiled') <= CACHE_SIZE
    BY <1>0, <1>2
  <2> QED
    BY <1>2, <1>3, <1>4, <2>1 DEF RegexpTypeOK
<1>7. call'[t] = row /\ \A u \in Callers : u # t => call'[u] = call[u]
  BY <1>0, <1>2
<1>8. /\ \A n \in 2 .. Kept + 1 : n - 1 \in 1 .. Kept /\ n - 1 \in DOMAIN compiled
      /\ \A n \in DOMAIN compiled' : n = 1 \/ n \in 2 .. Kept + 1
  BY <1>0, <1>2
<1>9. EntriesSound'
  <2>1. ASSUME NEW n \in 2 .. Kept + 1
        PROVE  heap'[compiled'[n].p] = compiled'[n].s /\ compiled'[n].p # p
    <3>1. compiled'[n] = compiled[n - 1]
      BY <1>2
    <3> QED
      BY <1>1, <1>3, <1>8, <3>1 DEF HandleInv, EntriesSound
  <2>2. ASSUME NEW m \in 2 .. Kept + 1, NEW n \in 2 .. Kept + 1, compiled'[m].p = compiled'[n].p
        PROVE  m = n
    <3>1. compiled[m - 1].p = compiled[n - 1].p
      BY <1>2, <2>2
    <3>2. m - 1 = n - 1
      BY <1>8, <3>1 DEF HandleInv, EntriesSound
    <3> QED
      BY <3>2
  <2>3. heap'[compiled'[1].p] = compiled'[1].s /\ compiled'[1].p = p
    BY <1>1, <1>2, <1>3, <1>5
  <2> QED
    BY <1>8, <2>1, <2>2, <2>3 DEF EntriesSound
<1>10. NoneLost'
  <2> SUFFICES ASSUME NEW h \in Handles, heap'[h] # NoRegexp
               PROVE  \/ \E i \in DOMAIN compiled' : compiled'[i].p = h
                      \/ \E u \in Callers : call'[u].pc = "insert" /\ call'[u].p = h
    BY DEF NoneLost
  <2>1. CASE h = p
    <3>1. 1 \in DOMAIN compiled'
      BY <1>2
    <3> QED
      BY <1>2, <1>5, <2>1, <3>1
  <2>2. CASE \E i \in DOMAIN compiled : compiled[i].p = h
    <3>1. PICK i \in DOMAIN compiled : compiled[i].p = h
      BY <2>2
    <3>2. i \in 1 .. Kept
      BY <1>3, <3>1
    <3>3. PICK n \in 2 .. Kept + 1 : n - 1 = i
      <4>1. i \in Int /\ 1 <= i /\ i <= Kept /\ Kept \in Int
        BY <1>2, <3>2
      <4> QED
        BY <4>1
    <3>4. n \in DOMAIN compiled' /\ compiled'[n] = compiled[i]
      <4>1. n \in DOMAIN compiled'
        BY <1>2
      <4> QED
        BY <1>2, <3>3, <4>1
    <3> QED
      BY <3>1, <3>4
  <2>3. CASE h # p /\ \E u \in Callers : call[u].pc = "insert" /\ call[u].p = h
    BY <1>7, <2>3 DEF p
  <2> QED
    BY <1>3, <2>1, <2>2, <2>3 DEF HandleInv, NoneLost
<1>11. HeldOnce'
  BY <1>5, <1>7 DEF HandleInv, HeldOnce
<1>12. ASSUME NEW u \in Callers
       PROVE  CallHolds(u)'
  <2>1. CASE u = t
    BY <1>1, <1>5, <1>7, <2>1 DEF CallHolds
  <2>2. CASE u # t
    <3>1. call'[u] = call[u] /\ CallHolds(u)
      BY <1>7, <2>2 DEF HandleInv
    <3>2. ASSUME call[u].pc = "insert"
          PROVE  /\ heap'[call[u].p] = heap[call[u].p]
                 /\ \A n \in DOMAIN compiled' : compiled'[n].p # call[u].p
      <4>1. call[u].p # p
        BY <1>1, <2>2, <3>2 DEF HandleInv, HeldOnce, p
      <4>2. call[u].p \in Handles /\ \A n \in DOMAIN compiled : compiled[n].p # call[u].p
        BY <3>1, <3>2 DEF CallHolds
      <4> QED
        BY <1>2, <1>3, <1>5, <1>8, <4>1, <4>2
    <3> QED
      BY <3>1, <3>2 DEF CallHolds
  <2> QED
    BY <2>1, <2>2
<1> QED
  BY <1>4, <1>6, <1>9, <1>10, <1>11, <1>12 DEF HandleInv

LEMMA ExecHandles ==
    ASSUME HandleInv, NEW t \in Callers, Exec(t)
    PROVE  HandleInv'
<1>1. /\ call[t].pc = "exec" /\ call' = [call EXCEPT ![t] = NoCall]
      /\ UNCHANGED <<compiled, heap, recent>> /\ call \in [Callers -> Call]
  BY RegexpTypes DEF Exec
<1>2. NoCall \in Call /\ NoCall.pc = "out"
  BY DEF NoCall, Call
<1>3. RegexpTypeOK' /\ EntriesSound' /\ UsedOnce'
  BY <1>1, <1>2 DEF HandleInv, RegexpTypeOK, EntriesSound, UsedOnce
<1>4. call'[t] = NoCall /\ \A u \in Callers : u # t => call'[u] = call[u]
  BY <1>1
<1>5. NoneLost'
  BY <1>1, <1>4 DEF HandleInv, NoneLost
<1>6. HeldOnce' /\ \A u \in Callers : CallHolds(u)'
  BY <1>1, <1>2, <1>4 DEF HandleInv, HeldOnce, CallHolds
<1> QED
  BY <1>3, <1>5, <1>6 DEF HandleInv

LEMMA HandleInvariant == RegexpSpec => []HandleInv
<1>1. RegexpInit => HandleInv
  <2> SUFFICES ASSUME RegexpInit PROVE HandleInv
    OBVIOUS
  <2>1. compiled = <<>> /\ recent = <<>> /\ heap = [h \in Handles |-> NoRegexp]
    BY DEF RegexpInit
  <2>2. NoCall \in Call /\ NoCall.pc = "out" /\ \A t \in Callers : call[t] = NoCall
    BY DEF RegexpInit, NoCall, Call
  <2>3. CACHE_SIZE \in Nat /\ CACHE_SIZE > 0
    BY CacheSizeAssumption
  <2>4. RegexpTypeOK
    BY <2>1, <2>2, <2>3 DEF RegexpInit, RegexpTypeOK
  <2>5. EntriesSound /\ UsedOnce /\ NoneLost
    BY <2>1 DEF EntriesSound, UsedOnce, NoneLost
  <2>6. HeldOnce /\ \A t \in Callers : CallHolds(t)
    BY <2>2 DEF HeldOnce, CallHolds
  <2> QED
    BY <2>4, <2>5, <2>6 DEF HandleInv
<1>2. HandleInv /\ [RegexpNext]_regexpVars => HandleInv'
  <2> SUFFICES ASSUME HandleInv, [RegexpNext]_regexpVars
               PROVE  HandleInv'
    OBVIOUS
  <2>1. CASE \E t \in Callers, re \in Regexps : Hit(t, re)
    BY <2>1, HitHandles
  <2>2. CASE \E t \in Callers, re \in Regexps : Miss(t, re)
    BY <2>2, MissHandles
  <2>3. CASE \E t \in Callers : Compile(t)
    BY <2>3, CompileHandles
  <2>4. CASE \E t \in Callers : Insert(t)
    BY <2>4, InsertHandles
  <2>5. CASE \E t \in Callers : Exec(t)
    BY <2>5, ExecHandles
  <2>6. CASE UNCHANGED regexpVars
    <3>1. /\ RegexpTypeOK' <=> RegexpTypeOK
          /\ EntriesSound' <=> EntriesSound
          /\ NoneLost' <=> NoneLost
          /\ UsedOnce' <=> UsedOnce
          /\ HeldOnce' <=> HeldOnce
      BY <2>6 DEF regexpVars, RegexpTypeOK, EntriesSound, NoneLost, UsedOnce, HeldOnce
    <3>2. \A t \in Callers : CallHolds(t)' <=> CallHolds(t)
      BY <2>6 DEF regexpVars, CallHolds
    <3> QED
      BY <3>1, <3>2 DEF HandleInv
  <2> QED
    BY <2>1, <2>2, <2>3, <2>4, <2>5, <2>6 DEF RegexpNext
<1> QED
  BY <1>1, <1>2, PTL DEF RegexpSpec

----------------------------------------------------------------------------
(* What is in the cache, if calls do not overlap.                           *)

\* While a call goes on, no other thread is in one.
LEMMA OtherCallersOut ==
    ASSUME OneCallAtATime, OneCallAtATime', call \in [Callers -> Call], NEW t \in Callers, NEW row,
           call' = [call EXCEPT ![t] = row], call[t].pc # "out" \/ row.pc # "out"
    PROVE  /\ call'[t] = row
           /\ \A u \in Callers : u = t \/ (call[u].pc = "out" /\ call'[u].pc = "out")
<1>1. call'[t] = row /\ \A u \in Callers : u = t \/ call'[u] = call[u]
  OBVIOUS
<1>2. ASSUME NEW u \in Callers, u # t
      PROVE  call[u].pc = "out" /\ call'[u].pc = "out"
  <2>1. call'[u] = call[u]
    BY <1>1, <1>2
  <2>2. call[u].pc = "out" \/ call'[u].pc = "out"
    BY <1>1, <1>2 DEF OneCallAtATime
  <2> QED
    BY <2>1, <2>2
<1>3. \A u \in Callers : u = t \/ (call[u].pc = "out" /\ call'[u].pc = "out")
  BY <1>2
<1> QED
  BY <1>1, <1>3

LEMMA HitRecency ==
    ASSUME OneCallAtATime, OneCallAtATime', HandleInv, RecencyInv,
           NEW t \in Callers, NEW re \in Regexps, Hit(t, re)
    PROVE  RecencyInv'
<1>0. PICK i \in Found(re) : compiled' = MovedToFront(i)
  BY DEF Hit
<1> DEFINE from(n) == IF n = 1 THEN i ELSE IF n <= i THEN n - 1 ELSE n
           row == [pc |-> "exec", re |-> re, p |-> compiled'[1].p]
<1>1. i \in DOMAIN compiled /\ compiled[i].s = re
  BY DEF Found
<1>2. /\ Len(compiled') = Len(compiled)
      /\ DOMAIN compiled' = DOMAIN compiled
      /\ \A n \in DOMAIN compiled : from(n) \in DOMAIN compiled /\ compiled'[n] = compiled[from(n)]
  BY <1>0, <1>1, MovedProperties
<1>3. /\ DOMAIN compiled = 1 .. Len(compiled) /\ Len(compiled) \in Nat
      /\ DOMAIN recent = 1 .. Len(recent) /\ Len(recent) \in Nat
      /\ Len(compiled) <= Len(recent) /\ call \in [Callers -> Call]
  BY RegexpTypes, UsedOftenEnough DEF RecencyInv
<1>4. call' = [call EXCEPT ![t] = row] /\ recent' = Used(re) /\ heap' = heap
  BY DEF Hit
<1>5. 1 \in DOMAIN compiled /\ compiled'[1] = compiled[i] /\ compiled[i].p \in Handles
  BY <1>1, <1>2, <1>3, RegexpTypes
<1>6. /\ Len(recent') = Len(recent) /\ recent'[1] = re
      /\ \A n \in 2 .. Len(recent) : recent'[n] = recent[IF n <= i THEN n - 1 ELSE n]
  <2>1. i \in 1 .. Len(recent) + 1 /\ i <= Len(recent)
    BY <1>1, <1>3
  <2>2. recent[i] = re
    BY <1>1 DEF RecencyInv, MostRecentKept
  <2>3. Len(Used(re)) = Len(recent)
    BY <2>1, <2>2, UsedProperties
  <2>4. /\ Used(re)[1] = re
        /\ \A n \in 2 .. Len(Used(re)) : Used(re)[n] = recent[IF n <= i THEN n - 1 ELSE n]
    BY <2>1, <2>2, UsedProperties
  <2> QED
    BY <1>4, <2>3, <2>4
<1>7. call'[t] = row /\ \A u \in Callers : u = t \/ (call[u].pc = "out" /\ call'[u].pc = "out")
  BY <1>3, <1>4, OtherCallersOut
<1>8. MostRecentKept'
  <2>1. \A n \in DOMAIN compiled : compiled[n].s = recent[n]
    BY DEF RecencyInv, MostRecentKept
  <2>2. ASSUME NEW n \in DOMAIN compiled'
        PROVE  compiled'[n].s = recent'[n]
    <3>1. CASE n = 1
      BY <1>1, <1>5, <1>6, <3>1
    <3>2. CASE n # 1
      <4>1. n \in 2 .. Len(recent) /\ n \in DOMAIN compiled
        BY <1>2, <1>3, <3>2
      <4>2. from(n) = IF n <= i THEN n - 1 ELSE n
        BY <3>2
      <4>3. recent'[n] = recent[from(n)]
        BY <1>6, <4>1, <4>2
      <4> HIDE DEF from, row
      <4>4. compiled'[n] = compiled[from(n)] /\ from(n) \in DOMAIN compiled
        BY <1>2, <4>1
      <4> QED
        BY <2>1, <4>3, <4>4
    <3> QED
      BY <3>1, <3>2
  <2> QED
    BY <1>2, <1>6, <2>2 DEF RecencyInv, MostRecentKept
<1>9. \A u \in Callers : CallTracked(u)'
  <2>1. heap'[row.p] = re
    BY <1>1, <1>4, <1>5 DEF HandleInv, EntriesSound
  <2> QED
    BY <1>5, <1>7, <2>1 DEF CallTracked
<1> QED
  BY <1>8, <1>9 DEF RecencyInv

LEMMA MissRecency ==
    ASSUME OneCallAtATime, OneCallAtATime', HandleInv, RecencyInv,
           NEW t \in Callers, NEW re \in Regexps, Miss(t, re)
    PROVE  RecencyInv'
<1> DEFINE row == [pc |-> "compile", re |-> re, p |-> NoHandle]
<1>1. /\ call' = [call EXCEPT ![t] = row] /\ UNCHANGED <<compiled, heap, recent>>
      /\ Found(re) = {} /\ call \in [Callers -> Call]
  BY RegexpTypes DEF Miss
<1>2. call'[t] = row /\ \A u \in Callers : u = t \/ (call[u].pc = "out" /\ call'[u].pc = "out")
  BY <1>1, OtherCallersOut
<1>3. \A u \in Callers : CallTracked(u)'
  BY <1>1, <1>2 DEF CallTracked, Found
<1> QED
  BY <1>1, <1>3 DEF RecencyInv, MostRecentKept

LEMMA CompileRecency ==
    ASSUME OneCallAtATime, OneCallAtATime', HandleInv, RecencyInv,
           NEW t \in Callers, Compile(t)
    PROVE  RecencyInv'
<1>0. /\ call \in [Callers -> Call] /\ call[t] \in Call /\ call[t].pc = "compile"
      /\ UNCHANGED <<compiled, recent>> /\ Found(call[t].re) = {}
  BY RegexpTypes DEF Compile, RecencyInv, CallTracked
<1>1. PICK row : /\ call' = [call EXCEPT ![t] = row]
                 /\ row.pc = "out" \/ (row.pc = "insert" /\ row.re = call[t].re)
  <2>1. CASE call' = [call EXCEPT ![t] = NoCall]
    <3>1. NoCall.pc = "out"
      BY DEF NoCall
    <3> QED
      BY <2>1, <3>1, Zenon
  <2>2. ASSUME NEW h \in Handles, call' = [call EXCEPT ![t].pc = "insert", ![t].p = h]
        PROVE  call' = [call EXCEPT ![t] = [pc |-> "insert", re |-> call[t].re, p |-> h]]
    <3>1. [call[t] EXCEPT !.pc = "insert", !.p = h] = [pc |-> "insert", re |-> call[t].re, p |-> h]
      BY <1>0, CallUpdated
    <3> QED
      BY <1>0, <2>2, <3>1
  <2>3. ASSUME NEW h \in Handles
        PROVE  LET new == [pc |-> "insert", re |-> call[t].re, p |-> h]
               IN  new.pc = "insert" /\ new.re = call[t].re
    OBVIOUS
  <2> QED
    BY <2>1, <2>2, <2>3 DEF Compile
<1>2. call'[t] = row /\ \A u \in Callers : u = t \/ (call[u].pc = "out" /\ call'[u].pc = "out")
  BY <1>0, <1>1, OtherCallersOut
<1>3. \A u \in Callers : CallTracked(u)'
  BY <1>0, <1>1, <1>2 DEF CallTracked, Found
<1> QED
  BY <1>0, <1>3 DEF RecencyInv, MostRecentKept

\* If the expression was used before, that is longer ago than that of all entries.
LEMMA InsertRecency ==
    ASSUME OneCallAtATime, OneCallAtATime', HandleInv, RecencyInv,
           NEW t \in Callers, Insert(t)
    PROVE  RecencyInv'
<1> DEFINE re == call[t].re
           p == call[t].p
           new == [s |-> re, p |-> p]
           row == [pc |-> "exec", re |-> re, p |-> p]
<1>0. /\ DOMAIN compiled = 1 .. Len(compiled) /\ Len(compiled) \in Nat
      /\ DOMAIN recent = 1 .. Len(recent) /\ Len(recent) \in Nat
      /\ Len(compiled) <= Len(recent) /\ Len(compiled) <= CACHE_SIZE
      /\ call \in [Callers -> Call] /\ CACHE_SIZE \in Nat /\ CACHE_SIZE > 0
  BY RegexpTypes, UsedOftenEnough DEF RecencyInv
<1>1. /\ re \in Regexps /\ p \in Handles /\ heap[p] = re /\ Found(re) = {}
      /\ \A i \in DOMAIN compiled : compiled[i].p # p
  BY DEF Insert, HandleInv, CallHolds, RecencyInv, CallTracked
<1>2. /\ Kept \in Nat /\ Kept < CACHE_SIZE /\ Kept <= Len(compiled)
      /\ Len(compiled') = Kept + 1
      /\ DOMAIN compiled' = 1 .. Kept + 1 /\ compiled'[1] = new
      /\ \A n \in 2 .. Kept + 1 : n - 1 \in 1 .. Kept /\ compiled'[n] = compiled[n - 1]
      /\ call' = [call EXCEPT ![t] = row]
  BY InsertedProperties
<1>3. heap'[p] = re
  BY <1>1, EvictedProperties
<1>4. call'[t] = row /\ \A u \in Callers : u = t \/ (call[u].pc = "out" /\ call'[u].pc = "out")
  BY <1>0, <1>2, OtherCallersOut
<1>5. \A u \in Callers : CallTracked(u)'
  BY <1>1, <1>3, <1>4 DEF CallTracked
<1>6. new.s = re
  OBVIOUS
<1>7. /\ Len(compiled) = IF Len(recent) < CACHE_SIZE THEN Len(recent) ELSE CACHE_SIZE
      /\ \A i \in DOMAIN compiled : compiled[i].s = recent[i]
  BY DEF RecencyInv, MostRecentKept
<1>8. recent' = Used(re)
  BY DEF Insert
<1> HIDE DEF re, p, new, row
<1>9. PICK k \in 1 .. Len(recent) + 1 :
         /\ IF k <= Len(recent) THEN recent[k] = re ELSE \A i \in DOMAIN recent : recent[i] # re
         /\ k > Kept
         /\ k <= Len(recent) => Len(compiled) = CACHE_SIZE
  <2>1. CASE \A i \in DOMAIN recent : recent[i] # re
    <3>1. Len(recent) + 1 \in 1 .. Len(recent) + 1 /\ ~ (Len(recent) + 1 <= Len(recent))
      BY <1>0
    <3>2. Len(recent) + 1 > Kept
      BY <1>0, <1>2
    <3> QED
      BY <2>1, <3>1, <3>2
  <2>2. ASSUME NEW i \in DOMAIN recent, recent[i] = re
        PROVE  /\ i \in 1 .. Len(recent) + 1 /\ i <= Len(recent) /\ i > Kept
               /\ Len(compiled) = CACHE_SIZE
    <3>1. i \notin DOMAIN compiled
      BY <1>1, <1>7, <2>2 DEF Found
    <3>2. i \in Int /\ 1 <= i /\ i <= Len(recent) /\ ~ (i <= Len(compiled))
      BY <1>0, <3>1
    <3>3. Len(compiled) = CACHE_SIZE
      <4>1. CASE Len(recent) < CACHE_SIZE
        BY <1>0, <1>7, <3>2, <4>1
      <4> QED
        BY <1>7, <4>1
    <3> QED
      BY <1>0, <1>2, <3>2, <3>3
  <2> QED
    BY <2>1, <2>2
<1>10. /\ recent'[1] = re
       /\ Len(recent') = IF k <= Len(recent) THEN Len(recent) ELSE Len(recent) + 1
       /\ \A n \in 2 .. Len(recent') : recent'[n] = recent[IF n <= k THEN n - 1 ELSE n]
  BY <1>1, <1>8, <1>9, UsedProperties
<1>11. Len(compiled') = IF Len(recent') < CACHE_SIZE THEN Len(recent') ELSE CACHE_SIZE
  <2>1. CASE Len(compiled) = CACHE_SIZE
    <3>1. Kept = CACHE_SIZE - 1
      BY <2>1 DEF Kept
    <3>2. ~ (Len(recent) < CACHE_SIZE) /\ ~ (Len(recent') < CACHE_SIZE)
      BY <1>0, <1>7, <1>10, <2>1
    <3> QED
      BY <1>0, <1>2, <3>1, <3>2
  <2>2. CASE Len(compiled) # CACHE_SIZE
    <3>1. Kept = Len(compiled)
      BY <2>2 DEF Kept
    <3>2. Len(recent) < CACHE_SIZE /\ Len(compiled) = Len(recent)
      BY <1>7, <2>2
    <3>3. Len(recent') = Len(recent) + 1
      BY <1>9, <1>10, <2>2
    <3> QED
      BY <1>0, <1>2, <3>1, <3>2, <3>3
  <2> QED
    BY <2>1, <2>2
<1>12. ASSUME NEW n \in DOMAIN compiled'
       PROVE  compiled'[n].s = recent'[n]
  <2>1. CASE n = 1
    BY <1>2, <1>6, <1>10, <2>1
  <2>2. CASE n # 1
    <3>1. n \in 2 .. Kept + 1
      BY <1>2, <2>2
    <3>2. n - 1 \in DOMAIN compiled /\ compiled'[n] = compiled[n - 1]
      BY <1>0, <1>2, <3>1
    <3>3. n <= k /\ n \in 2 .. Len(recent')
      <4>1. n \in Int /\ 2 <= n /\ n <= Kept + 1 /\ Kept + 1 = Len(compiled')
        BY <1>2, <3>1
      <4>2. k \in Int /\ k > Kept
        <5>1. 1 .. Len(recent) + 1 \subseteq Int
          BY <1>0
        <5> QED
          BY <1>9, <5>1
      <4>3. Len(recent') \in Nat /\ Len(compiled') <= Len(recent')
        BY <1>0, <1>10, <1>11
      <4> QED
        BY <1>2, <4>1, <4>2, <4>3
    <3> QED
      BY <1>7, <1>10, <3>2, <3>3
  <2> QED
    BY <2>1, <2>2
<1> QED
  BY <1>5, <1>11, <1>12 DEF RecencyInv, MostRecentKept

LEMMA ExecRecency ==
    ASSUME HandleInv, RecencyInv, NEW t \in Callers, Exec(t)
    PROVE  RecencyInv'
<1>1. /\ call' = [call EXCEPT ![t] = NoCall] /\ UNCHANGED <<compiled, heap, recent>>
      /\ call \in [Callers -> Call]
  BY RegexpTypes DEF Exec
<1>2. \A u \in Callers : call'[u] = IF u = t THEN NoCall ELSE call[u]
  BY <1>1
<1>3. \A u \in Callers : CallTracked(u)'
  BY <1>1, <1>2 DEF RecencyInv, CallTracked, NoCall, Found
<1> QED
  BY <1>1, <1>3 DEF RecencyInv, MostRecentKept

LEMMA RecencyInvariant == RegexpSpec /\ []OneCallAtATime => [](HandleInv /\ RecencyInv)
<1>1. RegexpInit => RecencyInv
  <2> SUFFICES ASSUME RegexpInit PROVE RecencyInv
    OBVIOUS
  <2>1. compiled = <<>> /\ recent = <<>> /\ CACHE_SIZE \in Nat /\ CACHE_SIZE > 0
    BY CacheSizeAssumption DEF RegexpInit
  <2>2. \A t \in Callers : call[t].pc = "out"
    BY DEF RegexpInit, NoCall
  <2>3. MostRecentKept
    BY <2>1 DEF MostRecentKept
  <2> QED
    BY <2>2, <2>3 DEF RecencyInv, CallTracked
<1>2. OneCallAtATime /\ OneCallAtATime' /\ HandleInv /\ RecencyInv /\ [RegexpNext]_regexpVars
         => RecencyInv'
  <2> SUFFICES ASSUME OneCallAtATime, OneCallAtATime', HandleInv, RecencyInv,
                      [RegexpNext]_regexpVars
               PROVE  RecencyInv'
    OBVIOUS
  <2>1. CASE \E t \in Callers, re \in Regexps : Hit(t, re)
    BY <2>1, HitRecency
  <2>2. CASE \E t \in Callers, re \in Regexps : Miss(t, re)
    BY <2>2, MissRecency
  <2>3. CASE \E t \in Callers : Compile(t)
    BY <2>3, CompileRecency
  <2>4. CASE \E t \in Callers : Insert(t)
    BY <2>4, InsertRecency
  <2>5. CASE \E t \in Callers : Exec(t)
    BY <2>5, ExecRecency
  <2>6. CASE UNCHANGED regexpVars
    <3>1. MostRecentKept' <=> MostRecentKept
      BY <2>6 DEF regexpVars, MostRecentKept
    <3>2. \A t \in Callers : CallTracked(t)' <=> CallTracked(t)
      BY <2>6 DEF regexpVars, CallTracked, Found
    <3> QED
      BY <3>1, <3>2 DEF RecencyInv
  <2> QED
    BY <2>1, <2>2, <2>3, <2>4, <2>5, <2>6 DEF RegexpNext
<1> QED
  BY <1>1, <1>2, HandleInvariant, PTL DEF RegexpSpec

----------------------------------------------------------------------------

\* The cache of sqlite_regexp has its types, and no more entries than the array, also when
\* the calls of several threads overlap.
THEOREM RegexpTypeCorrect == RegexpSpec => []RegexpTypeOK
<1>1. HandleInv => RegexpTypeOK
  BY DEF HandleInv
<1> QED
  BY <1>1, HandleInvariant, PTL

\* sqlite_regexp frees each handle that it pushes out of the cache, and no other one: none
\* is leaked, and none is freed while an entry has it.  That holds also when the calls of
\* several threads overlap, as long as each memmove with its store is one step.
THEOREM NoHandleLeaked == RegexpSpec => []HandlesAccounted
<1>1. ASSUME HandleInv
      PROVE  HandlesAccounted
  <2> SUFFICES ASSUME NEW h \in Handles
               PROVE  LET entries == {i \in DOMAIN compiled : compiled[i].p = h}
                          holders == {t \in Callers : call[t].pc = "insert" /\ call[t].p = h}
                      IN  /\ heap[h] # NoRegexp <=> entries \cup holders # {}
                          /\ \A i, j \in entries : i = j /\ holders = {}
    BY DEF HandlesAccounted
  <2> DEFINE entries == {i \in DOMAIN compiled : compiled[i].p = h}
             holders == {t \in Callers : call[t].pc = "insert" /\ call[t].p = h}
  <2>1. heap[h] # NoRegexp => entries \cup holders # {}
    BY <1>1 DEF HandleInv, NoneLost
  <2>2. ASSUME NEW i \in entries
        PROVE  heap[h] # NoRegexp
    <3>1. heap[h] = compiled[i].s
      BY <1>1 DEF HandleInv, EntriesSound
    <3>2. compiled[i].s # NoRegexp
      BY <1>1, RegexpTypes
    <3> QED
      BY <3>1, <3>2
  <2>3. ASSUME NEW t \in holders
        PROVE  heap[h] # NoRegexp /\ \A i \in DOMAIN compiled : compiled[i].p # h
    <3>1. call[t].pc = "insert" /\ call[t].p = h /\ CallHolds(t)
      BY <1>1 DEF HandleInv
    <3> QED
      BY <3>1, RegexpAssumption DEF CallHolds
  <2>4. \A i, j \in entries : i = j
    BY <1>1 DEF HandleInv, EntriesSound
  <2> QED
    BY <2>1, <2>2, <2>3, <2>4
<1> QED
  BY <1>1, HandleInvariant, PTL

\* pcre_exec gets the compiled form of the expression that the caller of sqlite_regexp
\* asked for, if no other call frees it meanwhile.
THEOREM RightOneExecuted == RegexpSpec /\ []OneCallAtATime => []RightExpression
<1>1. RecencyInv => RightExpression
  BY DEF RecencyInv, CallTracked, RightExpression
<1> QED
  BY <1>1, RecencyInvariant, PTL

\* The entries of sqlite_regexp's cache are those of the expressions used last, in that
\* order, as many as the array holds.
THEOREM CacheIsMostRecent == RegexpSpec /\ []OneCallAtATime => []MostRecentKept
<1>1. RecencyInv => MostRecentKept
  BY DEF RecencyInv
<1> QED
  BY <1>1, RecencyInvariant, PTL

=============================================================================
