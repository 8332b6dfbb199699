------------------------------ MODULE Arguments ------------------------------
(***************************************************************************)
(* The command lines of wdc and wda: Execute, ParseArgument, SetAction,    *)
(* CheckParamCount and ProcessAction of Client.cpp, and what Admin.cpp     *)
(* puts before them.  wda is a wdc with more actions: what its own         *)
(* ParseArgument and ProcessAction do not know they pass on.               *)
(*                                                                         *)
(* The words are read from left to right and take effect at once.  The     *)
(* long and the short name of an option are one word here, without dashes. *)
(* A parameter may be any word, the name of an option too.                 *)
(***************************************************************************)
EXTENDS Naturals, Sequences, SequencesExt

CONSTANTS
    Words,    \* what a command line is made of
    MaxWords  \* bounds its length

ASSUME WordsAssumption == MaxWords \in Nat

VARIABLES
    program,   \* "wdc" or "wda"
    line,      \* the command line
    i,         \* the word that is read next
    action,    \* the letter of the action, or NoLetter
    utc,
    taken,     \* the last parameters of every option that was read
    times,     \* start and end: what was scanned, and as what
    offsetSet, \* ONCELOCK of ScanTimeToUtc was passed
    outcome    \* "parsing", an exit code, "crashed", or the operation that is begun

argVars == <<program, line, i, action, utc, taken, times, offsetSet, outcome>>

NoLetter == "none"
NotGiven == <<>>
Beyond == "beyond"   \* what is read behind the last word

\* The letters SetAction picks the action from: the first two of the long name.
Letters ==
    [get |-> <<"g", "e">>, accept |-> <<"a", "c">>, submit |-> <<"s", "u">>, run |-> <<"r", "u">>,
     multirun |-> <<"m", "u">>, clean |-> <<"c", "l">>, email_report |-> <<"e", "m">>,
     update |-> <<"u", "p">>, state |-> <<"s", "t">>, delete |-> <<"d", "e">>]

AdminActions == {"clean", "email_report", "update", "state", "delete"}
Actions == IF program = "wda" THEN DOMAIN Letters ELSE DOMAIN Letters \ AdminActions

\* How many parameters an option takes.
Arity ==
    [get |-> 0, accept |-> 1, submit |-> 2, run |-> 1, multirun |-> 1, clean |-> 0,
     email_report |-> 0, update |-> 0, state |-> 0, delete |-> 1, nolock |-> 0, utc |-> 0,
     config |-> 1, branches |-> 1, start |-> 1, end |-> 1, ok |-> 1, errors |-> 1,
     failures |-> 1, skipped |-> 1]

TimeOptions == {"start", "end"}
Known == Actions \cup {w \in DOMAIN Arity \ DOMAIN Letters : program = "wda" \/ w # "branches"}

\* ProcessAction of wda, then of wdc.
Operation ==
    [g |-> "GetWork", a |-> "AcceptWork", s |-> "SubmitWork", r |-> "Run", m |-> "RunUntilDone",
     u |-> "Update", c |-> "Clean", e |-> "DailyReport", t |-> "GetState", d |-> "Delete"]
Operations == {Operation[l] : l \in DOMAIN Operation}

----------------------------------------------------------------------------
(* Faulty variants of operators defined below, kept to show that the        *)
(* properties notice such a fault.                                          *)

LetterFirst(w) == Letters[w][1]

ScanAsUtc == {"utc"}

----------------------------------------------------------------------------

\* SetAction, which --state gives the offset 1.
Letter(w) == IF w = "state" THEN Letters[w][2] ELSE Letters[w][1]

\* ScanTime or ScanTimeToUtc.  The latter sets its local variable offset the first time
\* only; later it adds what the stack holds, the same offset if nothing overwrote it.
Scan ==
    IF utc THEN {"utc"} ELSE IF offsetSet THEN {"local", "random"} ELSE {"local"}

Parameters(n) == SubSeq(line, i + 1, i + n)
CheckParamCount(n) == i + n <= Len(line)

Stop(o) ==
    /\ outcome' = o
    /\ UNCHANGED <<program, line, i, action, utc, taken, times, offsetSet>>

Reading(w) == outcome = "parsing" /\ i <= Len(line) /\ line[i] = w

\* The option w is read with its parameters p.
Take(w, p) ==
    /\ taken' = [taken EXCEPT ![w] = p]
    /\ i' = i + 1 + Len(p)
    /\ UNCHANGED <<program, line, outcome>>

----------------------------------------------------------------------------
(* One turn of the loop of Execute.                                         *)

Help == Reading("help") /\ Stop("exit0")

Unknown == \E w \in Words \ (Known \cup {"help"}) : Reading(w) /\ Stop("exit3")

\* SetAction comes before CheckParamCount.
SecondAction == \E w \in Actions : Reading(w) /\ action # NoLetter /\ Stop("exit2")

ParametersMissing ==
    \E w \in Known \ {"delete"} :
        /\ Reading(w)
        /\ w \in Actions => action = NoLetter
        /\ ~CheckParamCount(Arity[w])
        /\ Stop("exit1")

TakeAction ==
    \E w \in Actions :
        /\ Reading(w) /\ action = NoLetter /\ CheckParamCount(Arity[w])
        /\ action' = Letter(w)
        /\ Take(w, Parameters(Arity[w]))
        /\ UNCHANGED <<utc, times, offsetSet>>

\* wda does not check that --delete has its parameter.
DeleteBeyond ==
    /\ "delete" \in Actions /\ Reading("delete") /\ action = NoLetter /\ ~CheckParamCount(1)
    /\ \/ Stop("crashed")
       \/ /\ action' = Letter("delete")
          /\ Take("delete", <<Beyond>>)
          /\ UNCHANGED <<utc, times, offsetSet>>

TakeOption ==
    \E w \in Known \ (Actions \cup TimeOptions) :
        /\ Reading(w) /\ CheckParamCount(Arity[w])
        /\ utc' = (utc \/ w = "utc")
        /\ Take(w, Parameters(Arity[w]))
        /\ UNCHANGED <<action, times, offsetSet>>

TakeTime ==
    \E w \in TimeOptions :
        /\ Reading(w) /\ CheckParamCount(1)
        /\ \E how \in Scan : times' = [times EXCEPT ![w] = <<line[i + 1], how>>]
        /\ offsetSet' = (offsetSet \/ ~utc)
        /\ Take(w, Parameters(1))
        /\ UNCHANGED <<action, utc>>

\* The loop ends; without an action the exit code is 65.
ProcessAction ==
    /\ outcome = "parsing" /\ i > Len(line) /\ line # <<>>
    /\ Stop(IF action = NoLetter THEN "exit65" ELSE Operation[action])

Empty == outcome = "parsing" /\ line = <<>> /\ Stop("exit4")

ArgumentsInit ==
    /\ program \in {"wdc", "wda"}
    /\ line \in BoundedSeq(Words, MaxWords)
    /\ i = 1 /\ action = NoLetter /\ utc = FALSE /\ offsetSet = FALSE
    /\ taken = [w \in DOMAIN Arity |-> NotGiven]
    /\ times = [w \in TimeOptions |-> NotGiven]
    /\ outcome = "parsing"

ArgumentsNext ==
    \/ Help \/ Unknown \/ SecondAction \/ ParametersMissing \/ TakeAction \/ DeleteBeyond
    \/ TakeOption \/ TakeTime \/ ProcessAction \/ Empty

ArgumentsSpec == ArgumentsInit /\ [][ArgumentsNext]_argVars

----------------------------------------------------------------------------
(* Properties.  They compare what is begun with the line as a whole.        *)

\* The words of the line that are options, by the number of parameters each takes.
Options ==
    LET next[n \in 0 .. Len(line)] ==
            IF n = 0 THEN 1
            ELSE LET k == next[n - 1] IN
                 IF k > Len(line) \/ line[k] \notin DOMAIN Arity THEN k ELSE k + 1 + Arity[line[k]]
    IN  {k \in {next[n] : n \in 0 .. Len(line)} : k <= Len(line)}

At(w) == {k \in Options : line[k] = w}

\* Every variable has its type.
ArgumentsTypeOK ==
    /\ program \in {"wdc", "wda"} /\ line \in Seq(Words)
    /\ i \in 1 .. Len(line) + 2 /\ utc \in BOOLEAN /\ offsetSet \in BOOLEAN
    /\ action \in DOMAIN Operation \cup {NoLetter}
    /\ \A w \in DOMAIN taken : Len(taken[w]) \in {0, Arity[w]}
    /\ times \in [TimeOptions -> {NotGiven} \cup (Words \X {"utc", "local", "random"})]
    /\ outcome \in {"parsing", "crashed"} \cup {"exit0", "exit1", "exit2", "exit3", "exit4", "exit65"} \cup Operations

\* What is begun is what the only action on the line says, with the parameters that follow
\* it, and the whole line was understood.  In the one case where wda goes on without a
\* parameter the line ends with --delete.
ActionMeant ==
    outcome \in Operations =>
        \E k \in Options :
            /\ {j \in Options : line[j] \in Actions} = {k}
            /\ outcome = [get |-> "GetWork", accept |-> "AcceptWork", submit |-> "SubmitWork",
                          run |-> "Run", multirun |-> "RunUntilDone", clean |-> "Clean",
                          email_report |-> "DailyReport", update |-> "Update",
                          state |-> "GetState", delete |-> "Delete"][line[k]]
            /\ \/ line[k] = "delete" /\ k = Len(line)
               \/ taken[line[k]] = SubSeq(line, k + 1, k + Arity[line[k]])

\* "Times passed to --start and/or --end are in UTC, not local time" (Client.cpp:440-441)
\* if --utc is given, and else local: so they are taken, if --utc comes before them and
\* if at most one of a line is local.
TimesMeant ==
    LET given == At("start") \cup At("end")
        asUtc == At("utc") # {}
    IN  /\ outcome \in Operations
        /\ asUtc => \A k \in given : \E u \in At("utc") : u < k
        /\ asUtc \/ \A j, k \in given : j = k
        => \A w \in TimeOptions : \A k \in At(w) :
               (\A j \in At(w) : j <= k) => times[w] = <<line[k + 1], IF asUtc THEN "utc" ELSE "local">>

=============================================================================
