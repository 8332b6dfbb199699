------------------------------- MODULE MCParts -------------------------------
(* The smaller parts of the server and of its clients.  They share no       *)
(* state, so a behaviour here is one of a single one of them.               *)
EXTENDS FilterCache, RegexpCache, Paging, CookieFile, Arguments, CommandOutput, Startup,
        Backup, CommitUpdate, Status

VARIABLE part

Parts == {"filters", "regexps", "paging", "cookies", "arguments", "output", "startup",
          "backup", "updates", "status"}

partVars == <<vars, regexpVars, pagingVars, cookieVars, argVars, outputVars, startupVars,
              backupVars, updateVars, statusVars, part>>

\* Two versions of the server: the second has an index the first has not.
MCVersions == {[upgrade |-> {"tables"}, attributes |-> {}, config |-> {}],
               [upgrade |-> {"tables"}, attributes |-> {"index"}, config |-> {}]}

PartsInit ==
    /\ part \in Parts
    /\ Init /\ RegexpInit /\ CookieInit /\ StartupInit /\ BackupInit /\ UpdateInit
    /\ StatusInit
    /\ IF part = "paging" THEN PagingInit
       ELSE /\ matching = {} /\ counted = 1 /\ promised = {}
            /\ shown = [size |-> 1, hi |-> 0, current |-> 0, commits |-> {}]
    /\ IF part = "arguments" THEN ArgumentsInit
       ELSE /\ program = "wdc" /\ line = <<>> /\ i = 1 /\ action = NoLetter /\ utc = FALSE
            /\ taken = <<>> /\ times = [w \in TimeOptions |-> NotGiven]
            /\ offsetSet = FALSE /\ outcome = "parsing"
    /\ IF part = "output" THEN OutputInit
       ELSE /\ output = [lines |-> <<>>, ended |-> TRUE] /\ rest = <<>> /\ from = 2
            /\ counts = [c \in Counters |-> NotCounted] /\ parsed = "no"

Rest(q, itsVars) == IF part = q THEN TRUE ELSE UNCHANGED itsVars

PartsNext ==
    /\ UNCHANGED part
    /\ Rest("filters", vars) /\ Rest("regexps", regexpVars) /\ Rest("paging", pagingVars)
    /\ Rest("cookies", cookieVars) /\ Rest("arguments", argVars) /\ Rest("output", outputVars)
    /\ Rest("startup", startupVars) /\ Rest("backup", backupVars) /\ Rest("updates", updateVars)
    /\ Rest("status", statusVars)
    /\ \/ part = "filters" /\ Next
       \/ part = "regexps" /\ RegexpNext
       \/ part = "paging" /\ PagingNext
       \/ part = "cookies" /\ CookieNext
       \/ part = "arguments" /\ ArgumentsNext
       \/ part = "output" /\ OutputNext
       \/ part = "startup" /\ StartupNext
       \/ part = "backup" /\ BackupNext
       \/ part = "updates" /\ UpdateNext
       \/ part = "status" /\ StatusNext

PartsSpec == PartsInit /\ [][PartsNext]_partVars

\* Every variable of the part that runs has its type; those of the others do not change.
PartsTypeOK ==
    CASE part = "filters" -> TypeOK
      [] part = "regexps" -> RegexpTypeOK
      [] part = "paging" -> PagingTypeOK
      [] part = "cookies" -> CookieTypeOK
      [] part = "arguments" -> ArgumentsTypeOK
      [] part = "output" -> OutputTypeOK
      [] part = "startup" -> StartupTypeOK
      [] part = "backup" -> BackupTypeOK
      [] part = "updates" -> UpdateTypeOK
      [] part = "status" -> StatusTypeOK

=============================================================================
