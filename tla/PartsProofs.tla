----------------------------- MODULE PartsProofs -----------------------------
(****************************************************************************)
(* The smaller parts beside each other, as MCParts runs them: a behaviour   *)
(* in which one of them runs is a behaviour of its own specification.       *)
(****************************************************************************)
EXTENDS MCParts, PagesProofs, DatabaseProofs, ClientProofs

\* What PartsSpec leaves alone, and how each part starts.
LEMMA PartStarts ==
    ASSUME PartsInit
    PROVE  /\ part \in Parts
           /\ part = "filters" => Init
           /\ part = "regexps" => RegexpInit
           /\ part = "paging" => PagingInit
           /\ part = "cookies" => CookieInit
           /\ part = "arguments" => ArgumentsInit
           /\ part = "output" => OutputInit
           /\ part = "startup" => StartupInit
           /\ part = "backup" => BackupInit
           /\ part = "updates" => UpdateInit
           /\ part = "status" => StatusInit
  BY DEF PartsInit

LEMMA PartStep ==
    ASSUME [PartsNext]_partVars
    PROVE  /\ part' = part
           /\ part = "filters" => [Next]_vars
           /\ part = "regexps" => [RegexpNext]_regexpVars
           /\ part = "paging" => [PagingNext]_pagingVars
           /\ part = "cookies" => [CookieNext]_cookieVars
           /\ part = "arguments" => [ArgumentsNext]_argVars
           /\ part = "output" => [OutputNext]_outputVars
           /\ part = "startup" => [StartupNext]_startupVars
           /\ part = "backup" => [BackupNext]_backupVars
           /\ part = "updates" => [UpdateNext]_updateVars
           /\ part = "status" => [StatusNext]_statusVars
  BY DEF PartsNext, partVars

\* Whichever part runs keeps its types, in the composition that the run of MCParts checks.
THEOREM PartsTypeCorrect == PartsSpec => []PartsTypeOK
<1>1. PartsInit => \/ part = "filters" \/ part = "regexps" \/ part = "paging" \/ part = "cookies"
                   \/ part = "arguments" \/ part = "output" \/ part = "startup" \/ part = "backup"
                   \/ part = "updates" \/ part = "status"
  BY PartStarts DEF Parts
<1>2. PartsSpec /\ part = "filters" => []PartsTypeOK
  <2>1. PartsInit /\ part = "filters" => Init
    BY PartStarts
  <2>2. part = "filters" /\ [PartsNext]_partVars => (part = "filters")' /\ [Next]_vars
    BY PartStep
  <2>3. part = "filters" /\ TypeOK => PartsTypeOK
    BY DEF PartsTypeOK
  <2> QED
    BY <2>1, <2>2, <2>3, FilterCacheTypeCorrect, PTL DEF PartsSpec, Spec
<1>3. PartsSpec /\ part = "regexps" => []PartsTypeOK
  <2>1. PartsInit /\ part = "regexps" => RegexpInit
    BY PartStarts
  <2>2. part = "regexps" /\ [PartsNext]_partVars => (part = "regexps")' /\ [RegexpNext]_regexpVars
    BY PartStep
  <2>3. part = "regexps" /\ RegexpTypeOK => PartsTypeOK
    BY DEF PartsTypeOK
  <2> QED
    BY <2>1, <2>2, <2>3, RegexpTypeCorrect, PTL DEF PartsSpec, RegexpSpec
<1>4. PartsSpec /\ part = "paging" => []PartsTypeOK
  <2>1. PartsInit /\ part = "paging" => PagingInit
    BY PartStarts
  <2>2. part = "paging" /\ [PartsNext]_partVars => (part = "paging")' /\ [PagingNext]_pagingVars
    BY PartStep
  <2>3. part = "paging" /\ PagingTypeOK => PartsTypeOK
    BY DEF PartsTypeOK
  <2> QED
    BY <2>1, <2>2, <2>3, PagingTypeCorrect, PTL DEF PartsSpec, PagingSpec
<1>5. PartsSpec /\ part = "cookies" => []PartsTypeOK
  <2>1. PartsInit /\ part = "cookies" => CookieInit
    BY PartStarts
  <2>2. part = "cookies" /\ [PartsNext]_partVars => (part = "cookies")' /\ [CookieNext]_cookieVars
    BY PartStep
  <2>3. part = "cookies" /\ CookieTypeOK => PartsTypeOK
    BY DEF PartsTypeOK
  <2> QED
    BY <2>1, <2>2, <2>3, CookieTypeCorrect, PTL DEF PartsSpec, CookieSpec
<1>6. PartsSpec /\ part = "arguments" => []PartsTypeOK
  <2>1. PartsInit /\ part = "arguments" => ArgumentsInit
    BY PartStarts
  <2>2. part = "arguments" /\ [PartsNext]_partVars => (part = "arguments")' /\ [ArgumentsNext]_argVars
    BY PartStep
  <2>3. part = "arguments" /\ ArgumentsTypeOK => PartsTypeOK
    BY DEF PartsTypeOK
  <2> QED
    BY <2>1, <2>2, <2>3, ArgumentsTypeCorrect, PTL DEF PartsSpec, ArgumentsSpec
<1>7. PartsSpec /\ part = "output" => []PartsTypeOK
  <2>1. PartsInit /\ part = "output" => OutputInit
    BY PartStarts
  <2>2. part = "output" /\ [PartsNext]_partVars => (part = "output")' /\ [OutputNext]_outputVars
    BY PartStep
  <2>3. part = "output" /\ OutputTypeOK => PartsTypeOK
    BY DEF PartsTypeOK
  <2> QED
    BY <2>1, <2>2, <2>3, OutputTypeCorrect, PTL DEF PartsSpec, OutputSpec
<1>8. PartsSpec /\ part = "startup" => []PartsTypeOK
  <2>1. PartsInit /\ part = "startup" => StartupInit
    BY PartStarts
  <2>2. part = "startup" /\ [PartsNext]_partVars => (part = "startup")' /\ [StartupNext]_startupVars
    BY PartStep
  <2>3. part = "startup" /\ StartupTypeOK => PartsTypeOK
    BY DEF PartsTypeOK
  <2> QED
    BY <2>1, <2>2, <2>3, StartupTypeCorrect, PTL DEF PartsSpec, StartupSpec
<1>9. PartsSpec /\ part = "backup" => []PartsTypeOK
  <2>1. PartsInit /\ part = "backup" => BackupInit
    BY PartStarts
  <2>2. part = "backup" /\ [PartsNext]_partVars => (part = "backup")' /\ [BackupNext]_backupVars
    BY PartStep
  <2>3. part = "backup" /\ BackupTypeOK => PartsTypeOK
    BY DEF PartsTypeOK
  <2> QED
    BY <2>1, <2>2, <2>3, BackupTypeCorrect, PTL DEF PartsSpec, BackupSpec
<1>10. PartsSpec /\ part = "updates" => []PartsTypeOK
  <2>1. PartsInit /\ part = "updates" => UpdateInit
    BY PartStarts
  <2>2. part = "updates" /\ [PartsNext]_partVars => (part = "updates")' /\ [UpdateNext]_updateVars
    BY PartStep
  <2>3. part = "updates" /\ UpdateTypeOK => PartsTypeOK
    BY DEF PartsTypeOK
  <2> QED
    BY <2>1, <2>2, <2>3, UpdateTypeCorrect, PTL DEF PartsSpec, UpdateSpec
<1>11. PartsSpec /\ part = "status" => []PartsTypeOK
  <2>1. PartsInit /\ part = "status" => StatusInit
    BY PartStarts
  <2>2. part = "status" /\ [PartsNext]_partVars => (part = "status")' /\ [StatusNext]_statusVars
    BY PartStep
  <2>3. part = "status" /\ StatusTypeOK => PartsTypeOK
    BY DEF PartsTypeOK
  <2> QED
    BY <2>1, <2>2, <2>3, StatusTypeCorrect, PTL DEF PartsSpec, StatusSpec
<1> QED
  BY <1>1, <1>2, <1>3, <1>4, <1>5, <1>6, <1>7, <1>8, <1>9, <1>10, <1>11, PTL DEF PartsSpec

=============================================================================
