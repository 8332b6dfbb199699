-------------------------------- MODULE Backup --------------------------------
(***************************************************************************)
(* Export and Import of the whole database and the output files            *)
(* (Config.icpp), beside the handlers that write rows of RESULT and output *)
(* files: SubmitWork (Api.icpp), Remove and RemoveClient (Web.icpp), Clean *)
(* and Delete, which deletes a branch (Api.icpp).                          *)
(*                                                                         *)
(* A handler has the write lock of the SQLite database from CheckAuth to   *)
(* its end, as in WorkApi.  Import commits after CheckAuth and so gives    *)
(* the lock away until it drops the tables.  Meanwhile it deletes and      *)
(* writes the output files, and other handlers read and write them.        *)
(*                                                                         *)
(* The rows are those of RESULT: numbers, times and names.  Of strings     *)
(* with backslashes or control characters, as other tables have them,      *)
(* SqlEscape makes others, which SQLite does not turn back.  A row is      *)
(* known by the submission its counts come from: AcceptWork, which sets    *)
(* status and times, leaves it what it was.                                *)
(***************************************************************************)
EXTENDS FiniteSets

CONSTANTS
    Results,      \* commit and client of a result
    Submissions,  \* what a row and its output file may come from
    Nothing       \* no row, or one without a submission; no file; no archive

AnyContent == [Results -> Submissions \cup {Nothing}]
Archives == [rows : AnyContent, files : AnyContent, torn : SUBSET Results]
Uploads == [content : Archives, whole : BOOLEAN]

ASSUME NothingAssumption ==
    \A x \in Submissions \cup Results \cup Archives \cup Uploads : x # Nothing

VARIABLES
    rows,     \* RESULT
    files,    \* the output file of each result
    lock,     \* the handler that has the write lock, or "free"
    handler,  \* the SubmitWork, Remove or RemoveClient request under way, see Handlers
    archive,  \* the last archive Export made; torn: history, see below
    toRead,   \* the results whose files Export has not read yet
    import,   \* where Import is, or "no"
    upload,   \* the archive it was given; whole: it has not been found cut off
    toWrite,  \* the results whose files Import has not written yet
    torn,     \* history: results with a row whose file a handler touched before it was aborted
    during    \* history: results submitted or removed since Import gave the lock away

backupVars ==
    <<rows, files, lock, handler, archive, toRead, import, upload, toWrite, torn, during>>

NoContent == [r \in Results |-> Nothing]

\* A request under way: the results whose rows and files it writes, the submission they are of
\* (Nothing: they are deleted), the files it has still to delete.  alone: history, it is a
\* submission, and Import was not at the files meanwhile.
Handlers ==
    [results : SUBSET Results, by : Submissions \cup {Nothing}, todo : SUBSET Results,
     alone : BOOLEAN]
NoHandler == [results |-> {}, by |-> Nothing, todo |-> {}, alone |-> FALSE]

----------------------------------------------------------------------------
(* Faulty variants of operators defined below, kept to show that the        *)
(* properties notice such a fault.                                          *)

FreeAlways(h) == lock # h

NothingDeleted == files

----------------------------------------------------------------------------

\* CheckAuth of the handler h waits for the write lock.
Free(h) == lock = "free"

\* History: the results R, where they have a row.
Torn(R) == torn' = {r \in R : rows'[r] # Nothing}

\* CheckAuth of the handler h, which writes or deletes files of R.
Begins(h, R) ==
    /\ handler = NoHandler /\ Free("handler")
    /\ handler' = h /\ lock' = "handler"
    /\ during' = IF import = "no" THEN {} ELSE during \cup R
    /\ UNCHANGED <<rows, archive, toRead, import, upload, toWrite, torn>>

\* SubmitWork up to SaveFile, which comes before the row.
SubmitBegins ==
    \E r \in Results, s \in Submissions :
        /\ Begins([results |-> {r}, by |-> s, todo |-> {}, alone |-> import # "files"], {r})
        /\ files' = [files EXCEPT ![r] = s]

\* Remove of a result, RemoveClient of all those of a client: Result::Delete deletes the rows.
RemoveBegins ==
    \E R \in (SUBSET Results) \ {{}} :
        /\ Begins([results |-> R, by |-> Nothing, todo |-> R, alone |-> FALSE], R)
        /\ UNCHANGED files

\* Then it deletes the files, one by one.
RemoveFile ==
    /\ \E r \in handler.todo :
          /\ files' = [files EXCEPT ![r] = Nothing]
          /\ handler' = [handler EXCEPT !.todo = @ \ {r}]
    /\ UNCHANGED <<rows, lock, archive, toRead, import, upload, toWrite, torn, during>>

\* The request commits, or is aborted: then the database rolls back, the files do not.
HandlerEnds ==
    /\ handler # NoHandler
    /\ \/ /\ handler.todo = {}
          /\ rows' = [r \in Results |-> IF r \in handler.results THEN handler.by ELSE rows[r]]
          /\ Torn(IF handler.alone THEN torn \ handler.results ELSE torn \cup handler.results)
       \/ UNCHANGED rows /\ Torn(torn \cup (handler.results \ handler.todo))
    /\ handler' = NoHandler /\ lock' = "free"
    /\ UNCHANGED <<files, archive, toRead, import, upload, toWrite, during>>

\* CleanResults of Clean, and Branch::Delete: rows are deleted, their files stay.
RowsDeleted ==
    /\ Free("handler")
    /\ \E R \in (SUBSET Results) \ {{}} :
          /\ rows' = [r \in Results |-> IF r \in R THEN Nothing ELSE rows[r]]
          /\ Torn(torn)
    /\ UNCHANGED <<files, lock, handler, archive, toRead, import, upload, toWrite, during>>

----------------------------------------------------------------------------

\* Export reads the tables.
ExportTables ==
    /\ Free("export")
    /\ archive' = [rows |-> rows, files |-> NoContent, torn |-> {}]
    /\ toRead' = Results
    /\ lock' = "export"
    /\ UNCHANGED <<rows, files, handler, import, upload, toWrite, torn, during>>

\* It reads the output files, one by one.
ExportFile ==
    /\ lock = "export"
    /\ \E r \in toRead :
          /\ archive' = [archive EXCEPT !.files[r] = files[r]]
          /\ toRead' = toRead \ {r}
    /\ UNCHANGED <<rows, files, lock, handler, import, upload, toWrite, torn, during>>

ExportSent ==
    /\ lock = "export" /\ toRead = {}
    /\ archive' = [archive EXCEPT !.torn = torn]
    /\ lock' = "free"
    /\ UNCHANGED <<rows, files, handler, toRead, import, upload, toWrite, torn, during>>

----------------------------------------------------------------------------

\* Import passes CheckAuth and commits.
Import ==
    /\ import = "no" /\ Free("import")
    /\ archive # Nothing
    /\ upload' = [content |-> archive, whole |-> TRUE]
    /\ import' = "begun"
    /\ UNCHANGED <<rows, files, lock, handler, archive, toRead, toWrite, torn, during>>

\* History: the files of a request under way may be deleted or overwritten.
Disturb == handler' = [handler EXCEPT !.alone = FALSE]

\* DeleteFolderDeep: what is left of the output files.
DeleteFolderDeep == NoContent

ImportDeletes ==
    /\ import = "begun"
    /\ files' = DeleteFolderDeep
    /\ toWrite' = {r \in Results : upload.content.files[r] # Nothing}
    /\ import' = "files"
    /\ Disturb
    /\ UNCHANGED rows /\ Torn(Results)
    /\ UNCHANGED <<lock, archive, toRead, upload, during>>

\* SaveFile of one output file of the archive.
ImportFile ==
    /\ import = "files"
    /\ \E r \in toWrite :
          /\ files' = [files EXCEPT ![r] = upload.content.files[r]]
          /\ toWrite' = toWrite \ {r}
    /\ Disturb
    /\ UNCHANGED <<rows, lock, archive, toRead, import, upload, torn, during>>

\* DROPSCHEMA takes the lock again.  The archive may have been cut off on its way, before its
\* last file or later.
ImportDrops ==
    /\ import = "files" /\ Free("import")
    /\ \E whole \in {w \in BOOLEAN : w => toWrite = {}} : upload' = [upload EXCEPT !.whole = whole]
    /\ import' = "tables" /\ lock' = "import" /\ toWrite' = {}
    /\ UNCHANGED <<rows, files, handler, archive, toRead, torn, during>>

\* SCHEMA, the data, ATTRIBUTES, CONFIG and the commit.  The data may have ended early too:
\* the answer is the same.
ImportCommit ==
    /\ import = "tables"
    /\ \E loaded \in SUBSET Results :
          /\ upload.whole => loaded = Results
          /\ rows' = [r \in Results |-> IF r \in loaded THEN upload.content.rows[r] ELSE Nothing]
    /\ Torn(IF upload.whole THEN during \cup upload.content.torn ELSE Results)
    /\ import' = "no" /\ upload' = Nothing /\ during' = {}
    /\ lock' = "free"
    /\ UNCHANGED <<files, handler, archive, toRead, toWrite>>

\* Import ends early: the database rolls back, the files do not.
ImportAborted ==
    /\ import \in {"begun", "files", "tables"}
    /\ lock' = IF lock = "import" THEN "free" ELSE lock
    /\ import' = "no" /\ upload' = Nothing /\ toWrite' = {} /\ during' = {}
    /\ UNCHANGED <<rows, files, handler, archive, toRead, torn>>

BackupInit ==
    /\ rows = NoContent /\ files = NoContent
    /\ lock = "free" /\ handler = NoHandler
    /\ archive = Nothing /\ toRead = {}
    /\ import = "no" /\ upload = Nothing /\ toWrite = {}
    /\ torn = {} /\ during = {}

BackupNext ==
    \/ SubmitBegins \/ RemoveBegins \/ RemoveFile \/ HandlerEnds \/ RowsDeleted
    \/ ExportTables \/ ExportFile \/ ExportSent
    \/ Import \/ ImportDeletes \/ ImportFile \/ ImportDrops \/ ImportCommit \/ ImportAborted

BackupSpec == BackupInit /\ [][BackupNext]_backupVars

----------------------------------------------------------------------------
(* Properties.                                                              *)

\* Every variable has its type.
BackupTypeOK ==
    /\ rows \in AnyContent /\ files \in AnyContent
    /\ lock \in {"free", "handler", "export", "import"}
    /\ handler \in Handlers
    /\ archive # Nothing => archive \in Archives
    /\ import \in {"no", "begun", "files", "tables"}
    /\ upload # Nothing => upload \in Uploads
    /\ toRead \subseteq Results /\ toWrite \subseteq Results
    /\ torn \subseteq Results /\ during \subseteq Results

\* An archive is a snapshot: with the row of every submission it has the output of that
\* submission, whatever is submitted, removed, cleaned or deleted while the archive is made.
\* Output without a row is left in it by CleanResults and Branch::Delete, which leave the files.
\* Only where a handler was aborted half-way, or while Import rewrote the files, may a row have
\* another output, or none.
ArchiveMatches ==
    archive # Nothing /\ lock # "export" =>
        \A r \in Results \ archive.torn : archive.rows[r] \in {archive.files[r], Nothing}

\* When Import of a whole archive is answered, what the archive holds is there again: every
\* row, and every file, unless it was submitted or removed since Import gave the lock away.
\* Nothing else is left, although the files were not locked and the rows were when Import
\* began to delete and write the files.
ImportRestores ==
    [][ImportCommit /\ upload.whole =>
          \A r \in Results :
              /\ rows'[r] = upload.content.rows[r]
              /\ r \notin during => files'[r] = upload.content.files[r]]_backupVars

=============================================================================
