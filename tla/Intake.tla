------------------------------- MODULE Intake -------------------------------
(***************************************************************************)
(* Uploads of the workbench: the bytes are kept once, under the hash of    *)
(* their content (store.py), what they say is extracted by the kind that   *)
(* their name tells (extractors.py), and the user takes the extracted rows *)
(* over into the reviewed fills (workbench/server.py).  One upload runs at *)
(* a time; the other requests write beside it, and the process may be      *)
(* killed.  A record or line is the set of what is found in it, and lines  *)
(* that need OCR are as the OCR reads them.  A document may go on where    *)
(* its reader stops: a workbook after its first sheet, a JSON file after   *)
(* its first list, a PDF after the pages that have text of their own.      *)
(***************************************************************************)
EXTENDS Integers, Sequences, FiniteSets, FiniteSetsExt

CONSTANTS Name,     \* file names
          KindOf,   \* the kind that the suffix of a name tells, or "unknown"
          Content,  \* what is uploaded
          MaxUploads, MaxStops \* bounds: uploads, kills

SourceKind == {"table", "json", "pdf", "image"} \* csv, xls and xlsx are tables
Dates == {"day1", "day2"}
Field == Dates \cup {"symbol", "side", "price", "quantity", "hint", "huge"}

Dated(fields) == fields \cap Dates # {}
Traded(fields) == Dated(fields) /\ {"symbol", "side"} \subseteq fields

\* A line that has a date or a symbol, but not both.
Half(fields) == Dated(fields) # ("symbol" \in fields)

\* first: how many lines are on the first sheet, in the first list or on pages with a text
\* layer; those of other sheets, lists and scanned pages come after them.  wrapped: the
\* lines at which a trade begins that the document breaks after its date or its symbol.
\* A text has no number of more than nine digits.
ASSUME IntakeAssumption ==
    /\ KindOf \in [Name -> SourceKind \cup {"unknown"}]
    /\ \A c \in Content :
        /\ c.format \in SourceKind /\ c.lines \in Seq(SUBSET Field) /\ c.first \in 0 .. Len(c.lines)
        /\ \A i \in c.wrapped : /\ i \in 1 .. Len(c.lines) - 1
                                /\ Half(c.lines[i]) /\ Traded(c.lines[i] \cup c.lines[i + 1])
        /\ c.format \in {"table", "json"} => c.wrapped = {}
        /\ c.format \notin {"table", "json"} => \A i \in DOMAIN c.lines : "huge" \notin c.lines[i]
    /\ MaxUploads \in Nat /\ MaxStops \in Nat

-----------------------------------------------------------------------------
(* The extraction.                                                         *)

\* The kinds a file may be taken for: where its name tells none, the media type of the
\* request does, and after it the first bytes.
detect_source_kind(content, name) ==
    IF KindOf[name] # "unknown" THEN {KindOf[name]}
    ELSE CASE content.format = "pdf"  -> {"pdf"}
           [] content.format = "json" -> SourceKind
           [] OTHER -> SourceKind \cup {"unknown"}

Header(lines) ==
    LET hinted == {i \in DOMAIN lines : i <= 25 /\ "hint" \in lines[i]}
    IN  IF hinted = {} THEN 1 ELSE Min(hinted)

\* The records from this one on that name a day, a symbol or a side.
_candidate_from_mapping(lines, first) ==
    {i \in DOMAIN lines : i >= first /\ lines[i] \cap (Dates \cup {"symbol", "side"}) # {}}

Joins(lines, i) == i < Len(lines) /\ Half(lines[i])

\* The digits of a second day are taken for numbers.
Window(lines, i) ==
    IF ~Joins(lines, i) THEN lines[i]
    ELSE LET both == lines[i] \cup lines[i + 1]
         IN  IF Dates \subseteq both THEN both \cup {"price", "quantity"} ELSE both

parse_table_text(lines) == {i \in DOMAIN lines : Traded(Window(lines, i))}

Found(indexes) == [status |-> IF indexes = {} THEN "empty" ELSE "ok", lines |-> indexes]
Nought(status) == [status |-> status, lines |-> {}]

_parse_table_rows(lines) == _candidate_from_mapping(lines, Header(lines) + 1)

\* What there is up to where the reader stops.
First(content) == SubSeq(content.lines, 1, content.first)

\* What is no table, or no JSON, has no rows for these readers; of a workbook there is the
\* first sheet only, of a JSON file the first list.
extract_table(content) == Found(IF content.format = "table" THEN _parse_table_rows(First(content)) ELSE {})
extract_json(content) == Found(IF content.format = "json" THEN _candidate_from_mapping(First(content), 1) ELSE {})

\* Which of the optional engines is there may change from one extraction to the next.  A
\* text layer stands for the whole; without one, or without pypdf, every page is scanned.
extract_pdf(content) ==
    {Nought("engine_missing")} \cup
    (IF content.format = "pdf" THEN {Found(parse_table_text(content.lines))} ELSE {}) \cup
    (IF content.format = "pdf" /\ content.first > 0 THEN {Found(parse_table_text(First(content)))} ELSE {})
extract_image(content) ==
    {Nought("engine_missing")} \cup
    IF content.format = "image" THEN {Found(parse_table_text(content.lines))} ELSE {}

\* What an extraction may give.
extract(content, kind) ==
    CASE kind = "table" -> {extract_table(content)}
      [] kind = "json"  -> {extract_json(content)}
      [] kind = "pdf"   -> extract_pdf(content)
      [] kind = "image" -> extract_image(content)
      [] OTHER          -> {Nought("unsupported")}

\* What a candidate row has of the record or the line it was made of.
RowFields(content, i) ==
    IF content.format \in {"table", "json"} THEN content.lines[i] ELSE Window(content.lines, i)

_validate_fill(fields) == Traded(fields) /\ {"price", "quantity"} \subseteq fields

\* A quantity that SQLite cannot hold raises: the rows before it are inserted.
Refused(content, indexes) == {i \in indexes : "huge" \in content.lines[i]}
Inserted(content, indexes) == {i \in indexes : \A j \in Refused(content, indexes) : i < j}

-----------------------------------------------------------------------------
VARIABLES documents,   \* source_document
          on_disk,     \* documents_dir: of each name, what was written there
          extractions, \* extraction_run and candidate_fill, as the connection sees them
          committed_runs, \* how many of them the last commit has
          imported,    \* extractions whose rows were taken over as they are
          uploading,   \* the upload in progress
          uploads, stops,
          cut          \* files whose writing was cut off

intakeVars == <<documents, on_disk, extractions, committed_runs, imported, uploading, uploads, stops, cut>>

NoJob == [at |-> "none"]

IntakeInit ==
    /\ documents = << >> /\ extractions = << >> /\ committed_runs = 0 /\ imported = {}
    /\ on_disk = << >> /\ cut = {}
    /\ uploading = NoJob /\ uploads = 0 /\ stops = 0

\* As stored_name, but by its own name only.
stored_name_plain(content, name) == <<name>>

\* The file is named by the first digits of the hash and by its own name.
stored_name(content, name) == <<content, name>>

\* Bytes that are there already keep their document, which learns its kind once.
upload ==
    /\ uploading = NoJob /\ uploads < MaxUploads
    /\ uploads' = uploads + 1
    /\ \E content \in Content, name \in Name : \E kind \in detect_source_kind(content, name) :
        \/ \E d \in DOMAIN documents :
            /\ documents[d].content = content
            /\ IF documents[d].kind = "unknown" /\ kind # "unknown"
               THEN /\ documents' = [documents EXCEPT ![d].kind = kind]
                    /\ committed_runs' = Len(extractions)
               ELSE UNCHANGED <<documents, committed_runs>>
            /\ uploading' = [at |-> "extract", document |-> d]
        \/ /\ \A d \in DOMAIN documents : documents[d].content # content
           /\ uploading' = [at |-> "file", content |-> content, name |-> name, kind |-> kind]
           /\ UNCHANGED <<documents, committed_runs>>
    /\ UNCHANGED <<on_disk, extractions, imported, stops, cut>>

Write(file, what) ==
    on_disk' = [f \in DOMAIN on_disk \cup {file} |-> IF f = file THEN what ELSE on_disk[f]]

write_bytes ==
    /\ uploading.at = "file"
    /\ LET file == stored_name(uploading.content, uploading.name)
       IN  IF file \in DOMAIN on_disk THEN UNCHANGED on_disk
           ELSE Write(file, [of |-> uploading.content, whole |-> TRUE])
    /\ uploading' = [uploading EXCEPT !.at = "insert"]
    /\ UNCHANGED <<documents, extractions, committed_runs, imported, uploads, stops, cut>>

add_document ==
    /\ uploading.at = "insert"
    /\ documents' = Append(documents, [content |-> uploading.content, name |-> uploading.name, kind |-> uploading.kind])
    /\ committed_runs' = Len(extractions)
    /\ uploading' = [at |-> "extract", document |-> Len(documents) + 1]
    /\ UNCHANGED <<on_disk, extractions, imported, uploads, stops, cut>>

record_extraction ==
    /\ uploading.at = "extract"
    /\ LET document == documents[uploading.document]
       IN  \E found \in extract(document.content, document.kind) :
            /\ extractions' = Append(extractions,
                  [document |-> uploading.document, status |-> found.status,
                   row_count |-> Cardinality(found.lines),
                   candidates |-> Inserted(document.content, found.lines)])
            /\ committed_runs' = IF Refused(document.content, found.lines) = {} THEN Len(extractions') ELSE committed_runs
    /\ uploading' = NoJob
    /\ UNCHANGED <<documents, on_disk, imported, uploads, stops, cut>>

\* A reader raises at a PDF or an image it cannot read, and at a quantity that is not finite.
ExtractionRaises ==
    /\ uploading.at = "extract" /\ documents[uploading.document].kind # "unknown"
    /\ uploading' = NoJob
    /\ UNCHANGED <<documents, on_disk, extractions, committed_runs, imported, uploads, stops, cut>>

\* Any write of the store commits what its connection holds; add_document has its lock.
StoreWrites ==
    /\ uploading.at \in {"none", "extract"} /\ committed_runs # Len(extractions)
    /\ committed_runs' = Len(extractions)
    /\ UNCHANGED <<documents, on_disk, extractions, imported, uploading, uploads, stops, cut>>

\* The rows of an extraction are taken over all together, or rejected.
commit_import(x) ==
    /\ uploading.at \in {"none", "extract"} /\ x \notin imported
    /\ \A i \in extractions[x].candidates :
           _validate_fill(RowFields(documents[extractions[x].document].content, i))
    /\ imported' = imported \cup {x}
    /\ committed_runs' = Len(extractions)
    /\ UNCHANGED <<documents, on_disk, extractions, uploading, uploads, stops, cut>>

\* The process is killed, and started again: what was not committed_runs is gone.
Killed ==
    /\ stops < MaxStops
    /\ \/ UNCHANGED <<on_disk, cut>>
       \/ /\ uploading.at = "file"
          /\ LET file == stored_name(uploading.content, uploading.name)
             IN  /\ file \notin DOMAIN on_disk
                 /\ Write(file, [of |-> uploading.content, whole |-> FALSE])
                 /\ cut' = cut \cup {file}
    /\ extractions' = SubSeq(extractions, 1, committed_runs)
    /\ uploading' = NoJob /\ stops' = stops + 1
    /\ UNCHANGED <<documents, committed_runs, imported, uploads>>

IntakeNext ==
    \/ upload \/ write_bytes \/ add_document \/ record_extraction \/ ExtractionRaises
    \/ StoreWrites \/ Killed
    \/ \E x \in DOMAIN extractions : commit_import(x)

IntakeSpec == IntakeInit /\ [][IntakeNext]_intakeVars

-----------------------------------------------------------------------------
SourceDocument == [content : Content, name : Name, kind : SourceKind \cup {"unknown"}]

\* Shape of the state: what an upload has at hand is what it needs next.
IntakeTypeOK ==
    /\ documents \in Seq(SourceDocument)
    /\ committed_runs \in 0 .. Len(extractions)
    /\ \A x \in DOMAIN extractions : extractions[x].document \in DOMAIN documents
    /\ imported \subseteq 1 .. committed_runs
    /\ cut \subseteq DOMAIN on_disk
    /\ uploads \in 0 .. MaxUploads /\ stops \in 0 .. MaxStops
    /\ uploading.at \in {"none", "file", "insert", "extract"}
    /\ uploading.at = "extract" => uploading.document \in DOMAIN documents
    /\ uploading.at \in {"file", "insert"} =>
        /\ uploading.content \in Content /\ uploading.name \in Name /\ uploading.kind \in SourceKind \cup {"unknown"}
        /\ \A d \in DOMAIN documents : documents[d].content # uploading.content

\* The trades that a document has.
TradesOf(content) ==
    CASE content.format = "table" -> {i \in DOMAIN content.lines : i > Header(First(content)) /\ Traded(content.lines[i])}
      [] OTHER -> {i \in DOMAIN content.lines : Traded(content.lines[i])} \cup content.wrapped

\* Those on another sheet, in another list, or on a scanned page, be it in part, of a PDF
\* that has text: nothing says that they were not read.
Beyond(content) ==
    {i \in TradesOf(content) : /\ i > content.first \/ (i = content.first /\ i \in content.wrapped)
                               /\ content.format = "pdf" => content.first > 0
                               /\ content.format # "image"}

\* An extraction of this document.
TellsTheDocument(run, content, kind) ==
    LET complete == run.row_count = Cardinality(run.candidates)
        missing == TradesOf(content) \ (run.candidates \cup Beyond(content))
    IN  /\ run.status = "ok" => /\ complete => missing = {}
                                /\ \A i \in missing : \E j \in 1 .. i : "huge" \in content.lines[j]
        /\ run.status # "ok" => run.candidates = {}
        /\ kind = "unknown" => run.status = "unsupported"
        /\ \A i \in run.candidates \ TradesOf(content) :
               ~Traded(content.lines[i]) /\ (content.format \notin {"table", "json"} => Half(content.lines[i]))

FileKept(document) ==
    LET file == stored_name(document.content, document.name)
    IN  /\ file \in DOMAIN on_disk /\ on_disk[file].of = document.content
        /\ on_disk[file].whole \/ file \in cut

CanBeImported(run) ==
    \A i \in run.candidates : _validate_fill(RowFields(documents[run.document].content, i))

OneDocumentEach == \A d, e \in DOMAIN documents : documents[d].content = documents[e].content => d = e

FilesKept == \A d \in DOMAIN documents : FileKept(documents[d])

ExtractionsTell ==
    \A x \in DOMAIN extractions :
        LET document == documents[extractions[x].document]
        IN  TellsTheDocument(extractions[x], document.content, document.kind)

ImportsLast == \A x \in imported : x <= committed_runs /\ CanBeImported(extractions[x])

\* However uploads, other requests and kills follow one another: the same bytes have one
\* document, with the file of just these bytes, whole unless its writing was cut off; an
\* extraction that ended "ok" has every trade of its first sheet or list, of the text of a
\* PDF that has some, and of every page of one that has none, or it stops before a record
\* that SQLite refuses and says that rows are missing (of further sheets and lists and of
\* scanned pages beside text it has nothing, and does not say so); a row that is no trade
\* comes from an incomplete record or half a line; and what was imported is on the disk,
\* complete.
UploadsAreWhole == OneDocumentEach /\ FilesKept /\ ExtractionsTell /\ ImportsLast
=============================================================================
