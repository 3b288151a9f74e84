------------------------------ MODULE Extract ------------------------------
(***************************************************************************)
(* CrawlService._extract of app/service.py, one extraction from robots.txt *)
(* to the answer, with what runs in the workers: prepare_document and      *)
(* anonymize_document (app/worker_tasks.py), the routing of auto mode      *)
(* (app/preflight.py) and the choice of a converter (app/converter.py,     *)
(* app/html_converter.py).  Pages, converters and fetches do what they     *)
(* like; any await may end in an error, which ends the extraction.         *)
(*                                                                         *)
(* Of a text only its look is kept: nothing, a bot challenge that a        *)
(* browser may pass, a wall that it may not, little or plenty.             *)
(***************************************************************************)
EXTENDS Naturals, Sequences

CONSTANTS ExtractOptions,  \* the options of the requests
          Statuses         \* the statuses pages are answered with, 0 for unknown

ASSUME ExtractAssumption ==
    /\ ExtractOptions \subseteq
         [mode : {"fast", "auto", "js"}, robots : BOOLEAN, anonymize : BOOLEAN,
          extras : BOOLEAN, screenshot : BOOLEAN, policy : {"skip", "metadata", "full"},
          converter : {"trafilatura", "markitdown", "bs4"}]
    /\ Statuses \subseteq Nat

VARIABLES
    options,
    stale,      \* a stale result with its validators is at hand
    extractAt,  \* the await the extraction stands at
    doc,        \* fetched
    converted,  \* converted, with the links and metadata beside it
    proposed,   \* use_browser
    renders,    \* how often the browser was asked
    response    \* the answer with its validators, or how it failed

extractVars == <<options, stale, extractAt, doc, converted, proposed, renders, response>>

Looks == {"none", "challenge", "wall", "thin", "plenty"}
(* "untyped" is HTML by its first bytes, not by its content type.           *)
Kinds == {"nothing", "html", "untyped", "media", "text", "office", "binary"}
Converters == {"trafilatura", "markitdown", "bs4", "text", "ffprobe"}
NoDoc == [engine |-> "none"]
Documents == [engine : {"http", "selenium"}, status : Statuses, kind : Kinds, truncated : BOOLEAN,
              settled : BOOLEAN, scripted : BOOLEAN, shot : BOOLEAN, validators : BOOLEAN]
NotConverted == [status |-> "none"]
Conversions == [status : {"ok", "empty", "unsupported", "skipped", "failed"}, look : Looks,
                by : Converters \cup {"none"}, extras : BOOLEAN]
NoResponse == [ends |-> "none"]
Failed == [ends |-> "error"]
Revalidated == [ends |-> "revalidated"]

ExtractInit ==
    /\ options \in ExtractOptions
    /\ stale \in BOOLEAN
    /\ extractAt = IF options.robots THEN "robots" ELSE "fetch"
    /\ doc = NoDoc /\ converted = NotConverted /\ proposed = FALSE
    /\ renders = 0 /\ response = NoResponse

Ok(status) == status \in 200..299
ExtractionEnds(r) ==
    /\ extractAt' = "ended" /\ response' = r
    /\ UNCHANGED <<options, stale, doc, converted, proposed, renders>>

-----------------------------------------------------------------------------
RobotsAnswer ==
    /\ extractAt = "robots"
    /\ \/ /\ extractAt' = "fetch"
          /\ UNCHANGED <<options, stale, doc, converted, proposed, renders, response>>
       \/ ExtractionEnds(Failed)

(* An HTTP fetch is never unsettled and takes no screenshot; a browser      *)
(* gives HTML or nothing and may give up waiting.                           *)
HttpDocuments ==
    {d \in Documents : /\ d.engine = "http" /\ d.status # 0 /\ d.settled /\ ~d.shot
                       /\ d.status \in {204, 304} => d.kind = "nothing" /\ ~d.truncated}
BrowserDocuments ==
    {d \in Documents : /\ d.engine = "selenium" /\ ~d.validators
                       /\ d.kind \in {"html", "untyped", "nothing"}
                       /\ d.shot => options.screenshot /\ ~options.anonymize}

Unchanged(d) == stale /\ d.status = 304

Fetched ==
    /\ extractAt = "fetch"
    /\ \E d \in (IF options.mode = "js" THEN BrowserDocuments ELSE HttpDocuments) :
         IF options.mode # "js" /\ Unchanged(d) THEN ExtractionEnds(Revalidated)
         ELSE /\ extractAt' = "convert" /\ doc' = d
              /\ renders' = renders + (IF options.mode = "js" THEN 1 ELSE 0)
              /\ UNCHANGED <<options, stale, converted, proposed, response>>

-----------------------------------------------------------------------------
(* convert_html: the converters take turns until one finds text.            *)
Candidates(first) ==
    CASE first = "trafilatura" -> <<"trafilatura", "markitdown", "bs4">>
      [] first = "markitdown" -> <<"markitdown", "bs4">>
      [] first = "bs4" -> <<"bs4">>

TextFound(look, by) ==
    [status |-> IF look = "none" THEN "empty" ELSE "ok", look |-> look,
     by |-> by, extras |-> FALSE]
NoText(status) == [status |-> status, look |-> "none", by |-> "none", extras |-> FALSE]

(* Whichever candidate is the first to find text, or none; a page without   *)
(* any ends before.  (An embedded payload starts further down the list.)    *)
HtmlConversions ==
    {NoText("empty"), NoText("failed")}
        \cup {TextFound(look, Candidates(options.converter)[i]) :
                look \in Looks \ {"none"}, i \in 1..Len(Candidates(options.converter))}

(* convert_document: what a document can be converted to.                   *)
ConversionsOf(d) ==
    CASE d.kind = "nothing" -> {NoText("empty")}
      [] d.kind \in {"html", "untyped"} -> HtmlConversions
      [] d.kind = "media" ->
           IF options.policy = "skip" THEN {NoText("skipped")}
           ELSE IF options.policy = "metadata" THEN {TextFound("plenty", "ffprobe"), NoText("failed")}
           ELSE {NoText("unsupported")}
      [] d.kind = "text" -> {TextFound(look, "text") : look \in Looks}
      [] d.kind = "office" ->
           {TextFound(look, "markitdown") : look \in Looks} \cup {NoText("failed")}
      [] d.kind = "binary" -> {NoText("unsupported")}

(* needs_browser: a thin page of a site that may let a browser in.          *)
NeedsBrowser(d, c) ==
    /\ ~d.truncated /\ d.status # 0 /\ d.kind = "html"
    /\ Ok(d.status) \/ c.look = "challenge"
    /\ ~(c.status = "ok" /\ c.look = "plenty")
    /\ d.scripted

WithExtras(d, c) ==
    [c EXCEPT !.extras = ~options.anonymize /\ d.kind = "html" /\ options.extras]

Prepared ==
    /\ extractAt = "convert"
    /\ \E c \in ConversionsOf(doc) :
         /\ converted' = WithExtras(doc, c)
         /\ proposed' = (options.mode = "auto" /\ NeedsBrowser(doc, c))
         /\ extractAt' = IF renders = 0 /\ proposed' THEN "render"
                         ELSE IF options.anonymize THEN "anonymize" ELSE "answer"
    /\ UNCHANGED <<options, stale, doc, renders, response>>

Rendered ==
    /\ extractAt = "render"
    /\ \E d \in BrowserDocuments : doc' = d
    /\ extractAt' = "convert" /\ renders' = renders + 1
    /\ UNCHANGED <<options, stale, converted, proposed, response>>

-----------------------------------------------------------------------------
(* anonymize_document rewrites the text and hides all that names persons.   *)
HideOnlyText ==
    /\ UNCHANGED <<converted, doc>>
Hide ==
    /\ converted' = [converted EXCEPT !.extras = FALSE]
    /\ doc' = [doc EXCEPT !.shot = FALSE]

Anonymized ==
    /\ extractAt = "anonymize"
    /\ Hide
    /\ extractAt' = "answer"
    /\ UNCHANGED <<options, stale, proposed, renders, response>>

Blocked == doc.status >= 400 \/ converted.look \in {"challenge", "wall"}

SuccessUnlessBlocked ==
    converted.status = "ok" /\ ~Blocked /\ doc.settled /\ Ok(doc.status)
Success ==
    /\ converted.status = "ok" /\ converted.look # "none"
    /\ ~Blocked /\ ~doc.truncated /\ doc.settled
    /\ doc.status # 0 /\ Ok(doc.status)

RenderedToo == doc.validators
FromHttp == doc.engine = "http" /\ doc.validators

(* failure_reason reads the answer alone.                                   *)
FailureReason(r) ==
    IF r.status = 0 THEN "status unknown"
    ELSE IF ~Ok(r.status) THEN "status"
    ELSE IF r.extraction # "ok" THEN "extraction"
    ELSE IF r.truncated THEN "truncated" ELSE "incomplete"

AnswerGiven ==
    /\ extractAt = "answer"
    /\ ExtractionEnds([ends |-> "answer", success |-> Success, engine |-> doc.engine, status |-> doc.status,
             extraction |-> IF Blocked THEN "blocked" ELSE converted.status,
             truncated |-> doc.truncated, converter |-> converted.by,
             extras |-> converted.extras, shot |-> doc.shot, validators |-> FromHttp])

(* Any await may fail: a fetch, a worker, the deadline.                     *)
AwaitFails == extractAt \in {"fetch", "convert", "render", "anonymize"} /\ ExtractionEnds(Failed)

ExtractNext ==
    \/ RobotsAnswer \/ Fetched \/ Prepared \/ Rendered \/ Anonymized \/ AnswerGiven \/ AwaitFails

ExtractSpec == ExtractInit /\ [][ExtractNext]_extractVars

-----------------------------------------------------------------------------
ExtractTypeOK ==
    /\ options \in ExtractOptions /\ stale \in BOOLEAN /\ proposed \in BOOLEAN
    /\ extractAt \in {"robots", "fetch", "convert", "render", "anonymize", "answer", "ended"}
    /\ doc \in Documents \cup {NoDoc}
    /\ converted \in Conversions \cup {NotConverted}
    /\ renders \in 0..1

(* success and failure_reason, two copies of one rule, agree: a success     *)
(* leaves no reason to report, and the reason of a failure is true of the   *)
(* page, whichever way it was fetched, rendered and converted.              *)
ReasonsAgree ==
    response.ends = "answer" =>
        IF response.success THEN FailureReason(response) = "incomplete"
        ELSE FailureReason(response) = "incomplete" => ~doc.settled

(* What leaves the service is what may leave: an anonymized answer carries  *)
(* text only, a rendered page is never revalidated later, fast mode never   *)
(* renders, and nothing is rendered twice.                                  *)
AnswerWithinOptions ==
    /\ response.ends = "answer" =>
         /\ options.anonymize => ~response.extras /\ ~response.shot
         /\ response.shot => options.screenshot
         /\ response.validators => renders = 0
         /\ response.engine = "selenium" <=> renders = 1
    /\ options.mode = "fast" => renders = 0
    /\ response = Revalidated => options.mode # "js" /\ stale /\ renders = 0

ExtractHonest == ReasonsAgree /\ AnswerWithinOptions
=============================================================================
