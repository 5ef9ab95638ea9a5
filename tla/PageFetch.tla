------------------------------ MODULE PageFetch -------------------------------
(***************************************************************************)
(* src/core/fetch.ts: pages fetched at the same time, each by two          *)
(* pipelines side by side.  The extractor of the first runs in a region of *)
(* ConsoleScope, whose console.error all pages and the rest of the process *)
(* share.                                                                  *)
(*                                                                         *)
(* A step is what runs between two awaits.  A request may fail at any time,*)
(* by its time limit, by the signal of the run or by the network.  What a  *)
(* server answers, and what an extraction makes of it, is a choice; of the *)
(* text only its score matters, by which the variants of a page are        *)
(* compared.                                                               *)
(***************************************************************************)
EXTENDS Integers, Sequences

CONSTANTS Pages,     \* the urls given to fetchPages
          Scores,    \* what scoreContent may come to
          MaxThird,  \* bound: times a third party replaces console.error
          Wrapper, Mute, Nobody,
          None       \* no page: not yet, or no such variant

Variant == [source : {"defuddle", "defuddle-fallback", "markdown"}, score : Scores]

ASSUME PageFetchAssumption ==
  /\ Scores \subseteq Int
  /\ MaxThird \in Nat
  /\ None \notin Variant
  /\ {Wrapper, Mute, Nobody} \cap Pages = {}
  /\ Wrapper # Mute /\ Wrapper # Nobody /\ Mute # Nobody

Console == INSTANCE ConsoleScope WITH Regions <- Pages

VARIABLES
  html,      \* where the HTML pipeline of a page is
  md,        \* where its markdown pipeline is
  htmlPage,  \* what the first came to: a page, or None when it was rejected
  mdPage,    \* what the second came to
  result,    \* what fetchSingle returned
  con,       \* console.error and the regions of the extractor
  logged,    \* history: pages whose extractor logged its error tag
  threw,     \* history: pages whose extractor threw
  hidden,    \* history: a third party kept such a line from the dispatcher
  served,    \* history: the scores of the variants of a page that arrived
  meddled,   \* history: a third party replaced a dispatcher
  thirds     \* times a third party came

pageVars == <<html, md, htmlPage, mdPage, result>>
logVars == <<logged, threw, hidden>>
thirdVars == <<meddled, thirds>>
vars == <<pageVars, con, logVars, served, thirdVars>>

HtmlPlaces == {"idle", "request", "body", "extract", "settled"}
MdPlaces == {"idle", "accept", "acceptBody", "find", "findBody", "alternate", "altBody", "settled"}
Result == [status : {"success"}, source : {"defuddle", "defuddle-fallback", "markdown"}, score : Scores]
            \cup {[status |-> "error"]}

TypeOK ==
  /\ html \in [Pages -> HtmlPlaces]
  /\ md \in [Pages -> MdPlaces]
  /\ htmlPage \in [Pages -> Variant \cup {None}]
  /\ mdPage \in [Pages -> Variant \cup {None}]
  /\ result \in [Pages -> Result \cup {None}]
  /\ con.calls \in Nat /\ con.active \subseteq Pages /\ con.muzzled \subseteq Pages
  /\ logged \subseteq Pages /\ threw \subseteq Pages /\ hidden \subseteq Pages
  /\ served \in [Pages -> SUBSET Scores]
  /\ meddled \in BOOLEAN
  /\ thirds \in 0 .. MaxThird

Init ==
  /\ html = [p \in Pages |-> "idle"]
  /\ md = [p \in Pages |-> "idle"]
  /\ htmlPage = [p \in Pages |-> None]
  /\ mdPage = [p \in Pages |-> None]
  /\ result = [p \in Pages |-> None]
  /\ con = Console!ConsoleInit
  /\ logged = {}
  /\ threw = {}
  /\ hidden = {}
  /\ served = [p \in Pages |-> {}]
  /\ meddled = FALSE
  /\ thirds = 0

-------------------------------------------------------------------------------
(* The two pipelines of a page.                                            *)

(* fetchWithComparison starts both; each sends its first request. *)
Begin(p) ==
  /\ html[p] = "idle"
  /\ html' = [html EXCEPT ![p] = "request"]
  /\ md' = [md EXCEPT ![p] = "accept"]
  /\ UNCHANGED <<htmlPage, mdPage, result, con, logVars, served, thirdVars>>

HtmlGoes(p, place) == html' = [html EXCEPT ![p] = place] /\ UNCHANGED htmlPage

HtmlSettles(p, page) ==
  /\ html' = [html EXCEPT ![p] = "settled"]
  /\ htmlPage' = [htmlPage EXCEPT ![p] = page]

MdGoes(p, place) == md' = [md EXCEPT ![p] = place] /\ UNCHANGED mdPage

MdSettles(p, page) ==
  /\ md' = [md EXCEPT ![p] = "settled"]
  /\ mdPage' = [mdPage EXCEPT ![p] = page]

OnlyHtml == UNCHANGED <<md, mdPage, result, thirdVars>>
OnlyMd == UNCHANGED <<html, htmlPage, result, con, logVars, thirdVars>>

(* Headers arrive.  A status or a content type that is not wanted rejects. *)
HtmlResponse(p) ==
  /\ html[p] = "request"
  /\ HtmlGoes(p, "body") \/ HtmlSettles(p, None)
  /\ OnlyHtml /\ UNCHANGED <<con, logVars, served>>

(* The body is parsed and cleaned, and the extractor starts in its region. *)
HtmlBody(p) ==
  /\ html[p] = "body"
  /\ HtmlGoes(p, "extract")
  /\ con' = Console!Enter(con, p)
  /\ OnlyHtml /\ UNCHANGED <<logVars, served>>

(* The extractor logs an error of its own and goes on. *)
ExtractorLogs(p) ==
  /\ html[p] = "extract" /\ p \notin logged
  /\ con' = Console!Log(con, p)
  /\ logged' = logged \cup {p}
  /\ hidden' = IF thirds = 0 \/ Console!Reached(con) THEN hidden ELSE hidden \cup {p}
  /\ OnlyHtml /\ UNCHANGED <<html, htmlPage, threw, served>>

(* The extractor returns or throws, and the region is left.  A degraded    *)
(* extraction is replaced by the text of the document.                     *)
Extracted(p) ==
  /\ html[p] = "extract"
  /\ \E score \in Scores, throws \in BOOLEAN :
       /\ threw' = IF throws THEN threw \cup {p} ELSE threw
       /\ served' = [served EXCEPT ![p] = @ \cup {score}]
       /\ HtmlSettles(p, [source |-> IF throws \/ p \in con.muzzled
                                     THEN "defuddle-fallback" ELSE "defuddle",
                          score |-> score])
  /\ con' = Console!Leave(con, p)
  /\ OnlyHtml /\ UNCHANGED <<logged, hidden>>

(* The answer to Accept: text/markdown; any other answer, and a request    *)
(* that fails, lead to the search for an alternate link.                   *)
AcceptResponse(p) ==
  /\ md[p] = "accept"
  /\ MdGoes(p, "acceptBody") \/ MdGoes(p, "find")
  /\ OnlyMd /\ UNCHANGED served

(* The body of a markdown answer, the first or the alternate one. *)
MarkdownBody(p) ==
  /\ md[p] \in {"acceptBody", "altBody"}
  /\ \E score \in Scores :
       /\ served' = [served EXCEPT ![p] = @ \cup {score}]
       /\ MdSettles(p, [source |-> "markdown", score |-> score])
  /\ OnlyMd

(* The page as HTML, its body, and the link in it, if there is one. *)
FindResponse(p) ==
  /\ md[p] = "find"
  /\ MdGoes(p, "findBody") \/ MdSettles(p, None)
  /\ OnlyMd /\ UNCHANGED served

FindBody(p) ==
  /\ md[p] = "findBody"
  /\ MdGoes(p, "alternate") \/ MdSettles(p, None)
  /\ OnlyMd /\ UNCHANGED served

AlternateResponse(p) ==
  /\ md[p] = "alternate"
  /\ MdGoes(p, "altBody") \/ MdSettles(p, None)
  /\ OnlyMd /\ UNCHANGED served

(* Mutant: a signal of the caller replaces the time limit. *)
TimeLimitForgotten == FALSE

(* combineSignal: the signal of the run, or the time limit, whichever is    *)
(* first.  Every request has a limit of its own, the body's read included. *)
TimeLimit == TRUE

HtmlFails(p) ==
  /\ html[p] \in {"request", "body"}
  /\ TimeLimit
  /\ HtmlSettles(p, None)
  /\ OnlyHtml /\ UNCHANGED <<con, logVars, served>>

(* A failed first request leads on to the alternate link.  Its body is     *)
(* read outside the catch clause: if that fails the pipeline is rejected.  *)
MdFails(p) ==
  /\ md[p] \notin {"idle", "settled"}
  /\ TimeLimit
  /\ IF md[p] = "accept" THEN MdGoes(p, "find") ELSE MdSettles(p, None)
  /\ OnlyMd /\ UNCHANGED served

(* Mutant: the markdown variant is preferred, whatever its score. *)
PickTruthy(a, b) == IF b # None THEN b ELSE a

(* compareAndPick, which stamps the winner anew: a fallback that wins over *)
(* a markdown variant is called "defuddle".                                *)
Pick(a, b) ==
  CASE a # None /\ b # None /\ b.score > a.score -> [b EXCEPT !.source = "markdown"]
    [] a # None /\ b # None /\ b.score <= a.score -> [a EXCEPT !.source = "defuddle"]
    [] a # None /\ b = None -> a
    [] OTHER -> b

(* fetchSingle: with both pipelines settled the better page is returned,   *)
(* the only one, or an error.                                              *)
FetchSingle(p) ==
  /\ html[p] = "settled" /\ md[p] = "settled" /\ result[p] = None
  /\ LET page == Pick(htmlPage[p], mdPage[p])
     IN  result' = [result EXCEPT ![p] =
           IF page = None THEN [status |-> "error"]
           ELSE [status |-> "success", source |-> page.source, score |-> page.score]]
  /\ UNCHANGED <<html, md, htmlPage, mdPage, con, logVars, served, thirdVars>>

-------------------------------------------------------------------------------
(* Other code of the host process replaces console.error for a time. *)
ThirdPartyReplaces ==
  /\ thirds < MaxThird /\ con.third = Nobody
  /\ \E layer \in {Wrapper, Mute} : con' = Console!Replace(con, layer)
  /\ meddled' = (meddled \/ con.calls # 0)
  /\ thirds' = thirds + 1
  /\ UNCHANGED <<pageVars, logVars, served>>

ThirdPartyPutsBack ==
  /\ con.third # Nobody
  /\ con' = Console!PutBack(con)
  /\ UNCHANGED <<pageVars, logVars, served, thirdVars>>

(* The timers fire, the extractor ends, and callbacks run.  No server owes *)
(* an answer.                                                              *)
Page(p) == HtmlFails(p) \/ MdFails(p) \/ Extracted(p) \/ FetchSingle(p)

Servers ==
  \E p \in Pages : \/ HtmlResponse(p) \/ HtmlBody(p) \/ AcceptResponse(p) \/ MarkdownBody(p)
                   \/ FindResponse(p) \/ FindBody(p) \/ AlternateResponse(p)

Done ==
  /\ \A p \in Pages : html[p] = "idle" \/ result[p] # None
  /\ UNCHANGED vars

Next ==
  \/ \E p \in Pages : Begin(p) \/ ExtractorLogs(p) \/ Page(p)
  \/ Servers \/ ThirdPartyReplaces \/ ThirdPartyPutsBack \/ Done

Spec == Init /\ [][Next]_vars

FairSpec ==
  /\ Spec
  /\ \A p \in Pages : WF_vars(Page(p))

-------------------------------------------------------------------------------
(* "No permanent patch is installed", and "do not overwrite a third party  *)
(* that deliberately replaced the dispatcher": while no page is in the     *)
(* extractor console.error holds no dispatcher, unless a third party had   *)
(* replaced one; and until it has put back what it found, a third party's  *)
(* replacement stays in the chain, in whatever order regions come and go.  *)
ConsoleGivenBack ==
  /\ con.calls = 0 /\ ~meddled => \A i \in DOMAIN con.chain : con.chain[i] \notin Pages
  /\ con.third # Nobody => \E i \in DOMAIN con.chain : con.chain[i] \in {Wrapper, Mute}

(* A page is charged only with what its own extractor did, and with all of *)
(* it: it is the fallback exactly if its extractor threw, or logged an     *)
(* error that no third party kept from the dispatcher.                     *)
DegradedIsOwn ==
  \A p \in Pages :
    htmlPage[p] # None =>
      (htmlPage[p].source = "defuddle-fallback" <=> p \in threw \cup (logged \ hidden))

(* No variant that arrived is lost: a page fails only if neither of its    *)
(* pipelines brought one, and otherwise it is the best of those that came, *)
(* also when the other pipeline failed later or for another reason.        *)
BestOfServed ==
  \A p \in Pages :
    result[p] # None =>
      IF served[p] = {} THEN result[p].status = "error"
      ELSE /\ result[p].status = "success"
           /\ result[p].score \in served[p]
           /\ \A score \in served[p] : score <= result[p].score

(* Without an answer of any server every page that was begun ends: each    *)
(* request has a time limit of its own, the reads of bodies included.      *)
EveryPageEnds ==
  \A p \in Pages : html[p] # "idle" ~> result[p] # None
===============================================================================
