---------------------------- MODULE PageFetchProofs ----------------------------
(***************************************************************************)
(* Proofs about PageFetch: the variant a page becomes, which pages are     *)
(* charged with a degraded extraction, and that console.error is given     *)
(* back.                                                                   *)
(***************************************************************************)
EXTENDS PageFetch, SequenceTheorems, FiniteSetTheorems, TLAPS

-------------------------------------------------------------------------------
(* Variants.                                                               *)

ScoreOf(v) == IF v = None THEN {} ELSE {v.score}

VariantType ==
  /\ html \in [Pages -> HtmlPlaces] /\ md \in [Pages -> MdPlaces]
  /\ htmlPage \in [Pages -> Variant \cup {None}]
  /\ mdPage \in [Pages -> Variant \cup {None}]
  /\ served \in [Pages -> SUBSET Scores]
  /\ DOMAIN result = Pages /\ result = [p \in Pages |-> result[p]]

(* A page that was fetched is the best of what was served. *)
BestOf(answer, scores) ==
  IF scores = {} THEN answer.status = "error"
  ELSE /\ answer.status = "success"
       /\ answer.score \in scores
       /\ \A score \in scores : score <= answer.score

(* What was served is what the two pipelines hold, once they are settled.  *)
VariantSound(p) ==
  /\ html[p] = "idle" => md[p] = "idle"
  /\ html[p] # "settled" => htmlPage[p] = None
  /\ md[p] # "settled" => mdPage[p] = None
  /\ served[p] = ScoreOf(htmlPage[p]) \cup ScoreOf(mdPage[p])
  /\ result[p] # None =>
       html[p] = "settled" /\ md[p] = "settled" /\ BestOf(result[p], served[p])

VariantInv == VariantType /\ \A p \in Pages : VariantSound(p)

LEMMA VariantInit == Init => VariantInv
BY DEF Init, VariantInv, VariantType, VariantSound, ScoreOf, HtmlPlaces, MdPlaces

(* A pipeline that is under way goes on or settles. *)
LEMMA HtmlStep ==
  ASSUME VariantInv, NEW p \in Pages, html[p] # "settled",
         NEW place \in HtmlPlaces \ {"idle"}, NEW page \in Variant \cup {None},
         page # None => place = "settled",
         html' = [html EXCEPT ![p] = place], htmlPage' = [htmlPage EXCEPT ![p] = page],
         served' = [served EXCEPT ![p] = @ \cup ScoreOf(page)],
         UNCHANGED <<md, mdPage, result>>
  PROVE  VariantInv'
<1>1. /\ html' \in [Pages -> HtmlPlaces] /\ htmlPage' \in [Pages -> Variant \cup {None}]
      /\ html'[p] = place /\ htmlPage'[p] = page
      /\ \A q \in Pages : q # p => html'[q] = html[q] /\ htmlPage'[q] = htmlPage[q]
  BY DEF VariantInv, VariantType
<1>2. ScoreOf(page) \subseteq Scores
  BY DEF ScoreOf, Variant
<1>3. /\ served' \in [Pages -> SUBSET Scores] /\ served'[p] = served[p] \cup ScoreOf(page)
      /\ \A q \in Pages : q # p => served'[q] = served[q]
  BY <1>2 DEF VariantInv, VariantType
<1>4. VariantType'
  BY <1>1, <1>3 DEF VariantInv, VariantType
<1>5. VariantSound(p)'
  <2>1. VariantSound(p) /\ result[p] = None /\ htmlPage[p] = None
    BY DEF VariantInv, VariantSound
  <2>2. served'[p] = ScoreOf(page) \cup ScoreOf(mdPage[p])
    BY <1>3, <2>1 DEF VariantSound, ScoreOf
  <2>3. QED
    BY <1>1, <2>1, <2>2 DEF VariantSound, ScoreOf
<1>6. ASSUME NEW q \in Pages, q # p
      PROVE  VariantSound(q)'
  BY <1>1, <1>3, <1>6 DEF VariantInv, VariantSound, ScoreOf, BestOf
<1>7. QED
  BY <1>4, <1>5, <1>6 DEF VariantInv

LEMMA MdStep ==
  ASSUME VariantInv, NEW p \in Pages, md[p] \notin {"idle", "settled"},
         NEW place \in MdPlaces, NEW page \in Variant \cup {None},
         page # None => place = "settled",
         md' = [md EXCEPT ![p] = place], mdPage' = [mdPage EXCEPT ![p] = page],
         served' = [served EXCEPT ![p] = @ \cup ScoreOf(page)],
         UNCHANGED <<html, htmlPage, result>>
  PROVE  VariantInv'
<1>1. /\ md' \in [Pages -> MdPlaces] /\ mdPage' \in [Pages -> Variant \cup {None}]
      /\ md'[p] = place /\ mdPage'[p] = page
      /\ \A q \in Pages : q # p => md'[q] = md[q] /\ mdPage'[q] = mdPage[q]
  BY DEF VariantInv, VariantType
<1>2. ScoreOf(page) \subseteq Scores
  BY DEF ScoreOf, Variant
<1>3. /\ served' \in [Pages -> SUBSET Scores] /\ served'[p] = served[p] \cup ScoreOf(page)
      /\ \A q \in Pages : q # p => served'[q] = served[q]
  BY <1>2 DEF VariantInv, VariantType
<1>4. VariantType'
  BY <1>1, <1>3 DEF VariantInv, VariantType
<1>5. VariantSound(p)'
  <2>1. VariantSound(p) /\ result[p] = None /\ mdPage[p] = None
    BY DEF VariantInv, VariantSound
  <2>2. served'[p] = ScoreOf(htmlPage[p]) \cup ScoreOf(page)
    BY <1>3, <2>1 DEF VariantSound, ScoreOf
  <2>3. QED
    BY <1>1, <2>1, <2>2 DEF VariantSound, ScoreOf
<1>6. ASSUME NEW q \in Pages, q # p
      PROVE  VariantSound(q)'
  BY <1>1, <1>3, <1>6 DEF VariantInv, VariantSound, ScoreOf, BestOf
<1>7. QED
  BY <1>4, <1>5, <1>6 DEF VariantInv

(* A step that brings no variant. *)
LEMMA HtmlGoesStep ==
  ASSUME VariantInv, NEW p \in Pages, html[p] # "settled", UNCHANGED <<md, mdPage, served, result>>,
         \/ \E place \in HtmlPlaces \ {"idle"} : HtmlGoes(p, place)
         \/ HtmlSettles(p, None)
  PROVE  VariantInv'
<1>1. served' = [served EXCEPT ![p] = @ \cup ScoreOf(None)]
  BY DEF VariantInv, VariantType, ScoreOf
<1>2. htmlPage = [htmlPage EXCEPT ![p] = None]
  BY DEF VariantInv, VariantType, VariantSound
<1>3. CASE HtmlSettles(p, None)
  BY <1>1, <1>3, HtmlStep DEF HtmlSettles, HtmlPlaces
<1>4. CASE \E place \in HtmlPlaces \ {"idle"} : HtmlGoes(p, place)
  BY <1>1, <1>2, <1>4, HtmlStep DEF HtmlGoes
<1>5. QED
  BY <1>3, <1>4

LEMMA MdGoesStep ==
  ASSUME VariantInv, NEW p \in Pages, md[p] \notin {"idle", "settled"},
         UNCHANGED <<html, htmlPage, served, result>>,
         (\E place \in MdPlaces : MdGoes(p, place)) \/ MdSettles(p, None)
  PROVE  VariantInv'
<1>1. served' = [served EXCEPT ![p] = @ \cup ScoreOf(None)]
  BY DEF VariantInv, VariantType, ScoreOf
<1>2. mdPage = [mdPage EXCEPT ![p] = None]
  BY DEF VariantInv, VariantType, VariantSound
<1>3. CASE MdSettles(p, None)
  BY <1>1, <1>3, MdStep DEF MdSettles, MdPlaces
<1>4. CASE \E place \in MdPlaces : MdGoes(p, place)
  BY <1>1, <1>2, <1>4, MdStep DEF MdGoes
<1>5. QED
  BY <1>3, <1>4

(* compareAndPick takes the better of two variants, or the only one.       *)
LEMMA PickIsBest ==
  ASSUME NEW a \in Variant \cup {None}, NEW b \in Variant \cup {None}
  PROVE  /\ Pick(a, b) = None <=> ScoreOf(a) \cup ScoreOf(b) = {}
         /\ Pick(a, b) # None =>
              /\ Pick(a, b).score \in ScoreOf(a) \cup ScoreOf(b)
              /\ \A score \in ScoreOf(a) \cup ScoreOf(b) : score <= Pick(a, b).score
<1>1. CASE a = None \/ b = None
  <2>1. Pick(a, b) = IF a = None THEN b ELSE a
    BY <1>1 DEF Pick
  <2>2. Pick(a, b) = None => a = None /\ b = None
    BY <1>1, <2>1
  <2>3. ASSUME Pick(a, b) # None
        PROVE  ScoreOf(a) \cup ScoreOf(b) = {Pick(a, b).score} /\ Pick(a, b).score \in Int
    BY <1>1, <2>1, <2>3, PageFetchAssumption DEF ScoreOf, Variant
  <2>4. QED
    BY <2>1, <2>2, <2>3 DEF ScoreOf
<1>2. CASE a # None /\ b # None
  <2>1. a \in Variant /\ b \in Variant /\ a.score \in Int /\ b.score \in Int
    BY <1>2, PageFetchAssumption DEF Variant
  <2>2. /\ [a EXCEPT !.source = "defuddle"] \in Variant /\ [b EXCEPT !.source = "markdown"] \in Variant
        /\ [a EXCEPT !.source = "defuddle"].score = a.score
        /\ [b EXCEPT !.source = "markdown"].score = b.score
    BY <2>1 DEF Variant
  <2>3. CASE b.score > a.score
    BY <1>2, <2>1, <2>2, <2>3, PageFetchAssumption DEF Pick, ScoreOf
  <2>4. CASE b.score <= a.score
    BY <1>2, <2>1, <2>2, <2>4, PageFetchAssumption DEF Pick, ScoreOf
  <2>5. QED
    BY <2>1, <2>3, <2>4
<1>3. QED
  BY <1>1, <1>2

LEMMA VariantNext == VariantInv /\ [Next]_vars => VariantInv'
<1> SUFFICES ASSUME VariantInv, [Next]_vars
             PROVE  VariantInv'
  OBVIOUS
<1>0. \A p \in Pages : VariantSound(p) /\ html[p] \in HtmlPlaces /\ md[p] \in MdPlaces
  BY DEF VariantInv, VariantType
<1>1. ASSUME NEW p \in Pages, Begin(p)
      PROVE  VariantInv'
  <2>1. html[p] = "idle" /\ md[p] = "idle"
    BY <1>0, <1>1 DEF Begin, VariantSound
  <2>2. /\ html' = [html EXCEPT ![p] = "request"] /\ md' = [md EXCEPT ![p] = "accept"]
        /\ UNCHANGED <<htmlPage, mdPage, result, served>>
    BY <1>1 DEF Begin
  <2>3. VariantType'
    BY <2>2 DEF VariantInv, VariantType, HtmlPlaces, MdPlaces
  <2>4. ASSUME NEW q \in Pages
        PROVE  VariantSound(q)'
    BY <2>1, <2>2, <2>4 DEF VariantInv, VariantType, VariantSound, BestOf, ScoreOf
  <2>5. QED
    BY <2>3, <2>4 DEF VariantInv
<1>2. ASSUME NEW p \in Pages, HtmlResponse(p) \/ HtmlBody(p) \/ HtmlFails(p)
      PROVE  VariantInv'
  BY <1>2, HtmlGoesStep DEF HtmlResponse, HtmlBody, HtmlFails, OnlyHtml, HtmlPlaces
<1>3. ASSUME NEW p \in Pages, AcceptResponse(p) \/ FindResponse(p) \/ FindBody(p) \/ AlternateResponse(p)
      PROVE  VariantInv'
  BY <1>3, MdGoesStep DEF AcceptResponse, FindResponse, FindBody, AlternateResponse, OnlyMd, MdPlaces
<1>4. ASSUME NEW p \in Pages, MdFails(p)
      PROVE  VariantInv'
  BY <1>4, MdGoesStep DEF MdFails, OnlyMd, MdPlaces
<1>5. ASSUME NEW p \in Pages, MarkdownBody(p)
      PROVE  VariantInv'
  <2>1. PICK score \in Scores :
          /\ served' = [served EXCEPT ![p] = @ \cup {score}]
          /\ MdSettles(p, [source |-> "markdown", score |-> score])
    BY <1>5 DEF MarkdownBody
  <2> DEFINE page == [source |-> "markdown", score |-> score]
  <2>2. page \in Variant /\ ScoreOf(page) = {score}
    BY PageFetchAssumption DEF Variant, ScoreOf
  <2> HIDE DEF page
  <2>3. md[p] \notin {"idle", "settled"} /\ UNCHANGED <<html, htmlPage, result>>
    BY <1>5 DEF MarkdownBody, OnlyMd
  <2>4. /\ md' = [md EXCEPT ![p] = "settled"] /\ mdPage' = [mdPage EXCEPT ![p] = page]
        /\ served' = [served EXCEPT ![p] = @ \cup ScoreOf(page)]
    BY <2>1, <2>2 DEF MdSettles, page
  <2>5. QED
    BY <2>2, <2>3, <2>4, MdStep DEF MdPlaces
<1>6. ASSUME NEW p \in Pages, Extracted(p)
      PROVE  VariantInv'
  <2>1. PICK score \in Scores, throws \in BOOLEAN :
          /\ served' = [served EXCEPT ![p] = @ \cup {score}]
          /\ HtmlSettles(p, [source |-> IF throws \/ p \in con.muzzled
                                        THEN "defuddle-fallback" ELSE "defuddle",
                             score |-> score])
    BY <1>6 DEF Extracted
  <2> DEFINE page == [source |-> IF throws \/ p \in con.muzzled
                                 THEN "defuddle-fallback" ELSE "defuddle",
                      score |-> score]
  <2>2. page \in Variant /\ ScoreOf(page) = {score}
    BY PageFetchAssumption DEF Variant, ScoreOf
  <2>3. /\ html' = [html EXCEPT ![p] = "settled"] /\ htmlPage' = [htmlPage EXCEPT ![p] = page]
        /\ served' = [served EXCEPT ![p] = @ \cup ScoreOf(page)]
    BY <2>1, <2>2 DEF HtmlSettles
  <2> HIDE DEF page
  <2>4. html[p] # "settled" /\ UNCHANGED <<md, mdPage, result>>
    BY <1>6 DEF Extracted, OnlyHtml
  <2>5. QED
    BY <2>2, <2>3, <2>4, HtmlStep DEF HtmlPlaces
<1>7. ASSUME NEW p \in Pages, FetchSingle(p)
      PROVE  VariantInv'
  <2> DEFINE page == Pick(htmlPage[p], mdPage[p])
             answer == IF page = None THEN [status |-> "error"]
                       ELSE [status |-> "success", source |-> page.source, score |-> page.score]
  <2>1. /\ html[p] = "settled" /\ md[p] = "settled" /\ result' = [result EXCEPT ![p] = answer]
        /\ UNCHANGED <<html, md, htmlPage, mdPage, served>>
    BY <1>7 DEF FetchSingle
  <2>2. BestOf(answer, served[p])
    <3>1. served[p] = ScoreOf(htmlPage[p]) \cup ScoreOf(mdPage[p])
      BY <1>0 DEF VariantSound
    <3>2. htmlPage[p] \in Variant \cup {None} /\ mdPage[p] \in Variant \cup {None}
      BY DEF VariantInv, VariantType
    <3>3. /\ page = None <=> served[p] = {}
          /\ page # None =>
               page.score \in served[p] /\ \A score \in served[p] : score <= page.score
      BY <3>1, <3>2, PickIsBest
    <3> HIDE DEF page
    <3>4. QED
      BY <3>3 DEF BestOf
  <2> HIDE DEF answer
  <2>3. /\ result'[p] = answer
        /\ \A q \in Pages : q # p => result'[q] = result[q]
        /\ DOMAIN result' = Pages /\ result' = [q \in Pages |-> result'[q]]
    BY <2>1 DEF VariantInv, VariantType
  <2>4. VariantType'
    BY <2>1, <2>3 DEF VariantInv, VariantType
  <2>5. ASSUME NEW q \in Pages
        PROVE  VariantSound(q)'
    <3>1. CASE q = p
      BY <1>0, <2>1, <2>2, <2>3, <3>1 DEF VariantSound, BestOf
    <3>2. CASE q # p
      BY <1>0, <2>1, <2>3, <3>2 DEF VariantSound, BestOf
    <3>3. QED
      BY <3>1, <3>2
  <2>6. QED
    BY <2>4, <2>5 DEF VariantInv
<1>8. CASE \/ UNCHANGED <<pageVars, served>>
           \/ \E p \in Pages : ExtractorLogs(p)
  <2>1. UNCHANGED <<pageVars, served>>
    BY <1>8 DEF ExtractorLogs, OnlyHtml, pageVars
  <2>2. QED
    BY <2>1 DEF VariantInv, VariantType, VariantSound, BestOf, ScoreOf, pageVars
<1>9. QED
  BY <1>1, <1>2, <1>3, <1>4, <1>5, <1>6, <1>7, <1>8
  DEF Next, Page, Servers, ThirdPartyReplaces, ThirdPartyPutsBack, Done, vars

(* A page that was fetched is the best variant that arrived, and an error  *)
(* only when none did: for any number of pages and any scores.             *)
THEOREM BestCorrect == Spec => []BestOfServed
<1>1. VariantInv => BestOfServed
  BY DEF VariantInv, VariantSound, BestOf, BestOfServed
<1>2. QED
  BY <1>1, VariantInit, VariantNext, PTL DEF Spec

-------------------------------------------------------------------------------
(* The console.                                                            *)

Third == {Wrapper, Mute}
Layers == Pages \cup Third

(* A chain without a dispatcher, and one with a third party's replacement. *)
Undivided(chain) == \A i \in DOMAIN chain : chain[i] \notin Pages
Layered(chain) == \E i \in DOMAIN chain : chain[i] \in Third

ConsoleRecord == [chain : Seq(Layers), calls : Nat, owner : Pages \cup {Nobody},
                  saved : Seq(Layers), active : SUBSET Pages, muzzled : SUBSET Pages,
                  third : Seq(Layers) \cup {Nobody}]

(* The regions are counted, and the first of them owns the dispatcher.     *)
Counted(c) ==
  /\ c \in ConsoleRecord
  /\ IsFiniteSet(c.active) /\ c.calls = Cardinality(c.active)
  /\ c.calls # 0 => c.owner \in Pages

(* Until a third party replaces a dispatcher, the last region out finds    *)
(* its own on top or none at all, and what it puts back holds none.        *)
Restorable(c) ==
  /\ c.calls = 0 => Undivided(c.chain)
  /\ c.calls # 0 => /\ Undivided(c.saved)
                    /\ Undivided(c.chain) \/ c.chain = <<c.owner>> \o c.saved
  /\ c.third # Nobody => Undivided(c.third)

(* A replacement is in the chain, and in what a dispatcher on top of it    *)
(* puts back.                                                              *)
Deliberate(c) ==
  c.third # Nobody => Layered(c.chain) /\ (c.calls # 0 /\ Console!OnTop(c) => Layered(c.saved))

LEMMA OnTopOfChain ==
  ASSUME NEW x \in Layers, NEW chain \in Seq(Layers)
  PROVE  /\ <<x>> \o chain \in Seq(Layers) /\ <<x>> \o chain # <<>>
         /\ Head(<<x>> \o chain) = x
         /\ Layered(chain) \/ x \in Third => Layered(<<x>> \o chain)
         /\ x \notin Pages /\ Undivided(chain) => Undivided(<<x>> \o chain)
<1> DEFINE whole == <<x>> \o chain
<1>1. /\ whole \in Seq(Layers) /\ Len(whole) = Len(chain) + 1 /\ Len(chain) \in Nat
      /\ whole[1] = x
      /\ \A i \in 1 .. Len(chain) : whole[i + 1] = chain[i]
      /\ DOMAIN whole = 1 .. Len(whole) /\ DOMAIN chain = 1 .. Len(chain)
  OBVIOUS
<1> HIDE DEF whole
<1>2. whole # <<>> /\ Head(whole) = x
  BY <1>1
<1>3. Layered(chain) \/ x \in Third => Layered(whole)
  BY <1>1 DEF Layered
<1>4. ASSUME x \notin Pages, Undivided(chain), NEW i \in DOMAIN whole
      PROVE  whole[i] \notin Pages
  <2>1. CASE i = 1
    BY <1>1, <1>4, <2>1
  <2>2. CASE i # 1
    <3>1. i - 1 \in DOMAIN chain /\ whole[i] = chain[i - 1]
      BY <1>1, <1>4, <2>2
    <3>2. QED
      BY <1>4, <3>1 DEF Undivided
  <2>3. QED
    BY <2>1, <2>2
<1>5. QED
  BY <1>1, <1>2, <1>3, <1>4 DEF Undivided, whole

(* What entering and leaving a region does to each field. *)
LEMMA EnterRegion ==
  ASSUME NEW c, Counted(c), NEW r \in Pages, r \notin c.active
  PROVE  LET e == Console!Enter(c, r)
         IN  /\ Counted(e) /\ e.calls # 0 /\ e.active = c.active \cup {r}
             /\ e.muzzled = c.muzzled /\ e.third = c.third
             /\ c.calls # 0 => e.chain = c.chain /\ e.saved = c.saved /\ e.owner = c.owner
             /\ c.calls = 0 => e.chain = <<r>> \o c.chain /\ e.saved = c.chain /\ e.owner = r
<1> DEFINE count == c.calls + 1
           regions == c.active \cup {r}
           opened == [c EXCEPT !.calls = count, !.active = regions]
           top == <<r>> \o c.chain
           first == [opened EXCEPT !.chain = top, !.owner = r, !.saved = c.chain]
<1>1. c \in ConsoleRecord
  BY DEF Counted
<1>2. IsFiniteSet(regions) /\ count = Cardinality(regions) /\ regions \subseteq Pages
  BY <1>1, FS_AddElement DEF Counted, ConsoleRecord
<1>3. count \in Nat /\ count # 0
  BY <1>1 DEF ConsoleRecord
<1>4. Console!Enter(c, r) = IF c.calls # 0 THEN opened ELSE first
  BY <1>1 DEF Console!Enter, ConsoleRecord
<1>5. top \in Seq(Layers)
  BY <1>1, OnTopOfChain DEF ConsoleRecord, Layers
<1> HIDE DEF count, regions, top
<1>6. /\ opened \in ConsoleRecord /\ opened.calls = count /\ opened.active = regions
      /\ opened.saved = c.saved /\ opened.chain = c.chain /\ opened.owner = c.owner
      /\ opened.muzzled = c.muzzled /\ opened.third = c.third
  BY <1>1, <1>2, <1>3 DEF ConsoleRecord
<1> HIDE DEF opened
<1>7. c.chain \in Seq(Layers)
  BY <1>1 DEF ConsoleRecord
<1>8. /\ first \in ConsoleRecord /\ first.calls = count /\ first.active = regions
      /\ first.saved = c.chain /\ first.chain = top /\ first.owner = r
      /\ first.muzzled = c.muzzled /\ first.third = c.third
  BY <1>5, <1>6, <1>7 DEF ConsoleRecord
<1> HIDE DEF first
<1>9. CASE c.calls # 0
  BY <1>2, <1>3, <1>4, <1>6, <1>9 DEF Counted, regions
<1>10. CASE c.calls = 0
  BY <1>2, <1>3, <1>4, <1>8, <1>10 DEF Counted, regions, top
<1>11. QED
  BY <1>9, <1>10

LEMMA LeaveRegion ==
  ASSUME NEW c, Counted(c), NEW r \in c.active
  PROVE  LET e == Console!Leave(c, r)
         IN  /\ Counted(e) /\ c.calls # 0 /\ e.active = c.active \ {r}
             /\ e.muzzled = c.muzzled /\ e.third = c.third
             /\ e.calls # 0 => e.chain = c.chain /\ e.saved = c.saved /\ e.owner = c.owner
             /\ e.calls = 0 => e.chain = (IF Console!OnTop(c) THEN c.saved ELSE c.chain)
                              /\ e.saved = <<>>
<1> DEFINE count == c.calls - 1
           regions == c.active \ {r}
           closed == [c EXCEPT !.calls = count, !.active = regions]
           under == IF Console!OnTop(c) THEN c.saved ELSE c.chain
           last == [closed EXCEPT !.owner = Nobody, !.saved = <<>>, !.chain = under]
<1>1. c \in ConsoleRecord
  BY DEF Counted
<1>2. IsFiniteSet(regions) /\ count = Cardinality(regions) /\ regions \subseteq Pages
  BY <1>1, FS_RemoveElement DEF Counted, ConsoleRecord
<1>3. count \in Nat
  BY <1>2, FS_CardinalityType
<1>4. c.calls # 0
  BY <1>1, <1>3 DEF ConsoleRecord
<1>5. Console!Leave(c, r) = IF closed.calls # 0 THEN closed ELSE last
  BY <1>1 DEF Console!Leave, ConsoleRecord
<1>6. under \in Seq(Layers) /\ <<>> \in Seq(Layers)
  BY <1>1 DEF ConsoleRecord
<1> HIDE DEF count, regions, under
<1>7. /\ closed \in ConsoleRecord /\ closed.calls = count /\ closed.active = regions
      /\ closed.saved = c.saved /\ closed.chain = c.chain /\ closed.owner = c.owner
      /\ closed.muzzled = c.muzzled /\ closed.third = c.third
  BY <1>1, <1>2, <1>3 DEF ConsoleRecord
<1> HIDE DEF closed
<1>8. /\ last \in ConsoleRecord /\ last.calls = count /\ last.active = regions
      /\ last.saved = <<>> /\ last.chain = under
      /\ last.muzzled = c.muzzled /\ last.third = c.third
  BY <1>6, <1>7 DEF ConsoleRecord
<1> HIDE DEF last
<1>9. CASE count # 0
  BY <1>2, <1>4, <1>5, <1>7, <1>9 DEF Counted, regions
<1>10. CASE count = 0
  BY <1>2, <1>4, <1>5, <1>7, <1>8, <1>10 DEF Counted, regions, under
<1>11. QED
  BY <1>9, <1>10

(* Before any third party comes the dispatcher is all there is. *)
Fresh(c) ==
  /\ c.third = Nobody /\ c.saved = <<>>
  /\ c.chain = IF c.calls = 0 THEN <<>> ELSE <<c.owner>>

LEMMA EnterKeeps ==
  ASSUME NEW c, Counted(c), NEW r \in Pages, r \notin c.active
  PROVE  /\ Restorable(c) => Restorable(Console!Enter(c, r))
         /\ Deliberate(c) => Deliberate(Console!Enter(c, r))
         /\ Fresh(c) => Fresh(Console!Enter(c, r))
<1> DEFINE e == Console!Enter(c, r)
<1>1. /\ Counted(e) /\ e.calls # 0 /\ e.active = c.active \cup {r}
      /\ e.muzzled = c.muzzled /\ e.third = c.third
      /\ c.calls # 0 => e.chain = c.chain /\ e.saved = c.saved /\ e.owner = c.owner
      /\ c.calls = 0 => e.chain = <<r>> \o c.chain /\ e.saved = c.chain /\ e.owner = r
  BY EnterRegion
<1> HIDE DEF e
<1>2. c.chain \in Seq(Layers) /\ r \in Layers
  BY DEF Counted, ConsoleRecord, Layers
<1>3. Restorable(c) => Restorable(e)
  BY <1>1 DEF Restorable
<1>4. Deliberate(c) => Deliberate(e)
  <2>1. CASE c.calls # 0
    BY <1>1, <2>1 DEF Deliberate, Console!OnTop
  <2>2. CASE c.calls = 0
    BY <1>1, <1>2, <2>2, OnTopOfChain DEF Deliberate
  <2>3. QED
    BY <2>1, <2>2
<1>5. Fresh(c) => Fresh(e)
  <2>1. <<r>> \o <<>> = <<r>>
    <3>1. <<r>> \in Seq(Layers) /\ <<>> \in Seq(Layers)
      BY <1>2
    <3>2. QED
      BY <3>1
  <2>2. QED
    BY <1>1, <2>1 DEF Fresh
<1>6. QED
  BY <1>3, <1>4, <1>5 DEF e

LEMMA LeaveKeeps ==
  ASSUME NEW c, Counted(c), NEW r \in c.active
  PROVE  /\ Restorable(c) => Restorable(Console!Leave(c, r))
         /\ Deliberate(c) => Deliberate(Console!Leave(c, r))
         /\ Fresh(c) => Fresh(Console!Leave(c, r))
<1> DEFINE e == Console!Leave(c, r)
<1>1. /\ Counted(e) /\ c.calls # 0 /\ e.active = c.active \ {r}
      /\ e.muzzled = c.muzzled /\ e.third = c.third
      /\ e.calls # 0 => e.chain = c.chain /\ e.saved = c.saved /\ e.owner = c.owner
      /\ e.calls = 0 => e.chain = (IF Console!OnTop(c) THEN c.saved ELSE c.chain)
                       /\ e.saved = <<>>
  BY LeaveRegion
<1> HIDE DEF e
<1>2. c.chain \in Seq(Layers) /\ c.saved \in Seq(Layers) /\ c.owner \in Pages
  BY <1>1 DEF Counted, ConsoleRecord
<1>3. Restorable(c) => Restorable(e)
  <2>1. CASE e.calls # 0
    BY <1>1, <2>1 DEF Restorable
  <2>2. CASE e.calls = 0 /\ Console!OnTop(c)
    BY <1>1, <2>2 DEF Restorable
  <2>3. CASE e.calls = 0 /\ ~Console!OnTop(c)
    <3>1. c.chain # <<c.owner>> \o c.saved
      BY <1>2, <2>3, OnTopOfChain DEF Console!OnTop, Layers
    <3>2. QED
      BY <1>1, <2>3, <3>1 DEF Restorable
  <2>4. QED
    BY <2>1, <2>2, <2>3
<1>4. Deliberate(c) => Deliberate(e)
  <2>1. CASE e.calls # 0
    BY <1>1, <2>1 DEF Deliberate, Console!OnTop
  <2>2. CASE e.calls = 0
    BY <1>1, <2>2 DEF Deliberate
  <2>3. QED
    BY <2>1, <2>2
<1>5. Fresh(c) => Fresh(e)
  BY <1>1, <1>2 DEF Fresh, Console!OnTop
<1>6. QED
  BY <1>3, <1>4, <1>5 DEF e

(* A line that is logged charges its own region, if a dispatcher is        *)
(* reached, and changes nothing else.                                      *)
LEMMA LogKeeps ==
  ASSUME NEW c, Counted(c), NEW r \in c.active
  PROVE  LET e == Console!Log(c, r)
         IN  /\ Counted(e) /\ e.active = c.active /\ e.calls = c.calls
             /\ e.muzzled = IF Console!Reached(c) THEN c.muzzled \cup {r} ELSE c.muzzled
             /\ Restorable(c) => Restorable(e)
             /\ Deliberate(c) => Deliberate(e)
             /\ Fresh(c) => Fresh(e)
<1> DEFINE charged == c.muzzled \cup {r}
           e == [c EXCEPT !.muzzled = charged]
<1>1. c \in ConsoleRecord /\ charged \subseteq Pages
  BY DEF Counted, ConsoleRecord
<1>2. Console!Log(c, r) = IF Console!Reached(c) THEN e ELSE c
  BY <1>1 DEF Console!Log, ConsoleRecord
<1> HIDE DEF charged
<1>3. /\ e \in ConsoleRecord /\ e.active = c.active /\ e.calls = c.calls /\ e.muzzled = charged
      /\ e.chain = c.chain /\ e.saved = c.saved /\ e.owner = c.owner /\ e.third = c.third
  BY <1>1 DEF ConsoleRecord
<1> HIDE DEF e
<1>4. Counted(e) /\ (Deliberate(c) => Deliberate(e)) /\ (Fresh(c) => Fresh(e))
  BY <1>3 DEF Counted, Deliberate, Console!OnTop, Fresh
<1>5. Restorable(c) => Restorable(e)
  BY <1>3 DEF Restorable
<1>6. QED
  BY <1>2, <1>3, <1>4, <1>5 DEF charged

LEMMA FreshReached ==
  ASSUME NEW c, Counted(c), Fresh(c), c.active # {}
  PROVE  Console!Reached(c)
<1>1. c.calls # 0
  BY FS_EmptySet DEF Counted
<1>2. c.chain = <<c.owner>> /\ c.owner \in Pages
  BY <1>1 DEF Fresh, Counted
<1>3. 1 \in DOMAIN c.chain /\ c.chain[1] \in Pages /\ 1 .. 1 - 1 = {}
  BY <1>2
<1>4. QED
  BY <1>3 DEF Console!Reached

ConsoleInv ==
  /\ html \in [Pages -> HtmlPlaces] /\ thirds \in Nat
  /\ Counted(con)
  /\ con.active = {p \in Pages : html[p] = "extract"}
  /\ ~meddled => Restorable(con)
  /\ Deliberate(con)
  /\ thirds = 0 => Fresh(con)

LEMMA ConsoleInit == Init => ConsoleInv
<1> SUFFICES ASSUME Init PROVE ConsoleInv
  OBVIOUS
<1>1. con = [chain |-> <<>>, calls |-> 0, owner |-> Nobody, saved |-> <<>>,
             active |-> {}, muzzled |-> {}, third |-> Nobody]
  BY DEF Init, Console!ConsoleInit
<1>2. con \in ConsoleRecord
  BY <1>1 DEF ConsoleRecord
<1>3. /\ con.active = {} /\ con.calls = 0 /\ con.saved = <<>> /\ con.chain = <<>>
      /\ con.third = Nobody
  BY <1>1
<1>4. Counted(con) /\ Restorable(con) /\ Deliberate(con) /\ Fresh(con)
  BY <1>2, <1>3, FS_EmptySet DEF Counted, Restorable, Undivided, Deliberate, Fresh
<1>5. \A p \in Pages : html[p] = "idle"
  BY DEF Init
<1>6. html \in [Pages -> HtmlPlaces] /\ thirds = 0
  BY DEF Init, HtmlPlaces
<1>7. QED
  BY <1>3, <1>4, <1>5, <1>6 DEF ConsoleInv

(* Regions are entered and left with the step of their page. *)
LEMMA ConsoleNext == ConsoleInv /\ [Next]_vars => ConsoleInv'
<1> SUFFICES ASSUME ConsoleInv, [Next]_vars
             PROVE  ConsoleInv'
  OBVIOUS
<1>t. html \in [Pages -> HtmlPlaces] /\ Counted(con) /\ con \in ConsoleRecord
  BY DEF ConsoleInv, Counted
<1>1. ASSUME NEW p \in Pages, html[p] # "extract", NEW place \in HtmlPlaces \ {"extract"},
             html' = [html EXCEPT ![p] = place], UNCHANGED <<con, thirdVars>>
      PROVE  ConsoleInv'
  <2>1. html' \in [Pages -> HtmlPlaces]
    BY <1>t, <1>1
  <2>2. {q \in Pages : html'[q] = "extract"} = {q \in Pages : html[q] = "extract"}
    BY <1>t, <1>1
  <2>3. QED
    BY <1>1, <2>1, <2>2 DEF ConsoleInv, thirdVars, Counted, Restorable, Deliberate, Fresh,
                            Console!OnTop
<1>2. ASSUME NEW p \in Pages, Begin(p) \/ HtmlResponse(p) \/ HtmlFails(p)
      PROVE  ConsoleInv'
  <2>1. CASE Begin(p)
    BY <1>1, <2>1 DEF Begin, HtmlPlaces
  <2>2. CASE HtmlResponse(p)
    BY <1>1, <2>2 DEF HtmlResponse, HtmlGoes, HtmlSettles, OnlyHtml, HtmlPlaces
  <2>3. CASE HtmlFails(p)
    BY <1>1, <2>3 DEF HtmlFails, HtmlSettles, OnlyHtml, HtmlPlaces
  <2>4. QED
    BY <1>2, <2>1, <2>2, <2>3
<1>3. ASSUME NEW p \in Pages, HtmlBody(p)
      PROVE  ConsoleInv'
  <2>1. /\ html[p] = "body" /\ html' = [html EXCEPT ![p] = "extract"]
        /\ con' = Console!Enter(con, p) /\ UNCHANGED thirdVars
    BY <1>3 DEF HtmlBody, HtmlGoes, OnlyHtml
  <2>2. p \notin con.active
    BY <2>1 DEF ConsoleInv
  <2>3. /\ Counted(con') /\ con'.active = con.active \cup {p}
        /\ Restorable(con) => Restorable(con')
        /\ Deliberate(con) => Deliberate(con')
        /\ Fresh(con) => Fresh(con')
    BY <1>t, <2>1, <2>2, EnterRegion, EnterKeeps
  <2>4. con'.active = {q \in Pages : html'[q] = "extract"} /\ html' \in [Pages -> HtmlPlaces]
    BY <1>t, <2>1, <2>3 DEF ConsoleInv, HtmlPlaces
  <2>5. QED
    BY <2>1, <2>3, <2>4 DEF ConsoleInv, thirdVars, Counted, Restorable, Deliberate, Fresh, Console!OnTop
<1>4. ASSUME NEW p \in Pages, Extracted(p)
      PROVE  ConsoleInv'
  <2>1. /\ html[p] = "extract" /\ html' = [html EXCEPT ![p] = "settled"]
        /\ con' = Console!Leave(con, p) /\ UNCHANGED thirdVars
    BY <1>4 DEF Extracted, HtmlSettles, OnlyHtml
  <2>2. p \in con.active
    BY <2>1 DEF ConsoleInv
  <2>3. /\ Counted(con') /\ con'.active = con.active \ {p}
        /\ Restorable(con) => Restorable(con')
        /\ Deliberate(con) => Deliberate(con')
        /\ Fresh(con) => Fresh(con')
    BY <1>t, <2>1, <2>2, LeaveRegion, LeaveKeeps
  <2>4. con'.active = {q \in Pages : html'[q] = "extract"} /\ html' \in [Pages -> HtmlPlaces]
    BY <1>t, <2>1, <2>3 DEF ConsoleInv, HtmlPlaces
  <2>5. QED
    BY <2>1, <2>3, <2>4 DEF ConsoleInv, thirdVars, Counted, Restorable, Deliberate, Fresh, Console!OnTop
<1>5. ASSUME NEW p \in Pages, ExtractorLogs(p)
      PROVE  ConsoleInv'
  <2>1. html[p] = "extract" /\ con' = Console!Log(con, p) /\ UNCHANGED <<html, thirdVars>>
    BY <1>5 DEF ExtractorLogs, OnlyHtml
  <2>2. p \in con.active
    BY <2>1 DEF ConsoleInv
  <2>3. /\ Counted(con') /\ con'.active = con.active
        /\ Restorable(con) => Restorable(con')
        /\ Deliberate(con) => Deliberate(con')
        /\ Fresh(con) => Fresh(con')
    BY <1>t, <2>1, <2>2, LogKeeps
  <2>4. QED
    BY <2>1, <2>3 DEF ConsoleInv, thirdVars, Counted, Restorable, Deliberate, Fresh, Console!OnTop
<1>6. CASE ThirdPartyReplaces
  <2>1. PICK layer \in Third : con' = Console!Replace(con, layer)
    BY <1>6 DEF ThirdPartyReplaces, Third
  <2>2. meddled' = (meddled \/ con.calls # 0) /\ thirds' = thirds + 1 /\ UNCHANGED html
    BY <1>6 DEF ThirdPartyReplaces, pageVars
  <2> DEFINE top == <<layer>> \o con.chain
  <2>3. /\ top \in Seq(Layers) /\ top # <<>> /\ Head(top) = layer /\ Layered(top)
        /\ layer \notin Pages
        /\ Undivided(con.chain) => Undivided(top)
    BY <1>t, OnTopOfChain, PageFetchAssumption DEF ConsoleRecord, Layers, Third
  <2>4. con' = [con EXCEPT !.chain = top, !.third = con.chain]
    BY <2>1 DEF Console!Replace
  <2> HIDE DEF top
  <2>5. /\ con' \in ConsoleRecord /\ con'.chain = top /\ con'.third = con.chain
        /\ con'.calls = con.calls /\ con'.owner = con.owner /\ con'.saved = con.saved
        /\ con'.active = con.active
    BY <1>t, <2>3, <2>4 DEF ConsoleRecord
  <2>6. Counted(con')
    BY <1>t, <2>5 DEF Counted
  <2>7. ~meddled' => Restorable(con')
    BY <2>2, <2>3, <2>5, PageFetchAssumption DEF ConsoleInv, Restorable, Third
  <2>8. Deliberate(con')
    <3>1. con.calls # 0 => layer # con.owner
      BY <1>t, <2>3 DEF Counted
    <3>2. QED
      BY <2>3, <2>5, <3>1 DEF Deliberate, Console!OnTop
  <2>9. thirds' \in Nat /\ thirds' # 0
    BY <2>2 DEF ConsoleInv
  <2>10. QED
    BY <2>2, <2>5, <2>6, <2>7, <2>8, <2>9 DEF ConsoleInv, Counted, Restorable, Deliberate, Console!OnTop
<1>7. CASE ThirdPartyPutsBack
  <2>1. /\ con.third # Nobody /\ con' = [con EXCEPT !.chain = con.third, !.third = Nobody]
        /\ UNCHANGED <<html, thirdVars>>
    BY <1>7 DEF ThirdPartyPutsBack, Console!PutBack, pageVars
  <2>2. con.third \in Seq(Layers)
    BY <1>t, <2>1 DEF ConsoleRecord
  <2>3. /\ con' \in ConsoleRecord /\ con'.chain = con.third /\ con'.third = Nobody
        /\ con'.calls = con.calls /\ con'.owner = con.owner /\ con'.saved = con.saved
        /\ con'.active = con.active
    BY <1>t, <2>1, <2>2 DEF ConsoleRecord
  <2>4. Counted(con')
    BY <1>t, <2>3 DEF Counted
  <2>5. ~meddled => Restorable(con')
    BY <2>1, <2>3 DEF ConsoleInv, Restorable
  <2>6. Deliberate(con')
    BY <2>3 DEF Deliberate
  <2>7. thirds # 0
    BY <2>1 DEF ConsoleInv, Fresh
  <2>8. QED
    BY <2>1, <2>3, <2>4, <2>5, <2>6, <2>7
    DEF ConsoleInv, thirdVars, Counted, Restorable, Deliberate, Console!OnTop
<1>8. CASE UNCHANGED <<html, con, thirdVars>>
  BY <1>8 DEF ConsoleInv, thirdVars, Counted, Restorable, Deliberate, Fresh, Console!OnTop
<1>9. ASSUME NEW p \in Pages,
             \/ AcceptResponse(p) \/ MarkdownBody(p) \/ FindResponse(p) \/ FindBody(p)
             \/ AlternateResponse(p) \/ MdFails(p) \/ FetchSingle(p)
      PROVE  UNCHANGED <<html, con, thirdVars>>
  BY <1>9 DEF AcceptResponse, MarkdownBody, FindResponse, FindBody, AlternateResponse, MdFails,
              FetchSingle, OnlyMd
<1>10. CASE Done \/ UNCHANGED vars
  BY <1>8, <1>10 DEF Done, vars, pageVars
<1>11. QED
  BY <1>2, <1>3, <1>4, <1>5, <1>6, <1>7, <1>8, <1>9, <1>10 DEF Next, Page, Servers

(* console.error is given back, and a third party's replacement is not     *)
(* overwritten, in whatever order any number of regions come and go.       *)
THEOREM ConsoleCorrect == Spec => []ConsoleGivenBack
<1>1. ConsoleInv => ConsoleGivenBack
  BY DEF ConsoleInv, Restorable, Undivided, Deliberate, Layered, Third, ConsoleGivenBack
<1>2. QED
  BY <1>1, ConsoleInit, ConsoleNext, PTL DEF Spec

-------------------------------------------------------------------------------
(* Degraded extractions.                                                   *)

(* A scope is charged with the lines of its own extractor, and a page with *)
(* its own scope.                                                          *)
ChargeSound(p) ==
  /\ p \in con.muzzled <=> p \in logged \ hidden
  /\ p \in hidden => p \in logged
  /\ p \in logged => html[p] \in {"extract", "settled"}
  /\ p \in threw => html[p] = "settled"
  /\ html[p] # "settled" => htmlPage[p] = None
  /\ htmlPage[p] # None =>
       (htmlPage[p].source = "defuddle-fallback" <=> p \in threw \cup (logged \ hidden))

ChargeInv ==
  /\ VariantInv /\ ConsoleInv
  /\ logged \subseteq Pages /\ threw \subseteq Pages /\ hidden \subseteq Pages
  /\ \A p \in Pages : ChargeSound(p)

LEMMA ChargeInit == Init => ChargeInv
BY VariantInit, ConsoleInit DEF Init, ChargeInv, ChargeSound, Console!ConsoleInit

LEMMA ChargeNext == ChargeInv /\ [Next]_vars => ChargeInv'
<1> SUFFICES ASSUME ChargeInv, [Next]_vars
             PROVE  ChargeInv'
  OBVIOUS
<1>t. /\ html \in [Pages -> HtmlPlaces] /\ htmlPage \in [Pages -> Variant \cup {None}]
      /\ Counted(con) /\ \A p \in Pages : ChargeSound(p)
  BY DEF ChargeInv, VariantInv, VariantType, ConsoleInv
<1>i. VariantInv' /\ ConsoleInv'
  BY VariantNext, ConsoleNext DEF ChargeInv
<1>1. ASSUME NEW p \in Pages, html[p] \notin {"extract", "settled"}, NEW place,
             html' = [html EXCEPT ![p] = place], con'.muzzled = con.muzzled,
             UNCHANGED <<htmlPage, logVars>> \/ (HtmlSettles(p, None) /\ UNCHANGED logVars)
      PROVE  ChargeInv'
  <2>1. /\ htmlPage'[p] = None
        /\ \A q \in Pages : q # p => html'[q] = html[q] /\ htmlPage'[q] = htmlPage[q]
    BY <1>t, <1>1 DEF HtmlSettles, ChargeSound
  <2>2. p \notin logged /\ p \notin threw /\ UNCHANGED logVars
    BY <1>t, <1>1 DEF ChargeSound
  <2>3. ASSUME NEW q \in Pages
        PROVE  ChargeSound(q)'
    <3>1. CASE q = p
      BY <1>t, <1>1, <2>1, <2>2, <3>1 DEF ChargeSound, logVars
    <3>2. CASE q # p
      BY <1>t, <1>1, <2>1, <2>2, <3>2 DEF ChargeSound, logVars
    <3>3. QED
      BY <3>1, <3>2
  <2>4. QED
    BY <1>i, <2>2, <2>3 DEF ChargeInv, logVars
<1>2. ASSUME NEW p \in Pages, Begin(p) \/ HtmlResponse(p) \/ HtmlFails(p)
      PROVE  ChargeInv'
  <2>1. CASE Begin(p)
    BY <1>1, <2>1 DEF Begin
  <2>2. CASE HtmlResponse(p)
    BY <1>1, <2>2 DEF HtmlResponse, HtmlGoes, HtmlSettles, OnlyHtml
  <2>3. CASE HtmlFails(p)
    BY <1>1, <2>3 DEF HtmlFails, HtmlSettles, OnlyHtml
  <2>4. QED
    BY <1>2, <2>1, <2>2, <2>3
<1>3. ASSUME NEW p \in Pages, HtmlBody(p)
      PROVE  ChargeInv'
  <2>1. /\ html[p] = "body" /\ html' = [html EXCEPT ![p] = "extract"]
        /\ con' = Console!Enter(con, p) /\ UNCHANGED <<htmlPage, logVars>>
    BY <1>3 DEF HtmlBody, HtmlGoes, OnlyHtml
  <2>2. con'.muzzled = con.muzzled
    BY <1>t, <2>1, EnterRegion DEF ChargeInv, ConsoleInv
  <2>3. QED
    BY <1>1, <2>1, <2>2
<1>4. ASSUME NEW p \in Pages, ExtractorLogs(p)
      PROVE  ChargeInv'
  <2>1. /\ html[p] = "extract" /\ p \notin logged /\ con' = Console!Log(con, p)
        /\ logged' = logged \cup {p} /\ UNCHANGED <<html, htmlPage, threw>>
        /\ hidden' = IF thirds = 0 \/ Console!Reached(con) THEN hidden ELSE hidden \cup {p}
    BY <1>4 DEF ExtractorLogs, OnlyHtml
  <2>2. p \in con.active
    BY <2>1 DEF ChargeInv, ConsoleInv
  <2>3. con'.muzzled = IF Console!Reached(con) THEN con.muzzled \cup {p} ELSE con.muzzled
    BY <1>t, <2>1, <2>2, LogKeeps
  <2>4. thirds = 0 => Console!Reached(con)
    BY <1>t, <2>2, FreshReached DEF ChargeInv, ConsoleInv
  <2>5. ASSUME NEW q \in Pages
        PROVE  ChargeSound(q)'
    <3>1. CASE q = p
      BY <1>t, <2>1, <2>3, <2>4, <3>1 DEF ChargeSound
    <3>2. CASE q # p
      BY <1>t, <2>1, <2>3, <2>4, <3>2 DEF ChargeSound
    <3>3. QED
      BY <3>1, <3>2
  <2>6. QED
    BY <1>i, <2>1, <2>5 DEF ChargeInv
<1>5. ASSUME NEW p \in Pages, Extracted(p)
      PROVE  ChargeInv'
  <2>1. PICK score \in Scores, throws \in BOOLEAN :
          /\ threw' = IF throws THEN threw \cup {p} ELSE threw
          /\ HtmlSettles(p, [source |-> IF throws \/ p \in con.muzzled
                                        THEN "defuddle-fallback" ELSE "defuddle",
                             score |-> score])
    BY <1>5 DEF Extracted
  <2> DEFINE page == [source |-> IF throws \/ p \in con.muzzled
                                 THEN "defuddle-fallback" ELSE "defuddle",
                      score |-> score]
  <2>2. /\ html' = [html EXCEPT ![p] = "settled"] /\ htmlPage' = [htmlPage EXCEPT ![p] = page]
        /\ page.source = "defuddle-fallback" <=> throws \/ p \in con.muzzled
    BY <2>1 DEF HtmlSettles
  <2> HIDE DEF page
  <2>3. /\ html[p] = "extract" /\ con' = Console!Leave(con, p) /\ UNCHANGED <<logged, hidden>>
    BY <1>5 DEF Extracted
  <2>4. con'.muzzled = con.muzzled
    <3>1. p \in con.active
      BY <2>3 DEF ChargeInv, ConsoleInv
    <3>2. QED
      BY <1>t, <2>3, <3>1, LeaveRegion
  <2>5. /\ html'[p] = "settled" /\ htmlPage'[p] = page
        /\ \A q \in Pages : q # p => html'[q] = html[q] /\ htmlPage'[q] = htmlPage[q]
    BY <1>t, <2>2
  <2>6. p \notin threw
    BY <1>t, <2>3 DEF ChargeSound
  <2>7. ASSUME NEW q \in Pages
        PROVE  ChargeSound(q)'
    <3>1. CASE q = p
      BY <1>t, <2>1, <2>2, <2>3, <2>4, <2>5, <2>6, <3>1 DEF ChargeSound
    <3>2. CASE q # p
      BY <1>t, <2>1, <2>3, <2>4, <2>5, <3>2 DEF ChargeSound
    <3>3. QED
      BY <3>1, <3>2
  <2>8. QED
    BY <1>i, <2>1, <2>3, <2>7 DEF ChargeInv
<1>6. CASE UNCHANGED <<html, htmlPage, logVars>> /\ con'.muzzled = con.muzzled
  BY <1>i, <1>6 DEF ChargeInv, ChargeSound, logVars
<1>7. CASE ThirdPartyReplaces \/ ThirdPartyPutsBack
  <2>1. con'.muzzled = con.muzzled
    BY <1>t, <1>7 DEF ThirdPartyReplaces, ThirdPartyPutsBack, Console!Replace, Console!PutBack,
                      Counted, ConsoleRecord
  <2>2. QED
    BY <1>6, <1>7, <2>1 DEF ThirdPartyReplaces, ThirdPartyPutsBack, pageVars
<1>8. ASSUME NEW p \in Pages,
             \/ AcceptResponse(p) \/ MarkdownBody(p) \/ FindResponse(p) \/ FindBody(p)
             \/ AlternateResponse(p) \/ MdFails(p) \/ FetchSingle(p)
      PROVE  ChargeInv'
  BY <1>6, <1>8 DEF AcceptResponse, MarkdownBody, FindResponse, FindBody, AlternateResponse, MdFails,
                    FetchSingle, OnlyMd
<1>9. CASE Done \/ UNCHANGED vars
  BY <1>6, <1>9 DEF Done, vars, pageVars
<1>10. QED
  BY <1>2, <1>3, <1>4, <1>5, <1>7, <1>8, <1>9 DEF Next, Page, Servers

(* A page is the fallback exactly for what its own extractor did, however  *)
(* many pages share the console: with any number of third parties.         *)
THEOREM DegradedCorrect == Spec => []DegradedIsOwn
<1>1. ChargeInv => DegradedIsOwn
  BY DEF ChargeInv, ChargeSound, DegradedIsOwn
<1>2. QED
  BY <1>1, ChargeInit, ChargeNext, PTL DEF Spec
===============================================================================
