-------------------------- MODULE InstanceFilesProofs --------------------------
(* Proofs about the page of the files of the instance, for any files,      *)
(* documents, searches and numbers of steps.                               *)
EXTENDS InstanceFiles, TLAPS

Lists == [files : UNION {[S -> BOOLEAN] : S \in SUBSET File}, docs : SUBSET Doc]
Pages == [listing : Lists, selected : Resource \cup {None}, preview : Resource \cup {None},
          asked : Resource \cup {None}, editing : BOOLEAN, text : Resource \cup {Empty},
          form : Group \cup {Root, None}, created : File \cup {None}, folded : SUBSET Group]

-----------------------------------------------------------------------------
(* The effects, one after the other.                                       *)

LEMMA ListedResources ==
  ASSUME NEW l \in Lists
  PROVE  /\ DOMAIN l.files \subseteq File /\ l.docs \subseteq Doc
         /\ l.files \in [DOMAIN l.files -> BOOLEAN]
         /\ Listed(l) \subseteq Resource /\ None \notin Listed(l)
         /\ Listed(l) \cap File = DOMAIN l.files
         /\ Groups(l) \subseteq Group
<1>1. PICK S \in SUBSET File : l.files \in [S -> BOOLEAN]
  BY DEF Lists
<1>2. DOMAIN l.files \subseteq File /\ l.docs \subseteq Doc /\ l.files \in [DOMAIN l.files -> BOOLEAN]
  BY <1>1 DEF Lists
<1>3. Listed(l) \subseteq Resource /\ None \notin Listed(l) /\ Listed(l) \cap File = DOMAIN l.files
  BY <1>2, FilesAssumption DEF Listed, Resource
<1>4. Groups(l) \subseteq Group
  BY <1>2, FilesAssumption DEF Groups, Folders, AgentGroups, ShownIn, Resource
<1> QED
  BY <1>2, <1>3, <1>4

LEMMA AskFacts ==
  ASSUME NEW q \in Pages, NEW again \in BOOLEAN
  PROVE  LET r == AskPreview(q, again) IN
         /\ r \in Pages /\ r.listing = q.listing /\ r.selected = q.selected /\ r.created = q.created
         /\ r.editing = q.editing /\ r.text = q.text /\ r.form = q.form
         /\ r.asked = IF ~again THEN q.asked ELSE IF q.selected \in Listed(q.listing) THEN q.selected ELSE None
         /\ r.preview \in {q.preview, None}
  BY DEF AskPreview, Pages

LEMMA ResetFacts ==
  ASSUME NEW p, NEW q \in Pages
  PROVE  LET r == ResetEdit(p, q) IN
         /\ r \in Pages /\ r.listing = q.listing /\ r.selected = q.selected /\ r.created = q.created
         /\ r.asked = q.asked /\ r.preview = q.preview
         /\ r.editing => q.editing /\ p.selected = q.selected
         /\ r.text \in {q.text, Empty} /\ r.form \in {q.form, None}
  BY DEF ResetEdit, Pages

LEMMA FillFacts ==
  ASSUME NEW p, NEW q \in Pages, NEW r \in Pages, NEW again \in BOOLEAN
  PROVE  LET s == FillEditor(p, q, r, again) IN
         /\ s \in Pages /\ s.listing = r.listing /\ s.selected = r.selected /\ s.created = r.created
         /\ s.asked = r.asked /\ s.preview = r.preview /\ s.editing = r.editing /\ s.form = r.form
         /\ s.text \in {r.text} \cup ({q.preview} \ {None})
  BY DEF FillEditor, Pages, Textual

LEMMA UnfoldFacts ==
  ASSUME NEW q \in Pages
  PROVE  LET s == Unfold(q) IN
         /\ s \in Pages /\ s.listing = q.listing /\ s.selected = q.selected /\ s.created = q.created
         /\ s.asked = q.asked /\ s.preview = q.preview /\ s.editing = q.editing /\ s.form = q.form
         /\ s.text = q.text /\ s.folded \subseteq Groups(s.listing)
  BY DEF Unfold, Pages

LEMMA ReselectFacts ==
  ASSUME NEW q \in Pages, NEW first \in Fallbacks(q.listing)
  PROVE  LET s == Reselect(q, first) IN
         /\ s \in Pages /\ s.listing = q.listing /\ s.created = q.created
         /\ s.asked = q.asked /\ s.preview = q.preview /\ s.editing = q.editing /\ s.form = q.form
         /\ s.text = q.text /\ s.folded = q.folded
         /\ s.selected \in Listed(q.listing) \cup {None} /\ (s.selected = None => Listed(q.listing) = {})
         /\ q.selected \in Listed(q.listing) \/ (Listed(q.listing) = {} /\ q.selected = None)
              => s.selected = q.selected
<1>1. q.listing \in Lists
  BY DEF Pages
<1>2. /\ first \in Listed(q.listing) \cup {None} /\ first \in Resource \cup {None}
      /\ first = None => Listed(q.listing) = {}
      /\ Listed(q.listing) = {} => first = None
  BY <1>1, ListedResources DEF Fallbacks, Listed
<1> QED
  BY <1>1, <1>2, ListedResources DEF Reselect, FallBack, Pages

LEMMA CreatedFacts ==
  ASSUME NEW q \in Pages
  PROVE  LET s == SelectCreated(q) IN
         /\ s \in Pages /\ s.listing = q.listing
         /\ s.asked = q.asked /\ s.preview = q.preview /\ s.editing = q.editing /\ s.form = q.form
         /\ s.text = q.text /\ s.folded = q.folded
         /\ s.selected = IF q.created \in DOMAIN q.listing.files THEN q.created ELSE q.selected
         /\ s.created \notin DOMAIN q.listing.files
<1>1. q.listing \in Lists
  BY DEF Pages
<1> QED
  BY <1>1, ListedResources, FilesAssumption DEF SelectCreated, Pages, Listed, Resource

LEMMA PassFacts ==
  ASSUME NEW p \in Pages, NEW q \in Pages, NEW again \in BOOLEAN, NEW first \in Fallbacks(q.listing)
  PROVE  LET r == Pass(p, q, again, first) IN
         /\ r \in Pages /\ r.listing = q.listing /\ r.folded \subseteq Groups(r.listing)
         /\ r.selected \in Listed(q.listing) \cup {None} /\ (r.selected = None => Listed(q.listing) = {})
         /\ r.created \notin DOMAIN q.listing.files
         /\ (/\ q.selected \in Listed(q.listing) \/ (Listed(q.listing) = {} /\ q.selected = None)
             /\ q.created \notin DOMAIN q.listing.files)
              => r.selected = q.selected
         /\ r.asked = IF ~again THEN q.asked ELSE IF q.selected \in Listed(q.listing) THEN q.selected ELSE None
         /\ r.editing => q.editing /\ p.selected = q.selected
         /\ r.preview \in {q.preview, None}
         /\ r.text \in {q.text, Empty} \cup ({q.preview} \ {None})
         /\ r.form \in {q.form, None}
<1> DEFINE a == AskPreview(q, again)
           b == ResetEdit(p, a)
           c == FillEditor(p, q, b, again)
           d == Unfold(c)
           e == Reselect(d, first)
           r == SelectCreated(e)
<1>1. r = Pass(p, q, again, first)
  BY DEF Pass
<1>2. /\ a \in Pages /\ a.listing = q.listing /\ a.selected = q.selected /\ a.created = q.created
      /\ a.editing = q.editing /\ a.text = q.text /\ a.form = q.form
      /\ a.asked = IF ~again THEN q.asked ELSE IF q.selected \in Listed(q.listing) THEN q.selected ELSE None
      /\ a.preview \in {q.preview, None}
  BY AskFacts
<1> HIDE DEF a
<1>3. /\ b \in Pages /\ b.listing = a.listing /\ b.selected = a.selected /\ b.created = a.created
      /\ b.asked = a.asked /\ b.preview = a.preview
      /\ b.editing => a.editing /\ p.selected = a.selected
      /\ b.text \in {a.text, Empty} /\ b.form \in {a.form, None}
  BY <1>2, ResetFacts
<1> HIDE DEF b
<1>4. /\ c \in Pages /\ c.listing = b.listing /\ c.selected = b.selected /\ c.created = b.created
      /\ c.asked = b.asked /\ c.preview = b.preview /\ c.editing = b.editing /\ c.form = b.form
      /\ c.text \in {b.text} \cup ({q.preview} \ {None})
  BY <1>3, FillFacts
<1> HIDE DEF c
<1>5. /\ d \in Pages /\ d.listing = c.listing /\ d.selected = c.selected /\ d.created = c.created
      /\ d.asked = c.asked /\ d.preview = c.preview /\ d.editing = c.editing /\ d.form = c.form
      /\ d.text = c.text /\ d.folded \subseteq Groups(d.listing)
  BY <1>4, UnfoldFacts
<1> HIDE DEF d
<1>6. /\ e \in Pages /\ e.listing = d.listing /\ e.created = d.created
      /\ e.asked = d.asked /\ e.preview = d.preview /\ e.editing = d.editing /\ e.form = d.form
      /\ e.text = d.text /\ e.folded = d.folded
      /\ e.selected \in Listed(d.listing) \cup {None} /\ (e.selected = None => Listed(d.listing) = {})
      /\ d.selected \in Listed(d.listing) \/ (Listed(d.listing) = {} /\ d.selected = None)
           => e.selected = d.selected
  <2>1. first \in Fallbacks(d.listing)
    BY <1>2, <1>3, <1>4, <1>5
  <2> QED
    BY <1>5, <2>1, ReselectFacts
<1> HIDE DEF e
<1>7. /\ r \in Pages /\ r.listing = e.listing
      /\ r.asked = e.asked /\ r.preview = e.preview /\ r.editing = e.editing /\ r.form = e.form
      /\ r.text = e.text /\ r.folded = e.folded
      /\ r.selected = IF e.created \in DOMAIN e.listing.files THEN e.created ELSE e.selected
      /\ r.created \notin DOMAIN e.listing.files
  BY <1>6, CreatedFacts
<1> HIDE DEF r
<1>8. q.listing \in Lists
  BY DEF Pages
<1>9. DOMAIN q.listing.files \subseteq Listed(q.listing) /\ None \notin Listed(q.listing)
  BY <1>8, ListedResources DEF Listed
<1>10. r.listing = q.listing /\ e.listing = q.listing /\ d.listing = q.listing
  BY <1>2, <1>3, <1>4, <1>5, <1>6, <1>7
<1>11. /\ r \in Pages /\ r.folded \subseteq Groups(r.listing) /\ r.created \notin DOMAIN q.listing.files
  BY <1>5, <1>6, <1>7, <1>10
<1>12. r.selected \in Listed(q.listing) \cup {None} /\ (r.selected = None => Listed(q.listing) = {})
  BY <1>6, <1>7, <1>9, <1>10
<1>13. d.selected = q.selected /\ e.created = q.created
  BY <1>2, <1>3, <1>4, <1>5, <1>6
<1>14. (/\ q.selected \in Listed(q.listing) \/ (Listed(q.listing) = {} /\ q.selected = None)
        /\ q.created \notin DOMAIN q.listing.files)
         => r.selected = q.selected
  BY <1>6, <1>7, <1>10, <1>13
<1>15. r.asked = a.asked /\ r.preview = a.preview
  BY <1>3, <1>4, <1>5, <1>6, <1>7
<1>16. r.editing => q.editing /\ p.selected = q.selected
  BY <1>2, <1>3, <1>4, <1>5, <1>6, <1>7
<1>17. r.text \in {q.text, Empty} \cup ({q.preview} \ {None}) /\ r.form \in {q.form, None}
  BY <1>2, <1>3, <1>4, <1>5, <1>6, <1>7
<1>18. r.asked = IF ~again THEN q.asked ELSE IF q.selected \in Listed(q.listing) THEN q.selected ELSE None
  BY <1>2, <1>15
<1>19. r.preview \in {q.preview, None}
  BY <1>2, <1>15
<1>20. r = Pass(p, q, again, first)
  BY <1>1
<1> QED
  BY <1>10, <1>11, <1>12, <1>14, <1>16, <1>17, <1>18, <1>19, <1>20
LEMMA SecondPass ==
  ASSUME NEW p \in Pages, NEW q \in Pages, NEW first \in Fallbacks(q.listing),
         q.selected \in Listed(q.listing) \cup {None}, q.selected = None => Listed(q.listing) = {},
         q.created \notin DOMAIN q.listing.files
  PROVE  LET r == Pass(p, q, TRUE, first) IN
         /\ r \in Pages /\ r.listing = q.listing /\ r.folded \subseteq Groups(r.listing)
         /\ r.selected = q.selected
         /\ r.asked \in {q.selected, None}
         /\ r.editing => p.selected = q.selected
<1> DEFINE r == Pass(p, q, TRUE, first)
<1>1. \A again \in BOOLEAN :
        LET x == Pass(p, q, again, first) IN
        /\ x \in Pages /\ x.listing = q.listing /\ x.folded \subseteq Groups(x.listing)
        /\ x.selected = q.selected
        /\ x.asked = IF ~again THEN q.asked ELSE IF q.selected \in Listed(q.listing) THEN q.selected ELSE None
        /\ x.editing => p.selected = q.selected
  BY PassFacts
<1>2. /\ r \in Pages /\ r.listing = q.listing /\ r.folded \subseteq Groups(r.listing)
      /\ r.selected = q.selected
      /\ r.asked = IF ~TRUE THEN q.asked ELSE IF q.selected \in Listed(q.listing) THEN q.selected ELSE None
      /\ r.editing => p.selected = q.selected
  BY <1>1
<1> HIDE DEF r
<1> QED
  BY <1>2 DEF r

(* What a rendering leaves, however often it is drawn.                     *)
Follows(r) ==
  /\ r.selected \in Listed(r.listing) \cup {None}
  /\ r.selected = None => Listed(r.listing) = {}
  /\ r.asked \in {r.selected, None} /\ r.folded \subseteq Groups(r.listing)
  /\ r.editing => r.selected \in DOMAIN r.listing.files

LEMMA RenderedFollows ==
  ASSUME NEW p \in Pages, NEW q \in Pages, NEW again \in BOOLEAN, NEW first \in Fallbacks(q.listing),
         q.editing /\ p.selected = q.selected => q.selected \in File,
         again \/ q.asked \in {q.selected, None}
  PROVE  LET r == Rendered(p, q, again, first) IN
         /\ r \in Pages /\ r.listing = q.listing /\ Follows(r)
         /\ r.editing => /\ q.editing /\ q.selected = p.selected /\ r.selected = q.selected
                        /\ r.preview \in {q.preview, None}
                        /\ r.text \in {q.text, Empty} \cup ({q.preview} \ {None})
                        /\ r.form \in {q.form, None}
<1> DEFINE s == Pass(p, q, again, first)
           t == Pass(q, s, TRUE, first)
           r == Rendered(p, q, again, first)
<1>1. r = IF s.selected = q.selected THEN s ELSE t
  BY DEF Rendered
<1> SUFFICES
      /\ r \in Pages /\ r.listing = q.listing /\ Follows(r)
      /\ r.editing => /\ q.editing /\ q.selected = p.selected /\ r.selected = q.selected
                     /\ r.preview \in {q.preview, None}
                     /\ r.text \in {q.text, Empty} \cup ({q.preview} \ {None})
                     /\ r.form \in {q.form, None}
  OBVIOUS
<1> HIDE DEF r
<1>2. /\ s \in Pages /\ s.listing = q.listing /\ s.folded \subseteq Groups(s.listing)
      /\ s.selected \in Listed(q.listing) \cup {None} /\ (s.selected = None => Listed(q.listing) = {})
      /\ s.created \notin DOMAIN q.listing.files
      /\ s.asked = IF ~again THEN q.asked ELSE IF q.selected \in Listed(q.listing) THEN q.selected ELSE None
      /\ s.editing => q.editing /\ p.selected = q.selected
      /\ s.preview \in {q.preview, None}
      /\ s.text \in {q.text, Empty} \cup ({q.preview} \ {None})
      /\ s.form \in {q.form, None}
  BY PassFacts
<1> HIDE DEF s
<1>3. q.listing \in Lists
  BY DEF Pages
<1>4. Listed(q.listing) \cap File = DOMAIN q.listing.files /\ None \notin Listed(q.listing) /\ None \notin File
  BY <1>3, ListedResources, FilesAssumption DEF Resource
<1>5. CASE s.selected = q.selected
  <2>1. s.asked \in {s.selected, None}
    BY <1>2, <1>5
  <2>2. s.editing => s.selected \in DOMAIN s.listing.files
    BY <1>2, <1>4, <1>5
  <2>3. Follows(s)
    BY <1>2, <2>1, <2>2 DEF Follows
  <2> QED
    BY <1>1, <1>2, <1>5, <2>3
<1>6. CASE s.selected # q.selected
  <2>1. first \in Fallbacks(s.listing)
    BY <1>2
  <2>2. /\ t \in Pages /\ t.listing = s.listing /\ t.folded \subseteq Groups(t.listing)
        /\ t.selected = s.selected /\ t.asked \in {s.selected, None}
        /\ t.editing => q.selected = s.selected
    <3>1. /\ s \in Pages /\ q \in Pages
          /\ s.selected \in Listed(s.listing) \cup {None} /\ (s.selected = None => Listed(s.listing) = {})
          /\ s.created \notin DOMAIN s.listing.files
      BY <1>2
    <3> HIDE <1>2
    <3> QED
      BY <3>1, <2>1, SecondPass, Zenon
  <2> HIDE DEF t
  <2>3. Follows(t) /\ ~t.editing
    BY <1>2, <1>6, <2>2 DEF Follows
  <2> QED
    BY <1>1, <1>2, <1>6, <2>2, <2>3
<1> QED
  BY <1>5, <1>6
-----------------------------------------------------------------------------
(* The page.                                                               *)

Rest ==
  /\ disk \subseteq File /\ ready \in BOOLEAN /\ keyword \in Keyword
  /\ due \in BOOLEAN /\ loads \subseteq Keyword /\ fresh \in BOOLEAN
  /\ command \in Command \cup {None} /\ left \in 0 .. MaxStep
PageInv == Rest /\ Page \in Pages /\ Follows(Page)

LEMMA InvMeans == PageInv => TypeOK /\ PageFollowsList
<1> SUFFICES ASSUME PageInv PROVE TypeOK /\ PageFollowsList
  OBVIOUS
<1>1. /\ listing \in Lists /\ {selected, preview, asked} \subseteq Resource \cup {None}
      /\ editing \in BOOLEAN /\ text \in Resource \cup {Empty}
      /\ form \in Group \cup {Root, None} /\ created \in File \cup {None} /\ folded \subseteq Group
  BY DEF PageInv, Page, Pages
<1>2. TypeOK
  BY <1>1, ListedResources DEF PageInv, Rest, TypeOK
<1>3. PageFollowsList
  BY DEF PageInv, Page, Follows, PageFollowsList
<1> QED
  BY <1>2, <1>3

LEMMA ListTyped ==
  ASSUME NEW k \in Keyword, disk \subseteq File
  PROVE  List(k) \in Lists
<1> DEFINE S == {g \in Matches[k] \cap File : g \in disk \cup Registered}
<1>1. FilesFound(k) \in [S -> BOOLEAN] /\ S \in SUBSET File
  BY DEF FilesFound
<1>2. DocsFound(k) \in SUBSET Doc
  BY DEF DocsFound
<1> QED
  BY <1>1, <1>2 DEF List, Lists

(* What a drawing does to the page of an action.                           *)
LEMMA Drawn ==
  ASSUME Page \in Pages, NEW q \in Pages, NEW again \in BOOLEAN, Draw(q, again),
         q.editing /\ selected = q.selected => q.selected \in File,
         again \/ q.asked \in {q.selected, None}
  PROVE  /\ Page' \in Pages /\ Follows(Page)'
         /\ editing' => /\ q.editing /\ q.selected = selected /\ selected' = selected
                       /\ preview' \in {q.preview, None}
                       /\ text' \in {q.text, Empty} \cup ({q.preview} \ {None})
                       /\ form' \in {q.form, None}
<1>1. PICK first \in Fallbacks(q.listing) :
        LET r == Rendered(Page, q, again, first)
        IN /\ listing' = r.listing /\ selected' = r.selected /\ preview' = r.preview /\ asked' = r.asked
           /\ editing' = r.editing /\ text' = r.text /\ form' = r.form /\ created' = r.created
           /\ folded' = r.folded
  BY DEF Draw
<1> DEFINE r == Rendered(Page, q, again, first)
<1>2. Page.selected = selected
  BY DEF Page
<1>3. /\ r \in Pages /\ r.listing = q.listing /\ Follows(r)
      /\ r.editing => /\ q.editing /\ q.selected = selected /\ r.selected = q.selected
                     /\ r.preview \in {q.preview, None}
                     /\ r.text \in {q.text, Empty} \cup ({q.preview} \ {None})
                     /\ r.form \in {q.form, None}
  BY <1>2, RenderedFollows
<1>4. /\ listing' = r.listing /\ selected' = r.selected /\ preview' = r.preview /\ asked' = r.asked
      /\ editing' = r.editing /\ text' = r.text /\ form' = r.form /\ created' = r.created
      /\ folded' = r.folded
  BY <1>1
<1> HIDE DEF r
<1>5. Page' \in Pages
  BY <1>3, <1>4 DEF Page, Pages
<1>6. Follows(Page)'
  BY <1>3, <1>4 DEF Follows, Page
<1> QED
  BY <1>3, <1>4, <1>5, <1>6
-----------------------------------------------------------------------------
(* The editor: no form is open beside it, only a save of its own file may  *)
(* be on its way, and once opened on its own preview it shows that.        *)

EditInv ==
  editing =>
    /\ form = None
    /\ command # None =>
         command.kind = "save" /\ command.file = selected /\ command.stage \in {"sent", "served", "failed"}
    /\ fresh => preview \in {selected, None} /\ text \in {selected, Empty}
FilesInv == PageInv /\ EditInv

LEMMA FilesInit == Init => FilesInv
<1> SUFFICES ASSUME Init PROVE FilesInv
  OBVIOUS
<1> USE DEF Init
<1>1. Rest /\ EditInv
  <2>1. EditInv
    BY DEF EditInv
  <2>2. left \in 0 .. MaxStep
    BY FilesAssumption
  <2>3. Rest
    BY <2>2, Zenon DEF Rest
  <2> QED
    BY <2>1, <2>3
<1>2. listing \in Lists /\ DOMAIN listing.files = {} /\ listing.docs = {}
  <2>1. <<>> \in [{} -> BOOLEAN]
    OBVIOUS
  <2> QED
    BY <2>1 DEF Lists
<1>3. Page \in Pages
  BY <1>2 DEF Page, Pages
<1>4. Follows(Page)
  BY <1>2 DEF Page, Follows, Listed
<1> QED
  BY <1>1, <1>3, <1>4 DEF FilesInv, PageInv

(* The page and its parts.                                                 *)
LEMMA Parts ==
  ASSUME PageInv
  PROVE  /\ listing \in Lists /\ {selected, preview, asked} \subseteq Resource \cup {None}
         /\ editing \in BOOLEAN /\ text \in Resource \cup {Empty}
         /\ form \in Group \cup {Root, None} /\ created \in File \cup {None} /\ folded \subseteq Group
         /\ selected \in Listed(listing) \cup {None} /\ asked \in {selected, None}
         /\ editing => selected \in DOMAIN listing.files /\ selected \in File
         /\ DOMAIN listing.files \subseteq File
<1>1. listing \in Lists
  BY DEF PageInv, Page, Pages
<1>2. DOMAIN listing.files \subseteq File
  BY <1>1, ListedResources
<1>3. /\ {selected, preview, asked} \subseteq Resource \cup {None}
      /\ editing \in BOOLEAN /\ text \in Resource \cup {Empty}
      /\ form \in Group \cup {Root, None} /\ created \in File \cup {None} /\ folded \subseteq Group
  BY DEF PageInv, Page, Pages
<1>4. /\ selected \in Listed(listing) \cup {None} /\ asked \in {selected, None}
      /\ editing => selected \in DOMAIN listing.files
  BY DEF PageInv, Page, Follows
<1> QED
  BY <1>1, <1>2, <1>3, <1>4

(* Nothing of the page changes.                                            *)
LEMMA SamePage ==
  ASSUME PageInv, UNCHANGED page
  PROVE  Page' \in Pages /\ Follows(Page)' /\ Page' = Page
  BY DEF PageInv, page, Page

LEMMA Spent ==
  ASSUME left \in 0 .. MaxStep, Spend
  PROVE  left' \in 0 .. MaxStep
  BY FilesAssumption DEF Spend

LEMMA QuietStep ==
  ASSUME FilesInv,
         \/ Resolve \/ Search \/ SearchTimer \/ \E k \in Keyword : LoadFails(k)
         \/ Failed \/ \E f \in File : AgentActs(f)
  PROVE  FilesInv'
<1> USE DEF FilesInv
<1>1. UNCHANGED page /\ UNCHANGED fresh /\ command' \in {command, None}
  BY DEF Resolve, Search, SearchTimer, LoadFails, Failed, AgentActs
<1>2. Page' \in Pages /\ Follows(Page)'
  BY <1>1, SamePage
<1>3. Rest'
  BY Spent DEF PageInv, Rest, Resolve, Search, SearchTimer, LoadFails, Failed, AgentActs, lists
<1>4. EditInv'
  BY <1>1 DEF EditInv, page
<1> QED
  BY <1>2, <1>3, <1>4 DEF PageInv
LEMMA PartStep ==
  ASSUME FilesInv, Type \/ OpenCreate \/ ChooseTarget \/ CloseCreate \/ \E g \in Group : Fold(g)
  PROVE  FilesInv'
<1> USE DEF FilesInv
<1>1. UNCHANGED <<disk, ready, keyword, due, loads, command>>
  BY DEF Type, OpenCreate, ChooseTarget, CloseCreate, Fold, lists
<1>2. UNCHANGED <<listing, selected, preview, asked, editing, created, fresh>>
  BY DEF Type, OpenCreate, ChooseTarget, CloseCreate, Fold
<1>3. left' \in 0 .. MaxStep
  BY Spent DEF PageInv, Rest, Type, OpenCreate, ChooseTarget, CloseCreate, Fold
<1>4. text' \in Resource \cup {Empty} /\ (editing /\ fresh => text' \in {selected, Empty})
  BY Parts DEF Type, OpenCreate, ChooseTarget, CloseCreate, Fold, EditInv, Resource
<1>5. form' \in Group \cup {Root, None} /\ (editing => form' = None)
  <2>1. CASE OpenCreate
    <3>1. DirectoryOf(selected) \in Group \cup {Root} \/ selected \notin DOMAIN listing.files
      BY Parts, FilesAssumption DEF DirectoryOf, Resource
    <3> QED
      BY <2>1, <3>1 DEF OpenCreate
  <2>2. CASE ChooseTarget
    <3>1. Options(listing) \subseteq Group \cup {Root}
      BY Parts, FilesAssumption DEF Options, DirectoryOf, Resource
    <3> QED
      BY <2>2, <3>1 DEF ChooseTarget, EditInv
  <2>3. CASE CloseCreate
    BY <2>3 DEF CloseCreate
  <2>4. CASE Type \/ \E g \in Group : Fold(g)
    BY <2>4, Parts DEF Type, Fold, EditInv
  <2> QED
    BY <2>1, <2>2, <2>3, <2>4
<1>6. folded' \subseteq Groups(listing) /\ folded' \subseteq Group
  <2>1. folded \subseteq Groups(listing) /\ folded \subseteq Group /\ Groups(listing) \subseteq Group
    BY Parts, ListedResources DEF PageInv, Follows, Page
  <2> QED
    BY <2>1 DEF Type, OpenCreate, ChooseTarget, CloseCreate, Fold
<1>7. Page' \in Pages
  BY <1>2, <1>4, <1>5, <1>6, Parts DEF Page, Pages
<1>8. Follows(Page)'
  BY <1>2, <1>6 DEF PageInv, Page, Follows
<1>9. Rest'
  BY <1>1, <1>2, <1>3 DEF PageInv, Rest
<1>10. EditInv'
  BY <1>1, <1>2, <1>4, <1>5 DEF EditInv
<1> QED
  BY <1>7, <1>8, <1>9, <1>10 DEF PageInv

LEMMA Sending ==
  ASSUME FilesInv, NEW kind \in {"save", "delete", "create"}, NEW f \in File, NEW t \in Resource \cup {Empty},
         Send(kind, f, t)
  PROVE  /\ command' \in Command /\ left' \in 0 .. MaxStep
         /\ command'.kind = kind /\ command'.file = f /\ command'.stage = "sent"
  BY Spent DEF FilesInv, PageInv, Rest, Send, Command

LEMMA CommandStep ==
  ASSUME FilesInv, Save \/ Delete \/ Create \/ Serve
  PROVE  FilesInv'
<1> USE DEF FilesInv
<1>1. UNCHANGED page /\ UNCHANGED <<fresh, lists>>
  BY DEF Save, Delete, Create, Serve
<1>2. Page' \in Pages /\ Follows(Page)'
  BY <1>1, SamePage
<1>3. UNCHANGED <<editing, form, selected, preview, text>>
  BY <1>1 DEF page
<1>4. CASE Save
  <2>1. /\ command' \in Command /\ left' \in 0 .. MaxStep
        /\ command'.kind = "save" /\ command'.file = selected /\ command'.stage = "sent"
    BY <1>4, Parts, Sending DEF Save
  <2> QED
    BY <1>1, <1>2, <1>3, <1>4, <2>1 DEF Save, PageInv, Rest, EditInv, lists
<1>5. CASE Delete
  <2>1. selected \in File
    BY <1>5, Parts DEF Delete, Deletable
  <2>2. command' \in Command /\ left' \in 0 .. MaxStep
    BY <1>5, <2>1, Sending DEF Delete
  <2> QED
    BY <1>1, <1>2, <1>3, <1>5, <2>2 DEF Delete, PageInv, Rest, EditInv, lists
<1>6. CASE Create
  <2>1. command' \in Command /\ left' \in 0 .. MaxStep
    BY <1>6, Sending DEF Create
  <2>2. form # None
    BY <1>6, Parts, FilesAssumption DEF Create, Options, DirectoryOf, Resource
  <2> QED
    BY <1>1, <1>2, <1>3, <1>6, <2>1, <2>2 DEF Create, PageInv, Rest, EditInv, lists
<1>7. CASE Serve
  <2>1. command \in Command /\ command.stage = "sent" /\ command # None
    BY <1>7 DEF Serve, At, PageInv, Rest
  <2>2. command' \in Command /\ command'.kind = command.kind /\ command'.file = command.file
        /\ command'.stage \in {"served", "failed"}
    BY <1>7, <2>1 DEF Serve, Moves, Command
  <2>3. left' \in 0 .. MaxStep
    BY <1>7, Spent DEF Serve, PageInv, Rest
  <2>4. disk' \subseteq File
    BY <1>7, <2>1 DEF Serve, PageInv, Rest, Erased, Written, Command
  <2>5. Rest'
    BY <1>1, <2>2, <2>3, <2>4 DEF PageInv, Rest, lists
  <2>6. EditInv'
    BY <1>1, <1>3, <2>1, <2>2, FilesAssumption DEF EditInv
  <2> QED
    BY <1>2, <2>5, <2>6 DEF PageInv
<1> QED
  BY <1>4, <1>5, <1>6, <1>7
LEMMA ReadStep ==
  ASSUME FilesInv,
         \/ \E k \in Keyword : LoadAnswered(k)
         \/ PreviewAnswered \/ \E r \in Resource : Select(r)
         \/ Cancel
  PROVE  FilesInv'
<1> USE DEF FilesInv
<1>1. Page \in Pages /\ UNCHANGED <<command, fresh, disk>>
  BY DEF PageInv, LoadAnswered, PreviewAnswered, Select, Cancel
<1>2. Rest'
  BY Spent DEF PageInv, Rest, LoadAnswered, PreviewAnswered, Select, Cancel, lists
<1>3. PICK q \in Pages, again \in BOOLEAN :
        /\ Draw(q, again)
        /\ q.editing /\ selected = q.selected => q.selected \in File
        /\ again \/ q.asked \in {q.selected, None}
        /\ q.editing => editing
        /\ q.preview \in {preview, None} \/ (q.preview = selected /\ q.selected = selected)
        /\ q.text = text /\ q.form = form
  <2>1. ASSUME NEW k \in Keyword, LoadAnswered(k)
        PROVE  LET q == [Page EXCEPT !.listing = List(k)] IN
               /\ q \in Pages /\ Draw(q, TRUE) /\ (q.editing => editing /\ q.selected \in File)
               /\ q.preview = preview /\ q.text = text /\ q.form = form
    BY <1>1, <2>1, ListTyped, Parts DEF LoadAnswered, Page, Pages, PageInv, Rest
  <2>2. CASE PreviewAnswered
    <3>1. PICK x \in {asked, None} : Draw([Page EXCEPT !.preview = x, !.asked = None], FALSE)
      BY <2>2 DEF PreviewAnswered
    <3>2. x \in {selected, None} /\ x \in Resource \cup {None}
      BY Parts
    <3>3. LET q == [Page EXCEPT !.preview = x, !.asked = None] IN
          /\ q \in Pages /\ (q.editing => editing /\ q.selected \in File)
          /\ q.preview = x /\ q.asked = None /\ q.text = text /\ q.form = form /\ q.selected = selected
      BY <1>1, <3>2, Parts DEF Page, Pages
    <3> QED
      BY <3>1, <3>2, <3>3
  <2>3. ASSUME NEW r \in Resource, Select(r)
        PROVE  LET q == [Page EXCEPT !.selected = r] IN
               /\ q \in Pages /\ Draw(q, TRUE) /\ (q.editing => editing)
               /\ (q.editing /\ q.selected = selected => selected \in File)
               /\ q.preview = preview /\ q.text = text /\ q.form = form
    BY <1>1, <2>3, Parts DEF Select, Page, Pages
  <2>4. CASE Cancel
    <3>1. LET q == [Page EXCEPT !.editing = FALSE] IN
          /\ q \in Pages /\ ~q.editing /\ q.asked = asked /\ q.selected = selected
          /\ q.preview = preview /\ q.text = text /\ q.form = form
      BY <1>1 DEF Page, Pages
    <3> QED
      BY <2>4, <3>1, Parts DEF Cancel
  <2> QED
    BY <2>1, <2>2, <2>3, <2>4
<1>4. /\ Page' \in Pages /\ Follows(Page)'
      /\ editing' => /\ q.editing /\ q.selected = selected /\ selected' = selected
                    /\ preview' \in {q.preview, None}
                    /\ text' \in {q.text, Empty} \cup ({q.preview} \ {None})
                    /\ form' \in {q.form, None}
  BY <1>1, <1>3, Drawn
<1>5. EditInv'
  BY <1>1, <1>3, <1>4 DEF EditInv
<1> QED
  BY <1>2, <1>4, <1>5 DEF PageInv

LEMMA EditStep ==
  ASSUME FilesInv, StartEdit
  PROVE  FilesInv'
<1> USE DEF FilesInv
<1> DEFINE typed == IF Missing(listing, selected) THEN Empty ELSE preview
           q == [Page EXCEPT !.editing = TRUE, !.text = typed]
<1>1. Page \in Pages /\ UNCHANGED <<command, disk>> /\ command = None /\ form = None
  BY DEF PageInv, StartEdit, CanStartEdit, StartsWhenIdle, StartsAnyTime
<1>2. selected \in DOMAIN listing.files /\ selected \in File
  BY Parts DEF StartEdit, CanStartEdit, StartsWhenIdle, StartsAnyTime, CanEdit
<1>3. typed \in Resource \cup {Empty} /\ typed \in {Empty} \cup ({preview} \ {None})
  BY Parts DEF StartEdit, CanStartEdit, StartsWhenIdle, StartsAnyTime, CanEdit, Textual
<1> HIDE DEF typed
<1>4. /\ q \in Pages /\ q.selected = selected /\ q.preview = preview /\ q.text = typed /\ q.form = form
      /\ q.asked = asked
  BY <1>1, <1>3 DEF Page, Pages
<1>5. Draw(q, FALSE) /\ fresh' = (preview \in {selected, None})
  BY DEF StartEdit, typed
<1> HIDE DEF q
<1>6. q.asked \in {q.selected, None}
  BY <1>4, Parts
<1>7. \E again \in BOOLEAN : Draw(q, again)
  BY <1>5
<1>8. PICK again \in BOOLEAN : Draw(q, again)
  BY <1>7
<1>9. /\ Page' \in Pages /\ Follows(Page)'
      /\ editing' => /\ selected' = selected
                    /\ preview' \in {q.preview, None}
                    /\ text' \in {q.text, Empty} \cup ({q.preview} \ {None})
                    /\ form' \in {q.form, None}
  BY <1>1, <1>2, <1>4, <1>6, <1>8, Drawn
<1>10. Rest'
  <2>1. fresh' \in BOOLEAN
    BY <1>5
  <2>2. left' \in 0 .. MaxStep
    BY Spent DEF StartEdit, PageInv, Rest
  <2> QED
    BY <1>1, <2>1, <2>2 DEF StartEdit, PageInv, Rest, lists
<1>11. EditInv'
  <2>1. SUFFICES ASSUME editing'
                 PROVE  /\ form' = None /\ command' = None
                        /\ fresh' => preview' \in {selected', None} /\ text' \in {selected', Empty}
    BY DEF EditInv
  <2>2. form' = None /\ command' = None
    BY <1>1, <1>4, <1>9, <2>1
  <2>3. selected' = selected /\ preview' \in {preview, None} /\ text' \in {Empty} \cup ({preview} \ {None})
    BY <1>3, <1>4, <1>9, <2>1
  <2>4. ASSUME fresh' PROVE preview \in {selected, None}
    BY <1>5, <2>4
  <2> QED
    BY <2>2, <2>3, <2>4
<1> QED
  BY <1>9, <1>10, <1>11 DEF PageInv

(* The answer of a command and what is read after it.                      *)
LEMMA AnswerStep ==
  ASSUME FilesInv, Answered \/ Reloaded \/ Refreshed
  PROVE  FilesInv'
<1> USE DEF FilesInv
<1>1. /\ Page \in Pages /\ UNCHANGED <<disk, lists, fresh>>
      /\ command \in Command /\ command # None /\ command.stage \in {"served", "load", "preview"}
  BY DEF PageInv, Rest, Answered, Reloaded, Refreshed, At
<1>2. ~editing \/ (form = None /\ command.kind = "save" /\ command.stage = "served")
  BY <1>1 DEF EditInv
<1>3. command' \in Command \cup {None}
  BY <1>1 DEF Answered, Reloaded, Refreshed, Moves, Command
<1>4. left' \in 0 .. MaxStep
  BY Spent DEF Answered, Reloaded, Refreshed, PageInv, Rest
<1>5. Rest'
  BY <1>1, <1>3, <1>4 DEF PageInv, Rest, lists
<1>6. CASE Refreshed /\ UNCHANGED page
  <2>1. Page' \in Pages /\ Follows(Page)'
    BY <1>6, SamePage
  <2>2. ~editing'
    BY <1>2, <1>6 DEF page, Refreshed, At
  <2> QED
    BY <1>5, <2>1, <2>2 DEF PageInv, EditInv
<1>7. ASSUME NEW q \in Pages, NEW again \in BOOLEAN, Draw(q, again), ~q.editing,
             again \/ q.asked \in {q.selected, None}
      PROVE  FilesInv'
  <2>1. Page' \in Pages /\ Follows(Page)' /\ ~editing'
    BY <1>1, <1>7, Drawn
  <2> QED
    BY <1>5, <2>1 DEF PageInv, EditInv
<1>8. CASE Answered
  <2> DEFINE saved == [Page EXCEPT !.editing = FALSE]
             deleted == [Page EXCEPT !.editing = FALSE, !.text = Empty]
             made == [Page EXCEPT !.form = None, !.created = command.file]
  <2>1. Draw(saved, FALSE) \/ Draw(deleted, FALSE) \/ (command.kind = "create" /\ Draw(made, FALSE))
    BY <1>1, <1>8 DEF Answered, Command
  <2>2. \A q \in {saved, deleted} : q \in Pages /\ ~q.editing /\ q.asked = asked /\ q.selected = selected
    BY <1>1, ZenonT(30) DEF Page, Pages
  <2>3. command.kind = "create" =>
          made \in Pages /\ ~made.editing /\ made.asked = asked /\ made.selected = selected
    BY <1>1, <1>2 DEF Page, Pages, Command
  <2> HIDE DEF saved, deleted, made
  <2>4. PICK q \in Pages : Draw(q, FALSE) /\ ~q.editing /\ q.asked = asked /\ q.selected = selected
    BY <2>1, <2>2, <2>3
  <2>5. PICK again \in BOOLEAN : Draw(q, again)
    BY <2>4
  <2>6. q.asked \in {q.selected, None}
    BY <2>4, Parts
  <2> QED
    BY <1>7, <2>4, <2>5, <2>6
<1>9. CASE Reloaded
  <2> DEFINE read == [Page EXCEPT !.listing = List(command.key)]
             readNone == [read EXCEPT !.preview = None]
             none == [Page EXCEPT !.preview = None]
  <2>1. \/ \E q \in {read, readNone} : Draw(q, TRUE)
        \/ \E q \in {Page, none} : Draw(q, FALSE)
    BY <1>9 DEF Reloaded
  <2>2. List(command.key) \in Lists
    BY <1>1, ListTyped DEF Command, PageInv, Rest
  <2>3. ~editing
    BY <1>2, <1>9 DEF Reloaded, At
  <2>4. \A q \in {read, readNone} : q \in Pages /\ ~q.editing
    BY <1>1, <2>2, <2>3 DEF Page, Pages
  <2>5. \A q \in {Page, none} : q \in Pages /\ ~q.editing /\ q.asked = asked /\ q.selected = selected
    BY <1>1, <2>3 DEF Page, Pages
  <2> HIDE DEF read, readNone, none
  <2>6. asked \in {selected, None}
    BY Parts
  <2>7. \E q \in Pages, again \in BOOLEAN :
          Draw(q, again) /\ ~q.editing /\ (again \/ q.asked \in {q.selected, None})
    BY <2>1, <2>4, <2>5, <2>6
  <2> QED
    BY <1>7, <2>7
<1>10. CASE Refreshed /\ ~UNCHANGED page
  <2> DEFINE q == [Page EXCEPT !.preview = command.file]
  <2>1. Draw(q, FALSE)
    BY <1>10 DEF Refreshed
  <2>2. ~editing
    BY <1>2, <1>10 DEF Refreshed, At
  <2>3. q \in Pages /\ ~q.editing /\ q.asked = asked /\ q.selected = selected
    BY <1>1, <2>2 DEF Page, Pages, Command, Resource
  <2> HIDE DEF q
  <2>4. PICK again \in BOOLEAN : Draw(q, again)
    BY <2>1
  <2>5. q.asked \in {q.selected, None}
    BY <2>3, Parts
  <2> QED
    BY <1>7, <2>3, <2>4, <2>5
<1> QED
  BY <1>6, <1>8, <1>9, <1>10

LEMMA FilesStep == FilesInv /\ [Next]_vars => FilesInv'
<1> SUFFICES ASSUME FilesInv, [Next]_vars PROVE FilesInv'
  OBVIOUS
<1>1. CASE UNCHANGED vars
  <2>1. Page' \in Pages /\ Follows(Page)'
    BY <1>1, SamePage DEF FilesInv, vars
  <2>2. Rest'
    BY <1>1 DEF FilesInv, PageInv, Rest, vars, lists
  <2>3. EditInv'
    BY <1>1 DEF FilesInv, EditInv, vars, page
  <2> QED
    BY <2>1, <2>2, <2>3 DEF FilesInv, PageInv
<1>2. CASE Next
  BY <1>2, QuietStep, PartStep, CommandStep, ReadStep, EditStep, AnswerStep DEF Next
<1> QED
  BY <1>1, <1>2

-----------------------------------------------------------------------------
(* Types; in particular no document of an agent is ever the file of a      *)
(* command, so that documents are never written or deleted.                *)
THEOREM TypeCorrect == Spec => []TypeOK
<1>1. FilesInv => TypeOK
  BY InvMeans DEF FilesInv
<1> QED
  BY <1>1, FilesInit, FilesStep, PTL DEF Spec

(* Whatever the order in which lists, previews and commands are answered,  *)
(* the effects of the page leave nothing selected, waited for, edited or   *)
(* folded that its list does not hold.                                     *)
THEOREM PageFollows == Spec => []PageFollowsList
<1>1. FilesInv => PageFollowsList
  BY InvMeans DEF FilesInv
<1> QED
  BY <1>1, FilesInit, FilesStep, PTL DEF Spec

(* An editor that was opened on the preview of its own file never holds    *)
(* the text of another one: only a save of its own file may run beside it, *)
(* and the preview read after that save finds it closed.                   *)
THEOREM EditorKeeps == Spec => []EditorKeepsToFile
<1>1. FilesInv => EditorKeepsToFile
  BY DEF FilesInv, EditInv, EditorKeepsToFile
<1> QED
  BY <1>1, FilesInit, FilesStep, PTL DEF Spec
================================================================================
