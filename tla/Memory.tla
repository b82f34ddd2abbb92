------------------------------- MODULE Memory -------------------------------
(***************************************************************************)
(* The long-term memory of a novel (src/llm_studio/memory): documents made *)
(* from the rows of the library or written by hand, their search index,    *)
(* and the versions of the chapter summaries.                              *)
(*                                                                         *)
(* A document is indexed as a whole: `index` is the content its chunks     *)
(* were cut from, <<>> when it has none (module MemoryRetrieval cuts and   *)
(* ranks them).  A hash is the text it is of.  `activated` is history: the *)
(* activation of the summary came to its end.                              *)
(*                                                                         *)
(* Handlers run one at a time on the event loop, except that the           *)
(* generation of a summary awaits the model between its two halves.  A     *)
(* call that commits several transactions may be cut off after any of them *)
(* by the end of the process or an error: `upto` says how many came        *)
(* through.                                                                *)
(***************************************************************************)
EXTENDS Revisions

CONSTANTS DocumentPage,   \* the most documents one list call returns (500)
          MaxDocuments,   \* bound on the documents
          MaxSummaries    \* bound on the summary versions

VARIABLES doc,            \* the rows of memory_documents, each with its index
          summary,        \* the rows of chapter_summary_versions
          asked           \* the summary the model is writing, or NoSummary

memoryVars == <<doc, summary, asked>>

DocumentStatuses == {"active", "stale", "archived", "deleted"}
SummaryTypes == {"short", "detailed"}
Sections == {"character", "world", "thread", "event", "chapter", "scene", "revision"}
NoSummary == [chapter |-> None]

ShouldIndex(s) == s \notin {"archived", "deleted"}

MemoryInit == doc = << >> /\ summary = << >> /\ asked = NoSummary

-----------------------------------------------------------------------------
(* MemoryRepository and MemoryIndexService, as functions of the documents  *)

Key(p, type, source, field) ==
  [project |-> p, type |-> type, source |-> source, field |-> field, title |-> "source"]

InsertDocument(ds, key, content, s) ==
  Append(ds, [key |-> key, content |-> content, status |-> s, index |-> <<>>])

(* rebuild_document and replace_document_chunks: a stale document is       *)
(* active again, an archived one stays archived but has chunks.            *)
Rebuilt(row) == [row EXCEPT !.index = row.content,
                            !.status = IF @ \in {"active", "stale"} THEN "active" ELSE @]
Emptied(row) == [row EXCEPT !.index = <<>>]

Listed(ds, p, s) == {d \in DOMAIN ds : ds[d].key.project = p /\ ds[d].status = s}

(* A rebuild of a project asks for 10000 documents of each status and is   *)
(* given a page of them, the last written; which these are is left open.   *)
InPage(ds, p, s, some) == Cardinality(some \cap Listed(ds, p, s)) =< DocumentPage
WholePage(ds, p, s, some) ==
  IF Cardinality(Listed(ds, p, s)) =< DocumentPage THEN Listed(ds, p, s) \subseteq some
  ELSE Cardinality(some \cap Listed(ds, p, s)) = DocumentPage

(* `some` are the documents rebuilt when it ends, or is cut off: a commit  *)
(* for each, the active ones before the stale.                             *)
Rebuildable(ds, p, some) ==
  /\ some \subseteq Listed(ds, p, "active") \cup Listed(ds, p, "stale")
  /\ InPage(ds, p, "active", some) /\ InPage(ds, p, "stale", some)
  /\ some \cap Listed(ds, p, "stale") # {} => WholePage(ds, p, "active", some)
RebuildEnds(ds, p, some) ==
  Rebuildable(ds, p, some) /\ WholePage(ds, p, "active", some) /\ WholePage(ds, p, "stale", some)

RebuildProjectIndex(ds, some) ==
  [d \in DOMAIN ds |-> IF d \in some THEN Rebuilt(ds[d]) ELSE ds[d]]

(* find_source_document: the oldest that is not deleted.                   *)
MutSameSource(ds, key) ==
  {d \in DOMAIN ds : [ds[d].key EXCEPT !.field = key.field] = key /\ ds[d].status # "deleted"}
SameSource(ds, key) == {d \in DOMAIN ds : ds[d].key = key /\ ds[d].status # "deleted"}

(* upsert_source_document: an archived document whose source changed is    *)
(* active again.  The index is left as it was.                             *)
Upsert(ds, x) ==
  IF SameSource(ds, x.key) = {} THEN InsertDocument(ds, x.key, x.content, "active")
  ELSE LET d == Min(SameSource(ds, x.key))
           changed == ds[d].content # x.content
       IN  [ds EXCEPT ![d].content = x.content,
                      ![d].status = IF changed \/ @ = "stale" THEN "active" ELSE @]

(* The documents after the first n upserts, a commit for each.             *)
Upserted(ds, payloads) ==
  LET after[n \in Nat] == IF n = 0 THEN ds ELSE Upsert(after[n - 1], payloads[n])
  IN  after

-----------------------------------------------------------------------------
(* What the rows of the library become (_source_payloads)                  *)

(* The card of a row: a heading that is never empty, then its text.        *)
Card(i) == [key |-> Key(novel[i].project, novel[i].kind, i, None),
            content |-> <<novel[i].kind>> \o novel[i].draft]

ChapterPayloads(i) ==
  LET p == novel[i].project
      text == IF novel[i].final # <<>> THEN novel[i].final ELSE novel[i].draft
      field == IF novel[i].final # <<>> THEN "final_content" ELSE "draft_content"
  IN  (IF novel[i].summary = <<>> THEN <<>>
       ELSE <<[key |-> Key(p, "chapter", i, "summary"), content |-> novel[i].summary]>>)
      \o (IF text = <<>> THEN <<>> ELSE <<[key |-> Key(p, "chapter", i, field), content |-> text]>>)

Indexed(ids) == SelectSeq(Page(ids), LAMBDA i : ShouldIndex(novel[i].status))

(* The scenes of the live chapters, the archived chapters among them.      *)
ScenePayloads(p) ==
  FoldLeft(LAMBDA acc, c : acc \o Indexed({i \in Of("scene", p) : novel[i].parent = c}),
           <<>>, Page(Of("chapter", p)))

RevisionPayloads(p) ==
  LET ids == {r \in DOMAIN revision : revision[r].project = p /\ revision[r].status # "archived"}
  IN  [n \in 1..Cardinality(ids) |->
         LET r == SetToSortSeq(ids, <)[n]
         IN  [key |-> Key(p, "revision", r, None), content |-> revision[r].edited]]

Cards(ids) == [n \in DOMAIN ids |-> Card(ids[n])]

Payloads(p, section) ==
  CASE section = "chapter" -> FoldLeft(LAMBDA acc, i : acc \o ChapterPayloads(i), <<>>, Indexed(Of("chapter", p)))
    [] section = "scene" -> Cards(ScenePayloads(p))
    [] section = "revision" -> RevisionPayloads(p)
    [] OTHER -> Cards(Indexed(Of(section, p)))

SourcePayloads(p, include) ==
  FoldLeft(LAMBDA acc, section : IF section \in include THEN acc \o Payloads(p, section) ELSE acc,
           <<>>, <<"character", "world", "thread", "event", "chapter", "scene", "revision">>)

-----------------------------------------------------------------------------
(* MemoryService: documents                                                *)

(* The row, then its index.                                                *)
CreateDocument(p, content, s, upto) ==
  LET key == [Key(p, "manual_note", None, None) EXCEPT !.title = "own"]
      row == Last(InsertDocument(<<>>, key, content, s))
  IN  /\ Live("project", p) /\ content # <<>> /\ Len(doc) < MaxDocuments
      /\ doc' = Append(doc, IF upto = 2 /\ ShouldIndex(s) THEN Rebuilt(row) ELSE row)
      /\ UNCHANGED <<summary, asked>>

Found(d) == d \in DOMAIN doc /\ doc[d].status # "deleted"

(* What the second transaction of a PATCH makes of the row the first wrote *)
(* (`given`: with a title or content): one patched to deleted keeps its    *)
(* chunks, because the read that follows the UPDATE no longer finds it.    *)
Patched(d, row, given) ==
  CASE row.status = "deleted" -> row
    [] given /\ ShouldIndex(row.status) -> Rebuilt(row)
    [] row.status = "archived" /\ doc[d].status # "archived" -> Emptied(row)
    [] OTHER -> row

UpdateDocument(d, content, title, s, upto) ==
  /\ Found(d)
  /\ LET row == [doc[d] EXCEPT !.content = IF content = <<>> THEN @ ELSE content,
                               !.key.title = IF title = "kept" THEN @ ELSE title, !.status = s]
         given == content # <<>> \/ title # "kept"
     IN  doc' = [doc EXCEPT ![d] = IF upto = 2 THEN Patched(d, row, given) ELSE row]
  /\ UNCHANGED <<summary, asked>>

ArchiveDocument(d, upto) ==
  /\ Found(d)
  /\ LET row == [doc[d] EXCEPT !.status = "archived"]
     IN  doc' = [doc EXCEPT ![d] = IF upto = 2 THEN Emptied(row) ELSE row]
  /\ UNCHANGED <<summary, asked>>

(* The process may end after any commit: `done` payloads are upserted, and *)
(* `some` documents rebuilt after the last of them, none when the request  *)
(* has rebuild_index off.                                                  *)
BuildFromNovel(p, include, done) ==
  LET payloads == SourcePayloads(p, include)
      built == Upserted(doc, payloads)[done]
  IN  /\ Live("project", p)
      /\ done \in 0..Len(payloads) /\ Len(built) =< MaxDocuments
      /\ \E some \in IF done = Len(payloads) THEN SUBSET DOMAIN built ELSE {{}} :
           Rebuildable(built, p, some) /\ doc' = RebuildProjectIndex(built, some)
      /\ UNCHANGED <<summary, asked>>

RebuildProject(p, some) ==
  /\ Live("project", p) /\ Rebuildable(doc, p, some)
  /\ doc' = RebuildProjectIndex(doc, some)
  /\ UNCHANGED <<summary, asked>>

RebuildDocument(d) ==
  /\ Found(d) /\ Live("project", doc[d].key.project)
  /\ doc' = [doc EXCEPT ![d] = Rebuilt(@)]
  /\ UNCHANGED <<summary, asked>>

-----------------------------------------------------------------------------
(* MemoryService: summaries of chapters                                    *)

SummaryRow(c, type, text, s) ==
  [chapter |-> c, type |-> type, text |-> text, status |-> s, activated |-> FALSE]

(* activate_summary: the others of the chapter and type are archived, in   *)
(* one transaction.                                                        *)
Activated(rows, s) ==
  [t \in DOMAIN rows |->
     IF t = s THEN [rows[t] EXCEPT !.status = "active", !.activated = TRUE]
     ELSE IF /\ rows[t].chapter = rows[s].chapter /\ rows[t].type = rows[s].type
             /\ rows[t].status = "active"
     THEN [rows[t] EXCEPT !.status = "archived"] ELSE rows[t]]

(* activate_chapter_summary on these rows: the row, the chapter's own      *)
(* summary, the document; the process may end after the first or second.   *)
Activate(rows, s, upto) ==
  LET c == rows[s].chapter IN
  /\ Len(doc) < MaxDocuments
  /\ summary' = IF upto >= 1 THEN Activated(rows, s) ELSE rows
  /\ novel' = IF upto >= 2 THEN [novel EXCEPT ![c].summary = rows[s].text] ELSE novel
  /\ doc' = IF upto >= 3
            THEN Upsert(doc, [key |-> Key(novel[c].project, "chapter", c, "summary"),
                              content |-> rows[s].text])
            ELSE doc

(* A new version; it is activated when asked to, unless the chapter is no  *)
(* longer there: then the call fails and the row stays as it was inserted. *)
NewSummary(c, type, text, active, upto) ==
  LET rows == Append(summary, SummaryRow(c, type, text, IF active THEN "active" ELSE "draft"))
  IN  /\ Len(summary) < MaxSummaries
      /\ IF active /\ Live("chapter", c) THEN Activate(rows, Len(rows), upto)
         ELSE summary' = rows /\ UNCHANGED <<novel, doc>>

CreateChapterSummary(c, type, text, active, upto) ==
  Live("chapter", c) /\ text # <<>> /\ NewSummary(c, type, text, active, upto) /\ UNCHANGED asked

ActivateChapterSummary(c, s, upto) ==
  /\ Live("chapter", c)
  /\ s \in DOMAIN summary /\ summary[s].chapter = c
  /\ Activate(summary, s, upto)
  /\ UNCHANGED asked

AskSummary(c, type, active) ==
  /\ asked = NoSummary
  /\ Live("chapter", c) /\ novel[c].draft # <<>>
  /\ asked' = [chapter |-> c, type |-> type, active |-> active]
  /\ UNCHANGED <<novel, doc, summary>>

ModelAnswers(text, upto) ==
  /\ asked # NoSummary /\ text # <<>>
  /\ NewSummary(asked.chapter, asked.type, text, asked.active, upto)
  /\ asked' = NoSummary

(* No model, an error of the model, an empty answer, or a restart.         *)
ModelFails == asked # NoSummary /\ asked' = NoSummary /\ UNCHANGED <<novel, doc, summary>>

-----------------------------------------------------------------------------
Inclusions == {Sections, {"chapter"}}

DocumentNext ==
  \/ \E p \in DOMAIN novel, t \in Texts, s \in DocumentStatuses \ {"deleted"}, upto \in 1..2 :
       CreateDocument(p, t, s, upto)
  \/ \E d \in DOMAIN doc, t \in Texts, title \in {"kept", "source", "own"}, s \in DocumentStatuses,
        upto \in 1..2 : UpdateDocument(d, t, title, s, upto)
  \/ \E d \in DOMAIN doc, upto \in 1..2 : ArchiveDocument(d, upto)
  \/ \E d \in DOMAIN doc : RebuildDocument(d)
  \/ \E p \in DOMAIN novel, include \in Inclusions :
       \E done \in 0..Len(SourcePayloads(p, include)) : BuildFromNovel(p, include, done)
  \/ \E p \in DOMAIN novel, some \in SUBSET DOMAIN doc : RebuildProject(p, some)
SummaryNext ==
  \/ \E c \in DOMAIN novel, type \in SummaryTypes, text \in Texts, active \in BOOLEAN, upto \in 0..3 :
       CreateChapterSummary(c, type, text, active, upto)
  \/ \E c \in DOMAIN novel, s \in DOMAIN summary, upto \in 1..3 : ActivateChapterSummary(c, s, upto)
  \/ \E c \in DOMAIN novel, type \in SummaryTypes, active \in BOOLEAN : AskSummary(c, type, active)
  \/ \E text \in Texts, upto \in 0..3 : ModelAnswers(text, upto)
  \/ ModelFails

(* The memory of the novels beside the services that write what it reads.  *)
MemoryNext ==
  \/ NovelNext /\ UNCHANGED <<revisionVars, memoryVars>>
  \/ RevisionNext /\ UNCHANGED <<novel, memoryVars>>
  \/ DocumentNext /\ UNCHANGED <<novel, revisionVars>>
  \/ SummaryNext /\ UNCHANGED revisionVars

MemorySpec ==
  NovelInit /\ RevisionInit /\ MemoryInit /\ [][MemoryNext]_<<novel, revisionVars, memoryVars>>

-----------------------------------------------------------------------------
(* A document of this source holds its text now, the oldest of them, and   *)
(* is active, unless it was archived with that very text before.           *)
Carries(old, new, x) ==
  \E d \in SameSource(new, x.key) :
    /\ \A e \in SameSource(new, x.key) : d =< e
    /\ new[d].content = x.content
    /\ \/ new[d].status = "active"
       \/ /\ new[d].status = "archived" /\ d \in DOMAIN old
          /\ old[d].status = "archived" /\ old[d].content = x.content

(* Whatever calls were cut off before (a document without its index, half  *)
(* a build), renamed, archived or revived a document, or wrote one without *)
(* the index, a build of a project brings its memory up to date: the texts *)
(* it has taken in are in their documents wherever it is cut off, and when *)
(* it comes to its end every active document is found by the words it      *)
(* holds, if those there are of either status fit in the page the rebuild  *)
(* is given.                                                               *)
BuildFinds ==
  \A p \in DOMAIN novel, include \in Inclusions :
    LET payloads == SourcePayloads(p, include) IN
    Live("project", p) =>
      \A done \in 0..Len(payloads) :
        LET written == Upserted(doc, payloads)[done] IN
        /\ \A n \in 1..done :
             (\A m \in (n + 1)..done : payloads[m].key # payloads[n].key)
             => Carries(doc, written, payloads[n])
        /\ /\ done = Len(payloads)
           /\ \A s \in {"active", "stale"} : Cardinality(Listed(written, p, s)) =< DocumentPage
           => \A some \in SUBSET DOMAIN written :
                RebuildEnds(written, p, some) =>
                  LET built == RebuildProjectIndex(written, some) IN
                  \A d \in Listed(built, p, "active") : built[d].index = built[d].content

(* Of the summaries whose activation came to its end, at most one of each  *)
(* chapter and type is active, whichever calls were cut off before and     *)
(* after it and whatever happened to the chapter while the model wrote.    *)
OneActiveSummary ==
  \A s, t \in DOMAIN summary :
    /\ s # t /\ summary[s].chapter = summary[t].chapter /\ summary[s].type = summary[t].type
    /\ summary[s].status = "active" /\ summary[t].status = "active"
    => ~(summary[s].activated /\ summary[t].activated)

(* What the memory of a project holds can be brought up to date by one     *)
(* build, and one summary speaks for a chapter.                            *)
MemorySound == BuildFinds /\ OneActiveSummary
=============================================================================
