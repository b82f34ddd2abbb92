------------------------------- MODULE Novels -------------------------------
(***************************************************************************)
(* The novel library (src/llm_studio/novels): projects, volumes, chapters, *)
(* scenes, characters, world entries, plot threads and timeline events in  *)
(* one SQLite file.  Every handler runs to its end on the event loop, so a *)
(* handler is one step.  A call the service refuses (400, 404 or 409)      *)
(* before it writes leaves the library alone and is a stuttering step; the *)
(* calls that write and THEN answer 404 (PATCH of a deleted row) are       *)
(* steps like the others.                                                  *)
(*                                                                         *)
(* Rows are numbered in the order they were inserted (their uuid).  A text *)
(* is the sequence of its words, <<>> when it is null or empty.  Titles    *)
(* and the descriptive columns are left out; "live" stands for every       *)
(* status but "archived" and "deleted".                                    *)
(***************************************************************************)
EXTENDS Integers, Sequences, FiniteSets, SequencesExt, FiniteSetsExt, TLC

CONSTANTS Texts,          \* the texts of the library and its revisions, <<>> among them
          Drafts,         \* those a request to the library may carry
          Slugs,          \* the slugs a project may ask for
          Indexes,        \* the index or order numbers a request may carry, but 0
          PageLimit,      \* the most rows one list call returns (200)
          MaxRows         \* bound on the rows of the library

None == 0                 \* a column that is null, a field a request leaves out

ASSUME NovelAssumption == Indexes \subseteq Int \ {None} /\ PageLimit \in Nat

VARIABLE novel            \* the rows of the eight tables

Statuses == {"live", "archived", "deleted"}

-----------------------------------------------------------------------------
(* The repositories                                                        *)

HasRow(k, i) == i \in DOMAIN novel /\ novel[i].kind = k

(* What get() finds: a row of the table that is not deleted.               *)
Live(k, i) == HasRow(k, i) /\ novel[i].status # "deleted"

Of(k, p) == {i \in DOMAIN novel : novel[i].kind = k /\ novel[i].project = p}

(* list(): the rows that are not deleted, by their number and then by age, *)
(* at most one page of them.                                               *)
Page(ids) ==
  LET Before(i, j) == \/ novel[i].index < novel[j].index
                      \/ novel[i].index = novel[j].index /\ i < j
      sorted == SetToSortSeq({i \in ids : novel[i].status # "deleted"}, Before)
  IN  SubSeq(sorted, 1, Min({PageLimit, Len(sorted)}))

(* next_index: COALESCE(MAX(index), 0) + 1, over the deleted rows too.     *)
NextIndex(ids) == 1 + (IF ids = {} THEN 0 ELSE Max({novel[i].index : i \in ids}))

(* The column of a new row, from the index of the request or the next one. *)
Numbered(row, index, ids) ==
  [row EXCEPT !.index = IF index = None THEN NextIndex(ids) ELSE index,
              !.auto = index = None]

Blank(k, p) == [kind |-> k, project |-> p, parent |-> None, index |-> 0, auto |-> FALSE,
                slug |-> None, draft |-> <<>>, final |-> <<>>, words |-> 0, summary |-> <<>>,
                version |-> 1, status |-> "live"]
ProjectRow(slug) == [Blank("project", None) EXCEPT !.slug = slug]
VolumeRow(p, index, s) ==
  Numbered([Blank("volume", p) EXCEPT !.status = s], index, Of("volume", p))
ChapterRow(p, v, index, draft, final, words, s) ==
  Numbered([Blank("chapter", p) EXCEPT !.parent = v, !.draft = draft, !.final = final,
            !.words = words, !.status = s], index, Of("chapter", p))
SceneRow(p, c, index, text, s) ==
  Numbered([Blank("scene", p) EXCEPT !.parent = c, !.draft = text, !.status = s], index,
           {i \in Of("scene", p) : novel[i].parent = c})
CharacterRow(p, text, s) == [Blank("character", p) EXCEPT !.draft = text, !.status = s]
WorldEntryRow(p, text, s) == [Blank("world", p) EXCEPT !.draft = text, !.status = s]
PlotThreadRow(p, text, s) == [Blank("thread", p) EXCEPT !.draft = text, !.status = s]
TimelineRow(p, index, text, s) ==
  Numbered([Blank("event", p) EXCEPT !.draft = text, !.status = s], index, Of("event", p))

(* The index of a PATCH, which is kept when the request leaves it out.     *)
Renumbered(i, index) == [index |-> IF index = None THEN novel[i].index ELSE index,
                         auto |-> index = None /\ novel[i].auto]

Insert(row) == Len(novel) < MaxRows /\ novel' = Append(novel, row)

(* update(): the UPDATE has no status condition, so a deleted row is       *)
(* written too, although the get() that follows then answers 404.          *)
Joined(f, g) == [x \in DOMAIN f \union DOMAIN g |-> IF x \in DOMAIN f THEN f[x] ELSE g[x]]
Write(i, changes) == novel' = [novel EXCEPT ![i] = Joined(changes, @)]

SoftDelete(k, i) == HasRow(k, i) /\ Write(i, [status |-> "deleted"])

-----------------------------------------------------------------------------
(* The service                                                             *)

WordCount(t) == Len(t)

CreateProject(slug) ==
  /\ \A i \in DOMAIN novel : novel[i].slug # slug        \* UNIQUE, deleted projects count
  /\ Insert(ProjectRow(slug))
UpdateProject(i, s) == HasRow("project", i) /\ Write(i, [status |-> s])
DeleteProject(i) == SoftDelete("project", i)

CreateVolume(p, index, s) == Live("project", p) /\ Insert(VolumeRow(p, index, s))
UpdateVolume(i, index, s) ==
  HasRow("volume", i) /\ Write(i, Joined([status |-> s], Renumbered(i, index)))
DeleteVolume(i) == SoftDelete("volume", i)

(* A chapter may name a volume that is live and of the same project.       *)
MutFitsVolume(v, p) == v # None => Live("volume", v)
FitsVolume(v, p) == v # None => Live("volume", v) /\ novel[v].project = p

CreateChapter(p, v, index, draft, final, s) ==
  /\ Live("project", p)
  /\ FitsVolume(v, p)
  /\ Insert(ChapterRow(p, v, index, draft, final, WordCount(IF final # <<>> THEN final ELSE draft), s))

(* The changes of a PATCH that carries a draft or a final text.            *)
TextChanges(row, draft, final) ==
  [draft |-> draft, final |-> final, version |-> row.version + 1,
   words |-> WordCount(IF final # <<>> THEN final ELSE draft)]

(* PATCH of a chapter, by the fields it carries (one that carries several  *)
(* is the sequence of these).                                              *)
UpdateChapter(i, index, s) ==
  Live("chapter", i) /\ Write(i, Joined([status |-> s], Renumbered(i, index)))
MoveChapter(i, v) ==
  /\ Live("chapter", i)
  /\ FitsVolume(v, novel[i].project)
  /\ Write(i, [parent |-> v])
WriteChapter(i, draft, final) ==
  Live("chapter", i) /\ Write(i, TextChanges(novel[i], draft, final))
SummarizeChapter(i, text) == Live("chapter", i) /\ Write(i, [summary |-> text])
DeleteChapter(i) == SoftDelete("chapter", i)

CreateScene(c, index, text, s) ==
  Live("chapter", c) /\ Insert(SceneRow(novel[c].project, c, index, text, s))
UpdateScene(i, index, text, s) ==
  HasRow("scene", i) /\ Write(i, Joined([draft |-> text, status |-> s], Renumbered(i, index)))
DeleteScene(i) == SoftDelete("scene", i)

CreateCharacter(p, text, s) == Live("project", p) /\ Insert(CharacterRow(p, text, s))
UpdateCharacter(i, text, s) == HasRow("character", i) /\ Write(i, [draft |-> text, status |-> s])
DeleteCharacter(i) == SoftDelete("character", i)

CreateWorldEntry(p, text, s) ==
  text # <<>> /\ Live("project", p) /\ Insert(WorldEntryRow(p, text, s))
UpdateWorldEntry(i, text, s) ==
  text # <<>> /\ HasRow("world", i) /\ Write(i, [draft |-> text, status |-> s])
DeleteWorldEntry(i) == SoftDelete("world", i)

CreatePlotThread(p, text, s) == Live("project", p) /\ Insert(PlotThreadRow(p, text, s))
UpdatePlotThread(i, text, s) == HasRow("thread", i) /\ Write(i, [draft |-> text, status |-> s])
DeletePlotThread(i) == SoftDelete("thread", i)

CreateTimelineEvent(p, index, text, s) ==
  Live("project", p) /\ Insert(TimelineRow(p, index, text, s))
UpdateTimelineEvent(i, index, text, s) ==
  HasRow("event", i) /\ Write(i, Joined([draft |-> text, status |-> s], Renumbered(i, index)))
DeleteTimelineEvent(i) == SoftDelete("event", i)

-----------------------------------------------------------------------------
NovelInit == novel = << >>

NovelNext ==
  \/ \E slug \in Slugs : CreateProject(slug)
  \/ \E p \in DOMAIN novel, n \in Indexes \union {None}, s \in {"live", "archived"} :
       \/ CreateVolume(p, n, s)
       \/ \E t \in Drafts : CreateScene(p, n, t, s) \/ CreateTimelineEvent(p, n, t, s)
       \/ \E v \in DOMAIN novel \union {None}, t, f \in Drafts : CreateChapter(p, v, n, t, f, s)
  \/ \E p \in DOMAIN novel, t \in Drafts, s \in {"live", "archived"} :
       CreateCharacter(p, t, s) \/ CreateWorldEntry(p, t, s) \/ CreatePlotThread(p, t, s)
  \/ \E i \in DOMAIN novel, v \in DOMAIN novel \union {None} : MoveChapter(i, v)
  \/ \E i \in DOMAIN novel, n \in Indexes \union {None}, s \in Statuses :
       \/ UpdateVolume(i, n, s) \/ UpdateChapter(i, n, s)
       \/ \E t \in Drafts : UpdateScene(i, n, t, s) \/ UpdateTimelineEvent(i, n, t, s)
  \/ \E i \in DOMAIN novel, t \in Drafts, s \in Statuses :
       UpdateCharacter(i, t, s) \/ UpdateWorldEntry(i, t, s) \/ UpdatePlotThread(i, t, s)
  \/ \E i \in DOMAIN novel, s \in Statuses : UpdateProject(i, s)
  \/ \E i \in DOMAIN novel, t \in Drafts : SummarizeChapter(i, t)
  \/ \E i \in DOMAIN novel, draft, final \in Drafts : WriteChapter(i, draft, final)
  \/ \E i \in DOMAIN novel :
       \/ DeleteProject(i) \/ DeleteVolume(i) \/ DeleteChapter(i) \/ DeleteScene(i)
       \/ DeleteCharacter(i) \/ DeleteWorldEntry(i) \/ DeletePlotThread(i)
       \/ DeleteTimelineEvent(i)

NovelSpec == NovelInit /\ [][NovelNext]_novel

-----------------------------------------------------------------------------
(* The library stays a tree: a chapter's volume and a scene's chapter are  *)
(* rows of the same project, whatever was moved, deleted or revived since. *)
NovelTree ==
  \A i \in DOMAIN novel :
    /\ novel[i].kind # "project" => HasRow("project", novel[i].project)
    /\ novel[i].kind = "chapter" /\ novel[i].parent # None =>
         HasRow("volume", novel[i].parent) /\ novel[novel[i].parent].project = novel[i].project
    /\ novel[i].kind = "scene" =>
         HasRow("chapter", novel[i].parent) /\ novel[novel[i].parent].project = novel[i].project

(* Two rows whose number the service chose never share it, although rows   *)
(* are deleted, revived by a PATCH and renumbered by their authors.        *)
AutoNumbersDiffer ==
  \A i, j \in DOMAIN novel :
    /\ i # j /\ novel[i].auto /\ novel[j].auto
    /\ novel[i].kind = novel[j].kind /\ novel[i].project = novel[j].project
    /\ novel[i].kind = "scene" => novel[i].parent = novel[j].parent
    => novel[i].index # novel[j].index

(* The library is a tree whose chosen numbers identify its rows, after any *)
(* sequence of creations, moves, renumberings, deletions and revivals.     *)
LibrarySound == NovelTree /\ AutoNumbersDiffer
=============================================================================
