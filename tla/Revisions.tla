----------------------------- MODULE Revisions ------------------------------
(***************************************************************************)
(* Revisions (src/llm_studio/revisions): what an editor made of a text,    *)
(* with the diff and the hash the server computes, a review status, and    *)
(* the autosaved drafts of which the newest Retention are kept.            *)
(*                                                                         *)
(* The handlers run on the event loop, one at a time.  A text is the       *)
(* sequence of its words (module Novels); a hash is the text it was        *)
(* computed from; the time stamp of a revision is the number of its        *)
(* writes.  A refused call writes nothing.                                 *)
(***************************************************************************)
EXTENDS Novels

CONSTANTS Retention,      \* autosave_retention (20)
          MaxRevisions,   \* bound on the revisions
          MaxSaves        \* bound on the autosaves ever inserted

ASSUME RevisionAssumption == Retention \in Nat /\ \A t \in Texts : t \in Seq(Range(t))

VARIABLES revision,       \* the rows of revision_records, in the order of insertion
          autosave,       \* every autosave ever inserted
          kept            \* the autosaves still in the table

revisionVars == <<revision, autosave, kept>>

RevisionInit == revision = << >> /\ autosave = << >> /\ kept = {}

-----------------------------------------------------------------------------
(* TextDiffService                                                         *)

(* What difflib may match: pairs of positions that hold the same word and  *)
(* grow together, with nothing left to match between two of them.          *)
Alignments(o, e) ==
  LET equal == {x \in (DOMAIN o) \X (DOMAIN e) : o[x[1]] = e[x[2]]}
      Together(x, y) == (x[1] < y[1] <=> x[2] < y[2]) /\ (x[1] = y[1] <=> x[2] = y[2])
      ordered == {m \in SUBSET equal : \A x, y \in m : Together(x, y)}
  IN  {m \in ordered : \A x \in equal \ m : \E y \in m : ~Together(x, y)}

(* An operation that continues the one before it is merged with it.        *)
MutAppendOp(ops, type, text) ==
  IF text = <<>> THEN ops
  ELSE IF ops # <<>> /\ Last(ops).type = type
  THEN Append(Front(ops), [type |-> type, text |-> text])
  ELSE Append(ops, [type |-> type, text |-> text])
AppendOp(ops, type, text) ==
  IF text = <<>> THEN ops
  ELSE IF ops # <<>> /\ Last(ops).type = type
  THEN Append(Front(ops), [type |-> type, text |-> Last(ops).text \o text])
  ELSE Append(ops, [type |-> type, text |-> text])

(* The operations up to and with a match: what lies between it and the one *)
(* before is deleted and inserted, and its word is equal.  The end of both *)
(* texts closes the last gap.                                              *)
Matched(was, x, o, e) ==
  LET gone == SubSeq(o, was.at[1] + 1, x[1] - 1)
      come == SubSeq(e, was.at[2] + 1, x[2] - 1)
      same == IF x[1] \in DOMAIN o THEN <<o[x[1]]>> ELSE <<>>
  IN  [ops |-> AppendOp(AppendOp(AppendOp(was.ops, "delete", gone), "insert", come), "equal", same),
       at |-> x]

(* The operations up to each position of the original.                     *)
DiffUpTo(o, e, m) ==
  LET upTo[i \in 0..Len(o)] ==
        IF i = 0 THEN [ops |-> <<>>, at |-> <<0, 0>>]
        ELSE IF \E x \in m : x[1] = i THEN Matched(upTo[i - 1], CHOOSE x \in m : x[1] = i, o, e)
        ELSE upTo[i - 1]
  IN  upTo

BuildDiff(o, e, m) == Matched(DiffUpTo(o, e, m)[Len(o)], <<Len(o) + 1, Len(e) + 1>>, o, e).ops

(* The text one side of a diff stands for, up to each of its operations.   *)
SideUpTo(ops, type) ==
  LET text[n \in 0..Len(ops)] ==
        IF n = 0 THEN <<>>
        ELSE IF ops[n].type \in {"equal", type} THEN text[n - 1] \o ops[n].text
        ELSE text[n - 1]
  IN  text
Side(ops, type) == SideUpTo(ops, type)[Len(ops)]

-----------------------------------------------------------------------------
(* RevisionRecordRepository                                                *)

Create(source, p, c, original, edited, m, score, accepted, s) ==
  /\ Len(revision) < MaxRevisions
  /\ revision' = Append(revision,
       [source |-> source, project |-> p, chapter |-> c, original |-> original, edited |-> edited,
        ops |-> BuildDiff(original, edited, m), hash |-> edited, score |-> score,
        accepted |-> accepted, status |-> s, stamp |-> 1])
  /\ UNCHANGED <<autosave, kept>>

(* The row of a write: a new text brings its hash, every write a new stamp. *)
Rewritten(row, changes) ==
  LET hashed == IF "edited" \in DOMAIN changes THEN [hash |-> changes.edited] ELSE << >>
  IN  Joined(hashed, Joined(changes, [row EXCEPT !.stamp = @ + 1]))

(* update(): refused when the caller's stamp is not the row's.             *)
UpdateRecord(r, expected, changes) ==
  /\ r \in DOMAIN revision
  /\ expected \in {None, revision[r].stamp}
  /\ revision' = [revision EXCEPT ![r] = Rewritten(@, changes)]
  /\ UNCHANGED <<autosave, kept>>

(* create_autosave(): the row, then the rows of the same revision beyond   *)
(* the newest Retention, in one transaction.                               *)
Newest(ids) == {i \in ids : Cardinality({j \in ids : j > i}) < Retention}

InsertAutosave(row) ==
  LET id == Len(autosave) + 1
      mine == {i \in kept : autosave[i].revision = row.revision} \union {id}
  IN  /\ Len(autosave) < MaxSaves
      /\ autosave' = Append(autosave, row)
      /\ kept' = IF row.revision = None THEN kept \union {id}
                 ELSE (kept \ mine) \union Newest(mine)
      /\ UNCHANGED revision

-----------------------------------------------------------------------------
(* RevisionService                                                         *)

(* _project and _chapter: both live, the chapter of the project.           *)
Related(p, c) ==
  /\ Live("project", p)
  /\ c # None => Live("chapter", c) /\ novel[c].project = p

(* From a generation of this project and chapter with this output: the     *)
(* project and the chapter may be deleted since.                           *)
CreateFromGeneration(p, c, output, edited, m, score, accepted) ==
  /\ output # <<>> /\ edited # <<>>
  /\ HasRow("project", p) /\ (c # None => HasRow("chapter", c) /\ novel[c].project = p)
  /\ Related(p, c)
  /\ Create("generation", p, c, output, edited, m, score, accepted, "draft")

(* The original is the one of the request, or else the chapter's draft.    *)
CreateFromChapterDraft(p, c, original, edited, m, score, accepted) ==
  /\ c # None /\ Related(p, c)
  /\ original # <<>> /\ edited # <<>>
  /\ Create("chapter_draft", p, c, original, edited, m, score, accepted, "draft")

CreateManual(p, c, original, edited, m, score, accepted) ==
  /\ Related(p, c)
  /\ original # <<>> /\ edited # <<>>
  /\ Create("manual", p, c, original, edited, m, score, accepted, "draft")

CreateFromAdapterEvaluation(p, c, original, edited, m, score) ==
  /\ Related(p, c)
  /\ original # <<>> /\ edited # <<>>
  /\ Create("adapter_evaluation", p, c, original, edited, m, score, FALSE, "draft")

UpdateText(r, expected, edited, m) ==
  /\ edited # <<>>
  /\ UpdateRecord(r, expected, [edited |-> edited, ops |-> BuildDiff(revision[r].original, edited, m)])

UpdateReview(r, expected, score, accepted, s) ==
  UpdateRecord(r, expected, [score |-> score, accepted |-> accepted, status |-> s])

ApproveRevision(r) == UpdateRecord(r, None, [status |-> "approved"])
RejectRevision(r) == UpdateRecord(r, None, [status |-> "rejected"])
ArchiveRevision(r) == UpdateRecord(r, None, [status |-> "archived"])
MarkDatasetCandidate(r, accepted) == UpdateRecord(r, None, [accepted |-> accepted])

AutosaveRevision(r, p, c, draft) ==
  /\ Related(p, c)
  /\ r # None => r \in DOMAIN revision /\ revision[r].project = p
  /\ draft # <<>>
  /\ InsertAutosave([revision |-> r, project |-> p, chapter |-> c, text |-> draft])

-----------------------------------------------------------------------------
Reviews == {<<None, FALSE>>, <<3, TRUE>>}    \* a score, and whether a dataset may take it

RevisionNext ==
  \/ \E p \in DOMAIN novel, c \in DOMAIN novel \union {None}, o, e \in Texts, review \in Reviews :
       \E m \in Alignments(o, e) :
         \/ CreateFromGeneration(p, c, o, e, m, review[1], review[2])
         \/ CreateFromChapterDraft(p, c, o, e, m, review[1], review[2])
         \/ CreateManual(p, c, o, e, m, review[1], review[2])
         \/ CreateFromAdapterEvaluation(p, c, o, e, m, review[1])
  \/ \E r \in DOMAIN revision : \E expected \in {None, revision[r].stamp, revision[r].stamp - 1} :
       \/ \E e \in Texts : \E m \in Alignments(revision[r].original, e) : UpdateText(r, expected, e, m)
       \/ \E review \in Reviews, s \in {"reviewing", "archived"} :
            UpdateReview(r, expected, review[1], review[2], s)
  \/ \E r \in DOMAIN revision :
       \/ ApproveRevision(r) \/ RejectRevision(r) \/ ArchiveRevision(r)
       \/ \E accepted \in BOOLEAN : MarkDatasetCandidate(r, accepted)
  \/ \E r \in DOMAIN revision \union {None}, p \in DOMAIN novel, c \in DOMAIN novel \union {None},
        t \in Texts :
       AutosaveRevision(r, p, c, t)

RevisionSpec ==
  /\ NovelInit /\ RevisionInit
  /\ [][\/ NovelNext /\ UNCHANGED revisionVars
        \/ RevisionNext /\ UNCHANGED novel]_<<novel, revisionVars>>

-----------------------------------------------------------------------------
(* The diff a revision stores is that of its own two texts: the deleted    *)
(* and the equal parts give back the original, the inserted and the equal  *)
(* parts the edited text, whose hash is the one stored beside it; and its  *)
(* chapter is a row of its project, whatever happened to both since.       *)
RevisionConsistent ==
  \A r \in DOMAIN revision :
    /\ Side(revision[r].ops, "delete") = revision[r].original
    /\ Side(revision[r].ops, "insert") = revision[r].edited
    /\ revision[r].hash = revision[r].edited
    /\ revision[r].chapter # None => novel[revision[r].chapter].project = revision[r].project

(* The drafts kept for a revision are its newest ones and as many as fit:  *)
(* an editor that crashes finds the last text the server answered for.     *)
NewestDraftsKept ==
  \A i \in DOMAIN autosave : autosave[i].revision # None =>
    LET later == {j \in DOMAIN autosave : j > i /\ autosave[j].revision = autosave[i].revision}
    IN  i \in kept <=> Cardinality(later) < Retention

(* What a revision and its autosaves keep of an author's text is what the  *)
(* author last sent, whichever calls saved, edited or pruned in between.   *)
RevisionSound == RevisionConsistent /\ NewestDraftsKept
=============================================================================
