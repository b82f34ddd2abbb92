------------------------------- MODULE Prompts -------------------------------
(***************************************************************************)
(* The prompt studio (src/llm_studio/prompts): templates, their numbered   *)
(* versions, what a version renders to, and the installation and upgrade   *)
(* of the built-in templates.                                              *)
(*                                                                         *)
(* The text of a version is a value of DOMAIN Schemas: which variables it  *)
(* uses, which its schema requires and which have a default.  A content    *)
(* hash is the text it is of.  The repository functions map the tables to  *)
(* the tables after their commit; a call of several commits is a sequence  *)
(* of them, of which the end of the process may leave a prefix.            *)
(***************************************************************************)
EXTENDS Novels, Lists

CONSTANTS Schemas,        \* text |-> the variables it uses, requires and defaults
          Shipped,        \* key |-> the built-in text of each release
          Keys,           \* the built-in keys, in the order of their list
          OwnTexts,       \* the texts users write
          MaxTemplates, MaxVersions, MaxRenders   \* bounds on the rows

ASSUME PromptAssumption ==
  /\ Keys \in Seq(DOMAIN Shipped)
  /\ OwnTexts \subseteq DOMAIN Schemas
  /\ \A key \in DOMAIN Shipped : Shipped[key] \in Seq(DOMAIN Schemas) /\ Shipped[key] # << >>
  /\ "none" \notin DOMAIN Schemas      \* no text has the hash of no text

VARIABLES prompt,         \* the tables: templates, versions, templates by last update
          rendered,       \* the render records
          release         \* the release of the program that is running

promptVars == <<prompt, rendered, release>>

NoMeta == [key |-> None, builtin |-> FALSE, hash |-> "none"]
(* What the running release ships for a key: its text, the hash of that    *)
(* text and the metadata of the template.                                  *)
BuiltinText(key) == Shipped[key][release]
BuiltinHash(key) == BuiltinText(key)
BuiltinMeta(key) == [key |-> key, builtin |-> TRUE, hash |-> BuiltinHash(key)]

NoPrompts == [templates |-> << >>, versions |-> << >>, recent |-> << >>]

-----------------------------------------------------------------------------
(* The repositories, as functions of the tables p                          *)

LiveTemplate(p, t) == t \in DOMAIN p.templates /\ p.templates[t].status # "deleted"

Touched(p, t) == [p EXCEPT !.recent = <<t>> \o Those(@, {n \in DOMAIN @ : @[n] # t})]

InsertTemplate(p, project, meta) ==
  Touched([p EXCEPT !.templates = Append(@, [project |-> project, active |-> None,
                                             status |-> "live", meta |-> meta])],
          Len(p.templates) + 1)

VersionsOf(p, t) == {v \in DOMAIN p.versions : p.versions[v].template = t}

InsertVersion(p, t, text, by) ==
  [p EXCEPT !.versions = Append(@, [template |-> t, text |-> text, by |-> by,
     number |-> 1 + Max({0} \union {p.versions[v].number : v \in VersionsOf(p, t)})])]

WithActive(p, t, v) == Touched([p EXCEPT !.templates[t].active = v], t)
Described(p, t, meta) == Touched([p EXCEPT !.templates[t].meta = meta], t)

LiveGlobals(p) == {t \in DOMAIN p.templates : p.templates[t].project = None /\ LiveTemplate(p, t)}

MutListGlobal(p) ==
  LET ids == Those(p.recent, {n \in DOMAIN p.recent : p.recent[n] \in LiveGlobals(p)})
  IN  SubSeq(ids, 1, Min({1, Len(ids)}))
ListGlobal(p) ==
  LET ids == Those(p.recent, {n \in DOMAIN p.recent : p.recent[n] \in LiveGlobals(p)})
  IN  SubSeq(ids, 1, Min({PageLimit, Len(ids)}))

(* The commits of a call, each the tables after it.                        *)
NewVersion(p, t, text, by) ==
  LET q == InsertVersion(p, t, text, by) IN <<q, WithActive(q, t, Len(q.versions))>>
NewTemplate(p, project, meta, text, by) ==
  LET q == InsertTemplate(p, project, meta)
  IN  <<q>> \o NewVersion(q, Len(q.templates), text, by)

-----------------------------------------------------------------------------
(* ensure_default_prompt_templates                                         *)

Upgrade(p, t, key) ==
  LET q == NewVersion(p, t, BuiltinText(key), "program")
  IN  Append(q, Described(Last(q), t, BuiltinMeta(key)))

MutPristine(p, t) ==
  LET row == p.templates[t] IN row.meta.builtin /\ row.active # None
Pristine(p, t) ==
  LET row == p.templates[t]
  IN  row.meta.builtin /\ row.active # None /\ row.meta.hash = p.versions[row.active].text

(* What is done for one key, given the list read at the start.             *)
EnsureKey(p, key, listed) ==
  LET carriers == {n \in DOMAIN listed : p.templates[listed[n]].meta.key = key}
      t == listed[Min(carriers)]
  IN  CASE carriers = {} ->
             NewTemplate(p, None, BuiltinMeta(key), BuiltinText(key), "program")
        [] carriers # {} /\ Pristine(p, t)
           /\ p.versions[p.templates[t].active].text # BuiltinText(key) -> Upgrade(p, t, key)
        [] OTHER -> << >>

(* One key of the list after the other.                                    *)
CommitsUpTo(p) ==
  LET listed == ListGlobal(p)
      upTo[n \in 0..Len(Keys)] ==
        IF n = 0 THEN <<p>>
        ELSE LET done == upTo[n - 1] IN done \o EnsureKey(Last(done), Keys[n], listed)
  IN  upTo
EnsureCommits(p) == CommitsUpTo(p)[Len(Keys)]

Ensured(p) == Last(EnsureCommits(p))

-----------------------------------------------------------------------------
(* PromptRenderer                                                          *)

Absent == "absent"        \* None, or no such key
Emptiness == {Absent, "empty"}
Values == {"text", "empty", "hollow", Absent}   \* hollow: an empty list or object

(* The context of a project: its title is never empty, its genre may be    *)
(* null, its cards are joined to one text.                                 *)
ProjectContext(project, genre) ==
  IF project = None THEN <<>>
  ELSE [title |-> "text", genre |-> genre,
        characters |-> IF Page(Of("character", project)) = <<>> THEN "empty" ELSE "text"]

Merged(schema, context, variables) ==
  Joined(variables, Joined(context, [name \in schema.defaults |-> "text"]))

Render(schema, context, variables) ==
  LET merged == Merged(schema, context, variables)
      Empty(name) == name \notin DOMAIN merged \/ merged[name] \in Emptiness
  IN  [missing |-> {name \in schema.required : Empty(name)},
       warned |-> {name \in schema.uses : Empty(name) /\ name \notin schema.required}
                  \union (schema.uses \ schema.declared),
       shown |-> {name \in schema.uses : ~Empty(name) /\ merged[name] = "text"}]

-----------------------------------------------------------------------------
(* PromptService                                                           *)

(* A call leaves the tables after its n-th commit, the last one unless the *)
(* process ends or the database fails before.                              *)
Commit(commits) ==
  /\ Len(Last(commits).templates) =< MaxTemplates
  /\ Len(Last(commits).versions) =< MaxVersions
  /\ \E n \in DOMAIN commits : prompt' = commits[n]
  /\ UNCHANGED <<rendered, release>>

ProjectExists(project) == project # None => Live("project", project)

CreateTemplate(project, meta, text) ==
  ProjectExists(project) /\ Commit(NewTemplate(prompt, project, meta, text, "user"))

(* The UPDATE has no condition on the status: a deleted template is        *)
(* written, and revived, by a call that may answer 404.                    *)
UpdateTemplateMetadata(t, project, status, meta) ==
  /\ ProjectExists(project)
  /\ LET row == [prompt.templates[t] EXCEPT !.project = project, !.status = status, !.meta = meta]
     IN  Commit(<<Touched([prompt EXCEPT !.templates[t] = row], t)>>)

SoftDeleteTemplate(t) ==
  Commit(<<Touched([prompt EXCEPT !.templates[t].status = "deleted"], t)>>)

CreateVersion(t, text) ==
  LiveTemplate(prompt, t) /\ Commit(NewVersion(prompt, t, text, "user"))

ActivateVersion(t, v) ==
  v \in VersionsOf(prompt, t) /\ Commit(<<WithActive(prompt, t, v)>>)

(* The active version, or the latest when there is none.                   *)
CopyToProject(t, project) ==
  LET row == prompt.templates[t]
      v == IF row.active # None THEN row.active ELSE Max(VersionsOf(prompt, t))
  IN  /\ LiveTemplate(prompt, t) /\ Live("project", project)
      /\ row.active # None \/ VersionsOf(prompt, t) # {}
      /\ Commit(NewTemplate(prompt, project, NoMeta, prompt.versions[v].text, "user"))

EnsureDefaults == Commit(EnsureCommits(prompt))

(* The row of a rendering: what was given and what became of it.           *)
RenderRecord(v, variables, result) == Joined([version |-> v, variables |-> variables], result)

(* A prompt of more than 200000 characters is refused and leaves nothing.  *)
RenderPrompt(t, asked, project, genre, variables) ==
  LET v == IF asked = None THEN prompt.templates[t].active ELSE asked
  IN  /\ LiveTemplate(prompt, t)
      /\ v \in VersionsOf(prompt, t)
      /\ ProjectExists(project)
      /\ Len(rendered) < MaxRenders
      /\ rendered' = Append(rendered, RenderRecord(v, variables,
                       Render(Schemas[prompt.versions[v].text], ProjectContext(project, genre), variables)))
      /\ UNCHANGED <<prompt, release>>

(* The program is replaced by its next release.                            *)
InstallRelease ==
  /\ \A key \in DOMAIN Shipped : release < Len(Shipped[key])
  /\ release' = release + 1
  /\ UNCHANGED <<prompt, rendered>>

Templates == DOMAIN prompt.templates
Metas == {NoMeta, [NoMeta EXCEPT !.key = Keys[1], !.builtin = TRUE]}

TemplateNext ==
  \/ \E project \in DOMAIN novel \union {None} :
       \/ \E text \in OwnTexts, meta \in Metas : CreateTemplate(project, meta, text)
       \/ \E t \in Templates, status \in {"live", "deleted"} :
            \E meta \in {NoMeta, prompt.templates[t].meta} :
              UpdateTemplateMetadata(t, project, status, meta)
  \/ \E t \in Templates :
       \/ SoftDeleteTemplate(t)
       \/ \E text \in OwnTexts : CreateVersion(t, text)
       \/ \E v \in DOMAIN prompt.versions : ActivateVersion(t, v)
       \/ \E project \in DOMAIN novel : CopyToProject(t, project)
  \/ EnsureDefaults
  \/ InstallRelease
RenderNext ==
  \E t \in Templates, v \in DOMAIN prompt.versions \union {None},
     project \in DOMAIN novel \union {None}, genre \in {"text", Absent},
     variables \in [{"style"} -> Values] \union {<<>>} :
    RenderPrompt(t, v, project, genre, variables)

PromptInit == prompt = NoPrompts /\ rendered = << >> /\ release = 1

PromptSpec ==
  /\ NovelInit /\ PromptInit
  /\ [][\/ NovelNext /\ UNCHANGED promptVars
        \/ (TemplateNext \/ RenderNext) /\ UNCHANGED novel]_<<novel, promptVars>>

-----------------------------------------------------------------------------
(* The text in use that the program replaces by a built-in one is one of   *)
(* its own: what a user wrote stays in use, whatever was renamed, revived, *)
(* rolled back or cut off before the program was upgraded.                 *)
UserEditsKept ==
  [][\A t \in Templates :
       LET was == prompt.templates[t].active
           is == prompt'.templates[t].active
       IN  is > Len(prompt.versions) /\ prompt'.versions[is].by = "program" =>
             \E key \in DOMAIN Shipped, n \in 1..release :
               prompt.versions[was].text = Shipped[key][n]]_promptVars

(* Ensuring the defaults twice is ensuring them once, also after a call    *)
(* that was cut off, as long as the global templates fit in the page of    *)
(* 200 that the call reads (beyond it every call installs copies).         *)
EnsureIdempotent ==
  LET once == Ensured(prompt)
  IN  Cardinality(LiveGlobals(once)) =< PageLimit => Ensured(once) = once

(* A variable the prompt uses and that the rendering left out, for want of *)
(* a value, is reported to the user as missing or in a warning.            *)
EmptyIsReported ==
  \A r \in Range(rendered) :
    LET schema == Schemas[prompt.versions[r.version].text]
        Hollow(name) == name \in DOMAIN r.variables /\ r.variables[name] = "hollow"
    IN  \A name \in schema.uses :
          name \notin r.shown /\ ~Hollow(name) => name \in r.missing \union r.warned

(* Installing the built-in prompts converges, and a rendering hides no     *)
(* variable that had no value.                                             *)
PromptSound == EnsureIdempotent /\ EmptyIsReported
=============================================================================
