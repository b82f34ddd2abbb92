--------------------------- MODULE ContextAssembly ---------------------------
(***************************************************************************)
(* Choosing the material of a prompt and cutting it to its budget          *)
(* (assembler.py, selectors.py, budget.py, estimators.py and service.py of *)
(* src/llm_studio/context).                                                *)
(*                                                                         *)
(* These are functions; `assembled` holds one call, its input and its      *)
(* answer.  A text is its length; 0 is no text, and as an id, no row.  A   *)
(* kind of material the request does not include is an empty list.         *)
(***************************************************************************)
EXTENDS Integers, Sequences, FiniteSets, Lists, SequencesExt, FiniteSetsExt

CONSTANTS CharacterLimit, WorldLimit, PlotLimit, TimelineLimit,  \* the limits of the selectors
          FallbackChars,     \* fallback_chars of PreviousChapterSelector
          MaxPromptLength,   \* MAX_RENDERED_PROMPT_LENGTH
          Projects,          \* the rows of a project there may be, with the chapter and the scene asked for
          BudgetRequests,    \* the target_budget of the requests
          Protections,       \* sets of variables the user supplies
          UserText           \* length of what the user supplies for a variable

(* The rows, of which ids are the primary keys.                            *)
ChapterRows == [id : Nat, index : Int, outline : Nat, summary : Nat, content : Nat]
SceneRows == [id : Nat, pov : Nat, outline : Nat]
CharacterRows == [id : Nat, main : BOOLEAN, size : Nat, background : Nat]
WorldRows == [id : Nat, here : BOOLEAN, priority : Int, category : Int, size : Nat]
PlotRows == [id : Nat, status : STRING, related : SUBSET Nat, priority : Int, size : Nat]
EventRows == [id : Nat, chapter : Nat, scene : Nat, order : Int, size : Nat]
Keyed(rows) == \A m, n \in DOMAIN rows : rows[m].id = rows[n].id => m = n

ASSUME ContextAssumption ==
  /\ CharacterLimit \in Nat \ {0} /\ {WorldLimit, PlotLimit, TimelineLimit} \subseteq Nat
  /\ FallbackChars \in Nat /\ UserText \in Nat
  /\ \A p \in Projects :
       /\ p.chapters \in Seq(ChapterRows) /\ p.chapter \in ChapterRows /\ p.scene \in SceneRows
       /\ p.characters \in Seq(CharacterRows) /\ p.world \in Seq(WorldRows)
       /\ p.plots \in Seq(PlotRows) /\ p.timeline \in Seq(EventRows)
       /\ Keyed(p.chapters) /\ Keyed(p.timeline)

VARIABLE assembled
Unasked == [fn |-> "none"]

-----------------------------------------------------------------------------
(* selectors.py: sorted by a rank, then cut; the sort is stable.           *)

Ranked(items, keys) == LET order == Sorted(keys) IN [n \in DOMAIN items |-> items[order[n]]]
Cut(items, limit) == SubSeq(items, 1, Min({limit, Len(items)}))
Ids(items) == [n \in DOMAIN items |-> items[n].id]

SelectCharacters(items, pov, related) ==
  LET Key(c) == <<IF c.id = pov THEN 0 ELSE IF c.id \in related THEN 1 ELSE IF c.main THEN 2 ELSE 3, c.id>>
  IN  Cut(Ranked(items, [n \in DOMAIN items |-> Key(items[n])]), CharacterLimit)

SelectWorld(items) ==
  LET Key(w) == <<IF w.here THEN 0 ELSE 1, -w.priority, w.category, w.id>>
  IN  Cut(Ranked(items, [n \in DOMAIN items |-> Key(items[n])]), WorldLimit)

SelectPlots(items, selected) ==
  LET going == Those(items, {n \in DOMAIN items : items[n].status \in {"open", "in_progress"}})
      Key(p) == <<IF p.status = "in_progress" THEN 0 ELSE 1, IF p.related \cap selected # {} THEN 0 ELSE 1,
                  -p.priority, p.id>>
  IN  Cut(Ranked(going, [n \in DOMAIN going |-> Key(going[n])]), PlotLimit)

(* Index of a listed chapter, 0 for one that is not listed any more.       *)
ChapterIndex(chapters, id) ==
  IF \E n \in DOMAIN chapters : chapters[n].id = id
  THEN chapters[CHOOSE n \in DOMAIN chapters : chapters[n].id = id].index ELSE 0

(* TimelineSelector: nothing of a later chapter; what belongs to the       *)
(* chapter or the scene goes first, then what is latest; the selection is  *)
(* then put in the order of the events.                                    *)
Later(e, chapter, chapters) == chapter.id # 0 /\ ChapterIndex(chapters, e.chapter) > chapter.index

SelectTimeline(items, chapter, scene, chapters) ==
  LET Related(e) == e.scene = scene.id \/ e.chapter = chapter.id
      eligible == Those(items, {n \in DOMAIN items : ~ Later(items[n], chapter, chapters)})
      chosen == Cut(Ranked(eligible, [n \in DOMAIN eligible |->
                      <<IF Related(eligible[n]) THEN 0 ELSE 1, -eligible[n].order>>]), TimelineLimit)
  IN  Ranked(chosen, [n \in DOMAIN chosen |-> <<chosen[n].order>>])

(* The chapter of the index before: its summary, or the start of its text. *)
NoChapter == [id |-> 0, index |-> 0, outline |-> 0, summary |-> 0, content |-> 0]
SelectPrevious(chapters, chapter) ==
  LET before == Those(chapters, {n \in DOMAIN chapters : chapters[n].index = chapter.index - 1})
      previous == IF chapter.id = 0 \/ before = <<>> THEN NoChapter ELSE before[1]
  IN  [chapter |-> previous,
       text |-> IF previous.summary > 0 THEN previous.summary ELSE Min({previous.content, FallbackChars}),
       fallback |-> previous.summary = 0 /\ previous.content > 0]

-----------------------------------------------------------------------------
(* budget.py and estimators.py: ideographs, 1.1 tokens each.               *)

BudgetError(b) ==
  IF b.max =< 0 \/ b.reserved < 0 \/ b.reserved >= b.max \/ b.context =< 0 \/ b.chars =< 0
  THEN "INVALID_BUDGET" ELSE "none"
EffectiveTokens(b) == Min({b.context, b.max - b.reserved})
Estimate(chars) == (11 * chars + 9) \div 10
Chars(vars) == FoldFunction(+, 0, vars)
Exceeds(vars, b) == Estimate(Chars(vars)) > EffectiveTokens(b) \/ Chars(vars) > b.chars

(* The _format methods: a heading and the items.                           *)
Format(lengths) == IF lengths = <<>> THEN 0 ELSE 1 + Total(lengths)
World(items) == Format([n \in DOMAIN items |-> items[n].size])
Characters(items, compact) ==
  IF compact THEN Format([n \in DOMAIN items |-> items[n].size - items[n].background]) ELSE World(items)

(* _truncate_to_fit: the longest beginning that fits, by bisection; `fits` *)
(* are the lengths that do.  A round makes the interval smaller, so there  *)
(* are no more than length + 1.                                            *)
MutBisected(s, fits) ==
  LET middle == (s.low + s.high) \div 2
  IN  IF s.low >= s.high THEN s
      ELSE IF middle \in fits THEN [low |-> middle + 1, high |-> s.high, best |-> middle]
      ELSE [low |-> s.low, high |-> middle - 1, best |-> s.best]
Bisected(s, fits) ==
  LET middle == (s.low + s.high) \div 2
  IN  IF s.low > s.high THEN s
      ELSE IF middle \in fits THEN [low |-> middle + 1, high |-> s.high, best |-> middle]
      ELSE [low |-> s.low, high |-> middle - 1, best |-> s.best]
BisectedUpTo(length, fits) ==
  LET state[n \in 0..(length + 1)] ==
        IF n = 0 THEN [low |-> 0, high |-> length, best |-> 0] ELSE Bisected(state[n - 1], fits)
  IN  state
TruncateToFit(length, fits) == BisectedUpTo(length, fits)[length + 1].best

-----------------------------------------------------------------------------
(* ContextAssembler.assemble.  p: the rows; budget: normalized; user: the  *)
(* variables the user supplies, which override and are not cut.  First the *)
(* selected material and the variables made of it.                         *)
Gather(p, user) ==
  LET related == UNION {p.plots[n].related : n \in DOMAIN p.plots}
      characters == SelectCharacters(p.characters, p.scene.pov, related)
      mains == Those(characters, {n \in DOMAIN characters : characters[n].main})
      povs == Those(characters, {n \in DOMAIN characters : characters[n].id = p.scene.pov})
      world == SelectWorld(p.world)
      plots == SelectPlots(p.plots, ToSet(Ids(characters)))
      timeline == SelectTimeline(p.timeline, p.chapter, p.scene, p.chapters)
      previous == SelectPrevious(p.chapters, p.chapter)
      own == [chapter_outline |-> p.chapter.outline, previous_chapter_summary |-> previous.text,
              previous_chapter_title |-> IF previous.chapter.id = 0 THEN 0 ELSE 1,
              scene_outline |-> p.scene.outline,
              characters |-> Characters(characters, FALSE), main_characters |-> Characters(mains, FALSE),
              pov_character |-> Characters(povs, FALSE),
              world_setting |-> World(world), plot_threads |-> World(plots), timeline |-> World(timeline)]
  IN  [characters |-> characters, mains |-> mains, world |-> world, plots |-> plots, timeline |-> timeline,
       previous |-> previous, variables |-> [x \in DOMAIN own |-> IF x \in user THEN UserText ELSE own[x]]]

(* Then, while the whole is over the budget, the next of the material is   *)
(* given up.  m.cut says how much of each class is gone.                   *)
Uncut == [world |-> 0, timeline |-> 0, plots |-> 0, previous |-> 0, characters |-> 0, outline |-> 0]
Material(found) == [found |-> found, variables |-> found.variables, cut |-> Uncut]
TooLong(m, b) == Exceeds(m.variables, b)

WithoutLast(items, k) == SubSeq(items, 1, Len(items) - k)
WithoutFirst(items, k) == SubSeq(items, 1 + k, Len(items))

(* One item after the other, while the rest does not fit: the lowest ranks *)
(* of the world entries and the plot threads, the first of the events.     *)
Left(class, items, k) == IF class = "timeline" THEN WithoutFirst(items, k) ELSE WithoutLast(items, k)
DropItems(m, b, user, class, variable) ==
  LET items == m.found[class]
      With(k) == [m.variables EXCEPT ![variable] = World(Left(class, items, k))]
      k == IF variable \in user THEN 0
           ELSE Min({n \in 0..Len(items) : n = Len(items) \/ ~ Exceeds(With(n), b)})
  IN  IF k = 0 THEN m ELSE [m EXCEPT !.variables = With(k), !.cut[class] = k]
DropWorld(m, b, user) == DropItems(m, b, user, "world", "world_setting")
DropTimeline(m, b, user) == DropItems(m, b, user, "timeline", "timeline")
DropPlots(m, b, user) == DropItems(m, b, user, "plots", "plot_threads")

DropPrevious(m, b, user) ==
  IF TooLong(m, b) /\ "previous_chapter_summary" \notin user /\ m.variables.previous_chapter_summary > 0
  THEN [m EXCEPT !.variables.previous_chapter_summary = 0, !.variables.previous_chapter_title = 0, !.cut.previous = 1]
  ELSE m
CompactCharacters(m, b, user) ==
  IF TooLong(m, b) /\ "characters" \notin user /\ m.found.characters # <<>>
  THEN [m EXCEPT !.variables.characters = Characters(m.found.characters, TRUE),
                 !.variables.main_characters = Characters(m.found.mains, TRUE), !.cut.characters = 1]
  ELSE m
ShortenOutline(m, b, user) ==
  LET With(n) == [m EXCEPT !.variables.chapter_outline = n, !.cut.outline = 1]
      length == m.variables.chapter_outline
  IN  IF b.hard /\ TooLong(m, b) /\ "chapter_outline" \notin user /\ length > 0
      THEN With(TruncateToFit(length, {n \in 0..length : ~ TooLong(With(n), b)}))
      ELSE m

(* What is left, with the ids of the rows it was made of.                  *)
ContextOf(m, b, user) ==
  LET Listed(variable, items) == IF variable \in user THEN <<>> ELSE Ids(items)
  IN  [error |-> "none", saved |-> TRUE,
       before |-> m.found.variables, variables |-> m.variables,
       ranked |-> [class \in {"world", "plots", "timeline", "characters"} |-> Ids(m.found[class])],
       items |-> [world |-> Listed("world_setting", WithoutLast(m.found.world, m.cut.world)),
                  timeline |-> Listed("timeline", WithoutFirst(m.found.timeline, m.cut.timeline)),
                  plots |-> Listed("plot_threads", WithoutLast(m.found.plots, m.cut.plots)),
                  characters |-> Listed("characters", m.found.characters),
                  chapters |-> IF m.cut.previous > 0 \/ m.found.previous.chapter.id = 0 THEN <<>>
                               ELSE Listed("previous_chapter_summary", <<m.found.previous.chapter>>)],
       truncated |-> {class \in DOMAIN m.cut : m.cut[class] > 0},
       fallback |-> m.found.previous.fallback,
       exceeded |-> TooLong(m, b)]

Assemble(p, b, user) ==
  LET m1 == DropPlots(DropTimeline(DropWorld(Material(Gather(p, user)), b, user), b, user), b, user)
  IN  ContextOf(ShortenOutline(CompactCharacters(DropPrevious(m1, b, user), b, user), b, user), b, user)

(* assemble_context: the rows must belong together.                        *)
FirstRefusal(checks) ==
  LET failed == SelectSeq(checks, LAMBDA c : c.fails) IN IF failed = <<>> THEN "none" ELSE failed[1].code
Refusal(p, b, template) ==
  FirstRefusal(<<[code |-> "CHAPTER_NOT_FOUND", fails |-> p.chapter.id # 0 /\ ~ p.chapterOfProject],
                 [code |-> "SCENE_NOT_FOUND", fails |-> p.scene.id # 0 /\ (p.chapter.id = 0 \/ ~ p.sceneOfChapter)],
                 [code |-> BudgetError(b), fails |-> BudgetError(b) # "none"],
                 [code |-> "TEMPLATE_NOT_FOUND", fails |-> template = "of_another"]>>)
AssembleContext(p, budget, user, template) ==
  LET refusal == Refusal(p, budget, template)
  IN  IF refusal # "none" THEN [error |-> refusal, saved |-> FALSE]
      ELSE Assemble(p, budget, user)

(* assemble_and_render: the template is resolved first; a prompt that is   *)
(* too long is refused after the record of its context was saved.          *)
RenderOf(r) ==
  IF r.error = "none" /\ Chars(r.variables) > MaxPromptLength THEN [error |-> "RENDER_FAILED", saved |-> TRUE] ELSE r
AssembleAndRender(p, budget, user, template) ==
  IF template # "own" THEN [error |-> "TEMPLATE_NOT_FOUND", saved |-> FALSE]
  ELSE RenderOf(AssembleContext(p, budget, user, template))

ContextInit == assembled = Unasked
ContextNext ==
  /\ assembled = Unasked
  /\ \E p \in Projects, budget \in BudgetRequests, user \in Protections, template \in {"none", "own", "of_another"} :
     \E call \in {"assemble", "render"} :
       assembled' = [fn |-> call, rows |-> p, budget |-> budget, user |-> user,
                     result |-> IF call = "render" THEN AssembleAndRender(p, budget, user, template)
                                ELSE AssembleContext(p, budget, user, template)]

ContextSpec == ContextInit /\ [][ContextNext]_assembled

-----------------------------------------------------------------------------
Succeeded == assembled.fn # "none" /\ assembled.result.error = "none"

(* Material is given up in the documented order: a class is touched only   *)
(* when everything below it that is not the user's is gone, within a class *)
(* the best of the ranking stay and of the events the latest; the ids      *)
(* recorded are those whose text is in the prompt; what fits is not cut,   *)
(* the outline is cut no shorter than it must, and a context that is over  *)
(* its budget in the end has given up all it may.                          *)
GivenUpInOrder ==
  Succeeded =>
    LET r == assembled.result
        user == assembled.user
        Heavy(v) == Exceeds(v, assembled.budget)
        gone == [world |-> r.variables.world_setting = 0 \/ "world_setting" \in user,
                 timeline |-> r.variables.timeline = 0 \/ "timeline" \in user,
                 plots |-> r.variables.plot_threads = 0 \/ "plot_threads" \in user,
                 previous |-> r.variables.previous_chapter_summary = 0 \/ "previous_chapter_summary" \in user,
                 characters |-> "characters" \in r.truncated \cup user \/ r.ranked.characters = <<>>,
                 outline |-> r.variables.chapter_outline = 0 \/ "chapter_outline" \in user \/ ~ assembled.budget.hard]
        order == <<"world", "timeline", "plots", "previous", "characters", "outline">>
    IN  /\ (r.truncated # {}) => Heavy(r.before)
        /\ \A n \in DOMAIN order : order[n] \in r.truncated => \A m \in 1..(n - 1) : gone[order[m]]
        /\ r.exceeded => \A x \in DOMAIN gone : gone[x]
        /\ "world_setting" \notin user => IsPrefix(r.items.world, r.ranked.world)
        /\ "plot_threads" \notin user => IsPrefix(r.items.plots, r.ranked.plots)
        /\ "timeline" \notin user => IsSuffix(r.items.timeline, r.ranked.timeline)
        /\ "outline" \in r.truncated /\ ~ r.exceeded =>
             Heavy([r.variables EXCEPT !.chapter_outline = @ + 1])
        /\ (r.items.world # <<>>) = (r.variables.world_setting > 0 /\ "world_setting" \notin user)
        /\ (r.items.timeline # <<>>) = (r.variables.timeline > 0 /\ "timeline" \notin user)

(* No event of a later chapter gets into the prompt of a chapter, and the  *)
(* character a scene is told by always does.                               *)
NothingOfLaterChapters ==
  Succeeded =>
    LET p == assembled.rows
        r == assembled.result
    IN  /\ \A n \in DOMAIN p.timeline, c \in DOMAIN p.chapters :
             /\ p.chapter.id # 0 /\ p.timeline[n].chapter = p.chapters[c].id
             /\ p.chapters[c].index > p.chapter.index
             => p.timeline[n].id \notin ToSet(r.items.timeline)
        /\ \A n \in DOMAIN p.characters :
             p.characters[n].id = p.scene.pov /\ "pov_character" \notin assembled.user => r.variables.pov_character > 0

(* What the model is told of a novel was cut in the documented order and   *)
(* holds nothing that lies ahead of the chapter.                           *)
ContextSound == GivenUpInOrder /\ NothingOfLaterChapters
=============================================================================
