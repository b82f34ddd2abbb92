--------------------------- MODULE MemoryRetrieval ---------------------------
(***************************************************************************)
(* How the memory cuts a text into chunks, ranks the chunks for a query    *)
(* and fits them into a token budget (chunking.py, ranking.py,             *)
(* retrieval.py and context_bridge.py of src/llm_studio/memory).           *)
(*                                                                         *)
(* These are functions.  `found` holds one call: what it was asked and     *)
(* what it answered.  The characters of a text that are not white space    *)
(* are numbered from 1; a chunk is the interval of the characters it       *)
(* holds.                                                                  *)
(***************************************************************************)
EXTENDS Integers, Sequences, FiniteSets, Lists, SequencesExt, FiniteSetsExt

CONSTANTS ChunkChars,        \* chunk_chars of the options (at least 200)
          OverlapChars,      \* chunk_overlap_chars, at most half of ChunkChars
          MaxParagraphs,     \* bound on the paragraphs of a text
          MaxParagraph,      \* bound on the characters of a paragraph
          ChunkSets,         \* the sequences of indexed chunks to retrieve from
          Budgets            \* the numbers a request may give as top_k or as a budget

(* What is indexed of a chunk; the hits are those of the query, inChapter  *)
(* and inScene whether it is of the chapter and the scene of the request.  *)
SourceTypes == {"character", "world_entry", "plot_thread", "timeline_event", "chapter", "scene",
                "revision", "generation", "adapter_eval_result", "manual_note", "foreshadowing"}
Chunks == [type : SourceTypes, hits : Nat, priority : Int, inChapter : BOOLEAN, inScene : BOOLEAN,
           tokens : Nat, updated : Int]

ASSUME RetrievalAssumption ==
  /\ ChunkChars \in Nat \ {0} /\ OverlapChars \in Nat
  /\ MaxParagraphs \in Nat /\ MaxParagraph \in Nat
  /\ ChunkSets \subseteq Seq(Chunks)
  /\ Budgets \subseteq Nat

VARIABLE found
Nothing == [fn |-> "none"]

-----------------------------------------------------------------------------
(* MemoryChunker                                                           *)

Size(c) == c.to - c.from + 1

(* _split_by_chars: pieces of ChunkChars that overlap, of the characters   *)
(* from..to.  The loop goes round at most once for a character.            *)
Piece(start, to) == [from |-> start, to |-> Min({to, start + ChunkChars - 1})]
PieceAfter(p, to) == Piece(Max({p.to + 1 - OverlapChars, p.from + 1}), to)
PiecesUpTo(from, to) ==
  LET pieces[n \in 0..(to - from)] ==
        IF n = 0 THEN <<Piece(from, to)>>
        ELSE LET made == pieces[n - 1]
             IN  IF Last(made).to = to THEN made ELSE Append(made, PieceAfter(Last(made), to))
  IN  pieces
SplitByChars(from, to) == PiecesUpTo(from, to)[to - from]

(* _split_long_text: short paragraphs are joined while they fit; the next  *)
(* chunk starts with the tail of the one before.  The tail is looked up in *)
(* the text by its first characters, so what it holds depends on the text, *)
(* and is more than OverlapChars when they also occur before it: tails     *)
(* gives its length for each paragraph.                                    *)
NoText == [chunks |-> <<>>, open |-> <<>>]
Flushed(s) == s.chunks \o s.open
WithParagraph(s, p, length) ==
  LET joined == IF s.open = <<>> THEN p ELSE [from |-> s.open[1].from, to |-> p.to]
      tail == Min({length, Size(s.open[1])})
  IN  CASE Size(p) > ChunkChars ->
             [chunks |-> Flushed(s) \o SplitByChars(p.from, p.to), open |-> <<>>]
        [] Size(p) =< ChunkChars /\ Size(joined) =< ChunkChars ->
             [chunks |-> s.chunks, open |-> <<joined>>]
        [] OTHER -> [chunks |-> Flushed(s), open |-> <<[from |-> p.from - tail, to |-> p.to]>>]
TextUpTo(lengths, tails) ==
  LET before == Sums(lengths)
      text[n \in 0..Len(lengths)] ==
        IF n = 0 THEN NoText
        ELSE WithParagraph(text[n - 1], [from |-> before[n - 1] + 1, to |-> before[n]], tails[n])
  IN  text
SplitLongText(lengths, tails) == Flushed(TextUpTo(lengths, tails)[Len(lengths)])

(* chunk_document: a short card is one chunk.                              *)
ChunkDocument(card, lengths, tails) ==
  LET all == Total(lengths)
  IN  IF card /\ all =< ChunkChars THEN <<[from |-> 1, to |-> all]>> ELSE SplitLongText(lengths, tails)

-----------------------------------------------------------------------------
(* MemoryRanker; a score counts 600 for 1.0                                *)

SourceWeight(type) ==
  [character |-> 780, world_entry |-> 720, plot_thread |-> 750, timeline_event |-> 660,
   chapter |-> 600, scene |-> 660, revision |-> 690, generation |-> 480,
   adapter_eval_result |-> 540, manual_note |-> 840, foreshadowing |-> 810][type]

Score(c, terms) ==
  (c.hits * 600) \div Max({1, terms}) + SourceWeight(c.type)
    + Min({300, Max({0, c.priority * 30})})
    + (IF c.inChapter THEN 210 ELSE 0) + (IF c.inScene THEN 150 ELSE 0) + 30

(* Better score first, then the higher priority, then the older document,  *)
(* then the order of the chunks.                                           *)
Rank(chunks, terms) ==
  Sorted([i \in DOMAIN chunks |->
            <<-Score(chunks[i], terms), -chunks[i].priority, chunks[i].updated>>])

(* MemoryRetrievalService.retrieve: the first topK of the ranking, of      *)
(* which each is taken that still fits.                                    *)
Tokens(chunks, ids) == Total([n \in DOMAIN ids |-> chunks[ids[n]].tokens])
MutSelectedUpTo(chunks, ids, maxTokens, maxChunks) ==
  LET Fits(taken, i) == Len(taken) < maxChunks /\ Tokens(chunks, taken) < maxTokens
      chosen[n \in 0..Len(ids)] ==
        IF n = 0 THEN <<>>
        ELSE IF Fits(chosen[n - 1], ids[n]) THEN Append(chosen[n - 1], ids[n]) ELSE chosen[n - 1]
  IN  chosen
SelectedUpTo(chunks, ids, maxTokens, maxChunks) ==
  LET Fits(taken, i) == Len(taken) < maxChunks /\ Tokens(chunks, taken) + chunks[i].tokens =< maxTokens
      chosen[n \in 0..Len(ids)] ==
        IF n = 0 THEN <<>>
        ELSE IF Fits(chosen[n - 1], ids[n]) THEN Append(chosen[n - 1], ids[n]) ELSE chosen[n - 1]
  IN  chosen
Select(chunks, ids, maxTokens, maxChunks) ==
  SelectedUpTo(chunks, ids, maxTokens, maxChunks)[Len(ids)]

Retrieve(chunks, terms, topK, maxTokens, maxChunks) ==
  LET ranked == Rank(chunks, terms)
      retrieved == SubSeq(ranked, 1, Min({topK, Len(ranked)}))
      selected == Select(chunks, retrieved, maxTokens, Min({maxChunks, topK}))
  IN  [retrieved |-> retrieved, selected |-> selected,
       warned |-> Len(selected) < Len(retrieved)]

(* ContextMemoryBridge.enrich: the chunks of the lowest rank are dropped   *)
(* while the prompt with the others is over the budget.                    *)
Enrich(chunks, selected, room) ==
  LET Fits(n) == Tokens(chunks, SubSeq(selected, 1, n)) =< room
  IN  SubSeq(selected, 1, Max({0} \union {n \in 0..Len(selected) : Fits(n)}))

-----------------------------------------------------------------------------
RetrievalInit == found = Nothing

CutText ==
  \E card \in BOOLEAN, n \in 1..MaxParagraphs :
  \E lengths \in [1..n -> 1..MaxParagraph], tails \in [1..n -> 0..(OverlapChars + 1)] :
    found' = [fn |-> "cut", lengths |-> lengths, tails |-> tails,
              chunks |-> ChunkDocument(card, lengths, tails)]

Search ==
  \E chunks \in ChunkSets, terms \in 0..2, topK, maxTokens, maxChunks, room \in Budgets :
    LET result == Retrieve(chunks, terms, topK, maxTokens, maxChunks)
    IN  found' = [fn |-> "search", chunks |-> chunks, terms |-> terms, topK |-> topK,
                  maxTokens |-> maxTokens, maxChunks |-> maxChunks, room |-> room,
                  result |-> result, kept |-> Enrich(chunks, result.selected, room)]

RetrievalNext == found = Nothing /\ (CutText \/ Search)

RetrievalSpec == RetrievalInit /\ [][RetrievalNext]_found

-----------------------------------------------------------------------------
(* No character of a text is lost between two chunks, each chunk goes      *)
(* further than the one before it, and none is longer than a full chunk and the     *)
(* overlap it starts with.                                                 *)
ChunksCover ==
  found.fn = "cut" =>
    LET cs == found.chunks
        all == Total(found.lengths)
    IN  /\ cs[1].from = 1 /\ cs[Len(cs)].to = all
        /\ \A k \in 1..(Len(cs) - 1) :
             /\ cs[k].from =< cs[k + 1].from /\ cs[k].to < cs[k + 1].to
             /\ cs[k + 1].from =< cs[k].to + 1
        /\ (\A n \in DOMAIN found.tails : found.tails[n] =< OverlapChars)
             => \A k \in DOMAIN cs : Size(cs[k]) =< ChunkChars + OverlapChars

(* What is selected fits both limits, and what was ranked and left out     *)
(* would not have fitted beside it; the caller is warned of it.  What is   *)
(* put in the prompt are the best of the selected chunks, as many as fit.  *)
RetrievalFills ==
  found.fn = "search" =>
    LET r == found.result
        limit == Min({found.maxChunks, found.topK})
        used == Tokens(found.chunks, r.selected)
        left == {i \in ToSet(r.retrieved) : i \notin ToSet(r.selected)}
    IN  /\ Len(r.selected) =< limit /\ used =< found.maxTokens
        /\ \A i \in left : Len(r.selected) = limit \/ used + found.chunks[i].tokens > found.maxTokens
        /\ r.warned <=> left # {}
        /\ IsPrefix(found.kept, r.selected)
        /\ Tokens(found.chunks, found.kept) =< found.room
        /\ \A i \in DOMAIN found.chunks \ ToSet(r.retrieved) : \A j \in ToSet(r.retrieved) :
             Score(found.chunks[i], found.terms) =< Score(found.chunks[j], found.terms)

(* The way of a text into a prompt loses nothing unsaid: the chunks cover  *)
(* it and the selection is the best that fits.                             *)
RetrievalSound == ChunksCover /\ RetrievalFills
=============================================================================
