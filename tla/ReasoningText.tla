------------------------------- MODULE ReasoningText -------------------------------
(***************************************************************************)
(* What is read of a reasoning model's answer (llm_provider.py,              *)
(* clean_deepseek_reasoning_output): the chain of thought is cut away and    *)
(* one JSON object is isolated.                                             *)
(*                                                                         *)
(* A text is a sequence of tokens: the tags <think> ("open") and </think>   *)
(* ("close"), the braces ("begin" and "end"), the marker of a fenced block   *)
(* ("fence", with its language and the space around it) and anything else    *)
(* ("word").                                                               *)
(***************************************************************************)
EXTENDS Naturals, Sequences, FiniteSets, FiniteSetsExt

CONSTANT Thoughts  \* what a model may think before it answers, or instead of answering

Tokens == {"open", "close", "begin", "end", "fence", "word"}

\* A thought ends where it is closed.
ASSUME ThoughtsAssumption ==
  \A thought \in Thoughts :
    thought \in Seq(Tokens) /\ \A i \in DOMAIN thought : thought[i] # "close"

VARIABLE answer

\* Seeded fault: only blocks that are closed are removed.
ThoughtClosedOnly(text) ==
  {i \in DOMAIN text :
     \E j \in 1 .. i : \E e \in i .. Len(text) :
       /\ text[j] = "open" /\ text[e] = "close"
       /\ \A k \in j + 1 .. i - 1 : text[k] # "close"}

\* The positions inside a block: from its opening tag to the first closing tag after it,
\* or to the end of a text that was cut off.
Thought(text) ==
  {i \in DOMAIN text :
     \E j \in 1 .. i : text[j] = "open" /\ \A k \in j + 1 .. i - 1 : text[k] # "close"}

\* Only what follows the last closing tag without a block of its own is kept.
Kept(text) ==
  LET left == DOMAIN text \ Thought(text)
  IN  {i \in left : \A k \in left : text[k] = "close" => k < i}

TheNth(S, n) == CHOOSE i \in S : Cardinality({k \in S : k <= i}) = n
Spoken(text) == [n \in 1 .. Cardinality(Kept(text)) |-> text[TheNth(Kept(text), n)]]

\* The ends of the first fenced object: the first fence that opens one, and the first
\* closing brace followed by a fence.
FencedEnds(text, i) ==
  {e \in i + 2 .. Len(text) - 1 : text[i + 1] = "begin" /\ text[e] = "end" /\ text[e + 1] = "fence"}
Fenced(text) == {i \in 1 .. Len(text) - 1 : text[i] = "fence" /\ FencedEnds(text, i) # {}}

\* Without a fence, from the first opening to the last closing brace.
Object(text) ==
  LET starts == {i \in DOMAIN text : text[i] = "begin"}
      ends   == {i \in DOMAIN text : text[i] = "end"}
  IN  IF starts # {} /\ ends # {} /\ Min(starts) < Max(ends)
      THEN SubSeq(text, Min(starts), Max(ends)) ELSE text

Extracted(text) ==
  IF Fenced(text) # {}
  THEN LET i == Min(Fenced(text)) IN SubSeq(text, i + 1, Min(FencedEnds(text, i)))
  ELSE Object(text)

\* clean_deepseek_reasoning_output.
Clean(text) == Extracted(Spoken(text))

-----------------------------------------------------------------------------
(* The answer arrives token by token; it may end anywhere.                  *)

AnswerInit == answer = <<>>
AddToken == \E token \in Tokens : answer' = Append(answer, token)

AnswerSpec == AnswerInit /\ [][AddToken]_answer

-----------------------------------------------------------------------------
(* Properties of a text.                                                    *)

Tagged(text) == \E i \in DOMAIN text : text[i] \in {"open", "close"}

\* Whatever the model thought, also an object that looks like an answer, its answer is
\* read as if it had not thought; of a thought that was cut off nothing is read.
ThoughtIsNotRead(text, thought) ==
  /\ Clean(<<"open">> \o thought) = <<>>
  /\ ~Tagged(text) => Clean(<<"open">> \o thought \o <<"close">> \o text) = Clean(text)

\* An object, perhaps with objects inside it: the first brace is closed by the last token.
Occurrences(text, token, n) == Cardinality({i \in 1 .. n : text[i] = token})
IsObject(text) ==
  /\ text # <<>> /\ text[1] = "begin"
  /\ Occurrences(text, "begin", Len(text)) = Occurrences(text, "end", Len(text))
  /\ \A n \in 1 .. Len(text) - 1 : Occurrences(text, "begin", n) > Occurrences(text, "end", n)
  /\ \A i \in DOMAIN text : text[i] \in {"begin", "end", "word"}

\* A single object, alone, between words or in a fence, is read whole.
ObjectIsReadWhole(text) ==
  IsObject(text) =>
    /\ Clean(text) = text
    /\ Clean(<<"word">> \o text \o <<"word">>) = text
    /\ Clean(<<"word", "fence">> \o text \o <<"fence", "word">>) = text

\* Cleaning a cleaned text changes nothing: the provider cleans and the node cleans again.
CleaningIsFinal(text) == Clean(Clean(text)) = Clean(text) /\ ~Tagged(Clean(text))

\* clean_deepseek_reasoning_output: an answer is read for what it says, an object whole, a
\* thought not at all, and reading it twice changes nothing.
TextIsReadRight ==
  /\ \A thought \in Thoughts : ThoughtIsNotRead(answer, thought)
  /\ ObjectIsReadWhole(answer)
  /\ CleaningIsFinal(answer)

=============================================================================
