------------------------------- MODULE LlmText -------------------------------
(***************************************************************************)
(* From the raw reply of the model to the text and the dict a node works   *)
(* with: src/core/llm_utils.py and src/core/json_utils.py.                 *)
(*                                                                         *)
(* A text is a sequence of tokens: the tags, fences and braces the         *)
(* patterns look for, the two halves of an opening reasoning tag, which    *)
(* are a tag only where they meet, "kv", the inside of a JSON object, and  *)
(* "prose", anything else.  White space is left out, and so are halves of  *)
(* the other tags and of fences.  The model writes any text, token by      *)
(* token.  A part of a text is the same function on fewer positions: what  *)
(* is removed leaves the others where they were.                           *)
(***************************************************************************)
EXTENDS Naturals, Sequences, FiniteSets, Functions

CONSTANTS Names,     \* of reasoning blocks: thinking, think, reasoning, reflection
          Split,     \* those the model may write in two halves
          MaxLength  \* bound: tokens of a text

ASSUME TextAssumption == "output" \notin Names /\ Split \subseteq Names /\ MaxLength \in Nat

VARIABLE text  \* what the model has written so far

Open(n) == <<"open", n>>
Close(n) == <<"close", n>>
Front(n) == <<"front", n>>
Back(n) == <<"back", n>>
Tags == Names \cup {"output"}
JsonFence == <<"fence", "json">>
Fences == {JsonFence, <<"fence", "bare">>}
LBrace == <<"brace", "{">>
RBrace == <<"brace", "}">>
KeyValue == <<"word", "kv">>
Prose == <<"word", "prose">>
Tokens == {Open(n) : n \in Tags} \cup {Close(n) : n \in Tags}
            \cup {Front(n) : n \in Split} \cup {Back(n) : n \in Split}
            \cup Fences \cup {LBrace, RBrace, KeyValue, Prose}

Init == text = <<>>
Next == Len(text) < MaxLength /\ \E t \in Tokens : text' = Append(text, t)
Spec == Init /\ [][Next]_text

-----------------------------------------------------------------------------
(* re: a match is the pair of its first and its last position. *)

NoText == <<>>
Between(s, i, j) == Restrict(s, DOMAIN s \cap (i .. j))

At(s, ts) == {i \in DOMAIN s : s[i] \in ts}
Spans(s, opens, closes) == {m \in At(s, opens) \X At(s, closes) : m[1] < m[2]}

\* opens.*?closes matches from one of opens to the first of closes behind it.
Lazy(s, opens, closes) ==
    {m \in Spans(s, opens, closes) :
        \A k \in DOMAIN s : m[1] < k /\ k < m[2] => s[k] \notin closes}

\* re.search: the match that begins first.
Search(ms) == CHOOSE m \in ms : \A p \in ms : m[1] <= p[1]

\* re.sub and re.findall: from left to right, skipping what begins within a match
\* that was taken.
Scan(ms) ==
    CHOOSE taken \in SUBSET ms :
        \A m \in ms : m \in taken <=> ~\E t \in taken : t[1] < m[1] /\ m[1] <= t[2]

(* llm_utils.py *)

\* The pattern reads characters: two halves are a tag where nothing stands between
\* them, or is left between them.
Joined(s) ==
    {m[1] : m \in {m \in UNION {Spans(s, {Front(n)}, {Back(n)}) : n \in Split} :
                      \A k \in DOMAIN s : ~(m[1] < k /\ k < m[2])}}

Reading(s) ==
    LET joined == Joined(s)
    IN [i \in DOMAIN s |-> IF i \in joined THEN Open(s[i][2]) ELSE s[i]]

\* A block ends at the first closing tag of its own name; a tag that is never closed
\* stays.
Matches(s, ns) == UNION {Lazy(s, {Open(n)}, {Close(n)}) : n \in ns}
Blocks(s, ns) == Scan(Matches(s, ns))

\* Mutant: one block is removed, the first.
MutStripFirst(s) ==
    LET b == Search(Blocks(Reading(s), Names))
    IN IF Blocks(Reading(s), Names) = {} THEN s
       ELSE Restrict(s, {i \in DOMAIN s : i < b[1] \/ b[2] < i})

\* One pass: a tag that the removal of a block puts together stays.
strip_reasoning_blocks(s) ==
    LET blocks == Blocks(Reading(s), Names)
    IN Restrict(s, {i \in DOMAIN s : \A b \in blocks : i < b[1] \/ b[2] < i})

\* Mutant: the first block instead of the last.
MutExtract(s) ==
    LET outputs == Blocks(s, {"output"})
    IN IF outputs = {} THEN s ELSE Between(s, Search(outputs)[1] + 1, Search(outputs)[2] - 1)

extract_output_payload(s) ==
    LET outputs == Blocks(s, {"output"})
        last == CHOOSE o \in outputs : \A p \in outputs : p[1] <= o[1]
    IN IF outputs = {} THEN s ELSE Between(s, last[1] + 1, last[2] - 1)

sanitize_llm_response(s) == extract_output_payload(strip_reasoning_blocks(s))

-----------------------------------------------------------------------------
(* json_utils.py *)

\* json.loads: opening braces, at most one key-value, as many closing braces.
IsObject(s) ==
    /\ DOMAIN s = At(s, {LBrace, KeyValue, RBrace})
    /\ \A i \in At(s, {LBrace}), j \in At(s, {KeyValue, RBrace}) : i < j
    /\ \A i \in At(s, {KeyValue}), j \in At(s, {KeyValue, RBrace}) : i = j \/ i < j
    /\ At(s, {LBrace}) # {} /\ Cardinality(At(s, {LBrace})) = Cardinality(At(s, {RBrace}))

\* Mutant: re.match instead of re.search, a fence at the very beginning only.
MutFenced(s, opening) ==
    LET fences == {m \in Lazy(s, opening, Fences) : \A k \in DOMAIN s : m[1] <= k}
    IN IF fences = {} THEN NoText
       ELSE Between(s, Search(fences)[1] + 1, Search(fences)[2] - 1)

\* From the first of the opening fences to the next fence, whatever its kind; a bare
\* pattern that meets a json fence takes the word json for content.
Fenced(s, opening) ==
    LET fences == Lazy(s, opening, Fences)
        start == Search(fences)[1]
    IN IF fences = {} THEN NoText
       ELSE Between(s, IF opening = Fences /\ s[start] = JsonFence THEN start ELSE start + 1,
                    Search(fences)[2] - 1)

\* From the first brace to the last.
Greedy(s) ==
    LET spans == {m \in Spans(s, {LBrace}, {RBrace}) :
                    \A k \in DOMAIN s : m[2] < k => s[k] # RBrace}
    IN IF spans = {} THEN NoText ELSE Between(s, Search(spans)[1], Search(spans)[2])

\* Where there is an object that starts at the first brace.
FirstObject(s) ==
    {m \in Spans(s, {LBrace}, {RBrace}) :
        /\ \A k \in DOMAIN s : k < m[1] => s[k] # LBrace
        /\ IsObject(Between(s, m[1], m[2]))}

\* Mutant: rfind instead of find, the object at the last brace.
MutRawDecode(s) ==
    LET ms == {m \in Spans(s, {LBrace}, {RBrace}) :
                 /\ \A k \in DOMAIN s : m[1] < k => s[k] # LBrace
                 /\ IsObject(Between(s, m[1], m[2]))}
        m == CHOOSE m \in ms : TRUE
    IN IF ms = {} THEN NoText ELSE Between(s, m[1], m[2])

\* That object, whatever follows it.
RawDecode(s) ==
    LET m == CHOOSE m \in FirstObject(s) : TRUE
    IN IF FirstObject(s) = {} THEN NoText ELSE Between(s, m[1], m[2])

\* The first strategy that finds an object; NoText stands for JsonParseError.
safe_json_parse(raw) ==
    LET s == strip_reasoning_blocks(raw)
        candidates == <<s, Fenced(s, {JsonFence}), Fenced(s, Fences), Greedy(s), RawDecode(s)>>
        found == {k \in 1 .. 5 : IsObject(candidates[k])}
    IN IF found = {} THEN NoText ELSE candidates[CHOOSE k \in found : \A l \in found : k <= l]

-----------------------------------------------------------------------------
(* Properties. *)

\* llm_utils.py:21 and :228 claim that sanitizing twice is sanitizing once, for any
\* text.  Removing a block can put a tag together, and the second pass, that of
\* safe_json_parse, then removes a block of it.  That is the only way: where nothing was
\* put together the second pass changes nothing.
IdempotentUnlessJoined ==
    LET once == sanitize_llm_response(text)
    IN Joined(once) = Joined(text) \cap DOMAIN once => sanitize_llm_response(once) = once

\* Whatever the model writes before its answer, examples of answers inside and
\* outside its reasoning included, the last <output> is what is read, unless one
\* outside the reasoning was left open.
LastOutputIsRead ==
    LET s == strip_reasoning_blocks(text)
        answered == text \o <<Open("output"), KeyValue, Close("output")>>
    IN (\A i \in DOMAIN s : s[i] = Open("output")
                              => \E j \in DOMAIN s : i < j /\ s[j] = Close("output"))
          => sanitize_llm_response(answered) = Between(answered, Len(text) + 2, Len(text) + 2)

\* An answer the model puts in a fence is parsed, whatever objects or pieces of objects
\* it wrote before it, as long as it wrote no other fence.
FencedAnswerIsParsed ==
    LET s == strip_reasoning_blocks(text)
        Answered(fence) == text \o <<fence, LBrace, KeyValue, RBrace, <<"fence", "bare">>>>
    IN (\A i \in DOMAIN s : s[i] \notin Fences)
          => \A fence \in Fences :
                safe_json_parse(Answered(fence)) = Between(Answered(fence), Len(text) + 2, Len(text) + 4)

\* A bare answer is parsed only where no brace precedes it: an example object before the
\* real one is returned in its place, and a loose brace makes an error of it, which
\* json_utils.py:239-240 says raw_decode handles.
BraceHidesAnswer ==
    LET s == strip_reasoning_blocks(text)
        answered == text \o <<LBrace, KeyValue, RBrace>>
    IN (\A i \in DOMAIN s : s[i] \notin Fences)
          => (safe_json_parse(answered) = Between(answered, Len(text) + 1, Len(text) + 3)
                <=> \A i \in DOMAIN s : s[i] # LBrace)

=============================================================================
