---------------------------- MODULE LlmTextProofs ----------------------------
(***************************************************************************)
(* Theorems about LlmText: the four properties, for texts of any length    *)
(* and any names of reasoning blocks.  Positions are numbers, so a set of  *)
(* them has a first and a last one, and the scan from left to right exists *)
(* and is what re computes; everything else is about which tokens a match  *)
(* may hold.                                                               *)
(***************************************************************************)
EXTENDS LlmText, FiniteSetTheorems, SequenceTheorems, WellFoundedInduction, TLAPS

-----------------------------------------------------------------------------
(* Positions. *)

\* A set of positions that is not empty has a first one.
LEMMA FirstExists ==
    ASSUME NEW T \in SUBSET Nat, T # {}
    PROVE  \E x \in T : \A y \in T : x <= y
<1>1. IsWellFoundedOn(OpToRel(<, Nat), Nat)
  BY NatLessThanWellFounded
<1>2. PICK x \in T : \A y \in T : ~(<<y, x>> \in OpToRel(<, Nat))
  BY <1>1, WFMin
<1>3. ASSUME NEW y \in T PROVE x <= y
  <2>1. x \in Nat /\ y \in Nat
    OBVIOUS
  <2>2. ~(y < x)
    BY <1>2, <2>1 DEF OpToRel
  <2> QED
    BY <2>1, <2>2
<1> QED
  BY <1>3

\* And, when they are bounded, a last one.
LEMMA LastExists ==
    ASSUME NEW N \in Nat, NEW T \in SUBSET (0 .. N), T # {}
    PROVE  \E x \in T : \A y \in T : y <= x
<1> DEFINE U == {n \in Nat : \A t \in T : t <= n}
<1>1. U \in SUBSET Nat /\ N \in U
  OBVIOUS
<1>2. PICK u \in U : \A v \in U : u <= v
  BY <1>1, FirstExists
<1>3. CASE u \in T
  BY <1>2, <1>3
<1>4. CASE u \notin T
  <2>1. PICK t \in T : TRUE
    OBVIOUS
  <2>2. u - 1 \in U
    BY <1>4, <2>1
  <2> QED
    BY <1>2, <2>2
<1> QED
  BY <1>3, <1>4

-----------------------------------------------------------------------------
(* The scan. *)

\* What Scan promises of the matches it takes.
IsScan(taken, ms) ==
    \A m \in ms : m \in taken <=> ~\E t \in taken : t[1] < m[1] /\ m[1] <= t[2]

\* The matches that begin before n can be scanned, whatever n: the least n for which
\* they could not would be one more than one for which they can.
LEMMA ScanUpTo ==
    ASSUME NEW N \in Nat, NEW ms \in SUBSET ((1 .. N) \X (1 .. N)), NEW n \in Nat
    PROVE  \E taken \in SUBSET {m \in ms : m[1] < n} : IsScan(taken, {m \in ms : m[1] < n})
<1> DEFINE Upto(k) == {m \in ms : m[1] < k}
           Bad == {k \in Nat : ~\E taken \in SUBSET Upto(k) : IsScan(taken, Upto(k))}
<1>1. SUFFICES ASSUME Bad # {} PROVE FALSE
  OBVIOUS
<1>2. PICK k \in Bad : \A l \in Bad : k <= l
  BY <1>1, FirstExists
<1>3. \A m \in ms : m[1] \in 1 .. N /\ m[2] \in 1 .. N
  OBVIOUS
<1>4. k # 0
  <2>1. Upto(0) = {}
    BY <1>3
  <2>2. IsScan({}, Upto(0))
    BY <2>1 DEF IsScan
  <2> QED
    BY <2>1, <2>2
<1>5. k \in Nat /\ k - 1 \in Nat /\ k - 1 \notin Bad
  <2>1. k \in Nat /\ k - 1 \in Nat
    BY <1>4
  <2>2. ~(k <= k - 1)
    BY <2>1
  <2> QED
    BY <2>1, <2>2, <1>2
<1>6. PICK taken \in SUBSET Upto(k - 1) : IsScan(taken, Upto(k - 1))
  BY <1>5
<1> DEFINE new == {m \in ms : m[1] = k - 1 /\ ~\E t \in taken : t[1] < m[1] /\ m[1] <= t[2]}
<1>7. taken \cup new \in SUBSET Upto(k)
  BY <1>3, <1>5
<1>8. IsScan(taken \cup new, Upto(k))
  <2> SUFFICES ASSUME NEW m \in Upto(k)
               PROVE  m \in taken \cup new
                        <=> ~\E t \in taken \cup new : t[1] < m[1] /\ m[1] <= t[2]
    BY DEF IsScan
  <2>1. \A t \in new : t[1] = k - 1
    OBVIOUS
  <2>2. \A t \in taken : t[1] < k - 1
    OBVIOUS
  <2>3. m[1] \in Nat /\ m[1] < k
    BY <1>3
  <2>4. CASE m[1] < k - 1
    <3>1. m \in Upto(k - 1) /\ m \notin new
      BY <2>4
    <3>2. \A t \in new : ~(t[1] < m[1])
      BY <2>1, <2>3, <2>4, <1>5
    <3> QED
      BY <3>1, <3>2, <1>6 DEF IsScan
  <2>5. CASE m[1] = k - 1
    <3>1. m \notin taken
      BY <2>2, <2>5, <1>5
    <3>2. \A t \in new : ~(t[1] < m[1])
      BY <2>1, <2>5, <1>5
    <3> QED
      BY <3>1, <3>2, <2>5
  <2> QED
    BY <2>3, <2>4, <2>5, <1>5
<1> QED
  BY <1>2, <1>5, <1>7, <1>8

\* So Scan takes some of the matches, and exactly those it should.
LEMMA ScanIsScan ==
    ASSUME NEW N \in Nat, NEW ms \in SUBSET ((1 .. N) \X (1 .. N))
    PROVE  Scan(ms) \in SUBSET ms /\ IsScan(Scan(ms), ms)
<1>1. {m \in ms : m[1] < N + 1} = ms
  OBVIOUS
<1>2. \E taken \in SUBSET ms : IsScan(taken, ms)
  <2>1. N + 1 \in Nat
    OBVIOUS
  <2>2. \E taken \in SUBSET {m \in ms : m[1] < N + 1} : IsScan(taken, {m \in ms : m[1] < N + 1})
    BY <2>1, ScanUpTo
  <2> QED
    BY <1>1, <2>2
<1> QED
  BY <1>2 DEF Scan, IsScan

-----------------------------------------------------------------------------
(* Matches and blocks. *)

\* Where a match lies and what is at its ends.
LEMMA MatchShape ==
    ASSUME NEW s, NEW ns, NEW m \in Matches(s, ns)
    PROVE  /\ m = <<m[1], m[2]>> /\ m[1] \in DOMAIN s /\ m[2] \in DOMAIN s /\ m[1] < m[2]
           /\ \E n \in ns : /\ s[m[1]] = Open(n) /\ s[m[2]] = Close(n)
                           /\ \A k \in DOMAIN s : m[1] < k /\ k < m[2] => s[k] # Close(n)
BY DEF Matches, Lazy, Spans, At

\* The blocks are matches, taken from left to right.
LEMMA BlocksAreScanned ==
    ASSUME NEW N \in Nat, NEW s, DOMAIN s \subseteq 1 .. N, NEW ns
    PROVE  Blocks(s, ns) \in SUBSET Matches(s, ns) /\ IsScan(Blocks(s, ns), Matches(s, ns))
<1>1. Matches(s, ns) \in SUBSET ((1 .. N) \X (1 .. N))
  BY DEF Matches, Lazy, Spans, At
<1> QED
  BY <1>1, ScanIsScan DEF Blocks

\* Where an opening has a closing behind it, a match begins, and ends there at the latest.
LEMMA LazyFinds ==
    ASSUME NEW N \in Nat, NEW s, DOMAIN s \subseteq 1 .. N, NEW opens, NEW closes,
           NEW i \in DOMAIN s, NEW j \in DOMAIN s, i < j, s[i] \in opens, s[j] \in closes
    PROVE  \E k \in DOMAIN s : k <= j /\ <<i, k>> \in Lazy(s, opens, closes)
<1> DEFINE ends == {k \in DOMAIN s : i < k /\ s[k] \in closes}
<1>1. PICK k \in ends : \A l \in ends : k <= l
  <2>1. ends \in SUBSET Nat /\ j \in ends
    OBVIOUS
  <2> QED
    BY <2>1, FirstExists
<1>2. k \in DOMAIN s /\ i < k /\ s[k] \in closes /\ k <= j
  BY <1>1
<1>3. \A l \in DOMAIN s : i < l /\ l < k => s[l] \notin closes
  BY <1>1
<1>4. <<i, k>> \in Lazy(s, opens, closes)
  BY <1>2, <1>3 DEF Lazy, Spans, At
<1> QED
  BY <1>2, <1>4

\* Search returns the match that begins first.
LEMMA SearchFindsFirst ==
    ASSUME NEW N \in Nat, NEW ms \in SUBSET ((1 .. N) \X (1 .. N)), ms # {}
    PROVE  Search(ms) \in ms /\ \A p \in ms : Search(ms)[1] <= p[1]
<1> DEFINE starts == {m[1] : m \in ms}
<1>1. starts \in SUBSET Nat /\ starts # {}
  OBVIOUS
<1>2. PICK i \in starts : \A j \in starts : i <= j
  BY <1>1, FirstExists
<1>3. \E m \in ms : \A p \in ms : m[1] <= p[1]
  BY <1>2
<1> QED
  BY <1>3 DEF Search

\* Without such a pair of tags there is no block.
LEMMA NoPairNoBlock ==
    ASSUME NEW N \in Nat, NEW s, DOMAIN s \subseteq 1 .. N, NEW ns,
           \A n \in ns, i \in DOMAIN s, j \in DOMAIN s :
               i < j /\ s[i] = Open(n) => s[j] # Close(n)
    PROVE  Blocks(s, ns) = {}
<1>1. Matches(s, ns) = {}
  BY MatchShape
<1> QED
  BY <1>1, BlocksAreScanned

-----------------------------------------------------------------------------
(* What is left of a text. *)

\* A part of a text is a function and agrees with the text.
IsPart(t, s) ==
    /\ DOMAIN t \subseteq DOMAIN s
    /\ t = [i \in DOMAIN t |-> s[i]]

LEMMA RestrictIsPart ==
    ASSUME NEW s, NEW S \in SUBSET DOMAIN s
    PROVE  IsPart(Restrict(s, S), s) /\ DOMAIN Restrict(s, S) = S
BY DEF IsPart, Restrict

LEMMA BetweenIsPart ==
    ASSUME NEW s, NEW i, NEW j
    PROVE  IsPart(Between(s, i, j), s) /\ DOMAIN Between(s, i, j) = DOMAIN s \cap (i .. j)
BY RestrictIsPart DEF Between

LEMMA PartOfPart ==
    ASSUME NEW s, NEW t, NEW u, IsPart(t, s), IsPart(u, t)
    PROVE  IsPart(u, s)
BY DEF IsPart

\* Restricted to all of its positions a part is itself.
LEMMA WholePart ==
    ASSUME NEW s, NEW t, IsPart(t, s)
    PROVE  Restrict(t, DOMAIN t) = t
BY DEF IsPart, Restrict

LEMMA StripIsPart ==
    ASSUME NEW s
    PROVE  /\ IsPart(strip_reasoning_blocks(s), s)
           /\ DOMAIN strip_reasoning_blocks(s)
                = {i \in DOMAIN s : \A b \in Blocks(Reading(s), Names) : i < b[1] \/ b[2] < i}
BY RestrictIsPart DEF strip_reasoning_blocks

\* What is read differs from what is written in the front halves of joined tags only.
LEMMA ReadingShape ==
    ASSUME NEW s
    PROVE  /\ DOMAIN Reading(s) = DOMAIN s
           /\ \A i \in DOMAIN s : Reading(s)[i] = IF i \in Joined(s) THEN Open(s[i][2]) ELSE s[i]
BY DEF Reading

\* Stripping leaves no pair of tags that it reads: of such a pair either the block was
\* taken, or another one that covers its opening tag.
LEMMA StripLeavesNoPair ==
    ASSUME NEW N \in Nat, NEW s, DOMAIN s \subseteq 1 .. N, NEW n \in Names, NEW r, r = Reading(s),
           NEW i \in DOMAIN strip_reasoning_blocks(s), NEW j \in DOMAIN strip_reasoning_blocks(s),
           i < j, r[i] = Open(n)
    PROVE  r[j] # Close(n)
<1> SUFFICES ASSUME r[j] = Close(n) PROVE FALSE
  OBVIOUS
<1>1. i \in DOMAIN r /\ j \in DOMAIN r /\ \A b \in Blocks(r, Names) : i < b[1] \/ b[2] < i
  BY StripIsPart, ReadingShape
<1>2. DOMAIN r \subseteq 1 .. N
  BY ReadingShape
<1>3. PICK k \in DOMAIN r : <<i, k>> \in Matches(r, Names)
  <2>1. \E k \in DOMAIN r : <<i, k>> \in Lazy(r, {Open(n)}, {Close(n)})
    BY <1>2, <1>1, LazyFinds
  <2> QED
    BY <2>1 DEF Matches
<1> DEFINE m == <<i, k>>
<1>4. m \in Matches(r, Names) /\ m[1] = i /\ m[2] = k /\ i < k
  BY <1>3, MatchShape
<1>5. i \in Nat /\ k \in Nat
  BY <1>2, <1>1
<1>6. m \notin Blocks(r, Names)
  BY <1>1, <1>4, <1>5
<1> HIDE DEF m
<1>7. PICK t \in Blocks(r, Names) : t[1] < i /\ i <= t[2]
  BY <1>2, <1>4, <1>6, BlocksAreScanned DEF IsScan
<1>8. t[1] \in Nat /\ t[2] \in Nat
  BY <1>2, <1>7, BlocksAreScanned, MatchShape
<1> QED
  BY <1>1, <1>5, <1>7, <1>8

\* What has no such pair is not changed.
LEMMA StripLeavesTheRest ==
    ASSUME NEW N \in Nat, NEW s, DOMAIN s \subseteq 1 .. N, NEW t, IsPart(s, t),
           \A n \in Names, i \in DOMAIN s, j \in DOMAIN s :
               i < j /\ Reading(s)[i] = Open(n) => Reading(s)[j] # Close(n)
    PROVE  strip_reasoning_blocks(s) = s
<1>1. Blocks(Reading(s), Names) = {}
  BY ReadingShape, NoPairNoBlock
<1>2. {i \in DOMAIN s : \A b \in Blocks(Reading(s), Names) : i < b[1] \/ b[2] < i} = DOMAIN s
  BY <1>1
<1> QED
  BY <1>2, WholePart DEF strip_reasoning_blocks

\* What is extracted: the inside of the last block, or everything.
LEMMA ExtractShape ==
    ASSUME NEW N \in Nat, NEW s, DOMAIN s \subseteq 1 .. N
    PROVE  \/ Blocks(s, {"output"}) = {} /\ extract_output_payload(s) = s
           \/ \E o \in Blocks(s, {"output"}) :
                 /\ \A p \in Blocks(s, {"output"}) : p[1] <= o[1]
                 /\ extract_output_payload(s) = Between(s, o[1] + 1, o[2] - 1)
<1> DEFINE outputs == Blocks(s, {"output"})
           last == CHOOSE o \in outputs : \A p \in outputs : p[1] <= o[1]
<1>1. CASE outputs = {}
  BY <1>1 DEF extract_output_payload
<1>2. CASE outputs # {}
  <2> DEFINE starts == {o[1] : o \in outputs}
  <2>1. starts \in SUBSET (0 .. N) /\ starts # {}
    BY <1>2, BlocksAreScanned, MatchShape
  <2>2. PICK i \in starts : \A j \in starts : j <= i
    BY <2>1, LastExists
  <2>3. \E o \in outputs : \A p \in outputs : p[1] <= o[1]
    BY <2>2
  <2>4. last \in outputs /\ \A p \in outputs : p[1] <= last[1]
    BY <2>3
  <2>5. extract_output_payload(s) = Between(s, last[1] + 1, last[2] - 1)
    BY <1>2 DEF extract_output_payload
  <2> QED
    BY <2>4, <2>5
<1> QED
  BY <1>1, <1>2

\* The first closing tag behind the last output ends it, so none is left inside, and
\* without it there is no output.
LEMMA ExtractLeavesNoPair ==
    ASSUME NEW N \in Nat, NEW s, DOMAIN s \subseteq 1 .. N, NEW t, IsPart(s, t)
    PROVE  /\ IsPart(extract_output_payload(s), s)
           /\ Blocks(extract_output_payload(s), {"output"}) = {}
<1> DEFINE u == extract_output_payload(s)
<1>1. CASE Blocks(s, {"output"}) = {} /\ u = s
  BY <1>1 DEF IsPart
<1>2. ASSUME NEW o \in Blocks(s, {"output"}), u = Between(s, o[1] + 1, o[2] - 1)
      PROVE  IsPart(u, s) /\ Blocks(u, {"output"}) = {}
  <2>1. IsPart(u, s) /\ DOMAIN u = DOMAIN s \cap (o[1] + 1 .. o[2] - 1)
    BY <1>2, BetweenIsPart
  <2>2. /\ o[1] \in DOMAIN s /\ o[2] \in DOMAIN s
        /\ \A k \in DOMAIN s : o[1] < k /\ k < o[2] => s[k] # Close("output")
    BY BlocksAreScanned, MatchShape
  <2>3. \A k \in DOMAIN u : u[k] # Close("output")
    BY <2>1, <2>2 DEF IsPart
  <2>4. DOMAIN u \subseteq 1 .. N
    BY <2>1
  <2> QED
    BY <2>1, <2>3, <2>4, NoPairNoBlock
<1> QED
  BY <1>1, <1>2, ExtractShape

-----------------------------------------------------------------------------
(* The text. *)

IInv == text \in Seq(Tokens)

LEMMA InvInit == Init => IInv
BY DEF Init, IInv

LEMMA InvNext == IInv /\ [Next]_text => IInv'
BY DEF Next, IInv

\* Every text is a sequence of tokens.
THEOREM TextIsSequence == Spec => []IInv
BY InvInit, InvNext, PTL DEF Spec

LEMMA TextPositions ==
    ASSUME IInv
    PROVE  Len(text) \in Nat /\ DOMAIN text = 1 .. Len(text) /\ IsPart(text, text)
<1>1. Len(text) \in Nat /\ DOMAIN text = 1 .. Len(text) /\ text = [i \in 1 .. Len(text) |-> text[i]]
  BY DEF IInv
<1> QED
  BY <1>1 DEF IsPart

LEMMA Idempotent ==
    ASSUME IInv
    PROVE  IdempotentUnlessJoined
<1> DEFINE N == Len(text)
           s == strip_reasoning_blocks(text)
           u == extract_output_payload(s)
           r == Reading(text)
<1>1. N \in Nat /\ DOMAIN text \subseteq 1 .. N /\ IsPart(s, text)
  BY TextPositions, StripIsPart
<1>2. \A n \in Names, i \in DOMAIN s, j \in DOMAIN s : i < j /\ r[i] = Open(n) => r[j] # Close(n)
  BY <1>1, StripLeavesNoPair DEF IsPart
<1>3. \A i \in DOMAIN text : r[i] = IF i \in Joined(text) THEN Open(text[i][2]) ELSE text[i]
  BY ReadingShape
<1> HIDE DEF s, r
<1>4. DOMAIN s \subseteq 1 .. N
  BY <1>1 DEF IsPart
<1>5. IsPart(u, s) /\ Blocks(u, {"output"}) = {}
  BY <1>1, <1>4, ExtractLeavesNoPair
<1> HIDE DEF u, N
<1>6. IsPart(u, text) /\ DOMAIN u \subseteq DOMAIN s /\ DOMAIN u \subseteq 1 .. N
  BY <1>1, <1>4, <1>5, PartOfPart DEF IsPart
<1>7. extract_output_payload(u) = u
  BY <1>5 DEF extract_output_payload
<1>8. ASSUME Joined(u) = Joined(text) \cap DOMAIN u
      PROVE  strip_reasoning_blocks(u) = u
  <2>1. ASSUME NEW i \in DOMAIN u PROVE Reading(u)[i] = r[i]
    <3>1. i \in DOMAIN text /\ u[i] = text[i]
      BY <1>6 DEF IsPart
    <3>2. i \in Joined(u) <=> i \in Joined(text)
      BY <1>8
    <3> QED
      BY <1>3, <3>1, <3>2, ReadingShape
  <2>2. \A n \in Names, i \in DOMAIN u, j \in DOMAIN u :
           i < j /\ Reading(u)[i] = Open(n) => Reading(u)[j] # Close(n)
    BY <1>2, <1>6, <2>1
  <2> QED
    BY <1>1, <1>6, <2>2, StripLeavesTheRest
<1> QED
  BY <1>7, <1>8 DEF IdempotentUnlessJoined, sanitize_llm_response, s, u

\* Sanitizing twice is sanitizing once, whatever the model wrote, unless the halves of a
\* tag met in the first pass.
THEOREM Idempotence == Spec => []IdempotentUnlessJoined
BY TextIsSequence, Idempotent, PTL

-----------------------------------------------------------------------------
(* The last output. *)

\* What the answers are made of: nothing that closes a reasoning block or joins a tag.
Plain == {Open("output"), Close("output"), LBrace, KeyValue, RBrace} \cup Fences

LEMMA PlainIsPlain ==
    ASSUME NEW t \in Plain, NEW n \in Names
    PROVE  t \in Tokens /\ t # Close(n) /\ t # Back(n)
<1>1. t \in Tokens
  BY DEF Plain, Tokens, Tags
<1>2. n # "output"
  BY TextAssumption
<1>3. /\ Open("output")[1] = "open" /\ LBrace[1] = "brace" /\ RBrace[1] = "brace" /\ KeyValue[1] = "word"
      /\ \A f \in Fences : f[1] = "fence"
  BY DEF Open, LBrace, RBrace, KeyValue, Fences, JsonFence
<1>4. /\ Close(n)[1] = "close" /\ Close(n)[2] = n /\ Back(n)[1] = "back"
      /\ Close("output")[1] = "close" /\ Close("output")[2] = "output"
  BY DEF Close, Back
<1> QED
  BY <1>1, <1>2, <1>3, <1>4 DEF Plain

\* Where the text ends, and the text with an answer.
End == Len(text)
With(e) == text \o e

\* What stripping leaves of either.
Kept == strip_reasoning_blocks(text)
KeptWith(e) == strip_reasoning_blocks(With(e))

\* Where the tokens of text and answer are.
LEMMA AnsweredTokens ==
    ASSUME IInv, NEW e \in Seq(Plain)
    PROVE  /\ End \in Nat /\ Len(e) \in Nat /\ DOMAIN text = 1 .. End /\ DOMAIN With(e) = 1 .. End + Len(e)
           /\ \A i \in 1 .. End : With(e)[i] = text[i]
           /\ \A k \in 1 .. Len(e) : With(e)[End + k] = e[k]
           /\ \A i \in 1 .. End + Len(e) : i \in 1 .. End \/ With(e)[i] \in Plain
<1> DEFINE n == End
           l == Len(e)
           a == With(e)
<1>1. text \in Seq(Tokens \cup Plain) /\ e \in Seq(Tokens \cup Plain)
  BY DEF IInv
<1>2. n \in Nat /\ l \in Nat /\ DOMAIN text = 1 .. n /\ \A k \in 1 .. l : e[k] \in Plain
  BY <1>1 DEF End
<1>3. /\ a \in Seq(Tokens \cup Plain) /\ Len(a) = n + l
      /\ \A i \in 1 .. n + l : a[i] = IF i <= n THEN text[i] ELSE e[i - n]
  BY <1>1, ConcatProperties DEF End, With
<1> HIDE DEF n, l, a
<1>4. DOMAIN a = 1 .. n + l
  BY <1>3
<1>5. \A i \in 1 .. n : a[i] = text[i]
  BY <1>2, <1>3
<1>6. ASSUME NEW k \in 1 .. l PROVE a[n + k] = e[k]
  <2> DEFINE i == n + k
  <2>1. i \in 1 .. n + l /\ ~(i <= n) /\ i - n = k
    BY <1>2
  <2> HIDE DEF i
  <2>2. a[i] = e[i - n]
    BY <1>3, <2>1
  <2> QED
    BY <2>1, <2>2 DEF i
<1>7. ASSUME NEW i \in 1 .. n + l, i \notin 1 .. n PROVE a[i] \in Plain
  <2>1. ~(i <= n) /\ i - n \in 1 .. l
    BY <1>2, <1>7
  <2> QED
    BY <1>2, <1>3, <2>1
<1> QED
  BY <1>2, <1>4, <1>5, <1>6, <1>7 DEF n, l, a

\* The answer joins no tag of the text, so the text is read as without it.
LEMMA AnsweredReading ==
    ASSUME IInv, NEW e \in Seq(Plain)
    PROVE  /\ \A i \in 1 .. End : Reading(With(e))[i] = Reading(text)[i]
           /\ \A i \in 1 .. End + Len(e) : i \in 1 .. End \/ Reading(With(e))[i] \in Plain
<1> DEFINE n == End
           l == Len(e)
           a == With(e)
<1>1. /\ n \in Nat /\ l \in Nat /\ DOMAIN text = 1 .. n /\ DOMAIN a = 1 .. n + l
      /\ \A i \in 1 .. n : a[i] = text[i]
      /\ \A i \in 1 .. n + l : i \in 1 .. n \/ a[i] \in Plain
  BY AnsweredTokens
<1> DEFINE Pair(s, name, i, j) == /\ i \in DOMAIN s /\ j \in DOMAIN s /\ i < j
                                 /\ s[i] = Front(name) /\ s[j] = Back(name)
                                 /\ \A k \in DOMAIN s : ~(i < k /\ k < j)
<1>2. ASSUME NEW s, NEW i
      PROVE  i \in Joined(s) <=> \E name \in Split : \E j \in DOMAIN s : Pair(s, name, i, j)
  <2>1. ASSUME i \in Joined(s) PROVE \E name \in Split : \E j \in DOMAIN s : Pair(s, name, i, j)
    <3>1. PICK name \in Split : \E m \in Spans(s, {Front(name)}, {Back(name)}) :
             i = m[1] /\ \A k \in DOMAIN s : ~(m[1] < k /\ k < m[2])
      BY <2>1 DEF Joined
    <3>2. PICK m \in Spans(s, {Front(name)}, {Back(name)}) :
             i = m[1] /\ \A k \in DOMAIN s : ~(m[1] < k /\ k < m[2])
      BY <3>1
    <3>3. Pair(s, name, i, m[2])
      BY <3>2 DEF Spans, At
    <3> QED
      BY <3>3
  <2>2. ASSUME NEW name \in Split, NEW j \in DOMAIN s, Pair(s, name, i, j) PROVE i \in Joined(s)
    <3> DEFINE m == <<i, j>>
    <3>1. m \in Spans(s, {Front(name)}, {Back(name)}) /\ \A k \in DOMAIN s : ~(m[1] < k /\ k < m[2])
      BY <2>2 DEF Spans, At
    <3>2. m[1] = i
      OBVIOUS
    <3> HIDE DEF m
    <3> QED
      BY <3>1, <3>2 DEF Joined
  <2> QED
    BY <2>1, <2>2
<1>3. ASSUME NEW i, NEW j, NEW name \in Split PROVE Pair(a, name, i, j) <=> Pair(text, name, i, j)
  <2>1. \A k \in DOMAIN a : a[k] = Back(name) => k \in 1 .. n
    BY <1>1, PlainIsPlain, TextAssumption
  <2>2. ASSUME Pair(a, name, i, j) PROVE Pair(text, name, i, j)
    BY <1>1, <2>1, <2>2
  <2>3. ASSUME Pair(text, name, i, j) PROVE Pair(a, name, i, j)
    BY <1>1, <2>3
  <2> QED
    BY <2>2, <2>3
<1> HIDE DEF Pair
<1>4. ASSUME NEW i PROVE i \in Joined(a) <=> i \in Joined(text)
  <2>1. ASSUME NEW name \in Split, NEW j, Pair(text, name, i, j) PROVE j \in DOMAIN a /\ j \in DOMAIN text
    BY <1>1, <2>1 DEF Pair
  <2> QED
    BY <1>2, <1>3, <2>1 DEF Pair
<1>5. \A i : i \in Joined(text) => i \in 1 .. n
  BY <1>1, <1>2 DEF Pair
<1>6. ASSUME NEW i \in 1 .. n PROVE Reading(a)[i] = Reading(text)[i]
  BY <1>1, <1>4, ReadingShape
<1>7. ASSUME NEW i \in 1 .. n + l, i \notin 1 .. n PROVE Reading(a)[i] \in Plain
  BY <1>1, <1>4, <1>5, <1>7, ReadingShape
<1> QED
  BY <1>6, <1>7

\* The answer changes no match of the text before it, and all of it is left.
LEMMA StripKeepsAnswer ==
    ASSUME IInv, NEW e \in Seq(Plain)
    PROVE  DOMAIN strip_reasoning_blocks(With(e))
             = DOMAIN strip_reasoning_blocks(text) \cup (End + 1 .. End + Len(e))
<1> DEFINE n == End
           l == Len(e)
           a == With(e)
<1> DEFINE r == Reading(a)
           q == Reading(text)
<1>1. /\ n \in Nat /\ l \in Nat /\ DOMAIN q = 1 .. n /\ DOMAIN r = 1 .. n + l
      /\ DOMAIN text = 1 .. n /\ DOMAIN a = 1 .. n + l
  BY AnsweredTokens, ReadingShape
<1>2. (\A i \in 1 .. n : r[i] = q[i]) /\ \A i \in 1 .. n + l : i \in 1 .. n \/ r[i] \in Plain
  BY AnsweredReading
<1> HIDE DEF r, q
<1>3. ASSUME NEW name \in Names
      PROVE  Lazy(r, {Open(name)}, {Close(name)}) = Lazy(q, {Open(name)}, {Close(name)})
  <2>1. \A j \in DOMAIN r : r[j] = Close(name) => j \in 1 .. n
    BY <1>1, <1>2, PlainIsPlain
  <2>2. ASSUME NEW m \in Lazy(r, {Open(name)}, {Close(name)})
        PROVE  m \in Lazy(q, {Open(name)}, {Close(name)})
    <3>1. /\ m = <<m[1], m[2]>> /\ m[1] \in 1 .. n + l /\ m[1] < m[2] /\ m[2] \in 1 .. n
      BY <1>1, <2>1 DEF Lazy, Spans, At
    <3>2. m[1] \in 1 .. n
      BY <1>1, <3>1
    <3> QED
      BY <1>1, <1>2, <3>1, <3>2 DEF Lazy, Spans, At
  <2>3. ASSUME NEW m \in Lazy(q, {Open(name)}, {Close(name)})
        PROVE  m \in Lazy(r, {Open(name)}, {Close(name)})
    <3>1. m = <<m[1], m[2]>> /\ m[1] \in 1 .. n /\ m[1] < m[2] /\ m[2] \in 1 .. n
      BY <1>1 DEF Lazy, Spans, At
    <3>2. m \in Spans(r, {Open(name)}, {Close(name)})
      BY <1>1, <1>2, <3>1 DEF Lazy, Spans, At
    <3>3. \A k \in DOMAIN r : m[1] < k /\ k < m[2] => r[k] # Close(name)
      BY <1>1, <1>2, <3>1 DEF Lazy, Spans
    <3> QED
      BY <3>2, <3>3 DEF Lazy
  <2> QED
    BY <2>2, <2>3
<1>4. Blocks(r, Names) = Blocks(q, Names)
  BY <1>3 DEF Matches, Blocks
<1>5. \A b \in Blocks(q, Names) : b[1] \in 1 .. n /\ b[2] \in 1 .. n
  BY <1>1, BlocksAreScanned, MatchShape
<1>6. \A i \in n + 1 .. n + l : \A b \in Blocks(q, Names) : b[2] < i
  BY <1>1, <1>5
<1>7. ASSUME NEW i PROVE i \in 1 .. n + l <=> i \in 1 .. n \/ i \in n + 1 .. n + l
  BY <1>1
<1>8. /\ DOMAIN strip_reasoning_blocks(text)
           = {i \in 1 .. n : \A b \in Blocks(q, Names) : i < b[1] \/ b[2] < i}
      /\ DOMAIN strip_reasoning_blocks(a)
           = {i \in 1 .. n + l : \A b \in Blocks(q, Names) : i < b[1] \/ b[2] < i}
  BY <1>1, <1>4, StripIsPart DEF r, q
<1> QED
  BY <1>6, <1>7, <1>8

\* What stripping leaves of text and answer, token by token.
LEMMA AnsweredStripped ==
    ASSUME IInv, NEW e \in Seq(Plain)
    PROVE  /\ End \in Nat /\ Len(e) \in Nat /\ DOMAIN Kept \subseteq 1 .. End
           /\ DOMAIN KeptWith(e) = DOMAIN Kept \cup (End + 1 .. End + Len(e))
           /\ IsPart(KeptWith(e), With(e))
           /\ \A i \in DOMAIN Kept : KeptWith(e)[i] = Kept[i]
           /\ \A k \in 1 .. Len(e) : KeptWith(e)[End + k] = e[k]
<1> DEFINE n == End
           l == Len(e)
           a == With(e)
           s == Kept
           t == KeptWith(e)
<1>1. IsPart(s, text) /\ IsPart(t, a) /\ DOMAIN t = DOMAIN s \cup (n + 1 .. n + l)
  BY StripIsPart, StripKeepsAnswer DEF Kept, KeptWith
<1>2. /\ n \in Nat /\ l \in Nat /\ DOMAIN text = 1 .. n /\ DOMAIN a = 1 .. n + l
      /\ \A i \in 1 .. n : a[i] = text[i]
      /\ \A k \in 1 .. l : a[n + k] = e[k]
  BY AnsweredTokens
<1> HIDE DEF n, l, a, s, t
<1>3. DOMAIN s \subseteq 1 .. n /\ \A i \in DOMAIN s : t[i] = s[i]
  BY <1>1, <1>2 DEF IsPart
<1>4. ASSUME NEW k \in 1 .. l PROVE t[n + k] = e[k]
  <2>1. n + k \in n + 1 .. n + l
    BY <1>2
  <2> QED
    BY <1>1, <1>2, <2>1 DEF IsPart
<1> QED
  BY <1>1, <1>2, <1>3, <1>4 DEF n, l, a, s, t

answer == <<Open("output"), KeyValue, Close("output")>>

LEMMA AnswerIsPlain == answer \in Seq(Plain) /\ Len(answer) = 3
<1>1. Open("output") \in Plain /\ KeyValue \in Plain /\ Close("output") \in Plain
  BY DEF Plain
<1> QED
  BY <1>1 DEF answer

\* With every output of the text closed in the text, the answer is a block, the one
\* that begins last.
LEMMA AnswerIsLast ==
    ASSUME IInv,
           \A i \in DOMAIN Kept : Kept[i] = Open("output")
                                 => \E j \in DOMAIN Kept : i < j /\ Kept[j] = Close("output")
    PROVE  /\ <<End + 1, End + 3>> \in Blocks(KeptWith(answer), {"output"})
           /\ \A m \in Matches(KeptWith(answer), {"output"}) :
                 m # <<End + 1, End + 3>> => m[1] <= End
<1> DEFINE n == End
           s == Kept
           t == KeptWith(answer)
<1>1. \A i \in DOMAIN s : s[i] = Open("output") => \E j \in DOMAIN s : i < j /\ s[j] = Close("output")
  OBVIOUS
<1>2. answer \in Seq(Plain) /\ Len(answer) = 3
  BY AnswerIsPlain
<1>3. n \in Nat /\ DOMAIN t = DOMAIN s \cup (n + 1 .. n + 3) /\ \A k \in 1 .. 3 : t[n + k] = answer[k]
  BY <1>2, AnsweredStripped
<1>4. DOMAIN s \subseteq 1 .. n /\ \A i \in DOMAIN s : t[i] = s[i]
  BY <1>2, AnsweredStripped
<1> HIDE DEF n, s, t
<1>5. /\ DOMAIN s \subseteq 1 .. n /\ DOMAIN t \subseteq 1 .. n + 3
      /\ \A i \in DOMAIN s : i \in DOMAIN t /\ t[i] = s[i]
      /\ t[n + 1] = Open("output") /\ t[n + 2] = KeyValue /\ t[n + 3] = Close("output")
  <2>1. t[n + 1] = answer[1] /\ t[n + 2] = answer[2] /\ t[n + 3] = answer[3]
    BY <1>3
  <2>2. n + 1 .. n + 3 \subseteq 1 .. n + 3 /\ 1 .. n \subseteq 1 .. n + 3
    BY <1>3
  <2> QED
    BY <1>3, <1>4, <2>1, <2>2 DEF answer
<1>6. Open("output") # Close("output") /\ KeyValue # Close("output") /\ KeyValue # Open("output")
  BY DEF Open, Close, KeyValue
<1>7. /\ \A i \in DOMAIN t : i \in DOMAIN s \/ i = n + 1 \/ i = n + 2 \/ i = n + 3
      /\ n + 1 \in DOMAIN t /\ n + 2 \in DOMAIN t /\ n + 3 \in DOMAIN t
  BY <1>3, <1>5
<1> DEFINE m0 == <<n + 1, n + 3>>
<1>8. m0 \in Matches(t, {"output"})
  <2>1. \A k \in DOMAIN t : n + 1 < k /\ k < n + 3 => k = n + 2
    BY <1>3, <1>5, <1>7
  <2>2. m0 \in Spans(t, {Open("output")}, {Close("output")})
    BY <1>3, <1>5, <1>7 DEF Spans, At
  <2>3. m0 \in Lazy(t, {Open("output")}, {Close("output")})
    BY <1>5, <1>6, <2>1, <2>2 DEF Lazy
  <2> QED
    BY <2>3 DEF Matches
<1>9. ASSUME NEW m \in Matches(t, {"output"}), m # m0
      PROVE  m[1] \in 1 .. n /\ m[2] \in 1 .. n
  <2>1. /\ m = <<m[1], m[2]>> /\ m[1] \in DOMAIN t /\ m[2] \in DOMAIN t /\ m[1] < m[2]
        /\ t[m[1]] = Open("output") /\ t[m[2]] = Close("output")
        /\ \A k \in DOMAIN t : m[1] < k /\ k < m[2] => t[k] # Close("output")
    BY MatchShape
  <2>2. m[1] # n + 2 /\ m[1] # n + 3 /\ m[2] # n + 1 /\ m[2] # n + 2
    BY <1>5, <1>6, <2>1
  <2>3. m[1] # n + 1
    <3> SUFFICES ASSUME m[1] = n + 1 PROVE FALSE
      OBVIOUS
    <3>1. m[2] # n + 3
      BY <1>9, <2>1
    <3>2. m[2] \in 1 .. n
      BY <1>5, <1>7, <2>1, <2>2, <3>1
    <3> QED
      BY <1>3, <2>1, <3>2
  <2>4. m[1] \in DOMAIN s
    BY <1>7, <2>1, <2>2, <2>3
  <2>5. PICK j \in DOMAIN s : m[1] < j /\ s[j] = Close("output")
    BY <1>1, <1>5, <2>1, <2>4
  <2>6. j \in DOMAIN t /\ t[j] = Close("output") /\ j \in 1 .. n
    BY <1>5, <2>5
  <2>7. ~(j < m[2])
    BY <2>1, <2>5, <2>6
  <2> QED
    BY <1>3, <1>5, <2>1, <2>4, <2>6, <2>7
<1>10. Blocks(t, {"output"}) \in SUBSET Matches(t, {"output"})
      /\ IsScan(Blocks(t, {"output"}), Matches(t, {"output"}))
  <2>1. n + 3 \in Nat
    BY <1>3
  <2> QED
    BY <1>5, <2>1, BlocksAreScanned
<1>11. ~\E b \in Blocks(t, {"output"}) : b[1] < m0[1] /\ m0[1] <= b[2]
  <2>1. ASSUME NEW b \in Blocks(t, {"output"}), b # m0 PROVE ~(m0[1] <= b[2])
    BY <1>3, <1>9, <1>10, <2>1
  <2>2. ~(m0[1] < m0[1])
    BY <1>3
  <2> QED
    BY <2>1, <2>2
<1>12. m0 \in Blocks(t, {"output"})
  BY <1>8, <1>10, <1>11 DEF IsScan
<1>13. ASSUME NEW m \in Matches(t, {"output"}), m # m0 PROVE m[1] <= n
  BY <1>3, <1>9, <1>13
<1> QED
  BY <1>12, <1>13 DEF n, s, t

LEMMA ReadsLast ==
    ASSUME IInv
    PROVE  LastOutputIsRead
<1> DEFINE n == End
           a == With(answer)
           s == Kept
           t == KeptWith(answer)
<1>1. SUFFICES ASSUME \A i \in DOMAIN s : s[i] = Open("output")
                         => \E j \in DOMAIN s : i < j /\ s[j] = Close("output")
               PROVE  extract_output_payload(t) = Between(a, n + 2, n + 2)
  BY DEF LastOutputIsRead, sanitize_llm_response, answer, End, With, Kept, KeptWith
<1>2. n \in Nat /\ DOMAIN a = 1 .. n + 3
  BY AnswerIsPlain, AnsweredTokens
<1>3. IsPart(t, a) /\ DOMAIN t = DOMAIN s \cup (n + 1 .. n + 3)
  BY AnswerIsPlain, AnsweredStripped
<1>4. /\ <<n + 1, n + 3>> \in Blocks(t, {"output"})
      /\ \A m \in Matches(t, {"output"}) : m # <<n + 1, n + 3>> => m[1] <= n
  BY <1>1, AnswerIsLast
<1> HIDE DEF n, a, s, t
<1>5. n + 3 \in Nat /\ DOMAIN t \subseteq 1 .. n + 3
  BY <1>2, <1>3 DEF IsPart
<1>6. PICK o \in Blocks(t, {"output"}) :
            /\ \A p \in Blocks(t, {"output"}) : p[1] <= o[1]
            /\ extract_output_payload(t) = Between(t, o[1] + 1, o[2] - 1)
  BY <1>4, <1>5, ExtractShape
<1>7. o = <<n + 1, n + 3>>
  <2>1. o \in Matches(t, {"output"})
    BY <1>5, BlocksAreScanned
  <2>2. n + 1 <= o[1]
    BY <1>4, <1>6
  <2>3. o[1] \in DOMAIN t
    BY <2>1, MatchShape
  <2>4. ~(o[1] <= n)
    BY <1>2, <1>5, <2>2, <2>3
  <2> QED
    BY <1>4, <2>1, <2>4
<1>8. extract_output_payload(t) = Between(t, n + 2, n + 2)
  <2>1. o[1] + 1 = n + 2 /\ o[2] - 1 = n + 2
    BY <1>2, <1>7
  <2> QED
    BY <1>6, <2>1
<1>9. Between(t, n + 2, n + 2) = Between(a, n + 2, n + 2)
  <2>1. DOMAIN t \cap (n + 2 .. n + 2) = {n + 2} /\ DOMAIN a \cap (n + 2 .. n + 2) = {n + 2}
    BY <1>2, <1>3
  <2>2. t[n + 2] = a[n + 2]
    BY <1>2, <1>3 DEF IsPart
  <2> QED
    BY <2>1, <2>2 DEF Between, Restrict
<1> QED
  BY <1>8, <1>9

\* The answer is what is read, whatever went before it, unless an output outside of the
\* reasoning was left open.
THEOREM LastOutput == Spec => []LastOutputIsRead
BY TextIsSequence, ReadsLast, PTL

-----------------------------------------------------------------------------
(* Objects. *)

\* An object has a closing brace for its first opening one.
LEMMA ObjectShape ==
    ASSUME NEW N \in Nat, NEW s, DOMAIN s \subseteq 1 .. N, IsObject(s)
    PROVE  /\ \A i \in DOMAIN s : s[i] \in {LBrace, KeyValue, RBrace}
           /\ \A i \in At(s, {LBrace}), j \in DOMAIN s : s[j] # LBrace => i < j
           /\ \A i \in DOMAIN s, j \in At(s, {RBrace}) : s[i] # RBrace => i < j
           /\ IsFiniteSet(At(s, {LBrace})) /\ IsFiniteSet(At(s, {RBrace}))
           /\ Cardinality(At(s, {LBrace})) = Cardinality(At(s, {RBrace}))
           /\ At(s, {LBrace}) # {} /\ At(s, {RBrace}) # {}
<1>1. /\ DOMAIN s = At(s, {LBrace}) \cup At(s, {KeyValue}) \cup At(s, {RBrace})
      /\ \A i \in At(s, {LBrace}), j \in At(s, {KeyValue}) \cup At(s, {RBrace}) : i < j
      /\ \A i \in At(s, {KeyValue}), j \in At(s, {KeyValue}) \cup At(s, {RBrace}) : i = j \/ i < j
      /\ At(s, {LBrace}) # {} /\ Cardinality(At(s, {LBrace})) = Cardinality(At(s, {RBrace}))
  BY DEF IsObject, At
<1>2. LBrace # KeyValue /\ LBrace # RBrace /\ KeyValue # RBrace
  BY DEF LBrace, KeyValue, RBrace
<1>3. ASSUME NEW t PROVE IsFiniteSet(At(s, {t}))
  <2>1. IsFiniteSet(1 .. N) /\ At(s, {t}) \in SUBSET (1 .. N)
    BY FS_Interval DEF At
  <2> QED
    BY <2>1, FS_Subset
<1>4. At(s, {RBrace}) # {}
  BY <1>1, <1>3, FS_EmptySet
<1>5. \A i \in DOMAIN s : s[i] \in {LBrace, KeyValue, RBrace}
  BY <1>1 DEF At
<1>6. \A i \in At(s, {LBrace}), j \in DOMAIN s : s[j] # LBrace => i < j
  BY <1>1 DEF At
<1>7. \A i \in DOMAIN s, j \in At(s, {RBrace}) : s[i] # RBrace => i < j
  BY <1>1, <1>2 DEF At
<1> QED
  BY <1>1, <1>3, <1>4, <1>5, <1>6, <1>7

\* Its first position holds an opening brace, its last one a closing brace.
LEMMA ObjectEnds ==
    ASSUME NEW N \in Nat, NEW s, DOMAIN s \subseteq 1 .. N, IsObject(s)
    PROVE  \E i, j \in DOMAIN s : /\ i < j /\ s[i] = LBrace /\ s[j] = RBrace
                                 /\ \A k \in DOMAIN s : i <= k /\ k <= j
<1>1. PICK i \in DOMAIN s : \A k \in DOMAIN s : i <= k
  <2>1. At(s, {LBrace}) # {}
    BY ObjectShape
  <2>2. DOMAIN s \in SUBSET Nat /\ DOMAIN s # {}
    BY <2>1 DEF At
  <2> QED
    BY <2>2, FirstExists
<1>2. PICK j \in DOMAIN s : \A k \in DOMAIN s : k <= j
  <2>1. DOMAIN s \in SUBSET (0 .. N) /\ DOMAIN s # {}
    BY <1>1
  <2> QED
    BY <2>1, LastExists
<1>3. PICK l \in At(s, {LBrace}), r \in At(s, {RBrace}) : TRUE
  BY ObjectShape
<1>4. l \in DOMAIN s /\ s[l] = LBrace /\ r \in DOMAIN s /\ s[r] = RBrace
  BY DEF At
<1>5. s[i] = LBrace
  <2>1. i <= l /\ i \in Nat /\ l \in Nat
    BY <1>1, <1>4
  <2>2. \A q \in DOMAIN s : s[q] # LBrace => l < q
    BY ObjectShape
  <2> QED
    BY <2>1, <2>2
<1>6. s[j] = RBrace
  <2>1. r <= j /\ j \in Nat /\ r \in Nat
    BY <1>2, <1>4
  <2> QED
    BY <2>1, ObjectShape
<1>7. i < j
  <2>1. LBrace # RBrace
    BY DEF LBrace, RBrace
  <2> QED
    BY <1>5, <1>6, <2>1, ObjectShape DEF At
<1> QED
  BY <1>1, <1>2, <1>5, <1>6, <1>7

LEMMA NoTextIsNoObject == ~IsObject(NoText)
<1>1. DOMAIN NoText = {}
  BY DEF NoText
<1> QED
  BY <1>1 DEF IsObject, At

-----------------------------------------------------------------------------
(* The strategies. *)

\* A whole text that is an object is the one at its first brace.
LEMMA WholeIsFirst ==
    ASSUME NEW N \in Nat, NEW s, NEW t, IsPart(s, t), DOMAIN s \subseteq 1 .. N, IsObject(s)
    PROVE  \E m \in FirstObject(s) : s = Between(s, m[1], m[2])
<1>1. PICK i, j \in DOMAIN s : /\ i < j /\ s[i] = LBrace /\ s[j] = RBrace
                             /\ \A k \in DOMAIN s : i <= k /\ k <= j
  BY ObjectEnds
<1>2. DOMAIN s \cap (i .. j) = DOMAIN s
  BY <1>1
<1>3. Between(s, i, j) = s
  BY <1>2, WholePart DEF Between
<1>4. \A k \in DOMAIN s : ~(k < i)
  BY <1>1
<1>5. <<i, j>> \in FirstObject(s)
  BY <1>1, <1>3, <1>4 DEF FirstObject, Spans, At
<1> QED
  BY <1>3, <1>5

\* So is what the greedy pattern finds, when that is an object.
LEMMA GreedyIsFirst ==
    ASSUME NEW N \in Nat, NEW s, DOMAIN s \subseteq 1 .. N, IsObject(Greedy(s))
    PROVE  \E m \in FirstObject(s) : Greedy(s) = Between(s, m[1], m[2])
<1> DEFINE spans == {m \in Spans(s, {LBrace}, {RBrace}) :
                        \A k \in DOMAIN s : m[2] < k => s[k] # RBrace}
           m == Search(spans)
<1>1. Greedy(s) = IF spans = {} THEN NoText ELSE Between(s, m[1], m[2])
  BY DEF Greedy
<1>2. spans # {} /\ Greedy(s) = Between(s, m[1], m[2])
  BY <1>1, NoTextIsNoObject
<1>3. m \in spans /\ \A p \in spans : m[1] <= p[1]
  <2>1. spans \in SUBSET ((1 .. N) \X (1 .. N))
    BY DEF Spans, At
  <2> HIDE DEF spans
  <2> QED
    BY <1>2, <2>1, SearchFindsFirst
<1> HIDE DEF m
<1>4. ASSUME NEW k \in DOMAIN s, k < m[1] PROVE s[k] # LBrace
  <2> SUFFICES ASSUME s[k] = LBrace PROVE FALSE
    OBVIOUS
  <2>1. m[1] \in DOMAIN s /\ m[2] \in DOMAIN s /\ m[1] < m[2]
    BY <1>3 DEF Spans, At
  <2>2. k \in Nat /\ m[1] \in Nat /\ m[2] \in Nat
    BY <2>1
  <2>3. <<k, m[2]>> \in spans
    BY <1>3, <1>4, <2>1, <2>2 DEF Spans, At
  <2>4. m[1] <= k
    BY <1>3, <2>3
  <2> QED
    BY <1>4, <2>2, <2>4
<1>5. m \in FirstObject(s)
  BY <1>2, <1>3, <1>4 DEF FirstObject
<1> QED
  BY <1>2, <1>5

\* The last strategy finds the object at the first brace whenever there is one.
LEMMA RawDecodeFinds ==
    ASSUME NEW s, FirstObject(s) # {}
    PROVE  /\ \E m \in FirstObject(s) : RawDecode(s) = Between(s, m[1], m[2])
           /\ IsObject(RawDecode(s))
<1>1. PICK m \in FirstObject(s) : RawDecode(s) = Between(s, m[1], m[2])
  BY DEF RawDecode
<1> QED
  BY <1>1 DEF FirstObject

\* There is one object at most at the first brace: what raw_decode reads does not depend
\* on what follows it.  Of two, the shorter would hold all opening braces of the longer,
\* so as many closing ones.
THEOREM ObjectIsUnique ==
    ASSUME NEW N \in Nat, NEW s, DOMAIN s \subseteq 1 .. N,
           NEW l \in FirstObject(s), NEW m \in FirstObject(s)
    PROVE  l = m
<1>1. ASSUME NEW p \in FirstObject(s)
      PROVE  /\ p = <<p[1], p[2]>> /\ p[1] \in DOMAIN s /\ p[2] \in DOMAIN s /\ p[1] < p[2]
             /\ p[1] \in Nat /\ p[2] \in Nat
             /\ s[p[1]] = LBrace /\ \A k \in DOMAIN s : k < p[1] => s[k] # LBrace
             /\ IsObject(Between(s, p[1], p[2]))
  BY DEF FirstObject, Spans, At
<1>2. l[1] = m[1]
  <2>1. ~(l[1] < m[1]) /\ ~(m[1] < l[1])
    BY <1>1
  <2> QED
    BY <1>1, <2>1
<1>3. ASSUME NEW p \in FirstObject(s), NEW q \in FirstObject(s), p[1] = q[1], p[2] < q[2]
      PROVE  FALSE
  <2> DEFINE x == Between(s, p[1], p[2])
             y == Between(s, q[1], q[2])
  <2>1. /\ DOMAIN x = DOMAIN s \cap (p[1] .. p[2]) /\ DOMAIN y = DOMAIN s \cap (p[1] .. q[2])
        /\ IsPart(x, s) /\ IsPart(y, s) /\ IsObject(x) /\ IsObject(y)
    <3>1. IsObject(x) /\ IsObject(y)
      BY <1>1
    <3>2. IsPart(x, s) /\ IsPart(y, s)
      BY BetweenIsPart
    <3>3. DOMAIN x = DOMAIN s \cap (p[1] .. p[2]) /\ DOMAIN y = DOMAIN s \cap (q[1] .. q[2])
      BY BetweenIsPart
    <3> HIDE DEF x, y
    <3> QED
      BY <1>3, <3>1, <3>2, <3>3
  <2>2. DOMAIN x \subseteq 1 .. N /\ DOMAIN y \subseteq 1 .. N
    BY <2>1
  <2>3. DOMAIN x \subseteq DOMAIN y /\ \A i \in DOMAIN x : x[i] = y[i]
    <3>1. DOMAIN x \subseteq DOMAIN y
      BY <1>1, <1>3, <2>1
    <3> QED
      BY <2>1, <3>1 DEF IsPart
  <2>4. p[2] \in DOMAIN x /\ q[2] \in DOMAIN y /\ q[2] \notin DOMAIN x
        /\ (\A i \in DOMAIN x : i <= p[2]) /\ (\A i \in DOMAIN y : i <= q[2])
        /\ \A i \in DOMAIN y : i \notin DOMAIN x => p[2] < i
    BY <1>1, <1>3, <2>1
  <2> HIDE DEF x, y
  <2>5. x[p[2]] = RBrace
    <3>1. PICK i \in At(x, {RBrace}) : TRUE
      BY <2>1, <2>2, ObjectShape
    <3>2. i \in DOMAIN x /\ ~(p[2] < i)
      BY <1>1, <2>2, <2>4, <3>1 DEF At
    <3> QED
      BY <2>1, <2>2, <2>4, <3>2, ObjectShape
  <2>6. y[q[2]] = RBrace
    <3>1. PICK i \in At(y, {RBrace}) : TRUE
      BY <2>1, <2>2, ObjectShape
    <3>2. i \in DOMAIN y /\ ~(q[2] < i)
      BY <1>1, <2>2, <2>4, <3>1 DEF At
    <3> QED
      BY <2>1, <2>2, <2>4, <3>2, ObjectShape
  <2>7. At(x, {LBrace}) = At(y, {LBrace})
    <3>1. At(x, {LBrace}) \subseteq At(y, {LBrace})
      BY <2>3 DEF At
    <3>2. ASSUME NEW i \in At(y, {LBrace}) PROVE i \in At(x, {LBrace})
      <4>1. i \in DOMAIN y /\ y[i] = LBrace
        BY DEF At
      <4>2. p[2] \in DOMAIN y /\ y[p[2]] = RBrace /\ RBrace # LBrace
        BY <2>3, <2>4, <2>5 DEF LBrace, RBrace
      <4>3. i < p[2]
        BY <2>1, <2>2, <4>2, ObjectShape
      <4>4. i \in DOMAIN x
        BY <1>1, <2>2, <2>4, <4>1, <4>3
      <4> QED
        BY <2>3, <4>1, <4>4 DEF At
    <3> QED
      BY <3>1, <3>2
  <2>8. At(x, {RBrace}) \subseteq At(y, {RBrace})
    BY <2>3 DEF At
  <2>9. Cardinality(At(x, {RBrace})) = Cardinality(At(y, {RBrace})) /\ IsFiniteSet(At(y, {RBrace}))
    BY <2>1, <2>2, <2>7, ObjectShape
  <2>10. At(x, {RBrace}) = At(y, {RBrace})
    BY <2>8, <2>9, FS_Subset
  <2>11. q[2] \in At(x, {RBrace})
    BY <2>4, <2>6, <2>10 DEF At
  <2> QED
    BY <2>4, <2>11 DEF At
<1>4. l[2] = m[2]
  BY <1>1, <1>2, <1>3
<1> QED
  BY <1>1, <1>2, <1>4

\* The first strategy that finds an object decides.
LEMMA ParseShape ==
    ASSUME NEW raw, NEW s, s = strip_reasoning_blocks(raw), NEW got, got = safe_json_parse(raw)
    PROVE  \/ IsObject(s) /\ got = s
           \/ /\ ~IsObject(s)
              /\ \/ IsObject(Fenced(s, {JsonFence})) /\ got = Fenced(s, {JsonFence})
                 \/ /\ ~IsObject(Fenced(s, {JsonFence}))
                    /\ \/ IsObject(Fenced(s, Fences)) /\ got = Fenced(s, Fences)
                       \/ /\ ~IsObject(Fenced(s, Fences))
                          /\ \/ IsObject(Greedy(s)) /\ got = Greedy(s)
                             \/ ~IsObject(Greedy(s)) /\ IsObject(RawDecode(s)) /\ got = RawDecode(s)
                             \/ ~IsObject(RawDecode(s)) /\ got = NoText
<1> DEFINE c == <<s, Fenced(s, {JsonFence}), Fenced(s, Fences), Greedy(s), RawDecode(s)>>
           found == {k \in 1 .. 5 : IsObject(c[k])}
           first == CHOOSE k \in found : \A l \in found : k <= l
<1>1. got = IF found = {} THEN NoText ELSE c[first]
  BY DEF safe_json_parse
<1>2. /\ c[1] = s /\ c[2] = Fenced(s, {JsonFence}) /\ c[3] = Fenced(s, Fences)
      /\ c[4] = Greedy(s) /\ c[5] = RawDecode(s)
  OBVIOUS
<1>3. CASE found = {}
  <2>1. \A k \in 1 .. 5 : ~IsObject(c[k])
    BY <1>3
  <2>2. 1 \in 1 .. 5 /\ 2 \in 1 .. 5 /\ 3 \in 1 .. 5 /\ 4 \in 1 .. 5 /\ 5 \in 1 .. 5
    OBVIOUS
  <2> HIDE DEF c
  <2> QED
    BY <1>1, <1>2, <1>3, <2>1, <2>2
<1>4. CASE found # {}
  <2>1. first \in found /\ \A l \in found : first <= l
    <3>1. found \in SUBSET Nat
      OBVIOUS
    <3> HIDE DEF found
    <3>2. \E x \in found : \A l \in found : x <= l
      BY <1>4, <3>1, FirstExists
    <3> QED
      BY <3>2
  <2>2. got = c[first]
    BY <1>1, <1>4
  <2>3. first \in 1 .. 5 /\ IsObject(c[first])
    BY <2>1
  <2>4. \A l \in 1 .. 5 : l < first => ~IsObject(c[l])
    <3> SUFFICES ASSUME NEW l \in 1 .. 5, l < first, IsObject(c[l]) PROVE FALSE
      OBVIOUS
    <3>1. l \in found
      OBVIOUS
    <3> HIDE DEF found, first
    <3> QED
      BY <2>1, <2>3, <3>1
  <2> HIDE DEF c, found, first
  <2>5. first = 1 \/ first = 2 \/ first = 3 \/ first = 4 \/ first = 5
    BY <2>3
  <2>6. /\ first > 1 => ~IsObject(s)
        /\ first > 2 => ~IsObject(Fenced(s, {JsonFence}))
        /\ first > 3 => ~IsObject(Fenced(s, Fences))
        /\ first > 4 => ~IsObject(Greedy(s))
    BY <1>2, <2>3, <2>4
  <2> QED
    BY <1>2, <2>2, <2>3, <2>5, <2>6
<1> QED
  BY <1>3, <1>4

\* Without fences what is parsed is the object at the first brace, or nothing.
LEMMA UnfencedIsFirst ==
    ASSUME NEW N \in Nat, NEW raw, DOMAIN raw \subseteq 1 .. N,
           NEW s, s = strip_reasoning_blocks(raw), \A i \in DOMAIN s : s[i] \notin Fences,
           NEW got, got = safe_json_parse(raw)
    PROVE  \/ \E m \in FirstObject(s) : got = Between(s, m[1], m[2])
           \/ got = NoText /\ FirstObject(s) = {}
<1>1. IsPart(s, raw) /\ DOMAIN s \subseteq 1 .. N
  BY StripIsPart DEF IsPart
<1>2. ASSUME NEW opening PROVE ~IsObject(Fenced(s, opening))
  <2>1. Lazy(s, opening, Fences) = {}
    BY DEF Lazy, Spans, At
  <2>2. Fenced(s, opening) = NoText
    BY <2>1 DEF Fenced
  <2> QED
    BY <2>2, NoTextIsNoObject
<1>3. CASE IsObject(s) /\ got = s
  BY <1>1, <1>3, WholeIsFirst
<1>4. CASE IsObject(Greedy(s)) /\ got = Greedy(s)
  BY <1>1, <1>4, GreedyIsFirst
<1>5. CASE IsObject(RawDecode(s)) /\ got = RawDecode(s)
  <2>1. FirstObject(s) # {}
    BY <1>5, NoTextIsNoObject DEF RawDecode
  <2> QED
    BY <1>5, <2>1, RawDecodeFinds
<1>6. CASE ~IsObject(RawDecode(s)) /\ got = NoText
  BY <1>6, RawDecodeFinds
<1> QED
  BY <1>2, <1>3, <1>4, <1>5, <1>6, ParseShape

-----------------------------------------------------------------------------
(* The answer as an object. *)

\* An opening brace, a key-value and a closing brace in the answer are an object, and
\* what is left of the reply holds it where the reply does.
LEMMA ObjectInAnswer ==
    ASSUME IInv, NEW e \in Seq(Plain), NEW h \in 1 .. Len(e), h + 2 \in 1 .. Len(e),
           e[h] = LBrace, e[h + 1] = KeyValue, e[h + 2] = RBrace
    PROVE  /\ Between(KeptWith(e), End + h, End + h + 2) = Between(With(e), End + h, End + h + 2)
           /\ DOMAIN Between(KeptWith(e), End + h, End + h + 2) = {End + h, End + h + 1, End + h + 2}
           /\ IsObject(Between(KeptWith(e), End + h, End + h + 2))
<1> DEFINE n == End
           l == Len(e)
           a == With(e)
           t == KeptWith(e)
           p == n + h
           x == Between(t, p, p + 2)
           y == Between(a, p, p + 2)
           D == {p, p + 1, p + 2}
<1>1. /\ n \in Nat /\ l \in Nat /\ n + 1 .. n + l \subseteq DOMAIN t /\ IsPart(t, a)
      /\ \A k \in 1 .. l : t[n + k] = e[k]
  BY AnsweredStripped
<1>2. /\ h \in 1 .. l /\ h + 1 \in 1 .. l /\ h + 2 \in 1 .. l
      /\ p \in Nat /\ p = n + h /\ p + 1 = n + (h + 1) /\ p + 2 = n + (h + 2)
  BY <1>1
<1>3. e[h] = LBrace /\ e[h + 1] = KeyValue /\ e[h + 2] = RBrace
  OBVIOUS
<1> HIDE DEF n, l, a, t, p
<1>4. t[p] = LBrace /\ t[p + 1] = KeyValue /\ t[p + 2] = RBrace
  BY <1>1, <1>2, <1>3
<1>5. D \subseteq DOMAIN t
  <2>1. p \in n + 1 .. n + l /\ p + 1 \in n + 1 .. n + l /\ p + 2 \in n + 1 .. n + l
    BY <1>1, <1>2
  <2> QED
    BY <1>1, <2>1
<1>6. p .. p + 2 = D
  BY <1>2
<1>7. D \subseteq DOMAIN a /\ \A i \in D : t[i] = a[i]
  BY <1>1, <1>5 DEF IsPart
<1>8. DOMAIN t \cap (p .. p + 2) = D /\ DOMAIN a \cap (p .. p + 2) = D
  BY <1>5, <1>6, <1>7
<1>9. x = [i \in D |-> t[i]] /\ y = [i \in D |-> t[i]]
  BY <1>7, <1>8 DEF Between, Restrict
<1>10. DOMAIN x = D /\ x[p] = LBrace /\ x[p + 1] = KeyValue /\ x[p + 2] = RBrace
  BY <1>4, <1>9
<1> HIDE DEF x, y
<1>11. LBrace # KeyValue /\ LBrace # RBrace /\ KeyValue # RBrace
  BY DEF LBrace, KeyValue, RBrace
<1>12. /\ At(x, {LBrace}) = {p} /\ At(x, {RBrace}) = {p + 2} /\ At(x, {KeyValue}) = {p + 1}
       /\ At(x, {KeyValue, RBrace}) = {p + 1, p + 2} /\ At(x, {LBrace, KeyValue, RBrace}) = D
  BY <1>2, <1>10, <1>11 DEF At
<1>13. IsObject(x)
  <2>1. Cardinality({p}) = 1 /\ Cardinality({p + 2}) = 1
    BY FS_Singleton
  <2>2. Cardinality(At(x, {LBrace})) = Cardinality(At(x, {RBrace}))
    BY <1>12, <2>1
  <2>3. p < p + 1 /\ p < p + 2 /\ p + 1 < p + 2
    BY <1>2
  <2>4. /\ \A i \in At(x, {LBrace}), j \in At(x, {KeyValue, RBrace}) : i < j
        /\ \A i \in At(x, {KeyValue}), j \in At(x, {KeyValue, RBrace}) : i = j \/ i < j
    BY <1>12, <2>3
  <2> QED
    BY <1>10, <1>12, <2>2, <2>4 DEF IsObject
<1> QED
  BY <1>9, <1>10, <1>13 DEF x, y, p, n, a, t

\* In a fence.
LEMMA FencedAnswer ==
    ASSUME IInv
    PROVE  FencedAnswerIsParsed
<1> SUFFICES ASSUME \A i \in DOMAIN Kept : Kept[i] \notin Fences,
                    NEW fence \in Fences,
                    NEW e, e = <<fence, LBrace, KeyValue, RBrace, <<"fence", "bare">>>>
             PROVE  safe_json_parse(With(e)) = Between(With(e), End + 2, End + 4)
  BY DEF FencedAnswerIsParsed, Kept, With, End
<1> DEFINE n == End
           bare == <<"fence", "bare">>
           a == With(e)
           s == Kept
           t == KeptWith(e)
<1>1. e \in Seq(Plain) /\ Len(e) = 5
  <2>1. fence \in Plain /\ LBrace \in Plain /\ KeyValue \in Plain /\ RBrace \in Plain /\ bare \in Plain
    BY DEF Plain, Fences
  <2> QED
    BY <2>1
<1>2. /\ n \in Nat /\ DOMAIN s \subseteq 1 .. n /\ DOMAIN t = DOMAIN s \cup (n + 1 .. n + 5)
      /\ \A i \in DOMAIN s : t[i] = s[i]
      /\ \A k \in 1 .. 5 : t[n + k] = e[k]
  BY <1>1, AnsweredStripped
<1> HIDE DEF n, a, s, t
<1>3. /\ t[n + 1] = fence /\ t[n + 2] = LBrace /\ t[n + 3] = KeyValue /\ t[n + 4] = RBrace
      /\ t[n + 5] = bare
  <2>1. t[n + 1] = e[1] /\ t[n + 2] = e[2] /\ t[n + 3] = e[3] /\ t[n + 4] = e[4] /\ t[n + 5] = e[5]
    BY <1>2
  <2> QED
    BY <2>1
<1>4. /\ Between(t, n + 2, n + 4) = Between(a, n + 2, n + 4)
      /\ IsObject(Between(t, n + 2, n + 4))
  <2>1. e[2] = LBrace /\ e[3] = KeyValue /\ e[4] = RBrace
    OBVIOUS
  <2> DEFINE h == 2
  <2>2. h \in 1 .. 5 /\ h + 2 \in 1 .. 5 /\ e[h] = LBrace /\ e[h + 1] = KeyValue /\ e[h + 2] = RBrace
    BY <2>1
  <2>3. n + h = n + 2 /\ n + h + 2 = n + 4
    BY <1>2
  <2> HIDE DEF h
  <2>4. /\ Between(KeptWith(e), End + h, End + h + 2) = Between(With(e), End + h, End + h + 2)
        /\ IsObject(Between(KeptWith(e), End + h, End + h + 2))
    BY <1>1, <2>2, ObjectInAnswer
  <2> QED
    BY <2>3, <2>4 DEF n, a, t
<1>5. /\ bare \in Fences /\ bare # JsonFence /\ JsonFence \in Fences
      /\ LBrace \notin Fences /\ KeyValue \notin Fences /\ RBrace \notin Fences
      /\ JsonFence \notin {LBrace, KeyValue, RBrace} /\ bare \notin {LBrace, KeyValue, RBrace}
  BY DEF Fences, JsonFence, LBrace, KeyValue, RBrace
<1> HIDE DEF bare
<1>6. DOMAIN t \subseteq 1 .. n + 5 /\ n + 5 \in Nat /\ n + 1 \in DOMAIN t /\ n + 5 \in DOMAIN t
  BY <1>2
<1>7. \A i \in DOMAIN t : t[i] \in Fences <=> i = n + 1 \/ i = n + 5
  <2>1. \A i \in DOMAIN s : t[i] \notin Fences
    BY <1>2 DEF s
  <2>2. \A i \in n + 1 .. n + 5 : i = n + 1 \/ i = n + 2 \/ i = n + 3 \/ i = n + 4 \/ i = n + 5
    BY <1>2
  <2>3. \A i \in DOMAIN s : i # n + 1 /\ i # n + 5
    BY <1>2
  <2> QED
    BY <1>2, <1>3, <1>5, <2>1, <2>2, <2>3
<1>8. ~IsObject(t)
  <2>1. t[n + 1] \notin {LBrace, KeyValue, RBrace}
    BY <1>3, <1>5
  <2> QED
    BY <1>6, <2>1, ObjectShape
<1>9. ASSUME NEW opening \in {Fences, {JsonFence}}, fence \in opening, opening = Fences => fence = bare
      PROVE  Fenced(t, opening) = Between(t, n + 2, n + 4)
  <2> DEFINE m0 == <<n + 1, n + 5>>
             fences == Lazy(t, opening, Fences)
  <2>1. m0 \in fences
    <3>1. m0 \in Spans(t, opening, Fences)
      BY <1>2, <1>3, <1>5, <1>6, <1>9 DEF Spans, At
    <3>2. \A k \in DOMAIN t : n + 1 < k /\ k < n + 5 => t[k] \notin Fences
      BY <1>2, <1>6, <1>7
    <3> QED
      BY <3>1, <3>2 DEF Lazy
  <2>2. ASSUME NEW m \in fences PROVE m = m0
    <3>1. /\ m = <<m[1], m[2]>> /\ m[1] \in DOMAIN t /\ m[2] \in DOMAIN t /\ m[1] < m[2]
          /\ t[m[1]] \in opening /\ t[m[2]] \in Fences
      BY DEF Lazy, Spans, At
    <3>2. t[m[1]] \in Fences
      BY <1>5, <3>1
    <3>3. (m[1] = n + 1 \/ m[1] = n + 5) /\ (m[2] = n + 1 \/ m[2] = n + 5)
      BY <1>7, <3>1, <3>2
    <3> QED
      BY <1>2, <3>1, <3>3
  <2>3. Search(fences) = m0
    <3>1. fences \in SUBSET ((1 .. n + 5) \X (1 .. n + 5)) /\ fences # {}
      BY <1>6, <2>1 DEF Lazy, Spans, At
    <3> HIDE DEF fences, m0
    <3>2. Search(fences) \in fences
      BY <1>6, <3>1, SearchFindsFirst
    <3> QED
      BY <2>2, <3>2
  <2>4. fences # {} /\ Search(fences)[1] = n + 1 /\ Search(fences)[2] = n + 5
    BY <2>1, <2>3
  <2>5. ~(opening = Fences /\ t[n + 1] = JsonFence)
    BY <1>3, <1>5, <1>9
  <2>6. n + 1 + 1 = n + 2 /\ n + 5 - 1 = n + 4
    BY <1>2
  <2>7. Fenced(t, opening)
          = IF fences = {} THEN NoText
            ELSE Between(t, IF opening = Fences /\ t[Search(fences)[1]] = JsonFence
                            THEN Search(fences)[1] ELSE Search(fences)[1] + 1,
                         Search(fences)[2] - 1)
    BY DEF Fenced
  <2>8. ~(opening = Fences /\ t[Search(fences)[1]] = JsonFence)
    BY <2>4, <2>5
  <2>9. Fenced(t, opening) = Between(t, Search(fences)[1] + 1, Search(fences)[2] - 1)
    BY <2>4, <2>7, <2>8
  <2> DEFINE found == Search(fences)
  <2>10. found[1] = n + 1 /\ found[2] = n + 5 /\ Fenced(t, opening) = Between(t, found[1] + 1, found[2] - 1)
    BY <2>4, <2>9
  <2> HIDE DEF found
  <2>11. found[1] + 1 = n + 2 /\ found[2] - 1 = n + 4
    BY <1>2, <2>6, <2>10
  <2> QED
    BY <2>10, <2>11
<1>10. CASE fence = JsonFence
  <2>1. {JsonFence} # Fences
    BY <1>5
  <2>2. Fenced(t, {JsonFence}) = Between(t, n + 2, n + 4)
    BY <1>9, <1>10, <2>1
  <2> QED
    BY <1>4, <1>8, <2>2, ParseShape DEF a, t, n, KeptWith
<1>11. CASE fence = bare
  <2>1. Lazy(t, {JsonFence}, Fences) = {}
    BY <1>3, <1>5, <1>7, <1>11 DEF Lazy, Spans, At
  <2>2. ~IsObject(Fenced(t, {JsonFence}))
    BY <2>1, NoTextIsNoObject DEF Fenced
  <2>3. Fenced(t, Fences) = Between(t, n + 2, n + 4)
    BY <1>9, <1>11
  <2> QED
    BY <1>4, <1>8, <2>2, <2>3, ParseShape DEF a, t, n, KeptWith
<1> QED
  BY <1>10, <1>11 DEF Fences, bare

\* An answer in a fence is parsed, whatever braces and objects precede it, unless it is
\* not the first fence.
THEOREM FencedAnswers == Spec => []FencedAnswerIsParsed
BY TextIsSequence, FencedAnswer, PTL

\* And bare: without a brace before it the answer is the only object at the first brace;
\* with one, what is parsed begins before the answer.
LEMMA BareAnswer ==
    ASSUME IInv
    PROVE  BraceHidesAnswer
<1> DEFINE n == End
           e == <<LBrace, KeyValue, RBrace>>
           a == With(e)
           s == Kept
           t == KeptWith(e)
           x == Between(a, n + 1, n + 3)
           got == safe_json_parse(a)
<1>1. SUFFICES ASSUME \A i \in DOMAIN s : s[i] \notin Fences
               PROVE  got = x <=> \A i \in DOMAIN s : s[i] # LBrace
  BY DEF BraceHidesAnswer, Kept, With, End
<1>2. e \in Seq(Plain) /\ Len(e) = 3 /\ e[1] = LBrace /\ e[2] = KeyValue /\ e[3] = RBrace
  <2>1. LBrace \in Plain /\ KeyValue \in Plain /\ RBrace \in Plain
    BY DEF Plain
  <2> QED
    BY <2>1
<1> HIDE DEF e
<1>3. /\ n \in Nat /\ DOMAIN s \subseteq 1 .. n /\ DOMAIN t = DOMAIN s \cup (n + 1 .. n + 3)
      /\ \A i \in DOMAIN s : t[i] = s[i]
      /\ t[n + 1] = LBrace /\ t[n + 2] = KeyValue /\ t[n + 3] = RBrace
      /\ DOMAIN a = 1 .. n + 3
  <2>1. /\ n \in Nat /\ DOMAIN s \subseteq 1 .. n /\ DOMAIN t = DOMAIN s \cup (n + 1 .. n + 3)
        /\ \A i \in DOMAIN s : t[i] = s[i]
        /\ \A k \in 1 .. 3 : t[n + k] = e[k]
    BY <1>2, AnsweredStripped
  <2>2. DOMAIN a = 1 .. n + 3
    BY <1>2, AnsweredTokens
  <2> HIDE DEF n, a, s, t
  <2>3. t[n + 1] = e[1] /\ t[n + 2] = e[2] /\ t[n + 3] = e[3]
    BY <2>1
  <2> QED
    BY <1>2, <2>1, <2>2, <2>3
<1>4. x = Between(t, n + 1, n + 3) /\ DOMAIN x = {n + 1, n + 2, n + 3} /\ IsObject(x)
  <2> DEFINE h == 1
  <2>1. h \in 1 .. 3 /\ h + 2 \in 1 .. 3 /\ e[h] = LBrace /\ e[h + 1] = KeyValue /\ e[h + 2] = RBrace
    BY <1>2
  <2>2. n + h + 2 = n + 3 /\ n + h + 1 = n + 2 /\ n + h = n + 1
    BY <1>3
  <2> HIDE DEF h
  <2>3. /\ Between(t, n + h, n + h + 2) = Between(a, n + h, n + h + 2)
        /\ DOMAIN Between(t, n + h, n + h + 2) = {n + h, n + h + 1, n + h + 2}
        /\ IsObject(Between(t, n + h, n + h + 2))
    BY <1>2, <2>1, ObjectInAnswer
  <2> QED
    BY <2>2, <2>3
<1> HIDE DEF x, n, a
<1>5. \A i \in DOMAIN t : t[i] \notin Fences
  <2>1. LBrace \notin Fences /\ KeyValue \notin Fences /\ RBrace \notin Fences
    BY DEF Fences, JsonFence, LBrace, KeyValue, RBrace
  <2>2. \A i \in n + 1 .. n + 3 : i = n + 1 \/ i = n + 2 \/ i = n + 3
    BY <1>3
  <2> HIDE DEF s, t
  <2> QED
    BY <1>1, <1>3, <2>1, <2>2
<1>6. /\ n + 3 \in Nat /\ DOMAIN a \subseteq 1 .. n + 3 /\ DOMAIN t \subseteq 1 .. n + 3
      /\ n + 1 \in DOMAIN t /\ n + 3 \in DOMAIN t
  BY <1>3
<1>7. \/ \E m \in FirstObject(t) : got = Between(t, m[1], m[2])
      \/ got = NoText /\ FirstObject(t) = {}
  BY <1>5, <1>6, UnfencedIsFirst DEF a, t, KeptWith
<1> HIDE DEF s, t, got
<1>8. ASSUME \A i \in DOMAIN s : s[i] # LBrace PROVE got = x
  <2> DEFINE m0 == <<n + 1, n + 3>>
  <2>1. m0 \in Spans(t, {LBrace}, {RBrace})
    BY <1>3, <1>6 DEF Spans, At
  <2>2. \A k \in DOMAIN t : k < n + 1 => t[k] # LBrace
    BY <1>3, <1>8
  <2>3. m0[1] = n + 1 /\ m0[2] = n + 3
    OBVIOUS
  <2> HIDE DEF m0
  <2>4. m0 \in FirstObject(t)
    BY <1>4, <2>1, <2>2, <2>3 DEF FirstObject
  <2>5. \A m \in FirstObject(t) : m = m0
    BY <1>6, <2>4, ObjectIsUnique
  <2> QED
    BY <1>4, <1>7, <2>3, <2>4, <2>5
<1>9. ASSUME NEW i \in DOMAIN s, s[i] = LBrace PROVE got # x
  <2> SUFFICES ASSUME got = x PROVE FALSE
    OBVIOUS
  <2>1. PICK m \in FirstObject(t) : x = Between(t, m[1], m[2])
    BY <1>4, <1>7, NoTextIsNoObject
  <2>2. /\ m[1] \in DOMAIN t /\ m[2] \in DOMAIN t /\ m[1] < m[2]
        /\ \A k \in DOMAIN t : k < m[1] => t[k] # LBrace
    BY DEF FirstObject, Spans, At
  <2>3. i \in DOMAIN t /\ t[i] = LBrace /\ i \in 1 .. n
    BY <1>3, <1>9
  <2>4. m[1] \in Nat /\ m[2] \in Nat /\ m[1] <= i
    BY <1>3, <1>6, <2>2, <2>3
  <2>5. m[1] \in DOMAIN x
    <3>1. DOMAIN x = DOMAIN t \cap (m[1] .. m[2])
      BY <2>1, BetweenIsPart
    <3> QED
      BY <2>2, <2>4, <3>1
  <2> QED
    BY <1>3, <1>4, <2>3, <2>4, <2>5
<1> QED
  BY <1>8, <1>9

\* A bare answer is parsed exactly where no brace precedes it.
THEOREM BracesHideAnswers == Spec => []BraceHidesAnswer
BY TextIsSequence, BareAnswer, PTL

=============================================================================
