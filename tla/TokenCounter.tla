---------------------------- MODULE TokenCounter ----------------------------
(***************************************************************************)
(* How a response is metered while it is streamed: the copy loop of        *)
(* Proxy.stream and the tokenCounter, proxy.go:213-353.  The body arrives  *)
(* in reads of any size, the loop may end anywhere (end of body, a read or *)
(* a write error), and only its last bytes are kept.                       *)
(*                                                                         *)
(* A body is a sequence of symbols: "nl" a newline, "data" and ":" the two *)
(* halves of an event prefix that a read may split, "ec", "ct" and "ed"    *)
(* the quoted keys eval_count, completion_tokens and eval_duration, "sep"  *)
(* a blank or colon after a key, the digits, and "x" any other text.       *)
(***************************************************************************)
EXTENDS Integers, FiniteSets, SequencesExt

CONSTANTS
  Bodies,         \* the responses: text, and what the engine reports in it
  tokenTailMax,   \* symbols kept; 2048 bytes in the code
  BufMax,         \* the size of `buf`; 4096 bytes in the code
  NsPerMs,        \* 1000000 in the code
  MaxInt,         \* the largest int; 2^63 - 1 in the code
  Windows         \* milliseconds from the first byte to the end of the loop

Digit == <<"0", "1", "2", "3", "4", "5", "6", "7", "8", "9">>
Symbol == ToSet(Digit) \cup {"nl", "data", ":", "ec", "ct", "ed", "sep", "x"}

\* tokens and ms: the exact count and speed the body reports, 0 if it does not.
ASSUME BodiesAssumption ==
  /\ tokenTailMax \in Nat /\ BufMax \in Nat \ {0} /\ NsPerMs \in Nat \ {0}
  /\ MaxInt \in Nat
  /\ Windows \subseteq Nat
  /\ \A b \in Bodies : b.text \in Seq(Symbol) /\ b.tokens \in Nat /\ b.ms \in Nat

VARIABLES
  body,   \* the response
  pos,    \* how much of it has been read
  tc,     \* the tokenCounter
  res     \* the streamResult; tokens 0 while the loop runs

tvars == <<body, pos, tc, res>>

NewCounter == [newlines |-> 0, chunks |-> 0, sse |-> FALSE, tail |-> <<>>]

TInit ==
  /\ body \in Bodies
  /\ pos = 0
  /\ tc = NewCounter
  /\ res = [tokens |-> 0, perTokenMs |-> 0]

-----------------------------------------------------------------------------
Newlines(b) == Cardinality({i \in 1 .. Len(b) : b[i] = "nl"})

HasData(b) == \E i \in 1 .. Len(b) - 1 : b[i] = "data" /\ b[i + 1] = ":"

\* Lines 273-276: the tail after another chunk; and the last chunk alone.
keepTail_Chunk(tail, b) == b
keepTail(tail, b) ==
  LET t == tail \o b
  IN  IF Len(t) > tokenTailMax THEN SubSeq(t, Len(t) - tokenTailMax + 1, Len(t)) ELSE t

observe(c, b) ==
  [newlines |-> c.newlines + Newlines(b),
   chunks |-> c.chunks + 1,
   sse |-> c.sse \/ HasData(b),
   tail |-> keepTail(c.tail, b)]

digitValue(s) == CHOOSE n \in 0 .. 9 : Digit[n + 1] = s

\* bytes.LastIndex, and bytes.Index.
LastIndex_First(b, key) == SelectInSeq(b, LAMBDA s : s = key)
LastIndex(b, key) == SelectLastInSeq(b, LAMBDA s : s = key)

\* Lines 331-353: the integer after the last occurrence of the key; -1 if there
\* is none or strconv.Atoi finds it out of range.
jsonIntField(b, key) ==
  LET i == LastIndex(b, key)
      Past(from, Skip(_)) ==     \* the first place from there on not to skip
        Min({k \in from .. Len(b) + 1 : k = Len(b) + 1 \/ ~Skip(b[k])})
      start == Past(i + 1, LAMBDA s : s = "sep")
      end == Past(start, LAMBDA s : s \in ToSet(Digit))
      value == FoldLeft(LAMBDA n, s : 10 * n + digitValue(s), 0, SubSeq(b, start, end - 1))
  IN  IF i = 0 \/ end = start \/ value > MaxInt THEN -1 ELSE value

\* An exact field counts only if it is positive; a zero would be divided by.
Usable_Present(n) == n >= 0
Usable(n) == n > 0

\* Lines 312-326.
count(c) ==
  LET ec == jsonIntField(c.tail, "ec")
      ct == jsonIntField(c.tail, "ct")
  IN  CASE Usable(ec) -> ec
        [] ~Usable(ec) /\ Usable(ct) -> ct
        [] OTHER -> IF c.sse /\ c.newlines > 1 THEN c.newlines \div 2
                    ELSE IF c.newlines > 0 THEN c.newlines ELSE 1

\* Lines 286-310, w being the time since the first byte.  eval_count, if it is
\* usable, is the count already.
result(c, w) ==
  LET tokens == count(c)
      evalNs == jsonIntField(c.tail, "ed")
      ms == IF evalNs > 0 THEN (evalNs \div tokens) \div NsPerMs ELSE w \div tokens
  IN  [tokens |-> tokens,
       perTokenMs |-> IF evalNs > 0 \/ c.chunks > 1 THEN Max({ms, 1}) ELSE 0]

-----------------------------------------------------------------------------
Streaming == res.tokens = 0

\* Lines 219-231: a read returns n symbols, and they are passed on.
Read(n) ==
  /\ Streaming
  /\ pos + n <= Len(body.text)
  /\ pos' = pos + n
  /\ tc' = observe(tc, SubSeq(body.text, pos + 1, pos + n))
  /\ UNCHANGED <<body, res>>

\* Lines 225-240: end of body, read error, or the client is gone.
Finish(w) ==
  /\ Streaming
  /\ res' = result(tc, w)
  /\ UNCHANGED <<body, pos, tc>>

TNext == (\E n \in 1 .. BufMax : Read(n)) \/ \E w \in Windows : Finish(w)

TSpec == TInit /\ [][TNext]_tvars

-----------------------------------------------------------------------------
(***************************************************************************)
(* Properties.                                                             *)
(***************************************************************************)

\* How the body is cut into reads does not matter: the count at any moment is
\* that of the same text read at once.  Only a prefix "data:" that every event
\* has split over two reads is missed (proxy.go:270), and then the estimate is
\* about twice too high, never lower.
CountIgnoresChunks ==
  LET whole == observe(NewCounter, SubSeq(body.text, 1, pos))
  IN  IF tc.sse = whole.sse THEN count(tc) = count(whole)
      ELSE count(tc) \in count(whole) .. 2 * count(whole) + 1

\* "Exact fields are preferred" (proxy.go:252): once the whole body is through,
\* the count and the speed are those the engine reports, although it may report
\* a running count in every event, whatever the reads and however long the
\* model took to load (proxy.go:114-119).
ExactWhenReported ==
  (pos = Len(body.text) /\ ~Streaming) =>
    /\ body.tokens > 0 => res.tokens = body.tokens
    /\ body.ms > 0 => res.perTokenMs = body.ms

\* Wherever the stream breaks off, the count can be divided by
\* (proxy.go:129, 295, 303).
NeverZero == count(tc) > 0

=============================================================================
