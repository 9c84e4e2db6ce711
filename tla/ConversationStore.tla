------------------------- MODULE ConversationStore --------------------------
(***************************************************************************)
(* The affinity table of conversation.go: which backend served a           *)
(* conversation last, for as long as the TTL says.                         *)
(*                                                                         *)
(* An entry's time `seen` is kept as its age, time.Since(seen), in ticks.  *)
(* The code only compares it with the TTL, so ages stop at TTL + 1 and     *)
(* time needs no bound.  Reap holds the mutex but reads the clock once per *)
(* entry: time passes between two of its steps, Set waits for its end.     *)
(***************************************************************************)
EXTENDS Naturals

CONSTANTS
  Conversation,   \* the non-empty ids; Get and Set return at once for ""
  Backend,        \* the backend names
  none,           \* no backend
  TTL             \* ttl, in ticks

ASSUME StoreAssumption == TTL \in Nat /\ none \notin Backend

VARIABLES
  entries,     \* entries; [backend |-> none, ...] stands for a missing key
  unvisited,   \* the keys Reap has still to look at; {} while it sleeps
  served       \* for the properties: the last Set of each id, never dropped

cvars == <<entries, unvisited, served>>

Age == 0 .. TTL + 1
Entry == [backend : Backend \cup {none}, age : Age]
Missing == [backend |-> none, age |-> 0]
Stored == {c \in Conversation : entries[c].backend # none}

CInit ==
  /\ entries = [c \in Conversation |-> Missing]
  /\ unvisited = {}
  /\ served = entries

-----------------------------------------------------------------------------
expired(e) == e.age > TTL

\* The test of Reap, line 61; and one that disagrees with Get at the boundary.
reaped_AtTTL(e) == e.age >= TTL
reaped(e) == e.age > TTL

\* Lines 36-42.
Get(c) == IF expired(entries[c]) THEN none ELSE entries[c].backend

\* Lines 50-52, called by ServeHTTP when an answer has been streamed.
Set(c, b) ==
  /\ unvisited = {}
  /\ entries' = [entries EXCEPT ![c] = [backend |-> b, age |-> 0]]
  /\ served' = [served EXCEPT ![c] = [backend |-> b, age |-> 0]]
  /\ UNCHANGED unvisited

\* The sleep of ReapLoop is over, lines 67-72: Reap takes the mutex.
StartReap ==
  /\ unvisited = {}
  /\ unvisited' = Stored
  /\ UNCHANGED <<entries, served>>

\* What is left of the loop, and of one that ends at the first live entry.
rest_StopsAtLive(c) == IF reaped(entries[c]) THEN unvisited \ {c} ELSE {}
rest(c) == unvisited \ {c}

\* One round of the loop in Reap, lines 60-64, in any order of the keys.
Visit(c) ==
  /\ c \in unvisited
  /\ unvisited' = rest(c)
  /\ entries' = IF reaped(entries[c]) THEN [entries EXCEPT ![c] = Missing] ELSE entries
  /\ UNCHANGED served

older(e) == IF e.backend = none \/ expired(e) THEN e ELSE [e EXCEPT !.age = @ + 1]

\* The clock.
Tick ==
  /\ entries' = [c \in Conversation |-> older(entries[c])]
  /\ served' = [c \in Conversation |-> older(served[c])]
  /\ UNCHANGED unvisited

CNext ==
  \/ \E c \in Conversation, b \in Backend : Set(c, b)
  \/ StartReap
  \/ \E c \in Conversation : Visit(c)
  \/ Tick

(***************************************************************************)
(* Fairness: the sleep of ReapLoop ends and its goroutine is scheduled;    *)
(* nobody owes us another turn.  The mutex does not starve Reap, although  *)
(* Set may get it first any number of times.                               *)
(***************************************************************************)
CSpec == CInit /\ [][CNext]_cvars
CFairSpec ==
  /\ CSpec
  /\ WF_cvars(StartReap)
  /\ \A c \in Conversation : WF_cvars(Visit(c))

-----------------------------------------------------------------------------
\* "correctness does not depend on it because Get already ignores expired
\* entries" (conversation.go:55-56): what Get returns is decided by the last
\* Set and its age alone, whenever Reap runs and however long it takes.
GetIsExact ==
  \A c \in Conversation :
    Get(c) = IF expired(served[c]) THEN none ELSE served[c].backend

\* "to bound memory" (conversation.go:55): an expired entry does not stay, it
\* is dropped or used again, whatever the other conversations do.
ExpiredGoes ==
  \A c \in Conversation :
    (c \in Stored /\ expired(entries[c])) ~> ~(c \in Stored /\ expired(entries[c]))

=============================================================================
