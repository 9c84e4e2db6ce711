------------------------- MODULE ConversationProofs -------------------------
(***************************************************************************)
(* Reap is invisible to Get, for any number of conversations and any TTL:  *)
(* it drops only what Get would not return any more.                       *)
(***************************************************************************)
EXTENDS ConversationStore, TLAPS

CTypeOK ==
  /\ entries \in [Conversation -> Entry]
  /\ served \in [Conversation -> Entry]

\* The table has what was last set, or has dropped it after its time.
DroppedLate ==
  \A c \in Conversation :
    \/ entries[c] = served[c]
    \/ entries[c] = Missing /\ expired(served[c])

CInv == CTypeOK /\ DroppedLate

\* Time keeps an entry an entry; it makes none expire early and revives none.
LEMMA OlderEntry ==
  ASSUME NEW e \in Entry
  PROVE  older(e) \in Entry /\ (expired(e) => older(e) = e)
<1>1. e.age \in Age /\ TTL \in Nat
  BY StoreAssumption DEF Entry
<1>2. CASE e.backend = none \/ expired(e)
  BY <1>2 DEF older
<1>3. CASE ~(e.backend = none \/ expired(e))
  <2>1. older(e) = [e EXCEPT !.age = e.age + 1] /\ e.age + 1 \in Age
    BY <1>1, <1>3 DEF older, expired, Age
  <2>2. QED
    BY <1>3, <2>1 DEF Entry
<1>4. QED
  BY <1>2, <1>3

\* A missing key has not expired and does not age.
LEMMA MissingStays == Missing \in Entry /\ older(Missing) = Missing /\ ~expired(Missing)
  BY StoreAssumption DEF Missing, Entry, Age, older, expired

\* A new table is empty.
LEMMA CInitInv == ASSUME CInit PROVE CInv
  BY MissingStays DEF CInit, CInv, CTypeOK, DroppedLate

\* Every step of Set, Reap and the clock preserves the invariant.
LEMMA CNextInv == ASSUME CInv, [CNext]_cvars PROVE CInv'
<1> USE DEF CInv
<1>1. ASSUME NEW c \in Conversation, NEW b \in Backend, Set(c, b)
      PROVE  CInv'
  <2>1. [backend |-> b, age |-> 0] \in Entry
    BY StoreAssumption DEF Entry, Age
  <2>2. QED
    BY <1>1, <2>1 DEF Set, CTypeOK, DroppedLate
<1>2. ASSUME NEW c \in Conversation, Visit(c)
      PROVE  CInv'
  <2>1. CTypeOK'
    BY <1>2, MissingStays DEF Visit, CTypeOK
  <2>2. ASSUME reaped(entries[c])
        PROVE  expired(served[c])
    BY <2>2, MissingStays DEF reaped, expired, DroppedLate
  <2>3. DroppedLate'
    BY <1>2, <2>2 DEF Visit, CTypeOK, DroppedLate, expired
  <2>4. QED
    BY <2>1, <2>3
<1>3. CASE Tick
  <2>1. \A c \in Conversation : /\ entries'[c] = older(entries[c])
                                /\ served'[c] = older(served[c])
    BY <1>3 DEF Tick
  <2>2. CTypeOK'
    BY <1>3, OlderEntry DEF Tick, CTypeOK
  <2>3. ASSUME NEW c \in Conversation
        PROVE  \/ entries'[c] = served'[c]
               \/ entries'[c] = Missing /\ expired(served'[c])
    <3>1. CASE entries[c] = served[c]
      BY <2>1, <3>1
    <3>2. CASE entries[c] = Missing /\ expired(served[c])
      BY <2>1, <3>2, MissingStays, OlderEntry DEF CTypeOK
    <3>3. QED
      BY <3>1, <3>2 DEF DroppedLate
  <2>4. DroppedLate'
    BY <2>3 DEF DroppedLate, expired
  <2>5. QED
    BY <2>2, <2>4
<1>4. CASE StartReap \/ UNCHANGED cvars
  BY <1>4 DEF StartReap, cvars, CTypeOK, DroppedLate
<1>5. QED
  BY <1>1, <1>2, <1>3, <1>4 DEF CNext

\* The table is behind the last Set by expired entries only.
THEOREM ConversationInvariant == CSpec => []CInv
<1>1. CInit => CInv
  BY CInitInv
<1>2. CInv /\ [CNext]_cvars => CInv'
  BY CNextInv
<1>3. QED
  BY <1>1, <1>2, PTL DEF CSpec

\* "correctness does not depend on it because Get already ignores expired
\* entries" (conversation.go:55-56): what Get returns is decided by the last Set
\* and its age, whenever Reap runs and however long it takes.
THEOREM ConversationGetIsExact == CSpec => []GetIsExact
<1>1. CInv => GetIsExact
  <2> SUFFICES ASSUME CInv, NEW c \in Conversation
               PROVE  Get(c) = IF expired(served[c]) THEN none ELSE served[c].backend
    BY DEF GetIsExact
  <2>1. CASE entries[c] = served[c]
    BY <2>1 DEF Get
  <2>2. CASE entries[c] = Missing /\ expired(served[c])
    <3>1. Missing.backend = none
      BY DEF Missing
    <3>2. Get(c) = none
      BY <2>2, <3>1, MissingStays DEF Get
    <3>3. QED
      BY <2>2, <3>2
  <2>3. QED
    BY <2>1, <2>2 DEF CInv, DroppedLate
<1>2. QED
  BY <1>1, ConversationInvariant, PTL

=============================================================================
