-------------------------- MODULE ResultPathProofs --------------------------
(***************************************************************************)
(* Proofs about the result path, for every limit, every reader and every     *)
(* nesting of sections.  The inductive invariant has a part for each of the  *)
(* three components; none of them needs the others.                          *)
(***************************************************************************)
EXTENDS ResultPath, WellFoundedInduction, TLAPS

-----------------------------------------------------------------------------
(* The operators of BuilderWithBudget. *)

\* What every builder keeps to, whatever is written into it.
Sound(b) ==
  /\ b \in Builders
  /\ b.state = "open" => (b.limit # 0 => b.len <= b.limit)
  /\ b.state = "cut" => b.limit # 0 /\ b.len >= Notice /\ b.len <= b.limit + Notice
  /\ b.state = "roomless" => b.limit = 0 /\ b.len = 0

\* What it keeps to besides when the texts are plain: one that was cut has its
\* notice and was cut at most Rune bytes early.
Marked(b) ==
  /\ b.notices = IF b.state = "cut" THEN 1 ELSE 0
  /\ b.state = "cut" => b.len >= b.limit + Notice - Rune

\* The fields of a builder.
LEMMA Fields ==
  ASSUME NEW b \in Builders
  PROVE  /\ b.limit \in Nat /\ b.len \in Nat /\ b.notices \in Nat
         /\ b.state \in {"open", "cut", "roomless"} /\ b.body \in {"blank", "text"}
BY Zenon DEF Builders

\* The fields of a new builder.
LEMMA NewFields ==
  ASSUME NEW l \in Nat
  PROVE  LET b == NewBuilderWithBudget(l) IN
         /\ b \in Builders
         /\ b.limit = l /\ b.len = 0 /\ b.state = "open" /\ b.body = "blank" /\ b.notices = 0
BY Zenon DEF Builders, NewBuilderWithBudget

\* The fields of a builder without room.
LEMMA NoRoomFields ==
  /\ NoRoom \in Builders
  /\ NoRoom.limit = 0 /\ NoRoom.len = 0 /\ NoRoom.state = "roomless" /\ NoRoom.notices = 0
<1>1. 0 \in Nat
  OBVIOUS
<1> QED BY <1>1, Zenon DEF NoRoom, NewBuilderWithBudget, Builders

\* What a write that fits changes.
LEMMA ExtendFields ==
  ASSUME NEW b \in Builders, NEW n \in Nat, NEW white \in BOOLEAN
  PROVE  LET w == Extend(b, n, white) IN
         /\ w \in Builders
         /\ w.limit = b.limit /\ w.len = b.len + n /\ w.state = b.state /\ w.notices = b.notices
<1>1. b.len + n \in Nat
  BY Fields
<1>2. (IF white \/ n = 0 THEN b.body ELSE "text") \in {"blank", "text"}
  BY Fields
<1> QED BY <1>1, <1>2, Zenon DEF Extend, Builders

\* What a write that does not fit changes.
LEMMA CutOffFields ==
  ASSUME NEW b \in Builders, NEW n \in Nat, NEW white \in BOOLEAN
  PROVE  LET w == CutOff(b, n, white) IN
         /\ w \in Builders
         /\ w.limit = b.limit /\ w.len = b.len + n + Notice /\ w.state = "cut"
         /\ w.notices = b.notices + 1
<1>1. b.len + n + Notice \in Nat /\ b.notices + 1 \in Nat
  BY Fields, BudgetAssumption
<1>2. (IF white \/ n = 0 THEN b.body ELSE "text") \in {"blank", "text"}
  BY Fields
<1> QED BY <1>1, <1>2, Zenon DEF CutOff, Builders

\* A new builder is sound, capped or not.
LEMMA NewIsSound ==
  ASSUME NEW l \in Nat
  PROVE  Sound(NewBuilderWithBudget(l)) /\ Marked(NewBuilderWithBudget(l))
BY NewFields DEF Sound, Marked

\* What a sound builder still accepts.
LEMMA RemainingOfSound ==
  ASSUME NEW b, Sound(b)
  PROVE  /\ Remaining(b) \in Nat
         /\ Capped(b) /\ ~Truncated(b) => Remaining(b) = b.limit - b.len
         /\ Truncated(b) => Remaining(b) = 0
<1>1. b.limit \in Nat /\ b.len \in Nat
  BY Fields DEF Sound
<1> QED BY <1>1 DEF Sound, Remaining, Truncated, Capped

\* A scratch is sound, and fits into its parent with what was reserved.
LEMMA ScratchIsSound ==
  ASSUME NEW b, Sound(b), NEW reserve \in Nat
  PROVE  LET s == Scratch(b, reserve) IN
         /\ Sound(s) /\ Marked(s)
         /\ s.len = 0
         /\ s.state # "cut"
         /\ ~Truncated(s) => /\ ~Truncated(b)
                             /\ Capped(b) <=> s.limit # 0
                             /\ Capped(b) => s.limit + reserve = Remaining(b)
         /\ Truncated(s) => Capped(b) /\ Remaining(b) <= reserve
<1>1. Remaining(b) \in Nat /\ (Truncated(b) => Remaining(b) = 0 /\ Capped(b))
  <2>1. b.state \in {"open", "cut", "roomless"}
    BY Fields DEF Sound
  <2> QED BY <2>1, RemainingOfSound DEF Sound, Truncated, Capped
<1>2. CASE ~Capped(b)
  <2>1. Scratch(b, reserve) = NewBuilderWithBudget(0)
    BY <1>2 DEF Scratch
  <2> QED BY <1>1, <1>2, <2>1, NewFields DEF Sound, Marked, Truncated
<1>3. CASE Capped(b) /\ Remaining(b) > reserve
  <2>1. Scratch(b, reserve) = NewBuilderWithBudget(Remaining(b) - reserve)
    BY <1>3 DEF Scratch
  <2>2. Remaining(b) - reserve \in Nat \ {0}
    BY <1>1, <1>3
  <2> QED BY <1>1, <1>3, <2>1, <2>2, NewFields DEF Sound, Marked, Truncated
<1>4. CASE Capped(b) /\ ~(Remaining(b) > reserve)
  <2>1. Scratch(b, reserve) = NoRoom
    BY <1>4 DEF Scratch
  <2> QED BY <1>1, <1>4, <2>1, NoRoomFields DEF Sound, Marked, Truncated
<1> QED BY <1>2, <1>3, <1>4

\* WriteString keeps a builder sound and never writes to one that was cut.
LEMMA WriteStringIsSound ==
  ASSUME NEW b, Sound(b), NEW n \in Nat, NEW short \in Nat, NEW white \in BOOLEAN
  PROVE  LET w == WriteString(b, n, short, white) IN
         /\ Sound(w)
         /\ Marked(b) /\ short <= Rune => Marked(w)
         /\ w.limit = b.limit
         /\ w.state = "roomless" <=> b.state = "roomless"
         /\ ~Truncated(w) => w.len = b.len + n
         /\ Truncated(b) => w = b
<1>1. /\ Remaining(b) \in Nat /\ (Capped(b) /\ ~Truncated(b) => Remaining(b) = b.limit - b.len)
      /\ b \in Builders /\ b.limit \in Nat /\ b.len \in Nat
  BY RemainingOfSound, Fields DEF Sound
<1>2. CASE Truncated(b)
  BY <1>2 DEF WriteString
<1>3. CASE ~Truncated(b) /\ (~Capped(b) \/ n <= Remaining(b))
  <2>1. WriteString(b, n, short, white) = Extend(b, n, white)
    BY <1>3 DEF WriteString
  <2> DEFINE w == Extend(b, n, white)
  <2>2. /\ w \in Builders
        /\ w.limit = b.limit /\ w.len = b.len + n /\ w.state = b.state /\ w.notices = b.notices
    BY <1>1, ExtendFields
  <2> HIDE DEF w
  <2>3. Sound(w) /\ (Marked(b) => Marked(w)) /\ (w.state = "roomless" <=> b.state = "roomless")
    BY <1>1, <1>3, <2>2 DEF Sound, Marked, Truncated, Capped
  <2> QED BY <1>3, <2>1, <2>2, <2>3 DEF w
<1>4. CASE ~Truncated(b) /\ ~(~Capped(b) \/ n <= Remaining(b))
  <2> DEFINE k == IF short > Remaining(b) THEN 0 ELSE Remaining(b) - short
  <2>1. WriteString(b, n, short, white) = CutOff(b, k, white)
    BY <1>4 DEF WriteString
  <2>2. k \in Nat /\ k <= Remaining(b) /\ (short <= Rune => k >= Remaining(b) - Rune)
    BY <1>1 DEF Rune
  <2> HIDE DEF k
  <2> DEFINE w == CutOff(b, k, white)
  <2>3. /\ w \in Builders
        /\ w.limit = b.limit /\ w.len = b.len + k + Notice /\ w.state = "cut"
        /\ w.notices = b.notices + 1
    BY <1>1, <2>2, CutOffFields
  <2> HIDE DEF w
  <2>4. b.state = "open" /\ b.limit # 0 /\ Remaining(b) = b.limit - b.len /\ Notice \in Nat
    BY <1>1, <1>4, BudgetAssumption, Fields DEF Truncated, Capped
  <2>5. Sound(w)
    BY <1>1, <2>2, <2>3, <2>4 DEF Sound
  <2>6. Marked(b) /\ short <= Rune => Marked(w)
    BY <1>1, <2>2, <2>3, <2>4 DEF Marked, Rune
  <2>7. Truncated(w) /\ w.state # "roomless" /\ b.state # "roomless"
    BY <2>3, <2>4 DEF Truncated
  <2> QED BY <1>4, <2>1, <2>3, <2>5, <2>6, <2>7 DEF w
<1> QED BY <1>2, <1>3, <1>4

\* The notice keeps a builder sound, and cuts it when it does not fit.
LEMMA WriteNoticeIsSound ==
  ASSUME NEW b, Sound(b), ~Truncated(b)
  PROVE  LET w == WriteNotice(b) IN
         /\ Sound(w) /\ w.state # "roomless" /\ w.limit = b.limit
         /\ Capped(b) /\ Remaining(b) < Notice => w.state = "cut" /\ (Marked(b) => Marked(w))
<1>1. /\ Remaining(b) \in Nat /\ (Capped(b) => Remaining(b) = b.limit - b.len)
      /\ b \in Builders /\ b.limit \in Nat /\ b.len \in Nat /\ b.notices \in Nat
      /\ b.state = "open" /\ Notice \in Nat
  BY RemainingOfSound, Fields, BudgetAssumption DEF Sound, Truncated
<1>2. CASE ~Capped(b) \/ Notice <= Remaining(b)
  <2> DEFINE e == Extend(b, Notice, FALSE)
             w == [e EXCEPT !.notices = @ + 1]
  <2>1. WriteNotice(b) = w
    BY <1>2, Zenon DEF WriteNotice
  <2>2. e \in Builders /\ e.limit = b.limit /\ e.len = b.len + Notice /\ e.state = "open" /\ e.notices \in Nat
    BY <1>1, ExtendFields
  <2> HIDE DEF e
  <2>3. e.notices + 1 \in Nat
    BY <2>2
  <2>4. w \in Builders /\ w.limit = e.limit /\ w.len = e.len /\ w.state = e.state
    BY <2>2, <2>3, Zenon DEF Builders
  <2> HIDE DEF w
  <2>5. Sound(w)
    BY <1>1, <1>2, <2>2, <2>4 DEF Sound, Capped
  <2> QED BY <1>1, <1>2, <2>1, <2>2, <2>4, <2>5
<1>3. CASE ~(~Capped(b) \/ Notice <= Remaining(b))
  <2> DEFINE w == CutOff(b, Remaining(b), FALSE)
  <2>1. WriteNotice(b) = w
    BY <1>3, Zenon DEF WriteNotice
  <2>2. /\ w \in Builders
        /\ w.limit = b.limit /\ w.len = b.len + Remaining(b) + Notice /\ w.state = "cut"
        /\ w.notices = b.notices + 1
    BY <1>1, CutOffFields
  <2> HIDE DEF w
  <2>3. Sound(w) /\ (Marked(b) => Marked(w))
    BY <1>1, <1>3, <2>2, BudgetAssumption DEF Sound, Marked, Rune, Capped
  <2> QED BY <2>1, <2>2, <2>3
<1> QED BY <1>2, <1>3

\* Committing a scratch that was made for this parent: the parent stays sound,
\* and, when the texts are plain, a scratch that was cut and has something in it
\* cuts the parent.
LEMMA CommitIsSound ==
  ASSUME NEW b, Sound(b), ~Truncated(b),
         NEW s, Sound(s), s.state # "roomless",
         NEW wrapper \in Nat, NEW reserve \in Nat,
         Capped(b) <=> s.limit # 0,
         Capped(b) => s.limit + reserve = Remaining(b),
         wrapper <= reserve, reserve <= wrapper + Extra,
         NEW short \in Nat
  PROVE  LET w == CommitScratch(b, wrapper, s, short) IN
         /\ Sound(w)
         /\ w.state # "roomless" /\ w.limit = b.limit
         /\ Marked(b) /\ Marked(s) /\ short <= Rune =>
              Marked(w) /\ (Truncated(s) => w = b \/ Truncated(w))
<1> DEFINE n == wrapper + Prefix(s)
           Kept == Marked(b) /\ Marked(s) /\ short <= Rune
<1>1. /\ Remaining(b) \in Nat /\ b.limit \in Nat /\ b.len \in Nat /\ s.limit \in Nat
      /\ Capped(b) => Remaining(b) = b.limit - b.len
      /\ b.state # "roomless"
  BY RemainingOfSound, Fields DEF Sound, Truncated
<1>2. /\ Prefix(s) \in Nat
      /\ Truncated(s) => s.limit # 0 /\ (Marked(s) => Prefix(s) >= s.limit - Rune)
  BY Fields, BudgetAssumption DEF Sound, Marked, Prefix, Rune, Truncated
<1>3. n \in Nat
  BY <1>2
<1>4. CASE s.body = "blank" \/ n = 0
  BY <1>1, <1>4 DEF CommitScratch, WriteCut
<1>5. CASE s.body # "blank" /\ n # 0
  <2> DEFINE w == WriteString(b, n, short, FALSE)
  <2>1. CommitScratch(b, wrapper, s, short) = IF Truncated(w) \/ ~Truncated(s) THEN w ELSE WriteNotice(w)
    BY <1>5 DEF CommitScratch, WriteCut
  <2>2. /\ Sound(w) /\ w.limit = b.limit /\ w.state # "roomless"
        /\ ~Truncated(w) => w.len = b.len + n
        /\ Kept => Marked(w)
    <3> HIDE DEF n
    <3>1. FALSE \in BOOLEAN
      OBVIOUS
    <3>2. /\ Sound(w) /\ w.limit = b.limit
          /\ w.state = "roomless" <=> b.state = "roomless"
          /\ ~Truncated(w) => w.len = b.len + n
      BY <1>3, <3>1, WriteStringIsSound
    <3>3. Marked(b) /\ short <= Rune => Marked(w)
      BY <1>3, <3>1, WriteStringIsSound
    <3> HIDE DEF w
    <3> QED BY <1>1, <3>2, <3>3
  <2> HIDE DEF w
  <2>3. CASE Truncated(w) \/ ~Truncated(s)
    BY <2>1, <2>2, <2>3
  <2>4. CASE ~Truncated(w) /\ Truncated(s)
    <3> DEFINE v == WriteNotice(w)
    <3>1. Capped(b) /\ Capped(w)
      BY <1>1, <1>2, <2>2, <2>4 DEF Capped
    <3>2. Remaining(w) = b.limit - (b.len + n)
      BY <2>2, <2>4, <3>1, RemainingOfSound
    <3>3. Kept => Remaining(w) < Notice
      BY <1>1, <1>2, <2>4, <3>1, <3>2, BudgetAssumption DEF Rune, Extra
    <3>4. /\ Sound(v) /\ v.state # "roomless" /\ v.limit = w.limit
          /\ Kept => v.state = "cut" /\ Marked(v)
      BY <2>2, <2>4, <3>1, <3>3, WriteNoticeIsSound
    <3> QED BY <2>1, <2>2, <2>4, <3>4 DEF Truncated
  <2> QED BY <2>3, <2>4
<1> QED BY <1>4, <1>5

\* Copying a scratch with its notice keeps the parent sound.
LEMMA CopyIsSound ==
  ASSUME NEW b, Sound(b), ~Truncated(b), NEW s, Sound(s), NEW summary \in Nat, NEW short \in Nat
  PROVE  LET w == CopyScratch(b, summary, s, short) IN
         Sound(w) /\ w.state # "roomless" /\ w.limit = b.limit
<1> DEFINE v == WriteString(b, summary, short, FALSE)
<1>1. Sound(v) /\ v.limit = b.limit /\ v.state # "roomless" /\ s.len \in Nat
  <2>1. b.state # "roomless" /\ s.len \in Nat /\ FALSE \in BOOLEAN
    BY Fields DEF Sound, Truncated
  <2> QED BY <2>1, WriteStringIsSound
<1> HIDE DEF v
<1>2. LET w == WriteString(v, s.len, short, FALSE) IN
      Sound(w) /\ w.state # "roomless" /\ w.limit = v.limit
  BY <1>1, WriteStringIsSound
<1> QED BY <1>1, <1>2 DEF CopyScratch, v

-----------------------------------------------------------------------------
(* The inductive invariant. *)

\* The texts: a scratch and what is written with it fill its parent, which is
\* open.
BudgetInv ==
  /\ BudgetTypeOK
  /\ \A i \in Depths : Sound(builder[i])
  /\ plain => \A i \in Depths : Marked(builder[i])
  /\ \A i \in 2 .. depth :
       /\ builder[i].state # "roomless" /\ ~Truncated(builder[i - 1])
       /\ Capped(builder[i - 1]) <=> builder[i].limit # 0
       /\ Capped(builder[i - 1]) =>
            builder[i].limit + (wrap[i] + spare[i]) = Remaining(builder[i - 1])
  /\ maxResult # 0 =>
       IF maxResult > assistant
       THEN builder[1].limit = maxResult - assistant /\ builder[1].state # "roomless"
       ELSE builder[1].state = "roomless"

\* The response: what the consumer has is what the body handed out, until the
\* byte that was too much.
BodyInv ==
  /\ BodyTypeOK
  /\ cap # 0 => read = got /\ got <= cap
  /\ ~sticky => got = sent
  /\ sticky => cap # 0 /\ closed /\ (size > cap \/ stalled) /\ outcome = "oversized"
  /\ outcome = "oversized" => sticky
  /\ closes = IF closed \/ outcome = "unavailable" THEN 1 ELSE 0
  /\ outcome = "unavailable" => ~closed
  /\ outcome = "complete" => sent = size

\* The exec: one counter for both buffers, and a loss exactly when it was cut.
ExecInv ==
  /\ ExecTypeOK
  /\ execLimit # 0 => used = kept["stdout"] + kept["stderr"] /\ used <= execLimit
  /\ cutOff => execLimit # 0 /\ cancelled
  /\ \A s \in Streams : kept[s] <= produced[s]
  /\ ~cutOff => kept = produced
  /\ cutOff => \E s \in Streams : kept[s] < produced[s]
  /\ execDone = "output" => (noted = {} <=> ~cutOff)
  /\ execDone # "output" => noted = {}

PathInv == BudgetInv /\ BodyInv /\ ExecInv /\ phase \in Phases

-----------------------------------------------------------------------------
(* The texts. *)

\* The first builder of a tool or a prompt.
LEMMA BudgetInitInv == BudgetInit => BudgetInv
<1> SUFFICES ASSUME BudgetInit PROVE BudgetInv
  OBVIOUS
<1>1. maxResult \in Nat /\ assistant \in Nat /\ MaxDepth \in Nat /\ 1 \in Depths
  BY BudgetAssumption DEF BudgetInit, Depths
<1> DEFINE top == NewBuilderWithBudget(maxResult)
           first == Scratch(top, assistant)
<1>2. Sound(top) /\ top.limit = maxResult /\ top.len = 0 /\ top.state = "open"
  BY <1>1, NewIsSound, NewFields
<1> HIDE DEF top
<1>3. /\ Sound(first) /\ Marked(first)
      /\ first.state # "cut"
      /\ ~Truncated(first) => (Capped(top) => first.limit + assistant = Remaining(top))
      /\ Truncated(first) => Capped(top) /\ Remaining(top) <= assistant
  BY <1>1, <1>2, ScratchIsSound
<1>4. maxResult # 0 => Capped(top) /\ Remaining(top) = maxResult
  BY <1>1, <1>2, RemainingOfSound DEF Capped, Truncated
<1> HIDE DEF first
<1>5. first \in Builders /\ first.limit \in Nat /\ first.state \in {"open", "cut", "roomless"}
  BY <1>3, Fields DEF Sound
<1>6. LET b == NewBuilderWithBudget(0) IN Sound(b) /\ Marked(b) /\ b \in Builders
  BY NewIsSound, NewFields
<1>7. builder = [i \in Depths |-> IF i = 1 THEN first ELSE NewBuilderWithBudget(0)]
  BY DEF BudgetInit, first, top
<1>8. builder[1] = first /\ \A i \in Depths : builder[i] \in Builders /\ Sound(builder[i]) /\ Marked(builder[i])
  BY <1>1, <1>3, <1>5, <1>6, <1>7
<1>9. BudgetTypeOK
  <2>1. builder \in [Depths -> Builders]
    BY <1>7, <1>8
  <2>2. wrap \in [Depths -> Nat] /\ spare \in [Depths -> 0 .. Extra] /\ depth \in Depths
    BY <1>1 DEF BudgetInit, Extra
  <2> QED BY <1>1, <2>1, <2>2 DEF BudgetTypeOK, BudgetInit
<1>10. maxResult # 0 =>
         IF maxResult > assistant
         THEN builder[1].limit = maxResult - assistant /\ builder[1].state # "roomless"
         ELSE builder[1].state = "roomless"
  <2>1. CASE Truncated(first)
    BY <1>1, <1>3, <1>4, <1>5, <1>8, <2>1 DEF Truncated
  <2>2. CASE ~Truncated(first)
    <3>1. first.state = "open"
      BY <1>5, <2>2 DEF Truncated
    <3>2. maxResult # 0 => first.limit + assistant = maxResult
      BY <1>3, <1>4, <2>2
    <3>3. maxResult # 0 => first.limit # 0
      BY <2>2, <1>3, <1>4, <1>2, <1>1, ScratchIsSound DEF first
    <3> QED BY <1>1, <1>5, <1>8, <3>1, <3>2, <3>3
  <2> QED BY <2>1, <2>2
<1>11. \A i \in 2 .. depth : FALSE
  BY DEF BudgetInit
<1> QED BY <1>8, <1>9, <1>10, <1>11 DEF BudgetInv

\* How early a cut may fall, in numbers.
LEMMA ShortfallsAreNumbers ==
  ASSUME NEW short \in Shortfalls
  PROVE  short \in Nat /\ (plain => short <= Rune)
BY BudgetAssumption DEF Shortfalls, Rune

\* WriteString into the innermost text.
LEMMA PutInv ==
  ASSUME BudgetInv, NEW n \in Nat, NEW short \in Shortfalls, NEW white \in BOOLEAN,
         Put(n, short, white)
  PROVE  BudgetInv'
<1> DEFINE w == WriteString(builder[depth], n, short, white)
<1>1. /\ depth \in Depths /\ builder \in [Depths -> Builders] /\ Depths \subseteq Nat
      /\ Sound(builder[depth]) /\ (plain => Marked(builder[depth]))
      /\ short \in Nat /\ (plain => short <= Rune)
  BY ShortfallsAreNumbers, BudgetAssumption DEF BudgetInv, BudgetTypeOK, Depths
<1>2. /\ Sound(w) /\ w.limit = builder[depth].limit /\ (plain => Marked(w))
      /\ w.state = "roomless" <=> builder[depth].state = "roomless"
  BY <1>1, WriteStringIsSound
<1>3. builder' = [builder EXCEPT ![depth] = w]
  BY DEF Put
<1> HIDE DEF w
<1>4. UNCHANGED <<maxResult, plain, assistant, wrap, spare, depth>>
  BY DEF Put
<1>5. /\ builder' \in [Depths -> Builders]
      /\ builder'[depth] = w /\ \A i \in Depths \ {depth} : builder'[i] = builder[i]
  BY <1>1, <1>2, <1>3 DEF Sound
<1>6. BudgetTypeOK'
  BY <1>4, <1>5 DEF BudgetInv, BudgetTypeOK
<1>7. \A i \in Depths : Sound(builder'[i]) /\ (plain => Marked(builder'[i]))
  BY <1>2, <1>5 DEF BudgetInv
<1>8. ASSUME NEW i \in 2 .. depth
      PROVE  /\ builder'[i].state # "roomless" /\ ~Truncated(builder'[i - 1])
             /\ Capped(builder'[i - 1]) <=> builder'[i].limit # 0
             /\ Capped(builder'[i - 1]) =>
                  builder'[i].limit + (wrap[i] + spare[i]) = Remaining(builder'[i - 1])
  <2>1. i \in Depths /\ i - 1 \in Depths \ {depth}
    BY <1>1, BudgetAssumption DEF Depths
  <2>2. builder'[i - 1] = builder[i - 1]
    BY <1>5, <2>1
  <2>3. builder'[i].limit = builder[i].limit /\ (builder'[i].state = "roomless" <=> builder[i].state = "roomless")
    BY <1>2, <1>5, <2>1
  <2> QED BY <2>2, <2>3 DEF BudgetInv
<1>9. 1 \in Depths
  BY BudgetAssumption DEF Depths
<1>10. /\ builder'[1].limit = builder[1].limit
       /\ builder'[1].state = "roomless" <=> builder[1].state = "roomless"
  BY <1>2, <1>5, <1>9
<1> QED BY <1>4, <1>6, <1>7, <1>8, <1>10 DEF BudgetInv

\* TrySection and appendTaskBlock start a section.
LEMMA OpenSectionInv ==
  ASSUME BudgetInv, NEW header \in Nat, NEW suffix \in Nat, NEW extra \in 0 .. Extra,
         OpenSection(header, suffix, extra)
  PROVE  BudgetInv'
<1> DEFINE reserve == header + suffix + extra
           b == Scratch(builder[depth], reserve)
<1>1. /\ depth \in Depths /\ builder \in [Depths -> Builders]
      /\ Sound(builder[depth]) /\ MaxDepth \in Nat
  BY BudgetAssumption DEF BudgetInv, BudgetTypeOK
<1>2. reserve \in Nat /\ reserve = (header + suffix) + extra /\ header + suffix \in Nat
  BY DEF Extra
<1> HIDE DEF reserve
<1>3. /\ Sound(b) /\ Marked(b) /\ ~Truncated(builder[depth])
      /\ Capped(builder[depth]) <=> b.limit # 0
      /\ Capped(builder[depth]) => b.limit + reserve = Remaining(builder[depth])
      /\ ~Truncated(b)
  <2>1. ~Truncated(b)
    BY DEF OpenSection, reserve
  <2> QED BY <1>1, <1>2, <2>1, ScratchIsSound
<1>4. /\ builder' = [builder EXCEPT ![depth + 1] = b]
      /\ wrap' = [wrap EXCEPT ![depth + 1] = header + suffix]
      /\ spare' = [spare EXCEPT ![depth + 1] = extra]
      /\ depth' = depth + 1 /\ depth < MaxDepth /\ UNCHANGED <<maxResult, plain, assistant>>
  BY DEF OpenSection, reserve
<1> HIDE DEF b
<1>5. depth + 1 \in Depths /\ depth \in Nat /\ 1 \in Depths /\ depth + 1 # 1
  BY <1>1, <1>4 DEF Depths
<1>6. /\ builder' \in [Depths -> Builders] /\ builder'[depth + 1] = b
      /\ \A i \in Depths \ {depth + 1} : builder'[i] = builder[i]
  BY <1>1, <1>3, <1>4, <1>5 DEF Sound
<1>7. /\ wrap' \in [Depths -> Nat] /\ wrap'[depth + 1] = header + suffix
      /\ spare' \in [Depths -> 0 .. Extra] /\ spare'[depth + 1] = extra
      /\ \A i \in Depths \ {depth + 1} : wrap'[i] = wrap[i] /\ spare'[i] = spare[i]
  BY <1>2, <1>4, <1>5 DEF BudgetInv, BudgetTypeOK
<1>8. BudgetTypeOK'
  BY <1>4, <1>5, <1>6, <1>7 DEF BudgetInv, BudgetTypeOK
<1>9. \A i \in Depths : Sound(builder'[i]) /\ (plain => Marked(builder'[i]))
  BY <1>3, <1>6 DEF BudgetInv
<1>10. ASSUME NEW i \in 2 .. depth'
       PROVE  /\ builder'[i].state # "roomless" /\ ~Truncated(builder'[i - 1])
              /\ Capped(builder'[i - 1]) <=> builder'[i].limit # 0
              /\ Capped(builder'[i - 1]) =>
                   builder'[i].limit + (wrap'[i] + spare'[i]) = Remaining(builder'[i - 1])
  <2>1. CASE i = depth + 1
    <3>1. i - 1 = depth /\ depth \in Depths \ {depth + 1}
      BY <1>1, <1>5, <2>1
    <3>2. builder'[i - 1] = builder[depth] /\ builder'[i] = b
      BY <1>6, <2>1, <3>1
    <3>3. wrap'[i] + spare'[i] = reserve
      BY <1>2, <1>7, <2>1
    <3> QED BY <1>3, <3>2, <3>3 DEF Truncated
  <2>2. CASE i # depth + 1
    <3>1. i \in 2 .. depth /\ i \in Depths \ {depth + 1} /\ i - 1 \in Depths \ {depth + 1}
      BY <1>1, <1>4, <1>5, <2>2 DEF Depths
    <3>2. /\ builder'[i - 1] = builder[i - 1] /\ builder'[i] = builder[i]
          /\ wrap'[i] = wrap[i] /\ spare'[i] = spare[i]
      BY <1>6, <1>7, <3>1
    <3> QED BY <3>1, <3>2 DEF BudgetInv
  <2> QED BY <2>1, <2>2
<1>11. builder'[1] = builder[1]
  BY <1>5, <1>6
<1> QED BY <1>4, <1>8, <1>9, <1>10, <1>11 DEF BudgetInv

\* The innermost text goes and its parent becomes b: sound, with the limit it had.
LEMMA BackToInv ==
  ASSUME BudgetInv, depth > 1, NEW b, Sound(b), plain => Marked(b),
         b.limit = builder[depth - 1].limit, b.state # "roomless",
         BackTo(b)
  PROVE  BudgetInv'
<1> DEFINE up == depth - 1
<1>1. /\ depth \in Depths /\ up \in Depths /\ up # depth /\ depth \in Nat /\ 1 \in Depths
      /\ builder \in [Depths -> Builders] /\ depth \in 2 .. depth
  BY BudgetAssumption DEF BudgetInv, BudgetTypeOK, Depths
<1>2. /\ builder' = [builder EXCEPT ![up] = b, ![depth] = NewBuilderWithBudget(0)]
      /\ wrap' = [wrap EXCEPT ![depth] = 0] /\ spare' = [spare EXCEPT ![depth] = 0]
      /\ depth' = up /\ UNCHANGED <<maxResult, plain, assistant>>
  BY DEF BackTo
<1>3. LET n == NewBuilderWithBudget(0) IN Sound(n) /\ Marked(n) /\ n \in Builders
  BY NewIsSound, NewFields
<1>4. /\ builder' \in [Depths -> Builders]
      /\ builder'[up] = b /\ builder'[depth] = NewBuilderWithBudget(0)
      /\ \A i \in Depths \ {up, depth} : builder'[i] = builder[i]
  BY <1>1, <1>2, <1>3 DEF Sound
<1>5. /\ wrap' \in [Depths -> Nat] /\ spare' \in [Depths -> 0 .. Extra]
      /\ \A i \in Depths \ {depth} : wrap'[i] = wrap[i] /\ spare'[i] = spare[i]
  BY <1>1, <1>2 DEF BudgetInv, BudgetTypeOK, Extra
<1>6. BudgetTypeOK'
  BY <1>1, <1>2, <1>4, <1>5 DEF BudgetInv, BudgetTypeOK
<1>7. \A i \in Depths : Sound(builder'[i]) /\ (plain => Marked(builder'[i]))
  BY <1>3, <1>4 DEF BudgetInv
<1>8. ASSUME NEW i \in 2 .. depth'
      PROVE  /\ builder'[i].state # "roomless" /\ ~Truncated(builder'[i - 1])
             /\ Capped(builder'[i - 1]) <=> builder'[i].limit # 0
             /\ Capped(builder'[i - 1]) =>
                  builder'[i].limit + (wrap'[i] + spare'[i]) = Remaining(builder'[i - 1])
  <2>1. i \in 2 .. depth /\ i \in Depths \ {depth} /\ i - 1 \in Depths \ {up, depth}
    BY <1>1, <1>2, BudgetAssumption DEF Depths
  <2>2. builder'[i - 1] = builder[i - 1] /\ wrap'[i] = wrap[i] /\ spare'[i] = spare[i]
    BY <1>4, <1>5, <2>1
  <2>3. builder'[i].limit = builder[i].limit /\ builder'[i].state # "roomless"
    <3>1. CASE i = up
      BY <1>4, <3>1
    <3>2. CASE i # up
      BY <1>4, <2>1, <3>2 DEF BudgetInv
    <3> QED BY <3>1, <3>2
  <2> QED BY <2>1, <2>2, <2>3 DEF BudgetInv
<1>9. builder[up].state # "roomless"
  BY <1>1 DEF BudgetInv, Truncated
<1>10. /\ builder'[1].limit = builder[1].limit
       /\ builder'[1].state = "roomless" <=> builder[1].state = "roomless"
  <2>1. CASE up = 1
    BY <1>4, <1>9, <2>1
  <2>2. CASE up # 1
    <3>1. 1 \in Depths \ {up, depth}
      BY <1>1, <2>2
    <3> QED BY <1>4, <3>1
  <2> QED BY <2>1, <2>2
<1> QED BY <1>2, <1>6, <1>7, <1>8, <1>10 DEF BudgetInv

\* What CloseSection hands to BackTo, from CommitIsSound.
LEMMA CloseSectionCommits ==
  ASSUME BudgetInv, depth > 1, NEW newline \in 0 .. spare[depth], NEW short \in Shortfalls
  PROVE  LET w == CommitScratch(builder[depth - 1], wrap[depth] + newline, builder[depth], short) IN
         /\ Sound(w) /\ w.state # "roomless" /\ w.limit = builder[depth - 1].limit
         /\ plain => Marked(w) /\ (Truncated(builder[depth]) => w = builder[depth - 1] \/ Truncated(w))
<1>1. depth \in Depths /\ depth - 1 \in Depths /\ depth \in 2 .. depth
  BY BudgetAssumption DEF BudgetInv, BudgetTypeOK, Depths
<1>2. wrap[depth] \in Nat /\ spare[depth] \in 0 .. Extra
  BY <1>1 DEF BudgetInv, BudgetTypeOK
<1> DEFINE b == builder[depth - 1]
           s == builder[depth]
           wrapper == wrap[depth] + newline
           reserve == wrap[depth] + spare[depth]
<1>3. /\ Sound(b) /\ Sound(s) /\ (plain => Marked(b) /\ Marked(s)) /\ ~Truncated(b) /\ s.state # "roomless"
      /\ Capped(b) <=> s.limit # 0
      /\ Capped(b) => s.limit + reserve = Remaining(b)
  BY <1>1 DEF BudgetInv
<1>4. wrapper \in Nat /\ reserve \in Nat /\ wrapper <= reserve /\ reserve <= wrapper + Extra
  BY <1>2 DEF Extra
<1> HIDE DEF b, s, wrapper, reserve
<1>5. LET w == CommitScratch(b, wrapper, s, short) IN
      /\ Sound(w) /\ w.state # "roomless" /\ w.limit = b.limit
      /\ plain => Marked(w) /\ (Truncated(s) => w = b \/ Truncated(w))
  <2>1. short \in Nat /\ (plain => short <= Rune)
    BY ShortfallsAreNumbers
  <2> QED BY <1>3, <1>4, <2>1, CommitIsSound
<1> QED BY <1>5 DEF b, s, wrapper

\* CommitScratch of the innermost text.
LEMMA CloseSectionInv ==
  ASSUME BudgetInv, NEW newline \in 0 .. Extra, NEW short \in Shortfalls,
         CloseSection(newline, short)
  PROVE  BudgetInv'
<1>1. depth > 1 /\ newline \in 0 .. spare[depth]
  BY DEF CloseSection
<1> DEFINE w == CommitScratch(builder[depth - 1], wrap[depth] + newline, builder[depth], short)
<1>2. BackTo(w)
  BY DEF CloseSection
<1>3. Sound(w) /\ (plain => Marked(w)) /\ w.state # "roomless" /\ w.limit = builder[depth - 1].limit
  BY <1>1, CloseSectionCommits
<1> HIDE DEF w
<1> QED BY <1>1, <1>2, <1>3, BackToInv

\* A section that is given up.
LEMMA DropSectionInv ==
  ASSUME BudgetInv, DropSection
  PROVE  BudgetInv'
<1>1. depth > 1 /\ BackTo(builder[depth - 1])
  BY DEF DropSection
<1>2. depth - 1 \in Depths /\ depth \in 2 .. depth
  BY <1>1, BudgetAssumption DEF BudgetInv, BudgetTypeOK, Depths
<1>3. /\ Sound(builder[depth - 1]) /\ (plain => Marked(builder[depth - 1]))
      /\ builder[depth - 1].state # "roomless"
  BY <1>2 DEF BudgetInv, Truncated
<1> QED BY <1>1, <1>3, BackToInv

\* A section that is copied with its notice.
LEMMA CopySectionInv ==
  ASSUME BudgetInv, NEW summary \in Nat, NEW short \in Shortfalls, CopySection(summary, short)
  PROVE  BudgetInv'
<1> DEFINE w == CopyScratch(builder[depth - 1], summary, builder[depth], short)
<1>1. ~plain /\ depth > 1 /\ BackTo(w)
  BY DEF CopySection
<1>2. depth \in Depths /\ depth - 1 \in Depths /\ depth \in 2 .. depth
  BY <1>1, BudgetAssumption DEF BudgetInv, BudgetTypeOK, Depths
<1>3. Sound(builder[depth - 1]) /\ ~Truncated(builder[depth - 1]) /\ Sound(builder[depth])
  BY <1>2 DEF BudgetInv
<1>4. Sound(w) /\ w.state # "roomless" /\ w.limit = builder[depth - 1].limit
  <2>1. short \in Nat
    BY ShortfallsAreNumbers
  <2> DEFINE b == builder[depth - 1]
             s == builder[depth]
  <2>2. Sound(b) /\ ~Truncated(b) /\ Sound(s)
    BY <1>3
  <2> HIDE DEF b, s
  <2>3. LET x == CopyScratch(b, summary, s, short) IN
        Sound(x) /\ x.state # "roomless" /\ x.limit = b.limit
    BY <2>1, <2>2, CopyIsSound, Zenon
  <2> QED BY <2>3, Zenon DEF b, s
<1> HIDE DEF w
<1> QED BY <1>1, <1>4, BackToInv

-----------------------------------------------------------------------------
(* The response. *)

\* A new body, or none.
LEMMA NewBodyInv ==
  ASSUME NEW c \in Nat, NEW n \in Nat, NEW o \in {"idle", "reading", "unavailable"}, Body(c, n, o)
  PROVE  BodyInv'
<1>1. /\ cap' = c /\ size' = n /\ sent' = 0 /\ read' = 0 /\ got' = 0
      /\ closes' = IF o = "unavailable" THEN 1 ELSE 0
      /\ sticky' = FALSE /\ closed' = FALSE /\ stalled' = FALSE /\ outcome' = o
  BY DEF Body
<1>2. cap' \in Nat /\ size' \in Nat /\ sent' \in 0 .. size' /\ read' \in Nat /\ got' \in Nat
  BY <1>1
<1>3. closes' \in Nat
  BY <1>1
<1>4. sticky' \in BOOLEAN /\ closed' \in BOOLEAN /\ stalled' \in BOOLEAN
  BY <1>1, Zenon
<1>5. outcome' \in Outcomes
  BY <1>1, Zenon DEF Outcomes
<1>6. BodyTypeOK'
  BY <1>2, <1>3, <1>4, <1>5, Zenon DEF BodyTypeOK
<1> QED BY <1>1, <1>6 DEF BodyInv

\* One more byte is looked for where the cap was reached.
LEMMA PeekInv ==
  ASSUME BodyInv, ~sticky, ~closed, outcome \in {"reading", "oversized", "broken"},
         NEW at \in 0 .. size, cap # 0, at = cap, read' = cap, got' = cap,
         NEW atEnd \in {"nil", "EOF"}, Peek(at, atEnd), UNCHANGED <<cap, size>>
  PROVE  BodyInv'
<1>1. cap \in Nat /\ size \in Nat /\ closes = 0
  BY DEF BodyInv, BodyTypeOK
<1>2. CASE at < size /\ sent' = at + 1 /\ FailBody /\ UNCHANGED stalled
  BY <1>1, <1>2 DEF BodyInv, BodyTypeOK, FailBody, Outcomes
<1>3. CASE sent' = at /\ FailBody /\ stalled' = TRUE
  BY <1>1, <1>3 DEF BodyInv, BodyTypeOK, FailBody, Outcomes
<1>4. CASE /\ sent' = at /\ at = size /\ Conclude(atEnd)
           /\ UNCHANGED <<sticky, closed, closes, stalled>>
  BY <1>1, <1>4 DEF BodyInv, BodyTypeOK, Conclude, Outcomes
<1>5. CASE sent' = at /\ Conclude("broken") /\ UNCHANGED <<sticky, closed, closes, stalled>>
  BY <1>1, <1>5 DEF BodyInv, BodyTypeOK, Conclude, Outcomes
<1> QED BY <1>2, <1>3, <1>4, <1>5 DEF Peek

\* limitedBody.Read.
LEMMA ReadBodyInv ==
  ASSUME BodyInv, ReadBody
  PROVE  BodyInv'
<1>1. /\ cap \in Nat /\ size \in Nat /\ sent \in 0 .. size /\ read \in Nat /\ got \in Nat
      /\ sticky \in BOOLEAN /\ closed \in BOOLEAN /\ stalled \in BOOLEAN
      /\ outcome \in {"reading", "oversized", "broken"} /\ UNCHANGED <<cap, size>>
      /\ ~closed \/ sticky
  BY DEF BodyInv, BodyTypeOK, ReadBody
<1>2. CASE sticky
  <2>1. outcome' = "oversized" /\ UNCHANGED <<sent, read, got, sticky, closed, closes, stalled>>
    BY <1>2 DEF ReadBody
  <2> QED BY <1>1, <1>2, <2>1 DEF BodyInv, BodyTypeOK, Outcomes
<1>3. CASE ~sticky /\ cap # 0 /\ read = cap
  <2>1. Peek(sent, "EOF") /\ UNCHANGED <<read, got>>
    BY <1>3 DEF ReadBody
  <2>2. sent = cap /\ read' = cap /\ got' = cap
    BY <1>1, <1>3, <2>1 DEF BodyInv
  <2> QED BY <1>1, <1>3, <2>1, <2>2, PeekInv
<1>4. CASE ~sticky /\ ~(cap # 0 /\ read = cap)
  <2>1. PICK n \in 0 .. size - sent, report \in {"nil", "EOF", "broken"} :
          (cap # 0 => n <= cap - read) /\ ReadSome(n, report)
    BY <1>4 DEF ReadBody
  <2>2. /\ n \in Nat /\ sent + n \in 0 .. size /\ got = sent /\ closes = 0 /\ ~closed
        /\ cap # 0 => read = got /\ read < cap /\ read + n <= cap
    BY <1>1, <1>4, <2>1 DEF BodyInv
  <2>3. /\ got' = got + n /\ report \in Reports(sent + n)
        /\ read' = IF cap = 0 THEN read ELSE read + n
    BY <2>1 DEF ReadSome
  <2>4. CASE cap = 0 \/ read + n < cap \/ report # "nil"
    <3>1. Conclude(report) /\ sent' = sent + n /\ UNCHANGED <<sticky, closed, closes, stalled>>
      BY <2>1, <2>4 DEF ReadSome
    <3>2. report = "EOF" => sent + n = size
      BY <2>3 DEF Reports
    <3> QED BY <1>1, <1>4, <2>2, <2>3, <3>1, <3>2 DEF BodyInv, BodyTypeOK, Conclude, Outcomes
  <2>5. CASE ~(cap = 0 \/ read + n < cap \/ report # "nil")
    <3>1. Peek(sent + n, "nil")
      BY <2>1, <2>5 DEF ReadSome
    <3>2. sent + n = cap /\ read' = cap /\ got' = cap /\ cap # 0
      BY <1>1, <2>2, <2>3, <2>5
    <3> QED BY <1>1, <1>4, <2>2, <3>1, <3>2, PeekInv
  <2> QED BY <2>4, <2>5
<1> QED BY <1>1, <1>2, <1>3, <1>4

\* limitedBody.Close.
LEMMA CloseBodyInv ==
  ASSUME BodyInv, CloseBody
  PROVE  BodyInv'
BY DEF BodyInv, BodyTypeOK, CloseBody, Outcomes

-----------------------------------------------------------------------------
(* The exec. *)

\* execStream.Write.
LEMMA StreamWriteInv ==
  ASSUME ExecInv, NEW s \in Streams, NEW n \in Nat \ {0}, StreamWrite(s, n)
  PROVE  ExecInv'
<1>1. /\ execLimit \in Nat /\ used \in Nat
      /\ produced \in [Streams -> Nat] /\ kept \in [Streams -> Nat]
      /\ produced' = [produced EXCEPT ![s] = @ + n]
      /\ UNCHANGED <<execLimit, noted, execDone>>
      /\ Streams = {"stdout", "stderr"}
      /\ execDone # "output" \/ cutOff
  BY DEF ExecInv, ExecTypeOK, StreamWrite, Streams
<1>2. CASE cutOff
  <2>1. UNCHANGED <<kept, used, cutOff, cancelled>>
    BY <1>2 DEF StreamWrite
  <2> QED BY <1>1, <1>2, <2>1 DEF ExecInv, ExecTypeOK
<1>3. CASE ~cutOff /\ execLimit = 0
  <2>1. Keep(s, n) /\ UNCHANGED <<used, cutOff, cancelled>>
    BY <1>3 DEF StreamWrite
  <2>2. kept' = produced'
    BY <1>1, <1>3, <2>1 DEF ExecInv, Keep
  <2> QED BY <1>1, <1>3, <2>1, <2>2 DEF ExecInv, ExecTypeOK, Keep
<1>4. CASE ~cutOff /\ execLimit # 0 /\ n > execLimit - used
  <2>1. Keep(s, execLimit - used) /\ used' = execLimit /\ cutOff' = TRUE /\ cancelled' = TRUE
    BY <1>4 DEF StreamWrite
  <2>2. kept = produced /\ used = kept["stdout"] + kept["stderr"] /\ used <= execLimit
    BY <1>4 DEF ExecInv
  <2> DEFINE k == execLimit - used
  <2>3. k \in Nat /\ k < n
    BY <1>1, <1>4, <2>2
  <2>4. kept' \in [Streams -> Nat] /\ kept'[s] = kept[s] + k /\ produced'[s] = produced[s] + n
    BY <1>1, <2>1, <2>3 DEF Keep
  <2>5. \A t \in Streams \ {s} : kept'[t] = kept[t] /\ produced'[t] = produced[t]
    BY <1>1, <2>1, <2>3 DEF Keep
  <2>6. kept'["stdout"] + kept'["stderr"] = execLimit
    BY <1>1, <2>2, <2>3, <2>4, <2>5
  <2>7. kept'[s] < produced'[s] /\ \A t \in Streams : kept'[t] <= produced'[t]
    BY <1>1, <2>2, <2>3, <2>4, <2>5
  <2>8. ExecTypeOK'
    BY <1>1, <2>1, <2>4 DEF ExecInv, ExecTypeOK
  <2> QED BY <1>1, <1>4, <2>1, <2>6, <2>7, <2>8 DEF ExecInv
<1>5. CASE ~cutOff /\ execLimit # 0 /\ ~(n > execLimit - used)
  <2>1. Keep(s, n) /\ used' = used + n /\ UNCHANGED <<cutOff, cancelled>>
    BY <1>5 DEF StreamWrite
  <2>2. kept = produced /\ used = kept["stdout"] + kept["stderr"] /\ used <= execLimit
    BY <1>5 DEF ExecInv
  <2>3. kept' = produced' /\ kept' \in [Streams -> Nat] /\ kept'[s] = kept[s] + n
    BY <1>1, <2>1, <2>2 DEF Keep
  <2>4. \A t \in Streams \ {s} : kept'[t] = kept[t]
    BY <1>1, <2>1 DEF Keep
  <2>5. kept'["stdout"] + kept'["stderr"] = used' /\ used' \in Nat /\ used' <= execLimit
    BY <1>1, <1>5, <2>1, <2>2, <2>3, <2>4
  <2> QED BY <1>1, <1>5, <2>1, <2>3, <2>5 DEF ExecInv, ExecTypeOK
<1> QED BY <1>1, <1>2, <1>3, <1>4, <1>5 DEF ExecInv, ExecTypeOK

\* execOutput.finish.
LEMMA FinishInv ==
  ASSUME ExecInv, NEW err \in BOOLEAN, Finish(err)
  PROVE  ExecInv'
<1>1. /\ execDone = "no"
      /\ execDone' = IF err /\ ~cutOff THEN "error" ELSE "output"
      /\ noted' = IF cutOff THEN {IF kept["stdout"] > 0 THEN "stdout" ELSE "stderr"} ELSE noted
      /\ UNCHANGED <<execLimit, used, cutOff, cancelled, produced, kept>>
  BY DEF Finish
<1>2. noted = {} /\ cutOff \in BOOLEAN
  BY <1>1 DEF ExecInv, ExecTypeOK
<1>3. noted' \subseteq Streams /\ (noted' = {} <=> ~cutOff)
  BY <1>1, <1>2 DEF Streams
<1>4. execDone' \in {"output", "error"} /\ (execDone' # "output" => ~cutOff)
  BY <1>1, <1>2
<1> QED BY <1>1, <1>2, <1>3, <1>4 DEF ExecInv, ExecTypeOK

-----------------------------------------------------------------------------
(* The whole path. *)

\* The inductive invariant holds at the start.
LEMMA PathInitInv == Init => PathInv
<1> SUFFICES ASSUME Init PROVE PathInv
  OBVIOUS
<1>1. BudgetInv
  BY BudgetInitInv DEF Init
<1>2. BodyInv
  <2>1. NoBody
    BY DEF Init
  <2>2. cap \in Nat /\ size \in Nat /\ sent \in 0 .. size /\ read \in Nat /\ got \in Nat /\ closes \in Nat
    BY <2>1 DEF NoBody
  <2>3. sticky \in BOOLEAN /\ closed \in BOOLEAN /\ stalled \in BOOLEAN
    BY <2>1, Zenon DEF NoBody
  <2>4. outcome \in Outcomes
    BY <2>1, Zenon DEF NoBody, Outcomes
  <2>5. BodyTypeOK
    BY <2>2, <2>3, <2>4, Zenon DEF BodyTypeOK
  <2> QED BY <2>1, <2>5 DEF NoBody, BodyInv
<1>3. ExecInv
  <2>1. execLimit \in Nat
    BY BackendAssumption DEF Init, ExecInit
  <2>2. produced \in [Streams -> Nat] /\ kept = produced /\ \A s \in Streams : kept[s] = 0
    BY DEF Init, ExecInit
  <2>3. kept["stdout"] = 0 /\ kept["stderr"] = 0
    BY <2>2 DEF Streams
  <2>4. used = 0 /\ cutOff = FALSE /\ cancelled = FALSE /\ noted = {} /\ execDone = "no"
    BY DEF Init, ExecInit
  <2>5. cutOff \in BOOLEAN /\ cancelled \in BOOLEAN
    BY <2>4, Zenon
  <2>6. execDone \in {"no", "output", "error"} /\ noted \subseteq Streams
    BY <2>4, Zenon
  <2>7. used \in Nat /\ kept \in [Streams -> Nat]
    BY <2>2, <2>4
  <2>8. ExecTypeOK
    BY <2>1, <2>2, <2>5, <2>6, <2>7, Zenon DEF ExecTypeOK
  <2>9. \A s \in Streams : kept[s] <= produced[s]
    BY <2>2
  <2> QED BY <2>1, <2>2, <2>3, <2>4, <2>8, <2>9 DEF ExecInv
<1> QED BY <1>1, <1>2, <1>3 DEF Init, PathInv, Phases

\* The response invariant when nothing of the response changes.
LEMMA BodyStays == BodyInv /\ UNCHANGED bodyVars => BodyInv'
BY DEF BodyInv, BodyTypeOK, bodyVars

\* The same for the exec.
LEMMA ExecStays == ExecInv /\ UNCHANGED execVars => ExecInv'
BY DEF ExecInv, ExecTypeOK, execVars

\* The same for the texts.
LEMMA BudgetStays == BudgetInv /\ UNCHANGED budgetVars => BudgetInv'
BY DEF BudgetInv, BudgetTypeOK, budgetVars

\* Every step of a handler keeps the inductive invariant.
LEMMA PathNextInv == PathInv /\ [Next]_vars => PathInv'
<1> SUFFICES ASSUME PathInv, [Next]_vars PROVE PathInv'
  OBVIOUS
<1> USE DEF PathInv, Phases
<1>1. CASE StartFetch
  <2>1. BudgetInv' /\ ExecInv' /\ phase' = "fetch"
    BY <1>1, BudgetStays, ExecStays DEF StartFetch
  <2>2. BodyInv'
    <3>1. PICK n \in 0 .. MaxBody :
            \/ \E c \in BackendLimits \cup {0} : Body(c, n, "reading")
            \/ Body(0, n, "unavailable")
      BY <1>1 DEF StartFetch, RoundTrip
    <3>2. n \in Nat /\ BackendLimits \cup {0} \subseteq Nat
      BY BackendAssumption
    <3>3. CASE \E c \in BackendLimits \cup {0} : Body(c, n, "reading")
      BY <3>2, <3>3, NewBodyInv
    <3>4. CASE Body(0, n, "unavailable")
      BY <3>2, <3>4, NewBodyInv
    <3> QED BY <3>1, <3>3, <3>4
  <2> QED BY <2>1, <2>2
<1>2. CASE Fetch
  BY <1>2, BudgetStays, ExecStays, ReadBodyInv, CloseBodyInv DEF Fetch
<1>3. CASE UseFetch
  <2>1. ExecInv' /\ BodyInv'
    BY <1>3, ExecStays, NewBodyInv DEF UseFetch
  <2>2. BudgetInv' /\ phase' \in Phases
    <3>1. Text \subseteq Nat
      <4>1. got + BackendNotice \in Nat /\ MaxText \in Nat
        BY PathAssumption, BudgetAssumption DEF BodyInv, BodyTypeOK
      <4> QED BY <4>1 DEF Text
    <3>2. CASE \E n \in Text, short \in Shortfalls, white \in BOOLEAN :
                 Put(n, short, white) /\ phase' = "text"
      BY <3>1, <3>2, PutInv
    <3>3. CASE phase' \in {"text", "done"} /\ UNCHANGED budgetVars
      BY <3>3, BudgetStays
    <3>4. CASE DropSection /\ phase' = "text"
      BY <3>4, DropSectionInv
    <3> QED BY <1>3, <3>2, <3>3, <3>4 DEF UseFetch
  <2> QED BY <2>1, <2>2
<1>4. CASE Collect
  <2>1. BodyInv' /\ ExecInv' /\ phase' = phase
    BY <1>4, BodyStays, ExecStays DEF Collect
  <2>2. MaxText \in Nat /\ MaxWrap \in Nat
    BY BudgetAssumption
  <2>3. CASE \E n \in 0 .. MaxText, short \in Shortfalls, white \in BOOLEAN : Put(n, short, white)
    <3>1. 0 .. MaxText \subseteq Nat
      BY <2>2
    <3> QED BY <2>1, <2>3, <3>1, PutInv
  <2>4. CASE StopWhenSpent
    <3>1. 0 \in Shortfalls /\ 1 \in Nat /\ TRUE \in BOOLEAN
      BY <2>2 DEF Shortfalls, Rune
    <3> QED BY <2>1, <2>4, <3>1, PutInv DEF StopWhenSpent
  <2>5. CASE \E h, s \in 0 .. MaxWrap, e \in 0 .. Extra : OpenSection(h, s, e)
    <3>1. 0 .. MaxWrap \subseteq Nat
      BY <2>2
    <3> QED BY <2>1, <2>5, <3>1, OpenSectionInv
  <2>6. CASE \E h \in 0 .. MaxWrap : ~plain /\ OpenSection(h, Notice, 0)
    <3>1. 0 .. MaxWrap \subseteq Nat /\ Notice \in Nat /\ 0 \in 0 .. Extra
      BY <2>2, BudgetAssumption DEF Extra
    <3> QED BY <2>1, <2>6, <3>1, OpenSectionInv
  <2>7. CASE \E e \in 0 .. Extra, short \in Shortfalls : CloseSection(e, short)
    BY <2>1, <2>7, CloseSectionInv
  <2>8. CASE \E n \in 0 .. MaxWrap, short \in Shortfalls : CopySection(n, short)
    <3>1. 0 .. MaxWrap \subseteq Nat
      BY <2>2
    <3> QED BY <2>1, <2>8, <3>1, CopySectionInv
  <2> QED BY <1>4, <2>3, <2>4, <2>5, <2>6, <2>7, <2>8 DEF Collect
<1>5. CASE RunExec
  <2>1. BodyInv' /\ BudgetInv' /\ phase' = phase
    BY <1>5, BodyStays, BudgetStays DEF RunExec
  <2>2. 1 .. MaxOutput \subseteq Nat \ {0}
    BY ExecAssumption
  <2>3. ExecInv'
    BY <1>5, <2>2, StreamWriteInv, FinishInv DEF RunExec
  <2> QED BY <2>1, <2>3
<1>6. CASE Return
  BY <1>6, BodyStays, ExecStays, BudgetStays DEF Return
<1>7. CASE UNCHANGED vars
  BY <1>7, BodyStays, ExecStays, BudgetStays DEF vars
<1> QED BY <1>1, <1>2, <1>3, <1>4, <1>5, <1>6, <1>7 DEF Next

\* The inductive invariant.
LEMMA PathInvariant == Spec => []PathInv
BY PathInitInv, PathNextInv, PTL DEF Spec

-----------------------------------------------------------------------------
(* What follows. *)

\* Every variable of the path has its type, whatever readers and limits do.
THEOREM PathTypeCorrect == Spec => []TypeOK
<1>1. PathInv => TypeOK
  BY DEF PathInv, TypeOK, BudgetInv, BodyInv, ExecInv
<1> QED BY <1>1, PathInvariant, PTL

\* limitedBody never passes off a response over the cap as complete, and what is
\* complete has every byte.
THEOREM WholeResponses == Spec => []CompleteMeansWhole
<1>1. PathInv => CompleteMeansWhole
  BY DEF PathInv, BodyInv, BodyTypeOK, CompleteMeansWhole
<1> QED BY <1>1, PathInvariant, PTL

\* limitedBody refuses a response only for a byte over the cap, or a reader that
\* stopped.
THEOREM RefusedForTheByteOver == Spec => []TooLargeMeansLonger
<1>1. PathInv => TooLargeMeansLonger
  BY DEF PathInv, BodyInv, TooLargeMeansLonger
<1> QED BY <1>1, PathInvariant, PTL

\* fail and Close close a body once between them.
THEOREM BodyClosedOnce == Spec => []ClosedOnce
<1>1. PathInv => ClosedOnce
  BY DEF PathInv, BodyInv, ClosedOnce
<1> QED BY <1>1, PathInvariant, PTL

\* The two streams of an exec share one limit.
THEOREM ExecSharesLimit == Spec => []ExecWithinLimit
<1>1. PathInv => ExecWithinLimit
  BY DEF PathInv, ExecInv, ExecWithinLimit
<1> QED BY <1>1, PathInvariant, PTL

\* pods_exec returns everything, or says that it does not.
THEOREM ExecTellsTheTruth == Spec => []ExecOutputIsHonest
<1>1. PathInv => ExecOutputIsHonest
  <2> SUFFICES ASSUME PathInv PROVE ExecOutputIsHonest
    OBVIOUS
  <2>1. cutOff => kept # produced
    <3> SUFFICES ASSUME cutOff PROVE kept # produced
      OBVIOUS
    <3>1. PICK s \in Streams : kept[s] < produced[s]
      BY DEF PathInv, ExecInv
    <3>2. kept[s] \in Nat
      BY DEF PathInv, ExecInv, ExecTypeOK
    <3> QED BY <3>1, <3>2
  <2> QED BY <2>1 DEF PathInv, ExecInv, ExecOutputIsHonest
<1> QED BY <1>1, PathInvariant, PTL

\* No text built under the budget is rejected by overResultLimit, whatever bytes it
\* is made of.
THEOREM BuiltTextIsAccepted == Spec => []NeverRejected
<1>1. PathInv => NeverRejected
  <2> SUFFICES ASSUME PathInv, maxResult # 0
               PROVE  assistant + builder[1].len
                        <= Notice + (IF assistant > maxResult THEN assistant ELSE maxResult)
    BY DEF NeverRejected
  <2>1. 1 \in Depths /\ Notice \in Nat
    BY BudgetAssumption DEF Depths
  <2>2. maxResult \in Nat /\ assistant \in Nat /\ Sound(builder[1])
    BY <2>1 DEF PathInv, BudgetInv, BudgetTypeOK
  <2>3. /\ builder[1].len \in Nat /\ builder[1].limit \in Nat
        /\ builder[1].state \in {"open", "cut", "roomless"}
    BY <2>2, Fields DEF Sound
  <2>4. CASE maxResult > assistant
    <3>1. builder[1].limit = maxResult - assistant /\ builder[1].state # "roomless"
      BY <2>4 DEF PathInv, BudgetInv
    <3>2. builder[1].len <= builder[1].limit + Notice
      BY <2>1, <2>2, <2>3, <2>4, <3>1 DEF Sound
    <3> QED BY <2>1, <2>2, <2>3, <2>4, <3>1, <3>2
  <2>5. CASE ~(maxResult > assistant)
    <3>1. builder[1].len = 0
      BY <2>2, <2>5 DEF PathInv, BudgetInv, Sound
    <3> QED BY <2>1, <2>2, <2>5, <3>1
  <2> QED BY <2>4, <2>5
<1> QED BY <1>1, PathInvariant, PTL

\* In a call whose texts are plain, a text that was cut says so once, at every
\* depth.
THEOREM CutSaysSoOnce == Spec => []OneNotice
<1>1. PathInv => OneNotice
  <2> SUFFICES ASSUME PathInv, plain, NEW i \in 1 .. depth
               PROVE  builder[i].notices = (IF builder[i].state = "cut" THEN 1 ELSE 0)
    BY DEF OneNotice
  <2>1. i \in Depths
    BY BudgetAssumption DEF PathInv, BudgetInv, BudgetTypeOK, Depths
  <2>2. Marked(builder[i])
    BY <2>1 DEF PathInv, BudgetInv
  <2> QED BY <2>2 DEF Marked
<1> QED BY <1>1, PathInvariant, PTL

\* What CutReachesParent says of one step.
CutStep ==
  plain /\ depth' < depth /\ Truncated(builder[depth]) /\ builder'[depth'] # builder[depth']
    => Truncated(builder'[depth'])

\* A section that is committed or dropped: the parent is what BackTo puts there.
LEMMA BackToParent ==
  ASSUME BudgetInv, depth > 1, NEW b, BackTo(b)
  PROVE  depth' = depth - 1 /\ builder'[depth'] = b
<1>1. depth \in Depths /\ depth - 1 \in Depths /\ depth # depth - 1
  BY BudgetAssumption DEF BudgetInv, BudgetTypeOK, Depths
<1>2. builder \in [Depths -> Builders]
  BY DEF BudgetInv, BudgetTypeOK
<1> QED BY <1>1, <1>2 DEF BackTo

\* One step of the path.
LEMMA CutStepHolds ==
  ASSUME PathInv, [Next]_vars
  PROVE  CutStep
<1>0. BudgetInv /\ depth \in Nat
  BY BudgetAssumption DEF PathInv, BudgetInv, BudgetTypeOK, Depths
<1>1. CASE ~(plain /\ depth' < depth)
  BY <1>1 DEF CutStep
<1>2. CASE DropSection
  <2>1. depth > 1 /\ BackTo(builder[depth - 1])
    BY <1>2 DEF DropSection
  <2>2. depth' = depth - 1 /\ builder'[depth'] = builder[depth - 1]
    BY <1>0, <2>1, BackToParent
  <2> QED BY <2>2 DEF CutStep
<1>3. CASE \E e \in 0 .. Extra, short \in Shortfalls : CloseSection(e, short)
  <2>1. PICK e \in 0 .. Extra, short \in Shortfalls : CloseSection(e, short)
    BY <1>3
  <2> DEFINE w == CommitScratch(builder[depth - 1], wrap[depth] + e, builder[depth], short)
  <2>2. depth > 1 /\ e \in 0 .. spare[depth] /\ BackTo(w)
    BY <2>1 DEF CloseSection
  <2>3. plain /\ Truncated(builder[depth]) => w = builder[depth - 1] \/ Truncated(w)
    BY <1>0, <2>2, CloseSectionCommits
  <2> HIDE DEF w
  <2>4. depth' = depth - 1 /\ builder'[depth'] = w
    BY <1>0, <2>2, BackToParent
  <2> QED BY <2>3, <2>4 DEF CutStep
<1>4. plain /\ depth' < depth => DropSection \/ \E e \in 0 .. Extra, short \in Shortfalls : CloseSection(e, short)
  <2>1. UNCHANGED budgetVars => ~(depth' < depth)
    BY <1>0 DEF budgetVars
  <2>2. ASSUME NEW n, NEW short, NEW white, Put(n, short, white) PROVE ~(depth' < depth)
    BY <1>0, <2>2 DEF Put
  <2>3. ASSUME NEW h, NEW s, NEW e, OpenSection(h, s, e) PROVE ~(depth' < depth)
    BY <1>0, <2>3 DEF OpenSection
  <2>4. StopWhenSpent => ~(depth' < depth)
    BY <2>2 DEF StopWhenSpent
  <2>5. CASE StartFetch \/ Fetch \/ RunExec \/ Return \/ UNCHANGED vars
    BY <2>1, <2>5 DEF StartFetch, Fetch, RunExec, Return, vars
  <2>6. CASE UseFetch
    BY <2>1, <2>2, <2>6 DEF UseFetch
  <2>7. ASSUME NEW n, NEW short, CopySection(n, short) PROVE ~plain
    BY <2>7 DEF CopySection
  <2>8. CASE Collect
    BY <2>2, <2>3, <2>4, <2>7, <2>8 DEF Collect
  <2> QED BY <2>5, <2>6, <2>8 DEF Next
<1> QED BY <1>1, <1>2, <1>3, <1>4

\* WriteCut and CommitScratch, in a call whose texts are plain: the cut of a
\* section is the cut of its parent.
THEOREM CutIsCarriedUp == Spec => CutReachesParent
<1>1. PathInv /\ [Next]_vars => [CutStep]_budgetVars
  BY CutStepHolds
<1>2. CutReachesParent <=> [][CutStep]_budgetVars
  BY DEF CutReachesParent, CutStep
<1> QED BY <1>1, <1>2, PathInvariant, PTL DEF Spec

\* limitedBody: for every body, cap and way of reading, the consumer is told the
\* truth and the body is closed once.
THEOREM HonestResponses == Spec => []ResponseIsHonest
BY WholeResponses, RefusedForTheByteOver, BodyClosedOnce, PTL DEF ResponseIsHonest

\* PodsExec, for every interleaving of the two streams.
THEOREM HonestExec == Spec => []ExecIsHonest
BY ExecSharesLimit, ExecTellsTheTruth, PTL DEF ExecIsHonest

\* BuilderWithBudget, at every depth of nesting: accepted whatever the bytes are,
\* and one notice when the texts are plain.
THEOREM BudgetIsAlwaysKept == Spec => []BudgetIsKept
BY BuiltTextIsAccepted, CutSaysSoOnce, PTL DEF BudgetIsKept

-----------------------------------------------------------------------------
(* What a handler holds.  Held is defined by recursion on the depth; both that it *)
(* exists and its bound go by the least depth where they would fail.             *)

\* Every nonempty set of natural numbers has a least one.
LEMMA LeastNumber ==
  ASSUME NEW T, T \subseteq Nat, T # {}
  PROVE  \E x \in T : \A y \in T : x <= y
<1> DEFINE R == OpToRel(<, Nat)
<1>1. IsWellFoundedOn(R, Nat)
  BY NatLessThanWellFounded
<1>2. \A x, y \in Nat : x < y => <<x, y>> \in R
  BY DEF OpToRel
<1> HIDE DEF R
<1>3. PICK x \in T : \A y \in T : ~ (<<y, x>> \in R)
  BY <1>1, WFMin
<1>4. \A y \in T : ~ (y < x)
  BY <1>2, <1>3
<1> QED
  BY <1>4

\* The running sums of f exist.
LEMMA SumsExist ==
  ASSUME NEW f, NEW n \in Nat
  PROVE  \E g : g = [i \in 0 .. n |-> IF i = 0 THEN 0 ELSE g[i - 1] + f[i]]
<1> DEFINE P(m) == \E g : g = [i \in 0 .. m |-> IF i = 0 THEN 0 ELSE g[i - 1] + f[i]]
           Bad == {m \in Nat : ~P(m)}
<1>1. P(0)
  <2> DEFINE g == [i \in 0 .. 0 |-> 0]
  <2>1. g = [i \in 0 .. 0 |-> IF i = 0 THEN 0 ELSE g[i - 1] + f[i]]
    OBVIOUS
  <2> QED
    BY <2>1
<1>2. ASSUME NEW m \in Nat, P(m) PROVE P(m + 1)
  <2>1. PICK g : g = [i \in 0 .. m |-> IF i = 0 THEN 0 ELSE g[i - 1] + f[i]]
    BY <1>2
  <2> DEFINE h == [i \in 0 .. m + 1 |-> IF i = m + 1 THEN g[m] + f[m + 1] ELSE g[i]]
  <2>2. ASSUME NEW i \in 0 .. m + 1
        PROVE  h[i] = IF i = 0 THEN 0 ELSE h[i - 1] + f[i]
    <3>1. CASE i = m + 1
      BY <3>1
    <3>2. CASE i # m + 1
      <4>1. i \in 0 .. m /\ h[i] = g[i]
        BY <3>2
      <4>2. g[i] = IF i = 0 THEN 0 ELSE g[i - 1] + f[i]
        BY <2>1, <4>1
      <4>3. i # 0 => h[i - 1] = g[i - 1]
        BY <4>1
      <4> QED
        BY <4>1, <4>2, <4>3
    <3> QED
      BY <3>1, <3>2
  <2>3. h = [i \in 0 .. m + 1 |-> IF i = 0 THEN 0 ELSE h[i - 1] + f[i]]
    BY <2>2
  <2> QED
    BY <2>3
<1> HIDE DEF P
<1>3. SUFFICES ASSUME ~P(n) PROVE FALSE
  BY DEF P
<1>4. Bad \subseteq Nat /\ Bad # {}
  BY <1>3
<1>5. PICK m \in Bad : \A k \in Bad : m <= k
  BY <1>4, LeastNumber
<1>6. m \in Nat /\ ~P(m) /\ m # 0
  BY <1>1, <1>5
<1>7. m - 1 \in Nat /\ m - 1 \notin Bad
  BY <1>5, <1>6
<1>8. P((m - 1) + 1)
  BY <1>2, <1>7
<1> QED
  BY <1>6, <1>8

\* Held is the running sum it is defined to be.
LEMMA HeldSums ==
  Held = [i \in 0 .. MaxDepth |-> IF i = 0 THEN 0 ELSE Held[i - 1] + builder[i].len]
<1> DEFINE f == [i \in Depths |-> builder[i].len]
           S(g) == g = [i \in 0 .. MaxDepth |-> IF i = 0 THEN 0 ELSE g[i - 1] + builder[i].len]
<1>1. MaxDepth \in Nat
  BY BudgetAssumption
<1>2. PICK g : g = [i \in 0 .. MaxDepth |-> IF i = 0 THEN 0 ELSE g[i - 1] + f[i]]
  BY <1>1, SumsExist
<1>3. ASSUME NEW i \in 0 .. MaxDepth
      PROVE  g[i] = IF i = 0 THEN 0 ELSE g[i - 1] + builder[i].len
  <2>1. g[i] = IF i = 0 THEN 0 ELSE g[i - 1] + f[i]
    BY <1>2
  <2>2. i # 0 => f[i] = builder[i].len
    BY <1>1 DEF Depths
  <2> QED
    BY <2>1, <2>2
<1>4. S(g)
  BY <1>2, <1>3
<1>5. Held = CHOOSE h : S(h)
  BY DEF Held
<1> HIDE DEF S
<1>6. S(Held)
  BY <1>4, <1>5, Zenon
<1> QED
  BY <1>6 DEF S

\* What the texts above a scratch hold leaves room for it.
LEMMA HeldLeavesRoom ==
  ASSUME BudgetInv, maxResult # 0, maxResult > assistant, NEW k \in 1 .. depth
  PROVE  Held[k - 1] \in Nat /\ builder[k].limit # 0 /\ Held[k - 1] + builder[k].limit <= maxResult
<1> DEFINE P(i) == Held[i - 1] \in Nat /\ builder[i].limit # 0 /\ Held[i - 1] + builder[i].limit <= maxResult
           Bad == {i \in 1 .. depth : ~P(i)}
<1>1. /\ MaxDepth \in Nat \ {0} /\ depth \in 1 .. MaxDepth /\ maxResult \in Nat /\ assistant \in Nat
      /\ wrap \in [1 .. MaxDepth -> Nat] /\ spare \in [1 .. MaxDepth -> 0 .. 1]
  BY BudgetAssumption DEF BudgetInv, BudgetTypeOK, Depths, Extra
<1>2. \A i \in 0 .. MaxDepth : Held[i] = IF i = 0 THEN 0 ELSE Held[i - 1] + builder[i].len
  BY HeldSums
<1>3. \A i \in 1 .. MaxDepth : Sound(builder[i]) /\ builder[i].limit \in Nat /\ builder[i].len \in Nat
  BY Fields DEF BudgetInv, Depths, Sound
<1>4. P(1)
  <2>1. Held[0] = 0
    BY <1>1, <1>2
  <2>2. builder[1].limit = maxResult - assistant
    BY DEF BudgetInv
  <2> QED
    BY <1>1, <2>1, <2>2
<1>5. ASSUME NEW i \in 1 .. depth, i > 1, P(i - 1) PROVE P(i)
  <2> DEFINE a == builder[i - 1]
  <2>1. i - 1 \in 1 .. MaxDepth /\ i \in 1 .. MaxDepth /\ i \in 2 .. depth
    BY <1>1, <1>5
  <2>2. Sound(a) /\ a.limit # 0 /\ a.limit \in Nat /\ a.len \in Nat /\ builder[i].limit \in Nat
    BY <1>3, <1>5, <2>1
  <2>3. ~Truncated(a) /\ Capped(a)
    BY <2>1, <2>2 DEF BudgetInv, Capped
  <2>4. builder[i].limit # 0 /\ builder[i].limit + (wrap[i] + spare[i]) = Remaining(a)
    BY <2>1, <2>3 DEF BudgetInv
  <2>5. Remaining(a) = a.limit - a.len
    BY <2>2, <2>3, RemainingOfSound
  <2>6. wrap[i] \in Nat /\ spare[i] \in Nat
    BY <1>1, <2>1
  <2>7. Held[i - 1] = Held[i - 2] + a.len
    BY <1>1, <1>2, <2>1
  <2>8. Held[i - 2] \in Nat /\ Held[i - 2] + a.limit <= maxResult
    BY <1>5
  <2> HIDE DEF a
  <2>9. Held[i - 1] \in Nat
    BY <2>2, <2>7, <2>8
  <2>10. Held[i - 1] + builder[i].limit <= maxResult
    <3>1. maxResult \in Nat
      BY <1>1
    <3>2. builder[i].limit <= a.limit - a.len
      BY <2>2, <2>4, <2>5, <2>6
    <3> QED
      BY <2>2, <2>7, <2>8, <3>1, <3>2
  <2> QED
    BY <2>4, <2>9, <2>10
<1> HIDE DEF P
<1>6. SUFFICES ASSUME ~P(k) PROVE FALSE
  BY DEF P
<1>7. Bad \subseteq Nat /\ Bad # {}
  BY <1>1, <1>6
<1>8. PICK i \in Bad : \A j \in Bad : i <= j
  BY <1>7, LeastNumber
<1>9. i \in 1 .. depth /\ i > 1 /\ ~P(i)
  BY <1>4, <1>8
<1>10. i - 1 \in 1 .. depth /\ i - 1 \notin Bad
  <2>1. i \in Nat /\ depth \in Nat /\ i - 1 \in 1 .. depth /\ ~(i <= i - 1)
    BY <1>1, <1>9
  <2> QED
    BY <1>8, <2>1
<1> QED
  BY <1>5, <1>9, <1>10

\* For every limit and every nesting of sections, what a handler holds at any time
\* is bounded by the two limits.
THEOREM HandlersHoldLittle == Spec => []RetentionIsBounded
<1>1. PathInv => RetentionIsBounded
  <2>1. SUFFICES ASSUME PathInv, maxResult # 0, cap # 0 \/ phase # "fetch"
                 PROVE  Held[depth] <= maxResult + Notice /\ (phase = "fetch" => got <= cap)
    BY DEF RetentionIsBounded
  <2>2. phase = "fetch" => got <= cap
    BY <2>1 DEF PathInv, BodyInv
  <2>3. /\ BudgetInv /\ MaxDepth \in Nat \ {0} /\ depth \in 1 .. MaxDepth /\ Notice \in Nat
        /\ maxResult \in Nat /\ assistant \in Nat
    <3>1. BudgetInv
      BY <2>1 DEF PathInv
    <3> QED
      BY <3>1, BudgetAssumption DEF BudgetInv, BudgetTypeOK, Depths
  <2>4. \A i \in 0 .. MaxDepth : Held[i] = IF i = 0 THEN 0 ELSE Held[i - 1] + builder[i].len
    BY HeldSums
  <2>5. /\ Sound(builder[depth]) /\ builder[depth].limit \in Nat /\ builder[depth].len \in Nat
        /\ builder[depth].state \in {"open", "cut", "roomless"}
    BY <2>3, Fields DEF BudgetInv, Depths, Sound
  <2>6. CASE maxResult > assistant
    <3>1. /\ Held[depth - 1] \in Nat /\ builder[depth].limit # 0
          /\ Held[depth - 1] + builder[depth].limit <= maxResult
      BY <2>1, <2>3, <2>6, HeldLeavesRoom
    <3>2. builder[depth].len <= builder[depth].limit + Notice
      BY <2>3, <2>5, <3>1 DEF Sound
    <3>3. Held[depth] = Held[depth - 1] + builder[depth].len
      BY <2>3, <2>4
    <3> QED
      BY <2>2, <2>3, <2>5, <3>1, <3>2, <3>3
  <2>7. CASE ~(maxResult > assistant)
    <3>1. builder[1].state = "roomless"
      BY <2>1, <2>3, <2>7 DEF BudgetInv
    <3>2. depth = 1
      <4>1. 2 \in 2 .. depth => ~Truncated(builder[2 - 1])
        BY <2>3 DEF BudgetInv
      <4> QED
        BY <2>3, <3>1, <4>1 DEF Truncated
    <3>3. builder[1].len = 0
      BY <2>5, <3>1, <3>2 DEF Sound
    <3>4. Held[0] = 0 /\ Held[1] = Held[0] + builder[1].len
      BY <2>3, <2>4
    <3> QED
      BY <2>2, <2>3, <3>2, <3>3, <3>4
  <2> QED
    BY <2>6, <2>7
<1> QED BY <1>1, PathInvariant, PTL
=============================================================================
