----------------------- MODULE CategorizationProofs ------------------------
(* For any transactions, texts, rules, answers of the model and bounds: the   *)
(* categories' state is well typed, a category that the user chose stays, and *)
(* the prompts about the rows of one statement stay within the cap.           *)
EXTENDS Categorization, FiniteSetTheorems, WellFoundedInduction, TLAPS

-----------------------------------------------------------------------------
\* Numbers and sizes.

\* A set of natural numbers that is not empty has a least element.
LEMMA LeastNat ==
  ASSUME NEW T, T \subseteq Nat, T # {}
  PROVE  \E x \in T : \A y \in T : x <= y
<1> DEFINE R == OpToRel(<, Nat)
<1>1. IsWellFoundedOn(R, Nat)
  BY NatLessThanWellFounded
<1>2. \A x, y \in Nat : y < x => <<y, x>> \in R
  BY DEF OpToRel
<1> HIDE DEF R
<1>3. PICK x \in T : \A y \in T : ~ (<<y, x>> \in R)
  BY <1>1, WFMin
<1>4. \A y \in T : ~ (y < x)
  BY <1>2, <1>3
<1> QED
  BY <1>4

\* A finite set without one of its members.
LEMMA Smaller ==
  ASSUME NEW S, IsFiniteSet(S), NEW x \in S
  PROVE  /\ IsFiniteSet(S \ {x})
         /\ Cardinality(S) \in Nat /\ Cardinality(S \ {x}) \in Nat
         /\ Cardinality(S \ {x}) = Cardinality(S) - 1
         /\ Cardinality(S) > 0
<1>1. IsFiniteSet(S \ {x}) /\ Cardinality(S \ {x}) = Cardinality(S) - 1
  BY FS_RemoveElement
<1>2. Cardinality(S) \in Nat /\ Cardinality(S \ {x}) \in Nat
  BY <1>1, FS_CardinalityType
<1> QED
  BY <1>1, <1>2

-----------------------------------------------------------------------------
(* Rows, written as a whole or by the columns that changed.                  *)

LEMMA Constants ==
  /\ Unknown \in Categories /\ "self_transfer" \in Categories /\ NoValue \in Categories
  /\ Slugs \subseteq Categories
  /\ \A t \in Txns : Default[t] \in Categories /\ Fit[t] \subseteq Slugs
  /\ \A text \in Texts : RuleSays[text] \in Slugs \cup {NoValue}
  /\ Blank \in Texts /\ Txns \subseteq Nat
  /\ NoValue \notin Slugs /\ NoValue \notin Texts
  /\ NoValue # "manual" /\ NoValue # "pending" /\ NoValue # "notified" /\ NoValue # "llm"
  /\ NoValue # "self_transfer"
BY CategorizationAssumption DEF Categories

LEMMA RowFields ==
  ASSUME NEW r \in CatRow
  PROVE  /\ r.text \in Texts /\ r.method \in Methods /\ r.category \in Categories
         /\ r.read \in Texts \cup {NoValue} /\ r.vocab \in Nat
         /\ r.review \in {NoValue, "pending", "notified", "resolved"}
         /\ r.tries \in Nat /\ r.told \in BOOLEAN
         /\ DOMAIN r = {"text", "method", "category", "read", "vocab", "review", "tries", "told"}
BY DEF CatRow

(* A flush writes the columns that the session changed.                      *)
LEMMA FlushIsRow ==
  ASSUME NEW now \in CatRow, NEW seen \in CatRow, NEW new \in CatRow
  PROVE  LET f == Flushed(now, seen, new) IN
         /\ f \in CatRow
         /\ f.text = IF new.text = seen.text THEN now.text ELSE new.text
         /\ f.method = IF new.method = seen.method THEN now.method ELSE new.method
         /\ f.category = IF new.category = seen.category THEN now.category ELSE new.category
         /\ f.told = IF new.told = seen.told THEN now.told ELSE new.told
<1> DEFINE f == Flushed(now, seen, new)
<1>1. DOMAIN now = {"text", "method", "category", "read", "vocab", "review", "tries", "told"}
  BY RowFields
<1>2. f = [k \in {"text", "method", "category", "read", "vocab", "review", "tries", "told"} |->
             IF new[k] = seen[k] THEN now[k] ELSE new[k]]
  BY <1>1 DEF Flushed
<1> HIDE DEF f
<1>3. f = [text |-> f.text, method |-> f.method, category |-> f.category, read |-> f.read,
           vocab |-> f.vocab, review |-> f.review, tries |-> f.tries, told |-> f.told]
  BY <1>2
<1>4. /\ f.text = IF new.text = seen.text THEN now.text ELSE new.text
      /\ f.method = IF new.method = seen.method THEN now.method ELSE new.method
      /\ f.category = IF new.category = seen.category THEN now.category ELSE new.category
      /\ f.read = IF new.read = seen.read THEN now.read ELSE new.read
  BY <1>2
<1>5. /\ f.vocab = IF new.vocab = seen.vocab THEN now.vocab ELSE new.vocab
      /\ f.review = IF new.review = seen.review THEN now.review ELSE new.review
      /\ f.tries = IF new.tries = seen.tries THEN now.tries ELSE new.tries
      /\ f.told = IF new.told = seen.told THEN now.told ELSE new.told
  BY <1>2
<1>6. /\ f.text \in Texts /\ f.method \in Methods /\ f.category \in Categories
      /\ f.read \in Texts \cup {NoValue} /\ f.vocab \in Nat
      /\ f.review \in {NoValue, "pending", "notified", "resolved"}
      /\ f.tries \in Nat /\ f.told \in BOOLEAN
  BY <1>4, <1>5, RowFields
<1>7. f \in CatRow
  BY <1>3, <1>6 DEF CatRow
<1> QED
  BY <1>4, <1>5, <1>7 DEF f

(* A rule's verdict, a mark and the user's word on a row.                    *)
LEMMA RuledIsRow ==
  ASSUME CatTypeOK, NEW r \in CatRow, NEW slug \in Categories
  PROVE  /\ Ruled(r, slug) \in CatRow
         /\ Ruled(r, slug).told = r.told /\ Ruled(r, slug).method = "rule"
         /\ Ruled(r, slug).text = r.text
<1>1. vocab.cached \in Nat /\ r.text \in Texts
  BY RowFields DEF CatTypeOK
<1>2. "rule" \in Methods
  BY DEF Methods
<1> DEFINE v == vocab.cached
           n == [r EXCEPT !.category = slug, !.method = "rule", !.read = r.text, !.vocab = v, !.review = NoValue]
<1>3. Ruled(r, slug) = n
  BY DEF Ruled
<1>4. v \in Nat
  BY <1>1
<1> HIDE DEF v
<1>5. n \in CatRow
  BY <1>1, <1>2, <1>4 DEF CatRow
<1>6. n.told = r.told /\ n.method = "rule" /\ n.text = r.text
  BY DEF CatRow
<1> HIDE DEF n
<1> QED
  BY <1>3, <1>5, <1>6

LEMMA MarkedIsRow ==
  ASSUME NEW r \in CatRow
  PROVE  /\ Marked(r) \in CatRow /\ Marked(r).told = TRUE
         /\ Marked(r).method = r.method /\ Marked(r).category = r.category
<1> DEFINE k == r.tries + 1
           n == [r EXCEPT !.review = "notified", !.told = TRUE, !.tries = k]
<1>1. Marked(r) = n
  BY DEF Marked
<1>2. k \in Nat
  BY RowFields
<1> HIDE DEF k
<1>3. n \in CatRow
  BY <1>2 DEF CatRow
<1>4. n.told = TRUE
  BY Zenon DEF CatRow
<1>5. n.method = r.method /\ n.category = r.category
  BY DEF CatRow
<1> HIDE DEF n
<1> QED
  BY <1>1, <1>3, <1>4, <1>5

LEMMA TriesIsRow ==
  ASSUME NEW r \in CatRow, NEW n \in Nat
  PROVE  LET s == [r EXCEPT !.tries = n] IN
         s \in CatRow /\ s.told = r.told /\ s.method = r.method /\ s.category = r.category
BY DEF CatRow

LEMMA RuleForIsSlug ==
  ASSUME NEW t, NEW seen \in CatRow
  PROVE  RuleFor(t, seen) \in Slugs \cup {NoValue, "self_transfer"}
BY Constants, RowFields DEF RuleFor

(* Where the cycle is, is told by cycle.at.                                  *)
LEMMA CycleAt ==
  ASSUME CatTypeOK
  PROVE  /\ cycle.at = "model" => cycle \in AtModel
         /\ cycle.at = "rules" => \E S \in SUBSET Txns : cycle \in AtRules(S)
         /\ cycle.at = "prompts" => \E S \in SUBSET Txns : cycle \in AtPrompts(S)
<1>1. Rest.at = "rest" /\ (cycle \in AtModel => cycle.at = "model")
  BY DEF Rest, AtModel
<1>2. \A S : (cycle \in AtRules(S) => cycle.at = "rules") /\ (cycle \in AtPrompts(S) => cycle.at = "prompts")
  BY DEF AtRules, AtPrompts
<1> QED
  BY <1>1, <1>2 DEF CatTypeOK

-----------------------------------------------------------------------------
(* What each step does to the rows. The rest of the type follows.            *)

(* The types of all but the rows and the cycle. *)
Others ==
  /\ mode \in Modes
  /\ decision \in [Txns -> {NoValue} \cup Decision]
  /\ vocab \in [stored : Nat, cached : Nat]
  /\ enrich \in {NoValue} \cup [row : Txns, seen : CatRow, text : Texts]
  /\ hand \in [Txns -> Slugs \cup {NoValue}]
  /\ crossed \subseteq Txns
  /\ spent \in [Uploads -> Nat]

CycleOK ==
  \/ cycle = Rest \/ cycle \in AtModel
  \/ \E S \in SUBSET Txns : cycle \in AtRules(S) \/ cycle \in AtPrompts(S)

LEMMA PairIsRows ==
  ASSUME NEW t, NEW text
  PROVE  Pair(t, text) \subseteq Txns \ {t}
BY DEF Pair

LEMMA RuleReadTyped ==
  ASSUME CatTypeOK, RuleRead
  PROVE  CatTypeOK'
<1> DEFINE S == {x \in Txns : row[x].method = NoValue}
           c == [at |-> "rules", seen |-> [t \in S |-> row[t]]]
<1>1. c \in AtRules(S) /\ S \in SUBSET Txns
  BY DEF AtRules, CatTypeOK
<1>2. cycle' = c
  BY DEF RuleRead
<1> HIDE DEF S, c
<1>3. CycleOK'
  BY <1>1, <1>2 DEF CycleOK, AtRules
<1> QED
  BY <1>3 DEF RuleRead, CatTypeOK, Others, CycleOK

LEMMA ByRulesIsRow ==
  ASSUME CatTypeOK, NEW t, NEW seen \in CatRow
  PROVE  /\ ByRules(t, seen) \in CatRow /\ ByRules(t, seen).told = seen.told
<1> DEFINE n == [seen EXCEPT !.method = "pending_llm", !.read = seen.text, !.vocab = vocab.cached]
<1>1. vocab.cached \in Nat /\ seen.text \in Texts /\ "pending_llm" \in Methods
  BY RowFields DEF CatTypeOK, Methods
<1>2. n \in CatRow /\ n.told = seen.told
  BY <1>1 DEF CatRow
<1>3. RuleFor(t, seen) # NoValue => RuleFor(t, seen) \in Categories
  BY RuleForIsSlug, Constants
<1>4. RuleFor(t, seen) # NoValue =>
        Ruled(seen, RuleFor(t, seen)) \in CatRow /\ Ruled(seen, RuleFor(t, seen)).told = seen.told
  BY <1>3, RuledIsRow
<1> HIDE DEF n
<1> QED
  BY <1>2, <1>4 DEF ByRules, n

LEMMA RuleCommitRows ==
  ASSUME CatTypeOK, RuleCommit
  PROVE  /\ row' \in [Txns -> CatRow]
         /\ \A x \in Txns : row'[x].told = row[x].told
         /\ \A x \in Txns : x \notin DOMAIN cycle.seen \cup SweptPairs => row'[x] = row[x]
<1>1. PICK S \in SUBSET Txns : cycle \in AtRules(S)
  BY CycleAt DEF RuleCommit
<1>2. DOMAIN cycle.seen = S /\ \A t \in S : cycle.seen[t] \in CatRow
  BY <1>1 DEF AtRules
<1>3. ASSUME NEW x \in Txns
      PROVE  /\ row'[x] \in CatRow /\ row'[x].told = row[x].told
             /\ x \notin DOMAIN cycle.seen \cup SweptPairs => row'[x] = row[x]
  <2>0. row[x] \in CatRow
    BY DEF CatTypeOK
  <2>1. CASE x \in S
    <3>1. row'[x] = Flushed(row[x], cycle.seen[x], ByRules(x, cycle.seen[x]))
      BY <1>2, <2>1 DEF RuleCommit
    <3>2. cycle.seen[x] \in CatRow
      BY <1>2, <2>1
    <3> QED
      BY <1>2, <2>0, <2>1, <3>1, <3>2, ByRulesIsRow, FlushIsRow
  <2>2. CASE x \notin S /\ x \in SweptPairs
    <3>1. row'[x] = Ruled(row[x], "self_transfer")
      BY <1>2, <2>2 DEF RuleCommit
    <3> QED
      BY <2>0, <2>2, <3>1, RuledIsRow, Constants
  <2>3. CASE x \notin S /\ x \notin SweptPairs
    <3>1. row'[x] = row[x]
      BY <1>2, <2>3 DEF RuleCommit
    <3> QED
      BY <2>0, <3>1
  <2> QED
    BY <2>1, <2>2, <2>3
<1>4. row' = [x \in Txns |-> row'[x]]
  BY DEF RuleCommit
<1> QED
  BY <1>3, <1>4

LEMMA RuleCommitTyped ==
  ASSUME CatTypeOK, RuleCommit
  PROVE  CatTypeOK'
<1>1. SweptPairs \subseteq Txns
  BY PairIsRows DEF SweptPairs
<1>2. decision' \in [Txns -> {NoValue} \cup Decision]
  BY DEF RuleCommit, CatTypeOK
<1>3. Others'
  BY <1>1, <1>2 DEF RuleCommit, CatTypeOK, Others
<1> DEFINE todo == {t \in Txns : NeedsWork(row'[t])}
           c == [at |-> "model", todo |-> todo, doing |-> NoValue, failures |-> 0]
<1>4. c \in AtModel
  BY DEF AtModel
<1>5. cycle' = c
  BY DEF RuleCommit
<1>6. CycleOK'
  <2> HIDE DEF c
  <2> QED
    BY <1>4, <1>5 DEF CycleOK, AtModel
<1> QED
  BY <1>3, <1>6, RuleCommitRows DEF CatTypeOK, Others, CycleOK

(* The sweep by the model, one row after another. *)
LEMMA ModelAt ==
  ASSUME CatTypeOK, cycle.at = "model"
  PROVE  /\ cycle \in AtModel /\ cycle.todo \subseteq Txns /\ cycle.failures \in Nat
         /\ cycle.doing # NoValue => /\ cycle.doing.row \in Txns /\ cycle.doing.seen \in CatRow
                                     /\ cycle.doing.rule \in Slugs \cup {NoValue, "self_transfer"}
<1>1. cycle \in AtModel
  BY CycleAt
<1>2. cycle.todo \in SUBSET Txns /\ cycle.failures \in Nat /\ cycle.doing \in {NoValue} \cup Asking
  BY <1>1 DEF AtModel
<1> QED
  BY <1>1, <1>2 DEF Asking

LEMMA DoneIsModel ==
  ASSUME CatTypeOK, cycle.at = "model", NEW t, NEW failures \in Nat, Done(t, failures)
  PROVE  CycleOK' /\ cycle'.at = "model" /\ cycle'.doing = NoValue
<1>1. cycle \in AtModel
  BY ModelAt
<1>2. cycle' \in AtModel /\ cycle'.at = "model" /\ cycle'.doing = NoValue
  BY <1>1 DEF AtModel, Done
<1> QED
  BY <1>2 DEF CycleOK, AtModel

LEMMA MinIsIn ==
  ASSUME NEW S \in SUBSET Txns, S # {}
  PROVE  Min(S) \in S
<1>1. \E x \in S : \A y \in S : x <= y
  BY Constants, LeastNat
<1> QED
  BY <1>1 DEF Min

(* The next row in its turn. *)
LEMMA TakeRow ==
  ASSUME CatTypeOK, LlmTake
  PROVE  \E t \in cycle.todo :
           \/ ~NeedsLlm(row[t]) /\ Done(t, cycle.failures)
           \/ /\ NeedsLlm(row[t])
              /\ cycle' = [cycle EXCEPT !.doing = [row |-> t, seen |-> row[t], rule |-> RuleFor(t, row[t])]]
<1>1. Min(cycle.todo) \in cycle.todo
  BY ModelAt, MinIsIn DEF LlmTake
<1> QED
  BY <1>1 DEF LlmTake

LEMMA LlmTakeTyped ==
  ASSUME CatTypeOK, LlmTake
  PROVE  CatTypeOK'
<1>1. PICK t \in cycle.todo :
           \/ Done(t, cycle.failures)
           \/ cycle' = [cycle EXCEPT !.doing = [row |-> t, seen |-> row[t], rule |-> RuleFor(t, row[t])]]
  BY TakeRow
<1>2. cycle.at = "model" /\ cycle \in AtModel /\ cycle.failures \in Nat /\ t \in Txns
  BY ModelAt DEF LlmTake
<1> DEFINE d == [row |-> t, seen |-> row[t], rule |-> RuleFor(t, row[t])]
<1>3. d \in Asking
  <2>1. row[t] \in CatRow /\ RuleFor(t, row[t]) \in Slugs \cup {NoValue, "self_transfer"}
    BY <1>2, RuleForIsSlug DEF CatTypeOK
  <2> QED
    BY <1>2, <2>1 DEF Asking
<1>4. CASE cycle' = [cycle EXCEPT !.doing = d]
  <2> HIDE DEF d
  <2>1. cycle' \in AtModel
    BY <1>2, <1>3, <1>4 DEF AtModel
  <2> QED
    BY <2>1 DEF LlmTake, CatTypeOK, Others, CycleOK, AtModel
<1>5. CASE Done(t, cycle.failures)
  BY <1>2, <1>5, DoneIsModel DEF LlmTake, CatTypeOK, CycleOK
<1> QED
  BY <1>1, <1>4, <1>5

LEMMA LlmRuleRows ==
  ASSUME CatTypeOK, LlmRule
  PROVE  /\ row' \in [Txns -> CatRow]
         /\ \A x \in Txns : row'[x].told = row[x].told
         /\ \A x \in Txns : x \notin {cycle.doing.row} \cup RulePairs(cycle.doing) => row'[x] = row[x]
<1> DEFINE d == cycle.doing
<1>1. d.row \in Txns /\ d.seen \in CatRow /\ d.rule \in Slugs \cup {NoValue, "self_transfer"}
  BY ModelAt DEF LlmRule
<1>2. ByRuleOrBlank(d) \in CatRow /\ ByRuleOrBlank(d).told = d.seen.told
  <2>1. CASE d.rule # NoValue
    BY <1>1, <2>1, RuledIsRow, Constants DEF ByRuleOrBlank
  <2>2. CASE d.rule = NoValue
    <3> DEFINE r == Ruled(d.seen, Unknown)
    <3>1. r \in CatRow /\ r.told = d.seen.told
      BY <1>1, RuledIsRow, Constants
    <3>2. ByRuleOrBlank(d) = [r EXCEPT !.method = "llm"]
      BY <2>2 DEF ByRuleOrBlank
    <3> HIDE DEF r
    <3>3. "llm" \in Methods
      BY DEF Methods
    <3>4. [r EXCEPT !.method = "llm"] \in CatRow /\ [r EXCEPT !.method = "llm"].told = r.told
      BY <3>1, <3>3 DEF CatRow
    <3> QED
      BY <3>1, <3>2, <3>4
  <2> QED
    BY <2>1, <2>2
<1>5. d.row \notin RulePairs(d)
  BY PairIsRows DEF RulePairs
<1>3. ASSUME NEW x \in Txns
      PROVE  /\ row'[x] \in CatRow /\ row'[x].told = row[x].told
             /\ x \notin {d.row} \cup RulePairs(d) => row'[x] = row[x]
  <2>0. row[x] \in CatRow
    BY DEF CatTypeOK
  <2>1. CASE x = d.row
    <3>1. row'[x] = Flushed(row[x], d.seen, ByRuleOrBlank(d))
      BY <1>5, <2>1 DEF LlmRule
    <3> QED
      BY <1>1, <1>2, <2>0, <2>1, <3>1, FlushIsRow
  <2>2. CASE x # d.row /\ x \in RulePairs(d)
    <3>1. row'[x] = Ruled(row[x], "self_transfer")
      BY <2>2 DEF LlmRule
    <3> QED
      BY <2>0, <2>2, <3>1, RuledIsRow, Constants
  <2>3. CASE x # d.row /\ x \notin RulePairs(d)
    <3>1. row'[x] = row[x]
      BY <2>3 DEF LlmRule
    <3> QED
      BY <2>0, <3>1
  <2> QED
    BY <2>1, <2>2, <2>3
<1>4. row' = [x \in Txns |-> row'[x]]
  BY DEF LlmRule
<1> QED
  BY <1>3, <1>4

LEMMA LlmRuleTyped ==
  ASSUME CatTypeOK, LlmRule
  PROVE  CatTypeOK'
<1>1. RulePairs(cycle.doing) \subseteq Txns
  BY PairIsRows DEF RulePairs
<1>2. decision' \in [Txns -> {NoValue} \cup Decision]
  BY DEF LlmRule, CatTypeOK
<1>3. Others'
  BY <1>1, <1>2 DEF LlmRule, CatTypeOK, Others
<1> QED
  BY <1>3, LlmRuleRows, DoneIsModel DEF LlmRule, CatTypeOK, Others, CycleOK

(* An answer of the model settles a row, or asks the user about it. *)
LEMMA OfferIsDecision ==
  ASSUME NEW t \in Txns, NEW answer \in Verdicts, NEW text \in Texts
  PROVE  Offer(t, answer, text) \in Decision
<1>1. answer.options \cap Fit[t] \in SUBSET Slugs
  BY Constants
<1>2. (IF answer.slug \in Fit[t] THEN answer.slug
       ELSE IF answer.sure /\ answer.slug # NeedsReview THEN Default[t] ELSE NoValue) \in Categories
  BY Constants
<1> QED
  BY <1>1, <1>2 DEF Offer, Decision

LEMMA AnsweredTyped ==
  ASSUME CatTypeOK, NEW t \in Txns, NEW answer \in Verdicts, Answered(t, answer)
  PROVE  /\ row' \in [Txns -> CatRow] /\ decision' \in [Txns -> {NoValue} \cup Decision]
         /\ \A x \in Txns : row'[x].told = row[x].told
         /\ \A x \in Txns \ {t} : row'[x] = row[x]
<1> DEFINE r == row[t]
           cat == IF Settled(t, answer) THEN answer.slug ELSE Default[t]
           v == vocab.cached
           old == IF Unsent(decision[t]) THEN NoValue ELSE decision[t]
           told == r.review = "notified" /\ ~Unsent(decision[t])
           offer == Offer(t, answer, r.text)
           kept == SamePrompt(old, offer) /\ (told \/ ~old.lapsed)
           quiet == told /\ (decision[t] = NoValue \/ kept)
           new == [r EXCEPT !.method = "llm", !.read = r.text, !.vocab = v, !.category = cat]
           closed == [new EXCEPT !.review = NoValue]
           open == IF quiet THEN [new EXCEPT !.review = "notified"]
                            ELSE [new EXCEPT !.review = "pending", !.tries = 0]
           asked == IF kept THEN [old EXCEPT !.lapsed = FALSE] ELSE offer
<1>1. r \in CatRow /\ v \in Nat /\ "llm" \in Methods
  BY DEF CatTypeOK, Methods
<1>2. r.text \in Texts
  BY <1>1, RowFields
<1>3. cat \in Categories
  BY Constants DEF Settled
<1>4. \/ row' = [row EXCEPT ![t] = closed] /\ decision' = [decision EXCEPT ![t] = NoValue]
      \/ row' = [row EXCEPT ![t] = open] /\ decision' = [decision EXCEPT ![t] = asked]
  BY DEF Answered, Superseded
<1>5. new \in CatRow /\ new.told = r.told
  <2> HIDE DEF r, v, cat
  <2> QED
    BY <1>1, <1>2, <1>3 DEF CatRow
<1>6. closed \in CatRow /\ closed.told = r.told /\ open \in CatRow /\ open.told = r.told
  <2> HIDE DEF new, quiet
  <2>1. closed \in CatRow /\ closed.told = new.told
    BY <1>5 DEF CatRow
  <2>2. [new EXCEPT !.review = "notified"] \in CatRow /\ [new EXCEPT !.review = "notified"].told = new.told
    BY <1>5 DEF CatRow
  <2>3. /\ [new EXCEPT !.review = "pending", !.tries = 0] \in CatRow
        /\ [new EXCEPT !.review = "pending", !.tries = 0].told = new.told
    BY <1>5 DEF CatRow
  <2> QED
    BY <1>5, <2>1, <2>2, <2>3
<1>7. asked \in Decision
  <2>1. offer \in Decision
    BY <1>2, OfferIsDecision
  <2>2. kept => old \in Decision
    BY DEF SamePrompt, CatTypeOK
  <2> HIDE DEF offer, old, kept
  <2>3. kept => [old EXCEPT !.lapsed = FALSE] \in Decision
    BY <2>2 DEF Decision
  <2> QED
    BY <2>1, <2>3
<1> HIDE DEF closed, open, asked, r
<1>8. r.told = row[t].told
  BY DEF r
<1> QED
  BY <1>4, <1>6, <1>7, <1>8 DEF CatTypeOK

LEMMA LlmApplyRows ==
  ASSUME CatTypeOK, NEW answer \in Verdicts, LlmApply(answer)
  PROVE  /\ CatTypeOK' /\ cycle'.at = "model" /\ cycle'.doing = NoValue
         /\ \A x \in Txns : row'[x].told = row[x].told
         /\ \A x \in Txns : x # cycle.doing.row \/ ~SameAsAsked(row[x], cycle.doing.seen) => row'[x] = row[x]
<1>1. cycle.doing.row \in Txns /\ cycle.at = "model"
  BY ModelAt DEF LlmApply
<1>2. CycleOK' /\ cycle'.at = "model" /\ cycle'.doing = NoValue
  BY <1>1, DoneIsModel DEF LlmApply
<1>3. CASE SameAsAsked(row[cycle.doing.row], cycle.doing.seen)
  BY <1>1, <1>2, <1>3, AnsweredTyped DEF LlmApply, CatTypeOK, CycleOK
<1>4. CASE ~SameAsAsked(row[cycle.doing.row], cycle.doing.seen)
  BY <1>1, <1>2, <1>4 DEF LlmApply, CatTypeOK, CycleOK
<1> QED
  BY <1>3, <1>4

LEMMA LlmFailTyped ==
  ASSUME CatTypeOK, LlmFail
  PROVE  CatTypeOK' /\ cycle'.at = "model" /\ cycle'.doing = NoValue
<1>1. cycle \in AtModel /\ cycle.failures + 1 \in Nat
  BY ModelAt DEF LlmFail
<1>2. CASE Done(cycle.doing.row, cycle.failures + 1)
  BY <1>1, <1>2, DoneIsModel DEF LlmFail, CatTypeOK, CycleOK
<1>3. CASE cycle' = [cycle EXCEPT !.todo = {}, !.doing = NoValue]
  <2>1. cycle' \in AtModel /\ cycle'.at = "model" /\ cycle'.doing = NoValue
    BY <1>1, <1>3 DEF AtModel
  <2> QED
    BY <2>1 DEF LlmFail, CatTypeOK
<1> QED
  BY <1>2, <1>3 DEF LlmFail

-----------------------------------------------------------------------------
(* The prompts.                                                              *)

LEMMA PromptsAt ==
  ASSUME CatTypeOK, NEW S \in SUBSET Txns, cycle \in AtPrompts(S)
  PROVE  /\ cycle.at = "prompts" /\ cycle.todo \subseteq S /\ cycle.all = S
         /\ cycle.marks \subseteq S \X BOOLEAN
         /\ \A t \in S : cycle.seen[t] \in CatRow
BY DEF AtPrompts

LEMMA PromptsAre ==
  ASSUME CatTypeOK, cycle.at = "prompts"
  PROVE  \E S \in SUBSET Txns : cycle \in AtPrompts(S)
BY CycleAt

LEMMA NotifyReadTyped ==
  ASSUME CatTypeOK, NotifyRead
  PROVE  /\ CatTypeOK' /\ cycle'.at = "prompts" /\ cycle'.marks = {}
         /\ \E waiting \in {{t \in Txns : Waiting(row[t])}} :
              /\ cycle'.todo = Prompted(waiting)
              /\ cycle'.seen = [t \in Prompted(waiting) |-> row[t]]
<1> DEFINE waiting == {t \in Txns : Waiting(row[t])}
           over == {ImportOf[t] : t \in waiting \ Prompted(waiting)}
<1>1. Prompted(waiting) \subseteq Txns
  BY DEF Prompted
<1>2. over \subseteq Sources
  BY DEF Sources, Uploads
<1> DEFINE c(P) == [at |-> "prompts", todo |-> P, all |-> P, marks |-> {}, failed |-> {},
                    over |-> over, seen |-> [t \in P |-> row[t]]]
<1>3. cycle' = c(Prompted(waiting))
  BY DEF NotifyRead
<1>4. PICK P \in SUBSET Txns : P = Prompted(waiting)
  BY <1>1
<1> HIDE DEF waiting, over
<1>5. c(P) \in AtPrompts(P)
  BY <1>2, <1>4 DEF AtPrompts, CatTypeOK
<1>6. /\ c(P).at = "prompts" /\ c(P).marks = {} /\ c(P).todo = P
      /\ c(P).seen = [t \in P |-> row[t]]
  OBVIOUS
<1> HIDE DEF c
<1>7. CycleOK'
  BY <1>3, <1>4, <1>5 DEF CycleOK, AtPrompts
<1>8. CatTypeOK'
  BY <1>7 DEF NotifyRead, CatTypeOK, CycleOK
<1> QED
  BY <1>3, <1>4, <1>6, <1>8 DEF waiting

(* The record of a prompt that was passed. *)
LEMMA PastIsPrompts ==
  ASSUME CatTypeOK, NEW S \in SUBSET Txns, cycle \in AtPrompts(S), NEW t \in S, NEW delivered
  PROVE  LET p == Past(t, delivered) IN
         /\ p \in AtPrompts(S) /\ p.todo = cycle.todo \ {t} /\ p.marks = cycle.marks
         /\ p.seen = cycle.seen /\ p.at = "prompts"
<1>1. ImportOf[t] \in Sources
  BY DEF Sources, Uploads
<1> DEFINE failed == IF delivered THEN cycle.failed ELSE cycle.failed \cup {ImportOf[t]}
           todo == cycle.todo \ {t}
<1>2. failed \in SUBSET Sources /\ todo \in SUBSET S
  BY <1>1 DEF AtPrompts
<1>3. Past(t, delivered) = [cycle EXCEPT !.todo = todo, !.failed = failed]
  BY DEF Past
<1> HIDE DEF failed, todo
<1>4. LET p == [cycle EXCEPT !.todo = todo, !.failed = failed] IN
      /\ p \in AtPrompts(S) /\ p.todo = todo /\ p.marks = cycle.marks
      /\ p.seen = cycle.seen /\ p.at = "prompts"
  BY <1>2 DEF AtPrompts
<1> QED
  BY <1>3, <1>4 DEF todo

LEMMA NotifyPlainTyped ==
  ASSUME CatTypeOK, NEW sent \in BOOLEAN, NotifyPlain(sent)
  PROVE  /\ CatTypeOK' /\ cycle'.at = "prompts" /\ cycle'.seen = cycle.seen
         /\ \E t \in cycle.todo : /\ cycle'.todo = cycle.todo \ {t}
                                  /\ cycle'.marks = cycle.marks \cup {<<t, sent>>}
<1>1. PICK S \in SUBSET Txns : cycle \in AtPrompts(S)
  BY PromptsAre DEF NotifyPlain
<1>2. PICK t \in cycle.todo : cycle' = [Past(t, sent) EXCEPT !.marks = @ \cup {<<t, sent>>}]
  BY <1>1, PromptsAt, MinIsIn DEF NotifyPlain
<1>3. t \in S /\ cycle.marks \subseteq S \X BOOLEAN
  BY <1>1, PromptsAt
<1> DEFINE p == Past(t, sent)
           marks == p.marks \cup {<<t, sent>>}
<1>4. /\ p \in AtPrompts(S) /\ p.todo = cycle.todo \ {t} /\ p.marks = cycle.marks
      /\ p.seen = cycle.seen /\ p.at = "prompts"
  BY <1>1, <1>3, PastIsPrompts
<1>5. marks \in SUBSET (S \X BOOLEAN) /\ marks = cycle.marks \cup {<<t, sent>>}
  BY <1>3, <1>4
<1>6. cycle' = [p EXCEPT !.marks = marks]
  BY <1>2
<1> HIDE DEF p, marks
<1>7. /\ cycle' \in AtPrompts(S) /\ cycle'.todo = p.todo /\ cycle'.marks = marks
      /\ cycle'.seen = p.seen /\ cycle'.at = "prompts"
  BY <1>4, <1>5, <1>6 DEF AtPrompts
<1>8. CycleOK'
  BY <1>7 DEF CycleOK, AtPrompts
<1>9. CatTypeOK'
  BY <1>8 DEF NotifyPlain, CatTypeOK, CycleOK
<1> QED
  BY <1>4, <1>5, <1>7, <1>9

LEMMA QueueTyped ==
  ASSUME CatTypeOK, Queue
  PROVE  CatTypeOK'
<1>1. PICK S \in SUBSET Txns : cycle \in AtPrompts(S)
  BY PromptsAre DEF Queue
<1>2. PICK t \in cycle.todo :
       \/ decision' = [decision EXCEPT ![t] = [read |-> row[t].read, options |-> {}, proposed |-> NoValue,
                                               lapsed |-> FALSE, delivery |-> "pending", sends |-> 0]]
       \/ /\ decision[t] # NoValue
          /\ decision' = [decision EXCEPT ![t].delivery = "pending"]
  BY <1>1, PromptsAt, MinIsIn DEF Queue
<1>3. t \in Txns /\ row[t] \in CatRow
  BY <1>1, PromptsAt DEF CatTypeOK
<1> DEFINE d == [read |-> row[t].read, options |-> {}, proposed |-> NoValue,
                 lapsed |-> FALSE, delivery |-> "pending", sends |-> 0]
           e == [decision[t] EXCEPT !.delivery = "pending"]
<1>4. d \in Decision
  BY <1>3, RowFields, Constants DEF Decision
<1>5. decision[t] # NoValue => e \in Decision
  BY <1>3 DEF CatTypeOK, Decision
<1>6. decision' \in [Txns -> {NoValue} \cup Decision]
  <2> HIDE DEF d, e
  <2>1. decision' = [decision EXCEPT ![t] = d] \/ (decision[t] # NoValue /\ decision' = [decision EXCEPT ![t] = e])
    BY <1>2 DEF d, e
  <2> QED
    BY <1>3, <1>4, <1>5, <2>1 DEF CatTypeOK
<1> QED
  BY <1>6 DEF Queue, CatTypeOK

LEMMA AttemptTyped ==
  ASSUME CatTypeOK, NEW t \in Txns, NEW sent \in BOOLEAN, Attempt(t, sent)
  PROVE  decision' \in [Txns -> {NoValue} \cup Decision]
<1> DEFINE n == decision[t].sends + 1
           how == CASE sent -> "delivered"
                    [] ~sent /\ decision[t].sends + 1 >= MaxSends -> "abandoned"
                    [] OTHER -> decision[t].delivery
           e == [decision[t] EXCEPT !.sends = n, !.delivery = how]
<1>1. decision[t] \in Decision
  BY DEF Attempt, CatTypeOK
<1>2. n \in Nat /\ how \in {"none", "pending", "delivered", "abandoned"}
  BY <1>1 DEF Decision
<1>3. decision' = [decision EXCEPT ![t] = e]
  BY <1>1 DEF Attempt, CatTypeOK
<1>4. e \in Decision
  <2> HIDE DEF n, how
  <2> QED
    BY <1>1, <1>2 DEF Decision
<1> QED
  BY <1>3, <1>4 DEF CatTypeOK

(* A row that is marked, or whose failures are counted. *)
KeptBut(x) == row'[x].method = row[x].method /\ row'[x].category = row[x].category

LEMMA MarkRow ==
  ASSUME CatTypeOK, NEW t \in Txns, row' = [row EXCEPT ![t] = Marked(row[t])]
  PROVE  /\ row' \in [Txns -> CatRow] /\ row'[t].told = TRUE
         /\ \A x \in Txns : KeptBut(x) /\ (x # t => row'[x] = row[x])
<1>1. row[t] \in CatRow
  BY DEF CatTypeOK
<1> QED
  BY <1>1, MarkedIsRow DEF KeptBut, CatTypeOK

LEMMA CountTries ==
  ASSUME CatTypeOK, NEW t \in Txns, NEW n \in Nat, row' = [row EXCEPT ![t].tries = n]
  PROVE  /\ row' \in [Txns -> CatRow]
         /\ \A x \in Txns : KeptBut(x) /\ row'[x].told = row[x].told
<1>1. row[t] \in CatRow
  BY DEF CatTypeOK
<1> DEFINE r == [row[t] EXCEPT !.tries = n]
<1>2. r \in CatRow /\ r.told = row[t].told /\ r.method = row[t].method /\ r.category = row[t].category
  BY <1>1, TriesIsRow
<1>3. row' = [row EXCEPT ![t] = r]
  BY <1>1 DEF CatTypeOK
<1> HIDE DEF r
<1> QED
  BY <1>2, <1>3 DEF KeptBut, CatTypeOK

LEMMA RowsStay ==
  ASSUME CatTypeOK, row' = row
  PROVE  row' \in [Txns -> CatRow] /\ \A x \in Txns : KeptBut(x) /\ row'[x].told = row[x].told
BY DEF KeptBut, CatTypeOK

LEMMA NotifyDurableTyped ==
  ASSUME CatTypeOK, NEW sent \in BOOLEAN, NotifyDurable(sent)
  PROVE  /\ CatTypeOK' /\ cycle'.at = "prompts"
         /\ cycle'.seen = cycle.seen /\ cycle'.marks = cycle.marks
         /\ \A x \in Txns : KeptBut(x)
         /\ \E t \in cycle.todo :
              /\ cycle'.todo = cycle.todo \ {t}
              /\ \A x \in Txns \ {t} : row'[x].told = row[x].told
              /\ \/ row'[t].told = row[t].told /\ spent' = spent
                 \/ row'[t].told = TRUE /\ spent' = Counted(t, 1)
<1>1. PICK S \in SUBSET Txns : cycle \in AtPrompts(S)
  BY PromptsAre DEF NotifyDurable
<1>2. PICK t \in cycle.todo :
        /\ Attempt(t, sent) /\ cycle' = Past(t, sent)
        /\ \/ row' = [row EXCEPT ![t].tries = cycle.seen[t].tries + 1] /\ spent' = spent
           \/ row' = [row EXCEPT ![t] = Marked(row[t])] /\ spent' = Counted(t, 1)
           \/ row' = row /\ spent' = spent
  <2>1. Min(cycle.todo) \in cycle.todo
    BY <1>1, PromptsAt, MinIsIn DEF NotifyDurable
  <2> QED
    BY <2>1 DEF NotifyDurable
<1>3. t \in S /\ t \in Txns
  BY <1>1, PromptsAt
<1>4. /\ cycle' \in AtPrompts(S) /\ cycle'.todo = cycle.todo \ {t} /\ cycle'.marks = cycle.marks
      /\ cycle'.seen = cycle.seen /\ cycle'.at = "prompts"
  BY <1>1, <1>2, <1>3, PastIsPrompts
<1>5. cycle.seen[t].tries + 1 \in Nat
  BY <1>1, <1>3, PromptsAt, RowFields
<1>6. row' \in [Txns -> CatRow] /\ \A x \in Txns : KeptBut(x)
  BY <1>2, <1>3, <1>5, MarkRow, CountTries, RowsStay
<1>7. /\ \A x \in Txns \ {t} : row'[x].told = row[x].told
      /\ \/ row'[t].told = row[t].told /\ spent' = spent
         \/ row'[t].told = TRUE /\ spent' = Counted(t, 1)
  BY <1>2, <1>3, <1>5, MarkRow, CountTries, RowsStay
<1>8. spent' \in [Uploads -> Nat]
  <2>1. ImportOf[t] # NoValue => ImportOf[t] \in Uploads
    BY <1>3 DEF Uploads
  <2>2. Counted(t, 1) \in [Uploads -> Nat]
    BY <2>1 DEF Counted, CatTypeOK
  <2> QED
    BY <1>2, <2>2 DEF CatTypeOK
<1>9. CycleOK'
  BY <1>4 DEF CycleOK, AtPrompts
<1>10. decision' \in [Txns -> {NoValue} \cup Decision]
  BY <1>2, <1>3, AttemptTyped
<1>11. CatTypeOK'
  BY <1>6, <1>8, <1>9, <1>10 DEF NotifyDurable, CatTypeOK, CycleOK
<1> QED
  BY <1>4, <1>6, <1>7, <1>11

LEMMA NotifySkipTyped ==
  ASSUME CatTypeOK, NotifySkip
  PROVE  /\ CatTypeOK' /\ cycle'.at = "prompts"
         /\ cycle'.seen = cycle.seen /\ cycle'.marks = cycle.marks
         /\ \A x \in Txns : KeptBut(x) /\ row'[x].told = row[x].told
         /\ \E t \in cycle.todo : cycle'.todo = cycle.todo \ {t}
<1>1. PICK S \in SUBSET Txns : cycle \in AtPrompts(S)
  BY PromptsAre DEF NotifySkip
<1>2. PICK t \in cycle.todo :
        /\ cycle' = Past(t, FALSE) \/ cycle' = Past(t, TRUE)
        /\ row' = [row EXCEPT ![t].tries = cycle.seen[t].tries + 1] \/ row' = row
  <2>1. Min(cycle.todo) \in cycle.todo
    BY <1>1, PromptsAt, MinIsIn DEF NotifySkip
  <2> QED
    BY <2>1 DEF NotifySkip
<1>3. t \in S /\ t \in Txns
  BY <1>1, PromptsAt
<1>4. /\ cycle' \in AtPrompts(S) /\ cycle'.todo = cycle.todo \ {t} /\ cycle'.marks = cycle.marks
      /\ cycle'.seen = cycle.seen /\ cycle'.at = "prompts"
  <2>1. CASE cycle' = Past(t, FALSE)
    BY <1>1, <1>3, <2>1, PastIsPrompts
  <2>2. CASE cycle' = Past(t, TRUE)
    BY <1>1, <1>3, <2>2, PastIsPrompts
  <2> QED
    BY <1>2, <2>1, <2>2
<1>5. cycle.seen[t].tries + 1 \in Nat
  BY <1>1, <1>3, PromptsAt, RowFields
<1>6. row' \in [Txns -> CatRow] /\ \A x \in Txns : KeptBut(x) /\ row'[x].told = row[x].told
  BY <1>2, <1>3, <1>5, CountTries, RowsStay
<1>7. CycleOK'
  BY <1>4 DEF CycleOK, AtPrompts
<1>8. CatTypeOK'
  BY <1>6, <1>7 DEF NotifySkip, CatTypeOK, CycleOK
<1> QED
  BY <1>4, <1>6, <1>8

LEMMA ResendTyped ==
  ASSUME CatTypeOK, NEW t \in Txns, NEW sent \in BOOLEAN, Resend(t, sent)
  PROVE  /\ CatTypeOK' /\ cycle' = cycle /\ cycle.at = "rest"
         /\ \A x \in Txns : /\ KeptBut(x)
                            /\ row[x].told = TRUE => row'[x].told = TRUE
<1>1. row' = [row EXCEPT ![t] = Marked(row[t])] \/ row' = row
  BY DEF Resend
<1>2. row' \in [Txns -> CatRow] /\ \A x \in Txns : KeptBut(x)
  BY <1>1, MarkRow, RowsStay
<1>3. \A x \in Txns : row[x].told = TRUE => row'[x].told = TRUE
  BY <1>1, MarkRow, RowsStay
<1>4. decision' \in [Txns -> {NoValue} \cup Decision]
  BY AttemptTyped DEF Resend
<1>5. CatTypeOK'
  BY <1>2, <1>4 DEF Resend, CatTypeOK
<1> QED
  BY <1>2, <1>3, <1>5 DEF Resend

(* A mark on a row read earlier changes no verdict. *)
LEMMA MarkOfRow ==
  ASSUME CatTypeOK, NEW S \in SUBSET Txns, cycle \in AtPrompts(S), NEW t \in Txns
  PROVE  /\ MarkOf(t) \in CatRow
         /\ MarkOf(t).method = row[t].method /\ MarkOf(t).category = row[t].category
         /\ row[t].told = TRUE => MarkOf(t).told = TRUE
         /\ <<t, TRUE>> \in cycle.marks /\ cycle.seen[t].told # TRUE => MarkOf(t).told = TRUE
<1>0. row[t] \in CatRow
  BY DEF CatTypeOK
<1>1. <<t, TRUE>> \in cycle.marks \/ <<t, FALSE>> \in cycle.marks => cycle.seen[t] \in CatRow
  BY PromptsAt
<1>2. CASE <<t, TRUE>> \in cycle.marks
  <2> DEFINE seen == cycle.seen[t]
             m == Marked(seen)
  <2>1. MarkOf(t) = Flushed(row[t], seen, m)
    BY <1>2 DEF MarkOf
  <2>2. seen \in CatRow
    BY <1>1, <1>2
  <2>3. m \in CatRow /\ m.told = TRUE /\ m.method = seen.method /\ m.category = seen.category
    BY <2>2, MarkedIsRow
  <2> HIDE DEF seen, m
  <2>4. /\ MarkOf(t) \in CatRow
        /\ MarkOf(t).method = row[t].method /\ MarkOf(t).category = row[t].category
        /\ MarkOf(t).told = IF m.told = seen.told THEN row[t].told ELSE m.told
    BY <1>0, <2>1, <2>2, <2>3, FlushIsRow
  <2>5. row[t].told = TRUE => MarkOf(t).told = TRUE
    BY <2>3, <2>4, Zenon
  <2>6. seen.told # TRUE => MarkOf(t).told = TRUE
    BY <2>3, <2>4, Zenon
  <2> QED
    BY <2>4, <2>5, <2>6 DEF seen
<1>3. CASE <<t, TRUE>> \notin cycle.marks /\ <<t, FALSE>> \in cycle.marks
  <2> DEFINE n == cycle.seen[t].tries + 1
  <2>1. MarkOf(t) = [row[t] EXCEPT !.tries = n]
    BY <1>3 DEF MarkOf
  <2>2. n \in Nat
    BY <1>1, <1>3, RowFields
  <2> HIDE DEF n
  <2>3. /\ MarkOf(t) \in CatRow /\ MarkOf(t).told = row[t].told
        /\ MarkOf(t).method = row[t].method /\ MarkOf(t).category = row[t].category
    BY <1>0, <2>1, <2>2, TriesIsRow
  <2> QED
    BY <1>3, <2>3
<1>4. CASE <<t, TRUE>> \notin cycle.marks /\ <<t, FALSE>> \notin cycle.marks
  BY <1>0, <1>4 DEF MarkOf
<1> QED
  BY <1>2, <1>3, <1>4

LEMMA MarksAreFinite ==
  ASSUME CatTypeOK, NEW S \in SUBSET Txns, cycle \in AtPrompts(S), NEW u
  PROVE  IsFiniteSet(MarksOf(u)) /\ Cardinality(MarksOf(u)) \in Nat
<1>1. IsFiniteSet(Txns) /\ IsFiniteSet(BOOLEAN)
  <2>1. BOOLEAN = {TRUE, FALSE}
    OBVIOUS
  <2>2. IsFiniteSet({TRUE}) /\ {TRUE, FALSE} = {TRUE} \cup {FALSE}
    BY FS_Singleton
  <2>3. IsFiniteSet({TRUE} \cup {FALSE})
    BY <2>2, FS_AddElement
  <2> QED
    BY <2>1, <2>2, <2>3, CategorizationAssumption
<1>2. IsFiniteSet(Txns \X BOOLEAN)
  BY <1>1, FS_Product
<1>3. MarksOf(u) \subseteq Txns \X BOOLEAN
  BY PromptsAt DEF MarksOf
<1> QED
  BY <1>2, <1>3, FS_Subset, FS_CardinalityType

(* The end of the prompts. *)
LEMMA NotifyEndTyped ==
  ASSUME CatTypeOK, NEW sent \in BOOLEAN, NotifyEnd(sent)
  PROVE  /\ CatTypeOK' /\ cycle'.at = "rest"
         /\ \A x \in Txns : /\ KeptBut(x)
                            /\ row[x].told = TRUE => row'[x].told = TRUE
                            /\ <<x, TRUE>> \in cycle.marks /\ cycle.seen[x].told # TRUE => row'[x].told = TRUE
<1>1. PICK S \in SUBSET Txns : cycle \in AtPrompts(S)
  BY PromptsAre DEF NotifyEnd
<1>2. ASSUME NEW x \in Txns
      PROVE  /\ row'[x] \in CatRow /\ KeptBut(x)
             /\ row[x].told = TRUE => row'[x].told = TRUE
             /\ <<x, TRUE>> \in cycle.marks /\ cycle.seen[x].told # TRUE => row'[x].told = TRUE
  <2>0. row[x] \in CatRow
    BY DEF CatTypeOK
  <2>1. CASE x \in Summed /\ sent
    <3>1. row'[x] = Marked(row[x])
      BY <2>1 DEF NotifyEnd
    <3> QED
      BY <2>0, <3>1, MarkedIsRow DEF KeptBut
  <2>2. CASE x \in Summed /\ ~sent
    <3> DEFINE n == row[x].tries + 1
    <3>1. row'[x] = [row[x] EXCEPT !.tries = n]
      BY <2>2 DEF NotifyEnd
    <3>2. n \in Nat
      BY <2>0, RowFields
    <3> HIDE DEF n
    <3>3. row'[x] \in CatRow /\ KeptBut(x) /\ row'[x].told = row[x].told
      BY <2>0, <3>1, <3>2, TriesIsRow DEF KeptBut
    <3>4. <<x, TRUE>> \notin cycle.marks
      BY <1>1, <2>2, PromptsAt DEF Summed
    <3> QED
      BY <3>3, <3>4
  <2>3. CASE x \notin Summed
    <3>1. row'[x] = MarkOf(x)
      BY <2>3 DEF NotifyEnd
    <3> QED
      BY <1>1, <3>1, MarkOfRow DEF KeptBut
  <2> QED
    BY <2>1, <2>2, <2>3
<1>3. row' \in [Txns -> CatRow]
  <2>1. row' = [x \in Txns |-> row'[x]]
    BY DEF NotifyEnd
  <2> QED
    BY <1>2, <2>1
<1>4. spent' \in [Uploads -> Nat]
  <2>1. \A u \in Uploads : spent[u] + Cardinality(MarksOf(u)) \in Nat
    BY <1>1, MarksAreFinite DEF CatTypeOK
  <2> QED
    BY <2>1 DEF NotifyEnd
<1>5. vocab' \in [stored : Nat, cached : Nat]
  BY DEF NotifyEnd, CatTypeOK
<1>6. CatTypeOK' /\ cycle'.at = "rest"
  BY <1>3, <1>4, <1>5 DEF NotifyEnd, CatTypeOK, Rest
<1> QED
  BY <1>2, <1>6

-----------------------------------------------------------------------------
(* The user, what enriches a row, and crashes.                               *)

LEMMA ByHandRow ==
  ASSUME CatTypeOK, NEW t \in Txns, NEW slug \in Slugs \cup {NoValue}, ByHand(t, slug),
         UNCHANGED <<mode, vocab, cycle, enrich, spent>>
  PROVE  /\ CatTypeOK'
         /\ \A x \in Txns \ {t} : row'[x] = row[x]
         /\ row'[t].method = "manual" /\ row'[t].category = slug /\ row'[t].told = row[t].told
<1> DEFINE v == IF slug = NoValue THEN row[t].vocab ELSE vocab.stored
           n == [row[t] EXCEPT !.category = slug, !.method = "manual", !.review = "resolved", !.vocab = v]
<1>1. row[t] \in CatRow /\ v \in Nat /\ "manual" \in Methods /\ slug \in Categories
  BY RowFields, Constants DEF CatTypeOK, Methods
<1>2. row' = [row EXCEPT ![t] = n]
  BY <1>1 DEF ByHand, CatTypeOK
<1> HIDE DEF v
<1>3. n \in CatRow /\ n.method = "manual" /\ n.category = slug /\ n.told = row[t].told
  BY <1>1 DEF CatRow
<1> HIDE DEF n
<1>4. row' \in [Txns -> CatRow]
  BY <1>2, <1>3 DEF CatTypeOK
<1>5. decision' \in [Txns -> {NoValue} \cup Decision] /\ hand' \in [Txns -> Slugs \cup {NoValue}] /\ crossed' \subseteq Txns
  BY DEF ByHand, Superseded, CatTypeOK
<1>6. CatTypeOK'
  BY <1>4, <1>5 DEF CatTypeOK
<1> QED
  BY <1>2, <1>3, <1>6 DEF CatTypeOK

LEMMA LapseTyped ==
  ASSUME CatTypeOK, NEW t \in Txns, Lapse(t)
  PROVE  CatTypeOK'
<1>1. decision[t] \in Decision
  BY DEF Lapse, CatTypeOK
<1> DEFINE d == [decision[t] EXCEPT !.lapsed = TRUE]
<1>2. d \in Decision /\ decision' = [decision EXCEPT ![t] = d]
  BY <1>1 DEF Decision, Lapse
<1> HIDE DEF d
<1>3. decision' \in [Txns -> {NoValue} \cup Decision]
  BY <1>2 DEF CatTypeOK
<1> QED
  BY <1>3 DEF Lapse, CatTypeOK

LEMMA EnrichReadTyped ==
  ASSUME CatTypeOK, NEW t \in Txns, NEW text \in Texts, EnrichRead(t, text)
  PROVE  CatTypeOK'
<1>1. enrich' \in [row : Txns, seen : CatRow, text : Texts]
  BY DEF EnrichRead, CatTypeOK
<1> QED
  BY <1>1 DEF EnrichRead, CatTypeOK

LEMMA LearntIsRow ==
  ASSUME CatTypeOK, enrich # NoValue, NEW paired
  PROVE  /\ Learnt(paired) \in CatRow /\ Learnt(paired).told = enrich.seen.told
         /\ paired = {} /\ enrich.seen.method = "manual" =>
              /\ Learnt(paired).method = enrich.seen.method
              /\ Learnt(paired).category = enrich.seen.category
<1>1. enrich.seen \in CatRow /\ enrich.text \in Texts
  BY DEF CatTypeOK
<1> DEFINE text == enrich.text
           seen == enrich.seen
           l == [seen EXCEPT !.text = text]
           back == [l EXCEPT !.method = "pending_llm", !.review = NoValue]
<1>2. \/ paired # {} /\ Learnt(paired) = Ruled(l, "self_transfer")
      \/ paired = {} /\ GoesBack /\ Learnt(paired) = back
      \/ paired = {} /\ ~GoesBack /\ Learnt(paired) = l
  BY DEF Learnt
<1>3. seen.method = "llm" \/ ~GoesBack
  BY DEF GoesBack
<1>4. text \in Texts /\ seen \in CatRow
  BY <1>1
<1> HIDE DEF text, seen
<1>5. l \in CatRow /\ l.told = seen.told /\ l.method = seen.method /\ l.category = seen.category
  BY <1>4 DEF CatRow
<1> HIDE DEF l
<1>6. back \in CatRow /\ back.told = l.told
  <2>1. "pending_llm" \in Methods
    BY DEF Methods
  <2> QED
    BY <1>5, <2>1 DEF CatRow
<1>7. Ruled(l, "self_transfer") \in CatRow /\ Ruled(l, "self_transfer").told = l.told
  BY <1>5, RuledIsRow, Constants
<1> HIDE DEF back
<1>8. Learnt(paired) \in CatRow /\ Learnt(paired).told = seen.told
  BY <1>2, <1>5, <1>6, <1>7
<1>9. paired = {} /\ seen.method = "manual" => Learnt(paired) = l
  BY <1>2, <1>3
<1> QED
  BY <1>5, <1>8, <1>9 DEF seen

LEMMA EnrichWriteRows ==
  ASSUME CatTypeOK, NEW merge \in BOOLEAN, EnrichWrite(merge)
  PROVE  /\ row' \in [Txns -> CatRow]
         /\ enrich.row \in Txns /\ enrich.seen \in CatRow
         /\ \A x \in Txns : row'[x].told = row[x].told
         /\ \A x \in Txns : x \notin {enrich.row} \cup MergePairs(merge) => row'[x] = row[x]
         /\ MergePairs(merge) = {} /\ enrich.seen.method = "manual" => KeptBut(enrich.row)
<1>1. enrich.row \in Txns /\ enrich.seen \in CatRow
  BY DEF EnrichWrite, CatTypeOK
<1> DEFINE paired == MergePairs(merge)
           t == enrich.row
<1>2. Learnt(paired) \in CatRow /\ Learnt(paired).told = enrich.seen.told
  BY LearntIsRow DEF EnrichWrite
<1>3. t \notin paired /\ paired \subseteq Txns
  BY PairIsRows DEF MergePairs
<1>4. row' = [x \in Txns |->
       CASE x = t -> Flushed(row[x], enrich.seen, Learnt(paired))
         [] x \in paired -> Ruled(row[x], "self_transfer")
         [] OTHER -> row[x]]
  BY DEF EnrichWrite
<1> HIDE DEF paired, t
<1>5. ASSUME NEW x \in Txns
      PROVE  /\ row'[x] \in CatRow /\ row'[x].told = row[x].told
             /\ x \notin {t} \cup paired => row'[x] = row[x]
             /\ x = t => row'[x] = Flushed(row[x], enrich.seen, Learnt(paired))
  <2>0. row[x] \in CatRow
    BY DEF CatTypeOK
  <2>1. CASE x = t
    <3>1. row'[x] = Flushed(row[x], enrich.seen, Learnt(paired))
      BY <1>3, <1>4, <2>1
    <3> QED
      BY <1>1, <1>2, <2>0, <2>1, <3>1, FlushIsRow
  <2>2. CASE x # t /\ x \in paired
    <3>1. row'[x] = Ruled(row[x], "self_transfer")
      BY <1>4, <2>2
    <3> QED
      BY <2>0, <2>2, <3>1, RuledIsRow, Constants
  <2>3. CASE x # t /\ x \notin paired
    <3>1. row'[x] = row[x]
      BY <1>4, <2>3
    <3> QED
      BY <2>0, <2>3, <3>1
  <2> QED
    BY <2>1, <2>2, <2>3
<1>6. row' = [x \in Txns |-> row'[x]]
  BY <1>4
<1>7. ASSUME paired = {}, enrich.seen.method = "manual"
      PROVE  KeptBut(t)
  <2>1. /\ Learnt(paired).method = enrich.seen.method
        /\ Learnt(paired).category = enrich.seen.category
    BY <1>7, LearntIsRow DEF EnrichWrite
  <2>2. t \in Txns /\ row[t] \in CatRow
    BY <1>1 DEF t, CatTypeOK
  <2>3. row'[t] = Flushed(row[t], enrich.seen, Learnt(paired))
    BY <1>5, <2>2
  <2> QED
    BY <1>1, <1>2, <2>1, <2>2, <2>3, FlushIsRow DEF KeptBut
<1> QED
  BY <1>1, <1>5, <1>6, <1>7 DEF paired, t

LEMMA EnrichWriteTyped ==
  ASSUME CatTypeOK, NEW merge \in BOOLEAN, EnrichWrite(merge)
  PROVE  CatTypeOK'
<1>1. MergePairs(merge) \subseteq Txns
  BY PairIsRows DEF MergePairs
<1>2. decision' \in [Txns -> {NoValue} \cup Decision]
  BY DEF EnrichWrite, CatTypeOK
<1>3. crossed' \subseteq Txns
  BY <1>1, EnrichWriteRows DEF EnrichWrite, CatTypeOK
<1> QED
  BY <1>2, <1>3, EnrichWriteRows DEF EnrichWrite, CatTypeOK

LEMMA InitTyped ==
  ASSUME CatInit
  PROVE  CatTypeOK
<1>1. row \in [Txns -> CatRow]
  <2>1. PICK text \in FirstTexts :
       row = [t \in Txns |-> [text |-> text[t], method |-> NoValue, category |-> NoValue, read |-> NoValue, vocab |-> 0,
                              review |-> NoValue, tries |-> 0, told |-> FALSE]]
    BY DEF CatInit
  <2>2. \A t \in Txns : text[t] \in Texts
    BY CategorizationAssumption
  <2>3. NoValue \in Methods /\ NoValue \in Categories
    BY Constants DEF Methods
  <2>4. ASSUME NEW t \in Txns
        PROVE  [text |-> text[t], method |-> NoValue, category |-> NoValue, read |-> NoValue, vocab |-> 0,
                review |-> NoValue, tries |-> 0, told |-> FALSE] \in CatRow
    BY <2>2, <2>3 DEF CatRow
  <2> QED
    BY <2>1, <2>4
<1> QED
  BY <1>1 DEF CatInit, CatTypeOK

LEMMA NextTyped ==
  ASSUME CatTypeOK, [CatNext]_catVars
  PROVE  CatTypeOK'
<1>1. CASE Sweeps
  BY <1>1, RuleReadTyped, RuleCommitTyped, LlmTakeTyped, LlmRuleTyped, LlmFailTyped, LlmApplyRows,
     NotifyReadTyped, QueueTyped, NotifySkipTyped, NotifyPlainTyped, NotifyDurableTyped, NotifyEndTyped DEF Sweeps
<1>2. CASE \E t \in Txns, sent \in BOOLEAN : Resend(t, sent)
  BY <1>2, ResendTyped
<1>3. CASE \E t \in Txns, slug \in Slugs \cup {NoValue} : Assign(t, slug)
  BY <1>3, ByHandRow DEF Assign
<1>4. CASE \E t \in Txns, slug \in Slugs : TapOption(t, slug)
  BY <1>4, ByHandRow DEF TapOption
<1>5. CASE \E t \in Txns : Lapse(t)
  BY <1>5, LapseTyped
<1>6. CASE \E t \in Txns, text \in Texts : EnrichRead(t, text)
  BY <1>6, EnrichReadTyped
<1>7. CASE \E merge \in BOOLEAN : EnrichWrite(merge)
  BY <1>7, EnrichWriteTyped
<1>8. CASE NewCategory
  BY <1>8 DEF NewCategory, CatTypeOK
<1>9. CASE CycleCrash
  BY <1>9 DEF CycleCrash, CatTypeOK
<1>10. CASE UNCHANGED catVars
  BY <1>10 DEF catVars, CatTypeOK
<1> QED
  BY <1>1, <1>2, <1>3, <1>4, <1>5, <1>6, <1>7, <1>8, <1>9, <1>10 DEF CatNext

(* Rows, decisions and what the sweeps have read are always of the shapes    *)
(* that the code stores.                                                     *)
THEOREM CategoriesTypeCorrect == CatSpec => []CatTypeOK
<1>1. CatInit => CatTypeOK
  BY InitTyped
<1>2. CatTypeOK /\ [CatNext]_catVars => CatTypeOK'
  BY NextTyped
<1> QED
  BY <1>1, <1>2, PTL DEF CatSpec

-----------------------------------------------------------------------------
(* The user's choices. A row whose choice counts is kept by the method       *)
(* "manual". No writer at work has read such a row as anything else, or else *)
(* the row is not what it asks about any more.                               *)

Chosen(t) == hand[t] # NoValue /\ t \notin crossed

ChosenRows == \A t \in Txns : Chosen(t) => row[t].category = hand[t] /\ row[t].method = "manual"

RulesKeep == cycle.at = "rules" => \A t \in DOMAIN cycle.seen : ~Chosen(t)

ModelKeeps ==
  cycle.at = "model" /\ cycle.doing # NoValue =>
    /\ cycle.doing.seen.method # "manual"
    /\ NoModel(cycle.doing) => ~Chosen(cycle.doing.row)

EnrichKeeps == enrich # NoValue /\ Chosen(enrich.row) => enrich.seen.method = "manual"

KeptInv == CatTypeOK /\ ChosenRows /\ RulesKeep /\ ModelKeeps /\ EnrichKeeps

(* A step that makes no choice, and changes only rows with no choice to keep. *)
LEMMA ChoicesUntouched ==
  ASSUME KeptInv, hand' = hand, crossed \subseteq crossed',
         \A x \in Txns : Chosen(x) /\ x \notin crossed' => KeptBut(x)
  PROVE  ChosenRows' /\ \A x \in Txns : Chosen(x)' => Chosen(x)
<1>1. ASSUME NEW x \in Txns, Chosen(x)'
      PROVE  Chosen(x) /\ row'[x].category = hand'[x] /\ row'[x].method = "manual"
  <2>1. Chosen(x) /\ x \notin crossed'
    BY <1>1 DEF Chosen
  <2>2. row[x].category = hand[x] /\ row[x].method = "manual" /\ KeptBut(x)
    BY <2>1 DEF KeptInv, ChosenRows
  <2> QED
    BY <2>1, <2>2 DEF KeptBut
<1> QED
  BY <1>1 DEF ChosenRows

LEMMA EnrichUntouched ==
  ASSUME KeptInv, enrich' = enrich, \A x \in Txns : Chosen(x)' => Chosen(x)
  PROVE  EnrichKeeps'
<1>1. enrich # NoValue => enrich.row \in Txns
  BY DEF KeptInv, CatTypeOK
<1> QED
  BY <1>1 DEF KeptInv, EnrichKeeps, Chosen

LEMMA ElsewhereKeeps ==
  ASSUME cycle'.at \notin {"rules", "model"} \/ (cycle'.at = "model" /\ cycle'.doing = NoValue)
  PROVE  RulesKeep' /\ ModelKeeps'
BY DEF RulesKeep, ModelKeeps

LEMMA RuleReadKeeps ==
  ASSUME KeptInv, RuleRead
  PROVE  KeptInv'
<1>1. ChosenRows' /\ \A x \in Txns : Chosen(x)' => Chosen(x)
  BY ChoicesUntouched DEF RuleRead, KeptBut
<1>2. cycle'.at = "rules" /\ DOMAIN cycle'.seen = {x \in Txns : row[x].method = NoValue}
  BY DEF RuleRead
<1>3. \A x \in Txns : row[x].method = NoValue => ~Chosen(x)
  BY Constants DEF KeptInv, ChosenRows
<1>4. RulesKeep' /\ ModelKeeps'
  BY <1>1, <1>2, <1>3 DEF RulesKeep, ModelKeeps
<1> QED
  BY <1>1, <1>4, EnrichUntouched, RuleReadTyped DEF RuleRead, KeptInv

LEMMA RuleCommitKeeps ==
  ASSUME KeptInv, RuleCommit
  PROVE  KeptInv'
<1>0. CatTypeOK /\ cycle.at = "rules" /\ crossed' = crossed \cup SweptPairs /\ hand' = hand /\ enrich' = enrich
  BY DEF KeptInv, RuleCommit
<1>1. ASSUME NEW x \in Txns, Chosen(x), x \notin crossed'
      PROVE  KeptBut(x)
  <2>1. x \notin DOMAIN cycle.seen
    BY <1>0, <1>1 DEF KeptInv, RulesKeep
  <2>2. x \notin SweptPairs
    BY <1>0, <1>1
  <2>3. row'[x] = row[x]
    BY <1>0, <2>1, <2>2, RuleCommitRows
  <2> QED
    BY <2>3 DEF KeptBut
<1>2. ChosenRows' /\ \A x \in Txns : Chosen(x)' => Chosen(x)
  BY <1>0, <1>1, ChoicesUntouched
<1>3. cycle'.at = "model" /\ cycle'.doing = NoValue
  BY DEF RuleCommit
<1> QED
  BY <1>0, <1>2, <1>3, ElsewhereKeeps, EnrichUntouched, RuleCommitTyped DEF KeptInv

LEMMA LlmTakeKeeps ==
  ASSUME KeptInv, LlmTake
  PROVE  KeptInv'
<1>0. CatTypeOK /\ cycle.at = "model"
  BY DEF KeptInv, LlmTake
<1>1. ChosenRows' /\ \A x \in Txns : Chosen(x)' => Chosen(x)
  BY ChoicesUntouched DEF LlmTake, KeptBut
<1>2. RulesKeep' /\ ModelKeeps'
  <2>1. PICK t \in cycle.todo :
           \/ Done(t, cycle.failures)
           \/ /\ NeedsLlm(row[t])
              /\ cycle' = [cycle EXCEPT !.doing = [row |-> t, seen |-> row[t], rule |-> RuleFor(t, row[t])]]
    BY <1>0, TakeRow
  <2>2. CASE Done(t, cycle.failures)
    BY <1>0, <2>2, ModelAt, DoneIsModel, ElsewhereKeeps
  <2>3. CASE /\ NeedsLlm(row[t])
             /\ cycle' = [cycle EXCEPT !.doing = [row |-> t, seen |-> row[t], rule |-> RuleFor(t, row[t])]]
    <3>1. t \in Txns /\ cycle \in AtModel
      BY <1>0, ModelAt
    <3>2. row[t].method # "manual"
      BY <2>3, Constants DEF NeedsLlm
    <3>3. ~Chosen(t)
      BY <3>1, <3>2 DEF KeptInv, ChosenRows
    <3> DEFINE d == [row |-> t, seen |-> row[t], rule |-> RuleFor(t, row[t])]
    <3>4. d.row = t /\ d.seen = row[t]
      OBVIOUS
    <3>5. cycle' = [cycle EXCEPT !.doing = d]
      BY <2>3
    <3> HIDE DEF d
    <3>6. cycle'.at = "model" /\ cycle'.doing = d
      BY <3>1, <3>5 DEF AtModel
    <3>7. ~Chosen(t)'
      BY <1>1, <3>1, <3>3
    <3> QED
      BY <3>2, <3>4, <3>6, <3>7 DEF RulesKeep, ModelKeeps
  <2> QED
    BY <2>1, <2>2, <2>3
<1> QED
  BY <1>0, <1>1, <1>2, EnrichUntouched, LlmTakeTyped DEF LlmTake, KeptInv

LEMMA LlmRuleKeeps ==
  ASSUME KeptInv, LlmRule
  PROVE  KeptInv'
<1>0. /\ CatTypeOK /\ cycle.at = "model" /\ hand' = hand /\ enrich' = enrich
      /\ crossed' = crossed \cup RulePairs(cycle.doing) /\ ~Chosen(cycle.doing.row)
  BY DEF KeptInv, LlmRule, ModelKeeps
<1>1. ASSUME NEW x \in Txns, Chosen(x), x \notin crossed'
      PROVE  KeptBut(x)
  <2>1. x # cycle.doing.row /\ x \notin RulePairs(cycle.doing)
    BY <1>0, <1>1
  <2>2. row'[x] = row[x]
    BY <1>0, <2>1, LlmRuleRows
  <2> QED
    BY <2>2 DEF KeptBut
<1>2. ChosenRows' /\ \A x \in Txns : Chosen(x)' => Chosen(x)
  BY <1>0, <1>1, ChoicesUntouched
<1>3. cycle'.at = "model" /\ cycle'.doing = NoValue
  BY <1>0, DoneIsModel DEF LlmRule
<1> QED
  BY <1>0, <1>2, <1>3, ElsewhereKeeps, EnrichUntouched, LlmRuleTyped DEF KeptInv

(* An answer of the model is dropped if the user has chosen meanwhile.       *)
LEMMA LlmApplyKeeps ==
  ASSUME KeptInv, NEW answer \in Verdicts, LlmApply(answer)
  PROVE  KeptInv'
<1>0. CatTypeOK /\ cycle.at = "model" /\ hand' = hand /\ enrich' = enrich /\ crossed' = crossed
  BY DEF KeptInv, LlmApply
<1>1. ASSUME NEW x \in Txns, Chosen(x)
      PROVE  KeptBut(x)
  <2>1. row[x].method = "manual" /\ cycle.doing.seen.method # "manual"
    BY <1>0, <1>1 DEF KeptInv, ChosenRows, ModelKeeps, LlmApply
  <2>2. ~SameAsAsked(row[x], cycle.doing.seen)
    BY <2>1 DEF SameAsAsked
  <2>3. row'[x] = row[x]
    BY <1>0, <2>2, LlmApplyRows
  <2> QED
    BY <2>3 DEF KeptBut
<1>2. ChosenRows' /\ \A x \in Txns : Chosen(x)' => Chosen(x)
  BY <1>0, <1>1, ChoicesUntouched
<1>3. CatTypeOK' /\ cycle'.at = "model" /\ cycle'.doing = NoValue
  BY <1>0, LlmApplyRows
<1> QED
  BY <1>0, <1>2, <1>3, ElsewhereKeeps, EnrichUntouched DEF KeptInv

LEMMA LlmFailKeeps ==
  ASSUME KeptInv, LlmFail
  PROVE  KeptInv'
<1>1. ChosenRows' /\ \A x \in Txns : Chosen(x)' => Chosen(x)
  BY ChoicesUntouched DEF LlmFail, KeptBut
<1>2. CatTypeOK' /\ cycle'.at = "model" /\ cycle'.doing = NoValue
  BY LlmFailTyped DEF KeptInv
<1> QED
  BY <1>1, <1>2, ElsewhereKeeps, EnrichUntouched DEF LlmFail, KeptInv

(* The prompts, a delivery and the end of the cycle change no verdict.       *)
LEMMA PromptsKeep ==
  ASSUME KeptInv, CatTypeOK', \A x \in Txns : KeptBut(x), UNCHANGED <<hand, crossed, enrich>>,
         cycle'.at \in {"prompts", "rest"}
  PROVE  KeptInv'
<1>1. ChosenRows' /\ \A x \in Txns : Chosen(x)' => Chosen(x)
  BY ChoicesUntouched
<1> QED
  BY <1>1, ElsewhereKeeps, EnrichUntouched DEF KeptInv

(* A choice: no writer at work may keep what it has read of the row.         *)
LEMMA ByHandKeeps ==
  ASSUME KeptInv, NEW t \in Txns, NEW slug \in Slugs \cup {NoValue}, ByHand(t, slug),
         UNCHANGED <<mode, vocab, cycle, enrich, spent>>
  PROVE  KeptInv'
<1>0. /\ CatTypeOK' /\ \A x \in Txns \ {t} : row'[x] = row[x]
      /\ row'[t].method = "manual" /\ row'[t].category = slug
  BY ByHandRow DEF KeptInv
<1>1. /\ hand' = [hand EXCEPT ![t] = slug] /\ hand \in [Txns -> Slugs \cup {NoValue}]
      /\ crossed' = IF Crossing(t) THEN crossed \cup {t} ELSE crossed
  BY DEF ByHand, KeptInv, CatTypeOK
<1>2. \A x \in Txns \ {t} : Chosen(x)' => Chosen(x) /\ hand'[x] = hand[x]
  BY <1>1 DEF Chosen
<1>3. Chosen(t)' => ~Crossing(t) /\ hand'[t] = slug
  BY <1>1 DEF Chosen
<1>4. ChosenRows'
  <2>1. ASSUME NEW x \in Txns, Chosen(x)'
        PROVE  row'[x].category = hand'[x] /\ row'[x].method = "manual"
    <3>1. CASE x = t
      BY <1>0, <1>3, <2>1, <3>1
    <3>2. CASE x # t
      BY <1>0, <1>2, <2>1, <3>2 DEF KeptInv, ChosenRows
    <3> QED
      BY <3>1, <3>2
  <2> QED
    BY <2>1 DEF ChosenRows
<1>5. RulesKeep'
  <2>1. ASSUME cycle.at = "rules", NEW x \in DOMAIN cycle.seen
        PROVE  ~Chosen(x)'
    <3>1. x \in Txns
      <4>1. PICK S \in SUBSET Txns : cycle \in AtRules(S)
        BY <2>1, CycleAt DEF KeptInv
      <4> QED
        BY <4>1 DEF AtRules
    <3>2. x = t => ~Chosen(t)'
      BY <1>3, <2>1 DEF Crossing
    <3>3. x # t => ~Chosen(x)'
      BY <1>2, <2>1, <3>1 DEF KeptInv, RulesKeep
    <3> QED
      BY <3>2, <3>3
  <2> QED
    BY <2>1 DEF RulesKeep
<1>6. ModelKeeps'
  <2>1. ASSUME cycle.at = "model", cycle.doing # NoValue
        PROVE  cycle.doing.row \in Txns /\ cycle.doing.seen.method # "manual"
    BY <2>1, ModelAt DEF KeptInv, ModelKeeps
  <2>2. ASSUME cycle.at = "model", cycle.doing # NoValue, NoModel(cycle.doing)
        PROVE  ~Chosen(cycle.doing.row)'
    <3>1. cycle.doing.row = t => ~Chosen(t)'
      BY <1>3, <2>2 DEF Crossing
    <3>2. cycle.doing.row # t => ~Chosen(cycle.doing.row)'
      BY <1>2, <2>1, <2>2 DEF KeptInv, ModelKeeps
    <3> QED
      BY <3>1, <3>2
  <2>3. NoModel(cycle.doing)' <=> NoModel(cycle.doing)
    BY DEF NoModel
  <2> QED
    BY <2>1, <2>2, <2>3 DEF ModelKeeps
<1>7. EnrichKeeps'
  <2>1. enrich # NoValue => enrich.row \in Txns
    BY DEF KeptInv, CatTypeOK
  <2>2. enrich # NoValue /\ enrich.row = t => ~Chosen(t)'
    BY <1>3 DEF Crossing
  <2>3. enrich # NoValue /\ enrich.row # t => (Chosen(enrich.row)' => Chosen(enrich.row))
    BY <1>2, <2>1
  <2> QED
    BY <2>2, <2>3 DEF KeptInv, EnrichKeeps
<1> QED
  BY <1>0, <1>4, <1>5, <1>6, <1>7 DEF KeptInv

(* Steps that leave rows, choices and the cycle as they are.                 *)
LEMMA StillKeeps ==
  ASSUME KeptInv, CatTypeOK', UNCHANGED <<row, hand, crossed, cycle, enrich>>
  PROVE  KeptInv'
BY DEF KeptInv, ChosenRows, RulesKeep, ModelKeeps, EnrichKeeps, Chosen, NoModel

LEMMA EnrichReadKeeps ==
  ASSUME KeptInv, NEW t \in Txns, NEW text \in Texts, EnrichRead(t, text)
  PROVE  KeptInv'
<1>1. CatTypeOK' /\ UNCHANGED <<row, hand, crossed, cycle>>
  BY EnrichReadTyped DEF EnrichRead, KeptInv
<1>2. enrich'.row = t /\ enrich'.seen = row[t]
  BY DEF EnrichRead
<1>3. EnrichKeeps'
  BY <1>1, <1>2 DEF KeptInv, ChosenRows, EnrichKeeps, Chosen
<1> QED
  BY <1>1, <1>3 DEF KeptInv, ChosenRows, RulesKeep, ModelKeeps, Chosen, NoModel

LEMMA EnrichWriteKeeps ==
  ASSUME KeptInv, NEW merge \in BOOLEAN, EnrichWrite(merge)
  PROVE  KeptInv'
<1>0. /\ CatTypeOK /\ enrich # NoValue /\ hand' = hand /\ cycle' = cycle /\ enrich' = NoValue
      /\ crossed' = crossed \cup MergePairs(merge)
                      \cup (IF MergePairs(merge) # {} THEN {enrich.row} ELSE {})
  BY DEF KeptInv, EnrichWrite
<1>1. ASSUME NEW x \in Txns, Chosen(x), x \notin crossed'
      PROVE  KeptBut(x)
  <2>1. x \notin MergePairs(merge)
    BY <1>0, <1>1
  <2>2. CASE x # enrich.row
    <3>1. row'[x] = row[x]
      BY <1>0, <2>1, <2>2, EnrichWriteRows
    <3> QED
      BY <3>1 DEF KeptBut
  <2>3. CASE x = enrich.row
    <3>1. MergePairs(merge) = {}
      BY <1>0, <1>1, <2>3
    <3>2. enrich.seen.method = "manual"
      BY <1>0, <1>1, <2>3 DEF KeptInv, EnrichKeeps
    <3> QED
      BY <1>0, <2>3, <3>1, <3>2, EnrichWriteRows
  <2> QED
    BY <2>2, <2>3
<1>2. ChosenRows' /\ \A x \in Txns : Chosen(x)' => Chosen(x)
  BY <1>0, <1>1, ChoicesUntouched
<1>3. RulesKeep'
  <2>1. cycle.at = "rules" => DOMAIN cycle.seen \subseteq Txns
    <3>1. cycle.at = "rules" => \E S \in SUBSET Txns : cycle \in AtRules(S)
      BY <1>0, CycleAt
    <3> QED
      BY <3>1 DEF AtRules
  <2> QED
    BY <1>0, <1>2, <2>1 DEF KeptInv, RulesKeep
<1>4. ModelKeeps'
  <2>1. cycle.at = "model" /\ cycle.doing # NoValue => cycle.doing.row \in Txns
    BY <1>0, ModelAt
  <2>2. NoModel(cycle.doing)' <=> NoModel(cycle.doing)
    BY <1>0 DEF NoModel
  <2> QED
    BY <1>0, <1>2, <2>1, <2>2 DEF KeptInv, ModelKeeps
<1>5. EnrichKeeps'
  BY <1>0 DEF EnrichKeeps
<1> QED
  BY <1>0, <1>2, <1>3, <1>4, <1>5, EnrichWriteTyped DEF KeptInv

LEMMA CrashKeeps ==
  ASSUME KeptInv, CycleCrash
  PROVE  KeptInv'
<1>1. CatTypeOK'
  BY NextTyped DEF KeptInv, CatNext
<1>2. UNCHANGED <<row, hand, crossed>> /\ enrich' = NoValue /\ cycle'.at = "rest"
  BY DEF CycleCrash, Rest
<1>3. EnrichKeeps' /\ ChosenRows'
  BY <1>2 DEF EnrichKeeps, ChosenRows, Chosen, KeptInv
<1> QED
  BY <1>1, <1>2, <1>3, ElsewhereKeeps DEF KeptInv

LEMMA SweepsKeep ==
  ASSUME KeptInv, Sweeps
  PROVE  KeptInv'
<1>0. CatTypeOK
  BY DEF KeptInv
<1>1. CASE NotifyRead
  <2>1. CatTypeOK' /\ cycle'.at = "prompts" /\ UNCHANGED <<row, hand, crossed, enrich>>
    BY <1>0, <1>1, NotifyReadTyped DEF NotifyRead
  <2> QED
    BY <2>1, PromptsKeep DEF KeptBut
<1>2. CASE Queue
  BY <1>0, <1>2, QueueTyped, StillKeeps DEF Queue
<1>3. CASE NotifySkip
  BY <1>0, <1>3, NotifySkipTyped, PromptsKeep DEF NotifySkip
<1>4. ASSUME NEW sent \in BOOLEAN, NotifyPlain(sent)
      PROVE  KeptInv'
  <2>1. CatTypeOK' /\ cycle'.at = "prompts" /\ UNCHANGED <<row, hand, crossed, enrich>>
    BY <1>0, <1>4, NotifyPlainTyped DEF NotifyPlain
  <2> QED
    BY <2>1, PromptsKeep DEF KeptBut
<1>5. ASSUME NEW sent \in BOOLEAN, NotifyDurable(sent)
      PROVE  KeptInv'
  BY <1>0, <1>5, NotifyDurableTyped, PromptsKeep DEF NotifyDurable
<1>6. ASSUME NEW sent \in BOOLEAN, NotifyEnd(sent)
      PROVE  KeptInv'
  BY <1>0, <1>6, NotifyEndTyped, PromptsKeep DEF NotifyEnd
<1> QED
  BY <1>1, <1>2, <1>3, <1>4, <1>5, <1>6, RuleReadKeeps, RuleCommitKeeps, LlmTakeKeeps, LlmRuleKeeps,
     LlmFailKeeps, LlmApplyKeeps DEF Sweeps

LEMMA NextKeeps ==
  ASSUME KeptInv, [CatNext]_catVars
  PROVE  KeptInv'
<1>0. CatTypeOK
  BY DEF KeptInv
<1>1. CASE \E t \in Txns, sent \in BOOLEAN : Resend(t, sent)
  <2>1. PICK t \in Txns, sent \in BOOLEAN : Resend(t, sent)
    BY <1>1
  <2>2. CatTypeOK' /\ (\A x \in Txns : KeptBut(x)) /\ cycle'.at = "rest"
    BY <1>0, <2>1, ResendTyped
  <2> QED
    BY <2>1, <2>2, PromptsKeep DEF Resend
<1>2. CASE \E t \in Txns, slug \in Slugs \cup {NoValue} : Assign(t, slug)
  BY <1>2, ByHandKeeps DEF Assign
<1>3. CASE \E t \in Txns, slug \in Slugs : TapOption(t, slug)
  BY <1>3, ByHandKeeps DEF TapOption
<1>4. CASE \E t \in Txns : Lapse(t)
  BY <1>0, <1>4, LapseTyped, StillKeeps DEF Lapse
<1>5. CASE \E t \in Txns, text \in Texts : EnrichRead(t, text)
  BY <1>5, EnrichReadKeeps
<1>6. CASE \E merge \in BOOLEAN : EnrichWrite(merge)
  BY <1>6, EnrichWriteKeeps
<1>7. CASE NewCategory
  <2>1. CatTypeOK'
    BY <1>0, <1>7, NextTyped DEF CatNext
  <2> QED
    BY <1>7, <2>1, StillKeeps DEF NewCategory
<1>8. CASE UNCHANGED catVars
  <2>1. CatTypeOK'
    BY <1>0, <1>8, NextTyped
  <2> QED
    BY <1>8, <2>1, StillKeeps DEF catVars
<1> QED
  BY <1>1, <1>2, <1>3, <1>4, <1>5, <1>6, <1>7, <1>8, SweepsKeep, CrashKeeps DEF CatNext

(* What the user chose stays: no answer of the model replaces it, however    *)
(* long it was under way. Only the shared reference of a transfer does, or a *)
(* writer that had read the row before the user chose.                       *)
THEOREM ChoicesStay == CatSpec => []HandKept
<1>1. CatInit => KeptInv
  <2>1. ASSUME CatInit
        PROVE  ChosenRows /\ RulesKeep /\ ModelKeeps /\ EnrichKeeps
    BY <2>1 DEF CatInit, Rest, ChosenRows, RulesKeep, ModelKeeps, EnrichKeeps, Chosen
  <2> QED
    BY <2>1, InitTyped DEF KeptInv
<1>2. KeptInv /\ [CatNext]_catVars => KeptInv'
  BY NextKeeps
<1>3. KeptInv => HandKept
  BY DEF KeptInv, ChosenRows, Chosen, HandKept
<1> QED
  BY <1>1, <1>2, <1>3, PTL DEF CatSpec

-----------------------------------------------------------------------------
(* Counting rows of one upload. A row's rank is the number of rows before it *)
(* in a set; if every rank stays below k, the set has at most k rows.        *)

LEMMA GreatestNat ==
  ASSUME NEW S \in SUBSET Nat, IsFiniteSet(S), S # {}
  PROVE  \E m \in S : \A x \in S : x <= m
<1> DEFINE Bad == {T \in SUBSET S : T # {} /\ ~\E m \in T : \A x \in T : x <= m}
           Sizes == {Cardinality(T) : T \in Bad}
<1>1. \A T \in SUBSET S : IsFiniteSet(T) /\ Cardinality(T) \in Nat
  BY FS_Subset, FS_CardinalityType
<1>2. SUFFICES ASSUME Bad # {} PROVE FALSE
  OBVIOUS
<1>3. Sizes \in SUBSET Nat /\ Sizes # {}
  BY <1>1, <1>2
<1>4. PICK k \in Sizes : \A j \in Sizes : k <= j
  BY <1>3, LeastNat
<1>5. PICK T \in Bad : Cardinality(T) = k
  BY <1>4
<1>6. PICK x \in T : TRUE
  BY <1>5
<1>7. T \ {x} \notin Bad
  <2>1. Cardinality(T \ {x}) = Cardinality(T) - 1
    BY <1>1, <1>5, <1>6, FS_RemoveElement
  <2>2. T \ {x} \in Bad => k <= Cardinality(T \ {x})
    BY <1>4
  <2> QED
    BY <1>1, <1>5, <2>1, <2>2
<1>8. CASE T \ {x} = {}
  <2>1. \A y \in T : y <= x
    BY <1>5, <1>6, <1>8
  <2> QED
    BY <1>5, <1>6, <2>1
<1>9. CASE T \ {x} # {}
  <2>1. PICK m \in T \ {x} : \A y \in T \ {x} : y <= m
    BY <1>5, <1>7, <1>9
  <2>2. m \in Nat /\ x \in Nat /\ \A y \in T : y \in Nat
    BY <1>5, <1>6, <2>1
  <2>3. CASE x <= m
    <3>1. \A y \in T : y <= m
      BY <2>1, <2>3
    <3> QED
      BY <1>5, <2>1, <3>1
  <2>4. CASE m <= x
    <3>1. \A y \in T : y <= x
      BY <2>1, <2>2, <2>4
    <3> QED
      BY <1>5, <1>6, <3>1
  <2> QED
    BY <2>2, <2>3, <2>4
<1> QED
  BY <1>8, <1>9

LEMMA RanksBound ==
  ASSUME NEW W \in SUBSET Nat, IsFiniteSet(W), NEW P \in SUBSET W, NEW k \in Nat,
         \A t \in P : Cardinality({s \in W : s < t}) < k
  PROVE  Cardinality(P) <= k
<1>1. IsFiniteSet(P)
  BY FS_Subset
<1>2. CASE P = {}
  BY <1>2, FS_EmptySet
<1>3. CASE P # {}
  <2>1. PICK m \in P : \A x \in P : x <= m
    BY <1>1, <1>3, GreatestNat
  <2> DEFINE before == {s \in W : s < m}
  <2>2. P \ {m} \subseteq before
    BY <2>1
  <2>3. IsFiniteSet(before) /\ Cardinality(before) \in Nat
    BY FS_Subset, FS_CardinalityType
  <2>4. Cardinality(P \ {m}) <= Cardinality(before)
    BY <2>2, <2>3, FS_Subset
  <2>5. Cardinality(before) < k
    BY <2>1
  <2>6. /\ Cardinality(P) \in Nat /\ Cardinality(P \ {m}) \in Nat
        /\ Cardinality(P \ {m}) = Cardinality(P) - 1
    BY <1>1, <2>1, Smaller
  <2> HIDE DEF before
  <2> QED
    BY <2>3, <2>4, <2>5, <2>6
<1> QED
  BY <1>2, <1>3

LEMMA SomeOfMany ==
  ASSUME NEW B, NEW A \in SUBSET B, IsFiniteSet(B)
  PROVE  /\ IsFiniteSet(A) /\ Cardinality(A) \in Nat /\ Cardinality(B) \in Nat
         /\ Cardinality(A) <= Cardinality(B)
BY FS_Subset, FS_CardinalityType

-----------------------------------------------------------------------------
(* The cap. While prompts go out, an upload's prompts so far and those of    *)
(* its rows still to be told or marked stay within the cap together. Told    *)
(* rows stay told, and there are at least as many as prompts that counted.   *)

Promised(u) == {t \in Txns : ImportOf[t] = u /\ (t \in cycle.todo \/ <<t, TRUE>> \in cycle.marks)}

SpentWithin == \A u \in Uploads : spent[u] <= Cap /\ spent[u] <= Cardinality(Told(u))

PromisesWithin ==
  cycle.at = "prompts" =>
    /\ \A u \in Uploads : spent[u] + Cardinality(Promised(u)) <= Cap
    /\ \A u \in Uploads : \A t \in Promised(u) : row[t].told # TRUE /\ cycle.seen[t].told # TRUE
    /\ \A t \in cycle.todo : <<t, TRUE>> \notin cycle.marks /\ <<t, FALSE>> \notin cycle.marks

CapInv == CatTypeOK /\ SpentWithin /\ PromisesWithin

LEMMA RowSetsAreFinite ==
  ASSUME NEW A \in SUBSET Txns, NEW B \in SUBSET A
  PROVE  /\ IsFiniteSet(A) /\ IsFiniteSet(B) /\ Cardinality(A) \in Nat /\ Cardinality(B) \in Nat
         /\ Cardinality(B) <= Cardinality(A)
<1>1. IsFiniteSet(A)
  BY CategorizationAssumption, FS_Subset
<1> QED
  BY <1>1, SomeOfMany

(* Told rows stay told, so that what was spent stays covered.                *)
LEMMA ToldGrows ==
  ASSUME CapInv, \A x \in Txns : row[x].told = TRUE => row'[x].told = TRUE,
         NEW u \in Uploads
  PROVE  /\ Told(u) \subseteq Told(u)' /\ Told(u)' \subseteq Txns
         /\ Cardinality(Told(u)) <= Cardinality(Told(u)')
         /\ Cardinality(Told(u)) \in Nat /\ Cardinality(Told(u)') \in Nat
<1>1. \A x \in Txns : row[x].told \in BOOLEAN
  BY RowFields DEF CapInv, CatTypeOK
<1>2. \A x \in Txns : row[x].told => row'[x].told
  BY <1>1, Zenon
<1>3. Told(u)' = {t \in Txns : ImportOf[t] = u /\ row'[t].told}
  BY DEF Told
<1>4. Told(u) \subseteq Told(u)' /\ Told(u)' \subseteq Txns
  BY <1>2, <1>3 DEF Told
<1> DEFINE A == {t \in Txns : ImportOf[t] = u /\ row'[t].told}
<1>5. Cardinality(Told(u)) <= Cardinality(A) /\ Cardinality(Told(u)) \in Nat /\ Cardinality(A) \in Nat
  BY <1>3, <1>4, RowSetsAreFinite
<1> QED
  BY <1>3, <1>4, <1>5

LEMMA SpentStays ==
  ASSUME CapInv, spent' = spent, \A x \in Txns : row[x].told = TRUE => row'[x].told = TRUE
  PROVE  SpentWithin'
<1>1. ASSUME NEW u \in Uploads
      PROVE  spent'[u] <= Cap /\ spent'[u] <= Cardinality(Told(u)')
  <2>1. /\ Cardinality(Told(u)) <= Cardinality(Told(u)')
        /\ Cardinality(Told(u)) \in Nat /\ Cardinality(Told(u)') \in Nat
    BY ToldGrows
  <2>2. spent[u] \in Nat /\ spent[u] <= Cap /\ spent[u] <= Cardinality(Told(u))
    BY DEF CapInv, SpentWithin, CatTypeOK
  <2> QED
    BY <2>1, <2>2
<1> QED
  BY <1>1 DEF SpentWithin

(* Steps of others, and steps of the cycle away from the prompts.            *)
LEMMA OutsidePrompts ==
  ASSUME CapInv, CatTypeOK', spent' = spent, \A x \in Txns : row[x].told = TRUE => row'[x].told = TRUE,
         cycle'.at # "prompts"
  PROVE  CapInv'
BY SpentStays DEF CapInv, PromisesWithin

LEMMA AmidPrompts ==
  ASSUME CapInv, CatTypeOK', spent' = spent, cycle' = cycle, \A x \in Txns : row'[x].told = row[x].told
  PROVE  CapInv'
<1>1. SpentWithin'
  BY SpentStays
<1>2. ASSUME cycle.at = "prompts" PROVE PromisesWithin'
  <2>1. \A u \in Uploads : Promised(u)' = Promised(u) /\ Promised(u) \subseteq Txns
    BY DEF Promised
  <2> QED
    BY <1>2, <2>1 DEF CapInv, PromisesWithin
<1> QED
  BY <1>1, <1>2 DEF CapInv, PromisesWithin

(* An import gets no more prompts than its rank in it allows.                *)
LEMMA NotifyReadWithin ==
  ASSUME CapInv, NotifyRead
  PROVE  CapInv'
<1>0. CatTypeOK /\ CatTypeOK' /\ row' = row /\ spent' = spent /\ cycle'.at = "prompts" /\ cycle'.marks = {}
  BY NotifyReadTyped DEF NotifyRead, CapInv
<1>1. PICK waiting : /\ waiting = {t \in Txns : Waiting(row[t])}
                     /\ cycle'.todo = Prompted(waiting)
                     /\ cycle'.seen = [t \in Prompted(waiting) |-> row[t]]
  BY <1>0, NotifyReadTyped
<1>2. \A u \in Uploads : Promised(u)' = {t \in Prompted(waiting) : ImportOf[t] = u}
  BY <1>0, <1>1 DEF Promised, Prompted
<1>3. ASSUME NEW u \in Uploads, NEW t \in Prompted(waiting), ImportOf[t] = u
      PROVE  row[t].told # TRUE /\ cycle'.seen[t].told # TRUE
  <2>1. ~row[t].told
    BY <1>3 DEF Prompted, Uploads
  <2>2. row[t].told # TRUE
    BY <2>1, Zenon
  <2> QED
    BY <1>1, <2>2
<1>4. ASSUME NEW u \in Uploads
      PROVE  spent[u] + Cardinality({t \in Prompted(waiting) : ImportOf[t] = u}) <= Cap
  <2> DEFINE P == {t \in Prompted(waiting) : ImportOf[t] = u}
             W == {s \in waiting : ImportOf[s] = u /\ ~row[s].told}
             n == Cardinality(Told(u))
  <2>1. P \subseteq W /\ W \subseteq Txns /\ Told(u) \subseteq Txns
    BY <1>1, <1>4 DEF Prompted, Uploads, Told
  <2>2. n \in Nat /\ spent[u] \in Nat /\ spent[u] <= n /\ spent[u] <= Cap /\ Cap \in Nat
    BY <2>1, RowSetsAreFinite, CategorizationAssumption DEF CapInv, SpentWithin, CatTypeOK
  <2>3. ASSUME NEW t \in P
        PROVE  n + Cardinality({s \in W : s < t}) < Cap
    <3>1. {s \in waiting : s < t /\ ImportOf[s] = ImportOf[t] /\ ~row[s].told} = {s \in W : s < t}
      BY <2>3
    <3> QED
      BY <1>4, <2>3, <3>1 DEF Prompted, Uploads
  <2>4. \A t \in P : Cardinality({s \in W : s < t}) \in Nat
    <3>1. \A t \in P : {s \in W : s < t} \subseteq W
      OBVIOUS
    <3> QED
      BY <2>1, <3>1, RowSetsAreFinite
  <2>5. Cardinality(P) \in Nat /\ IsFiniteSet(W) /\ W \subseteq Nat
    BY <2>1, RowSetsAreFinite, Constants
  <2>6. CASE P = {}
    BY <2>2, <2>6, FS_EmptySet
  <2>7. CASE P # {}
    <3> HIDE DEF n, W, P
    <3>1. n < Cap
      <4>1. PICK t \in P : TRUE
        BY <2>7
      <4> DEFINE before == Cardinality({s \in W : s < t})
      <4>2. n + before < Cap /\ before \in Nat
        BY <2>3, <2>4
      <4> HIDE DEF before
      <4> QED
        BY <2>2, <4>2
    <3>2. Cap - n \in Nat
      BY <2>2, <3>1
    <3>4. ASSUME NEW t \in P PROVE Cardinality({s \in W : s < t}) < Cap - n
      <4> DEFINE before == Cardinality({s \in W : s < t})
      <4>1. n + before < Cap /\ before \in Nat
        BY <2>3, <2>4
      <4> HIDE DEF before
      <4>2. before < Cap - n
        BY <2>2, <4>1
      <4> QED
        BY <4>2 DEF before
    <3>3. Cardinality(P) <= Cap - n
      BY <2>1, <2>5, <3>2, <3>4, RanksBound
    <3> QED
      BY <2>2, <2>5, <3>3 DEF P
  <2> QED
    BY <2>6, <2>7
<1>5. SpentWithin'
  BY <1>0, SpentStays
<1>6. PromisesWithin'
  BY <1>0, <1>2, <1>3, <1>4 DEF PromisesWithin
<1> QED
  BY <1>0, <1>5, <1>6 DEF CapInv

(* A prompt is passed with nothing sent, or its mark left to the session.    *)
LEMMA PassedWithin ==
  ASSUME CapInv, CatTypeOK', spent' = spent, cycle.at = "prompts", cycle'.at = "prompts",
         cycle'.seen = cycle.seen, \A x \in Txns : row'[x].told = row[x].told,
         NEW t \in cycle.todo, cycle'.todo = cycle.todo \ {t},
         cycle'.marks = cycle.marks \/ \E sent \in BOOLEAN : cycle'.marks = cycle.marks \cup {<<t, sent>>}
  PROVE  CapInv'
<1>1. ASSUME NEW u \in Uploads
      PROVE  Promised(u)' \subseteq Promised(u) /\ Promised(u) \subseteq Txns
  BY DEF Promised
<1>2. ASSUME NEW u \in Uploads
      PROVE  spent[u] + Cardinality(Promised(u)') <= Cap
  <2> DEFINE A == {x \in Txns : ImportOf[x] = u /\ (x \in cycle'.todo \/ <<x, TRUE>> \in cycle'.marks)}
  <2>1. Promised(u)' = A
    BY DEF Promised
  <2>2. A \subseteq Promised(u) /\ Promised(u) \subseteq Txns
    BY <1>1, <2>1
  <2>3. /\ Cardinality(A) <= Cardinality(Promised(u))
        /\ Cardinality(A) \in Nat /\ Cardinality(Promised(u)) \in Nat
    BY <2>2, RowSetsAreFinite
  <2>4. spent[u] \in Nat /\ Cap \in Nat /\ spent[u] + Cardinality(Promised(u)) <= Cap
    BY CategorizationAssumption DEF CapInv, PromisesWithin, CatTypeOK
  <2> HIDE DEF A
  <2> QED
    BY <2>1, <2>3, <2>4
<1>3. \A u \in Uploads : \A x \in Promised(u)' : row'[x].told # TRUE /\ cycle'.seen[x].told # TRUE
  BY <1>1 DEF CapInv, PromisesWithin
<1>4. \A x \in cycle'.todo : <<x, TRUE>> \notin cycle'.marks /\ <<x, FALSE>> \notin cycle'.marks
  <2>1. ASSUME NEW x \in cycle'.todo, NEW told \in BOOLEAN, <<x, told>> \in cycle'.marks
        PROVE  FALSE
    <3>1. x \in cycle.todo /\ x # t
      OBVIOUS
    <3>2. \A sent \in BOOLEAN : <<x, told>> # <<t, sent>>
      BY <3>1
    <3>3. <<x, told>> \in cycle.marks
      BY <2>1, <3>2
    <3>4. told = TRUE \/ told = FALSE
      OBVIOUS
    <3> QED
      BY <3>1, <3>3, <3>4 DEF CapInv, PromisesWithin
  <2> QED
    BY <2>1
<1>5. PromisesWithin'
  BY <1>2, <1>3, <1>4 DEF PromisesWithin
<1> QED
  BY <1>5, SpentStays DEF CapInv

(* A durable prompt arrives: its row is told, and counts.                    *)
LEMMA DeliveredWithin ==
  ASSUME CapInv, CatTypeOK', cycle.at = "prompts", cycle'.at = "prompts", cycle'.seen = cycle.seen,
         cycle'.marks = cycle.marks, NEW t \in cycle.todo, cycle'.todo = cycle.todo \ {t},
         \A x \in Txns \ {t} : row'[x].told = row[x].told,
         row'[t].told = TRUE, spent' = Counted(t, 1)
  PROVE  CapInv'
<1>0. CatTypeOK /\ t \in Txns /\ \A x \in Txns : row[x].told = TRUE => row'[x].told = TRUE
  <2>1. PICK S \in SUBSET Txns : cycle \in AtPrompts(S)
    BY PromptsAre DEF CapInv
  <2> QED
    BY <2>1, PromptsAt DEF CapInv
<1>1. ASSUME NEW u \in Uploads
      PROVE  /\ spent'[u] <= Cap /\ spent'[u] <= Cardinality(Told(u)')
             /\ spent'[u] + Cardinality(Promised(u)') <= Cap
             /\ Promised(u)' = Promised(u) \ {t}
  <2> DEFINE A == {x \in Txns : ImportOf[x] = u /\ row'[x].told}
             T == Told(u)
             P == Promised(u)
  <2>1. Told(u)' = A /\ T \subseteq A /\ A \subseteq Txns
    BY <1>0, ToldGrows DEF Told
  <2>2. Promised(u)' = P \ {t} /\ P \subseteq Txns
    BY DEF Promised, CapInv, PromisesWithin
  <2>3. /\ spent[u] \in Nat /\ Cap \in Nat /\ spent[u] <= Cap /\ spent[u] <= Cardinality(T)
        /\ spent[u] + Cardinality(P) <= Cap
    BY CategorizationAssumption DEF CapInv, SpentWithin, PromisesWithin, CatTypeOK
  <2>4. IsFiniteSet(A) /\ IsFiniteSet(P) /\ Cardinality(A) \in Nat /\ Cardinality(T) \in Nat
        /\ Cardinality(T) <= Cardinality(A)
    BY <2>1, <2>2, RowSetsAreFinite
  <2>5. CASE ImportOf[t] = u
    <3>1. spent'[u] = spent[u] + 1
      BY <1>0, <2>5 DEF Counted, Uploads, CatTypeOK
    <3>2. t \in P /\ t \notin T /\ t \in A
      <4>1. t \in P
        BY <1>0, <2>5 DEF Promised
      <4>2. row[t].told # TRUE
        BY <1>1, <4>1 DEF CapInv, PromisesWithin
      <4>3. ~row[t].told
        BY <1>0, <4>2, RowFields DEF CatTypeOK
      <4>4. row'[t].told
        BY Zenon
      <4> QED
        BY <1>0, <2>5, <4>1, <4>3, <4>4 DEF Told
    <3>3. Cardinality(T) <= Cardinality(A \ {t}) /\ Cardinality(A \ {t}) = Cardinality(A) - 1
      <4>1. T \subseteq A \ {t} /\ A \ {t} \subseteq Txns
        BY <2>1, <3>2
      <4>2. Cardinality(T) <= Cardinality(A \ {t})
        BY <4>1, RowSetsAreFinite
      <4> QED
        BY <2>4, <3>2, <4>2, Smaller
    <3>4. /\ Cardinality(P) \in Nat /\ Cardinality(P \ {t}) \in Nat /\ Cardinality(P) > 0
          /\ Cardinality(P \ {t}) = Cardinality(P) - 1
      BY <2>4, <3>2, Smaller
    <3>5. spent'[u] <= Cap /\ spent'[u] <= Cardinality(A) /\ spent'[u] + Cardinality(P \ {t}) <= Cap
      <4> HIDE DEF A, T, P
      <4> QED
        BY <2>3, <2>4, <3>1, <3>3, <3>4
    <3> QED
      BY <2>1, <2>2, <3>5
  <2>6. CASE ImportOf[t] # u
    <3>1. spent'[u] = spent[u]
      BY <1>0, <2>6 DEF Counted, CatTypeOK
    <3>2. P \ {t} = P
      BY <2>6 DEF Promised
    <3>3. spent'[u] <= Cap /\ spent'[u] <= Cardinality(A) /\ spent'[u] + Cardinality(P \ {t}) <= Cap
      <4> HIDE DEF A, T, P
      <4> QED
        BY <2>3, <2>4, <3>1, <3>2
    <3> QED
      BY <2>1, <2>2, <3>3
  <2> QED
    BY <2>5, <2>6
<1>2. SpentWithin'
  BY <1>1 DEF SpentWithin
<1>3. \A u \in Uploads : \A x \in Promised(u)' : row'[x].told # TRUE /\ cycle'.seen[x].told # TRUE
  <2>1. ASSUME NEW u \in Uploads, NEW x \in Promised(u)'
        PROVE  row'[x].told # TRUE /\ cycle'.seen[x].told # TRUE
    <3>1. x \in Promised(u) /\ x # t /\ x \in Txns
      BY <1>1, <2>1 DEF Promised
    <3> QED
      BY <3>1 DEF CapInv, PromisesWithin
  <2> QED
    BY <2>1
<1>4. \A x \in cycle'.todo : <<x, TRUE>> \notin cycle'.marks /\ <<x, FALSE>> \notin cycle'.marks
  BY DEF CapInv, PromisesWithin
<1>5. PromisesWithin'
  BY <1>1, <1>3, <1>4 DEF PromisesWithin
<1> QED
  BY <1>2, <1>5 DEF CapInv

(* The end of the session: its marks are told rows, one each.                *)
LEMMA NotifyEndWithin ==
  ASSUME CapInv, NEW sent \in BOOLEAN, NotifyEnd(sent)
  PROVE  CapInv'
<1>0. /\ CatTypeOK /\ CatTypeOK' /\ cycle.at = "prompts" /\ cycle.todo = {} /\ cycle'.at = "rest"
      /\ \A x \in Txns : row[x].told = TRUE => row'[x].told = TRUE
      /\ \A x \in Txns : <<x, TRUE>> \in cycle.marks /\ cycle.seen[x].told # TRUE => row'[x].told = TRUE
  BY NotifyEndTyped DEF NotifyEnd, CapInv
<1>1. PICK S \in SUBSET Txns : cycle \in AtPrompts(S)
  BY <1>0, PromptsAre
<1>2. ASSUME NEW u \in Uploads
      PROVE  spent'[u] <= Cap /\ spent'[u] <= Cardinality(Told(u)')
  <2> DEFINE A == {x \in Txns : ImportOf[x] = u /\ row'[x].told}
             T == Told(u)
             P == Promised(u)
             M == MarksOf(u)
  <2>1. Told(u)' = A /\ T \subseteq A /\ A \subseteq Txns
    BY <1>0, ToldGrows DEF Told
  <2>2. P \subseteq Txns /\ \A x \in P : row[x].told # TRUE /\ cycle.seen[x].told # TRUE /\ <<x, TRUE>> \in cycle.marks
    BY <1>0 DEF Promised, CapInv, PromisesWithin
  <2>3. P \subseteq A
    <3>1. ASSUME NEW x \in P PROVE x \in A
      <4>1. row'[x].told = TRUE
        BY <1>0, <2>2
      <4>2. row'[x].told
        BY <4>1, Zenon
      <4> QED
        BY <2>2, <4>2 DEF Promised
    <3> QED
      BY <3>1
  <2>4. T \cap P = {}
    <3>1. ASSUME NEW x \in T, x \in P PROVE FALSE
      <4>1. x \in Txns /\ row[x].told /\ row[x].told # TRUE
        BY <2>2, <3>1 DEF Told
      <4>2. row[x].told \in BOOLEAN
        BY <1>0, <4>1, RowFields DEF CatTypeOK
      <4> QED
        BY <4>1, <4>2, Zenon
    <3> QED
      BY <3>1
  <2>5. IsFiniteSet(T) /\ IsFiniteSet(P) /\ Cardinality(T) \in Nat /\ Cardinality(P) \in Nat /\ Cardinality(A) \in Nat
    BY <2>1, <2>2, RowSetsAreFinite
  <2>6. Cardinality(T) + Cardinality(P) <= Cardinality(A)
    <3>1. Cardinality(T \cup P) = Cardinality(T) + Cardinality(P) - Cardinality({})
      BY <2>4, <2>5, FS_Union
    <3>2. Cardinality(T \cup P) <= Cardinality(A)
      <4>1. T \cup P \subseteq A
        BY <2>1, <2>3
      <4> QED
        BY <2>1, <4>1, RowSetsAreFinite
    <3>3. Cardinality({}) = 0
      BY FS_EmptySet
    <3> HIDE DEF T, P, A
    <3> QED
      BY <2>5, <3>1, <3>2, <3>3
  <2>7. Cardinality(M) <= Cardinality(P) /\ Cardinality(M) \in Nat
    <3> DEFINE g == [m \in M |-> m[1]]
    <3>1. M \subseteq S \X BOOLEAN /\ S \subseteq Txns
      BY <1>0, <1>1, PromptsAt DEF MarksOf
    <3>2. \A m \in M : m[1] \in P /\ m = <<m[1], TRUE>>
      <4>1. ASSUME NEW m \in M PROVE m[1] \in P /\ m = <<m[1], TRUE>>
        <5>1. m \in S \X BOOLEAN /\ ImportOf[m[1]] = u /\ m \in cycle.marks
          BY <3>1, <4>1 DEF MarksOf
        <5>6. m[2]
          BY <4>1, Zenon DEF MarksOf
        <5>2. m[1] \in Txns /\ m[2] \in BOOLEAN /\ m = <<m[1], m[2]>>
          BY <3>1, <5>1
        <5>3. m[2] = TRUE
          BY <5>2, <5>6, Zenon
        <5>4. m = <<m[1], TRUE>>
          BY <5>2, <5>3
        <5>5. <<m[1], TRUE>> \in cycle.marks
          BY <5>1, <5>4
        <5> QED
          BY <5>1, <5>2, <5>4, <5>5 DEF Promised
      <4> QED
        BY <4>1
    <3> HIDE DEF M, P
    <3>3. g \in Injection(M, P)
      BY <3>2 DEF Injection, IsInjective
    <3>4. Cardinality(M) <= Cardinality(P)
      BY <2>5, <3>3, FS_Injection
    <3> QED
      BY <1>0, <1>1, <3>4, MarksAreFinite DEF M
  <2>8. /\ spent[u] \in Nat /\ Cap \in Nat /\ spent[u] <= Cardinality(T)
        /\ spent[u] + Cardinality(P) <= Cap /\ spent'[u] = spent[u] + Cardinality(M)
    BY <1>0, CategorizationAssumption DEF CapInv, SpentWithin, PromisesWithin, CatTypeOK, NotifyEnd
  <2> HIDE DEF A, T, P, M
  <2> QED
    BY <2>1, <2>5, <2>6, <2>7, <2>8
<1>3. SpentWithin'
  BY <1>2 DEF SpentWithin
<1> QED
  BY <1>0, <1>3 DEF CapInv, PromisesWithin

LEMMA SweepsWithin ==
  ASSUME CapInv, Sweeps
  PROVE  CapInv'
<1>0. CatTypeOK
  BY DEF CapInv
<1>1. CASE RuleRead
  BY <1>0, <1>1, RuleReadTyped, OutsidePrompts DEF RuleRead
<1>2. CASE RuleCommit
  BY <1>0, <1>2, RuleCommitTyped, RuleCommitRows, OutsidePrompts DEF RuleCommit
<1>3. CASE LlmTake
  <2>1. PICK t \in cycle.todo :
           \/ Done(t, cycle.failures)
           \/ cycle' = [cycle EXCEPT !.doing = [row |-> t, seen |-> row[t], rule |-> RuleFor(t, row[t])]]
    BY <1>0, <1>3, TakeRow
  <2>2. cycle.at = "model" /\ cycle \in AtModel /\ cycle.failures \in Nat
    BY <1>0, <1>3, ModelAt DEF LlmTake
  <2>3. cycle'.at = "model"
    BY <1>0, <2>1, <2>2, DoneIsModel DEF AtModel
  <2> QED
    BY <1>0, <1>3, <2>3, LlmTakeTyped, OutsidePrompts DEF LlmTake
<1>4. CASE LlmRule
  <2>1. cycle'.at = "model"
    BY <1>0, <1>4, DoneIsModel DEF LlmRule
  <2> QED
    BY <1>0, <1>4, <2>1, LlmRuleTyped, LlmRuleRows, OutsidePrompts DEF LlmRule
<1>5. CASE LlmFail
  BY <1>0, <1>5, LlmFailTyped, OutsidePrompts DEF LlmFail
<1>6. ASSUME NEW answer \in Verdicts, LlmApply(answer)
      PROVE  CapInv'
  BY <1>0, <1>6, LlmApplyRows, OutsidePrompts DEF LlmApply
<1>7. CASE Queue
  BY <1>0, <1>7, QueueTyped, AmidPrompts DEF Queue
<1>8. CASE NotifySkip
  <2>1. /\ CatTypeOK' /\ cycle'.at = "prompts" /\ cycle'.seen = cycle.seen /\ cycle'.marks = cycle.marks
        /\ \A x \in Txns : row'[x].told = row[x].told
        /\ \E t \in cycle.todo : cycle'.todo = cycle.todo \ {t}
    BY <1>0, <1>8, NotifySkipTyped
  <2> QED
    BY <1>8, <2>1, PassedWithin DEF NotifySkip
<1>9. ASSUME NEW sent \in BOOLEAN, NotifyPlain(sent)
      PROVE  CapInv'
  <2>1. /\ CatTypeOK' /\ cycle'.at = "prompts" /\ cycle'.seen = cycle.seen
        /\ \E t \in cycle.todo : /\ cycle'.todo = cycle.todo \ {t}
                                 /\ cycle'.marks = cycle.marks \cup {<<t, sent>>}
    BY <1>0, <1>9, NotifyPlainTyped
  <2>2. cycle.at = "prompts" /\ row' = row /\ spent' = spent
    BY <1>9 DEF NotifyPlain
  <2>3. PICK t \in cycle.todo : /\ cycle'.todo = cycle.todo \ {t}
                                /\ cycle'.marks = cycle.marks \cup {<<t, sent>>}
    BY <2>1
  <2>4. \E s \in BOOLEAN : cycle'.marks = cycle.marks \cup {<<t, s>>}
    BY <2>3
  <2> QED
    BY <2>1, <2>2, <2>3, <2>4, PassedWithin
<1>10. ASSUME NEW sent \in BOOLEAN, NotifyDurable(sent)
      PROVE  CapInv'
  <2>1. /\ CatTypeOK' /\ cycle'.at = "prompts" /\ cycle'.seen = cycle.seen /\ cycle'.marks = cycle.marks
    BY <1>0, <1>10, NotifyDurableTyped
  <2>2. PICK t \in cycle.todo :
          /\ cycle'.todo = cycle.todo \ {t}
          /\ \A x \in Txns \ {t} : row'[x].told = row[x].told
          /\ \/ row'[t].told = row[t].told /\ spent' = spent
             \/ row'[t].told = TRUE /\ spent' = Counted(t, 1)
    BY <1>0, <1>10, NotifyDurableTyped
  <2>3. cycle.at = "prompts"
    BY <1>10 DEF NotifyDurable
  <2>4. CASE row'[t].told = row[t].told /\ spent' = spent
    <3>1. \A x \in Txns : row'[x].told = row[x].told
      BY <2>2, <2>4
    <3> QED
      BY <2>1, <2>2, <2>3, <2>4, <3>1, PassedWithin
  <2>5. CASE row'[t].told = TRUE /\ spent' = Counted(t, 1)
    BY <2>1, <2>2, <2>3, <2>5, DeliveredWithin
  <2> QED
    BY <2>2, <2>4, <2>5
<1> QED
  BY <1>1, <1>2, <1>3, <1>4, <1>5, <1>6, <1>7, <1>8, <1>9, <1>10, NotifyReadWithin, NotifyEndWithin DEF Sweeps

LEMMA NextWithin ==
  ASSUME CapInv, [CatNext]_catVars
  PROVE  CapInv'
<1>0. CatTypeOK /\ CatTypeOK'
  BY NextTyped DEF CapInv
<1>1. ASSUME NEW t \in Txns, NEW sent \in BOOLEAN, Resend(t, sent)
      PROVE  CapInv'
  <2>1. cycle'.at # "prompts" /\ \A x \in Txns : row[x].told = TRUE => row'[x].told = TRUE
    BY <1>0, <1>1, ResendTyped
  <2> QED
    BY <1>0, <1>1, <2>1, OutsidePrompts DEF Resend
<1>2. ASSUME NEW t \in Txns, NEW slug \in Slugs \cup {NoValue}, ByHand(t, slug),
             UNCHANGED <<mode, vocab, cycle, enrich, spent>>
      PROVE  CapInv'
  <2>1. \A x \in Txns : row'[x].told = row[x].told
    BY <1>0, <1>2, ByHandRow
  <2> QED
    BY <1>0, <1>2, <2>1, AmidPrompts
<1>3. CASE \E t \in Txns : Lapse(t)
  BY <1>0, <1>3, AmidPrompts DEF Lapse
<1>4. CASE \E t \in Txns, text \in Texts : EnrichRead(t, text)
  BY <1>0, <1>4, AmidPrompts DEF EnrichRead
<1>5. ASSUME NEW merge \in BOOLEAN, EnrichWrite(merge)
      PROVE  CapInv'
  <2>1. \A x \in Txns : row'[x].told = row[x].told
    BY <1>0, <1>5, EnrichWriteRows
  <2> QED
    BY <1>0, <1>5, <2>1, AmidPrompts DEF EnrichWrite
<1>6. CASE NewCategory
  BY <1>0, <1>6, AmidPrompts DEF NewCategory
<1>7. CASE CycleCrash
  BY <1>0, <1>7, OutsidePrompts DEF CycleCrash, Rest
<1>8. CASE UNCHANGED catVars
  BY <1>0, <1>8, AmidPrompts DEF catVars
<1>9. CASE \E t \in Txns, slug \in Slugs \cup {NoValue} : Assign(t, slug)
  BY <1>2, <1>9 DEF Assign
<1>10. CASE \E t \in Txns, slug \in Slugs : TapOption(t, slug)
  BY <1>2, <1>10 DEF TapOption
<1> QED
  BY <1>1, <1>3, <1>4, <1>5, <1>6, <1>7, <1>8, <1>9, <1>10, SweepsWithin DEF CatNext

(* However often rows of one statement go back to the model and are asked    *)
(* about again, the prompts about them stay within the cap.                  *)
THEOREM PromptsStayCapped == CatSpec => []PromptsCapped
<1>1. CatInit => CapInv
  <2>1. ASSUME CatInit
        PROVE  CapInv
    <3>1. CatTypeOK /\ cycle.at = "rest"
      BY <2>1, InitTyped DEF CatInit, Rest
    <3>2. ASSUME NEW u \in Uploads
          PROVE  spent[u] <= Cap /\ spent[u] <= Cardinality(Told(u))
      <4>1. spent[u] = 0 /\ Told(u) \subseteq Txns
        BY <2>1 DEF CatInit, Told
      <4>2. Cardinality(Told(u)) \in Nat /\ Cap \in Nat
        BY <4>1, RowSetsAreFinite, CategorizationAssumption
      <4> QED
        BY <4>1, <4>2
    <3> QED
      BY <3>1, <3>2 DEF CapInv, SpentWithin, PromisesWithin
  <2> QED
    BY <2>1
<1>2. CapInv /\ [CatNext]_catVars => CapInv'
  BY NextWithin
<1>3. CapInv => PromptsCapped
  BY DEF CapInv, SpentWithin, PromptsCapped
<1> QED
  BY <1>1, <1>2, <1>3, PTL DEF CatSpec
=============================================================================
