--------------------------- MODULE Categorization ---------------------------
(* The categories of transactions: the sweeps of the fetch cycle, by rules    *)
(* and by a model, the prompts that ask the user about what neither settles,  *)
(* and the user's own choices. A sweep holds rows it has read while it awaits *)
(* the database, the model or Telegram. Delivery of a prompt is a state here; *)
(* TelegramOutbox has its detail. Proposals of the assistant are left out.    *)
EXTENDS Integers, FiniteSets, FiniteSetsExt

CONSTANTS
  NoValue,
  Txns,                 \* ids, which give the order of a sweep
  ImportOf,             \* row -> the statement upload that recorded it, or NoValue
  SharedRefs,           \* pairs of texts that share a reference, on both sides of a transfer
  Texts, FirstTexts,    \* what a classifier may read of a row; of each row at first
  Blank,                \* the text of a row that says nothing
  RuleSays,             \* text -> slug of a rule, or NoValue
  Slugs, Fit,           \* row -> the slugs its direction and account allow
  Default,              \* row -> the slug stored when no other is known
  Verdicts,             \* what the model may say: [slug, sure, options]
  Modes,                \* "plain" prompts, or "durable" ones with a decision and a delivery
  Cap, MaxNotify, MaxSends, MaxFailures,
  MaxEvents             \* bound on what users, enrichment and crashes do

Unknown == "unknown"
NeedsReview == "needs_review"

ASSUME CategorizationAssumption ==
  /\ Txns \subseteq Nat /\ IsFiniteSet(Txns)
  /\ Blank \in Texts /\ FirstTexts \subseteq [Txns -> Texts]
  /\ RuleSays \in [Texts -> Slugs \cup {NoValue}]
  /\ Fit \in [Txns -> SUBSET Slugs]
  /\ \A answer \in Verdicts : answer.sure \in BOOLEAN
  /\ Modes \subseteq {"plain", "durable"}
  /\ Cap \in Nat /\ MaxSends \in Nat
  /\ NoValue \notin Slugs \cup Texts \cup {"self_transfer", "pending_llm", "rule", "llm", "manual", "pending", "notified"}

VARIABLES
  mode,
  row,          \* row -> [text, method, category, read, vocab, review, tries, told]
  decision,     \* row -> NoValue or its active decision [read, options, proposed, lapsed, delivery, sends]
  vocab,        \* [stored, cached]
  cycle,        \* where the fetch cycle is and what it has read
  enrich,       \* NoValue or a message or statement line about to be merged: [row, seen, text]
  hand,         \* history: row -> NoValue or the category the user chose last
  crossed,      \* history: rows a writer had read before the user chose, and transfers
  spent,        \* history: upload -> prompts its sweeps sent and marked
  events

catVars == <<mode, row, decision, vocab, cycle, enrich, hand, crossed, spent, events>>

Uploads == {ImportOf[t] : t \in Txns} \ {NoValue}
Rest == [at |-> "rest"]

CatInit ==
  /\ mode \in Modes
  /\ \E text \in FirstTexts :
       row = [t \in Txns |-> [text |-> text[t], method |-> NoValue, category |-> NoValue, read |-> NoValue, vocab |-> 0,
                              review |-> NoValue, tries |-> 0, told |-> FALSE]]
  /\ decision = [t \in Txns |-> NoValue]
  /\ vocab = [stored |-> 1, cached |-> 1]
  /\ cycle = Rest /\ enrich = NoValue
  /\ hand = [t \in Txns |-> NoValue] /\ crossed = {}
  /\ spent = [u \in Uploads |-> 0] /\ events = 0

-----------------------------------------------------------------------------
\* A session writes the columns it changed, and leaves what others wrote since in
\* the rest.

Flushed(now, seen, new) == [f \in DOMAIN now |-> IF new[f] = seen[f] THEN now[f] ELSE new[f]]

Unresolved(r) == r.category = Unknown \/ r.review \in {"pending", "notified"}
NeedsLlm(r) == r.method \in {NoValue, "pending_llm"} \/ (r.method = "llm" /\ Unresolved(r))

\* What the query of the model's sweep selects.
NeedsWork(r) ==
  \/ r.method \in {NoValue, "pending_llm"}
  \/ r.method = "llm" /\ Unresolved(r) /\ r.vocab < vocab.cached

Ruled(r, slug) ==
  [r EXCEPT !.category = slug, !.method = "rule", !.read = r.text, !.vocab = vocab.cached, !.review = NoValue]

\* The rules on a row as it was read. The other side of a transfer is read now.
Pair(t, text) == {x \in Txns \ {t} : <<text, row[x].text>> \in SharedRefs}
RuleFor(t, seen) == IF Pair(t, seen.text) # {} THEN "self_transfer" ELSE RuleSays[seen.text]
ByRules(t, seen) ==
  IF RuleFor(t, seen) = NoValue
    THEN [seen EXCEPT !.method = "pending_llm", !.read = seen.text, !.vocab = vocab.cached]
    ELSE Ruled(seen, RuleFor(t, seen))

Superseded(t) == [decision EXCEPT ![t] = NoValue]

-----------------------------------------------------------------------------
\* The sweep by rules reads every row never looked at, and commits all of them.

RuleRead ==
  /\ cycle.at = "rest"
  /\ cycle' = [at |-> "rules", seen |-> [t \in {x \in Txns : row[x].method = NoValue} |-> row[t]]]
  /\ UNCHANGED <<mode, row, decision, vocab, enrich, hand, crossed, spent, events>>

SweptPairs == UNION {Pair(t, cycle.seen[t].text) : t \in DOMAIN cycle.seen}

RuleCommit ==
  /\ cycle.at = "rules"
  /\ row' = [t \in Txns |->
       CASE t \in DOMAIN cycle.seen -> Flushed(row[t], cycle.seen[t], ByRules(t, cycle.seen[t]))
         [] t \in SweptPairs \ DOMAIN cycle.seen -> Ruled(row[t], "self_transfer")
         [] OTHER -> row[t]]
  /\ decision' = [t \in Txns |->
       IF t \in SweptPairs \/ (t \in DOMAIN cycle.seen /\ RuleFor(t, cycle.seen[t]) # NoValue)
         THEN NoValue ELSE decision[t]]
  /\ crossed' = crossed \cup SweptPairs
  /\ cycle' = [at |-> "model", todo |-> {t \in Txns : NeedsWork(row'[t])}, doing |-> NoValue, failures |-> 0]
  /\ UNCHANGED <<mode, vocab, enrich, hand, spent, events>>

-----------------------------------------------------------------------------
\* The sweep by the model takes one row after another, each in its own session.

Done(t, failures) ==
  cycle' = [cycle EXCEPT !.todo = @ \ {t}, !.doing = NoValue, !.failures = failures]

LlmTake ==
  /\ cycle.at = "model" /\ cycle.doing = NoValue /\ cycle.todo # {}
  /\ \E t \in {Min(cycle.todo)} :
       IF NeedsLlm(row[t])
         THEN cycle' = [cycle EXCEPT !.doing = [row |-> t, seen |-> row[t], rule |-> RuleFor(t, row[t])]]
         ELSE Done(t, cycle.failures)
  /\ UNCHANGED <<mode, row, decision, vocab, enrich, hand, crossed, spent, events>>

\* A rule needs no model, nor does a row that says nothing. The result is flushed
\* over whatever the row is now.
NoModel(doing) == doing.rule # NoValue \/ doing.seen.text = Blank
RulePairs(doing) == IF doing.rule = "self_transfer" THEN Pair(doing.row, doing.seen.text) ELSE {}
ByRuleOrBlank(doing) ==
  IF doing.rule # NoValue THEN Ruled(doing.seen, doing.rule)
  ELSE [Ruled(doing.seen, Unknown) EXCEPT !.method = "llm"]

LlmRule ==
  /\ cycle.at = "model" /\ cycle.doing # NoValue
  /\ NoModel(cycle.doing)
  /\ row' = [x \in Txns |->
       CASE x = cycle.doing.row -> Flushed(row[x], cycle.doing.seen, ByRuleOrBlank(cycle.doing))
         [] x \in RulePairs(cycle.doing) -> Ruled(row[x], "self_transfer")
         [] OTHER -> row[x]]
  /\ decision' = [x \in Txns |->
       IF cycle.doing.rule # NoValue /\ x \in {cycle.doing.row} \cup RulePairs(cycle.doing)
         THEN NoValue ELSE decision[x]]
  /\ crossed' = crossed \cup RulePairs(cycle.doing)
  /\ Done(cycle.doing.row, 0)
  /\ UNCHANGED <<mode, vocab, enrich, hand, spent, events>>

\* The model has answered. Under the write lock the row must still be what the
\* model was asked about.
SameInput(now, seen) == now.text = seen.text
SameAsAsked(now, seen) ==
  now.method = seen.method /\ now.text = seen.text /\ now.category = seen.category /\ now.read = seen.read

\* A prompt that never went out gives way to a new one.
Unsent(d) == d # NoValue /\ d.delivery = "abandoned"
Settled(t, answer) == answer.slug # NeedsReview /\ answer.sure /\ answer.slug \in Fit[t]
Offer(t, answer, text) ==
  [read |-> text, options |-> answer.options \cap Fit[t], lapsed |-> FALSE, delivery |-> "none", sends |-> 0,
   proposed |-> IF answer.slug \in Fit[t] THEN answer.slug
                ELSE IF answer.sure /\ answer.slug # NeedsReview THEN Default[t] ELSE NoValue]
SamePrompt(d, o) == d # NoValue /\ d.read = o.read /\ d.options = o.options /\ d.proposed = o.proposed

Answered(t, answer) ==
  LET r == row[t]
      old == IF Unsent(decision[t]) THEN NoValue ELSE decision[t]
      told == r.review = "notified" /\ ~Unsent(decision[t])
      offer == Offer(t, answer, r.text)
      kept == SamePrompt(old, offer) /\ (told \/ ~old.lapsed)
      quiet == told /\ (decision[t] = NoValue \/ kept)
      new == [r EXCEPT !.method = "llm", !.read = r.text, !.vocab = vocab.cached,
                !.category = IF Settled(t, answer) THEN answer.slug ELSE Default[t]]
  IN IF Settled(t, answer)
       THEN /\ row' = [row EXCEPT ![t] = [new EXCEPT !.review = NoValue]]
            /\ decision' = Superseded(t)
       ELSE /\ row' = [row EXCEPT ![t] = IF quiet THEN [new EXCEPT !.review = "notified"]
                                         ELSE [new EXCEPT !.review = "pending", !.tries = 0]]
            /\ decision' = [decision EXCEPT ![t] = IF kept THEN [old EXCEPT !.lapsed = FALSE] ELSE offer]

LlmApply(answer) ==
  /\ cycle.at = "model" /\ cycle.doing # NoValue
  /\ ~NoModel(cycle.doing)
  /\ IF SameAsAsked(row[cycle.doing.row], cycle.doing.seen)
       THEN Answered(cycle.doing.row, answer) ELSE UNCHANGED <<row, decision>>
  /\ Done(cycle.doing.row, 0)
  /\ UNCHANGED <<mode, vocab, enrich, hand, crossed, spent, events>>

\* Failures in a row end the sweep.
LlmFail ==
  /\ cycle.at = "model" /\ cycle.doing # NoValue
  /\ ~NoModel(cycle.doing)
  /\ IF cycle.failures + 1 < MaxFailures THEN Done(cycle.doing.row, cycle.failures + 1)
     ELSE cycle' = [cycle EXCEPT !.todo = {}, !.doing = NoValue]
  /\ UNCHANGED <<mode, row, decision, vocab, enrich, hand, crossed, spent, events>>

-----------------------------------------------------------------------------
\* The prompts. An import gets at most Cap of them, in the order of its rows; the
\* rest of it goes into one summary.

Waiting(r) == r.review = "pending" /\ r.tries < MaxNotify
Told(u) == {t \in Txns : ImportOf[t] = u /\ row[t].told}
PromptedOneMore(waiting) ==
  {t \in waiting :
     \/ ImportOf[t] = NoValue
     \/ /\ ~row[t].told
        /\ Cardinality(Told(ImportOf[t])) +
             Cardinality({s \in waiting : s < t /\ ImportOf[s] = ImportOf[t] /\ ~row[s].told}) <= Cap}
Prompted(waiting) ==
  {t \in waiting :
     \/ ImportOf[t] = NoValue
     \/ /\ ~row[t].told
        /\ Cardinality(Told(ImportOf[t])) +
             Cardinality({s \in waiting : s < t /\ ImportOf[s] = ImportOf[t] /\ ~row[s].told}) < Cap}

NotifyRead ==
  /\ cycle.at = "model" /\ cycle.doing = NoValue /\ cycle.todo = {}
  /\ LET waiting == {t \in Txns : Waiting(row[t])}
         prompted == Prompted(waiting)
     IN cycle' = [at |-> "prompts", todo |-> prompted, all |-> prompted, marks |-> {}, failed |-> {},
                  over |-> {ImportOf[t] : t \in waiting \ prompted},
                  seen |-> [t \in prompted |-> row[t]]]
  /\ UNCHANGED <<mode, row, decision, vocab, enrich, hand, crossed, spent, events>>

Marked(r) == [r EXCEPT !.review = "notified", !.told = TRUE, !.tries = @ + 1]
Counted(t, n) == IF ImportOf[t] = NoValue THEN spent ELSE [spent EXCEPT ![ImportOf[t]] = @ + n]
Past(t, delivered) ==
  [cycle EXCEPT !.todo = @ \ {t}, !.failed = IF delivered THEN @ ELSE @ \cup {ImportOf[t]}]

\* A plain prompt is marked in the session, which flushes it with its next query
\* and holds the write lock until it ends.
NotifyPlain(sent) ==
  /\ mode = "plain" /\ cycle.at = "prompts" /\ cycle.todo # {}
  /\ \E t \in {Min(cycle.todo)} : cycle' = [Past(t, sent) EXCEPT !.marks = @ \cup {<<t, sent>>}]
  /\ UNCHANGED <<mode, row, decision, vocab, enrich, hand, crossed, spent, events>>

WriteLock == cycle.at = "prompts" /\ cycle.marks # {}

\* A durable prompt has a decision, made for it if the row has none, and a
\* delivery, committed before it is sent.
Queue ==
  /\ mode = "durable" /\ cycle.at = "prompts" /\ cycle.todo # {}
  /\ \E t \in {Min(cycle.todo)} :
       \/ /\ decision[t] = NoValue /\ Waiting(row[t])
          /\ decision' = [decision EXCEPT ![t] =
               [read |-> row[t].read, options |-> {}, proposed |-> NoValue, lapsed |-> FALSE, delivery |-> "pending", sends |-> 0]]
       \/ /\ decision[t] # NoValue /\ decision[t].delivery = "none"
          /\ decision' = [decision EXCEPT ![t].delivery = "pending"]
  /\ UNCHANGED <<mode, row, vocab, cycle, enrich, hand, crossed, spent, events>>

\* One attempt at a delivery. One that arrives marks the row if it still waits.
Attempt(t, sent) ==
  /\ decision[t] # NoValue /\ decision[t].delivery = "pending"
  /\ decision' = [decision EXCEPT ![t].sends = @ + 1,
       ![t].delivery = CASE sent -> "delivered"
                         [] ~sent /\ decision[t].sends + 1 >= MaxSends -> "abandoned"
                         [] OTHER -> @]

NotifyDurable(sent) ==
  /\ mode = "durable" /\ cycle.at = "prompts" /\ cycle.todo # {}
  /\ \E t \in {Min(cycle.todo)} :
       /\ Attempt(t, sent)
       /\ CASE ~sent -> row' = [row EXCEPT ![t].tries = cycle.seen[t].tries + 1] /\ spent' = spent
            [] sent /\ row[t].review = "pending" -> row' = [row EXCEPT ![t] = Marked(@)] /\ spent' = Counted(t, 1)
            [] OTHER -> UNCHANGED <<row, spent>>
       /\ cycle' = Past(t, sent)
  /\ UNCHANGED <<mode, vocab, enrich, hand, crossed, events>>

\* Nothing goes out: the row was taken, or its delivery is another task's, was
\* given up, or has arrived.
NotifySkip ==
  /\ mode = "durable" /\ cycle.at = "prompts" /\ cycle.todo # {}
  /\ \E t \in {Min(cycle.todo)} :
       \/ /\ decision[t] = NoValue /\ ~Waiting(row[t])
          /\ cycle' = Past(t, FALSE) /\ UNCHANGED row
       \/ /\ decision[t] # NoValue /\ decision[t].delivery \in {"pending", "abandoned"}
          /\ cycle' = Past(t, FALSE) /\ row' = [row EXCEPT ![t].tries = cycle.seen[t].tries + 1]
       \/ /\ decision[t] # NoValue /\ decision[t].delivery = "delivered"
          /\ cycle' = Past(t, TRUE) /\ UNCHANGED row
  /\ UNCHANGED <<mode, decision, vocab, enrich, hand, crossed, spent, events>>

\* The delivery loop sends what an earlier sweep left.
Resend(t, sent) ==
  /\ mode = "durable" /\ cycle.at = "rest"
  /\ Attempt(t, sent)
  /\ row' = IF sent /\ row[t].review = "pending" THEN [row EXCEPT ![t] = Marked(@)] ELSE row
  /\ UNCHANGED <<mode, vocab, cycle, enrich, hand, crossed, spent, events>>

\* The end of the sweep: the marks of its session, and the summaries of imports
\* whose prompts all went out. A summary covers all that waits of its import.
MarkOf(t) ==
  CASE <<t, TRUE>> \in cycle.marks -> Flushed(row[t], cycle.seen[t], Marked(cycle.seen[t]))
    [] <<t, TRUE>> \notin cycle.marks /\ <<t, FALSE>> \in cycle.marks ->
         [row[t] EXCEPT !.tries = cycle.seen[t].tries + 1]
    [] OTHER -> row[t]

Summed ==
  {t \in Txns : /\ ImportOf[t] \in cycle.over \ cycle.failed
                /\ Waiting(row[t]) /\ t \notin cycle.all}
MarksOf(u) == {m \in cycle.marks : m[2] /\ ImportOf[m[1]] = u}

NotifyEnd(sent) ==
  /\ cycle.at = "prompts" /\ cycle.todo = {}
  /\ row' = [t \in Txns |->
       CASE t \in Summed /\ sent -> Marked(row[t])
         [] t \in Summed /\ ~sent -> [row[t] EXCEPT !.tries = @ + 1]
         [] OTHER -> MarkOf(t)]
  /\ spent' = [u \in Uploads |-> spent[u] + Cardinality(MarksOf(u))]
  /\ cycle' = Rest
  /\ vocab' = [vocab EXCEPT !.cached = vocab.stored]
  /\ UNCHANGED <<mode, decision, enrich, hand, crossed, events>>

-----------------------------------------------------------------------------
\* The user, the messages and statements that enrich a row, and crashes.

Event == events < MaxEvents /\ events' = events + 1 /\ ~WriteLock

\* Writers that read the row before the user chose and write it after.
Crossing(t) ==
  \/ cycle.at = "rules" /\ t \in DOMAIN cycle.seen
  \/ cycle.at = "model" /\ cycle.doing # NoValue /\ cycle.doing.row = t /\ NoModel(cycle.doing)
  \/ enrich # NoValue /\ enrich.row = t

ByHand(t, slug) ==
  /\ row' = [row EXCEPT ![t].category = slug, ![t].method = "manual", ![t].review = "resolved",
               ![t].vocab = IF slug = NoValue THEN @ ELSE vocab.stored]
  /\ decision' = Superseded(t)
  /\ hand' = [hand EXCEPT ![t] = slug]
  /\ crossed' = IF Crossing(t) THEN crossed \cup {t} ELSE crossed

Assign(t, slug) ==
  /\ Event /\ ByHand(t, slug)
  /\ UNCHANGED <<mode, vocab, cycle, enrich, spent>>

\* A button of a prompt, while its decision is active and about the row as it is.
TapOption(t, slug) ==
  /\ Event /\ mode = "durable"
  /\ decision[t] # NoValue /\ decision[t].delivery = "delivered" /\ ~decision[t].lapsed
  /\ slug \in decision[t].options \cap Fit[t]
  /\ row[t].review \in {"pending", "notified"} /\ decision[t].read = row[t].text
  /\ ByHand(t, slug)
  /\ UNCHANGED <<mode, vocab, cycle, enrich, spent>>

Lapse(t) ==
  /\ Event /\ decision[t] # NoValue /\ ~decision[t].lapsed
  /\ decision' = [decision EXCEPT ![t].lapsed = TRUE]
  /\ UNCHANGED <<mode, row, vocab, cycle, enrich, hand, crossed, spent>>

\* A merge or a statement reads the row, and later writes what it learnt. A merge
\* looks for the other side of a transfer. A row the model left open goes back to
\* it when what it reads has changed.
EnrichRead(t, text) ==
  /\ Event /\ enrich = NoValue /\ text \notin {Blank, row[t].text}
  /\ enrich' = [row |-> t, seen |-> row[t], text |-> text]
  /\ UNCHANGED <<mode, row, decision, vocab, cycle, hand, crossed, spent>>

MergePairs(merge) == IF merge THEN Pair(enrich.row, enrich.text) ELSE {}
GoesBack == enrich.seen.method = "llm" /\ Unresolved(enrich.seen) /\ enrich.text # enrich.seen.read
Learnt(paired) ==
  LET learnt == [enrich.seen EXCEPT !.text = enrich.text]
  IN CASE paired # {} -> Ruled(learnt, "self_transfer")
       [] paired = {} /\ GoesBack -> [learnt EXCEPT !.method = "pending_llm", !.review = NoValue]
       [] OTHER -> learnt

EnrichWrite(merge) ==
  LET paired == MergePairs(merge) IN
  /\ enrich # NoValue /\ ~WriteLock
  /\ row' = [x \in Txns |->
       CASE x = enrich.row -> Flushed(row[x], enrich.seen, Learnt(paired))
         [] x \in paired -> Ruled(row[x], "self_transfer")
         [] OTHER -> row[x]]
  /\ decision' = [x \in Txns |->
       IF x \in paired \/ (x = enrich.row /\ (GoesBack \/ paired # {})) THEN NoValue ELSE decision[x]]
  /\ crossed' = crossed \cup paired \cup (IF paired # {} THEN {enrich.row} ELSE {})
  /\ enrich' = NoValue
  /\ UNCHANGED <<mode, vocab, cycle, hand, spent, events>>

NewCategory ==
  /\ Event /\ vocab' = [vocab EXCEPT !.stored = @ + 1]
  /\ UNCHANGED <<mode, row, decision, cycle, enrich, hand, crossed, spent>>

CycleCrash ==
  /\ events < MaxEvents /\ events' = events + 1
  /\ cycle # Rest \/ enrich # NoValue
  /\ cycle' = Rest /\ enrich' = NoValue
  /\ vocab' = [vocab EXCEPT !.cached = vocab.stored]
  /\ UNCHANGED <<mode, row, decision, hand, crossed, spent>>

-----------------------------------------------------------------------------
Sweeps ==
  \/ RuleRead \/ RuleCommit
  \/ LlmTake \/ LlmRule \/ LlmFail
  \/ \E answer \in Verdicts : LlmApply(answer)
  \/ NotifyRead \/ Queue \/ NotifySkip
  \/ \E sent \in BOOLEAN : NotifyPlain(sent) \/ NotifyDurable(sent) \/ NotifyEnd(sent)

CatNext ==
  \/ Sweeps
  \/ \E t \in Txns, sent \in BOOLEAN : Resend(t, sent)
  \/ \E t \in Txns, slug \in Slugs \cup {NoValue} : Assign(t, slug)
  \/ \E t \in Txns, slug \in Slugs : TapOption(t, slug)
  \/ \E t \in Txns : Lapse(t)
  \/ \E t \in Txns, text \in Texts : EnrichRead(t, text)
  \/ \E merge \in BOOLEAN : EnrichWrite(merge)
  \/ NewCategory \/ CycleCrash

CatSpec == CatInit /\ [][CatNext]_catVars

-----------------------------------------------------------------------------
\* PROPERTIES

Methods == {NoValue, "pending_llm", "rule", "llm", "manual"}
Categories == Slugs \cup {NoValue, Unknown, "self_transfer"} \cup {Default[t] : t \in Txns}

CatRow ==
  [text : Texts, method : Methods, category : Categories, read : Texts \cup {NoValue}, vocab : Nat,
   review : {NoValue, "pending", "notified", "resolved"}, tries : Nat, told : BOOLEAN]
Decision ==
  [read : Texts \cup {NoValue}, options : SUBSET Slugs, proposed : Categories, lapsed : BOOLEAN,
   delivery : {"none", "pending", "delivered", "abandoned"}, sends : Nat]
Asking == [row : Txns, seen : CatRow, rule : Slugs \cup {NoValue, "self_transfer"}]
Sources == Uploads \cup {NoValue}

\* Where a cycle may be, when it has read the rows S.
AtRules(S) == [at : {"rules"}, seen : [S -> CatRow]]
AtModel == [at : {"model"}, todo : SUBSET Txns, doing : {NoValue} \cup Asking, failures : Nat]
AtPrompts(S) ==
  [at : {"prompts"}, todo : SUBSET S, all : {S}, marks : SUBSET (S \X BOOLEAN),
   failed : SUBSET Sources, over : SUBSET Sources, seen : [S -> CatRow]]

\* Rows, decisions and what a sweep has read are of the shapes that the code
\* stores and hands on.
CatTypeOK ==
  /\ mode \in Modes
  /\ row \in [Txns -> CatRow]
  /\ decision \in [Txns -> {NoValue} \cup Decision]
  /\ vocab \in [stored : Nat, cached : Nat]
  /\ \/ cycle = Rest \/ cycle \in AtModel
     \/ \E S \in SUBSET Txns : cycle \in AtRules(S) \/ cycle \in AtPrompts(S)
  /\ enrich \in {NoValue} \cup [row : Txns, seen : CatRow, text : Texts]
  /\ hand \in [Txns -> Slugs \cup {NoValue}]
  /\ crossed \subseteq Txns
  /\ spent \in [Uploads -> Nat]

\* What the user chose stays. No answer of the model replaces it, however long it
\* was under way; only the shared reference of a transfer does, or a writer that
\* had read the row before the user chose.
HandKept ==
  \A t \in Txns : hand[t] # NoValue => row[t].category = hand[t] \/ t \in crossed

\* However often rows of one statement go back to the model and are asked about
\* again, its prompts stay within the cap.
PromptsCapped == \A u \in Uploads : spent[u] <= Cap
=============================================================================
