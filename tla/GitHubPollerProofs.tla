-------------------------- MODULE GitHubPollerProofs --------------------------
(***************************************************************************)
(* Theorems about GitHubPoller, for any feedback, continuations, passes,   *)
(* workloads and bounds: what passes that overlap, fail and die have       *)
(* recorded is what they have done.                                        *)
(***************************************************************************)
EXTENDS GitHubPoller, ExtremaLemmas, FiniteSetTheorems

(***************************************************************************)
(* The two tables of which the properties speak.                           *)
(***************************************************************************)
Tables ==
  /\ outcome \in [Feedback -> Outcomes \cup {"absent"}]
  /\ ContinuationTypeOK
  /\ listed \subseteq Feedback

\* r has the fields of a pass.
IsPass(r) ==
  r \in [at : {r.at}, items : {r.items}, source : {r.source}, since : {r.since},
         there : {r.there}, todo : {r.todo}, decided : {r.decided}, current : {r.current},
         decision : {r.decision}, snapshot : {r.snapshot}]

Shape == pass = [p \in Passes |-> pass[p]] /\ \A p \in Passes : IsPass(pass[p])

(***************************************************************************)
(* What a pass relies on between two of its steps: what it is about to     *)
(* record has been done, and the decision it carries out is the claimed    *)
(* one, which never changes again.                                         *)
(***************************************************************************)
Answering == {"inspecting", "deciding", "delivered", "alerted", "reported"}

Decided(k) == continuation[k].decision

SentFirst(p) ==
  /\ At(p, "enqueued") => FeedbackKey(Event(p)) \in messages
  /\ At(p, "ambiguous") => RoutingKey(Event(p)) \in escalations

KnowsDecided(p) ==
  At(p, "continuations") \/ pass[p].at \in Answering =>
    /\ pass[p].todo \subseteq Continuations
    /\ pass[p].decided \subseteq Continuations
    /\ \A k \in pass[p].decided : Decided(k) # "none"

CarriesOut(p) ==
  /\ pass[p].at \in Answering => Current(p) \in Continuations
  /\ At(p, "deciding") =>
       Decided(Current(p)) = pass[p].decision /\ pass[p].decision # "none"
  /\ At(p, "delivered") \/ At(p, "alerted") =>
       Decided(Current(p)) = "queue" /\ ContinuationKey(Current(p)) \in messages
  /\ At(p, "reported") =>
       Decided(Current(p)) = "fail" /\ FailedKey(Current(p)) \in escalations

Relies(p) == SentFirst(p) /\ KnowsDecided(p) /\ CarriesOut(p)

PollerInv ==
  /\ Tables /\ Shape
  /\ \A p \in Passes : Relies(p)
  /\ NothingSkipped /\ OutcomeIsBacked /\ AnsweredAsDecided

-----------------------------------------------------------------------------
\* Keys of two kinds differ, and those of one kind tell their subjects apart.
LEMMA Keys ==
  /\ \A e : \A k : FeedbackKey(e) # ContinuationKey(k)
  /\ \A j, k : ContinuationKey(j) = ContinuationKey(k) => j = k
  /\ \A j, k : FailedKey(j) = FailedKey(k) => j = k
  /\ \A e, k : /\ FailedKey(k) # RoutingKey(e) /\ FailedKey(k) # UnavailableKey(e)
               /\ FailedKey(k) # UnreadKey(e) /\ FailedKey(k) # ContinuationWorkerKey(e)
  /\ \A k : FailedKey(k) # CyclesKey
  BY DEF FeedbackKey, ContinuationKey, FailedKey, RoutingKey, UnavailableKey, UnreadKey,
         ContinuationWorkerKey, CyclesKey

\* Alerts about passes and alerts about continuations have different keys.
LEMMA SourceKeyDiffers == \A k, kind : FailedKey(k) # SourceKey(kind)
  BY DEF FailedKey, SourceKey

\* The invariant holds at first: nothing is recorded, decided or sent.
LEMMA InitPoller == Init => PollerInv
  <1> SUFFICES ASSUME Init PROVE PollerInv
    OBVIOUS
  <1> USE DEF Init, FeedbackInit, ContinuationInit
  <1>1. IdlePass.at = "idle" /\ IsPass(IdlePass)
    BY DEF IdlePass, IsPass
  <1>2. Tables
    BY DEF Tables, ContinuationTypeOK, NoContinuation, ContinuationRow
  <1>3. Shape
    BY <1>1 DEF Shape
  <1>4. ASSUME NEW p \in Passes PROVE Relies(p)
    BY <1>1, <1>4 DEF Relies, SentFirst, KnowsDecided, CarriesOut, At, Answering
  <1>5. NothingSkipped /\ OutcomeIsBacked /\ AnsweredAsDecided
    BY DEF NothingSkipped, OutcomeIsBacked, AnsweredAsDecided, NoContinuation
  <1>6. QED
    BY <1>2, <1>3, <1>4, <1>5 DEF PollerInv

-----------------------------------------------------------------------------
(***************************************************************************)
(* What every step does to the tables that passes share: messages,         *)
(* escalations and decisions stay, and nothing is forgotten.               *)
(***************************************************************************)
Grows ==
  /\ messages \subseteq messages' /\ escalations \subseteq escalations'
  /\ \A k \in Continuations : Decided(k) # "none" => Decided(k)' = Decided(k)

\* A step that answers no continuation.
NoAnswer ==
  /\ \A k \in Continuations : ContinuationKey(k) \in messages' => ContinuationKey(k) \in messages
  /\ \A k \in Continuations : FailedKey(k) \in escalations' => FailedKey(k) \in escalations
  /\ \A k \in Continuations : continuation'[k].outcome \in {"queued", "failed"} =>
       continuation'[k].outcome = continuation[k].outcome

\* A pass that becomes a well-formed row keeps the shape of all passes.
LEMMA PassBecomes ==
  ASSUME Shape, NEW p \in Passes, NEW next, Becomes(p, next), IsPass(next)
  PROVE  /\ Shape'
         /\ pass'[p] = next
         /\ \A q \in Passes \ {p} : pass'[q] = pass[q]
  <1>1. /\ pass' = [q \in Passes |-> pass'[q]]
        /\ pass'[p] = next
        /\ \A q \in Passes \ {p} : pass'[q] = pass[q]
    BY DEF Shape, Becomes
  <1>2. \A q \in Passes : IsPass(pass[q])
    BY DEF Shape
  <1>3. ASSUME NEW q \in Passes PROVE IsPass(pass'[q])
    BY <1>1, <1>2
  <1>4. QED
    BY <1>1, <1>3 DEF Shape

\* A pass relies on nothing that another step takes away.
LEMMA OthersRely ==
  ASSUME NEW q \in Passes, Relies(q), Grows, pass'[q] = pass[q]
  PROVE  Relies(q)'
  <1>1. /\ Event(q)' = Event(q) /\ Current(q)' = Current(q)
        /\ \A stage : At(q, stage)' <=> At(q, stage)
    BY DEF Event, Current, At
  <1>2. SentFirst(q)'
    BY <1>1 DEF Relies, SentFirst, Grows, FeedbackKey, RoutingKey
  <1>3. KnowsDecided(q)'
    BY <1>1 DEF Relies, KnowsDecided, Grows
  <1>4. CarriesOut(q)'
    BY <1>1 DEF Relies, CarriesOut, At, Grows, Answering, ContinuationKey, FailedKey, Decided
  <1>5. QED
    BY <1>2, <1>3, <1>4 DEF Relies

\* A step that answers no continuation and takes nothing back keeps the answers.
LEMMA AnswersKept ==
  ASSUME Grows, NoAnswer, AnsweredAsDecided
  PROVE  AnsweredAsDecided'
  BY DEF Grows, NoAnswer, AnsweredAsDecided, Decided, ContinuationKey, FailedKey

\* So does what backs an outcome, as long as the outcomes stay.
LEMMA BackingKept ==
  ASSUME Grows, OutcomeIsBacked, outcome' = outcome
  PROVE  OutcomeIsBacked'
  BY DEF Grows, OutcomeIsBacked, FeedbackKey, RoutingKey

\* What a step must show that leaves outcomes and continuations alone.
LEMMA QuietStep ==
  ASSUME PollerInv, NEW p \in Passes, NEW next, Becomes(p, next), IsPass(next),
         UNCHANGED <<outcome, continuation, listed>>,
         messages \subseteq messages', escalations \subseteq escalations', NoAnswer,
         Relies(p)'
  PROVE  PollerInv'
  <1>1. Shape' /\ \A q \in Passes \ {p} : pass'[q] = pass[q]
    BY PassBecomes DEF PollerInv
  <1>2. Grows
    BY DEF Grows, Decided
  <1>3. \A q \in Passes : Relies(q)'
    BY <1>1, <1>2, OthersRely DEF PollerInv
  <1>4. Tables'
    BY DEF PollerInv, Tables, ContinuationTypeOK
  <1>5. NothingSkipped' /\ OutcomeIsBacked' /\ AnsweredAsDecided'
    BY <1>2, AnswersKept, BackingKept DEF PollerInv, NothingSkipped
  <1>6. QED
    BY <1>1, <1>3, <1>4, <1>5 DEF PollerInv

\* The next poll with some fields replaced is still a poll.
LEMMA Updates ==
  ASSUME NEW r, IsPass(r), NEW stage
  PROVE  LET Is(next) == IsPass(next) /\ next.at = stage
         IN  /\ Is([r EXCEPT !.at = stage])
             /\ [r EXCEPT !.at = stage].todo = r.todo
             /\ [r EXCEPT !.at = stage].decided = r.decided
             /\ [r EXCEPT !.at = stage].current = r.current
             /\ [r EXCEPT !.at = stage].decision = r.decision
  BY DEF IsPass

-----------------------------------------------------------------------------
(***************************************************************************)
(* The feedback of a pass.  At these stages it relies on nothing.          *)
(***************************************************************************)
Free == {"idle", "source", "listing", "routing", "routed", "counted"}

\* A pass that does nothing relies on nothing.
LEMMA FreeRelies ==
  ASSUME NEW p \in Passes, pass'[p].at \in Free PROVE Relies(p)'
  BY DEF Free, Relies, SentFirst, KnowsDecided, CarriesOut, At, Answering

\* Starting a pass and reading events changes no row.
LEMMA ReadSteps ==
  ASSUME PollerInv, NEW p \in Passes, Discover(p) \/ BeginSource(p) \/ ListPending(p)
  PROVE  PollerInv'
  <1>1. PICK next : Becomes(p, next) /\ IsPass(next) /\ next.at \in Free
    <2>1. CASE Discover(p)
      <3>1. PICK items : Becomes(p, [IdlePass EXCEPT !.at = "source", !.items = items,
                                       !.source = IF items = {} THEN Len(Kinds) + 1 ELSE 1])
        BY <2>1 DEF Discover
      <3>2. LET next == [IdlePass EXCEPT !.at = "source", !.items = items,
                           !.source = IF items = {} THEN Len(Kinds) + 1 ELSE 1]
            IN  IsPass(next) /\ next.at \in Free
        BY DEF IsPass, IdlePass, Free
      <3>3. QED
        BY <3>1, <3>2
    <2>2. CASE BeginSource(p)
      <3> DEFINE kind == Kinds[pass[p].source]
                 next == [pass[p] EXCEPT !.at = "listing", !.since = cursor[kind],
                            !.there = visible \cap EventsOf(kind)]
      <3>1. IsPass(pass[p])
        BY DEF PollerInv, Shape
      <3>2. IsPass(next) /\ next.at \in Free
        BY <3>1 DEF IsPass, Free
      <3>3. Becomes(p, next)
        BY <2>2 DEF BeginSource
      <3>4. QED
        BY <3>2, <3>3
    <2>3. CASE ListPending(p)
      <3> DEFINE next == [pass[p] EXCEPT !.at = "routing", !.todo = ToRoute(p)]
      <3>1. IsPass(pass[p])
        BY DEF PollerInv, Shape
      <3>2. IsPass(next) /\ next.at \in Free
        BY <3>1 DEF IsPass, Free
      <3>3. Becomes(p, next)
        BY <2>3 DEF ListPending
      <3>4. QED
        BY <3>2, <3>3
    <2>4. QED
      BY <2>1, <2>2, <2>3
  <1>2. Relies(p)'
    BY <1>1, PassBecomes, FreeRelies DEF PollerInv
  <1>3. UNCHANGED <<outcome, continuation, listed, messages, escalations>>
    BY DEF Discover, BeginSource, ListPending, tablesVars
  <1>4. NoAnswer
    BY <1>3 DEF NoAnswer, ContinuationKey, FailedKey
  <1>5. QED
    BY <1>1, <1>2, <1>3, <1>4, QuietStep

\* Recording an event adds its row, and only then moves the cursor.
LEMMA RecordStep ==
  ASSUME PollerInv, NEW p \in Passes, RecordSource(p) PROVE PollerInv'
  <1> DEFINE kind == Kinds[pass[p].source]
             next == [pass[p] EXCEPT !.at = "source", !.source = @ + 1, !.since = 0, !.there = {}]
  <1>1. PICK pages \in SUBSET (visible \cap EventsOf(kind)) :
          /\ RecordBatch(kind, Unknown(pages, pass[p].since))
          /\ listed' = listed \cup pages
    BY DEF RecordSource
  <1>2. IsPass(pass[p])
    BY DEF PollerInv, Shape
  <1>3. IsPass(next) /\ next.at \in Free
    BY <1>2 DEF IsPass, Free
  <1>4. Becomes(p, next) /\ UNCHANGED <<continuation, messages, escalations>>
    BY DEF RecordSource, NextSource
  <1> HIDE DEF next
  <1>5. Shape' /\ pass'[p] = next /\ \A q \in Passes \ {p} : pass'[q] = pass[q]
    BY <1>3, <1>4, PassBecomes DEF PollerInv
  <1>6. Grows /\ NoAnswer
    BY <1>4 DEF Grows, NoAnswer, Decided, ContinuationKey, FailedKey
  <1>7. \A q \in Passes : Relies(q)'
    BY <1>3, <1>5, <1>6, FreeRelies, OthersRely DEF PollerInv
  <1>8. outcome' = [e \in Feedback |->
                      IF e \in Unknown(pages, pass[p].since) /\ outcome[e] = "absent"
                      THEN "pending" ELSE outcome[e]]
    BY <1>1 DEF RecordBatch
  <1>9. pages \subseteq Feedback
    BY DEF EventsOf
  <1>10. Tables'
    BY <1>1, <1>4, <1>8, <1>9 DEF PollerInv, Tables, ContinuationTypeOK, Outcomes
  <1>11. ASSUME NEW e \in listed' PROVE outcome'[e] # "absent"
    <2>1. CASE e \in pages
      <3>1. e \notin Unknown(pages, pass[p].since) => outcome[e] # "absent"
        BY <2>1 DEF Unknown
      <3>2. QED
        BY <1>8, <1>9, <2>1, <3>1
    <2>2. CASE e \in listed
      BY <1>8, <2>2 DEF PollerInv, Tables, NothingSkipped
    <2>3. QED
      BY <1>1, <1>11, <2>1, <2>2
  <1>12. OutcomeIsBacked'
    BY <1>4, <1>8 DEF PollerInv, OutcomeIsBacked, FeedbackKey, RoutingKey
  <1>13. AnsweredAsDecided'
    BY <1>6, AnswersKept DEF PollerInv
  <1>14. QED
    BY <1>5, <1>7, <1>10, <1>11, <1>12, <1>13 DEF PollerInv, NothingSkipped

\* An outcome is recorded of what has been done.
LEMMA MarkSteps ==
  ASSUME PollerInv, NEW p \in Passes, Ignore(p) \/ MarkEscalated(p) \/ MarkQueued(p)
  PROVE  PollerInv'
  <1>1. PICK result \in {"ignored", "escalated", "queued"} :
          /\ MarkOutcome(Event(p), result)
          /\ result = "queued" => FeedbackKey(Event(p)) \in messages
          /\ result = "escalated" => RoutingKey(Event(p)) \in escalations
    BY DEF Ignore, MarkEscalated, MarkQueued, PollerInv, Relies, SentFirst
  <1>2. PICK next : Becomes(p, next) /\ IsPass(next) /\ next.at \in Free
    <2>1. IsPass(pass[p])
      BY DEF PollerInv, Shape
    <2>2. CASE RoutedEvent(p)
      <3>1. LET next == [pass[p] EXCEPT !.at = "routing", !.todo = @ \ {Event(p)}]
            IN  IsPass(next) /\ next.at \in Free
        BY <2>1 DEF IsPass, Free
      <3>2. QED
        BY <2>2, <3>1 DEF RoutedEvent
    <2>3. CASE Goes(p, "routed")
      <3>1. LET next == [pass[p] EXCEPT !.at = "routed"] IN IsPass(next) /\ next.at \in Free
        BY <2>1 DEF IsPass, Free
      <3>2. QED
        BY <2>3, <3>1 DEF Goes
    <2>4. QED
      BY <2>2, <2>3 DEF Ignore, MarkEscalated, MarkQueued
  <1>3. UNCHANGED <<continuation, messages, escalations, listed>>
    BY DEF Ignore, MarkEscalated, MarkQueued
  <1>4. Shape' /\ pass'[p] = next /\ \A q \in Passes \ {p} : pass'[q] = pass[q]
    BY <1>2, PassBecomes DEF PollerInv
  <1>5. Grows /\ NoAnswer
    BY <1>3 DEF Grows, NoAnswer, Decided, ContinuationKey, FailedKey
  <1>6. \A q \in Passes : Relies(q)'
    BY <1>2, <1>4, <1>5, FreeRelies, OthersRely DEF PollerInv
  <1>7. outcome' = [outcome EXCEPT ![Event(p)] = IF @ = "pending" THEN result ELSE @]
    BY <1>1 DEF MarkOutcome
  <1>8. outcome \in [Feedback -> Outcomes \cup {"absent"}]
    BY DEF PollerInv, Tables
  <1>9. Tables'
    BY <1>1, <1>3, <1>7 DEF PollerInv, Tables, ContinuationTypeOK, Outcomes
  <1>10. NothingSkipped'
    BY <1>1, <1>3, <1>7, <1>8 DEF PollerInv, Tables, NothingSkipped
  <1>11. OutcomeIsBacked'
    <2>1. ASSUME NEW e \in Feedback
          PROVE  /\ outcome'[e] = "queued" => FeedbackKey(e) \in messages
                 /\ outcome'[e] = "escalated" => RoutingKey(e) \in escalations
      <3>1. CASE outcome'[e] = outcome[e]
        BY <3>1 DEF PollerInv, OutcomeIsBacked
      <3>2. CASE e = Event(p) /\ outcome'[e] = result
        BY <1>1, <3>2
      <3>3. QED
        BY <1>7, <1>8, <3>1, <3>2
    <2>2. QED
      BY <1>3, <2>1 DEF OutcomeIsBacked, FeedbackKey, RoutingKey
  <1>12. AnsweredAsDecided'
    BY <1>5, AnswersKept DEF PollerInv
  <1>13. QED
    BY <1>4, <1>6, <1>9, <1>10, <1>11, <1>12 DEF PollerInv

\* An escalation under a key that reports no failed continuation is quiet.
LEMMA OtherEscalation ==
  ASSUME NEW key, \A k \in Continuations : key # FailedKey(k),
         Escalate(key) \/ UNCHANGED escalations, UNCHANGED <<messages, continuation>>
  PROVE  NoAnswer /\ messages \subseteq messages' /\ escalations \subseteq escalations'
  BY DEF NoAnswer, Escalate, ContinuationKey, FailedKey

\* Fields that a step to another stage keeps.
LEMMA GoesKeeps ==
  ASSUME PollerInv, NEW p \in Passes, NEW stage, Goes(p, stage)
  PROVE  LET next == [pass[p] EXCEPT !.at = stage]
         IN  /\ Becomes(p, next) /\ IsPass(next)
             /\ At(p, stage)' /\ pass'[p].decision = pass[p].decision
             /\ pass'[p].todo = pass[p].todo /\ pass'[p].decided = pass[p].decided
             /\ Event(p)' = Event(p) /\ Current(p)' = Current(p)
  <1> DEFINE next == [pass[p] EXCEPT !.at = stage]
  <1>1. IsPass(pass[p])
    BY DEF PollerInv, Shape
  <1>2. /\ IsPass(next) /\ next.at = stage /\ next.decision = pass[p].decision
        /\ next.todo = pass[p].todo /\ next.decided = pass[p].decided
        /\ next.current = pass[p].current
    BY <1>1, Updates
  <1>3. Becomes(p, next)
    BY DEF Goes
  <1> HIDE DEF next
  <1>4. pass'[p] = next
    BY <1>2, <1>3, PassBecomes DEF PollerInv
  <1>5. /\ At(p, stage)' /\ pass'[p].decision = pass[p].decision
        /\ pass'[p].todo = pass[p].todo /\ pass'[p].decided = pass[p].decided
        /\ Event(p)' = Event(p) /\ Current(p)' = Current(p)
    BY <1>2, <1>4 DEF At, Event, Current
  <1>6. QED
    BY <1>2, <1>3, <1>5 DEF next

\* Sending adds messages under keys of their own.
LEMMA SendSteps ==
  ASSUME PollerInv, NEW p \in Passes, EnqueueFeedback(p) \/ EscalateAmbiguous(p)
  PROVE  PollerInv'
  <1>1. PICK stage \in {"enqueued", "ambiguous"} :
          /\ Goes(p, stage)
          /\ stage = "enqueued" => EnqueueFeedback(p)
          /\ stage = "ambiguous" => EscalateAmbiguous(p)
    BY DEF EnqueueFeedback, EscalateAmbiguous
  <1>2. /\ At(p, stage)' /\ Event(p)' = Event(p)
        /\ Becomes(p, [pass[p] EXCEPT !.at = stage]) /\ IsPass([pass[p] EXCEPT !.at = stage])
    BY <1>1, GoesKeeps
  <1>3. /\ UNCHANGED <<outcome, continuation, listed>>
        /\ messages \subseteq messages' /\ escalations \subseteq escalations'
    BY DEF EnqueueFeedback, EscalateAmbiguous, Escalate
  <1>4. NoAnswer
    <2>1. CASE EnqueueFeedback(p)
      BY <2>1, Keys DEF EnqueueFeedback, NoAnswer
    <2>2. CASE EscalateAmbiguous(p)
      BY <2>2, Keys DEF EscalateAmbiguous, Escalate, NoAnswer
    <2>3. QED
      BY <2>1, <2>2
  <1>5. SentFirst(p)'
    <2>1. CASE stage = "enqueued"
      <3>1. FeedbackKey(Event(p)) \in messages'
        BY <1>1, <2>1 DEF EnqueueFeedback
      <3>2. QED
        BY <1>2, <2>1, <3>1 DEF SentFirst, At, FeedbackKey
    <2>2. CASE stage = "ambiguous"
      <3>1. RoutingKey(Event(p)) \in escalations'
        BY <1>1, <2>2 DEF EscalateAmbiguous, Escalate
      <3>2. QED
        BY <1>2, <2>2, <3>1 DEF SentFirst, At, RoutingKey
    <2>3. QED
      BY <2>1, <2>2
  <1>6. Relies(p)'
    BY <1>2, <1>5 DEF Relies, KnowsDecided, CarriesOut, At, Answering
  <1>7. QED
    BY <1>2, <1>3, <1>4, <1>6, QuietStep

\* Steps that escalate under another key at most, and the end of a pass.
LEMMA AlertSteps ==
  ASSUME PollerInv, NEW p \in Passes,
         AlertUnavailable(p) \/ CountCycles(p) \/ SourceFails(p) \/ EndPass(p) \/ Dies(p)
  PROVE  PollerInv'
  <1>1. PICK key : /\ \A k \in Continuations : key # FailedKey(k)
                   /\ Escalate(key) \/ UNCHANGED escalations
    <2>1. CASE AlertUnavailable(p)
      BY <2>1, Keys DEF AlertUnavailable, EscalateIfUnavailable
    <2>2. CASE CountCycles(p)
      BY <2>2, Keys DEF CountCycles
    <2>3. CASE SourceFails(p)
      BY <2>3, SourceKeyDiffers DEF SourceFails
    <2>4. CASE EndPass(p) \/ Dies(p)
      BY <2>4, Keys DEF EndPass, Dies, tablesVars
    <2>5. QED
      BY <2>1, <2>2, <2>3, <2>4
  <1>2. UNCHANGED <<outcome, continuation, listed, messages>>
    BY DEF AlertUnavailable, CountCycles, SourceFails, EndPass, Dies, tablesVars
  <1>3. PICK next : Becomes(p, next) /\ IsPass(next) /\ next.at \in Free
    <2>1. IsPass(pass[p])
      BY DEF PollerInv, Shape
    <2>2. CASE RoutedEvent(p)
      <3>1. LET next == [pass[p] EXCEPT !.at = "routing", !.todo = @ \ {Event(p)}]
            IN  IsPass(next) /\ next.at \in Free
        BY <2>1 DEF IsPass, Free
      <3>2. QED
        BY <2>2, <3>1 DEF RoutedEvent
    <2>3. CASE Goes(p, "counted")
      <3>1. LET next == [pass[p] EXCEPT !.at = "counted"] IN IsPass(next) /\ next.at \in Free
        BY <2>1 DEF IsPass, Free
      <3>2. QED
        BY <2>3, <3>1 DEF Goes
    <2>4. CASE NextSource(p)
      <3>1. LET next == [pass[p] EXCEPT !.at = "source", !.source = @ + 1, !.since = 0,
                           !.there = {}]
            IN  IsPass(next) /\ next.at \in Free
        BY <2>1 DEF IsPass, Free
      <3>2. QED
        BY <2>4, <3>1 DEF NextSource
    <2>5. CASE Ends(p)
      BY <2>5 DEF Ends, IdlePass, IsPass, Free
    <2>6. QED
      BY <2>2, <2>3, <2>4, <2>5 DEF AlertUnavailable, CountCycles, SourceFails, EndPass, Dies
  <1>4. Relies(p)'
    BY <1>3, PassBecomes, FreeRelies DEF PollerInv
  <1>5. NoAnswer /\ messages \subseteq messages' /\ escalations \subseteq escalations'
    BY <1>1, <1>2, OtherEscalation
  <1>6. QED
    BY <1>2, <1>3, <1>4, <1>5, QuietStep

-----------------------------------------------------------------------------
(***************************************************************************)
(* The continuations of a pass.                                            *)
(***************************************************************************)
LEMMA ListStep ==
  ASSUME PollerInv, NEW p \in Passes, ListContinuations(p) PROVE PollerInv'
  <1> DEFINE settled == {k \in PendingContinuations : continuation[k].decision # "none"}
             next == [pass[p] EXCEPT !.at = "continuations", !.todo = PendingContinuations,
                        !.decided = settled]
  <1>1. IsPass(pass[p])
    BY DEF PollerInv, Shape
  <1>2. /\ IsPass(next) /\ next.at = "continuations" /\ next.todo = PendingContinuations
        /\ next.decided = settled
    BY <1>1 DEF IsPass
  <1>3. Becomes(p, next) /\ UNCHANGED <<outcome, continuation, listed, messages, escalations>>
    BY DEF ListContinuations, tablesVars
  <1> HIDE DEF next
  <1>4. pass'[p] = next
    BY <1>2, <1>3, PassBecomes DEF PollerInv
  <1>5. Relies(p)'
    BY <1>2, <1>3, <1>4 DEF Relies, SentFirst, KnowsDecided, CarriesOut, At, Answering,
                            PendingContinuations, Decided
  <1>6. NoAnswer
    BY <1>3 DEF NoAnswer, ContinuationKey, FailedKey
  <1>7. QED
    BY <1>2, <1>3, <1>5, <1>6, QuietStep

\* A continuation pass takes a pending row as it reads it.
LEMMA TakeStep ==
  ASSUME PollerInv, NEW p \in Passes, Take(p) PROVE PollerInv'
  <1>1. PICK k \in pass[p].todo :
          Becomes(p, [pass[p] EXCEPT !.todo = @ \ {k}, !.current = {k},
                        !.at = IF k \in pass[p].decided THEN "deciding" ELSE "inspecting",
                        !.decision = continuation[k].decision])
    BY DEF Take
  <1> DEFINE next == [pass[p] EXCEPT !.todo = @ \ {k}, !.current = {k},
                        !.at = IF k \in pass[p].decided THEN "deciding" ELSE "inspecting",
                        !.decision = continuation[k].decision]
  <1>2. IsPass(pass[p])
    BY DEF PollerInv, Shape
  <1>3. /\ IsPass(next) /\ next.at = IF k \in pass[p].decided THEN "deciding" ELSE "inspecting"
        /\ next.todo = pass[p].todo \ {k} /\ next.decided = pass[p].decided
        /\ next.current = {k} /\ next.decision = continuation[k].decision
    BY <1>2 DEF IsPass
  <1>4. Becomes(p, next) /\ UNCHANGED <<outcome, continuation, listed, messages, escalations>>
    BY <1>1 DEF Take, tablesVars
  <1> HIDE DEF next
  <1>5. pass'[p] = next
    BY <1>3, <1>4, PassBecomes DEF PollerInv
  <1>6. /\ pass[p].todo \subseteq Continuations /\ pass[p].decided \subseteq Continuations
        /\ \A j \in pass[p].decided : Decided(j) # "none"
    BY DEF PollerInv, Relies, KnowsDecided, Take
  <1>7. Current(p)' = k
    BY <1>3, <1>5 DEF Current
  <1>8. SentFirst(p)' /\ KnowsDecided(p)'
    BY <1>3, <1>4, <1>5, <1>6 DEF SentFirst, KnowsDecided, At, Decided
  <1>9. CarriesOut(p)'
    <2>1. /\ Current(p)' \in Continuations
          /\ At(p, "deciding")' => Decided(k)' = pass'[p].decision /\ pass'[p].decision # "none"
      BY <1>3, <1>4, <1>5, <1>6, <1>7 DEF At, Decided
    <2>2. pass'[p].at \in {"deciding", "inspecting"}
      BY <1>3, <1>5
    <2>3. QED
      BY <1>7, <2>1, <2>2 DEF CarriesOut, At, Decided
  <1>10. NoAnswer
    BY <1>4 DEF NoAnswer, ContinuationKey, FailedKey
  <1>11. QED
    BY <1>3, <1>4, <1>8, <1>9, <1>10, QuietStep DEF Relies

\* Reading the pull request changes no row.
LEMMA PullSteps ==
  ASSUME PollerInv, NEW p \in Passes, ReadPull(p) \/ ReadFails(p) PROVE PollerInv'
  <1>1. PICK read : Becomes(p, [pass[p] EXCEPT !.snapshot = read])
    BY DEF ReadPull, ReadFails
  <1> DEFINE next == [pass[p] EXCEPT !.snapshot = read]
  <1>2. IsPass(pass[p])
    BY DEF PollerInv, Shape
  <1>3. /\ IsPass(next) /\ next.at = pass[p].at /\ next.todo = pass[p].todo
        /\ next.decided = pass[p].decided /\ next.current = pass[p].current
    BY <1>2 DEF IsPass
  <1>4. Becomes(p, next) /\ UNCHANGED <<outcome, continuation, listed, messages, escalations>>
    BY <1>1 DEF ReadPull, ReadFails, tablesVars
  <1> HIDE DEF next
  <1>5. pass'[p] = next
    BY <1>3, <1>4, PassBecomes DEF PollerInv
  <1>6. pass[p].at = "inspecting" /\ pass'[p].at = "inspecting"
    BY <1>3, <1>5 DEF ReadPull, ReadFails, At
  <1>7. SentFirst(p)' /\ KnowsDecided(p)'
    BY <1>3, <1>4, <1>5, <1>6
       DEF PollerInv, Relies, SentFirst, KnowsDecided, At, Decided, Answering
  <1>8. Current(p) \in Continuations /\ Current(p)' = Current(p)
    BY <1>3, <1>5, <1>6 DEF PollerInv, Relies, CarriesOut, Answering, Current
  <1>9. CarriesOut(p)'
    BY <1>6, <1>8 DEF CarriesOut, At
  <1>10. NoAnswer
    BY <1>4 DEF NoAnswer, ContinuationKey, FailedKey
  <1>11. QED
    BY <1>3, <1>4, <1>7, <1>9, <1>10, QuietStep DEF Relies

\* A pass that is done with a continuation relies only on what it has listed.
LEMMA CompletedRelies ==
  ASSUME PollerInv, NEW p \in Passes, pass[p].at \in Answering, Completed(p), Grows
  PROVE  (\E next : Becomes(p, next) /\ IsPass(next)) /\ Relies(p)'
  <1> DEFINE next == [pass[p] EXCEPT !.at = "continuations", !.current = {}, !.decision = "none"]
  <1>1. IsPass(pass[p])
    BY DEF PollerInv, Shape
  <1>2. /\ IsPass(next) /\ next.at = "continuations" /\ next.todo = pass[p].todo
        /\ next.decided = pass[p].decided
    BY <1>1 DEF IsPass
  <1>3. Becomes(p, next)
    BY DEF Completed
  <1> HIDE DEF next
  <1>4. pass'[p] = next
    BY <1>2, <1>3, PassBecomes DEF PollerInv
  <1>5. SentFirst(p)' /\ CarriesOut(p)'
    BY <1>2, <1>4 DEF SentFirst, CarriesOut, At, Answering
  <1>6. KnowsDecided(p)'
    BY <1>2, <1>4 DEF PollerInv, Relies, KnowsDecided, Grows
  <1>7. QED
    BY <1>2, <1>3, <1>5, <1>6 DEF Relies

\* One that goes on to carry out a decision carries out the claimed one.
LEMMA CompletesRelies ==
  ASSUME PollerInv, NEW p \in Passes, pass[p].at \in Answering, NEW row, Completes(p, row), Grows,
         row.decision = continuation'[Current(p)].decision
  PROVE  (\E next : Becomes(p, next) /\ IsPass(next)) /\ Relies(p)'
  <1>1. CASE row.outcome = "pending" /\ row.decision # "none"
    <2> DEFINE next == [pass[p] EXCEPT !.at = "deciding", !.decision = row.decision]
    <2>1. IsPass(pass[p])
      BY DEF PollerInv, Shape
    <2>2. /\ IsPass(next) /\ next.at = "deciding" /\ next.todo = pass[p].todo
          /\ next.decided = pass[p].decided /\ next.current = pass[p].current
          /\ next.decision = row.decision
      BY <2>1 DEF IsPass
    <2>3. Becomes(p, next)
      BY <1>1 DEF Completes
    <2> HIDE DEF next
    <2>4. pass'[p] = next
      BY <2>2, <2>3, PassBecomes DEF PollerInv
    <2>5. Current(p) \in Continuations /\ Current(p)' = Current(p)
      BY <2>2, <2>4 DEF PollerInv, Relies, CarriesOut, Current
    <2>6. SentFirst(p)'
      BY <2>2, <2>4 DEF SentFirst, At
    <2>7. KnowsDecided(p)'
      BY <2>2, <2>4 DEF PollerInv, Relies, KnowsDecided, Grows
    <2>8. CarriesOut(p)'
      BY <1>1, <2>2, <2>4, <2>5 DEF CarriesOut, At, Decided
    <2>9. QED
      BY <2>2, <2>3, <2>6, <2>7, <2>8 DEF Relies
  <1>2. CASE ~(row.outcome = "pending" /\ row.decision # "none")
    BY <1>2, CompletedRelies DEF Completes
  <1>3. QED
    BY <1>1, <1>2

\* A pull request that cannot be read decides nothing.
LEMMA UnreadStep ==
  ASSUME PollerInv, NEW p \in Passes, Unread(p) PROVE PollerInv'
  <1>1. /\ pass[p].at \in Answering
        /\ UNCHANGED <<outcome, continuation, listed, messages>>
        /\ Current(p) \in Continuations
    BY DEF Unread, At, Answering, PollerInv, Relies, CarriesOut
  <1>2. NoAnswer /\ messages \subseteq messages' /\ escalations \subseteq escalations'
    <2>1. Escalate(UnreadKey(Current(p))) \/ UNCHANGED escalations
      BY DEF Unread
    <2>2. \A k \in Continuations : UnreadKey(Current(p)) # FailedKey(k)
      BY Keys
    <2>3. QED
      BY <1>1, <2>1, <2>2, OtherEscalation
  <1>3. Grows
    BY <1>1, <1>2 DEF Grows, Decided
  <1>4. (\E next : Becomes(p, next) /\ IsPass(next)) /\ Relies(p)'
    <2>1. CASE continuation[Current(p)].decision = "none"
      BY <1>1, <1>3, <2>1, CompletedRelies DEF Unread
    <2>2. CASE continuation[Current(p)].decision # "none"
      <3>1. Completes(p, continuation[Current(p)])
        BY <2>2 DEF Unread
      <3>2. QED
        BY <1>1, <1>3, <3>1, CompletesRelies
    <2>3. QED
      BY <2>1, <2>2
  <1>5. QED
    BY <1>1, <1>2, <1>4, QuietStep

-----------------------------------------------------------------------------
\* What a step must show that changes one continuation and nothing else.
LEMMA RowStep ==
  ASSUME PollerInv, NEW p \in Passes, NEW k \in Continuations, NEW row \in ContinuationRow,
         continuation' = [continuation EXCEPT ![k] = row],
         Decided(k) # "none" => row.decision = Decided(k),
         row.outcome = continuation[k].outcome
           \/ (row.outcome = "queued" /\ ContinuationKey(k) \in messages)
           \/ (row.outcome = "failed" /\ FailedKey(k) \in escalations),
         UNCHANGED <<outcome, listed, messages, escalations>>,
         \E next : Becomes(p, next) /\ IsPass(next),
         Grows => Relies(p)'
  PROVE  PollerInv'
  <1>1. /\ continuation \in [Continuations -> ContinuationRow]
        /\ continuation' \in [Continuations -> ContinuationRow]
        /\ continuation'[k] = row
        /\ \A j \in Continuations \ {k} : continuation'[j] = continuation[j]
    BY DEF PollerInv, Tables, ContinuationTypeOK
  <1>2. Grows
    BY <1>1 DEF Grows, Decided
  <1>3. Shape' /\ \A q \in Passes \ {p} : pass'[q] = pass[q]
    BY PassBecomes DEF PollerInv
  <1>4. \A q \in Passes : Relies(q)'
    BY <1>2, <1>3, OthersRely DEF PollerInv
  <1>5. Tables' /\ NothingSkipped' /\ OutcomeIsBacked'
    BY <1>1, <1>2, BackingKept DEF PollerInv, Tables, ContinuationTypeOK, NothingSkipped
  <1>6. ASSUME NEW j \in Continuations
        PROVE  /\ ContinuationKey(j) \in messages => continuation'[j].decision = "queue"
               /\ FailedKey(j) \in escalations => continuation'[j].decision = "fail"
               /\ continuation'[j].outcome = "queued" => ContinuationKey(j) \in messages
               /\ continuation'[j].outcome = "failed" => FailedKey(j) \in escalations
    <2>1. /\ ContinuationKey(j) \in messages => continuation[j].decision = "queue"
          /\ FailedKey(j) \in escalations => continuation[j].decision = "fail"
          /\ continuation[j].outcome = "queued" => ContinuationKey(j) \in messages
          /\ continuation[j].outcome = "failed" => FailedKey(j) \in escalations
      BY DEF PollerInv, AnsweredAsDecided
    <2>2. CASE j = k
      BY <1>1, <2>1, <2>2 DEF Decided
    <2>3. CASE j # k
      BY <1>1, <2>1, <2>3
    <2>4. QED
      BY <2>2, <2>3
  <1>7. AnsweredAsDecided'
    BY <1>6 DEF AnsweredAsDecided, ContinuationKey, FailedKey
  <1>8. QED
    BY <1>3, <1>4, <1>5, <1>7 DEF PollerInv

\* A verdict is one a decided row can hold.
LEMMA VerdictType ==
  ASSUME NEW k \in Continuations, NEW read \in Pull
  PROVE  Verdict(k, read) \in {"none", "queue", "fail"}
  BY DEF Verdict, Transition, Pull

\* A verdict is recorded in the row before it is acted upon.
LEMMA DecideStep ==
  ASSUME PollerInv, NEW p \in Passes, Decide(p) PROVE PollerInv'
  <1> DEFINE k == Current(p)
             verdict == Verdict(k, pass[p].snapshot)
             row == IF verdict = "none" THEN continuation[k]
                    ELSE DecidedRow(continuation[k], verdict)
  <1>1. pass[p].at \in Answering /\ k \in Continuations
    BY DEF Decide, At, Answering, PollerInv, Relies, CarriesOut
  <1>2. verdict \in {"none", "queue", "fail"}
    BY <1>1, VerdictType DEF Decide
  <1>3. continuation \in [Continuations -> ContinuationRow]
    BY DEF PollerInv, Tables, ContinuationTypeOK
  <1>4. continuation' = [continuation EXCEPT ![k] = row]
    BY <1>1, <1>3 DEF Decide, ClaimDecision
  <1>5. Completes(p, row)
    BY <1>1, <1>3, <1>4 DEF Decide
  <1>6. /\ row \in ContinuationRow /\ row.outcome = continuation[k].outcome
        /\ Decided(k) # "none" => row.decision = Decided(k)
    BY <1>1, <1>2, <1>3 DEF DecidedRow, ContinuationRow, Decided
  <1>7. UNCHANGED <<outcome, listed, messages, escalations>>
    BY DEF Decide
  <1> HIDE DEF row
  <1>8. row.decision = continuation'[k].decision
    BY <1>1, <1>3, <1>4
  <1>9. Grows
    BY <1>1, <1>3, <1>4, <1>6, <1>7 DEF Grows, Decided
  <1>10. (\E next : Becomes(p, next) /\ IsPass(next)) /\ Relies(p)'
    BY <1>1, <1>5, <1>8, <1>9, CompletesRelies
  <1>11. QED
    BY <1>1, <1>4, <1>6, <1>7, <1>10, RowStep

\* The message or the escalation of a claimed decision.
LEMMA AnswerSteps ==
  ASSUME PollerInv, NEW p \in Passes,
         EnqueueContinuation(p) \/ EscalateFailed(p) \/ AlertContinuation(p)
  PROVE  PollerInv'
  <1> DEFINE k == Current(p)
  <1>1. PICK stage \in {"delivered", "reported", "alerted"} :
          /\ Goes(p, stage)
          /\ stage = "delivered" => EnqueueContinuation(p)
          /\ stage = "reported" => EscalateFailed(p)
          /\ stage = "alerted" => AlertContinuation(p)
    BY DEF EnqueueContinuation, EscalateFailed, AlertContinuation
  <1>2. /\ At(p, stage)' /\ Current(p)' = k /\ pass'[p].todo = pass[p].todo
        /\ pass'[p].decided = pass[p].decided
        /\ Becomes(p, [pass[p] EXCEPT !.at = stage]) /\ IsPass([pass[p] EXCEPT !.at = stage])
    BY <1>1, GoesKeeps
  <1>3. /\ UNCHANGED <<outcome, continuation, listed>>
        /\ messages \subseteq messages' /\ escalations \subseteq escalations'
    BY DEF EnqueueContinuation, EscalateFailed, AlertContinuation, Escalate, EscalateIfUnavailable
  <1>4. /\ pass[p].at \in Answering /\ k \in Continuations
        /\ At(p, "deciding") => Decided(k) = pass[p].decision
        /\ At(p, "delivered") => Decided(k) = "queue" /\ ContinuationKey(k) \in messages
    BY DEF EnqueueContinuation, EscalateFailed, AlertContinuation, At, Answering,
           PollerInv, Relies, CarriesOut
  <1>5. Grows
    BY <1>3 DEF Grows, Decided
  <1>6. /\ stage = "delivered" => Decided(k) = "queue" /\ ContinuationKey(k) \in messages'
        /\ stage = "alerted" => Decided(k) = "queue" /\ ContinuationKey(k) \in messages'
        /\ stage = "reported" => Decided(k) = "fail" /\ FailedKey(k) \in escalations'
    BY <1>1, <1>3, <1>4
       DEF EnqueueContinuation, EscalateFailed, AlertContinuation, Escalate, At
  <1>7. Relies(p)'
    <2>1. SentFirst(p)'
      BY <1>1, <1>2 DEF SentFirst, At
    <2>2. KnowsDecided(p)'
      BY <1>2, <1>4, <1>5 DEF PollerInv, Relies, KnowsDecided, Grows
    <2>3. CarriesOut(p)'
      BY <1>1, <1>2, <1>3, <1>4, <1>6 DEF CarriesOut, At, Decided, ContinuationKey, FailedKey
    <2>4. QED
      BY <2>1, <2>2, <2>3 DEF Relies
  <1>8. AnsweredAsDecided'
    <2>1. ASSUME NEW j \in Continuations
          PROVE  /\ ContinuationKey(j) \in messages' => Decided(j) = "queue"
                 /\ FailedKey(j) \in escalations' => Decided(j) = "fail"
      <3>1. /\ ContinuationKey(j) \in messages => Decided(j) = "queue"
            /\ FailedKey(j) \in escalations => Decided(j) = "fail"
        BY DEF PollerInv, AnsweredAsDecided, Decided
      <3>2. CASE EnqueueContinuation(p)
        <4>1. Decided(k) = "queue"
          BY <1>4, <3>2 DEF EnqueueContinuation
        <4>2. QED
          BY <3>1, <3>2, <4>1, Keys DEF EnqueueContinuation
      <3>3. CASE EscalateFailed(p)
        <4>1. Decided(k) = "fail"
          BY <1>4, <3>3 DEF EscalateFailed
        <4>2. QED
          BY <3>1, <3>3, <4>1, Keys DEF EscalateFailed, Escalate
      <3>4. CASE AlertContinuation(p)
        BY <3>1, <3>4, Keys DEF AlertContinuation, EscalateIfUnavailable, Escalate
      <3>5. QED
        BY <3>2, <3>3, <3>4
    <2>2. QED
      BY <1>3, <2>1 DEF PollerInv, AnsweredAsDecided, Decided, ContinuationKey, FailedKey
  <1>9. Shape' /\ \A q \in Passes : Relies(q)'
    BY <1>2, <1>5, <1>7, PassBecomes, OthersRely DEF PollerInv
  <1>10. Tables' /\ NothingSkipped' /\ OutcomeIsBacked'
    BY <1>3, <1>5, BackingKept DEF PollerInv, Tables, ContinuationTypeOK, NothingSkipped
  <1>11. QED
    BY <1>8, <1>9, <1>10 DEF PollerInv

\* A row is completed by the pass that carried its decision out.
LEMMA FinishSteps ==
  ASSUME PollerInv, NEW p \in Passes, FinishQueued(p) \/ FinishFailed(p)
  PROVE  PollerInv'
  <1> DEFINE k == Current(p)
  <1>1. PICK result \in {"queued", "failed"} :
          /\ FinishDecision(k, result)
          /\ result = "queued" => FinishQueued(p)
          /\ result = "failed" => FinishFailed(p)
    BY DEF FinishQueued, FinishFailed
  <1>2. /\ pass[p].at \in Answering /\ k \in Continuations
        /\ result = "queued" => ContinuationKey(k) \in messages
        /\ result = "failed" => FailedKey(k) \in escalations
    BY <1>1 DEF FinishQueued, FinishFailed, At, Answering, PollerInv, Relies, CarriesOut
  <1>3. continuation \in [Continuations -> ContinuationRow]
    BY DEF PollerInv, Tables, ContinuationTypeOK
  <1>4. PICK row \in {continuation[k], [continuation[k] EXCEPT !.outcome = result]} :
          continuation' = [continuation EXCEPT ![k] = row]
    BY <1>1, <1>2, <1>3 DEF FinishDecision
  <1>5. /\ row \in ContinuationRow /\ row.decision = Decided(k)
        /\ row.outcome = continuation[k].outcome \/ row.outcome = result
    BY <1>1, <1>2, <1>3, <1>4 DEF ContinuationRow, Decided
  <1>6. UNCHANGED <<outcome, listed, messages, escalations>> /\ Completed(p)
    BY DEF FinishQueued, FinishFailed
  <1>7. Grows
    BY <1>2, <1>3, <1>4, <1>5, <1>6 DEF Grows, Decided
  <1>8. (\E next : Becomes(p, next) /\ IsPass(next)) /\ Relies(p)'
    BY <1>2, <1>6, <1>7, CompletedRelies
  <1>9. /\ Decided(k) # "none" => row.decision = Decided(k)
        /\ \/ row.outcome = continuation[k].outcome
           \/ row.outcome = "queued" /\ ContinuationKey(k) \in messages
           \/ row.outcome = "failed" /\ FailedKey(k) \in escalations
    BY <1>1, <1>2, <1>5
  <1>10. QED
    BY <1>2, <1>4, <1>5, <1>6, <1>8, <1>9, RowStep

-----------------------------------------------------------------------------
(***************************************************************************)
(* GitHub and the agents, and the theorems.                                *)
(***************************************************************************)
LEMMA OtherSteps ==
  ASSUME PollerInv,
         \/ \E p \in Passes : DiscoverFails(p)
         \/ \E e \in Feedback : Appear(e)
         \/ \E k \in Continuations : RegisterContinuation(k)
         \/ PullMoves
         \/ UNCHANGED vars
  PROVE  PollerInv'
  <1>1. UNCHANGED <<outcome, messages, escalations, pass, listed>>
    BY DEF DiscoverFails, Appear, RegisterContinuation, PullMoves, vars, tablesVars
  <1>2. \/ UNCHANGED continuation
        \/ \E k \in Continuations : Register(k)
    BY DEF DiscoverFails, Appear, RegisterContinuation, PullMoves, vars, tablesVars
  <1>3. continuation \in [Continuations -> ContinuationRow]
    BY DEF PollerInv, Tables, ContinuationTypeOK
  <1>4. /\ continuation' \in [Continuations -> ContinuationRow]
        /\ \A k \in Continuations :
             /\ continuation'[k].decision = continuation[k].decision
             /\ continuation'[k].outcome \in {"queued", "failed"} =>
                  continuation'[k].outcome = continuation[k].outcome
    BY <1>2, <1>3 DEF Register, ContinuationRow
  <1>5. Grows /\ NoAnswer
    BY <1>1, <1>4 DEF Grows, NoAnswer, Decided, ContinuationKey, FailedKey
  <1>6. Shape' /\ \A q \in Passes : Relies(q)'
    <2>1. Shape'
      BY <1>1 DEF PollerInv, Shape, IsPass
    <2>2. QED
      BY <1>1, <1>5, <2>1, OthersRely DEF PollerInv
  <1>7. Tables' /\ NothingSkipped' /\ OutcomeIsBacked'
    BY <1>1, <1>4, <1>5, BackingKept DEF PollerInv, Tables, ContinuationTypeOK, NothingSkipped
  <1>8. QED
    BY <1>5, <1>6, <1>7, AnswersKept DEF PollerInv

\* Every step keeps the invariant.
LEMMA PollerInductive == PollerInv /\ [Next]_vars => PollerInv'
  <1> SUFFICES ASSUME PollerInv, [Next]_vars PROVE PollerInv'
    OBVIOUS
  <1>1. ASSUME NEW p \in Passes, FeedbackStep(p) \/ SourceFails(p) \/ Dies(p) PROVE PollerInv'
    BY <1>1, ReadSteps, RecordStep, MarkSteps, SendSteps, AlertSteps DEF FeedbackStep
  <1>2. ASSUME NEW p \in Passes, ContinuationStep(p) \/ ReadFails(p) PROVE PollerInv'
    BY <1>2, ListStep, TakeStep, PullSteps, UnreadStep, DecideStep, AnswerSteps, FinishSteps,
       AlertSteps DEF ContinuationStep
  <1>3. QED
    BY <1>1, <1>2, OtherSteps DEF Next, PassStep

\* It holds in every reachable state.
LEMMA PollerInvariant == Spec => []PollerInv
  BY InitPoller, PollerInductive, PTL DEF Spec

\* recordBatch: what a pass has listed is recorded, also behind the cursor.
THEOREM Recorded == Spec => []NothingSkipped
  <1>1. PollerInv => NothingSkipped
    BY DEF PollerInv
  <1>2. QED
    BY <1>1, PollerInvariant, PTL

\* #routeEvent: a queued event has its message and an escalated one its
\* escalation, wherever a pass dies: the outcome is recorded last.
THEOREM Backed == Spec => []OutcomeIsBacked
  <1>1. PollerInv => OutcomeIsBacked
    BY DEF PollerInv
  <1>2. QED
    BY <1>1, PollerInvariant, PTL

\* claimDecision and finishDecision: a continuation is never both delivered and
\* reported as failed.  The decision is claimed once, and a pass carries out the
\* claimed one, not its own.
THEOREM Answered == Spec => []AnsweredAsDecided
  <1>1. PollerInv => AnsweredAsDecided
    BY DEF PollerInv
  <1>2. QED
    BY <1>1, PollerInvariant, PTL

-----------------------------------------------------------------------------
(***************************************************************************)
(* Passes that run one after another, and never die.  At most one pass is  *)
(* at work, so what it has listed stays pending until it comes to it.      *)
(***************************************************************************)
InHand == {"enqueued", "ambiguous"}

Sent == {"routed", "counted"}

Holds(p) ==
  /\ pass[p].at \in InHand \cup {"routing"} => pass[p].todo \subseteq Pending
  /\ pass[p].at \in InHand => Event(p) \in pass[p].todo
  /\ pass[p].at \in Sent => pass[p].todo \ {Event(p)} \subseteq Pending

Alone == \A p, q \in Passes : ~At(p, "idle") /\ ~At(q, "idle") => p = q

\* A pass is between the two writes about event e.
Handled(e, stage) == \E p \in Passes : At(p, stage) /\ Event(p) = e

SentOnce ==
  \A e \in Feedback :
    /\ FeedbackKey(e) \in messages => outcome[e] = "queued" \/ Handled(e, "enqueued")
    /\ RoutingKey(e) \in escalations => outcome[e] = "escalated" \/ Handled(e, "ambiguous")

Cycles == {e \in Feedback : RequestsChanges(e) /\ outcome[e] = "queued"}

\* A pass has recorded a cycle and still has to compare their number.
Counting ==
  \E p \in Passes : At(p, "counted") \/ (At(p, "routed") /\ RequestsChanges(Event(p)))

CyclesTold ==
  /\ IsFiniteSet(Cycles)
  /\ \/ CyclesKey \in escalations
     \/ Cardinality(Cycles) < Threshold
     \/ Cardinality(Cycles) = Threshold /\ Counting

InSeries == Alone /\ (\A p \in Passes : Holds(p)) /\ SentOnce /\ CyclesTold

SeriesInv == serial => InSeries

\* listPending's order: the first of some events is one of them.
LEMMA FirstIsOne ==
  ASSUME NEW events \in SUBSET Feedback, events # {}
  PROVE  FirstOf(events) \in events
  <1> DEFINE times == {Content[e].createdAt : e \in events}
  <1>1. times \in SUBSET Nat /\ times # {}
    BY FeedbackAssumption DEF ContentRow
  <1>2. Min(times) \in times /\ \A t \in times : Min(times) <= t
    BY <1>1, MinOfNats
  <1>3. \E e \in events : \A f \in events : Content[e].createdAt <= Content[f].createdAt
    BY <1>2
  <1>4. QED
    BY <1>3 DEF FirstOf

\* The keys of routed events are told from each other and from all others.
LEMMA RoutingKeys ==
  /\ \A e, f : FeedbackKey(e) = FeedbackKey(f) => e = f
  /\ \A e, f : RoutingKey(e) = RoutingKey(f) => e = f
  /\ \A e, k : FeedbackKey(e) # ContinuationKey(k)
  /\ \A e, k : /\ RoutingKey(e) # UnavailableKey(k) /\ RoutingKey(e) # UnreadKey(k)
               /\ RoutingKey(e) # ContinuationWorkerKey(k) /\ RoutingKey(e) # FailedKey(k)
  /\ \A e : RoutingKey(e) # CyclesKey
  /\ \A e, kind : RoutingKey(e) # SourceKey(kind)
  BY DEF FeedbackKey, ContinuationKey, RoutingKey, UnavailableKey, UnreadKey,
         ContinuationWorkerKey, FailedKey, CyclesKey, SourceKey

\* While one pass works, the others have nothing in hand.
LEMMA OnlyActor ==
  ASSUME Alone, NEW p \in Passes, ~At(p, "idle") \/ \A q \in Passes : At(q, "idle")
  PROVE  \A q \in Passes \ {p} : pass[q].at = "idle"
  BY DEF Alone, At

\* A pass that works alone goes on alone.
LEMMA StaysAlone ==
  ASSUME PollerInv, InSeries, NEW p \in Passes, NEW next, Becomes(p, next), IsPass(next),
         ~At(p, "idle") \/ \A q \in Passes : At(q, "idle"),
         Holds(p)'
  PROVE  /\ pass'[p] = next
         /\ \A q \in Passes \ {p} : pass[q].at = "idle" /\ pass'[q].at = "idle"
         /\ Alone' /\ \A q \in Passes : Holds(q)'
  <1>1. pass'[p] = next /\ \A q \in Passes \ {p} : pass'[q] = pass[q]
    BY PassBecomes DEF PollerInv
  <1>2. \A q \in Passes \ {p} : pass[q].at = "idle"
    BY OnlyActor DEF InSeries
  <1>3. \A q \in Passes \ {p} : pass'[q].at = "idle"
    BY <1>1, <1>2
  <1>4. Alone'
    BY <1>3 DEF Alone, At
  <1>5. \A q \in Passes : Holds(q)'
    BY <1>3 DEF Holds, InHand, Sent
  <1>6. QED
    BY <1>1, <1>2, <1>3, <1>4, <1>5

\* What is told of events stays as it is.
SameFates ==
  /\ \A e \in Feedback :
       /\ outcome'[e] = "queued" <=> outcome[e] = "queued"
       /\ outcome'[e] = "escalated" <=> outcome[e] = "escalated"
       /\ FeedbackKey(e) \in messages' => FeedbackKey(e) \in messages
       /\ RoutingKey(e) \in escalations' => RoutingKey(e) \in escalations
  /\ escalations \subseteq escalations'

\* A step between stages where a pass has nothing in hand.
LEMMA EmptyHanded ==
  ASSUME PollerInv, InSeries, NEW p \in Passes, NEW next, Becomes(p, next), IsPass(next),
         ~At(p, "idle") \/ \A q \in Passes : At(q, "idle"),
         pass[p].at \notin InHand \cup Sent, next.at \notin InHand \cup Sent,
         Holds(p)', SameFates
  PROVE  InSeries'
  <1>1. /\ pass'[p] = next
        /\ \A q \in Passes \ {p} : pass[q].at = "idle" /\ pass'[q].at = "idle"
        /\ Alone' /\ \A q \in Passes : Holds(q)'
    BY StaysAlone
  <1>2. \A e \in Feedback : ~Handled(e, "enqueued") /\ ~Handled(e, "ambiguous")
    BY <1>1 DEF Handled, At, InHand
  <1>3. ~Counting
    BY <1>1 DEF Counting, At, Sent
  <1>4. SentOnce'
    BY <1>2 DEF InSeries, SentOnce, SameFates, FeedbackKey, RoutingKey
  <1>5. Cycles' = Cycles
    BY DEF Cycles, SameFates, RequestsChanges
  <1>6. CyclesTold'
    BY <1>3, <1>5 DEF InSeries, CyclesTold, SameFates, CyclesKey
  <1>7. QED
    BY <1>1, <1>4, <1>6 DEF InSeries

\* A pass that is neither routing nor has something in hand holds nothing.
LEMMA HoldsNothing ==
  ASSUME NEW p \in Passes, pass'[p].at \notin InHand \cup Sent \cup {"routing"}
  PROVE  Holds(p)'
  BY DEF Holds

\* Steps that leave the tables of events alone.
LEMMA SeriesReads ==
  ASSUME PollerInv, InSeries, serial', NEW p \in Passes,
         Discover(p) \/ BeginSource(p) \/ ListPending(p) \/ ListContinuations(p) \/ EndPass(p)
  PROVE  InSeries'
  <1>1. IsPass(pass[p])
    BY DEF PollerInv, Shape
  <1>2. SameFates
    BY DEF Discover, BeginSource, ListPending, ListContinuations, EndPass, tablesVars, SameFates,
           FeedbackKey, RoutingKey
  <1>3. ~At(p, "idle") \/ \A q \in Passes : At(q, "idle")
    BY DEF Discover, BeginSource, ListPending, ListContinuations, EndPass, At
  <1>4. pass[p].at \notin InHand \cup Sent
    BY DEF Discover, BeginSource, ListPending, ListContinuations, EndPass, At, InHand, Sent
  <1>5. ASSUME NEW next, Becomes(p, next), IsPass(next),
               next.at \in {"idle", "source", "listing", "continuations"}
        PROVE  InSeries'
    <2>1. Holds(p)'
      BY <1>5, PassBecomes, HoldsNothing DEF PollerInv, InHand, Sent
    <2>2. QED
      BY <1>2, <1>3, <1>4, <1>5, <2>1, EmptyHanded DEF InHand, Sent
  <1>6. CASE Discover(p)
    <2>1. PICK items : Becomes(p, [IdlePass EXCEPT !.at = "source", !.items = items,
                                     !.source = IF items = {} THEN Len(Kinds) + 1 ELSE 1])
      BY <1>6 DEF Discover
    <2> DEFINE next == [IdlePass EXCEPT !.at = "source", !.items = items,
                          !.source = IF items = {} THEN Len(Kinds) + 1 ELSE 1]
    <2>2. IsPass(next) /\ next.at = "source"
      BY DEF IsPass, IdlePass
    <2> HIDE DEF next
    <2>3. QED
      BY <1>5, <2>1, <2>2 DEF next
  <1>7. CASE BeginSource(p)
    <2> DEFINE kind == Kinds[pass[p].source]
               next == [pass[p] EXCEPT !.at = "listing", !.since = cursor[kind],
                          !.there = visible \cap EventsOf(kind)]
    <2>1. IsPass(next) /\ next.at = "listing"
      BY <1>1 DEF IsPass
    <2>2. Becomes(p, next)
      BY <1>7 DEF BeginSource
    <2>3. QED
      BY <1>5, <2>1, <2>2
  <1>8. CASE ListPending(p)
    <2> DEFINE next == [pass[p] EXCEPT !.at = "routing", !.todo = Pending]
    <2>1. IsPass(next) /\ next.at = "routing" /\ next.todo = Pending
      BY <1>1 DEF IsPass
    <2>2. Becomes(p, next) /\ outcome' = outcome
      BY <1>8 DEF ListPending, ToRoute, tablesVars
    <2> HIDE DEF next
    <2>3. Holds(p)'
      BY <2>1, <2>2, PassBecomes DEF PollerInv, Holds, InHand, Sent, Pending
    <2>4. QED
      BY <1>2, <1>3, <1>4, <2>1, <2>2, <2>3, EmptyHanded DEF InHand, Sent
  <1>9. CASE ListContinuations(p)
    <2> DEFINE settled == {k \in PendingContinuations : continuation[k].decision # "none"}
               next == [pass[p] EXCEPT !.at = "continuations", !.todo = PendingContinuations,
                          !.decided = settled]
    <2>1. IsPass(next) /\ next.at = "continuations"
      BY <1>1 DEF IsPass
    <2>2. Becomes(p, next)
      BY <1>9 DEF ListContinuations
    <2>3. QED
      BY <1>5, <2>1, <2>2
  <1>10. CASE EndPass(p)
    <2>1. IsPass(IdlePass) /\ IdlePass.at = "idle"
      BY DEF IsPass, IdlePass
    <2>2. QED
      BY <1>5, <1>10, <2>1 DEF EndPass, Ends
  <1>11. QED
    BY <1>6, <1>7, <1>8, <1>9, <1>10

\* A pass that goes on to its next source has nothing in hand.
LEMMA NextSourceRow ==
  ASSUME PollerInv, NEW p \in Passes, NextSource(p)
  PROVE  \E next : Becomes(p, next) /\ IsPass(next) /\ next.at = "source"
  <1> DEFINE next == [pass[p] EXCEPT !.at = "source", !.source = @ + 1, !.since = 0, !.there = {}]
  <1>1. IsPass(pass[p])
    BY DEF PollerInv, Shape
  <1>2. IsPass(next) /\ next.at = "source"
    BY <1>1 DEF IsPass
  <1>3. QED
    BY <1>2 DEF NextSource

\* Reading a source records new events as pending, or reports the failure.
LEMMA SeriesSources ==
  ASSUME PollerInv, InSeries, NEW p \in Passes, RecordSource(p) \/ SourceFails(p)
  PROVE  InSeries'
  <1>1. PICK next : Becomes(p, next) /\ IsPass(next) /\ next.at = "source"
    BY NextSourceRow DEF RecordSource, SourceFails
  <1>2. pass[p].at = "listing"
    BY DEF RecordSource, SourceFails, At
  <1>3. Holds(p)'
    BY <1>1, PassBecomes, HoldsNothing DEF PollerInv, InHand, Sent
  <1>4. SameFates
    <2>1. CASE RecordSource(p)
      <3>1. PICK pages : RecordBatch(Kinds[pass[p].source], Unknown(pages, pass[p].since))
        BY <2>1 DEF RecordSource
      <3>2. \A e \in Feedback : outcome'[e] \in {outcome[e], "pending"}
                                /\ (outcome'[e] # outcome[e] => outcome[e] = "absent")
        BY <3>1 DEF RecordBatch
      <3>3. QED
        BY <2>1, <3>2 DEF RecordSource, SameFates, FeedbackKey, RoutingKey
    <2>2. CASE SourceFails(p)
      <3>1. escalations' = escalations \cup {SourceKey(Kinds[pass[p].source])}
            /\ UNCHANGED <<outcome, messages>>
        BY <2>2 DEF SourceFails, Escalate
      <3>2. \A e \in Feedback : RoutingKey(e) # SourceKey(Kinds[pass[p].source])
        BY RoutingKeys
      <3>3. QED
        BY <3>1, <3>2 DEF SameFates, FeedbackKey, RoutingKey
    <2>3. QED
      BY <2>1, <2>2
  <1>5. QED
    BY <1>1, <1>2, <1>3, <1>4, EmptyHanded DEF At, InHand, Sent

\* Steps about continuations: an answer is no event's, and a pass has no event
\* in hand when it comes to them.
LEMMA SeriesContinuations ==
  ASSUME PollerInv, InSeries, NEW p \in Passes,
         \/ Take(p) \/ ReadPull(p) \/ ReadFails(p) \/ Unread(p) \/ Decide(p)
         \/ EnqueueContinuation(p) \/ AlertContinuation(p) \/ FinishQueued(p)
         \/ EscalateFailed(p) \/ FinishFailed(p)
  PROVE  InSeries'
  <1>1. IsPass(pass[p])
    BY DEF PollerInv, Shape
  <1>2. pass[p].at \in Answering \cup {"continuations"}
    BY DEF Take, ReadPull, ReadFails, Unread, Decide, EnqueueContinuation, AlertContinuation,
           FinishQueued, EscalateFailed, FinishFailed, At, Answering
  <1>3. PICK next : Becomes(p, next) /\ IsPass(next)
                    /\ next.at \in Answering \cup {"continuations"}
    <2>1. CASE Take(p)
      <3>1. PICK k \in pass[p].todo :
              Becomes(p, [pass[p] EXCEPT !.todo = @ \ {k}, !.current = {k},
                            !.at = IF k \in pass[p].decided THEN "deciding" ELSE "inspecting",
                            !.decision = continuation[k].decision])
        BY <2>1 DEF Take
      <3> DEFINE next == [pass[p] EXCEPT !.todo = @ \ {k}, !.current = {k},
                            !.at = IF k \in pass[p].decided THEN "deciding" ELSE "inspecting",
                            !.decision = continuation[k].decision]
      <3>2. IsPass(next) /\ next.at \in {"deciding", "inspecting"}
        BY <1>1 DEF IsPass
      <3>3. QED
        BY <3>1, <3>2 DEF Answering
    <2>2. CASE ReadPull(p) \/ ReadFails(p)
      <3>1. PICK read : Becomes(p, [pass[p] EXCEPT !.snapshot = read])
        BY <2>2 DEF ReadPull, ReadFails
      <3>2. LET next == [pass[p] EXCEPT !.snapshot = read]
            IN  IsPass(next) /\ next.at = pass[p].at
        BY <1>1 DEF IsPass
      <3>3. QED
        BY <1>2, <3>1, <3>2
    <2>3. CASE Completed(p)
      <3>1. LET next == [pass[p] EXCEPT !.at = "continuations", !.current = {},
                                        !.decision = "none"]
            IN  IsPass(next) /\ next.at = "continuations"
        BY <1>1 DEF IsPass
      <3>2. QED
        BY <2>3, <3>1 DEF Completed
    <2>4. ASSUME NEW row, Completes(p, row)
          PROVE  \E next : Becomes(p, next) /\ IsPass(next)
                           /\ next.at \in Answering \cup {"continuations"}
      <3>1. LET next == [pass[p] EXCEPT !.at = "deciding", !.decision = row.decision]
            IN  IsPass(next) /\ next.at = "deciding"
        BY <1>1 DEF IsPass
      <3>2. QED
        BY <2>3, <2>4, <3>1 DEF Completes, Answering
    <2>5. ASSUME NEW stage \in Answering, Goes(p, stage)
          PROVE  \E next : Becomes(p, next) /\ IsPass(next)
                           /\ next.at \in Answering \cup {"continuations"}
      <3>1. LET next == [pass[p] EXCEPT !.at = stage] IN IsPass(next) /\ next.at = stage
        BY <1>1 DEF IsPass
      <3>2. QED
        BY <2>5, <3>1 DEF Goes
    <2>6. CASE Unread(p) \/ Decide(p)
      BY <2>3, <2>4, <2>6 DEF Unread, Decide
    <2>7. CASE EnqueueContinuation(p) \/ AlertContinuation(p) \/ EscalateFailed(p)
      BY <2>5, <2>7 DEF EnqueueContinuation, AlertContinuation, EscalateFailed, Answering
    <2>8. QED
      BY <2>1, <2>2, <2>3, <2>6, <2>7 DEF FinishQueued, FinishFailed
  <1>4. Holds(p)'
    BY <1>3, PassBecomes, HoldsNothing DEF PollerInv, InHand, Sent, Answering
  <1>5. SameFates
    <2>1. CASE \/ Take(p) \/ ReadPull(p) \/ ReadFails(p) \/ Decide(p)
               \/ FinishQueued(p) \/ FinishFailed(p)
      BY <2>1 DEF Take, ReadPull, ReadFails, Decide, FinishQueued, FinishFailed, tablesVars,
                  SameFates, FeedbackKey, RoutingKey
    <2>2. CASE EnqueueContinuation(p)
      BY <2>2, RoutingKeys DEF EnqueueContinuation, SameFates
    <2>3. CASE Unread(p) \/ AlertContinuation(p) \/ EscalateFailed(p)
      BY <2>3, RoutingKeys
      DEF Unread, AlertContinuation, EscalateFailed, Escalate, EscalateIfUnavailable, SameFates
    <2>4. QED
      BY <2>1, <2>2, <2>3
  <1>6. QED
    BY <1>2, <1>3, <1>4, <1>5, EmptyHanded DEF At, InHand, Sent, Answering

\* The pass that routes takes up an event that is still pending.
LEMMA TakenUp ==
  ASSUME InSeries, NEW p \in Passes, NEW fate, Routes(p, fate)
  PROVE  /\ Event(p) \in pass[p].todo /\ Event(p) \in Feedback
         /\ pass[p].todo \subseteq Pending /\ outcome[Event(p)] = "pending"
         /\ pass[p].at = "routing"
  <1>1. pass[p].at = "routing" /\ pass[p].todo # {}
    BY DEF Routes, At
  <1>2. pass[p].todo \subseteq Pending
    BY <1>1 DEF InSeries, Holds
  <1>3. Event(p) \in pass[p].todo
    BY <1>1, <1>2, FirstIsOne DEF Event, Pending
  <1>4. QED
    BY <1>1, <1>2, <1>3 DEF Pending

\* The pass has finished with its event.
LEMMA RoutedRow ==
  ASSUME PollerInv, NEW p \in Passes, RoutedEvent(p)
  PROVE  \E next : /\ Becomes(p, next) /\ IsPass(next)
                   /\ next.at = "routing" /\ next.todo = pass[p].todo \ {Event(p)}
  <1> DEFINE next == [pass[p] EXCEPT !.at = "routing", !.todo = @ \ {Event(p)}]
  <1>1. IsPass(pass[p])
    BY DEF PollerInv, Shape
  <1>2. IsPass(next) /\ next.at = "routing" /\ next.todo = pass[p].todo \ {Event(p)}
    BY <1>1 DEF IsPass
  <1>3. QED
    BY <1>2 DEF RoutedEvent

\* The outcome of one pending event is recorded.
LEMMA Marked ==
  ASSUME PollerInv, NEW e \in Feedback, outcome[e] = "pending",
         NEW result \in {"queued", "ignored", "escalated"}, MarkOutcome(e, result)
  PROVE  /\ outcome'[e] = result
         /\ \A f \in Feedback \ {e} : outcome'[f] = outcome[f]
  BY DEF MarkOutcome, PollerInv, Tables

\* Ignoring an event.
LEMMA SeriesIgnore ==
  ASSUME PollerInv, InSeries, NEW p \in Passes, Ignore(p)
  PROVE  InSeries'
  <1>1. /\ Event(p) \in pass[p].todo /\ Event(p) \in Feedback
        /\ pass[p].todo \subseteq Pending /\ outcome[Event(p)] = "pending"
        /\ pass[p].at = "routing"
    BY TakenUp DEF Ignore
  <1>2. /\ outcome'[Event(p)] = "ignored"
        /\ \A f \in Feedback \ {Event(p)} : outcome'[f] = outcome[f]
    BY <1>1, Marked DEF Ignore
  <1>3. PICK next : /\ Becomes(p, next) /\ IsPass(next)
                    /\ next.at = "routing" /\ next.todo = pass[p].todo \ {Event(p)}
    BY RoutedRow DEF Ignore
  <1>4. Holds(p)'
    BY <1>1, <1>2, <1>3, PassBecomes DEF PollerInv, Holds, InHand, Sent, Pending
  <1>5. SameFates
    BY <1>1, <1>2 DEF Ignore, SameFates, FeedbackKey, RoutingKey
  <1>6. QED
    BY <1>1, <1>3, <1>4, <1>5, EmptyHanded DEF At, InHand, Sent

\* What is handled is handled by the pass at work.
LEMMA HandledByActor ==
  ASSUME NEW p \in Passes, NEW stage, stage # "idle",
         \A q \in Passes \ {p} : pass[q].at = "idle" /\ pass'[q].at = "idle"
  PROVE  /\ \A e : Handled(e, stage) <=> pass[p].at = stage /\ Event(p) = e
         /\ \A e : Handled(e, stage)' <=> pass'[p].at = stage /\ Event(p)' = e
  BY DEF Handled, At

\* The same of the count of the cycles.
LEMMA CountingActor ==
  ASSUME NEW p \in Passes,
         \A q \in Passes \ {p} : pass[q].at = "idle" /\ pass'[q].at = "idle"
  PROVE  /\ Counting <=> \/ pass[p].at = "counted"
                         \/ pass[p].at = "routed" /\ RequestsChanges(Event(p))
         /\ Counting' <=> \/ pass'[p].at = "counted"
                          \/ pass'[p].at = "routed" /\ RequestsChanges(Event(p)')
  BY DEF Counting, At, RequestsChanges

\* Sending or reporting an event, before its outcome is recorded.
LEMMA SeriesSend ==
  ASSUME PollerInv, InSeries, NEW p \in Passes, EnqueueFeedback(p) \/ EscalateAmbiguous(p)
  PROVE  InSeries'
  <1>1. PICK stage \in InHand :
          /\ Goes(p, stage)
          /\ stage = "enqueued" => EnqueueFeedback(p)
          /\ stage = "ambiguous" => EscalateAmbiguous(p)
    BY DEF EnqueueFeedback, EscalateAmbiguous, InHand
  <1>2. /\ Event(p) \in pass[p].todo /\ Event(p) \in Feedback
        /\ pass[p].todo \subseteq Pending /\ outcome[Event(p)] = "pending"
        /\ pass[p].at = "routing"
    BY TakenUp DEF EnqueueFeedback, EscalateAmbiguous
  <1> DEFINE next == [pass[p] EXCEPT !.at = stage]
  <1>3. /\ Becomes(p, next) /\ IsPass(next)
        /\ At(p, stage)' /\ pass'[p].todo = pass[p].todo /\ Event(p)' = Event(p)
    BY <1>1, GoesKeeps
  <1> HIDE DEF next
  <1>4. outcome' = outcome /\ escalations \subseteq escalations'
    BY DEF EnqueueFeedback, EscalateAmbiguous, Escalate
  <1>5. Holds(p)'
    BY <1>2, <1>3, <1>4 DEF Holds, At, InHand, Sent, Pending
  <1>6. /\ \A q \in Passes \ {p} : pass[q].at = "idle" /\ pass'[q].at = "idle"
        /\ Alone' /\ \A q \in Passes : Holds(q)'
    BY <1>2, <1>3, <1>5, StaysAlone DEF At
  <1>7. SentOnce'
    <2>1. ASSUME NEW e \in Feedback, FeedbackKey(e) \in messages'
          PROVE  outcome[e] = "queued" \/ Handled(e, "enqueued")'
      <3>1. CASE FeedbackKey(e) \in messages
        BY <1>2, <1>6, <3>1, HandledByActor DEF InSeries, SentOnce
      <3>2. CASE FeedbackKey(e) \notin messages
        <4>1. stage = "enqueued" /\ FeedbackKey(e) = FeedbackKey(Event(p))
          BY <1>1, <2>1, <3>2 DEF EnqueueFeedback, EscalateAmbiguous, InHand
        <4>2. e = Event(p)
          BY <4>1, RoutingKeys
        <4>3. QED
          BY <1>3, <1>6, <4>1, <4>2, HandledByActor DEF At
      <3>3. QED
        BY <3>1, <3>2
    <2>2. ASSUME NEW e \in Feedback, RoutingKey(e) \in escalations'
          PROVE  outcome[e] = "escalated" \/ Handled(e, "ambiguous")'
      <3>1. CASE RoutingKey(e) \in escalations
        BY <1>2, <1>6, <3>1, HandledByActor DEF InSeries, SentOnce
      <3>2. CASE RoutingKey(e) \notin escalations
        <4>1. stage = "ambiguous" /\ RoutingKey(e) = RoutingKey(Event(p))
          BY <1>1, <2>2, <3>2 DEF EnqueueFeedback, EscalateAmbiguous, Escalate, InHand
        <4>2. e = Event(p)
          BY <4>1, RoutingKeys
        <4>3. QED
          BY <1>3, <1>6, <4>1, <4>2, HandledByActor DEF At
      <3>3. QED
        BY <3>1, <3>2
    <2>3. QED
      BY <1>4, <2>1, <2>2 DEF SentOnce, FeedbackKey, RoutingKey
  <1>8. Cycles' = Cycles /\ ~Counting
    BY <1>2, <1>4, <1>6, CountingActor DEF Cycles
  <1>9. CyclesTold'
    BY <1>4, <1>8 DEF InSeries, CyclesTold, CyclesKey
  <1>10. QED
    BY <1>6, <1>7, <1>9 DEF InSeries

\* Recording that an event was reported.
LEMMA SeriesMarkEscalated ==
  ASSUME PollerInv, InSeries, NEW p \in Passes, MarkEscalated(p)
  PROVE  InSeries'
  <1>1. /\ pass[p].at = "ambiguous"
        /\ Event(p) \in pass[p].todo /\ pass[p].todo \subseteq Pending
    BY DEF MarkEscalated, At, InSeries, Holds, InHand
  <1>2. Event(p) \in Feedback /\ outcome[Event(p)] = "pending"
    BY <1>1 DEF Pending
  <1>3. /\ outcome'[Event(p)] = "escalated"
        /\ \A f \in Feedback \ {Event(p)} : outcome'[f] = outcome[f]
    BY <1>2, Marked DEF MarkEscalated
  <1>4. PICK next : /\ Becomes(p, next) /\ IsPass(next)
                    /\ next.at = "routing" /\ next.todo = pass[p].todo \ {Event(p)}
    BY RoutedRow DEF MarkEscalated
  <1>5. Holds(p)'
    BY <1>1, <1>3, <1>4, PassBecomes DEF PollerInv, Holds, InHand, Sent, Pending
  <1>6. /\ \A q \in Passes \ {p} : pass[q].at = "idle" /\ pass'[q].at = "idle"
        /\ Alone' /\ \A q \in Passes : Holds(q)'
    BY <1>1, <1>4, <1>5, StaysAlone DEF At
  <1>7. UNCHANGED <<messages, escalations>>
    BY DEF MarkEscalated
  <1>8. SentOnce'
    <2>1. ASSUME NEW e \in Feedback, FeedbackKey(e) \in messages PROVE outcome'[e] = "queued"
      BY <1>1, <1>2, <1>3, <1>6, <2>1, HandledByActor DEF InSeries, SentOnce
    <2>2. ASSUME NEW e \in Feedback, RoutingKey(e) \in escalations
          PROVE  outcome'[e] = "escalated"
      BY <1>2, <1>3, <1>6, <2>2, HandledByActor DEF InSeries, SentOnce
    <2>3. QED
      BY <1>7, <2>1, <2>2 DEF SentOnce, FeedbackKey, RoutingKey
  <1>9. Cycles' = Cycles /\ ~Counting
    BY <1>1, <1>2, <1>3, <1>6, CountingActor DEF Cycles, RequestsChanges
  <1>10. CyclesTold'
    BY <1>7, <1>9 DEF InSeries, CyclesTold, CyclesKey
  <1>11. QED
    BY <1>6, <1>8, <1>10 DEF InSeries

\* Recording that an event was sent: one more cycle, perhaps the one to report.
LEMMA SeriesMarkQueued ==
  ASSUME PollerInv, InSeries, NEW p \in Passes, MarkQueued(p)
  PROVE  InSeries'
  <1>1. /\ pass[p].at = "enqueued"
        /\ Event(p) \in pass[p].todo /\ pass[p].todo \subseteq Pending
    BY DEF MarkQueued, At, InSeries, Holds, InHand
  <1>2. Event(p) \in Feedback /\ outcome[Event(p)] = "pending"
    BY <1>1 DEF Pending
  <1>3. /\ outcome'[Event(p)] = "queued"
        /\ \A f \in Feedback \ {Event(p)} : outcome'[f] = outcome[f]
    BY <1>2, Marked DEF MarkQueued
  <1> DEFINE next == [pass[p] EXCEPT !.at = "routed"]
  <1>4. /\ Becomes(p, next) /\ IsPass(next)
        /\ At(p, "routed")' /\ pass'[p].todo = pass[p].todo /\ Event(p)' = Event(p)
    BY GoesKeeps DEF MarkQueued
  <1> HIDE DEF next
  <1>5. Holds(p)'
    BY <1>1, <1>3, <1>4 DEF Holds, At, InHand, Sent, Pending
  <1>6. /\ \A q \in Passes \ {p} : pass[q].at = "idle" /\ pass'[q].at = "idle"
        /\ Alone' /\ \A q \in Passes : Holds(q)'
    BY <1>1, <1>4, <1>5, StaysAlone DEF At
  <1>7. UNCHANGED <<messages, escalations>>
    BY DEF MarkQueued
  <1>8. SentOnce'
    <2>1. ASSUME NEW e \in Feedback, FeedbackKey(e) \in messages PROVE outcome'[e] = "queued"
      BY <1>2, <1>3, <1>6, <2>1, HandledByActor DEF InSeries, SentOnce
    <2>2. ASSUME NEW e \in Feedback, RoutingKey(e) \in escalations
          PROVE  outcome'[e] = "escalated"
      BY <1>1, <1>2, <1>3, <1>6, <2>2, HandledByActor DEF InSeries, SentOnce
    <2>3. QED
      BY <1>7, <2>1, <2>2 DEF SentOnce, FeedbackKey, RoutingKey
  <1>9. /\ ~Counting
        /\ RequestsChanges(Event(p)) => Counting'
    BY <1>1, <1>4, <1>6, CountingActor DEF At
  <1>10. IsFiniteSet(Cycles) /\ Event(p) \notin Cycles /\ Cardinality(Cycles) \in Nat
         /\ Threshold \in Nat
    BY <1>2, FS_CardinalityType, PollerAssumption DEF InSeries, CyclesTold, Cycles
  <1>11. CASE RequestsChanges(Event(p))
    <2>1. Cycles' = Cycles \cup {Event(p)}
      BY <1>2, <1>3, <1>11 DEF Cycles, RequestsChanges
    <2>2. IsFiniteSet(Cycles') /\ Cardinality(Cycles') = Cardinality(Cycles) + 1
      BY <1>10, <2>1, FS_AddElement
    <2>3. CyclesKey \in escalations \/ Cardinality(Cycles) < Threshold
      BY <1>9 DEF InSeries, CyclesTold
    <2>4. CyclesKey \in escalations \/ Cardinality(Cycles)' <= Threshold
      BY <1>10, <2>2, <2>3
    <2>5. CyclesTold'
      BY <1>7, <1>9, <1>10, <1>11, <2>2, <2>4 DEF CyclesTold, CyclesKey
    <2>6. QED
      BY <1>6, <1>8, <2>5 DEF InSeries
  <1>12. CASE ~RequestsChanges(Event(p))
    <2>1. Cycles' = Cycles
      BY <1>2, <1>3, <1>12 DEF Cycles, RequestsChanges
    <2>2. CyclesTold'
      BY <1>7, <1>9, <2>1 DEF InSeries, CyclesTold, CyclesKey
    <2>3. QED
      BY <1>6, <1>8, <2>2 DEF InSeries
  <1>13. QED
    BY <1>11, <1>12

\* After the outcome: the alert about the worker, and the count of the cycles.
LEMMA SeriesAlerts ==
  ASSUME PollerInv, InSeries, NEW p \in Passes, AlertUnavailable(p) \/ CountCycles(p)
  PROVE  InSeries'
  <1>1. /\ pass[p].at \in Sent /\ pass[p].todo \ {Event(p)} \subseteq Pending
        /\ pass[p].at = "routed" <=> AlertUnavailable(p)
    BY DEF AlertUnavailable, CountCycles, At, InSeries, Holds, Sent
  <1>2. /\ UNCHANGED <<outcome, messages>> /\ escalations \subseteq escalations'
        /\ \A e \in Feedback : RoutingKey(e) \in escalations' => RoutingKey(e) \in escalations
    <2>1. CASE AlertUnavailable(p)
      BY <2>1, RoutingKeys DEF AlertUnavailable, EscalateIfUnavailable, Escalate
    <2>2. CASE CountCycles(p)
      BY <2>2, RoutingKeys DEF CountCycles, Escalate
    <2>3. QED
      BY <2>1, <2>2
  <1>3. PICK next :
          /\ Becomes(p, next) /\ IsPass(next)
          /\ IF AlertUnavailable(p) /\ RequestsChanges(Event(p))
             THEN next.at = "counted" /\ next.todo = pass[p].todo
             ELSE next.at = "routing" /\ next.todo = pass[p].todo \ {Event(p)}
    <2>1. CASE AlertUnavailable(p) /\ RequestsChanges(Event(p))
      <3>1. IsPass(pass[p]) /\ Goes(p, "counted")
        BY <2>1 DEF AlertUnavailable, PollerInv, Shape
      <3>2. LET next == [pass[p] EXCEPT !.at = "counted"]
            IN  IsPass(next) /\ next.at = "counted" /\ next.todo = pass[p].todo
        BY <3>1, Updates
      <3>3. QED
        BY <2>1, <3>1, <3>2 DEF Goes
    <2>2. CASE ~(AlertUnavailable(p) /\ RequestsChanges(Event(p)))
      <3>1. RoutedEvent(p)
        BY <2>2 DEF AlertUnavailable, CountCycles
      <3>2. QED
        BY <2>2, <3>1, RoutedRow
    <2>3. QED
      BY <2>1, <2>2
  <1>4. pass'[p] = next
    BY <1>3, PassBecomes DEF PollerInv
  <1>5. next.at = "counted" => Event(p)' = Event(p)
    BY <1>3, <1>4 DEF Event
  <1>6. Holds(p)'
    BY <1>1, <1>2, <1>3, <1>4, <1>5 DEF Holds, InHand, Sent, Pending
  <1>7. /\ \A q \in Passes \ {p} : pass[q].at = "idle" /\ pass'[q].at = "idle"
        /\ Alone' /\ \A q \in Passes : Holds(q)'
    BY <1>1, <1>3, <1>6, StaysAlone DEF At, Sent
  <1>8. SentOnce'
    <2>1. \A e \in Feedback : ~Handled(e, "enqueued") /\ ~Handled(e, "ambiguous")
      BY <1>1, <1>7, HandledByActor DEF Sent
    <2>2. QED
      BY <1>2, <2>1 DEF InSeries, SentOnce, FeedbackKey, RoutingKey
  <1>9. Cycles' = Cycles
    BY <1>2 DEF Cycles
  <1>10. CASE AlertUnavailable(p)
    <2>1. Counting <=> Counting'
      BY <1>1, <1>3, <1>4, <1>7, <1>10, CountingActor
    <2>2. CyclesTold'
      BY <1>2, <1>9, <2>1 DEF InSeries, CyclesTold, CyclesKey
    <2>3. QED
      BY <1>7, <1>8, <2>2 DEF InSeries
  <1>11. CASE CountCycles(p)
    <2>1. Cardinality(Cycles) = Threshold => CyclesKey \in escalations'
      BY <1>11 DEF CountCycles, ReachesThreshold, QueuedReviewCycles, Cycles, Escalate
    <2>2. CyclesTold'
      BY <1>2, <1>9, <2>1 DEF InSeries, CyclesTold, CyclesKey
    <2>3. QED
      BY <1>7, <1>8, <2>2 DEF InSeries
  <1>12. QED
    BY <1>10, <1>11

\* No pass starts a series: it stays one only while each step keeps it one.
LEMMA SeriesEnds == [Next]_vars /\ serial' => serial
  BY DEF Next, PassStep, FeedbackStep, ContinuationStep, Discover, BeginSource, RecordSource,
         ListPending, Ignore, EscalateAmbiguous, MarkEscalated, EnqueueFeedback, MarkQueued,
         AlertUnavailable, CountCycles, ListContinuations, Take, ReadPull, Unread, Decide,
         EnqueueContinuation, AlertContinuation, FinishQueued, EscalateFailed, FinishFailed,
         EndPass, DiscoverFails, SourceFails, ReadFails, Dies, Appear, RegisterContinuation,
         PullMoves, vars

\* Steps that leave the passes and the tables of events alone.
LEMMA SeriesOthers ==
  ASSUME InSeries,
         \/ \E p \in Passes : DiscoverFails(p)
         \/ \E e \in Feedback : Appear(e)
         \/ \E k \in Continuations : RegisterContinuation(k)
         \/ PullMoves
         \/ UNCHANGED vars
  PROVE  InSeries'
  <1>1. UNCHANGED <<outcome, messages, escalations, pass>>
    BY DEF DiscoverFails, Appear, RegisterContinuation, PullMoves, vars, tablesVars
  <1>2. \A p \in Passes : Event(p)' = Event(p)
    BY <1>1 DEF Event
  <1>3. /\ \A e : \A stage : Handled(e, stage)' <=> Handled(e, stage)
        /\ Counting' <=> Counting
        /\ Cycles' = Cycles
    BY <1>1, <1>2 DEF Handled, Counting, Cycles, At, RequestsChanges
  <1>4. SentOnce' /\ CyclesTold'
    BY <1>1, <1>3 DEF InSeries, SentOnce, CyclesTold, FeedbackKey, RoutingKey, CyclesKey
  <1>5. Alone' /\ \A p \in Passes : Holds(p)'
    BY <1>1, <1>2 DEF InSeries, Alone, Holds, At, Pending
  <1>6. QED
    BY <1>4, <1>5 DEF InSeries

\* Every step keeps what holds of a series.
LEMMA SeriesInductive == PollerInv /\ SeriesInv /\ [Next]_vars => SeriesInv'
  <1> SUFFICES ASSUME PollerInv, SeriesInv, [Next]_vars, serial' PROVE InSeries'
    BY DEF SeriesInv
  <1>1. InSeries
    BY SeriesEnds DEF SeriesInv
  <1>2. ASSUME NEW p \in Passes, FeedbackStep(p) \/ SourceFails(p) \/ Dies(p) PROVE InSeries'
    BY <1>1, <1>2, SeriesReads, SeriesSources, SeriesIgnore, SeriesSend, SeriesMarkEscalated,
       SeriesMarkQueued, SeriesAlerts DEF FeedbackStep, Dies
  <1>3. ASSUME NEW p \in Passes, ContinuationStep(p) \/ ReadFails(p) PROVE InSeries'
    BY <1>1, <1>3, SeriesReads, SeriesContinuations DEF ContinuationStep
  <1>4. QED
    BY <1>1, <1>2, <1>3, SeriesOthers DEF Next, PassStep

\* At first no pass is at work, and nothing has been sent or counted.
LEMMA InitSeries == Init => SeriesInv
  <1> SUFFICES ASSUME Init PROVE InSeries
    BY DEF SeriesInv
  <1>1. \A p \in Passes : pass[p].at = "idle"
    BY DEF Init, IdlePass
  <1>2. Alone /\ \A p \in Passes : Holds(p)
    BY <1>1 DEF Alone, Holds, At, InHand, Sent
  <1>3. SentOnce
    BY DEF Init, SentOnce
  <1>4. Cycles = {}
    BY DEF Init, FeedbackInit, Cycles
  <1>5. CyclesTold
    <2>1. IsFiniteSet(Cycles) /\ Cardinality(Cycles) = 0
      BY <1>4, FS_EmptySet
    <2>2. QED
      BY <2>1, PollerAssumption DEF CyclesTold
  <1>6. QED
    BY <1>2, <1>3, <1>5 DEF InSeries

\* It holds in every reachable state.
LEMMA SeriesInvariant == Spec => []SeriesInv
  BY InitSeries, SeriesInductive, PollerInvariant, PTL DEF Spec

\* #routeEvent in a series of passes: an event that was sent to an agent is not
\* also reported as ambiguous.  Its outcome is recorded before the next pass
\* lists what is pending, and no other pass has it in hand.
THEOREM SentOnceInSeries == Spec => []SentOrEscalated
  <1>1. SeriesInv => SentOrEscalated
    <2> SUFFICES ASSUME InSeries, NEW e \in Feedback,
                        FeedbackKey(e) \in messages, RoutingKey(e) \in escalations
                 PROVE  FALSE
      BY DEF SeriesInv, SentOrEscalated
    <2>1. ASSUME NEW stage \in InHand, Handled(e, stage) PROVE outcome[e] = "pending"
      BY <2>1 DEF Handled, InSeries, Holds, At, Pending
    <2>2. ~(Handled(e, "enqueued") /\ Handled(e, "ambiguous"))
      BY DEF Handled, InSeries, Alone, At
    <2>3. QED
      BY <2>1, <2>2 DEF InSeries, SentOnce, InHand
  <1>2. QED
    BY <1>1, SeriesInvariant, PTL

\* #countQueuedReviewCycles: between passes of a series, a number of cycles that
\* has reached the threshold has been reported, although only the pass that
\* sees the number equal to the threshold reports it.
THEOREM CyclesReported == Spec => []CyclesEscalatedInSeries
  <1>1. SeriesInv => CyclesEscalatedInSeries
    <2> SUFFICES ASSUME InSeries, AllIdle, QueuedReviewCycles >= Threshold
                 PROVE  CyclesKey \in escalations
      BY DEF SeriesInv, CyclesEscalatedInSeries
    <2>1. ~Counting
      BY DEF AllIdle, Counting, At
    <2>2. Cardinality(Cycles) \in Nat /\ Cardinality(Cycles) >= Threshold
      BY FS_CardinalityType DEF QueuedReviewCycles, Cycles, InSeries, CyclesTold
    <2>3. QED
      BY <2>1, <2>2, PollerAssumption DEF InSeries, CyclesTold
  <1>2. QED
    BY <1>1, SeriesInvariant, PTL

-----------------------------------------------------------------------------
(***************************************************************************)
(* Types.  A cursor is the greatest of the times of what was listed, which *)
(* exists because only what has appeared is listed.                        *)
(***************************************************************************)
RowTyped(r) ==
  /\ r.at \in Stages
  /\ r.items \subseteq Item
  /\ r.source \in 1..(Len(Kinds) + 1)
  /\ r.at = "listing" => r.source <= Len(Kinds)
  /\ r.there \subseteq Feedback
  /\ r.todo \subseteq Feedback \cup Continuations
  /\ r.decision \in {"none", "queue", "fail"}
  /\ r.snapshot \in Pull \cup {NoPull, FailedPull}

VisibleBounded == \E b \in Nat : \A e \in visible : Content[e].createdAt <= b

WorldTyped ==
  /\ visible \subseteq Feedback /\ VisibleBounded
  /\ pull \in Pull
  /\ workload \in Workloads /\ moves \in 0..workload.moves
  /\ serial \in BOOLEAN
  /\ faults \in 0..MaxFaults

CursorTyped == cursor \in [ToSet(Kinds) -> Nat]

PassesTyped == \A p \in Passes : RowTyped(pass[p])

TypesInv == PollerInv /\ WorldTyped /\ CursorTyped /\ PassesTyped

\* There are finitely many kinds.
LEMMA KindsCounted == Len(Kinds) \in Nat
  BY FeedbackAssumption

\* A pass that does nothing has a typed row.
LEMMA IdleTyped == RowTyped(IdlePass)
  BY KindsCounted DEF IdlePass, RowTyped, Stages

\* What GitHub, the board and the faults become.
LEMMA WorldSteps == WorldTyped /\ [Next]_vars => WorldTyped'
  <1> SUFFICES ASSUME WorldTyped, [Next]_vars PROVE WorldTyped'
    OBVIOUS
  <1>1. faults' \in 0..MaxFaults
    <2>1. faults' = faults \/ (faults < MaxFaults /\ faults' = faults + 1)
      BY ZenonT(40) DEF Next, PassStep, FeedbackStep, ContinuationStep, Discover, BeginSource,
             RecordSource, ListPending, Ignore, EscalateAmbiguous, MarkEscalated,
             EnqueueFeedback, MarkQueued, AlertUnavailable, CountCycles, ListContinuations,
             Take, ReadPull, Unread, Decide, EnqueueContinuation, AlertContinuation,
             FinishQueued, EscalateFailed, FinishFailed, EndPass, DiscoverFails, SourceFails,
             ReadFails, Dies, Appear, RegisterContinuation, PullMoves, Fails, vars
    <2>2. QED
      BY <2>1, PollerAssumption DEF WorldTyped
  <1>2. serial' \in BOOLEAN
    BY ZenonT(40)
    DEF WorldTyped, Next, PassStep, FeedbackStep, ContinuationStep, Discover, BeginSource,
           RecordSource, ListPending, Ignore, EscalateAmbiguous, MarkEscalated,
           EnqueueFeedback, MarkQueued, AlertUnavailable, CountCycles, ListContinuations,
           Take, ReadPull, Unread, Decide, EnqueueContinuation, AlertContinuation,
           FinishQueued, EscalateFailed, FinishFailed, EndPass, DiscoverFails, SourceFails,
           ReadFails, Dies, Appear, RegisterContinuation, PullMoves, vars
  <1>3. \/ UNCHANGED worldVars
        \/ PullMoves
        \/ \E e \in Feedback : Appear(e)
    BY DEF Next, PassStep, FeedbackStep, ContinuationStep, Discover, BeginSource,
           RecordSource, ListPending, Ignore, EscalateAmbiguous, MarkEscalated,
           EnqueueFeedback, MarkQueued, AlertUnavailable, CountCycles, ListContinuations,
           Take, ReadPull, Unread, Decide, EnqueueContinuation, AlertContinuation,
           FinishQueued, EscalateFailed, FinishFailed, EndPass, DiscoverFails, SourceFails,
           ReadFails, Dies, RegisterContinuation, vars
  <1>4. CASE UNCHANGED worldVars
    BY <1>1, <1>2, <1>4 DEF worldVars, WorldTyped, VisibleBounded
  <1>5. CASE PullMoves
    <2>1. pull' \in Pull
      BY <1>5 DEF PullMoves, WorldTyped, Pull
    <2>2. workload.moves \in Nat
      BY PollerAssumption DEF WorldTyped
    <2>3. moves' \in 0..workload.moves /\ UNCHANGED <<workload, visible>>
      BY <1>5, <2>2 DEF PullMoves, WorldTyped
    <2>4. QED
      BY <1>1, <1>2, <2>1, <2>3 DEF WorldTyped, VisibleBounded
  <1>6. ASSUME NEW e \in Feedback, Appear(e) PROVE WorldTyped'
    <2>1. PICK b \in Nat : \A f \in visible : Content[f].createdAt <= b
      BY DEF WorldTyped, VisibleBounded
    <2>2. Content[e].createdAt \in Nat /\ \A f \in visible : Content[f].createdAt \in Nat
      BY FeedbackAssumption DEF ContentRow, WorldTyped
    <2>3. visible' = visible \cup {e} /\ UNCHANGED <<workload, pull, moves>>
      BY <1>6 DEF Appear
    <2>4. b + Content[e].createdAt \in Nat
          /\ \A f \in visible' : Content[f].createdAt <= b + Content[e].createdAt
      BY <2>1, <2>2, <2>3
    <2>5. QED
      BY <1>1, <1>2, <2>3, <2>4 DEF WorldTyped, VisibleBounded
  <1>7. QED
    BY <1>3, <1>4, <1>5, <1>6

\* recordBatch: the cursor is a time, and only RecordSource writes it.
LEMMA CursorSteps == WorldTyped /\ CursorTyped /\ [Next]_vars => CursorTyped'
  <1> SUFFICES ASSUME WorldTyped, CursorTyped, [Next]_vars PROVE CursorTyped'
    OBVIOUS
  <1>1. ASSUME NEW p \in Passes, RecordSource(p) PROVE CursorTyped'
    <2> DEFINE kind == Kinds[pass[p].source]
    <2>1. PICK pages \in SUBSET (visible \cap EventsOf(kind)) :
            RecordBatch(kind, Unknown(pages, pass[p].since))
      BY <1>1 DEF RecordSource
    <2> DEFINE times == {Content[e].createdAt : e \in Unknown(pages, pass[p].since)}
               all == {cursor[kind]} \cup times
    <2>2. cursor' = [cursor EXCEPT ![kind] = Max(all)]
      BY <2>1 DEF RecordBatch
    <2>3. ASSUME kind \in ToSet(Kinds) PROVE Max(all) \in Nat
      <3>1. PICK b \in Nat : \A e \in visible : Content[e].createdAt <= b
        BY DEF WorldTyped, VisibleBounded
      <3>2. \A e \in visible : Content[e].createdAt \in Nat
        BY FeedbackAssumption DEF ContentRow, WorldTyped
      <3>3. Unknown(pages, pass[p].since) \subseteq visible
        BY DEF Unknown
      <3>4. cursor[kind] \in Nat
        BY <2>3 DEF CursorTyped
      <3>5. /\ times \in SUBSET Nat /\ \A t \in times : t <= b
        BY <3>1, <3>2, <3>3
      <3> HIDE DEF kind, times
      <3>6. PICK c \in Nat : c = cursor[kind]
        BY <3>4
      <3>7. b + c \in Nat /\ b <= b + c /\ c <= b + c
        OBVIOUS
      <3>8. ASSUME NEW t \in times PROVE t \in Nat /\ t <= b + c
        BY <3>5, <3>7
      <3>9. \A t \in all : t \in Nat /\ t <= b + c
        BY <3>6, <3>7, <3>8
      <3>10. all \in SUBSET Nat /\ all # {}
        BY <3>9
      <3> HIDE DEF all
      <3>11. Max(all) \in all
        BY <3>7, <3>9, <3>10, MaxOfNats
      <3>12. QED
        BY <3>10, <3>11
    <2> HIDE DEF kind, all
    <2>4. QED
      BY <2>2, <2>3 DEF CursorTyped
  <1>2. (\E p \in Passes : RecordSource(p)) \/ UNCHANGED cursor
    BY DEF Next, PassStep, FeedbackStep, ContinuationStep, Discover, BeginSource,
           ListPending, Ignore, EscalateAmbiguous, MarkEscalated, EnqueueFeedback, MarkQueued,
           MarkOutcome, AlertUnavailable, CountCycles, ListContinuations, Take, ReadPull,
           Unread, Decide, EnqueueContinuation, AlertContinuation, FinishQueued,
           EscalateFailed, FinishFailed, EndPass, DiscoverFails, SourceFails, ReadFails, Dies,
           Appear, RegisterContinuation, PullMoves, vars, tablesVars
  <1>3. QED
    BY <1>1, <1>2 DEF CursorTyped

\* The rows that a typed pass may become, a stage or a field at a time.
LEMMA RowsStay ==
  ASSUME NEW r, IsPass(r), RowTyped(r), r.at # "listing",
         NEW stage \in Stages \ {"listing"}
  PROVE  /\ RowTyped([r EXCEPT !.at = stage])
         /\ \A todo \in SUBSET (Feedback \cup Continuations) :
              RowTyped([r EXCEPT !.at = stage, !.todo = todo])
         /\ \A decision \in {"none", "queue", "fail"} :
              RowTyped([r EXCEPT !.at = stage, !.decision = decision])
  BY DEF IsPass, RowTyped

\* The steps that read feedback leave a typed row.
LEMMA ReadRows ==
  ASSUME PollerInv, WorldTyped, PassesTyped, NEW p \in Passes,
         \/ Discover(p) \/ BeginSource(p) \/ RecordSource(p) \/ SourceFails(p)
         \/ ListPending(p) \/ ListContinuations(p)
  PROVE  \E next : Becomes(p, next) /\ RowTyped(next)
  <1>1. IsPass(pass[p]) /\ RowTyped(pass[p])
    BY DEF PollerInv, Shape, PassesTyped
  <1>2. Len(Kinds) \in Nat
    BY KindsCounted
  <1>3. CASE Discover(p)
    <2>1. PICK items \in workload.boards :
            Becomes(p, [IdlePass EXCEPT !.at = "source", !.items = items,
                          !.source = IF items = {} THEN Len(Kinds) + 1 ELSE 1])
      BY <1>3 DEF Discover
    <2>2. items \subseteq Item
      BY PollerAssumption DEF WorldTyped
    <2>3. RowTyped([IdlePass EXCEPT !.at = "source", !.items = items,
                      !.source = IF items = {} THEN Len(Kinds) + 1 ELSE 1])
      BY <1>2, <2>2 DEF RowTyped, IdlePass, Stages
    <2>4. QED
      BY <2>1, <2>3
  <1>4. CASE BeginSource(p)
    <2> DEFINE kind == Kinds[pass[p].source]
               next == [pass[p] EXCEPT !.at = "listing", !.since = cursor[kind],
                          !.there = visible \cap EventsOf(kind)]
    <2>1. Becomes(p, next) /\ pass[p].source <= Len(Kinds)
      BY <1>4 DEF BeginSource
    <2>2. visible \cap EventsOf(kind) \subseteq Feedback
      BY DEF EventsOf
    <2>3. RowTyped(next)
      BY <1>1, <2>1, <2>2 DEF RowTyped, IsPass, Stages
    <2>4. QED
      BY <2>1, <2>3
  <1>5. CASE RecordSource(p) \/ SourceFails(p)
    <2> DEFINE next == [pass[p] EXCEPT !.at = "source", !.source = @ + 1, !.since = 0,
                          !.there = {}]
    <2>1. Becomes(p, next) /\ pass[p].at = "listing"
      BY <1>5 DEF RecordSource, SourceFails, NextSource, At
    <2>2. pass[p].source + 1 \in 1..(Len(Kinds) + 1)
      BY <1>1, <1>2, <2>1 DEF RowTyped
    <2>3. RowTyped(next)
      BY <1>1, <2>2 DEF RowTyped, IsPass, Stages
    <2>4. QED
      BY <2>1, <2>3
  <1>6. CASE ListPending(p)
    <2>1. Becomes(p, [pass[p] EXCEPT !.at = "routing", !.todo = ToRoute(p)])
      BY <1>6 DEF ListPending
    <2>2. ToRoute(p) \subseteq Feedback
      BY DEF ToRoute, Pending
    <2>3. RowTyped([pass[p] EXCEPT !.at = "routing", !.todo = ToRoute(p)])
      BY <1>1, <2>2 DEF RowTyped, IsPass, Stages
    <2>4. QED
      BY <2>1, <2>3
  <1>7. CASE ListContinuations(p)
    <2> DEFINE next == [pass[p] EXCEPT !.at = "continuations", !.todo = PendingContinuations,
          !.decided = {k \in PendingContinuations : continuation[k].decision # "none"}]
    <2>1. Becomes(p, next)
      BY <1>7 DEF ListContinuations
    <2>2. PendingContinuations \subseteq Continuations
      BY DEF PendingContinuations
    <2>3. RowTyped(next)
      BY <1>1, <2>2 DEF RowTyped, IsPass, Stages
    <2>4. QED
      BY <2>1, <2>3
  <1>8. QED
    BY <1>3, <1>4, <1>5, <1>6, <1>7

\* The steps that handle one event, or one decision, leave a typed row.
LEMMA HandleRows ==
  ASSUME PollerInv, PassesTyped, NEW p \in Passes,
         \/ Ignore(p) \/ EscalateAmbiguous(p) \/ MarkEscalated(p)
         \/ EnqueueFeedback(p) \/ MarkQueued(p) \/ AlertUnavailable(p) \/ CountCycles(p)
         \/ EnqueueContinuation(p) \/ AlertContinuation(p) \/ EscalateFailed(p)
  PROVE  \E next : Becomes(p, next) /\ RowTyped(next)
  <1>1. IsPass(pass[p]) /\ RowTyped(pass[p])
    BY DEF PollerInv, Shape, PassesTyped
  <1>2. pass[p].at # "listing"
    BY DEF Ignore, EscalateAmbiguous, MarkEscalated, EnqueueFeedback, MarkQueued,
           AlertUnavailable, CountCycles, EnqueueContinuation, AlertContinuation,
           EscalateFailed, Routes, At
  <1>3. RoutedEvent(p) \/ \E stage \in Stages \ {"listing"} : Goes(p, stage)
    BY DEF Ignore, EscalateAmbiguous, MarkEscalated, EnqueueFeedback, MarkQueued,
           AlertUnavailable, CountCycles, EnqueueContinuation, AlertContinuation,
           EscalateFailed, Stages
  <1>4. CASE RoutedEvent(p)
    <2>1. Becomes(p, [pass[p] EXCEPT !.at = "routing", !.todo = @ \ {Event(p)}])
      BY <1>4 DEF RoutedEvent
    <2>2. pass[p].todo \ {Event(p)} \in SUBSET (Feedback \cup Continuations)
      BY <1>1 DEF RowTyped
    <2>3. RowTyped([pass[p] EXCEPT !.at = "routing", !.todo = @ \ {Event(p)}])
      BY <1>1, <1>2, <2>2, RowsStay DEF Stages
    <2>4. QED
      BY <2>1, <2>3
  <1>5. ASSUME NEW stage \in Stages \ {"listing"}, Goes(p, stage)
        PROVE  \E next : Becomes(p, next) /\ RowTyped(next)
    <2>1. RowTyped([pass[p] EXCEPT !.at = stage])
      BY <1>1, <1>2, RowsStay
    <2>2. QED
      BY <1>5, <2>1 DEF Goes
  <1>6. QED
    BY <1>3, <1>4, <1>5

\* A continuation that is done with, or goes on to be completed, leaves a typed
\* row, if the decision it carries is one.
LEMMA CompletedRows ==
  ASSUME PollerInv, PassesTyped, NEW p \in Passes, pass[p].at \in Answering, NEW row,
         row.decision \in {"none", "queue", "fail"}, Completed(p) \/ Completes(p, row)
  PROVE  \E next : Becomes(p, next) /\ RowTyped(next)
  <1>1. IsPass(pass[p]) /\ RowTyped(pass[p])
    BY DEF PollerInv, Shape, PassesTyped
  <1>2. CASE Completed(p)
    <2>1. RowTyped([pass[p] EXCEPT !.at = "continuations", !.current = {}, !.decision = "none"])
      BY <1>1 DEF RowTyped, IsPass, Stages
    <2>2. QED
      BY <1>2, <2>1 DEF Completed
  <1>3. CASE Becomes(p, [pass[p] EXCEPT !.at = "deciding", !.decision = row.decision])
    <2>1. pass[p].at # "listing"
      BY DEF Answering
    <2>2. RowTyped([pass[p] EXCEPT !.at = "deciding", !.decision = row.decision])
      BY <1>1, <2>1, RowsStay DEF Stages
    <2>3. QED
      BY <1>3, <2>2
  <1>4. QED
    BY <1>2, <1>3 DEF Completes

\* The steps that take up, evaluate and finish a continuation leave a typed row.
LEMMA ContinuationRows ==
  ASSUME PollerInv, WorldTyped, PassesTyped, NEW p \in Passes,
         \/ Take(p) \/ ReadPull(p) \/ ReadFails(p) \/ Unread(p) \/ Decide(p)
         \/ FinishQueued(p) \/ FinishFailed(p)
  PROVE  \E next : Becomes(p, next) /\ RowTyped(next)
  <1>1. IsPass(pass[p]) /\ RowTyped(pass[p]) /\ Relies(p)
    BY DEF PollerInv, Shape, PassesTyped
  <1>2. continuation \in [Continuations -> ContinuationRow]
    BY DEF PollerInv, Tables, ContinuationTypeOK
  <1>3. CASE Take(p)
    <2>1. PICK k \in pass[p].todo :
            Becomes(p, [pass[p] EXCEPT !.todo = @ \ {k}, !.current = {k},
                          !.at = IF k \in pass[p].decided THEN "deciding" ELSE "inspecting",
                          !.decision = continuation[k].decision])
      BY <1>3 DEF Take
    <2>2. k \in Continuations
      BY <1>1, <1>3 DEF Relies, KnowsDecided, Take
    <2>3. continuation[k].decision \in {"none", "queue", "fail"}
      BY <1>2, <2>2 DEF ContinuationRow
    <2>4. RowTyped([pass[p] EXCEPT !.todo = @ \ {k}, !.current = {k},
                      !.at = IF k \in pass[p].decided THEN "deciding" ELSE "inspecting",
                      !.decision = continuation[k].decision])
      BY <1>1, <2>3 DEF RowTyped, IsPass, Stages
    <2>5. QED
      BY <2>1, <2>4
  <1>4. CASE ReadPull(p) \/ ReadFails(p)
    <2>1. PICK read \in Pull \cup {FailedPull} :
            Becomes(p, [pass[p] EXCEPT !.snapshot = read])
      BY <1>4 DEF ReadPull, ReadFails, WorldTyped
    <2>2. RowTyped([pass[p] EXCEPT !.snapshot = read])
      BY <1>1 DEF RowTyped, IsPass
    <2>3. QED
      BY <2>1, <2>2
  <1>5. CASE Unread(p) \/ Decide(p) \/ FinishQueued(p) \/ FinishFailed(p)
    <2>1. pass[p].at \in Answering
      BY <1>5 DEF Unread, Decide, FinishQueued, FinishFailed, At, Answering
    <2>2. Current(p) \in Continuations
      BY <1>1, <2>1 DEF Relies, CarriesOut
    <2>3. continuation[Current(p)] \in ContinuationRow
      BY <1>2, <2>2
    <2>4. Completed(p) \/ \E row \in ContinuationRow : Completes(p, row)
      <3>1. CASE Unread(p)
        BY <2>3, <3>1 DEF Unread
      <3>2. CASE Decide(p)
        <4> DEFINE verdict == Verdict(Current(p), pass[p].snapshot)
        <4>1. CASE verdict = "none"
          BY <2>3, <3>2, <4>1 DEF Decide
        <4>2. CASE verdict # "none"
          <5>1. verdict \in {"none", "queue", "fail"}
            BY <2>2, <3>2, VerdictType DEF Decide
          <5>2. continuation'[Current(p)] = DecidedRow(continuation[Current(p)], verdict)
            BY <1>2, <2>2, <3>2, <4>2 DEF Decide, ClaimDecision
          <5> HIDE DEF verdict
          <5>3. continuation'[Current(p)] \in ContinuationRow
            BY <2>3, <5>1, <5>2 DEF DecidedRow, ContinuationRow
          <5>4. QED
            BY <3>2, <4>2, <5>3 DEF Decide, verdict
        <4>3. QED
          BY <4>1, <4>2
      <3>3. CASE FinishQueued(p) \/ FinishFailed(p)
        BY <3>3 DEF FinishQueued, FinishFailed
      <3>4. QED
        BY <1>5, <3>1, <3>2, <3>3
    <2>5. CASE Completed(p)
      BY <2>1, <2>5, <2>3, CompletedRows DEF ContinuationRow
    <2>6. ASSUME NEW row \in ContinuationRow, Completes(p, row)
          PROVE  \E next : Becomes(p, next) /\ RowTyped(next)
      <3>1. row.decision \in {"none", "queue", "fail"}
        BY DEF ContinuationRow
      <3>2. QED
        BY <2>1, <2>6, <3>1, CompletedRows
    <2>7. QED
      BY <2>4, <2>5, <2>6
  <1>6. QED
    BY <1>3, <1>4, <1>5

\* Every pass keeps a typed row.
LEMMA PassSteps ==
  PollerInv /\ WorldTyped /\ PassesTyped /\ [Next]_vars => PassesTyped'
  <1> SUFFICES ASSUME PollerInv, WorldTyped, PassesTyped, [Next]_vars PROVE PassesTyped'
    OBVIOUS
  <1>1. ASSUME NEW p \in Passes, NEW next, Becomes(p, next), RowTyped(next)
        PROVE  PassesTyped'
    <2>1. /\ pass'[p] = next
          /\ \A q \in Passes \ {p} : pass'[q] = pass[q]
      BY <1>1 DEF Becomes, PollerInv, Shape
    <2>2. \A q \in Passes : RowTyped(pass'[q])
      BY <1>1, <2>1 DEF PassesTyped
    <2>3. QED
      BY <2>2 DEF PassesTyped, RowTyped
  <1>2. ASSUME NEW p \in Passes, EndPass(p) \/ Dies(p) PROVE PassesTyped'
    <2>1. Becomes(p, IdlePass)
      BY <1>2 DEF EndPass, Dies, Ends
    <2>2. QED
      BY <1>1, <2>1, IdleTyped
  <1>3. ASSUME NEW p \in Passes, FeedbackStep(p) \/ SourceFails(p) PROVE PassesTyped'
    BY <1>1, <1>3, ReadRows, HandleRows DEF FeedbackStep
  <1>4. ASSUME NEW p \in Passes, ContinuationStep(p) \/ ReadFails(p) PROVE PassesTyped'
    BY <1>1, <1>2, <1>4, ReadRows, HandleRows, ContinuationRows DEF ContinuationStep
  <1>5. CASE UNCHANGED pass
    BY <1>5 DEF PassesTyped, RowTyped
  <1>6. QED
    <2>1. \/ \E p \in Passes : \/ FeedbackStep(p) \/ SourceFails(p) \/ ContinuationStep(p)
                               \/ ReadFails(p) \/ Dies(p)
          \/ UNCHANGED pass
      BY DEF Next, PassStep, DiscoverFails, Appear, RegisterContinuation, PullMoves, vars
    <2>2. QED
      BY <1>2, <1>3, <1>4, <1>5, <2>1

\* At first GitHub lists nothing, and no pass is at work.
LEMMA InitTypes == Init => TypesInv
  <1> SUFFICES ASSUME Init PROVE TypesInv
    OBVIOUS
  <1>1. WorldTyped
    <2>1. workload.moves \in Nat
      BY PollerAssumption DEF Init
    <2>2. QED
      BY <2>1, PollerAssumption DEF Init, WorldTyped, VisibleBounded, Pull
  <1>2. CursorTyped
    BY DEF Init, FeedbackInit, CursorTyped
  <1>3. PassesTyped
    BY IdleTyped DEF Init, PassesTyped
  <1>4. QED
    BY <1>1, <1>2, <1>3, InitPoller DEF TypesInv

\* The tables, the passes and the bounds have their types in every reachable
\* state.
THEOREM PollerTypes == Spec => []PollerTypeOK
  <1>1. TypesInv /\ [Next]_vars => TypesInv'
    BY PollerInductive, WorldSteps, CursorSteps, PassSteps DEF TypesInv
  <1>2. TypesInv => PollerTypeOK
    BY DEF TypesInv, PollerInv, Tables, WorldTyped, CursorTyped, PassesTyped, RowTyped,
           PollerTypeOK, FeedbackTypeOK
  <1>3. QED
    BY <1>1, <1>2, InitTypes, PTL DEF Spec
=============================================================================
