------------------------ MODULE LoggingServiceProofs ------------------------
(***************************************************************************)
(* The logging facade for any plan, any number of executions and any       *)
(* checkpoint interval: its projections are typed and in step, it keeps    *)
(* the promises of ExecutionJournal, and its log tells what they are.      *)
(***************************************************************************)
EXTENDS LoggingService, WellFoundedInduction, SequenceTheorems, TLAPS

-----------------------------------------------------------------------------
(* Numbers and sequences                                                   *)

(* Every set of numbers that is not empty has a least one: what an         *)
(* argument by the first counterexample rests on.                          *)
LEMMA LeastNumber ==
  ASSUME NEW T \in SUBSET Nat, T # {}
  PROVE  \E x \in T : \A y \in T : x <= y
<1>1. PICK x \in T : \A y \in T : <<y, x>> \notin OpToRel(<, Nat)
  BY WFMin, NatLessThanWellFounded
<1>2. ASSUME NEW y \in T, y < x
      PROVE  FALSE
  BY <1>1, <1>2 DEF OpToRel
<1> QED
  BY <1>2

(* A sequence of whatever is in it.                                        *)
IsSeq(s) == s \in Seq({s[k] : k \in DOMAIN s})

(* What Append does to a sequence of whatever is in it.                    *)
LEMMA Appending ==
  ASSUME NEW s, IsSeq(s), NEW x
  PROVE  /\ IsSeq(Append(s, x))
         /\ Len(s) \in Nat /\ Len(Append(s, x)) = Len(s) + 1
         /\ \A k \in 1 .. Len(s) : Append(s, x)[k] = s[k]
         /\ Append(s, x)[Len(s) + 1] = x
<1> DEFINE S == {s[k] : k \in DOMAIN s} \union {x}
           t == Append(s, x)
<1>1. s \in Seq(S) /\ x \in S
  BY SeqMonotonic DEF IsSeq
<1>2. /\ t \in Seq(S)
      /\ Len(t) = Len(s) + 1 /\ DOMAIN t = 1 .. Len(t)
      /\ \A k \in 1 .. Len(s) : t[k] = s[k]
      /\ t[Len(s) + 1] = x
  BY <1>1, AppendProperties
<1>3. IsSeq(t)
  BY <1>2 DEF IsSeq
<1> QED
  BY <1>1, <1>2, <1>3

-----------------------------------------------------------------------------
(* What the log tells                                                      *)

(* The telling of a log, prefix by prefix.                                 *)
TellingStep(f, k, entries, past, view) ==
  IF k = 0 THEN view
  ELSE IF entries[k].seq <= past THEN f[k - 1]
  ELSE Told(f[k - 1], entries[k].event)

Tells(f, n, entries, past, view) ==
  f = [k \in 0 .. n |-> TellingStep(f, k, entries, past, view)]

(* Every log can be told.                                                  *)
LEMMA TellingExists ==
  ASSUME NEW entries, NEW past, NEW view, NEW n \in Nat
  PROVE  \E f : Tells(f, n, entries, past, view)
<1> DEFINE Untold == {m \in Nat : ~ \E f : Tells(f, m, entries, past, view)}
<1> SUFFICES ASSUME Untold # {}
             PROVE  FALSE
  OBVIOUS
<1>1. PICK m \in Untold : \A l \in Untold : m <= l
  BY LeastNumber
<1>2. CASE m = 0
  <2> DEFINE f == [k \in 0 .. 0 |-> view]
  <2>1. Tells(f, 0, entries, past, view)
    BY DEF Tells, TellingStep
  <2> QED
    BY <1>2, <2>1
<1>3. CASE m # 0
  <2>1. m - 1 \in Nat /\ m - 1 \notin Untold
    BY <1>1, <1>3
  <2>2. PICK f : Tells(f, m - 1, entries, past, view)
    BY <2>1
  <2> DEFINE g == [k \in 0 .. m |-> IF k = m THEN TellingStep(f, m, entries, past, view)
                                    ELSE f[k]]
  <2>3. \A k \in 0 .. m - 1 : f[k] = TellingStep(f, k, entries, past, view)
    BY <2>2 DEF Tells
  <2>4. \A k \in 0 .. m : TellingStep(g, k, entries, past, view)
                            = TellingStep(f, k, entries, past, view)
    BY <2>1 DEF TellingStep
  <2>5. \A k \in 0 .. m : g[k] = TellingStep(g, k, entries, past, view)
    BY <2>1, <2>3, <2>4
  <2>6. Tells(g, m, entries, past, view)
    BY <2>5 DEF Tells
  <2> QED
    BY <2>6
<1> QED
  BY <1>2, <1>3

(* And ToldBy is the end of a telling.                                     *)
LEMMA ToldByTelling ==
  ASSUME NEW entries, Len(entries) \in Nat, NEW past, NEW view
  PROVE  \E f : /\ Tells(f, Len(entries), entries, past, view)
                /\ ToldBy(entries, past, view) = f[Len(entries)]
<1> DEFINE f == CHOOSE g : Tells(g, Len(entries), entries, past, view)
<1>1. Tells(f, Len(entries), entries, past, view)
  BY TellingExists, Zenon
<1>2. ToldBy(entries, past, view) = f[Len(entries)]
  BY Zenon DEF ToldBy, Tells, TellingStep
<1> QED
  BY <1>1, <1>2

(* Logs that agree up to an event tell the same up to it.                  *)
LEMMA TellingsAgree ==
  ASSUME NEW a, NEW b, NEW past, NEW view, NEW f, NEW g, NEW n, NEW m,
         n \in Nat, m \in Nat, n <= m, \A k \in 1 .. n : a[k] = b[k],
         Tells(f, n, a, past, view), Tells(g, m, b, past, view)
  PROVE  f[n] = g[n]
<1> DEFINE Differs == {k \in Nat : k <= n /\ f[k] # g[k]}
<1> SUFFICES ASSUME Differs # {}
             PROVE  FALSE
  OBVIOUS
<1>1. PICK k \in Differs : \A l \in Differs : k <= l
  BY LeastNumber
<1>2. /\ f[k] = TellingStep(f, k, a, past, view)
      /\ g[k] = TellingStep(g, k, b, past, view)
  <2>1. k \in 0 .. n /\ k \in 0 .. m
    BY <1>1
  <2>2. f[k] = TellingStep(f, k, a, past, view)
    BY <2>1, Zenon DEF Tells
  <2>3. g[k] = TellingStep(g, k, b, past, view)
    BY <2>1, Zenon DEF Tells
  <2> QED
    BY <2>2, <2>3
<1>3. k # 0 => k - 1 \in Nat /\ k - 1 \notin Differs /\ a[k] = b[k]
  BY <1>1
<1>4. k # 0 => f[k - 1] = g[k - 1]
  BY <1>1, <1>3
<1> QED
  BY <1>1, <1>2, <1>3, <1>4 DEF TellingStep

(* One event more is told last, unless it is not past the sequence id.     *)
LEMMA OneEventMore ==
  ASSUME NEW entries, IsSeq(entries), NEW x, NEW past, NEW view
  PROVE  ToldBy(Append(entries, x), past, view)
           = IF x.seq <= past THEN ToldBy(entries, past, view)
             ELSE Told(ToldBy(entries, past, view), x.event)
<1> DEFINE longer == Append(entries, x)
           n == Len(entries)
           m == Len(longer)
<1>1. /\ n \in Nat /\ m \in Nat /\ m = n + 1
      /\ \A k \in 1 .. n : entries[k] = longer[k]
      /\ longer[m] = x
  BY Appending
<1> HIDE DEF longer
<1>2. PICK f : /\ Tells(f, n, entries, past, view)
               /\ ToldBy(entries, past, view) = f[n]
  BY <1>1, ToldByTelling
<1>3. PICK g : /\ Tells(g, m, longer, past, view)
               /\ ToldBy(longer, past, view) = g[m]
  BY <1>1, ToldByTelling
<1> HIDE DEF n, m
<1>4. f[n] = g[n]
  <2>1. n \in Nat /\ m \in Nat /\ n <= m
    BY <1>1
  <2>2. \A k \in 1 .. n : entries[k] = longer[k]
    BY <1>1
  <2>3. Tells(f, n, entries, past, view) /\ Tells(g, m, longer, past, view)
    BY <1>2, <1>3
  <2> HIDE DEF Tells
  <2> QED
    BY <2>1, <2>2, <2>3, TellingsAgree
<1>5. g[m] = TellingStep(g, m, longer, past, view)
  BY <1>1, <1>3 DEF Tells
<1>6. g[m] = IF x.seq <= past THEN g[n] ELSE Told(g[n], x.event)
  BY <1>1, <1>5 DEF TellingStep
<1> QED
  BY <1>2, <1>3, <1>4, <1>6 DEF longer

(* A log without events past the sequence id tells nothing.                *)
LEMMA NothingPast ==
  ASSUME NEW entries, IsSeq(entries), NEW past, NEW view,
         \A k \in DOMAIN entries : entries[k].seq <= past
  PROVE  ToldBy(entries, past, view) = view
<1> DEFINE n == Len(entries)
<1>1. n \in Nat /\ DOMAIN entries = 1 .. n
  BY DEF IsSeq
<1>2. PICK f : /\ Tells(f, n, entries, past, view)
               /\ ToldBy(entries, past, view) = f[n]
  BY <1>1, ToldByTelling
<1> HIDE DEF n
<1> DEFINE Changed == {k \in Nat : k <= n /\ f[k] # view}
<1> SUFFICES ASSUME Changed # {}
             PROVE  FALSE
  BY <1>1, <1>2
<1>3. PICK k \in Changed : \A l \in Changed : k <= l
  BY LeastNumber
<1>4. f[k] = TellingStep(f, k, entries, past, view)
  BY <1>1, <1>2, <1>3 DEF Tells
<1>5. k # 0 => k - 1 \in Nat /\ k - 1 \notin Changed /\ entries[k].seq <= past
  BY <1>1, <1>3
<1>6. k # 0 => f[k - 1] = view
  BY <1>1, <1>3, <1>5
<1> QED
  BY <1>3, <1>4, <1>5, <1>6 DEF TellingStep

-----------------------------------------------------------------------------
(* Plans and contexts                                                      *)

(* The plan service hands out items of the plan.                           *)
LEMMA NextRunnableType ==
  ASSUME NEW status
  PROVE  NextRunnable(status) \in Items \union {NoItem}
<1> DEFINE finished == {i \in Items : status[i] = "done"}
           ready == {k \in DOMAIN Steps : /\ status[Steps[k]] = "pending"
                                          /\ DependsOn[Steps[k]] \subseteq finished}
           first == CHOOSE k \in ready : \A j \in ready : k <= j
<1>1. ready \in SUBSET Nat /\ ready \subseteq DOMAIN Steps
  BY PlanAssumption
<1>2. CASE ready = {}
  BY <1>2 DEF NextRunnable
<1>3. CASE ready # {}
  <2>1. \E k \in ready : \A j \in ready : k <= j
    BY <1>1, <1>3, LeastNumber
  <2>2. first \in ready
    BY <2>1, Zenon
  <2>3. NextRunnable(status) = Steps[first]
    BY <1>3, Zenon DEF NextRunnable
  <2> QED
    BY <1>1, <2>2, <2>3 DEF Items
<1> QED
  BY <1>2, <1>3

(* The plan of a new run is a plan.                                        *)
LEMMA NewPlanType == NewPlan \in Plans
BY NextRunnableType, PlanAssumption DEF NewPlan, Plans

(* Every change of a plan makes a plan.                                    *)
LEMMA PlanTypes ==
  ASSUME NEW p \in Plans, NEW i \in Items, NEW s \in ItemStatuses
  PROVE  /\ Bumped(p) \in Plans
         /\ WithActive(p, i) \in Plans
         /\ WithStatus(p, i, s) \in Plans
<1>1. ASSUME NEW q \in Plans
      PROVE  Bumped(q) \in Plans
  BY DEF Bumped, Plans
<1>2. WithActive(p, i) \in Plans
  <2>1. [p EXCEPT !.active = i] \in Plans
    BY DEF Plans
  <2> QED
    BY <1>1, <2>1 DEF WithActive
<1> DEFINE status == [p.status EXCEPT ![i] = s]
           next == IF s = "done" /\ p.active = i THEN NextRunnable(status) ELSE NoItem
<1>3. next \in Items \union {NoItem} /\ status \in [Items -> ItemStatuses]
  BY NextRunnableType DEF Plans
<1>4. WithStatus(p, i, s) = Bumped([p EXCEPT !.status = status,
                                             !.active = IF next = NoItem THEN @ ELSE next])
  BY DEF WithStatus
<1> HIDE DEF status, next
<1>5. [p EXCEPT !.status = status, !.active = IF next = NoItem THEN @ ELSE next] \in Plans
  BY <1>3 DEF Plans
<1> QED
  BY <1>1, <1>2, <1>4, <1>5

(* The context takes the plan's version and cursor.                        *)
LEMMA InSyncType ==
  ASSUME NEW c \in Contexts, NEW p \in Plans
  PROVE  InSync(c, p) \in Contexts
<1>1. Cursor(p) = NoCursor \/ Cursor(p) \in Nat
  BY PlanAssumption DEF Cursor, Plans
<1> QED
  BY <1>1 DEF InSync, Contexts, Plans

(* A new version of a plan is a plan.                                      *)
LEMMA BumpedType ==
  ASSUME NEW p \in Plans
  PROVE  Bumped(p) \in Plans
BY DEF Bumped, Plans

(* The context of a new run is a context.                                  *)
LEMMA NewContextType == NewContext \in Contexts
BY LoggingAssumption DEF NewContext, Contexts

-----------------------------------------------------------------------------
(* Type correctness                                                        *)

(* What concatenation does to sequences of whatever is in them.            *)
LEMMA Concatenating ==
  ASSUME NEW s, IsSeq(s), NEW t, IsSeq(t)
  PROVE  /\ IsSeq(s \o t)
         /\ Len(s \o t) = Len(s) + Len(t)
         /\ \A k \in 1 .. Len(s) + Len(t) :
              (s \o t)[k] = IF k <= Len(s) THEN s[k] ELSE t[k - Len(s)]
<1> DEFINE S == {s[k] : k \in DOMAIN s} \union {t[k] : k \in DOMAIN t}
           u == s \o t
<1>1. s \in Seq(S) /\ t \in Seq(S)
  BY SeqMonotonic DEF IsSeq
<1>2. /\ u \in Seq(S)
      /\ Len(u) = Len(s) + Len(t)
      /\ \A k \in 1 .. Len(s) + Len(t) : u[k] = IF k <= Len(s) THEN s[k] ELSE t[k - Len(s)]
  BY <1>1, ConcatProperties
<1> HIDE DEF u
<1>3. Len(u) \in Nat /\ DOMAIN u = 1 .. Len(u) /\ u \in [1 .. Len(u) -> S]
  BY <1>2, LenProperties
<1>4. u \in Seq({u[k] : k \in DOMAIN u})
  <2>1. u \in [1 .. Len(u) -> {u[k] : k \in DOMAIN u}]
    BY <1>3
  <2> QED
    BY <1>3, <2>1, SeqDef
<1> QED
  BY <1>2, <1>4 DEF IsSeq, u

(* The same of sequences whose lengths have names.                         *)
LEMMA JoiningOf ==
  ASSUME NEW s, IsSeq(s), NEW t, IsSeq(t), NEW n, NEW m, Len(s) = n, Len(t) = m
  PROVE  /\ IsSeq(s \o t)
         /\ Len(s \o t) = n + m
         /\ \A k \in 1 .. n + m : (s \o t)[k] = IF k <= n THEN s[k] ELSE t[k - n]
<1> DEFINE u == s \o t
<1>1. /\ IsSeq(u)
      /\ Len(u) = Len(s) + Len(t)
      /\ \A k \in 1 .. Len(s) + Len(t) : u[k] = IF k <= Len(s) THEN s[k] ELSE t[k - Len(s)]
  BY Concatenating
<1> HIDE DEF u
<1>2. /\ IsSeq(u)
      /\ Len(u) = n + m
      /\ \A k \in 1 .. n + m : u[k] = IF k <= n THEN s[k] ELSE t[k - n]
  BY <1>1
<1> QED
  BY <1>2 DEF u

(* Events are numbered on from the store's last sequence id.               *)
LEMMA Numbering ==
  ASSUME NEW events, IsSeq(events)
  PROVE  /\ IsSeq(Numbered(events)) /\ Len(Numbered(events)) = Len(events)
         /\ Len(events) \in Nat
         /\ \A k \in 1 .. Len(events) :
              Numbered(events)[k] = [seq |-> lastSeq + k, event |-> events[k]]
BY DEF IsSeq, Numbered

(* A log in the order of its sequence ids, none of them past the last.     *)
InOrder(entries, last) ==
  /\ IsSeq(entries)
  /\ \A k \in DOMAIN entries : entries[k].seq \in 1 .. last
  /\ \A j, k \in DOMAIN entries : j < k => entries[j].seq < entries[k].seq

(* An entry past the last one keeps a log in order.                        *)
LEMMA AppendedInOrder ==
  ASSUME NEW entries, NEW last \in Nat, InOrder(entries, last),
         NEW next \in Nat, last < next, NEW x, x.seq = next
  PROVE  InOrder(Append(entries, x), next)
<1> DEFINE longer == Append(entries, x)
           n == Len(entries)
<1>1. /\ IsSeq(longer) /\ n \in Nat /\ Len(longer) = n + 1
      /\ \A k \in 1 .. n : longer[k] = entries[k]
      /\ longer[n + 1] = x
  BY Appending DEF InOrder
<1>2. DOMAIN longer = 1 .. n + 1 /\ DOMAIN entries = 1 .. n
  BY <1>1 DEF IsSeq, InOrder
<1> HIDE DEF longer, n
<1> QED
  BY <1>1, <1>2 DEF InOrder, longer

(* So do the events of a commit.                                           *)
LEMMA NumberedInOrder ==
  ASSUME lastSeq \in Nat, InOrder(log, lastSeq), NEW events, IsSeq(events)
  PROVE  InOrder(log \o Numbered(events), lastSeq + Len(events))
<1> DEFINE longer == log \o Numbered(events)
           n == Len(log)
           m == Len(events)
<1>0. /\ IsSeq(Numbered(events)) /\ Len(Numbered(events)) = m /\ m \in Nat
      /\ \A k \in 1 .. m : Numbered(events)[k] = [seq |-> lastSeq + k, event |-> events[k]]
  BY Numbering
<1>1. /\ IsSeq(longer) /\ n \in Nat /\ m \in Nat /\ Len(longer) = n + m
      /\ \A k \in 1 .. n + m : longer[k] = IF k <= n THEN log[k] ELSE Numbered(events)[k - n]
  <2>1. IsSeq(log)
    BY DEF InOrder
  <2>2. n \in Nat
    BY <2>1 DEF IsSeq
  <2> HIDE DEF m
  <2> QED
    BY <1>0, <2>1, <2>2, Concatenating
<1>2. DOMAIN longer = 1 .. n + m /\ DOMAIN log = 1 .. n
  BY <1>1 DEF IsSeq, InOrder
<1> HIDE DEF longer, n, m
<1>3. ASSUME NEW k \in 1 .. m
      PROVE  Numbered(events)[k].seq = lastSeq + k
  <2>1. Numbered(events)[k] = [seq |-> lastSeq + k, event |-> events[k]]
    BY <1>0
  <2> QED
    BY <2>1
<1>4. ASSUME NEW k \in 1 .. n + m
      PROVE  longer[k].seq = IF k <= n THEN log[k].seq ELSE lastSeq + (k - n)
  <2>1. CASE k <= n
    BY <1>1, <2>1
  <2>2. CASE ~(k <= n)
    <3>1. k - n \in 1 .. m
      BY <1>1, <2>2
    <3>2. longer[k] = Numbered(events)[k - n]
      BY <1>1, <2>2
    <3> QED
      BY <1>3, <2>2, <3>1, <3>2
  <2> QED
    BY <2>1, <2>2
<1>5. \A k \in 1 .. n : log[k].seq \in 1 .. lastSeq
  BY <1>2 DEF InOrder
<1>6. \A j, k \in 1 .. n : j < k => log[j].seq < log[k].seq
  BY <1>2 DEF InOrder
<1>7. \A k \in 1 .. n + m : longer[k].seq \in 1 .. lastSeq + m
  BY <1>1, <1>4, <1>5
<1>8. \A j, k \in 1 .. n + m : j < k => longer[j].seq < longer[k].seq
  <2> SUFFICES ASSUME NEW j \in 1 .. n + m, NEW k \in 1 .. n + m, j < k
               PROVE  longer[j].seq < longer[k].seq
    OBVIOUS
  <2>1. CASE k <= n
    BY <1>1, <1>4, <1>6, <2>1
  <2>2. CASE ~(k <= n)
    BY <1>1, <1>4, <1>5, <2>2, SMTT(40)
  <2> QED
    BY <2>1, <2>2
<1> QED
  BY <1>1, <1>2, <1>7, <1>8 DEF InOrder, longer, m

(* The facade's types, the order of its log, and a checkpoint that refers  *)
(* to an event of the store.                                               *)
FacadeInv ==
  /\ TypeOK
  /\ InOrder(log, lastSeq)
  /\ checkpoint.seq <= lastSeq

(* A commit of typed projections keeps the facade typed, whether or not    *)
(* the automatic checkpoint is due.                                        *)
LEMMA CommitTypes ==
  ASSUME FacadeInv, NEW events, IsSeq(events), NEW p \in Plans, NEW c \in Contexts,
         Commit(events, p, c), records' \in [Exec -> Statuses \union {NoRecord}]
  PROVE  FacadeInv'
<1> USE LoggingAssumption
<1> DEFINE seq == lastSeq + Len(events)
           longer == log \o Numbered(events)
           due == CheckpointInterval > 0 /\ seq % CheckpointInterval = 0
<1>1. lastSeq \in Nat /\ Len(events) \in Nat
  BY Numbering DEF FacadeInv, TypeOK
<1>2. seq \in Nat /\ lastSeq <= seq /\ seq < MaxSeq
  BY <1>1 DEF Commit
<1>3. InOrder(longer, seq)
  BY <1>1, NumberedInOrder DEF FacadeInv
<1>4. CASE due
  <2>1. /\ log' = Append(longer, CheckpointEvent(seq)) /\ lastSeq' = seq + 1 /\ plan' = p
        /\ checkpoint' = [seq |-> seq, plan |-> p, context |-> c]
        /\ context' = [c EXCEPT !.lastCheckpoint = seq]
    BY <1>4 DEF Commit, Checkpointed
  <2> HIDE DEF seq, longer, due
  <2>2. InOrder(log', lastSeq')
    <3>1. CheckpointEvent(seq).seq = seq + 1 /\ seq + 1 \in Nat /\ seq < seq + 1
      BY <1>2 DEF CheckpointEvent
    <3> QED
      BY <1>2, <1>3, <2>1, <3>1, AppendedInOrder
  <2>3. context' \in Contexts
    BY <1>2, <2>1 DEF Contexts
  <2>4. /\ \A k \in DOMAIN log' : (log[k].seq)' \in 1 .. lastSeq'
        /\ \A j, k \in DOMAIN log' : j < k => (log[j].seq)' < (log[k].seq)'
    BY <2>2 DEF InOrder
  <2>5. /\ lastSeq' \in 0 .. MaxSeq /\ plan' \in Plans
        /\ checkpoint' \in [seq : 0 .. MaxSeq, plan : Plans, context : Contexts]
        /\ checkpoint'.seq <= lastSeq'
    BY <1>2, <2>1
  <2> QED
    BY <2>2, <2>3, <2>4, <2>5 DEF FacadeInv, TypeOK
<1>5. CASE ~due
  <2>1. /\ log' = longer /\ lastSeq' = seq /\ plan' = p /\ context' = c
        /\ checkpoint' = checkpoint
    BY <1>5 DEF Commit
  <2> HIDE DEF seq, longer, due
  <2>2. InOrder(log', lastSeq')
    BY <1>3, <2>1
  <2> QED
    BY <1>1, <1>2, <2>1, <2>2 DEF FacadeInv, TypeOK, InOrder
<1> QED
  BY <1>4, <1>5

-----------------------------------------------------------------------------
(* The events of the operations                                            *)

View(p, c, r) == [plan |-> p, context |-> c, records |-> r]

(* What the events that begin a run, and a message, tell of a view.        *)
LEMMA TellingOfStarts ==
  ASSUME NEW p, NEW c \in Contexts, NEW r
  PROVE  /\ Told(View(p, c, r), Event("RUN_STARTED", "run", << >>)) = View(p, c, r)
         /\ Told(View(p, c, r), Event("PLAN_CREATED", "planner", << >>)) = View(NewPlan, c, r)
         /\ Told(View(p, c, r), Event("CONTEXT_INITIALIZED", "context", <<SeedMessages>>))
              = View(p, NewContext, r)
         /\ Told(View(p, c, r), MessageAppended) = View(p, WithMessage(c), r)
<1> USE DEF Told, Event, View
<1>1. Told(View(p, c, r), Event("RUN_STARTED", "run", << >>)) = View(p, c, r)
  OBVIOUS
<1>2. Told(View(p, c, r), Event("PLAN_CREATED", "planner", << >>)) = View(NewPlan, c, r)
  OBVIOUS
<1>3. Told(View(p, c, r), Event("CONTEXT_INITIALIZED", "context", <<SeedMessages>>))
        = View(p, NewContext, r)
  BY DEF NewContext
<1>4. Told(View(p, c, r), MessageAppended) = View(p, WithMessage(c), r)
  BY DEF MessageAppended, WithMessage
<1> QED
  BY <1>1, <1>2, <1>3, <1>4

(* The set of pending executions is told as a whole.                       *)
LEMMA TellingOfPending ==
  ASSUME NEW p, NEW c \in Contexts, NEW r, NEW ids
  PROVE  Told(View(p, c, r), PendingSet(ids)) = View(p, [c EXCEPT !.pending = ids], r)
BY DEF Told, Event, View, PendingSet

(* A synchronization event says what the facade does to the context.       *)
LEMMA TellingOfSync ==
  ASSUME NEW p, NEW c \in Contexts, NEW r, NEW q
  PROVE  Told(View(p, c, r), Synchronized(q)) = View(p, InSync(c, q), r)
BY DEF Told, Event, View, Synchronized, InSync, Contexts

(* A checkpoint event tells the context which checkpoint it has.           *)
LEMMA TellingOfCheckpoints ==
  ASSUME NEW p, NEW c \in Contexts, NEW r, NEW k
  PROVE  Told(View(p, c, r), CheckpointEvent(k).event)
           = View(p, [c EXCEPT !.lastCheckpoint = k], r)
BY DEF Told, Event, View, CheckpointEvent

(* What is told of one plan item.                                          *)
LEMMA TellingOfItems ==
  ASSUME NEW p, NEW c, NEW r, NEW i
  PROVE  /\ Told(View(p, c, r), Event("PLAN_ITEM_LLM_OUTPUT_ATTACHED", i, << >>))
              = View(Bumped(p), c, r)
         /\ Told(View(p, c, r), Event("PLAN_ACTIVE_ITEM_SET", i, << >>))
              = View(WithActive(p, i), c, r)
BY DEF Told, Event, View

(* The status of a plan item is told with its effect on the plan.          *)
LEMMA TellingOfStatus ==
  ASSUME NEW p, NEW c, NEW r, NEW i, NEW s
  PROVE  Told(View(p, c, r), Event("PLAN_ITEM_STATUS_UPDATED", i, <<s>>))
           = View(WithStatus(p, i, s), c, r)
BY DEF Told, Event, View

(* What is told of an execution: its intent,                               *)
LEMMA TellingOfIntents ==
  ASSUME NEW p, NEW c, NEW r, NEW e
  PROVE  Told(View(p, c, r), Event("TOOL_INTENT_RECORDED", e, << >>))
           = View(Bumped(p), c, [r EXCEPT ![e] = "intent_logged"])
BY DEF Told, Event, View

(* its dispatch,                                                           *)
LEMMA TellingOfDispatches ==
  ASSUME NEW p, NEW c, NEW r, NEW e
  PROVE  Told(View(p, c, r), Event("TOOL_DISPATCHED", e, << >>))
           = View(p, c, [r EXCEPT ![e] = "dispatched"])
BY DEF Told, Event, View

(* and its result.                                                         *)
LEMMA TellingOfResults ==
  ASSUME NEW p, NEW c, NEW r, NEW e, NEW s
  PROVE  Told(View(p, c, r), Event("EXTERNAL_RESULT_RECORDED", e, <<s>>))
           = View(p, c, [r EXCEPT ![e] = s])
BY DEF Told, Event, View

(* An event that leads from records among some to records among them.      *)
StaysAmong(S, event) ==
  \A p, c : \A r \in S : \E q, d : \E t \in S : Told(View(p, c, r), event) = View(q, d, t)

(* An event that leads from all records to the same is one for any.        *)
LEMMA KeepingIsStaying ==
  ASSUME NEW S, NEW a, \A p, c, r : \E q, d : Told(View(p, c, r), a) = View(q, d, r)
  PROVE  StaysAmong(S, a)
BY DEF StaysAmong

(* So are the events of the plan and of the context.                       *)
LEMMA OthersKeepRecords ==
  ASSUME NEW S, NEW e, NEW x
  PROVE  /\ StaysAmong(S, Event("RUN_STARTED", e, x))
         /\ StaysAmong(S, Event("PLAN_CREATED", e, x))
         /\ StaysAmong(S, Event("CONTEXT_INITIALIZED", e, x))
         /\ StaysAmong(S, Event("CONTEXT_MESSAGE_APPENDED", e, x))
         /\ StaysAmong(S, Event("CONTEXT_PENDING_EXECUTION_SET", e, x))
         /\ StaysAmong(S, Event("CONTEXT_SYNCHRONIZED", e, x))
         /\ StaysAmong(S, Event("CHECKPOINT_WRITTEN", e, x))
         /\ StaysAmong(S, Event("PLAN_ITEM_LLM_OUTPUT_ATTACHED", e, x))
         /\ StaysAmong(S, Event("PLAN_ITEM_STATUS_UPDATED", e, x))
         /\ StaysAmong(S, Event("PLAN_ACTIVE_ITEM_SET", e, x))
<1>1. StaysAmong(S, Event("RUN_STARTED", e, x))
  <2>1. ASSUME NEW p, NEW c, NEW r
        PROVE  Told(View(p, c, r), Event("RUN_STARTED", e, x))
                 = View(p, c, r)
    BY DEF Told, Event, View
  <2> QED
    BY <2>1, KeepingIsStaying
<1>2. StaysAmong(S, Event("PLAN_CREATED", e, x))
  <2>1. ASSUME NEW p, NEW c, NEW r
        PROVE  Told(View(p, c, r), Event("PLAN_CREATED", e, x))
                 = View(NewPlan, c, r)
    BY DEF Told, Event, View
  <2> QED
    BY <2>1, KeepingIsStaying
<1>3. StaysAmong(S, Event("CONTEXT_INITIALIZED", e, x))
  <2>1. ASSUME NEW p, NEW c, NEW r
        PROVE  Told(View(p, c, r), Event("CONTEXT_INITIALIZED", e, x))
                 = View(p, [NewContext EXCEPT !.messages = x[1]], r)
    BY DEF Told, Event, View
  <2> QED
    BY <2>1, KeepingIsStaying
<1>4. StaysAmong(S, Event("CONTEXT_MESSAGE_APPENDED", e, x))
  <2>1. ASSUME NEW p, NEW c, NEW r
        PROVE  Told(View(p, c, r), Event("CONTEXT_MESSAGE_APPENDED", e, x))
                 = View(p, [c EXCEPT !.messages = @ + 1], r)
    BY DEF Told, Event, View
  <2> DEFINE d(c) == [c EXCEPT !.messages = @ + 1]
             a == Event("CONTEXT_MESSAGE_APPENDED", e, x)
  <2>2. \A p, c, r : Told(View(p, c, r), a) = View(p, d(c), r)
    BY <2>1, Zenon
  <2> HIDE DEF d, a
  <2>3. StaysAmong(S, a)
    BY <2>2, KeepingIsStaying
  <2> QED
    BY <2>3 DEF a
<1>5. StaysAmong(S, Event("CONTEXT_PENDING_EXECUTION_SET", e, x))
  <2>1. ASSUME NEW p, NEW c, NEW r
        PROVE  Told(View(p, c, r), Event("CONTEXT_PENDING_EXECUTION_SET", e, x))
                 = View(p, [c EXCEPT !.pending = x[1]], r)
    BY DEF Told, Event, View
  <2> DEFINE d(c) == [c EXCEPT !.pending = x[1]]
             a == Event("CONTEXT_PENDING_EXECUTION_SET", e, x)
  <2>2. \A p, c, r : Told(View(p, c, r), a) = View(p, d(c), r)
    BY <2>1, Zenon
  <2> HIDE DEF d, a
  <2>3. StaysAmong(S, a)
    BY <2>2, KeepingIsStaying
  <2> QED
    BY <2>3 DEF a
<1>6. StaysAmong(S, Event("CONTEXT_SYNCHRONIZED", e, x))
  <2>1. ASSUME NEW p, NEW c, NEW r
        PROVE  Told(View(p, c, r), Event("CONTEXT_SYNCHRONIZED", e, x))
                 = View(p, [c EXCEPT !.plannerVersion = x[1],
                                     !.stepIndex = IF x[2] = NoCursor THEN @ ELSE x[2]], r)
    BY DEF Told, Event, View
  <2> DEFINE d(c) == [c EXCEPT !.plannerVersion = x[1],
                               !.stepIndex = IF x[2] = NoCursor THEN @ ELSE x[2]]
             a == Event("CONTEXT_SYNCHRONIZED", e, x)
  <2>2. \A p, c, r : Told(View(p, c, r), a) = View(p, d(c), r)
    BY <2>1, Zenon
  <2> HIDE DEF d, a
  <2>3. StaysAmong(S, a)
    BY <2>2, KeepingIsStaying
  <2> QED
    BY <2>3 DEF a
<1>7. StaysAmong(S, Event("CHECKPOINT_WRITTEN", e, x))
  <2>1. ASSUME NEW p, NEW c, NEW r
        PROVE  Told(View(p, c, r), Event("CHECKPOINT_WRITTEN", e, x))
                 = View(p, [c EXCEPT !.lastCheckpoint = x[1]], r)
    BY DEF Told, Event, View
  <2> DEFINE d(c) == [c EXCEPT !.lastCheckpoint = x[1]]
             a == Event("CHECKPOINT_WRITTEN", e, x)
  <2>2. \A p, c, r : Told(View(p, c, r), a) = View(p, d(c), r)
    BY <2>1, Zenon
  <2> HIDE DEF d, a
  <2>3. StaysAmong(S, a)
    BY <2>2, KeepingIsStaying
  <2> QED
    BY <2>3 DEF a
<1>8. StaysAmong(S, Event("PLAN_ITEM_LLM_OUTPUT_ATTACHED", e, x))
  <2>1. ASSUME NEW p, NEW c, NEW r
        PROVE  Told(View(p, c, r), Event("PLAN_ITEM_LLM_OUTPUT_ATTACHED", e, x))
                 = View(Bumped(p), c, r)
    BY DEF Told, Event, View
  <2> QED
    BY <2>1, KeepingIsStaying
<1>9. StaysAmong(S, Event("PLAN_ITEM_STATUS_UPDATED", e, x))
  <2>1. ASSUME NEW p, NEW c, NEW r
        PROVE  Told(View(p, c, r), Event("PLAN_ITEM_STATUS_UPDATED", e, x))
                 = View(WithStatus(p, e, x[1]), c, r)
    BY DEF Told, Event, View
  <2> QED
    BY <2>1, KeepingIsStaying
<1>10. StaysAmong(S, Event("PLAN_ACTIVE_ITEM_SET", e, x))
  <2>1. ASSUME NEW p, NEW c, NEW r
        PROVE  Told(View(p, c, r), Event("PLAN_ACTIVE_ITEM_SET", e, x))
                 = View(WithActive(p, e), c, r)
    BY DEF Told, Event, View
  <2> QED
    BY <2>1, KeepingIsStaying
<1> QED
  BY <1>1, <1>2, <1>3, <1>4, <1>5, <1>6, <1>7, <1>8, <1>9, <1>10, Zenon

(* The log with some events of a commit, and with one more.                *)
LEMMA OneNumberedMore ==
  ASSUME FacadeInv, NEW events, IsSeq(events), NEW a
  PROVE  log \o Numbered(Append(events, a))
           = Append(log \o Numbered(events),
                    [seq |-> lastSeq + Len(events) + 1, event |-> a])
<1> DEFINE n == Len(log)
           m == Len(events)
           more == Append(events, a)
           x == [seq |-> lastSeq + m + 1, event |-> a]
           left == log \o Numbered(more)
           right == Append(log \o Numbered(events), x)
<1>1. IsSeq(log) /\ Len(log) = n /\ n \in Nat /\ lastSeq \in Nat
  BY DEF FacadeInv, TypeOK, InOrder, IsSeq
<1>2. /\ IsSeq(more) /\ m \in Nat /\ Len(more) = m + 1
      /\ \A k \in 1 .. m : more[k] = events[k]
      /\ more[m + 1] = a
  BY Appending
<1>3. /\ IsSeq(Numbered(more)) /\ Len(Numbered(more)) = m + 1
      /\ \A k \in 1 .. m + 1 : Numbered(more)[k] = [seq |-> lastSeq + k, event |-> more[k]]
  BY <1>2, Numbering
<1>4. /\ IsSeq(Numbered(events)) /\ Len(Numbered(events)) = m
      /\ \A k \in 1 .. m : Numbered(events)[k] = [seq |-> lastSeq + k, event |-> events[k]]
  BY Numbering
<1>5. /\ IsSeq(left) /\ Len(left) = n + (m + 1)
      /\ \A k \in 1 .. n + (m + 1) : left[k] = IF k <= n THEN log[k] ELSE Numbered(more)[k - n]
  <2> DEFINE rest == Numbered(more)
  <2>1. IsSeq(log) /\ IsSeq(rest) /\ Len(log) = n /\ Len(rest) = m + 1
    BY <1>1, <1>3
  <2> HIDE DEF n, m, more, rest
  <2>2. /\ IsSeq(log \o rest) /\ Len(log \o rest) = n + (m + 1)
        /\ \A k \in 1 .. n + (m + 1) : (log \o rest)[k] = IF k <= n THEN log[k] ELSE rest[k - n]
    BY <2>1, JoiningOf
  <2> QED
    BY <2>2 DEF rest
<1>6. /\ IsSeq(log \o Numbered(events)) /\ Len(log \o Numbered(events)) = n + m
      /\ \A k \in 1 .. n + m : (log \o Numbered(events))[k]
                                 = IF k <= n THEN log[k] ELSE Numbered(events)[k - n]
  <2> DEFINE rest == Numbered(events)
  <2>1. IsSeq(log) /\ IsSeq(rest) /\ Len(log) = n /\ Len(rest) = m
    BY <1>1, <1>4
  <2> HIDE DEF n, m, rest
  <2>2. /\ IsSeq(log \o rest) /\ Len(log \o rest) = n + m
        /\ \A k \in 1 .. n + m : (log \o rest)[k] = IF k <= n THEN log[k] ELSE rest[k - n]
    BY <2>1, JoiningOf
  <2> QED
    BY <2>2 DEF rest
<1>7. /\ IsSeq(right) /\ Len(right) = n + m + 1
      /\ \A k \in 1 .. n + m : right[k] = (log \o Numbered(events))[k]
      /\ right[n + m + 1] = x
  BY <1>6, Appending
<1> HIDE DEF n, m, more, left, right
<1>8. ASSUME NEW k \in 1 .. Len(left)
      PROVE  left[k] = right[k]
  <2>0. k \in 1 .. n + (m + 1) /\ k \in Nat
    BY <1>1, <1>2, <1>5
  <2>1. CASE k <= n
    <3>1. k \in 1 .. n + m
      BY <1>1, <1>2, <2>0, <2>1
    <3>2. left[k] = log[k]
      BY <1>5, <2>0, <2>1
    <3>3. (log \o Numbered(events))[k] = log[k]
      BY <1>6, <2>1, <3>1
    <3> QED
      BY <1>7, <3>1, <3>2, <3>3
  <2>2. CASE k \in n + 1 .. n + m
    <3>1. k - n \in 1 .. m /\ k - n \in 1 .. m + 1 /\ ~(k <= n) /\ k \in 1 .. n + m
      BY <1>1, <1>2, <2>2
    <3>2. left[k] = Numbered(more)[k - n]
      BY <1>5, <2>0, <3>1
    <3>3. (log \o Numbered(events))[k] = Numbered(events)[k - n]
      BY <1>6, <3>1
    <3>4. more[k - n] = events[k - n]
      BY <1>2, <3>1
    <3>5. Numbered(more)[k - n] = Numbered(events)[k - n]
      BY <1>3, <1>4, <3>1, <3>4
    <3> QED
      BY <1>7, <3>1, <3>2, <3>3, <3>5
  <2>3. CASE k = n + m + 1
    <3>1. k - n = m + 1 /\ m + 1 \in 1 .. m + 1 /\ ~(k <= n)
      BY <1>1, <1>2, <2>3
    <3>2. left[k] = Numbered(more)[m + 1]
      BY <1>5, <2>0, <3>1
    <3>3. Numbered(more)[m + 1] = [seq |-> lastSeq + (m + 1), event |-> more[m + 1]]
      BY <1>3, <3>1
    <3>4. lastSeq + (m + 1) = lastSeq + m + 1
      BY <1>1, <1>2
    <3> QED
      BY <1>2, <1>7, <2>3, <3>2, <3>3, <3>4 DEF x
  <2>4. k <= n \/ k \in n + 1 .. n + m \/ k = n + m + 1
    BY <1>1, <1>2, <2>0
  <2> QED
    BY <2>1, <2>2, <2>3, <2>4
<1>9. left = right
  <2> DEFINE S == {left[k] : k \in DOMAIN left} \union {right[k] : k \in DOMAIN right}
  <2>1. left \in Seq(S) /\ right \in Seq(S)
    BY <1>5, <1>7, SeqMonotonic DEF IsSeq
  <2>2. Len(left) = Len(right)
    BY <1>1, <1>2, <1>5, <1>7
  <2> HIDE DEF S
  <2> QED
    BY <1>8, <2>1, <2>2, SeqEqual
<1> QED
  BY <1>9 DEF left, right, more, m

(* The lists of events an operation appends, one event at a time.          *)
LEMMA OneEvent ==
  ASSUME NEW a
  PROVE  IsSeq(<< >>) /\ IsSeq(<<a>>) /\ <<a>> = Append(<< >>, a)
<1>1. IsSeq(<< >>)
  BY DEF IsSeq
<1>2. <<a>> = Append(<< >>, a)
  OBVIOUS
<1>3. IsSeq(Append(<< >>, a))
  BY <1>1, Appending
<1> QED
  BY <1>1, <1>2, <1>3, Zenon

(* Two events.                                                             *)
LEMMA TwoEvents ==
  ASSUME NEW a, NEW b
  PROVE  IsSeq(<<a, b>>) /\ <<a, b>> = Append(<<a>>, b)
<1>1. <<a, b>> = Append(<<a>>, b)
  OBVIOUS
<1>2. IsSeq(Append(<<a>>, b))
  BY OneEvent, Appending, Zenon
<1> QED
  BY <1>1, <1>2

(* Three events.                                                           *)
LEMMA ThreeEvents ==
  ASSUME NEW a, NEW b, NEW c
  PROVE  IsSeq(<<a, b, c>>) /\ <<a, b, c>> = Append(<<a, b>>, c)
<1>1. <<a, b, c>> = Append(<<a, b>>, c)
  OBVIOUS
<1>2. IsSeq(Append(<<a, b>>, c))
  BY TwoEvents, Appending, Zenon
<1> QED
  BY <1>1, <1>2

(* Four events.                                                            *)
LEMMA FourEvents ==
  ASSUME NEW a, NEW b, NEW c, NEW d
  PROVE  IsSeq(<<a, b, c, d>>) /\ <<a, b, c, d>> = Append(<<a, b, c>>, d)
<1>1. <<a, b, c, d>> = Append(<<a, b, c>>, d)
  OBVIOUS
<1>2. IsSeq(Append(<<a, b, c>>, d))
  BY ThreeEvents, Appending, Zenon
<1> QED
  BY <1>1, <1>2

(* Before its events a commit tells nothing.                               *)
LEMMA NothingNumbered ==
  ASSUME FacadeInv
  PROVE  log \o Numbered(<< >>) = log
<1>1. log \o << >> = log
  BY ConcatEmptySeq DEF FacadeInv, InOrder, IsSeq
<1>2. Numbered(<< >>) = << >>
  BY DEF Numbered
<1> QED
  BY <1>1, <1>2

(* A sequence id that the store has reached.                               *)
NotYet(past) == past \in Nat /\ past <= lastSeq

(* A reader who is not past the store's last event is told of each event   *)
(* of a commit in its turn.                                                *)
LEMMA NextTold ==
  ASSUME FacadeInv, NEW past, NotYet(past), NEW view,
         NEW events, IsSeq(events), NEW a
  PROVE  ToldBy(log \o Numbered(Append(events, a)), past, view)
           = Told(ToldBy(log \o Numbered(events), past, view), a)
<1> DEFINE n == Len(events)
           x == [seq |-> lastSeq + n + 1, event |-> a]
           sofar == log \o Numbered(events)
<1>1. IsSeq(log) /\ lastSeq \in Nat
  BY DEF FacadeInv, TypeOK, InOrder
<1>2. log \o Numbered(Append(events, a)) = Append(sofar, x)
  BY OneNumberedMore, Zenon
<1>3. IsSeq(sofar) /\ n \in Nat
  BY <1>1, Numbering, Concatenating
<1> HIDE DEF sofar, n
<1>4. ~(x.seq <= past) /\ x.event = a
  BY <1>1, <1>3 DEF NotYet
<1> HIDE DEF x
<1>5. ToldBy(Append(sofar, x), past, view) = Told(ToldBy(sofar, past, view), x.event)
  BY <1>3, <1>4, OneEventMore
<1> QED
  BY <1>2, <1>4, <1>5 DEF sofar

(* One event told.                                                         *)
LEMMA OneTold ==
  ASSUME FacadeInv, NEW past, NotYet(past), NEW view, NEW a
  PROVE  ToldBy(log \o Numbered(<<a>>), past, view) = Told(ToldBy(log, past, view), a)
<1> DEFINE s == << >>
<1>1. IsSeq(s)
  BY OneEvent, Zenon
<1>2. <<a>> = Append(s, a)
  BY OneEvent, Zenon
<1>3. ToldBy(log \o Numbered(s), past, view) = ToldBy(log, past, view)
  BY NothingNumbered
<1> HIDE DEF s
<1>4. ToldBy(log \o Numbered(Append(s, a)), past, view)
        = Told(ToldBy(log \o Numbered(s), past, view), a)
  BY <1>1, NextTold
<1> QED
  BY <1>2, <1>3, <1>4, Zenon

(* Two events told.                                                        *)
LEMMA TwoTold ==
  ASSUME FacadeInv, NEW past, NotYet(past), NEW view, NEW a, NEW b
  PROVE  ToldBy(log \o Numbered(<<a, b>>), past, view)
           = Told(Told(ToldBy(log, past, view), a), b)
<1> DEFINE s == <<a>>
<1>1. IsSeq(s)
  BY OneEvent, Zenon
<1>2. <<a, b>> = Append(s, b)
  BY TwoEvents, Zenon
<1>3. ToldBy(log \o Numbered(s), past, view) = Told(ToldBy(log, past, view), a)
  BY OneTold
<1> HIDE DEF s
<1>4. ToldBy(log \o Numbered(Append(s, b)), past, view)
        = Told(ToldBy(log \o Numbered(s), past, view), b)
  BY <1>1, NextTold
<1> QED
  BY <1>2, <1>3, <1>4, Zenon

(* Three events told.                                                      *)
LEMMA ThreeTold ==
  ASSUME FacadeInv, NEW past, NotYet(past), NEW view, NEW a, NEW b, NEW c
  PROVE  ToldBy(log \o Numbered(<<a, b, c>>), past, view)
           = Told(Told(Told(ToldBy(log, past, view), a), b), c)
<1> DEFINE s == <<a, b>>
<1>1. IsSeq(s)
  BY TwoEvents, Zenon
<1>2. <<a, b, c>> = Append(s, c)
  BY ThreeEvents, Zenon
<1>3. ToldBy(log \o Numbered(s), past, view) = Told(Told(ToldBy(log, past, view), a), b)
  BY TwoTold
<1> HIDE DEF s
<1>4. ToldBy(log \o Numbered(Append(s, c)), past, view)
        = Told(ToldBy(log \o Numbered(s), past, view), c)
  BY <1>1, NextTold
<1> QED
  BY <1>2, <1>3, <1>4, Zenon

(* Four events told.                                                       *)
LEMMA FourTold ==
  ASSUME FacadeInv, NEW past, NotYet(past), NEW view,
         NEW a, NEW b, NEW c, NEW d
  PROVE  ToldBy(log \o Numbered(<<a, b, c, d>>), past, view)
           = Told(Told(Told(Told(ToldBy(log, past, view), a), b), c), d)
<1> DEFINE s == <<a, b, c>>
<1>1. IsSeq(s)
  BY ThreeEvents, Zenon
<1>2. <<a, b, c, d>> = Append(s, d)
  OBVIOUS
<1>3. ToldBy(log \o Numbered(s), past, view) = Told(Told(Told(ToldBy(log, past, view), a), b), c)
  BY ThreeTold
<1> HIDE DEF s
<1>4. ToldBy(log \o Numbered(Append(s, d)), past, view)
        = Told(ToldBy(log \o Numbered(s), past, view), d)
  BY <1>1, NextTold
<1> QED
  BY <1>2, <1>3, <1>4, Zenon

(* A commit leaves its reader at what it stores: the automatic checkpoint  *)
(* is told of too.                                                         *)
LEMMA CommitTells ==
  ASSUME FacadeInv, NEW past, NotYet(past), NEW view,
         NEW events, IsSeq(events), NEW p, NEW c \in Contexts, NEW r,
         Commit(events, p, c),
         ToldBy(log \o Numbered(events), past, view) = View(p, c, r)
  PROVE  ToldBy(log', past, view) = View(plan', context', r)
<1> DEFINE n == Len(events)
           seq == lastSeq + n
           sofar == log \o Numbered(events)
           due == CheckpointInterval > 0 /\ seq % CheckpointInterval = 0
<1>1. IsSeq(sofar) /\ n \in Nat /\ lastSeq \in Nat
  BY Numbering, Concatenating DEF FacadeInv, TypeOK, InOrder
<1>2. CASE due
  <2>1. /\ log' = Append(sofar, CheckpointEvent(seq)) /\ plan' = p
        /\ context' = [c EXCEPT !.lastCheckpoint = seq]
    BY <1>2 DEF Commit, Checkpointed
  <2> HIDE DEF sofar, n
  <2>2. ~(CheckpointEvent(seq).seq <= past)
    BY <1>1 DEF CheckpointEvent, NotYet
  <2>3. ToldBy(log', past, view)
          = Told(ToldBy(sofar, past, view), CheckpointEvent(seq).event)
    BY <1>1, <2>1, <2>2, OneEventMore
  <2>4. Told(View(p, c, r), CheckpointEvent(seq).event)
          = View(p, [c EXCEPT !.lastCheckpoint = seq], r)
    BY TellingOfCheckpoints
  <2> QED
    BY <2>1, <2>3, <2>4 DEF sofar
<1>3. CASE ~due
  BY <1>3 DEF Commit
<1> QED
  BY <1>2, <1>3

(* Nor does the automatic checkpoint log an intent: the intents of a log   *)
(* are those of its events.                                                *)
LoggedIn(entries, e) == \E k \in DOMAIN entries :
                          /\ entries[k].event.type = "TOOL_INTENT_RECORDED"
                          /\ entries[k].event.entity = e

LogsIntent(event, e) == event.type = "TOOL_INTENT_RECORDED" /\ event.entity = e

(* One event more logs an intent if it is one.                             *)
LEMMA OneIntentMore ==
  ASSUME NEW entries, IsSeq(entries), NEW x, NEW e
  PROVE  LoggedIn(Append(entries, x), e) <=> LoggedIn(entries, e) \/ LogsIntent(x.event, e)
<1> DEFINE longer == Append(entries, x)
           n == Len(entries)
<1>1. /\ IsSeq(longer) /\ n \in Nat /\ Len(longer) = n + 1
      /\ \A k \in 1 .. n : longer[k] = entries[k]
      /\ longer[n + 1] = x
  BY Appending
<1>2. DOMAIN longer = 1 .. n + 1 /\ DOMAIN entries = 1 .. n
  BY <1>1 DEF IsSeq
<1> HIDE DEF longer, n
<1> QED
  BY <1>1, <1>2 DEF LoggedIn, LogsIntent, longer

(* The intents of a commit, event by event.                                *)
LEMMA NextIntent ==
  ASSUME FacadeInv, NEW e, NEW events, IsSeq(events), NEW a
  PROVE  LoggedIn(log \o Numbered(Append(events, a)), e)
           <=> LoggedIn(log \o Numbered(events), e) \/ LogsIntent(a, e)
<1> DEFINE x == [seq |-> lastSeq + Len(events) + 1, event |-> a]
           sofar == log \o Numbered(events)
<1>1. log \o Numbered(Append(events, a)) = Append(sofar, x)
  BY OneNumberedMore, Zenon
<1>2. IsSeq(sofar)
  BY Numbering, Concatenating DEF FacadeInv, InOrder
<1> HIDE DEF sofar
<1>3. x.event = a
  OBVIOUS
<1> HIDE DEF x
<1>4. LoggedIn(Append(sofar, x), e) <=> LoggedIn(sofar, e) \/ LogsIntent(x.event, e)
  BY <1>2, OneIntentMore, Zenon
<1> QED
  BY <1>1, <1>3, <1>4 DEF sofar

(* The intents of up to four events.                                       *)
LEMMA IntentsOfOne ==
  ASSUME FacadeInv, NEW e, NEW a
  PROVE  LoggedIn(log \o Numbered(<<a>>), e) <=> IntentLogged(e) \/ LogsIntent(a, e)
<1>1. LoggedIn(log \o Numbered(Append(<< >>, a)), e)
        <=> LoggedIn(log \o Numbered(<< >>), e) \/ LogsIntent(a, e)
  BY OneEvent, NextIntent, Zenon
<1>2. LoggedIn(log, e) <=> IntentLogged(e)
  BY DEF LoggedIn, IntentLogged
<1>3. <<a>> = Append(<< >>, a)
  BY OneEvent, Zenon
<1> QED
  BY <1>1, <1>2, <1>3, NothingNumbered, Zenon

(* Two.                                                                    *)
LEMMA IntentsOfTwo ==
  ASSUME FacadeInv, NEW e, NEW a, NEW b
  PROVE  LoggedIn(log \o Numbered(<<a, b>>), e)
           <=> IntentLogged(e) \/ LogsIntent(a, e) \/ LogsIntent(b, e)
<1>1. LoggedIn(log \o Numbered(Append(<<a>>, b)), e)
        <=> LoggedIn(log \o Numbered(<<a>>), e) \/ LogsIntent(b, e)
  BY OneEvent, NextIntent, Zenon
<1>2. <<a, b>> = Append(<<a>>, b)
  BY TwoEvents, Zenon
<1> QED
  BY <1>1, <1>2, IntentsOfOne, Zenon

(* Three.                                                                  *)
LEMMA IntentsOfThree ==
  ASSUME FacadeInv, NEW e, NEW a, NEW b, NEW c
  PROVE  LoggedIn(log \o Numbered(<<a, b, c>>), e)
           <=> IntentLogged(e) \/ LogsIntent(a, e) \/ LogsIntent(b, e) \/ LogsIntent(c, e)
<1>1. LoggedIn(log \o Numbered(Append(<<a, b>>, c)), e)
        <=> LoggedIn(log \o Numbered(<<a, b>>), e) \/ LogsIntent(c, e)
  BY TwoEvents, NextIntent, Zenon
<1>2. <<a, b, c>> = Append(<<a, b>>, c)
  BY ThreeEvents, Zenon
<1> QED
  BY <1>1, <1>2, IntentsOfTwo, Zenon

(* Four.                                                                   *)
LEMMA IntentsOfFour ==
  ASSUME FacadeInv, NEW e, NEW a, NEW b, NEW c, NEW d
  PROVE  LoggedIn(log \o Numbered(<<a, b, c, d>>), e)
           <=> \/ IntentLogged(e)
               \/ LogsIntent(a, e) \/ LogsIntent(b, e) \/ LogsIntent(c, e) \/ LogsIntent(d, e)
<1>1. LoggedIn(log \o Numbered(Append(<<a, b, c>>, d)), e)
        <=> LoggedIn(log \o Numbered(<<a, b, c>>), e) \/ LogsIntent(d, e)
  BY ThreeEvents, NextIntent, Zenon
<1>2. <<a, b, c, d>> = Append(<<a, b, c>>, d)
  OBVIOUS
<1> QED
  BY <1>1, <1>2, IntentsOfThree, Zenon

(* A commit logs the intents among its events, changes the plan and the    *)
(* context to those given, but for the checkpoint the context knows of.    *)
LEMMA CommitStores ==
  ASSUME FacadeInv, NEW events, IsSeq(events), NEW p, NEW c \in Contexts, Commit(events, p, c)
  PROVE  /\ \A e : IntentLogged(e)' <=> LoggedIn(log \o Numbered(events), e)
         /\ plan' = p
         /\ \/ context' = c
            \/ \E k : context' = [c EXCEPT !.lastCheckpoint = k]
<1> DEFINE seq == lastSeq + Len(events)
           sofar == log \o Numbered(events)
           due == CheckpointInterval > 0 /\ seq % CheckpointInterval = 0
<1>1. IsSeq(sofar)
  BY Numbering, Concatenating DEF FacadeInv, InOrder
<1>2. CASE due
  <2>1. /\ log' = Append(sofar, CheckpointEvent(seq)) /\ plan' = p
        /\ context' = [c EXCEPT !.lastCheckpoint = seq]
    BY <1>2 DEF Commit, Checkpointed
  <2> HIDE DEF sofar, seq
  <2>2. ASSUME NEW e
        PROVE  IntentLogged(e)' <=> LoggedIn(sofar, e)
    <3>1. ~LogsIntent(CheckpointEvent(seq).event, e)
      BY DEF CheckpointEvent, LogsIntent, Event
    <3>2. LoggedIn(log', e) <=> LoggedIn(sofar, e)
      BY <1>1, <2>1, <3>1, OneIntentMore
    <3> QED
      BY <3>2 DEF LoggedIn, IntentLogged
  <2> QED
    BY <2>1, <2>2 DEF sofar
<1>3. CASE ~due
  <2>1. log' = sofar /\ plan' = p /\ context' = c
    BY <1>3 DEF Commit
  <2> HIDE DEF sofar, seq, due
  <2>2. ASSUME NEW e
        PROVE  IntentLogged(e)' <=> LoggedIn(sofar, e)
    BY <2>1 DEF LoggedIn, IntentLogged
  <2> QED
    BY <2>1, <2>2 DEF sofar
<1> QED
  BY <1>2, <1>3

-----------------------------------------------------------------------------
(* The operations as commits                                               *)

Records == [Exec -> Statuses \union {NoRecord}]

Marked(r, E, s) == [e \in Exec |-> IF e \in E THEN s ELSE r[e]]

(* No record marked is none changed,                                       *)
LEMMA Marking ==
  ASSUME NEW r \in Records, NEW s
  PROVE  Marked(r, {}, s) = r
BY DEF Marked, Records

(* one is one,                                                             *)
LEMMA MarkingOne ==
  ASSUME NEW r \in Records, NEW s, NEW x \in Exec
  PROVE  Marked(r, {x}, s) = [r EXCEPT ![x] = s]
BY DEF Marked, Records

(* and the types are kept.                                                 *)
LEMMA MarkedTypes ==
  ASSUME NEW r \in Records, NEW s \in Statuses, NEW E \in SUBSET Exec
  PROVE  Marked(r, E, s) \in Records
BY DEF Marked, Records

(* An operation that commits the events, leaving plan p and context c in   *)
(* step, marks the executions of E with s and logs the intents of I: the   *)
(* events tell of all that to whoever is not past them.                    *)
CommitOf(events, p, c, E, s, I) ==
  /\ IsSeq(events) /\ Commit(events, p, c)
  /\ p \in Plans /\ c \in Contexts /\ c = InSync(c, p)
  /\ E \in SUBSET Exec /\ s \in Statuses /\ records' = Marked(records, E, s)
  /\ \A e : LoggedIn(log \o Numbered(events), e) <=> IntentLogged(e) \/ e \in I
  /\ \A past, view : \A r \in Records :
       NotYet(past) /\ ToldBy(log, past, view) = View(plan, context, r)
         => ToldBy(log \o Numbered(events), past, view) = View(p, c, Marked(r, E, s))

(* A context in step with a plan stays so when told of it again, and when  *)
(* its messages or its pending executions change.                          *)
LEMMA StaysInSync ==
  ASSUME NEW c \in Contexts, NEW p \in Plans
  PROVE  /\ InSync(InSync(c, p), p) = InSync(c, p)
         /\ InSync(c, p).pending = c.pending
         /\ c = InSync(c, p) => WithMessage(c) = InSync(WithMessage(c), p)
         /\ \A ids : c = InSync(c, p) =>
              [c EXCEPT !.pending = ids] = InSync([c EXCEPT !.pending = ids], p)
<1> USE DEF InSync, Contexts, WithMessage
<1>1. InSync(InSync(c, p), p) = InSync(c, p)
  OBVIOUS
<1>2. InSync(c, p).pending = c.pending
  OBVIOUS
<1>3. c = InSync(c, p) => WithMessage(c) = InSync(WithMessage(c), p)
  OBVIOUS
<1>4. ASSUME NEW ids, c = InSync(c, p)
      PROVE  [c EXCEPT !.pending = ids] = InSync([c EXCEPT !.pending = ids], p)
  BY <1>4
<1> QED
  BY <1>1, <1>2, <1>3, <1>4

(* Contexts with another message or other pending executions.              *)
LEMMA ContextTypes ==
  ASSUME NEW c \in Contexts
  PROVE  /\ WithMessage(c) \in Contexts
         /\ \A ids \in SUBSET Exec : [c EXCEPT !.pending = ids] \in Contexts
BY DEF WithMessage, Contexts

(* The run's plan, context and records.                                    *)
LEMMA RunTypes ==
  ASSUME FacadeInv
  PROVE  /\ plan \in Plans /\ context \in Contexts /\ records \in Records
         /\ context.pending \in SUBSET Exec
         /\ NoRecord \notin Statuses
BY DEF FacadeInv, TypeOK, Records, Contexts, NoRecord, Statuses

(* A start, or a reset, tells of a new plan and a new context.             *)
LEMMA StartCommits ==
  ASSUME FacadeInv, NEW forceReset, StartRun(forceReset)
  PROVE  CommitOf(<< Event("RUN_STARTED", "run", << >>),
                     Event("PLAN_CREATED", "planner", << >>),
                     Event("CONTEXT_INITIALIZED", "context", <<SeedMessages>>),
                     Synchronized(NewPlan) >>,
                  NewPlan, InSync(NewContext, NewPlan), {}, "failed", {})
<1> DEFINE a == Event("RUN_STARTED", "run", << >>)
           b == Event("PLAN_CREATED", "planner", << >>)
           i == Event("CONTEXT_INITIALIZED", "context", <<SeedMessages>>)
           d == Synchronized(NewPlan)
           c == InSync(NewContext, NewPlan)
<1>1. IsSeq(<<a, b, i, d>>)
  BY FourEvents, Zenon
<1>2. NewPlan \in Plans /\ NewContext \in Contexts /\ c \in Contexts /\ c = InSync(c, NewPlan)
  BY NewPlanType, NewContextType, InSyncType, StaysInSync
<1>3. Commit(<<a, b, i, d>>, NewPlan, c) /\ records' = Marked(records, {}, "failed")
  BY RunTypes, Marking DEF StartRun
<1>4. ASSUME NEW e
      PROVE  LoggedIn(log \o Numbered(<<a, b, i, d>>), e) <=> IntentLogged(e) \/ e \in {}
  <2>1. ~LogsIntent(a, e) /\ ~LogsIntent(b, e) /\ ~LogsIntent(i, e) /\ ~LogsIntent(d, e)
    BY DEF LogsIntent, Event, Synchronized
  <2> HIDE DEF a, b, i, d
  <2>2. LoggedIn(log \o Numbered(<<a, b, i, d>>), e)
          <=> \/ IntentLogged(e)
              \/ LogsIntent(a, e) \/ LogsIntent(b, e) \/ LogsIntent(i, e) \/ LogsIntent(d, e)
    BY IntentsOfFour
  <2> QED
    BY <2>1, <2>2, Zenon
<1>5. ASSUME NEW past, NEW r \in Records, NEW view, NotYet(past),
             ToldBy(log, past, view) = View(plan, context, r)
      PROVE  ToldBy(log \o Numbered(<<a, b, i, d>>), past, view)
               = View(NewPlan, c, Marked(r, {}, "failed"))
  <2>1. /\ Told(View(plan, context, r), a) = View(plan, context, r)
        /\ Told(View(plan, context, r), b) = View(NewPlan, context, r)
        /\ Told(View(NewPlan, context, r), i) = View(NewPlan, NewContext, r)
    BY RunTypes, TellingOfStarts
  <2>2. Told(View(NewPlan, NewContext, r), d) = View(NewPlan, c, r)
    BY <1>2, TellingOfSync
  <2>3. Marked(r, {}, "failed") = r
    BY Marking
  <2> HIDE DEF a, b, i, d, c
  <2>4. ToldBy(log \o Numbered(<<a, b, i, d>>), past, view)
          = Told(Told(Told(Told(ToldBy(log, past, view), a), b), i), d)
    BY <1>5, FourTold
  <2> QED
    BY <1>5, <2>1, <2>2, <2>3, <2>4
<1> QED
  BY <1>1, <1>2, <1>3, <1>4, <1>5 DEF CommitOf, Statuses

(* A message of the context.                                               *)
LEMMA MessageCommits ==
  ASSUME FacadeInv, SyncedWithPlanner, RecordContextMessage
  PROVE  CommitOf(<< MessageAppended >>, plan, WithMessage(context), {}, "failed", {})
<1> DEFINE c == WithMessage(context)
           told == << MessageAppended >>
<1>1. IsSeq(told)
  BY OneEvent, Zenon
<1>2. plan \in Plans /\ context \in Contexts /\ c \in Contexts /\ c = InSync(c, plan)
  BY RunTypes, ContextTypes, StaysInSync DEF SyncedWithPlanner, RecordContextMessage
<1>3. Commit(told, plan, c) /\ records' = Marked(records, {}, "failed")
  BY RunTypes, Marking DEF RecordContextMessage
<1>4. ASSUME NEW e
      PROVE  LoggedIn(log \o Numbered(told), e) <=> IntentLogged(e) \/ e \in {}
  <2>1. ~LogsIntent(MessageAppended, e)
    BY DEF LogsIntent, Event, MessageAppended
  <2> QED
    BY <2>1, IntentsOfOne, Zenon
<1>5. ASSUME NEW past, NEW r \in Records, NEW view, NotYet(past),
             ToldBy(log, past, view) = View(plan, context, r)
      PROVE  ToldBy(log \o Numbered(told), past, view)
               = View(plan, c, Marked(r, {}, "failed"))
  <2>1. Told(View(plan, context, r), MessageAppended) = View(plan, c, r)
    BY <1>2, TellingOfStarts
  <2>2. Marked(r, {}, "failed") = r
    BY Marking
  <2>3. ToldBy(log \o Numbered(told), past, view)
          = Told(ToldBy(log, past, view), MessageAppended)
    BY <1>5, OneTold
  <2> QED
    BY <1>5, <2>1, <2>2, <2>3
<1> QED
  BY <1>1, <1>2, <1>3, <1>4, <1>5 DEF CommitOf, Statuses

(* An LLM turn, which makes a new version of the plan.                     *)
LEMMA TurnCommits ==
  ASSUME FacadeInv, NEW i \in Items, RecordLlmTurn(i)
  PROVE  CommitOf(<< Event("PLAN_ITEM_LLM_OUTPUT_ATTACHED", i, << >>),
                     MessageAppended,
                     Synchronized(Bumped(plan)) >>,
                  Bumped(plan), InSync(WithMessage(context), Bumped(plan)), {}, "failed", {})
<1> DEFINE a == Event("PLAN_ITEM_LLM_OUTPUT_ATTACHED", i, << >>)
           d == Synchronized(Bumped(plan))
           p == Bumped(plan)
           m == WithMessage(context)
           c == InSync(m, p)
           told == <<a, MessageAppended, d>>
<1>1. IsSeq(told)
  BY ThreeEvents, Zenon
<1>2. /\ plan \in Plans /\ context \in Contexts /\ p \in Plans
      /\ m \in Contexts /\ c \in Contexts /\ c = InSync(c, p)
  <2>1. plan \in Plans /\ context \in Contexts
    BY RunTypes
  <2>2. p \in Plans /\ m \in Contexts
    BY <2>1, PlanTypes, ContextTypes DEF ItemStatuses
  <2> HIDE DEF p, m
  <2> QED
    BY <2>1, <2>2, InSyncType, StaysInSync
<1>3. Commit(told, p, c) /\ records' = Marked(records, {}, "failed")
  BY RunTypes, Marking DEF RecordLlmTurn
<1>4. ASSUME NEW e
      PROVE  LoggedIn(log \o Numbered(told), e) <=> IntentLogged(e) \/ e \in {}
  <2>1. ~LogsIntent(a, e) /\ ~LogsIntent(MessageAppended, e) /\ ~LogsIntent(d, e)
    BY DEF LogsIntent, Event, MessageAppended, Synchronized
  <2> HIDE DEF a, d
  <2> QED
    BY <2>1, IntentsOfThree, Zenon
<1>5. ASSUME NEW past, NEW r \in Records, NEW view, NotYet(past),
             ToldBy(log, past, view) = View(plan, context, r)
      PROVE  ToldBy(log \o Numbered(told), past, view)
               = View(p, c, Marked(r, {}, "failed"))
  <2>1. Told(View(plan, context, r), a) = View(p, context, r)
    BY TellingOfItems, ZenonT(40)
  <2>2. Told(View(p, context, r), MessageAppended) = View(p, m, r)
    BY <1>2, TellingOfStarts
  <2>3. Told(View(p, m, r), d) = View(p, c, r)
    BY <1>2, TellingOfSync
  <2>4. Marked(r, {}, "failed") = r
    BY Marking
  <2> HIDE DEF a, d, p, m, c
  <2>5. ToldBy(log \o Numbered(told), past, view)
          = Told(Told(Told(ToldBy(log, past, view), a), MessageAppended), d)
    BY <1>5, ThreeTold
  <2> QED
    BY <1>5, <2>1, <2>2, <2>3, <2>4, <2>5
<1> QED
  BY <1>1, <1>2, <1>3, <1>4, <1>5 DEF CommitOf, Statuses

(* A new intent becomes pending and a version of the plan.                 *)
LEMMA IntentCommits ==
  ASSUME FacadeInv, NEW x \in Exec, RecordToolIntent(x)
  PROVE  CommitOf(<< Event("TOOL_INTENT_RECORDED", x, << >>),
                     PendingSet(context.pending \union {x}),
                     Synchronized(Bumped(plan)) >>,
                  Bumped(plan),
                  InSync([context EXCEPT !.pending = context.pending \union {x}], Bumped(plan)),
                  {x}, "intent_logged", {x})
<1> DEFINE ids == context.pending \union {x}
           a == Event("TOOL_INTENT_RECORDED", x, << >>)
           b == PendingSet(ids)
           d == Synchronized(Bumped(plan))
           p == Bumped(plan)
           m == [context EXCEPT !.pending = ids]
           c == InSync(m, p)
           told == <<a, b, d>>
<1>1. IsSeq(told)
  BY ThreeEvents, Zenon
<1>2. /\ plan \in Plans /\ context \in Contexts /\ p \in Plans
      /\ m \in Contexts /\ c \in Contexts /\ c = InSync(c, p)
  <2>1. plan \in Plans /\ context \in Contexts /\ ids \in SUBSET Exec
    BY RunTypes
  <2>2. p \in Plans
    <3>1. \E i : i \in Items
      <4>1. 1 \in DOMAIN Steps
        BY PlanAssumption
      <4> QED
        BY <4>1 DEF Items
    <3>2. "pending" \in ItemStatuses
      BY DEF ItemStatuses
    <3> QED
      BY <2>1, <3>1, <3>2, PlanTypes
  <2> HIDE DEF p, ids
  <2>3. m \in Contexts
    BY <2>1, ContextTypes
  <2> HIDE DEF m
  <2> QED
    BY <2>1, <2>2, <2>3, InSyncType, StaysInSync
<1>3. Commit(told, p, c) /\ records' = Marked(records, {x}, "intent_logged")
  <2>1. m.pending = ids /\ context \in Contexts /\ records \in Records
    BY RunTypes DEF Contexts
  <2>2. Commit(told, p, c) /\ records' = [records EXCEPT ![x] = "intent_logged"]
    BY <2>1 DEF RecordToolIntent
  <2> QED
    BY <2>1, <2>2, MarkingOne
<1>4. ASSUME NEW e
      PROVE  LoggedIn(log \o Numbered(told), e) <=> IntentLogged(e) \/ e \in {x}
  <2>1. (LogsIntent(a, e) <=> e \in {x}) /\ ~LogsIntent(b, e) /\ ~LogsIntent(d, e)
    BY DEF LogsIntent, Event, PendingSet, Synchronized
  <2> HIDE DEF a, b, d
  <2> QED
    BY <2>1, IntentsOfThree, Zenon
<1>5. ASSUME NEW past, NEW r \in Records, NEW view, NotYet(past),
             ToldBy(log, past, view) = View(plan, context, r)
      PROVE  ToldBy(log \o Numbered(told), past, view)
               = View(p, c, Marked(r, {x}, "intent_logged"))
  <2> DEFINE r1 == [r EXCEPT ![x] = "intent_logged"]
  <2>0. Marked(r, {x}, "intent_logged") = r1
    BY MarkingOne
  <2>1. Told(View(plan, context, r), a) = View(p, context, r1)
    BY TellingOfIntents
  <2> HIDE DEF r1
  <2>2. Told(View(p, context, r1), b) = View(p, m, r1)
    <3> context \in Contexts
      BY <1>2
    <3> HIDE DEF p, ids
    <3> QED
      BY TellingOfPending
  <2>3. Told(View(p, m, r1), d) = View(p, c, r1)
    BY <1>2, TellingOfSync
  <2> HIDE DEF a, b, d, p, m, c, r1
  <2>4. ToldBy(log \o Numbered(told), past, view)
          = Told(Told(Told(ToldBy(log, past, view), a), b), d)
    BY <1>5, ThreeTold
  <2> QED
    BY <1>5, <2>0, <2>1, <2>2, <2>3, <2>4
<1> QED
  BY <1>1, <1>2, <1>3, <1>4, <1>5 DEF CommitOf, Statuses

(* A dispatch.                                                             *)
LEMMA DispatchCommits ==
  ASSUME FacadeInv, SyncedWithPlanner, NEW x \in Exec, RecordToolDispatch(x)
  PROVE  CommitOf(<< Event("TOOL_DISPATCHED", x, << >>) >>, plan, context,
                  {x}, "dispatched", {})
<1> DEFINE a == Event("TOOL_DISPATCHED", x, << >>)
           told == <<a>>
<1>1. IsSeq(told)
  BY OneEvent, Zenon
<1>2. plan \in Plans /\ context \in Contexts /\ context = InSync(context, plan)
  BY RunTypes DEF SyncedWithPlanner, RecordToolDispatch
<1>3. Commit(told, plan, context) /\ records' = Marked(records, {x}, "dispatched")
  BY RunTypes, MarkingOne DEF RecordToolDispatch
<1>4. ASSUME NEW e
      PROVE  LoggedIn(log \o Numbered(told), e) <=> IntentLogged(e) \/ e \in {}
  <2>1. ~LogsIntent(a, e)
    BY DEF LogsIntent, Event
  <2> HIDE DEF a
  <2> QED
    BY <2>1, IntentsOfOne, Zenon
<1>5. ASSUME NEW past, NEW r \in Records, NEW view, NotYet(past),
             ToldBy(log, past, view) = View(plan, context, r)
      PROVE  ToldBy(log \o Numbered(told), past, view)
               = View(plan, context, Marked(r, {x}, "dispatched"))
  <2>1. Told(View(plan, context, r), a) = View(plan, context, [r EXCEPT ![x] = "dispatched"])
    BY TellingOfDispatches
  <2>2. Marked(r, {x}, "dispatched") = [r EXCEPT ![x] = "dispatched"]
    BY MarkingOne
  <2> HIDE DEF a
  <2>3. ToldBy(log \o Numbered(told), past, view) = Told(ToldBy(log, past, view), a)
    BY <1>5, OneTold
  <2> QED
    BY <1>5, <2>1, <2>2, <2>3
<1> QED
  BY <1>1, <1>2, <1>3, <1>4, <1>5 DEF CommitOf, Statuses

(* A result that leaves the pending executions alone.                      *)
LEMMA ResultCommits ==
  ASSUME FacadeInv, SyncedWithPlanner, ~NotStarted, NEW x \in Exec, NEW s \in Statuses,
         Commit(<< Event("EXTERNAL_RESULT_RECORDED", x, <<s>>) >>, plan, context),
         records' = [records EXCEPT ![x] = s]
  PROVE  CommitOf(<< Event("EXTERNAL_RESULT_RECORDED", x, <<s>>) >>, plan, context, {x}, s, {})
<1> DEFINE a == Event("EXTERNAL_RESULT_RECORDED", x, <<s>>)
           told == <<a>>
<1>1. IsSeq(told)
  BY OneEvent, Zenon
<1>2. plan \in Plans /\ context \in Contexts /\ context = InSync(context, plan)
  BY RunTypes DEF SyncedWithPlanner
<1>3. records' = Marked(records, {x}, s)
  BY RunTypes, MarkingOne
<1>4. ASSUME NEW e
      PROVE  LoggedIn(log \o Numbered(told), e) <=> IntentLogged(e) \/ e \in {}
  <2>1. ~LogsIntent(a, e)
    BY DEF LogsIntent, Event
  <2> HIDE DEF a
  <2> QED
    BY <2>1, IntentsOfOne, Zenon
<1>5. ASSUME NEW past, NEW r \in Records, NEW view, NotYet(past),
             ToldBy(log, past, view) = View(plan, context, r)
      PROVE  ToldBy(log \o Numbered(told), past, view)
               = View(plan, context, Marked(r, {x}, s))
  <2>1. Told(View(plan, context, r), a) = View(plan, context, [r EXCEPT ![x] = s])
    BY TellingOfResults
  <2>2. Marked(r, {x}, s) = [r EXCEPT ![x] = s]
    BY MarkingOne
  <2> HIDE DEF a
  <2>3. ToldBy(log \o Numbered(told), past, view) = Told(ToldBy(log, past, view), a)
    BY <1>5, OneTold
  <2> QED
    BY <1>5, <2>1, <2>2, <2>3
<1> QED
  BY <1>1, <1>2, <1>3, <1>4, <1>5 DEF CommitOf

(* A result that clears a pending execution tells of that too.             *)
LEMMA ClearingCommits ==
  ASSUME FacadeInv, SyncedWithPlanner, ~NotStarted, NEW x \in Exec, NEW s \in Statuses,
         Commit(<< Event("EXTERNAL_RESULT_RECORDED", x, <<s>>),
                   PendingSet(context.pending \ {x}) >>,
                plan, [context EXCEPT !.pending = context.pending \ {x}]),
         records' = [records EXCEPT ![x] = s]
  PROVE  CommitOf(<< Event("EXTERNAL_RESULT_RECORDED", x, <<s>>),
                     PendingSet(context.pending \ {x}) >>,
                  plan, [context EXCEPT !.pending = context.pending \ {x}], {x}, s, {})
<1> DEFINE ids == context.pending \ {x}
           a == Event("EXTERNAL_RESULT_RECORDED", x, <<s>>)
           b == PendingSet(ids)
           c == [context EXCEPT !.pending = ids]
           told == <<a, b>>
<1>1. IsSeq(told)
  BY TwoEvents, Zenon
<1>2. plan \in Plans /\ context \in Contexts /\ c \in Contexts /\ c = InSync(c, plan)
  <2>1. plan \in Plans /\ context \in Contexts /\ ids \in SUBSET Exec
    BY RunTypes
  <2>2. context = InSync(context, plan)
    BY DEF SyncedWithPlanner
  <2> HIDE DEF ids
  <2>3. c \in Contexts
    BY <2>1, ContextTypes
  <2>4. c = InSync(c, plan)
    BY <2>1, <2>2, StaysInSync, SMTT(40)
  <2> QED
    BY <2>1, <2>3, <2>4
<1>3. records' = Marked(records, {x}, s)
  BY RunTypes, MarkingOne
<1>4. ASSUME NEW e
      PROVE  LoggedIn(log \o Numbered(told), e) <=> IntentLogged(e) \/ e \in {}
  <2>1. ~LogsIntent(a, e) /\ ~LogsIntent(b, e)
    BY DEF LogsIntent, Event, PendingSet
  <2> HIDE DEF a, b
  <2> QED
    BY <2>1, IntentsOfTwo, Zenon
<1>5. ASSUME NEW past, NEW r \in Records, NEW view, NotYet(past),
             ToldBy(log, past, view) = View(plan, context, r)
      PROVE  ToldBy(log \o Numbered(told), past, view) = View(plan, c, Marked(r, {x}, s))
  <2> DEFINE r1 == [r EXCEPT ![x] = s]
  <2>1. Told(View(plan, context, r), a) = View(plan, context, r1)
    BY TellingOfResults
  <2>2. Marked(r, {x}, s) = r1
    BY MarkingOne
  <2> HIDE DEF r1
  <2>3. Told(View(plan, context, r1), b) = View(plan, c, r1)
    <3> context \in Contexts
      BY <1>2
    <3> HIDE DEF ids
    <3> QED
      BY TellingOfPending
  <2> HIDE DEF a, b, c
  <2>4. ToldBy(log \o Numbered(told), past, view) = Told(Told(ToldBy(log, past, view), a), b)
    BY <1>5, TwoTold
  <2> QED
    BY <1>5, <2>1, <2>2, <2>3, <2>4
<1> QED
  BY <1>1, <1>2, <1>3, <1>4, <1>5 DEF CommitOf

(* A new status or a new active item, told with its synchronization.       *)
LEMMA PlanChangeCommits ==
  ASSUME FacadeInv, NEW p \in Plans, NEW a,
         \A r : Told(View(plan, context, r), a) = View(p, context, r),
         \A e : ~LogsIntent(a, e),
         Commit(<<a, Synchronized(p)>>, p, InSync(context, p)), UNCHANGED records
  PROVE  CommitOf(<<a, Synchronized(p)>>, p, InSync(context, p), {}, "failed", {})
<1> DEFINE d == Synchronized(p)
           c == InSync(context, p)
           told == <<a, d>>
<1>1. IsSeq(told)
  BY TwoEvents, Zenon
<1>2. context \in Contexts /\ c \in Contexts /\ c = InSync(c, p)
  BY RunTypes, InSyncType, StaysInSync
<1>3. records' = Marked(records, {}, "failed")
  BY RunTypes, Marking
<1>4. ASSUME NEW e
      PROVE  LoggedIn(log \o Numbered(told), e) <=> IntentLogged(e) \/ e \in {}
  <2>1. ~LogsIntent(d, e)
    BY DEF LogsIntent, Event, Synchronized
  <2> HIDE DEF d
  <2> QED
    BY <2>1, IntentsOfTwo, Zenon
<1>5. ASSUME NEW past, NEW r \in Records, NEW view, NotYet(past),
             ToldBy(log, past, view) = View(plan, context, r)
      PROVE  ToldBy(log \o Numbered(told), past, view) = View(p, c, Marked(r, {}, "failed"))
  <2>1. Told(View(p, context, r), d) = View(p, c, r)
    BY <1>2, TellingOfSync
  <2>2. Marked(r, {}, "failed") = r
    BY Marking
  <2> HIDE DEF d, c
  <2>3. ToldBy(log \o Numbered(told), past, view) = Told(Told(ToldBy(log, past, view), a), d)
    BY <1>5, TwoTold
  <2> QED
    BY <1>5, <2>1, <2>2, <2>3
<1> QED
  BY <1>1, <1>2, <1>3, <1>4, <1>5 DEF CommitOf, Statuses

(* A new active item.                                                      *)
LEMMA ActiveCommits ==
  ASSUME FacadeInv, NEW i \in Items, SetActivePlanItem(i)
  PROVE  CommitOf(<< Event("PLAN_ACTIVE_ITEM_SET", i, << >>), Synchronized(WithActive(plan, i)) >>,
                  WithActive(plan, i), InSync(context, WithActive(plan, i)), {}, "failed", {})
<1> DEFINE a == Event("PLAN_ACTIVE_ITEM_SET", i, << >>)
           p == WithActive(plan, i)
<1>1. p \in Plans
  BY RunTypes, PlanTypes DEF ItemStatuses
<1>2. \A r : Told(View(plan, context, r), a) = View(p, context, r)
  BY TellingOfItems
<1>3. \A e : ~LogsIntent(a, e)
  BY DEF LogsIntent, Event
<1>4. Commit(<<a, Synchronized(p)>>, p, InSync(context, p)) /\ UNCHANGED records
  BY DEF SetActivePlanItem
<1> HIDE DEF a, p
<1>5. CommitOf(<<a, Synchronized(p)>>, p, InSync(context, p), {}, "failed", {})
  BY <1>1, <1>2, <1>3, <1>4, PlanChangeCommits, Zenon
<1> QED
  BY <1>5 DEF a, p

(* A new status of an item.                                                *)
LEMMA StatusCommits ==
  ASSUME FacadeInv, NEW i \in Items, NEW s \in ItemStatuses, AdvancePlanItem(i, s)
  PROVE  CommitOf(<< Event("PLAN_ITEM_STATUS_UPDATED", i, <<s>>),
                     Synchronized(WithStatus(plan, i, s)) >>,
                  WithStatus(plan, i, s), InSync(context, WithStatus(plan, i, s)),
                  {}, "failed", {})
<1> DEFINE a == Event("PLAN_ITEM_STATUS_UPDATED", i, <<s>>)
           p == WithStatus(plan, i, s)
<1>1. p \in Plans
  BY RunTypes, PlanTypes
<1>2. \A r : Told(View(plan, context, r), a) = View(p, context, r)
  BY TellingOfStatus
<1>3. \A e : ~LogsIntent(a, e)
  BY DEF LogsIntent, Event
<1>4. Commit(<<a, Synchronized(p)>>, p, InSync(context, p)) /\ UNCHANGED records
  BY DEF AdvancePlanItem
<1> HIDE DEF a, p
<1>5. CommitOf(<<a, Synchronized(p)>>, p, InSync(context, p), {}, "failed", {})
  BY <1>1, <1>2, <1>3, <1>4, PlanChangeCommits, Zenon
<1> QED
  BY <1>5 DEF a, p

-----------------------------------------------------------------------------
(* What every step does                                                    *)

(* Whatever the run does is a commit of an operation, but for the explicit *)
(* checkpoint.                                                             *)
LEMMA OperationsCommit ==
  ASSUME FacadeInv, SyncedWithPlanner, NextOfRun
  PROVE  \/ WriteCheckpoint
         \/ \E events, p, c, E, s, I : CommitOf(events, p, c, E, s, I)
<1> DEFINE Goal == \E events, p, c, E, s, I : CommitOf(events, p, c, E, s, I)
<1>1. ASSUME NEW forceReset, StartRun(forceReset)
      PROVE  Goal
  BY <1>1, StartCommits, Zenon
<1>2. CASE RecordContextMessage
  BY <1>2, MessageCommits, Zenon
<1>3. ASSUME NEW e \in Exec, RecordToolIntent(e)
      PROVE  Goal
  BY <1>3, IntentCommits, Zenon
<1>4. ASSUME NEW e \in Exec, RecordToolDispatch(e)
      PROVE  Goal
  BY <1>4, DispatchCommits, Zenon
<1>5. ASSUME NEW e \in Exec, NEW s \in Parked \union Terminal, NEW clear,
             RecordToolResult(e, s, clear)
      PROVE  Goal
  <2> DEFINE recorded == Event("EXTERNAL_RESULT_RECORDED", e, <<s>>)
             ids == context.pending \ {e}
             c == [context EXCEPT !.pending = ids]
  <2>1. s \in Statuses
    BY DEF Parked, Terminal, Statuses
  <2>2. ~NotStarted /\ records' = [records EXCEPT ![e] = s]
    BY <1>5 DEF RecordToolResult
  <2>3. \/ Commit(<< recorded, PendingSet(ids) >>, plan, c)
        \/ Commit(<< recorded >>, plan, context)
    <3>1. c.pending = ids
      BY RunTypes DEF Contexts
    <3> QED
      BY <1>5, <3>1 DEF RecordToolResult
  <2>4. CASE Commit(<< recorded, PendingSet(ids) >>, plan, c)
    BY <2>1, <2>2, <2>4, ClearingCommits, Zenon
  <2>5. CASE Commit(<< recorded >>, plan, context)
    BY <2>1, <2>2, <2>5, ResultCommits, Zenon
  <2> QED
    BY <2>3, <2>4, <2>5
<1>6. ASSUME NEW i \in Items, RecordLlmTurn(i)
      PROVE  Goal
  BY <1>6, TurnCommits, Zenon
<1>7. ASSUME NEW i \in Items, SetActivePlanItem(i)
      PROVE  Goal
  BY <1>7, ActiveCommits, Zenon
<1>8. ASSUME NEW i \in Items, NEW s \in ItemStatuses, AdvancePlanItem(i, s)
      PROVE  Goal
  BY <1>8, StatusCommits, Zenon
<1>9. ASSUME NEW e \in Exec,
             \/ RecordToolIntent(e)
             \/ RecordToolDispatch(e)
             \/ \E s \in Parked : RecordToolResult(e, s, FALSE)
             \/ \E s \in Terminal : RecordToolResult(e, s, TRUE)
      PROVE  Goal
  <2>1. ASSUME NEW s \in Parked, RecordToolResult(e, s, FALSE)
        PROVE  Goal
    BY <1>5, <2>1
  <2>2. ASSUME NEW s \in Terminal, RecordToolResult(e, s, TRUE)
        PROVE  Goal
    BY <1>5, <2>2
  <2> QED
    BY <1>3, <1>4, <1>9, <2>1, <2>2, Zenon
<1>10. ASSUME NEW i \in Items,
              \/ RecordLlmTurn(i)
              \/ SetActivePlanItem(i)
              \/ \E s \in ItemStatuses : AdvancePlanItem(i, s)
       PROVE  Goal
  BY <1>6, <1>7, <1>8, <1>10, Zenon
<1>11. CASE \E forceReset \in BOOLEAN : StartRun(forceReset)
  BY <1>1, <1>11, Zenon
<1>12. CASE \E e \in Exec :
              \/ RecordToolIntent(e)
              \/ RecordToolDispatch(e)
              \/ \E s \in Parked : RecordToolResult(e, s, FALSE)
              \/ \E s \in Terminal : RecordToolResult(e, s, TRUE)
  BY <1>9, <1>12
<1>13. CASE \E i \in Items :
              \/ RecordLlmTurn(i)
              \/ SetActivePlanItem(i)
              \/ \E s \in ItemStatuses : AdvancePlanItem(i, s)
  BY <1>10, <1>13
<1>14. Goal \/ WriteCheckpoint
  BY <1>2, <1>11, <1>12, <1>13 DEF NextOfRun
<1> QED
  BY <1>14 DEF Goal

(* The latest event of the run is one of the store's.                      *)
LEMMA LatestIsReached ==
  ASSUME FacadeInv, ~NotStarted
  PROVE  LatestSeq \in Nat /\ LatestSeq <= lastSeq /\ lastSeq \in Nat
<1>1. Len(log) \in DOMAIN log
  BY DEF FacadeInv, InOrder, IsSeq, NotStarted
<1> QED
  BY <1>1 DEF FacadeInv, TypeOK, InOrder, LatestSeq

(* The explicit checkpoint takes the projections as they are.              *)
LEMMA ExplicitTypes ==
  ASSUME FacadeInv, WriteCheckpoint
  PROVE  FacadeInv'
<1> USE LoggingAssumption
<1> DEFINE x == [CheckpointEvent(LatestSeq) EXCEPT !.seq = lastSeq + 1]
<1>1. /\ LatestSeq \in Nat /\ LatestSeq <= lastSeq /\ lastSeq \in Nat /\ lastSeq < MaxSeq
      /\ log' = Append(log, x) /\ lastSeq' = lastSeq + 1
      /\ checkpoint' = [seq |-> LatestSeq, plan |-> plan, context |-> context]
      /\ context' = [context EXCEPT !.lastCheckpoint = LatestSeq]
      /\ UNCHANGED <<plan, records>>
  BY LatestIsReached DEF WriteCheckpoint, Checkpointed
<1>2. x.seq = lastSeq + 1 /\ lastSeq + 1 \in Nat /\ lastSeq < lastSeq + 1
  BY <1>1 DEF CheckpointEvent
<1> HIDE DEF x
<1>3. InOrder(log', lastSeq')
  BY <1>1, <1>2, AppendedInOrder DEF FacadeInv
<1>4. context' \in Contexts
  BY <1>1 DEF FacadeInv, TypeOK, Contexts
<1>5. /\ checkpoint' \in [seq : 0 .. MaxSeq, plan : Plans, context : Contexts]
      /\ checkpoint'.seq <= lastSeq' /\ lastSeq' \in 0 .. MaxSeq
  BY <1>1 DEF FacadeInv, TypeOK
<1>6. /\ \A k \in DOMAIN log' : (log[k].seq)' \in 1 .. lastSeq'
      /\ \A j, k \in DOMAIN log' : j < k => (log[j].seq)' < (log[k].seq)'
  BY <1>3 DEF InOrder
<1>7. /\ plan' \in Plans
      /\ records' \in [Exec -> Statuses \union {NoRecord}]
  BY <1>1 DEF FacadeInv, TypeOK
<1> QED
  BY <1>3, <1>4, <1>5, <1>6, <1>7 DEF FacadeInv, TypeOK

(* Another run only makes the store's sequence ids grow.                   *)
LEMMA OthersTypes ==
  ASSUME FacadeInv, OtherRunAppends
  PROVE  FacadeInv'
BY LoggingAssumption DEF FacadeInv, TypeOK, InOrder, OtherRunAppends

(* The facade stays typed, its log in order, and its context in step with  *)
(* the plan.                                                               *)
LEMMA FacadeStays ==
  ASSUME FacadeInv, SyncedWithPlanner, [Next]_vars
  PROVE  FacadeInv' /\ SyncedWithPlanner'
<1>1. ASSUME NEW events, NEW p, NEW c, NEW E, NEW s, NEW I, CommitOf(events, p, c, E, s, I)
      PROVE  FacadeInv' /\ SyncedWithPlanner'
  <2>1. /\ IsSeq(events) /\ Commit(events, p, c) /\ p \in Plans /\ c \in Contexts
        /\ c = InSync(c, p) /\ records' = Marked(records, E, s)
        /\ E \in SUBSET Exec /\ s \in Statuses
    BY <1>1 DEF CommitOf
  <2>2. records' \in [Exec -> Statuses \union {NoRecord}]
    BY <2>1, RunTypes, MarkedTypes DEF Records
  <2>3. FacadeInv'
    BY <2>1, <2>2, CommitTypes
  <2>4. context' = InSync(context', plan')
    <3>1. plan' = p /\ (context' = c \/ \E k : context' = [c EXCEPT !.lastCheckpoint = k])
      BY <2>1, CommitStores
    <3> QED
      BY <2>1, <3>1 DEF InSync, Contexts
  <2> QED
    BY <2>3, <2>4 DEF SyncedWithPlanner
<1>2. CASE WriteCheckpoint
  <2>1. context' = [context EXCEPT !.lastCheckpoint = LatestSeq] /\ plan' = plan
    BY <1>2 DEF WriteCheckpoint, Checkpointed
  <2>2. context = InSync(context, plan) /\ context \in Contexts
    BY <1>2, RunTypes DEF SyncedWithPlanner, WriteCheckpoint
  <2>3. context' = InSync(context', plan')
    BY <2>1, <2>2 DEF InSync, Contexts
  <2> QED
    BY <1>2, <2>3, ExplicitTypes DEF SyncedWithPlanner
<1>3. CASE OtherRunAppends
  BY <1>3, OthersTypes DEF OtherRunAppends, SyncedWithPlanner, NotStarted
<1>4. CASE UNCHANGED vars
  BY <1>4 DEF vars, FacadeInv, TypeOK, InOrder, SyncedWithPlanner, NotStarted
<1>5. CASE NextOfRun
  BY <1>1, <1>2, <1>5, OperationsCommit, Zenon
<1> QED
  BY <1>3, <1>4, <1>5 DEF Next

(* Before its start the facade is typed.                                   *)
LEMMA FacadeAtTheStart ==
  ASSUME Init
  PROVE  FacadeInv /\ SyncedWithPlanner
<1>1. InOrder(<< >>, 0)
  <2>1. IsSeq(<< >>)
    BY OneEvent, Zenon
  <2>2. DOMAIN << >> = {}
    OBVIOUS
  <2> QED
    BY <2>1, <2>2, Zenon DEF InOrder
<1>2. NewPlan \in Plans /\ NewContext \in Contexts
  BY NewPlanType, NewContextType
<1> QED
  BY <1>1, <1>2, LoggingAssumption
  DEF Init, FacadeInv, TypeOK, InOrder, SyncedWithPlanner, NotStarted, NoRecord

(* Type correctness of the facade: the log's sequence ids rise and none is *)
(* past the store's counter, and the plan, the context, the records and    *)
(* the checkpoint are what the services may store.                         *)
THEOREM FacadeTypeCorrect == Spec => []TypeOK
<1>1. FacadeInv => TypeOK
  BY DEF FacadeInv
<1> QED
  BY <1>1, FacadeAtTheStart, FacadeStays, PTL DEF Spec

(* No operation leaves the context at an older version of the plan, with   *)
(* or without an automatic checkpoint on the way.                          *)
THEOREM ContextFollowsPlan == Spec => []SyncedWithPlanner
BY FacadeAtTheStart, FacadeStays, PTL DEF Spec

-----------------------------------------------------------------------------
(* The log agrees with the projections                                     *)

(* A step tells: a reader who had arrived at the plan and the context      *)
(* arrives at the new ones, and at the records that the step marked.       *)
StepTold(E, s) ==
  /\ E \in SUBSET Exec /\ s \in Statuses
  /\ records' = Marked(records, E, s)
  /\ \A past, view : \A r \in Records :
       NotYet(past) /\ ToldBy(log, past, view) = View(plan, context, r)
         => ToldBy(log', past, view) = View(plan', context', Marked(r, E, s))

(* An operation's commit tells, with its automatic checkpoint.             *)
LEMMA CommitStepTells ==
  ASSUME FacadeInv, NEW events, NEW p, NEW c, NEW E, NEW s, NEW I,
         CommitOf(events, p, c, E, s, I)
  PROVE  StepTold(E, s)
<1>1. /\ IsSeq(events) /\ Commit(events, p, c) /\ c \in Contexts
      /\ E \in SUBSET Exec /\ s \in Statuses /\ records' = Marked(records, E, s)
  BY DEF CommitOf
<1>2. ASSUME NEW past, NEW r \in Records, NEW view, NotYet(past),
             ToldBy(log, past, view) = View(plan, context, r)
      PROVE  ToldBy(log', past, view) = View(plan', context', Marked(r, E, s))
  <2>1. ToldBy(log \o Numbered(events), past, view) = View(p, c, Marked(r, E, s))
    BY <1>2, Zenon DEF CommitOf
  <2> QED
    BY <1>1, <1>2, <2>1, CommitTells
<1> QED
  BY <1>1, <1>2 DEF StepTold

(* The explicit checkpoint tells of itself.                                *)
LEMMA ExplicitStepTells ==
  ASSUME FacadeInv, WriteCheckpoint
  PROVE  StepTold({}, "failed")
<1> DEFINE x == [CheckpointEvent(LatestSeq) EXCEPT !.seq = lastSeq + 1]
           k == LatestSeq
<1>1. /\ IsSeq(log) /\ lastSeq \in Nat /\ context \in Contexts /\ records \in Records
      /\ log' = Append(log, x) /\ plan' = plan /\ records' = records
      /\ context' = [context EXCEPT !.lastCheckpoint = k]
  BY LatestIsReached, RunTypes DEF WriteCheckpoint, Checkpointed, FacadeInv, InOrder
<1>2. x.seq = lastSeq + 1 /\ x.event = CheckpointEvent(k).event
  BY DEF CheckpointEvent
<1> HIDE DEF x, k
<1>3. ASSUME NEW past, NEW r \in Records, NEW view, NotYet(past),
             ToldBy(log, past, view) = View(plan, context, r)
      PROVE  ToldBy(log', past, view) = View(plan', context', Marked(r, {}, "failed"))
  <2>1. ~(x.seq <= past)
    BY <1>1, <1>2, <1>3 DEF NotYet
  <2>2. ToldBy(Append(log, x), past, view) = Told(ToldBy(log, past, view), x.event)
    BY <1>1, <2>1, OneEventMore
  <2>3. Told(View(plan, context, r), CheckpointEvent(k).event)
          = View(plan, [context EXCEPT !.lastCheckpoint = k], r)
    BY <1>1, TellingOfCheckpoints
  <2>4. Marked(r, {}, "failed") = r
    BY Marking
  <2> QED
    BY <1>1, <1>2, <1>3, <2>2, <2>3, <2>4
<1>4. records' = Marked(records, {}, "failed")
  BY <1>1, Marking
<1> QED
  BY <1>3, <1>4 DEF StepTold, Statuses

(* Of every step the log tells.                                            *)
LEMMA StepTells ==
  ASSUME FacadeInv, SyncedWithPlanner, [Next]_vars
  PROVE  \E E, s : StepTold(E, s)
<1>1. CASE NextOfRun
  BY <1>1, OperationsCommit, CommitStepTells, ExplicitStepTells, Zenon
<1>2. ASSUME UNCHANGED <<log, plan, context, records>>
      PROVE  StepTold({}, "failed")
  <2>1. records' = Marked(records, {}, "failed")
    BY <1>2, RunTypes, Marking
  <2>2. \A r \in Records : Marked(r, {}, "failed") = r
    BY Marking
  <2> QED
    BY <1>2, <2>1, <2>2 DEF StepTold, Statuses
<1>3. CASE OtherRunAppends
  BY <1>2, <1>3 DEF OtherRunAppends
<1>4. CASE UNCHANGED vars
  BY <1>2, <1>4 DEF vars
<1> QED
  BY <1>1, <1>3, <1>4 DEF Next

BlankView == View(NewPlan, NewContext, [e \in Exec |-> NoRecord])

(* Whoever reads the whole log arrives at the projections as stored,       *)
(* whatever the operations, the checkpoints among them and the other runs  *)
(* of the store.                                                           *)
THEOREM LogTellsAll == Spec => []LogAgrees
<1> DEFINE Agrees == ToldBy(log, 0, BlankView) = View(plan, context, records)
           Inv == FacadeInv /\ SyncedWithPlanner /\ Agrees
<1>1. Init => Inv
  <2> SUFFICES ASSUME Init
               PROVE  Inv
    OBVIOUS
  <2>1. log = << >> /\ View(plan, context, records) = BlankView
    BY DEF Init, BlankView
  <2>2. IsSeq(<< >>)
    BY OneEvent, Zenon
  <2>3. ToldBy(<< >>, 0, BlankView) = BlankView
    BY <2>2, NothingPast
  <2> QED
    BY <2>1, <2>3, FacadeAtTheStart
<1>2. Inv /\ [Next]_vars => Inv'
  <2> SUFFICES ASSUME Inv, [Next]_vars
               PROVE  Inv'
    OBVIOUS
  <2>1. PICK E, s : StepTold(E, s)
    BY StepTells
  <2>2. NotYet(0) /\ records \in Records
    BY RunTypes DEF NotYet, FacadeInv, TypeOK
  <2>3. ToldBy(log', 0, BlankView) = View(plan', context', records')
    BY <2>1, <2>2, Zenon DEF StepTold
  <2>4. Agrees'
    BY <2>3 DEF BlankView, View
  <2> QED
    BY <2>4, FacadeStays
<1>3. Inv => LogAgrees
  BY DEF LogAgrees, Current, View, BlankView
<1> QED
  BY <1>1, <1>2, <1>3, PTL DEF Spec

(* From the latest checkpoint and whatever records r0 a reader starts      *)
(* with, the events past it lead to the plan, the context and records that *)
(* are either still those of r0 or the stored ones.                        *)
Rebuilds ==
  \A r0 \in Records : \E r \in Records :
    /\ \A e \in Exec : r[e] = r0[e] \/ r[e] = records[e]
    /\ ToldBy(log, checkpoint.seq, View(checkpoint.plan, checkpoint.context, r0))
         = View(plan, context, r)

(* A checkpoint taken at the latest event and told of is rebuilt from.     *)
LEMMA NewCheckpointRebuilds ==
  ASSUME NEW entries, IsSeq(entries), NEW k \in Nat, NEW last \in Nat, k < last,
         \A j \in DOMAIN entries : entries[j].seq <= k,
         NEW p, NEW c \in Contexts, NEW r
  PROVE  ToldBy(Append(entries, [CheckpointEvent(k) EXCEPT !.seq = last]), k, View(p, c, r))
           = View(p, [c EXCEPT !.lastCheckpoint = k], r)
<1> DEFINE x == [CheckpointEvent(k) EXCEPT !.seq = last]
<1>1. ToldBy(entries, k, View(p, c, r)) = View(p, c, r)
  BY NothingPast
<1>2. ~(x.seq <= k) /\ x.event = CheckpointEvent(k).event
  BY DEF CheckpointEvent
<1> HIDE DEF x
<1>3. ToldBy(Append(entries, x), k, View(p, c, r))
        = Told(ToldBy(entries, k, View(p, c, r)), x.event)
  BY <1>2, OneEventMore
<1>4. Told(View(p, c, r), CheckpointEvent(k).event)
        = View(p, [c EXCEPT !.lastCheckpoint = k], r)
  BY TellingOfCheckpoints
<1> QED
  BY <1>1, <1>2, <1>3, <1>4 DEF x

(* Rebuilding survives a step that takes no checkpoint.                    *)
LEMMA RebuildingGoesOn ==
  ASSUME FacadeInv, Rebuilds, NEW E, NEW s, StepTold(E, s), UNCHANGED checkpoint
  PROVE  Rebuilds'
<1>1. NotYet(checkpoint.seq)
  BY DEF FacadeInv, TypeOK, NotYet
<1>2. /\ E \in SUBSET Exec /\ s \in Statuses
      /\ records' = Marked(records, E, s) /\ records \in Records
  BY RunTypes DEF StepTold
<1>3. ASSUME NEW r0 \in Records
      PROVE  \E r \in Records :
               /\ \A e \in Exec : r[e] = r0[e] \/ r[e] = records'[e]
               /\ ToldBy(log', checkpoint'.seq,
                         View(checkpoint'.plan, checkpoint'.context, r0))
                    = View(plan', context', r)
  <2> DEFINE start == View(checkpoint.plan, checkpoint.context, r0)
  <2>1. PICK r \in Records :
               /\ \A e \in Exec : r[e] = r0[e] \/ r[e] = records[e]
               /\ ToldBy(log, checkpoint.seq, start) = View(plan, context, r)
    BY DEF Rebuilds
  <2> HIDE DEF start
  <2>2. ToldBy(log', checkpoint.seq, start) = View(plan', context', Marked(r, E, s))
    BY <1>1, <2>1, Zenon DEF StepTold
  <2>3. Marked(r, E, s) \in Records
    BY <1>2, MarkedTypes
  <2>4. \A e \in Exec : Marked(r, E, s)[e] = r0[e] \/ Marked(r, E, s)[e] = records'[e]
    BY <1>2, <2>1 DEF Marked
  <2> QED
    BY <2>2, <2>3, <2>4 DEF start
<1> QED
  BY <1>3 DEF Rebuilds, View

(* It starts anew with an automatic checkpoint,                            *)
LEMMA RebuildingFromAutomatic ==
  ASSUME FacadeInv, NEW events, IsSeq(events), NEW p, NEW c \in Contexts,
         Commit(events, p, c), checkpoint' # checkpoint
  PROVE  Rebuilds'
<1> DEFINE seq == lastSeq + Len(events)
           sofar == log \o Numbered(events)
           due == CheckpointInterval > 0 /\ seq % CheckpointInterval = 0
<1>1. /\ log' = Append(sofar, CheckpointEvent(seq)) /\ plan' = p
      /\ checkpoint' = [seq |-> seq, plan |-> p, context |-> c]
      /\ context' = [c EXCEPT !.lastCheckpoint = seq]
  <2>1. due
    BY DEF Commit
  <2> QED
    BY <2>1 DEF Commit, Checkpointed
<1>2. seq \in Nat /\ InOrder(sofar, seq)
  BY Numbering, NumberedInOrder DEF FacadeInv, TypeOK
<1> HIDE DEF seq, sofar
<1>3. CheckpointEvent(seq) = [CheckpointEvent(seq) EXCEPT !.seq = seq + 1]
  BY DEF CheckpointEvent
<1>4. ASSUME NEW r0
      PROVE  ToldBy(log', seq, View(p, c, r0)) = View(plan', context', r0)
  <2>1. /\ IsSeq(sofar) /\ \A j \in DOMAIN sofar : sofar[j].seq <= seq
        /\ seq \in Nat /\ seq + 1 \in Nat /\ seq < seq + 1
    BY <1>2 DEF InOrder
  <2> QED
    BY <1>1, <1>3, <2>1, NewCheckpointRebuilds
<1> QED
  BY <1>1, <1>4 DEF Rebuilds, View

(* and with an explicit one.                                               *)
LEMMA RebuildingFromExplicit ==
  ASSUME FacadeInv, WriteCheckpoint
  PROVE  Rebuilds'
<1> DEFINE k == LatestSeq
<1>1. /\ log' = Append(log, [CheckpointEvent(k) EXCEPT !.seq = lastSeq + 1]) /\ plan' = plan
      /\ checkpoint' = [seq |-> k, plan |-> plan, context |-> context]
      /\ context' = [context EXCEPT !.lastCheckpoint = k]
      /\ context \in Contexts
  BY RunTypes DEF WriteCheckpoint, Checkpointed
<1>2. k \in Nat /\ lastSeq \in Nat /\ k < lastSeq + 1 /\ lastSeq + 1 \in Nat
  BY LatestIsReached DEF WriteCheckpoint
<1>3. IsSeq(log) /\ \A j \in DOMAIN log : log[j].seq <= k
  <2>1. /\ IsSeq(log) /\ DOMAIN log = 1 .. Len(log) /\ Len(log) \in Nat
        /\ \A i, j \in DOMAIN log : i < j => log[i].seq < log[j].seq
        /\ \A j \in DOMAIN log : log[j].seq \in 1 .. lastSeq
    BY DEF FacadeInv, InOrder, IsSeq
  <2>2. ASSUME NEW j \in DOMAIN log
        PROVE  log[j].seq <= log[Len(log)].seq
    <3>1. j = Len(log) \/ (j < Len(log) /\ Len(log) \in DOMAIN log)
      BY <2>1
    <3> QED
      BY <1>2, <2>1, <3>1
  <2> QED
    BY <2>1, <2>2 DEF LatestSeq
<1> HIDE DEF k
<1>4. ASSUME NEW r0
      PROVE  ToldBy(log', k, View(plan, context, r0)) = View(plan', context', r0)
  <2> DEFINE last == lastSeq + 1
  <2>1. IsSeq(log) /\ k \in Nat /\ last \in Nat /\ k < last /\ context \in Contexts
    BY <1>1, <1>2, <1>3
  <2> HIDE DEF last
  <2>2. ToldBy(Append(log, [CheckpointEvent(k) EXCEPT !.seq = last]), k, View(plan, context, r0))
          = View(plan, [context EXCEPT !.lastCheckpoint = k], r0)
    BY <1>3, <2>1, NewCheckpointRebuilds
  <2> QED
    BY <1>1, <2>2 DEF last
<1> QED
  BY <1>1, <1>4 DEF Rebuilds, View

(* The latest checkpoint, automatic or explicit, and the events past it    *)
(* give the plan and the context as stored.                                *)
THEOREM CheckpointTellsTheRest == Spec => []CheckpointRebuilds
<1> DEFINE Inv == FacadeInv /\ SyncedWithPlanner /\ Rebuilds
<1>1. Init => Inv
  <2> SUFFICES ASSUME Init
               PROVE  Inv
    OBVIOUS
  <2>1. IsSeq(log) /\ \A j \in DOMAIN log : log[j].seq <= checkpoint.seq
    BY FacadeAtTheStart DEF FacadeInv, InOrder, Init
  <2>2. ASSUME NEW r0
        PROVE  ToldBy(log, checkpoint.seq, View(checkpoint.plan, checkpoint.context, r0))
                 = View(plan, context, r0)
    <3>1. checkpoint.plan = plan /\ checkpoint.context = context
      BY DEF Init
    <3> QED
      BY <2>1, <3>1, NothingPast
  <2>3. Rebuilds
    BY <2>2 DEF Rebuilds
  <2> QED
    BY <2>3, FacadeAtTheStart
<1>2. Inv /\ [Next]_vars => Inv'
  <2> SUFFICES ASSUME Inv, [Next]_vars
               PROVE  Inv'
    OBVIOUS
  <2>1. ASSUME UNCHANGED checkpoint
        PROVE  Rebuilds'
    BY <2>1, StepTells, RebuildingGoesOn, Zenon
  <2>2. ASSUME checkpoint' # checkpoint
        PROVE  Rebuilds'
    <3>1. NextOfRun
      BY <2>2 DEF Next, OtherRunAppends, vars
    <3>2. CASE WriteCheckpoint
      BY <3>2, RebuildingFromExplicit
    <3>3. ASSUME NEW events, NEW p, NEW c, NEW E, NEW s, NEW I,
                 CommitOf(events, p, c, E, s, I)
          PROVE  Rebuilds'
      BY <2>2, <3>3, RebuildingFromAutomatic DEF CommitOf
    <3> QED
      BY <3>1, <3>2, <3>3, OperationsCommit, Zenon
  <2>3. Rebuilds'
    BY <2>1, <2>2
  <2> QED
    BY <2>3, FacadeStays
<1>3. Inv => CheckpointRebuilds
  <2> SUFFICES ASSUME Inv
               PROVE  CheckpointRebuilds
    OBVIOUS
  <2>1. records \in Records
    BY RunTypes
  <2>2. PICK r \in Records :
               /\ \A e \in Exec : r[e] = records[e] \/ r[e] = records[e]
               /\ ToldBy(log, checkpoint.seq,
                         View(checkpoint.plan, checkpoint.context, records))
                    = View(plan, context, r)
    BY <2>1 DEF Rebuilds
  <2>3. r = records
    BY <2>1, <2>2 DEF Records
  <2> QED
    BY <2>2, <2>3 DEF CheckpointRebuilds, Current, View
<1> QED
  BY <1>1, <1>2, <1>3, PTL DEF Spec

-----------------------------------------------------------------------------
(* The facade is the journal of its callers                                *)

Intents == {e \in Exec : IntentLogged(e)}

(* What a commit is to the journal.                                        *)
LEMMA CommitForJournal ==
  ASSUME FacadeInv, NEW events, NEW p, NEW c, NEW E, NEW s, NEW I,
         CommitOf(events, p, c, E, s, I)
  PROVE  /\ context'.pending = c.pending
         /\ Intents' = Intents \union (I \intersect Exec)
<1>1. IsSeq(events) /\ Commit(events, p, c) /\ c \in Contexts
  BY DEF CommitOf
<1>2. context'.pending = c.pending
  <2>1. context' = c \/ \E k : context' = [c EXCEPT !.lastCheckpoint = k]
    BY <1>1, CommitStores
  <2> QED
    BY <1>1, <2>1 DEF Contexts
<1>3. ASSUME NEW e
      PROVE  IntentLogged(e)' <=> IntentLogged(e) \/ e \in I
  <2>1. IntentLogged(e)' <=> LoggedIn(log \o Numbered(events), e)
    BY <1>1, CommitStores, Zenon
  <2>2. LoggedIn(log \o Numbered(events), e) <=> IntentLogged(e) \/ e \in I
    BY DEF CommitOf
  <2> QED
    BY <2>1, <2>2
<1> QED
  BY <1>2, <1>3 DEF Intents

(* What a commit without an intent is,                                     *)
LEMMA NoIntentForJournal ==
  ASSUME FacadeInv, NEW events, NEW p, NEW c, NEW E, NEW s,
         CommitOf(events, p, c, E, s, {})
  PROVE  context'.pending = c.pending /\ Intents' = Intents
BY CommitForJournal

(* and with the intent of one execution.                                   *)
LEMMA IntentForJournal ==
  ASSUME FacadeInv, NEW events, NEW p, NEW c, NEW E, NEW s, NEW x \in Exec,
         CommitOf(events, p, c, E, s, {x})
  PROVE  context'.pending = c.pending /\ Intents' = Intents \union {x}
BY CommitForJournal

(* The journal's statuses are the facade's.                                *)
LEMMA SameStatuses ==
  /\ Journal!NoRecord = NoRecord /\ Journal!Parked = Parked /\ Journal!Terminal = Terminal
  /\ \A s, t : Journal!MayMove(s, t) <=> MayMove(s, t)
<1>1. Journal!AllowedNext = AllowedNext
  BY DEF Journal!AllowedNext, AllowedNext, Journal!Statuses, Statuses
<1> QED
  BY <1>1 DEF Journal!NoRecord, NoRecord, Journal!Parked, Parked, Journal!Terminal, Terminal,
              Journal!MayMove, MayMove

(* Each operation of the facade is an operation of the journal; those of   *)
(* the plan and the context, and the checkpoints, are none, and a reset    *)
(* forgets what is pending.                                                *)
LEMMA StepOfJournal ==
  ASSUME FacadeInv, SyncedWithPlanner, [Next]_vars
  PROVE  [Journal!JournalNext]_Journal!journalVars
<1> DEFINE Same == UNCHANGED <<records, context.pending, Intents>>
           Goal == [Journal!JournalNext]_Journal!journalVars
<1>0. Same => Goal
  BY DEF Journal!journalVars, Intents
<1>1. ASSUME NEW forceReset, StartRun(forceReset)
      PROVE  Goal
  <2>1. context'.pending = InSync(NewContext, NewPlan).pending /\ Intents' = Intents
    BY <1>1, StartCommits, NoIntentForJournal, Zenon
  <2>2. InSync(NewContext, NewPlan).pending = {}
    BY NewContextType, NewPlanType, StaysInSync DEF NewContext
  <2>3. records' = records
    BY <1>1 DEF StartRun
  <2> QED
    BY <2>1, <2>2, <2>3 DEF Journal!JournalNext, Journal!ForgetPending, Intents
<1>2. ASSUME RecordContextMessage
      PROVE  Goal
  <2>1. context'.pending = WithMessage(context).pending /\ Intents' = Intents
    BY <1>2, MessageCommits, NoIntentForJournal, Zenon
  <2>2. WithMessage(context).pending = context.pending
    BY RunTypes DEF WithMessage, Contexts
  <2>3. records' = records
    BY <1>2 DEF RecordContextMessage
  <2> QED
    BY <1>0, <2>1, <2>2, <2>3
<1>3. ASSUME NEW e \in Exec, RecordToolIntent(e)
      PROVE  Goal
  <2> DEFINE ids == context.pending \union {e}
             m == [context EXCEPT !.pending = ids]
             p == Bumped(plan)
  <2>1. context'.pending = InSync(m, p).pending /\ Intents' = Intents \union {e}
    BY <1>3, IntentCommits, IntentForJournal, Zenon
  <2>2. InSync(m, p).pending = ids
    <3>1. context \in Contexts /\ ids \in SUBSET Exec /\ p \in Plans
      BY RunTypes, BumpedType
    <3> HIDE DEF ids, p
    <3>2. m \in Contexts /\ m.pending = ids
      BY <3>1, ContextTypes DEF Contexts
    <3> HIDE DEF m
    <3> QED
      BY <3>1, <3>2, StaysInSync
  <2>3. /\ records[e] = NoRecord /\ e \notin Intents
        /\ records' = [records EXCEPT ![e] = "intent_logged"]
    BY <1>3 DEF RecordToolIntent, Intents
  <2>4. Journal!RecordToolIntent(e)
    BY <2>1, <2>2, <2>3, SameStatuses
    DEF Journal!RecordToolIntent, Journal!IntentExists, Intents
  <2> QED
    BY <2>4 DEF Journal!JournalNext
<1>4. ASSUME NEW e \in Exec, RecordToolDispatch(e)
      PROVE  Goal
  <2>1. context'.pending = context.pending /\ Intents' = Intents
    BY <1>4, DispatchCommits, NoIntentForJournal, Zenon
  <2>2. Journal!RecordToolDispatch(e)
    BY <1>4, <2>1, SameStatuses
    DEF RecordToolDispatch, Journal!RecordToolDispatch, Journal!CanDispatch, Intents
  <2> QED
    BY <2>2 DEF Journal!JournalNext
<1>5. ASSUME NEW e \in Exec, NEW s \in Parked \union Terminal, NEW clear \in BOOLEAN,
             RecordToolResult(e, s, clear)
      PROVE  Journal!RecordToolResult(e, s, clear)
  <2> DEFINE ids == context.pending \ {e}
             c == [context EXCEPT !.pending = ids]
             recorded == Event("EXTERNAL_RESULT_RECORDED", e, <<s>>)
             clears == /\ clear /\ s \notin {"intent_logged", "dispatched"}
                       /\ e \in context.pending
  <2>1. s \in Statuses
    BY DEF Parked, Terminal, Statuses
  <2>2. /\ ~NotStarted /\ Journal!CanRecord(e, s)
        /\ records' = [records EXCEPT ![e] = s]
    BY <1>5, SameStatuses DEF RecordToolResult, Journal!CanRecord
  <2>3. c.pending = ids
    BY RunTypes DEF Contexts
  <2>4. ASSUME clears
        PROVE  context'.pending = ids /\ Intents' = Intents
    <3>1. Commit(<< recorded, PendingSet(ids) >>, plan, c)
      BY <1>5, <2>3, <2>4 DEF RecordToolResult
    <3>2. CommitOf(<< recorded, PendingSet(ids) >>, plan, c, {e}, s, {})
      BY <2>1, <2>2, <3>1, ClearingCommits, Zenon
    <3>3. context'.pending = c.pending /\ Intents' = Intents
      BY <3>2, NoIntentForJournal, Zenon
    <3> QED
      BY <2>3, <3>3
  <2>5. ASSUME ~clears
        PROVE  context'.pending = context.pending /\ Intents' = Intents
    <3>1. Commit(<< recorded >>, plan, context)
      BY <1>5, <2>5 DEF RecordToolResult
    <3>2. CommitOf(<< recorded >>, plan, context, {e}, s, {})
      BY <2>1, <2>2, <3>1, ResultCommits, Zenon
    <3> QED
      BY <3>2, NoIntentForJournal, Zenon
  <2>6. context'.pending = IF clear /\ s \notin {"intent_logged", "dispatched"}
                           THEN context.pending \ {e} ELSE context.pending
    BY <2>4, <2>5
  <2>7. Intents' = Intents
    BY <2>4, <2>5
  <2> QED
    BY <2>2, <2>6, <2>7 DEF Journal!RecordToolResult, Intents
<1>6. ASSUME NEW i \in Items, RecordLlmTurn(i)
      PROVE  Goal
  <2> DEFINE m == WithMessage(context)
             p == Bumped(plan)
  <2>1. context'.pending = InSync(m, p).pending /\ Intents' = Intents
    BY <1>6, TurnCommits, NoIntentForJournal, Zenon
  <2>2. m \in Contexts /\ m.pending = context.pending /\ p \in Plans
    BY RunTypes, ContextTypes, BumpedType DEF WithMessage, Contexts
  <2>3. InSync(m, p).pending = context.pending
    BY <2>2, StaysInSync
  <2>4. records' = records
    BY <1>6 DEF RecordLlmTurn
  <2> QED
    BY <1>0, <2>1, <2>3, <2>4
<1>7. ASSUME NEW a, NEW p \in Plans, UNCHANGED records,
             CommitOf(<<a, Synchronized(p)>>, p, InSync(context, p), {}, "failed", {})
      PROVE  Goal
  <2>1. context'.pending = InSync(context, p).pending /\ Intents' = Intents
    BY <1>7, NoIntentForJournal, Zenon
  <2>2. InSync(context, p).pending = context.pending
    BY RunTypes, StaysInSync
  <2> QED
    BY <1>0, <1>7, <2>1, <2>2
<1>8. ASSUME NEW i \in Items, SetActivePlanItem(i)
      PROVE  Goal
  <2>1. WithActive(plan, i) \in Plans /\ UNCHANGED records
    BY <1>8, RunTypes, PlanTypes DEF ItemStatuses, SetActivePlanItem
  <2> QED
    BY <1>7, <1>8, <2>1, ActiveCommits
<1>9. ASSUME NEW i \in Items, NEW s \in ItemStatuses, AdvancePlanItem(i, s)
      PROVE  Goal
  <2>1. WithStatus(plan, i, s) \in Plans /\ UNCHANGED records
    BY <1>9, RunTypes, PlanTypes DEF AdvancePlanItem
  <2> QED
    BY <1>7, <1>9, <2>1, StatusCommits
<1>10. ASSUME WriteCheckpoint
       PROVE  Goal
  <2>1. /\ IsSeq(log)
        /\ log' = Append(log, [CheckpointEvent(LatestSeq) EXCEPT !.seq = lastSeq + 1])
        /\ records' = records
    BY <1>10 DEF WriteCheckpoint, FacadeInv, InOrder
  <2>2. context'.pending = context.pending
    BY <1>10, RunTypes DEF WriteCheckpoint, Checkpointed, Contexts
  <2>3. ASSUME NEW e
        PROVE  LoggedIn(log', e) <=> LoggedIn(log, e)
    <3>1. ~LogsIntent([CheckpointEvent(LatestSeq) EXCEPT !.seq = lastSeq + 1].event, e)
      BY DEF LogsIntent, CheckpointEvent, Event
    <3> QED
      BY <2>1, <3>1, OneIntentMore
  <2>4. Intents' = Intents
    BY <2>3 DEF Intents, IntentLogged, LoggedIn
  <2> QED
    BY <1>0, <2>1, <2>2, <2>4
<1>11. ASSUME UNCHANGED <<log, context, records>>
       PROVE  Goal
  BY <1>0, <1>11 DEF Intents, IntentLogged
<1>12. ASSUME NEW e \in Exec,
              \/ RecordToolIntent(e)
              \/ RecordToolDispatch(e)
              \/ \E s \in Parked : RecordToolResult(e, s, FALSE)
              \/ \E s \in Terminal : RecordToolResult(e, s, TRUE)
       PROVE  Goal
  <2>1. ASSUME NEW s \in Parked, RecordToolResult(e, s, FALSE)
        PROVE  Goal
    BY <1>5, <2>1, SameStatuses DEF Journal!JournalNext
  <2>2. ASSUME NEW s \in Terminal, RecordToolResult(e, s, TRUE)
        PROVE  Goal
    BY <1>5, <2>2, SameStatuses DEF Journal!JournalNext
  <2> QED
    BY <1>3, <1>4, <1>12, <2>1, <2>2, Zenon
<1>13. ASSUME NEW i \in Items,
              \/ RecordLlmTurn(i)
              \/ SetActivePlanItem(i)
              \/ \E s \in ItemStatuses : AdvancePlanItem(i, s)
       PROVE  Goal
  BY <1>6, <1>8, <1>9, <1>13, Zenon
<1>14. CASE NextOfRun
  BY <1>1, <1>2, <1>10, <1>12, <1>13, <1>14, Zenon DEF NextOfRun
<1>15. CASE OtherRunAppends
  BY <1>11, <1>15 DEF OtherRunAppends
<1>16. CASE UNCHANGED vars
  BY <1>11, <1>16 DEF vars
<1> QED
  BY <1>14, <1>15, <1>16 DEF Next

(* The facade keeps every promise that ExecutionJournal makes to the       *)
(* agent and to recovery: with the log, the plan, the context and the      *)
(* checkpoints behind it the journal still makes no step but its own.      *)
THEOREM FacadeImplementsJournal == Spec => ImplementsJournal
<1>1. Init => Journal!JournalInit
  BY SameStatuses DEF Init, Journal!JournalInit, IntentLogged, NewContext
<1>2. FacadeInv /\ SyncedWithPlanner /\ [Next]_vars
        => [Journal!JournalNext]_Journal!journalVars
  BY StepOfJournal
<1> QED
  BY <1>1, <1>2, FacadeAtTheStart, FacadeStays, PTL
  DEF Spec, ImplementsJournal, Journal!JournalSpec
=============================================================================
