-------------------------- MODULE RunReadersProofs --------------------------
(***************************************************************************)
(* What those who read a run while it is written to may rely on, for any   *)
(* plan, any number of executions, any checkpoint interval, any limit on   *)
(* the events and any number of operations between two reads.              *)
(***************************************************************************)
EXTENDS RunReaders, LoggingServiceProofs

-----------------------------------------------------------------------------
(* Parts of a log                                                          *)

(* In a log in order the entries that are not past a sequence id come      *)
(* first, and CountUpTo says how many they are.                            *)
LEMMA Counting ==
  ASSUME NEW entries, NEW last, InOrder(entries, last), NEW seq \in Nat
  PROVE  /\ CountUpTo(entries, seq) \in 0 .. Len(entries)
         /\ \A k \in 1 .. Len(entries) : entries[k].seq <= seq <=> k <= CountUpTo(entries, seq)
<1> DEFINE m == Len(entries)
           Past == {k \in Nat : k \in 1 .. m /\ ~(entries[k].seq <= seq)}
           Upto(n) == \A k \in DOMAIN entries : entries[k].seq <= seq <=> k <= n
<1>1. m \in Nat /\ DOMAIN entries = 1 .. m
  BY DEF InOrder, IsSeq
<1>2. /\ \A k \in 1 .. m : entries[k].seq \in 1 .. last
      /\ \A j, k \in 1 .. m : j < k => entries[j].seq < entries[k].seq
  BY <1>1 DEF InOrder
<1> HIDE DEF m
<1>3. \E n \in 0 .. m : Upto(n)
  <2>1. CASE Past = {}
    <3>1. \A k \in 1 .. m : entries[k].seq <= seq <=> k <= m
      BY <1>1, <2>1
    <3> QED
      BY <1>1, <3>1
  <2>2. CASE Past # {}
    <3>1. PICK k \in Past : \A l \in Past : k <= l
      BY <2>2, LeastNumber
    <3>2. k - 1 \in 0 .. m
      BY <1>1, <3>1
    <3>3. ASSUME NEW j \in 1 .. m
          PROVE  entries[j].seq <= seq <=> j <= k - 1
      BY <1>1, <1>2, <3>1, <3>3
    <3> QED
      BY <1>1, <3>2, <3>3
  <2> QED
    BY <2>1, <2>2
<1>4. /\ CountUpTo(entries, seq) \in 0 .. m
      /\ Upto(CountUpTo(entries, seq))
  BY <1>3 DEF CountUpTo, m
<1> QED
  BY <1>1, <1>4 DEF m

(* No other number does.                                                   *)
LEMMA CountIs ==
  ASSUME NEW entries, NEW last, InOrder(entries, last), NEW seq \in Nat,
         NEW n \in 0 .. Len(entries),
         \A k \in 1 .. Len(entries) : entries[k].seq <= seq <=> k <= n
  PROVE  CountUpTo(entries, seq) = n
<1> DEFINE c == CountUpTo(entries, seq)
<1>1. Len(entries) \in Nat
  BY DEF InOrder, IsSeq
<1>2. /\ c \in 0 .. Len(entries)
      /\ \A k \in 1 .. Len(entries) : entries[k].seq <= seq <=> k <= c
  BY Counting
<1> HIDE DEF c
<1>3. CASE c < n
  <2>1. n \in 1 .. Len(entries)
    BY <1>1, <1>2, <1>3
  <2> QED
    BY <1>1, <1>2, <1>3, <2>1
<1>4. CASE n < c
  <2>1. c \in 1 .. Len(entries)
    BY <1>1, <1>2, <1>4
  <2> QED
    BY <1>1, <1>2, <1>4, <2>1
<1> QED
  BY <1>1, <1>2, <1>3, <1>4 DEF c

(* A part of a log.                                                        *)
LEMMA Parts ==
  ASSUME NEW entries, IsSeq(entries), NEW n \in 0 .. Len(entries), NEW m \in n .. Len(entries)
  PROVE  /\ IsSeq(SubSeq(entries, n + 1, m))
         /\ Len(SubSeq(entries, n + 1, m)) = m - n
         /\ \A k \in 1 .. m - n : SubSeq(entries, n + 1, m)[k] = entries[n + k]
<1> DEFINE S == {entries[k] : k \in DOMAIN entries}
           t == SubSeq(entries, n + 1, m)
<1>1. Len(entries) \in Nat /\ DOMAIN entries = 1 .. Len(entries) /\ entries \in Seq(S)
  BY DEF IsSeq
<1>2. \A k \in n + 1 .. m : entries[k] \in S
  BY <1>1
<1>3. n + 1 \in Int /\ m \in Int /\ m - (n + 1) + 1 = m - n
      /\ (IF n + 1 <= m THEN m - (n + 1) + 1 ELSE 0) = m - n
  BY <1>1
<1> HIDE DEF S
<1>4. /\ t \in Seq(S) /\ Len(t) = m - n
      /\ \A k \in 1 .. m - n : t[k] = entries[n + 1 + k - 1]
  BY <1>2, <1>3, SubSeqProperties
<1> HIDE DEF t
<1>5. \A k \in 1 .. m - n : t[k] = entries[n + k]
  BY <1>1, <1>4
<1>6. Len(t) \in Nat /\ DOMAIN t = 1 .. Len(t) /\ t \in [1 .. Len(t) -> S]
  BY <1>4, LenProperties
<1>7. IsSeq(t)
  <2>1. t \in [1 .. Len(t) -> {t[k] : k \in DOMAIN t}]
    BY <1>6
  <2> QED
    BY <1>6, <2>1, SeqDef DEF IsSeq
<1> QED
  BY <1>4, <1>5, <1>7 DEF t

-----------------------------------------------------------------------------
(* What part of a log tells                                                *)

(* What the first entries of a log tell of the run.                        *)
ToldIn(entries, n) == ToldBy(SubSeq(entries, 1, n), 0, BlankView)

(* The run as of a sequence id, as a log tells it.                         *)
AsOfIn(entries, seq) == ToldIn(entries, CountUpTo(entries, seq))

(* A telling has the view at its start, and each entry that is past goes   *)
(* on from the one before.                                                 *)
LEMMA TellingGoesOn ==
  ASSUME NEW f, NEW n \in Nat, NEW entries, NEW past, NEW view,
         Tells(f, n, entries, past, view)
  PROVE  /\ f[0] = view
         /\ \A k \in 1 .. n : ~(entries[k].seq <= past)
              => f[k] = Told(f[k - 1], entries[k].event)
<1>1. \A k \in 0 .. n : f[k] = TellingStep(f, k, entries, past, view)
  BY DEF Tells
<1> QED
  BY <1>1 DEF TellingStep

(* The telling of a log gives what each of its beginnings tells.           *)
LEMMA TellingOfBeginnings ==
  ASSUME NEW entries, NEW last, InOrder(entries, last), NEW view, NEW f,
         Tells(f, Len(entries), entries, 0, view), NEW n \in 0 .. Len(entries)
  PROVE  ToldBy(SubSeq(entries, 1, n), 0, view) = f[n]
<1> DEFINE part == SubSeq(entries, 1, n)
           m == Len(entries)
<1>1. m \in Nat
  BY DEF InOrder, IsSeq
<1>2. /\ IsSeq(part) /\ Len(part) = n
      /\ \A k \in 1 .. n : part[k] = entries[k]
  <2>1. 0 \in 0 .. m /\ n \in 0 .. m /\ IsSeq(entries)
    BY <1>1 DEF InOrder
  <2>2. /\ IsSeq(SubSeq(entries, 0 + 1, n))
        /\ Len(SubSeq(entries, 0 + 1, n)) = n - 0
        /\ \A k \in 1 .. n - 0 : SubSeq(entries, 0 + 1, n)[k] = entries[0 + k]
    BY <2>1, Parts
  <2>3. 0 + 1 = 1 /\ n - 0 = n /\ \A k \in 1 .. n : 0 + k = k
    BY <1>1
  <2> QED
    BY <2>2, <2>3
<1> HIDE DEF part, m
<1>3. PICK g : Tells(g, Len(part), part, 0, view) /\ ToldBy(part, 0, view) = g[Len(part)]
  BY <1>1, <1>2, ToldByTelling
<1>4. g[n] = f[n]
  <2>1. Tells(g, n, part, 0, view) /\ Tells(f, m, entries, 0, view)
    BY <1>2, <1>3 DEF m
  <2>2. n \in Nat /\ m \in Nat /\ n <= m
    BY <1>1 DEF m
  <2> QED
    BY <1>2, <2>1, <2>2, TellingsAgree
<1> QED
  BY <1>2, <1>3, <1>4 DEF part

(* What the rest of a log tells to whoever has been told its beginning.    *)
LEMMA TellingOfRests ==
  ASSUME NEW entries, NEW last, InOrder(entries, last), NEW view,
         NEW n \in 0 .. Len(entries), NEW m \in n .. Len(entries)
  PROVE  ToldBy(SubSeq(entries, n + 1, m), 0, ToldBy(SubSeq(entries, 1, n), 0, view))
           = ToldBy(SubSeq(entries, 1, m), 0, view)
<1> DEFINE l == Len(entries)
           part == SubSeq(entries, n + 1, m)
<1>1. l \in Nat /\ IsSeq(entries) /\ n \in Nat /\ m \in Nat /\ n <= m /\ m <= l
  BY DEF InOrder, IsSeq
<1>2. \A k \in 1 .. l : ~(entries[k].seq <= 0)
  BY DEF InOrder, IsSeq
<1>3. /\ IsSeq(part) /\ Len(part) = m - n
      /\ \A k \in 1 .. m - n : part[k] = entries[n + k]
  BY <1>1, Parts
<1>4. PICK f : Tells(f, l, entries, 0, view)
  BY <1>1, TellingExists, Zenon
<1>5. /\ ToldBy(SubSeq(entries, 1, n), 0, view) = f[n]
      /\ ToldBy(SubSeq(entries, 1, m), 0, view) = f[m]
  <2>1. n \in 0 .. Len(entries) /\ m \in 0 .. Len(entries)
    BY <1>1
  <2> QED
    BY <1>4, <2>1, TellingOfBeginnings
<1> HIDE DEF l, part
<1>6. m - n \in Nat
  BY <1>1
<1>7. PICK g : Tells(g, m - n, part, 0, f[n]) /\ ToldBy(part, 0, f[n]) = g[m - n]
  <2>1. Len(part) \in Nat
    BY <1>3, <1>6
  <2>2. \E g : /\ Tells(g, Len(part), part, 0, f[n])
               /\ ToldBy(part, 0, f[n]) = g[Len(part)]
    BY <2>1, ToldByTelling
  <2> QED
    BY <1>3, <2>2
<1>8. f[0] = view /\ \A k \in 1 .. l : f[k] = Told(f[k - 1], entries[k].event)
  BY <1>1, <1>2, <1>4, TellingGoesOn
<1>9. g[0] = f[n] /\ \A k \in 1 .. m - n : g[k] = Told(g[k - 1], entries[n + k].event)
  <2>1. \A k \in 1 .. m - n : n + k \in 1 .. l
    BY <1>1
  <2>2. /\ g[0] = f[n]
        /\ \A k \in 1 .. m - n : ~(part[k].seq <= 0) => g[k] = Told(g[k - 1], part[k].event)
    BY <1>6, <1>7, TellingGoesOn
  <2> QED
    BY <1>2, <1>3, <2>1, <2>2
<1>10. g[m - n] = f[m]
  <2> DEFINE Differs == {k \in Nat : k <= m - n /\ g[k] # f[n + k]}
  <2>1. CASE Differs = {}
    <3>1. n + (m - n) = m /\ m - n <= m - n
      BY <1>1
    <3> QED
      BY <1>6, <2>1, <3>1
  <2>2. CASE Differs # {}
    <3>1. PICK k \in Differs : \A j \in Differs : k <= j
      BY <2>2, LeastNumber
    <3>2. k # 0
      BY <1>1, <1>9, <3>1
    <3>3. /\ k \in 1 .. m - n /\ k - 1 \in Nat /\ k - 1 \notin Differs
          /\ n + k \in 1 .. l /\ n + k - 1 = n + (k - 1)
      BY <1>1, <1>6, <3>1, <3>2
    <3>4. g[k - 1] = f[n + (k - 1)]
      BY <1>6, <3>1, <3>3
    <3>5. g[k] = f[n + k]
      BY <1>8, <1>9, <3>3, <3>4
    <3> QED
      BY <3>1, <3>5
  <2> QED
    BY <2>1, <2>2
<1> QED
  BY <1>5, <1>7, <1>10 DEF part

-----------------------------------------------------------------------------
(* The records that a log tells of                                         *)

(* Those of a tool call lead to the records with its status, before and    *)
(* after it is recorded.                                                   *)
LEMMA CallsMoveRecords ==
  ASSUME NEW r \in Records, NEW e \in Exec, NEW s \in Statuses
  PROVE  /\ s = "intent_logged" => StaysAmong({r, [r EXCEPT ![e] = s]},
                                              Event("TOOL_INTENT_RECORDED", e, << >>))
         /\ s = "dispatched" => StaysAmong({r, [r EXCEPT ![e] = s]},
                                           Event("TOOL_DISPATCHED", e, << >>))
         /\ StaysAmong({r, [r EXCEPT ![e] = s]},
                       Event("EXTERNAL_RESULT_RECORDED", e, <<s>>))
<1> DEFINE m == [r EXCEPT ![e] = s]
           S == {r, m}
<1>1. \A t \in S : [t EXCEPT ![e] = s] = m
  BY DEF Records
<1> HIDE DEF S, m
<1>2. m \in S
  BY DEF S
<1>3. ASSUME s = "intent_logged"
      PROVE  StaysAmong(S, Event("TOOL_INTENT_RECORDED", e, << >>))
  BY <1>1, <1>2, <1>3, TellingOfIntents, SMTT(40) DEF StaysAmong
<1>4. ASSUME s = "dispatched"
      PROVE  StaysAmong(S, Event("TOOL_DISPATCHED", e, << >>))
  <2>1. \A p, c : \A t \in S : Told(View(p, c, t), Event("TOOL_DISPATCHED", e, << >>))
                              = View(p, c, m)
    BY <1>1, <1>4, TellingOfDispatches
  <2> QED
    BY <1>2, <2>1, Zenon DEF StaysAmong
<1>5. StaysAmong(S, Event("EXTERNAL_RESULT_RECORDED", e, <<s>>))
  BY <1>1, <1>2, TellingOfResults DEF StaysAmong
<1> QED
  BY <1>3, <1>4, <1>5 DEF S, m

(* A view with some of the records.                                        *)
HasRecordsOf(S, v) == \E p, c : \E r \in S : v = View(p, c, r)

(* Events each of which stays among some records do so all the way.        *)
LEMMA RecordsAlongATelling ==
  ASSUME NEW f, NEW entries, NEW n \in Nat, NEW m \in Nat, n <= m, NEW S,
         HasRecordsOf(S, f[n]),
         \A k \in n + 1 .. m : f[k] = Told(f[k - 1], entries[k].event),
         \A k \in n + 1 .. m : StaysAmong(S, entries[k].event)
  PROVE  \A k \in n .. m : HasRecordsOf(S, f[k])
<1> DEFINE Leaves == {k \in Nat : k \in n .. m /\ ~HasRecordsOf(S, f[k])}
<1> SUFFICES ASSUME Leaves # {}
             PROVE  FALSE
  OBVIOUS
<1>1. PICK k \in Leaves : \A j \in Leaves : k <= j
  BY LeastNumber
<1>2. k # n /\ k \in n .. m
  BY <1>1
<1>3. k - 1 \in Nat /\ k - 1 \in n .. m /\ k - 1 \notin Leaves /\ k \in n + 1 .. m
  BY <1>1, <1>2
<1>4. PICK p, c : \E r \in S : f[k - 1] = View(p, c, r)
  BY <1>3 DEF HasRecordsOf
<1>5. PICK r \in S : f[k - 1] = View(p, c, r)
  BY <1>4
<1>6. f[k] = Told(View(p, c, r), entries[k].event)
  BY <1>3, <1>5
<1>7. \E q, d : \E t \in S : Told(View(p, c, r), entries[k].event) = View(q, d, t)
  <2>1. StaysAmong(S, entries[k].event)
    BY <1>3
  <2> QED
    BY <1>5, <2>1 DEF StaysAmong
<1>8. HasRecordsOf(S, f[k])
  BY <1>6, <1>7 DEF HasRecordsOf
<1> QED
  BY <1>1, <1>8

-----------------------------------------------------------------------------
(* What a step does to the log                                             *)

(* A step only adds to the log, past the store's last sequence id, events  *)
(* that lead from the records to the records it leaves; and it leaves no   *)
(* older version of the plan unless it starts the run over.                *)
Extends(S) ==
  /\ Len(log) <= Len(log')
  /\ \A k \in 1 .. Len(log) : log'[k] = log[k]
  /\ \A k \in Len(log) + 1 .. Len(log') :
       log'[k].seq > lastSeq /\ StaysAmong(S, log'[k].event)
  /\ lastSeq <= lastSeq'
  /\ \/ plan'.version >= plan.version
     \/ \E k \in Len(log) + 1 .. Len(log') : log'[k].event.type = "RUN_STARTED"

(* A commit does, if its events are such.                                  *)
LEMMA CommitExtends ==
  ASSUME FacadeInv, NEW events, IsSeq(events), NEW p, NEW c, Commit(events, p, c), NEW S,
         \A k \in 1 .. Len(events) : StaysAmong(S, events[k]),
         p.version >= plan.version \/ \E k \in 1 .. Len(events) : events[k].type = "RUN_STARTED"
  PROVE  Extends(S)
<1> DEFINE n == Len(log)
           m == Len(events)
           sofar == log \o Numbered(events)
           seq == lastSeq + m
           due == CheckpointInterval > 0 /\ seq % CheckpointInterval = 0
<1>1. IsSeq(log) /\ n \in Nat /\ lastSeq \in Nat
  BY DEF FacadeInv, TypeOK, InOrder, IsSeq
<1>2. /\ IsSeq(Numbered(events)) /\ Len(Numbered(events)) = m /\ m \in Nat
      /\ \A k \in 1 .. m : Numbered(events)[k] = [seq |-> lastSeq + k, event |-> events[k]]
  BY Numbering
<1>3. /\ IsSeq(sofar) /\ Len(sofar) = n + m
      /\ \A k \in 1 .. n + m : sofar[k] = IF k <= n THEN log[k] ELSE Numbered(events)[k - n]
  <2> DEFINE rest == Numbered(events)
  <2>1. IsSeq(log) /\ IsSeq(rest) /\ Len(log) = n /\ Len(rest) = m
    BY <1>1, <1>2
  <2> HIDE DEF n, m, rest
  <2>2. /\ IsSeq(log \o rest) /\ Len(log \o rest) = n + m
        /\ \A k \in 1 .. n + m : (log \o rest)[k] = IF k <= n THEN log[k] ELSE rest[k - n]
    BY <2>1, JoiningOf
  <2> QED
    BY <2>2 DEF rest
<1>4. /\ \/ /\ log' = Append(sofar, CheckpointEvent(seq)) /\ lastSeq' = seq + 1
         \/ /\ log' = sofar /\ lastSeq' = seq
      /\ plan' = p
  BY DEF Commit
<1>5. /\ IsSeq(Append(sofar, CheckpointEvent(seq)))
      /\ Len(Append(sofar, CheckpointEvent(seq))) = n + m + 1
      /\ \A k \in 1 .. n + m : Append(sofar, CheckpointEvent(seq))[k] = sofar[k]
      /\ Append(sofar, CheckpointEvent(seq))[n + m + 1] = CheckpointEvent(seq)
  BY <1>3, Appending
<1>6. StaysAmong(S, CheckpointEvent(seq).event) /\ CheckpointEvent(seq).seq = seq + 1
  <2>1. CheckpointEvent(seq).event = Event("CHECKPOINT_WRITTEN", "checkpoint", <<seq>>)
    BY DEF CheckpointEvent
  <2> QED
    BY <2>1, OthersKeepRecords DEF CheckpointEvent
<1> HIDE DEF n, m, sofar, seq, due
<1>7. ASSUME NEW k \in 1 .. n
      PROVE  sofar[k] = log[k]
  <2>1. k \in 1 .. n + m /\ k <= n
    BY <1>1, <1>2
  <2> QED
    BY <1>3, <2>1
<1>8. ASSUME NEW k \in n + 1 .. n + m
      PROVE  /\ sofar[k].seq = lastSeq + (k - n) /\ sofar[k].event = events[k - n]
             /\ k - n \in 1 .. m
  <2>1. k - n \in 1 .. m /\ sofar[k] = Numbered(events)[k - n]
    <3>1. k - n \in 1 .. m /\ k \in 1 .. n + m /\ ~(k <= n)
      BY <1>1, <1>2
    <3> QED
      BY <1>3, <3>1
  <2>2. Numbered(events)[k - n] = [seq |-> lastSeq + (k - n), event |-> events[k - n]]
    BY <1>2, <2>1
  <2> QED
    BY <2>1, <2>2
<1>9. \A k \in n + 1 .. n + m : sofar[k].seq > lastSeq /\ StaysAmong(S, sofar[k].event)
  <2> SUFFICES ASSUME NEW k \in n + 1 .. n + m
               PROVE  sofar[k].seq > lastSeq /\ StaysAmong(S, sofar[k].event)
    OBVIOUS
  <2>1. sofar[k].seq = lastSeq + (k - n) /\ sofar[k].event = events[k - n] /\ k - n \in 1 .. m
    BY <1>8
  <2>2. StaysAmong(S, events[k - n])
    BY <2>1 DEF m
  <2> QED
    BY <1>1, <1>2, <2>1, <2>2
<1>10. \/ p.version >= plan.version
       \/ \E k \in n + 1 .. n + m : sofar[k].event.type = "RUN_STARTED"
  <2>1. ASSUME NEW k \in 1 .. m, events[k].type = "RUN_STARTED"
        PROVE  \E l \in n + 1 .. n + m : sofar[l].event.type = "RUN_STARTED"
    <3>1. n + k \in n + 1 .. n + m /\ (n + k) - n = k
      BY <1>1, <1>2
    <3>2. sofar[n + k].event = events[k]
      BY <1>8, <3>1
    <3> QED
      BY <2>1, <3>1, <3>2
  <2> QED
    BY <2>1 DEF m
<1>11. CASE log' = sofar /\ lastSeq' = seq
  <2>1. Len(log') = n + m /\ n <= n + m /\ lastSeq <= seq
    BY <1>1, <1>2, <1>3, <1>11 DEF seq
  <2> QED
    BY <1>4, <1>7, <1>9, <1>10, <1>11, <2>1 DEF Extends, n
<1>12. CASE log' = Append(sofar, CheckpointEvent(seq)) /\ lastSeq' = seq + 1
  <2>1. Len(log') = n + m + 1 /\ n <= n + m + 1 /\ lastSeq <= seq + 1 /\ seq + 1 > lastSeq
    BY <1>1, <1>2, <1>5, <1>12 DEF seq
  <2>2. \A k \in 1 .. n : log'[k] = log[k]
    BY <1>1, <1>2, <1>5, <1>7, <1>12
  <2>3. \A k \in n + 1 .. n + m : log'[k] = sofar[k]
    BY <1>1, <1>2, <1>5, <1>12
  <2>4. log'[n + m + 1].seq > lastSeq /\ StaysAmong(S, log'[n + m + 1].event)
    BY <1>5, <1>6, <1>12, <2>1
  <2>5. \A k \in n + 1 .. n + m + 1 : k \in n + 1 .. n + m \/ k = n + m + 1
    BY <1>1, <1>2
  <2>6. \A k \in n + 1 .. n + m + 1 : log'[k].seq > lastSeq /\ StaysAmong(S, log'[k].event)
    BY <1>9, <2>3, <2>4, <2>5
  <2>7. \A k \in n + 1 .. n + m : k \in n + 1 .. n + m + 1
    BY <1>1, <1>2
  <2> QED
    BY <1>4, <1>10, <1>12, <2>1, <2>2, <2>3, <2>6, <2>7 DEF Extends, n
<1> QED
  BY <1>4, <1>11, <1>12

(* A later version of the plan.                                            *)
LEMMA PlansGrow ==
  ASSUME NEW p \in Plans
  PROVE  /\ p.version \in Nat /\ Bumped(p).version >= p.version
         /\ \A i : WithActive(p, i).version >= p.version
         /\ \A i, s : WithStatus(p, i, s).version >= p.version
<1>1. p.version \in Nat /\ Bumped(p).version = p.version + 1
  BY DEF Plans, Bumped
<1>2. ASSUME NEW i
      PROVE  WithActive(p, i).version = p.version + 1
  BY DEF Plans, WithActive, Bumped
<1>3. ASSUME NEW i, NEW s
      PROVE  WithStatus(p, i, s).version = p.version + 1
  BY DEF Plans, WithStatus, Bumped
<1> QED
  BY <1>1, <1>2, <1>3

(* The events that leave all records as they are.                          *)
LEMMA EventsKeepRecords ==
  ASSUME NEW S
  PROVE  /\ StaysAmong(S, MessageAppended)
         /\ \A p : StaysAmong(S, Synchronized(p))
         /\ \A ids : StaysAmong(S, PendingSet(ids))
BY OthersKeepRecords DEF MessageAppended, Synchronized, PendingSet

(* So does every operation of the run.                                     *)
LEMMA OperationExtends ==
  ASSUME FacadeInv, NextOfRun
  PROVE  Extends({records, records'})
<1> DEFINE S == {records, records'}
<1>0. /\ plan \in Plans /\ plan.version \in Nat /\ plan.version >= plan.version
      /\ records \in Records
  BY RunTypes, PlansGrow
<1>1. ASSUME NEW forceReset, StartRun(forceReset)
      PROVE  Extends(S)
  <2> DEFINE a == Event("RUN_STARTED", "run", << >>)
             b == Event("PLAN_CREATED", "planner", << >>)
             i == Event("CONTEXT_INITIALIZED", "context", <<SeedMessages>>)
             d == Synchronized(NewPlan)
             c == InSync(NewContext, NewPlan)
             events == <<a, b, i, d>>
  <2>1. Commit(events, NewPlan, c)
    BY <1>1 DEF StartRun
  <2>2. StaysAmong(S, a) /\ StaysAmong(S, b) /\ StaysAmong(S, i) /\ StaysAmong(S, d)
    BY OthersKeepRecords, EventsKeepRecords
  <2>3. a.type = "RUN_STARTED"
    BY DEF Event
  <2> HIDE DEF S, a, b, i, d, c
  <2>4. IsSeq(events)
    BY FourEvents, Zenon
  <2>5. /\ \A k \in 1 .. Len(events) : StaysAmong(S, events[k])
        /\ 1 \in 1 .. Len(events) /\ events[1].type = "RUN_STARTED"
    BY <2>2, <2>3
  <2> HIDE DEF events
  <2> QED
    BY <2>1, <2>4, <2>5, CommitExtends
<1>2. ASSUME NEW a, StaysAmong(S, a), NEW p, NEW c, Commit(<<a>>, p, c),
             p.version >= plan.version
      PROVE  Extends(S)
  <2> DEFINE events == <<a>>
  <2>1. IsSeq(events)
    BY OneEvent, Zenon
  <2>2. \A k \in 1 .. Len(events) : StaysAmong(S, events[k])
    BY <1>2
  <2> HIDE DEF events, S
  <2>3. Commit(events, p, c)
    BY <1>2 DEF events
  <2> QED
    BY <1>2, <2>1, <2>2, <2>3, CommitExtends
<1>3. ASSUME NEW a, StaysAmong(S, a), NEW b, StaysAmong(S, b), NEW p, NEW c,
             Commit(<<a, b>>, p, c), p.version >= plan.version
      PROVE  Extends(S)
  <2> DEFINE events == <<a, b>>
  <2>1. IsSeq(events)
    BY TwoEvents, Zenon
  <2>2. \A k \in 1 .. Len(events) : StaysAmong(S, events[k])
    BY <1>3
  <2> HIDE DEF events, S
  <2>3. Commit(events, p, c)
    BY <1>3 DEF events
  <2> QED
    BY <1>3, <2>1, <2>2, <2>3, CommitExtends
<1>4. ASSUME NEW a, StaysAmong(S, a), NEW b, StaysAmong(S, b), NEW d, StaysAmong(S, d),
             NEW p, NEW c, Commit(<<a, b, d>>, p, c), p.version >= plan.version
      PROVE  Extends(S)
  <2> DEFINE events == <<a, b, d>>
  <2>1. IsSeq(events)
    BY ThreeEvents, Zenon
  <2>2. \A k \in 1 .. Len(events) : StaysAmong(S, events[k])
    BY <1>4
  <2> HIDE DEF events, S
  <2>3. Commit(events, p, c)
    BY <1>4 DEF events
  <2> QED
    BY <1>4, <2>1, <2>2, <2>3, CommitExtends
<1>5. ASSUME RecordContextMessage
      PROVE  Extends(S)
  <2>1. Commit(<< MessageAppended >>, plan, WithMessage(context))
    BY <1>5 DEF RecordContextMessage
  <2> QED
    BY <1>0, <1>2, <2>1, EventsKeepRecords
<1>6. ASSUME NEW i \in Items, RecordLlmTurn(i)
      PROVE  Extends(S)
  <2> DEFINE a == Event("PLAN_ITEM_LLM_OUTPUT_ATTACHED", i, << >>)
             d == Synchronized(Bumped(plan))
             c == InSync(WithMessage(context), Bumped(plan))
  <2>1. Commit(<< a, MessageAppended, d >>, Bumped(plan), c)
    BY <1>6 DEF RecordLlmTurn
  <2>2. StaysAmong(S, a) /\ StaysAmong(S, MessageAppended) /\ StaysAmong(S, d)
    BY OthersKeepRecords, EventsKeepRecords
  <2>3. Bumped(plan).version >= plan.version
    BY <1>0, PlansGrow
  <2> HIDE DEF a, c, d, S
  <2> QED
    BY <1>4, <2>1, <2>2, <2>3
<1>7. ASSUME NEW e \in Exec, RecordToolIntent(e)
      PROVE  Extends(S)
  <2> DEFINE a == Event("TOOL_INTENT_RECORDED", e, << >>)
             ids == context.pending \union {e}
             m == [context EXCEPT !.pending = ids]
             b == PendingSet(m.pending)
             d == Synchronized(Bumped(plan))
             c == InSync(m, Bumped(plan))
  <2>1. /\ Commit(<< a, b, d >>, Bumped(plan), c)
        /\ records' = [records EXCEPT ![e] = "intent_logged"]
    BY <1>7 DEF RecordToolIntent
  <2>2. StaysAmong(S, a)
    BY <1>0, <2>1, CallsMoveRecords DEF Statuses
  <2>3. StaysAmong(S, b) /\ StaysAmong(S, d)
    BY EventsKeepRecords
  <2>4. Bumped(plan).version >= plan.version
    BY <1>0, PlansGrow
  <2> HIDE DEF a, b, c, d, S
  <2> QED
    BY <1>4, <2>1, <2>2, <2>3, <2>4
<1>8. ASSUME NEW e \in Exec, RecordToolDispatch(e)
      PROVE  Extends(S)
  <2> DEFINE a == Event("TOOL_DISPATCHED", e, << >>)
  <2>1. Commit(<< a >>, plan, context) /\ records' = [records EXCEPT ![e] = "dispatched"]
    BY <1>8 DEF RecordToolDispatch
  <2>2. StaysAmong(S, a)
    BY <1>0, <2>1, CallsMoveRecords DEF Statuses
  <2> HIDE DEF a, S
  <2> QED
    BY <1>0, <1>2, <2>1, <2>2
<1>9. ASSUME NEW e \in Exec, NEW s \in Parked \union Terminal, NEW clear,
             RecordToolResult(e, s, clear)
      PROVE  Extends(S)
  <2> DEFINE a == Event("EXTERNAL_RESULT_RECORDED", e, <<s>>)
             m == [context EXCEPT !.pending = @ \ {e}]
             b == PendingSet(m.pending)
  <2>1. /\ Commit(<< a, b >>, plan, m) \/ Commit(<< a >>, plan, context)
        /\ records' = [records EXCEPT ![e] = s]
    BY <1>9 DEF RecordToolResult
  <2>2. s \in Statuses
    BY DEF Parked, Terminal, Statuses
  <2>3. StaysAmong(S, a)
    BY <1>0, <2>1, <2>2, CallsMoveRecords
  <2>4. StaysAmong(S, b)
    BY EventsKeepRecords
  <2> HIDE DEF a, b, m, S
  <2>5. CASE Commit(<< a, b >>, plan, m)
    BY <1>0, <1>3, <2>3, <2>4, <2>5
  <2>6. CASE Commit(<< a >>, plan, context)
    BY <1>0, <1>2, <2>3, <2>6
  <2> QED
    BY <2>1, <2>5, <2>6
<1>10. ASSUME NEW i \in Items, NEW s \in ItemStatuses, AdvancePlanItem(i, s)
       PROVE  Extends(S)
  <2> DEFINE p == WithStatus(plan, i, s)
             a == Event("PLAN_ITEM_STATUS_UPDATED", i, <<s>>)
             b == Synchronized(p)
  <2>1. Commit(<< a, b >>, p, InSync(context, p))
    BY <1>10 DEF AdvancePlanItem
  <2>2. StaysAmong(S, a) /\ StaysAmong(S, b)
    BY OthersKeepRecords, EventsKeepRecords
  <2>3. p.version >= plan.version
    BY <1>0, PlansGrow
  <2> HIDE DEF a, b, p, S
  <2> QED
    BY <1>3, <2>1, <2>2, <2>3
<1>11. ASSUME NEW i \in Items, SetActivePlanItem(i)
       PROVE  Extends(S)
  <2> DEFINE p == WithActive(plan, i)
             a == Event("PLAN_ACTIVE_ITEM_SET", i, << >>)
             b == Synchronized(p)
  <2>1. Commit(<< a, b >>, p, InSync(context, p))
    BY <1>11 DEF SetActivePlanItem
  <2>2. StaysAmong(S, a) /\ StaysAmong(S, b)
    BY OthersKeepRecords, EventsKeepRecords
  <2>3. p.version >= plan.version
    BY <1>0, PlansGrow
  <2> HIDE DEF a, b, p, S
  <2> QED
    BY <1>3, <2>1, <2>2, <2>3
<1>12. ASSUME WriteCheckpoint
       PROVE  Extends(S)
  <2> DEFINE x == [CheckpointEvent(LatestSeq) EXCEPT !.seq = lastSeq + 1]
             n == Len(log)
  <2>1. log' = Append(log, x) /\ lastSeq' = lastSeq + 1 /\ plan' = plan
    BY <1>12 DEF WriteCheckpoint
  <2>2. x.seq = lastSeq + 1 /\ x.event = Event("CHECKPOINT_WRITTEN", "checkpoint", <<LatestSeq>>)
    BY DEF CheckpointEvent
  <2>3. StaysAmong(S, x.event)
    BY <2>2, OthersKeepRecords
  <2>4. IsSeq(log) /\ n \in Nat /\ lastSeq \in Nat
    BY DEF FacadeInv, TypeOK, InOrder, IsSeq
  <2> HIDE DEF x, S
  <2>5. /\ Len(log') = n + 1 /\ \A k \in 1 .. n : log'[k] = log[k]
        /\ log'[n + 1] = x
    BY <2>1, <2>4, Appending
  <2> HIDE DEF n
  <2>6. \A k \in n + 1 .. Len(log') : k = n + 1
    BY <2>4, <2>5
  <2>7. \A k \in n + 1 .. Len(log') : log'[k].seq > lastSeq /\ StaysAmong(S, log'[k].event)
    BY <2>2, <2>3, <2>4, <2>5, <2>6
  <2>8. n <= Len(log') /\ lastSeq <= lastSeq' /\ plan'.version >= plan.version
    BY <1>0, <2>1, <2>4, <2>5
  <2> QED
    BY <2>5, <2>7, <2>8 DEF Extends, n
<1>13. ASSUME NEW e \in Exec,
              \/ RecordToolIntent(e)
              \/ RecordToolDispatch(e)
              \/ \E s \in Parked : RecordToolResult(e, s, FALSE)
              \/ \E s \in Terminal : RecordToolResult(e, s, TRUE)
       PROVE  Extends(S)
  <2>1. ASSUME NEW s \in Parked, RecordToolResult(e, s, FALSE)
        PROVE  Extends(S)
    BY <1>9, <2>1
  <2>2. ASSUME NEW s \in Terminal, RecordToolResult(e, s, TRUE)
        PROVE  Extends(S)
    BY <1>9, <2>2
  <2> HIDE DEF S
  <2> QED
    BY <1>7, <1>8, <1>13, <2>1, <2>2, Zenon
<1>14. ASSUME NEW i \in Items,
              \/ RecordLlmTurn(i)
              \/ SetActivePlanItem(i)
              \/ \E s \in ItemStatuses : AdvancePlanItem(i, s)
       PROVE  Extends(S)
  BY <1>6, <1>10, <1>11, <1>14, Zenon
<1> HIDE DEF S
<1>15. Extends(S)
  <2>1. CASE \E forceReset \in BOOLEAN : StartRun(forceReset)
    BY <1>1, <2>1, Zenon
  <2>2. CASE \E e \in Exec :
               \/ RecordToolIntent(e)
               \/ RecordToolDispatch(e)
               \/ \E s \in Parked : RecordToolResult(e, s, FALSE)
               \/ \E s \in Terminal : RecordToolResult(e, s, TRUE)
    BY <1>13, <2>2
  <2>3. CASE \E i \in Items :
               \/ RecordLlmTurn(i)
               \/ SetActivePlanItem(i)
               \/ \E s \in ItemStatuses : AdvancePlanItem(i, s)
    BY <1>14, <2>3
  <2> QED
    BY <1>5, <1>12, <2>1, <2>2, <2>3 DEF NextOfRun
<1> QED
  BY <1>15 DEF S

-----------------------------------------------------------------------------
(* The beginnings of the log                                               *)

(* What the run was as of a sequence id.                                   *)
LEMMA AsOfCounts ==
  ASSUME NEW seq
  PROVE  AsOf(seq) = AsOfIn(log, seq)
BY DEF AsOf, AsOfIn, UpTo, ToldIn, BlankView, View

(* What a beginning of the log tells stays as the log grows, and so does   *)
(* what it is the beginning up to.                                         *)
LEMMA BeginningsStay ==
  ASSUME FacadeInv, FacadeInv', NEW S, Extends(S)
  PROVE  /\ \A n \in 0 .. Len(log) : ToldIn(log', n) = ToldIn(log, n)
         /\ \A seq \in 0 .. lastSeq : CountUpTo(log', seq) = CountUpTo(log, seq)
         /\ \A seq \in 0 .. lastSeq : AsOfIn(log', seq) = AsOfIn(log, seq)
<1>1. /\ InOrder(log, lastSeq) /\ InOrder(log', lastSeq') /\ lastSeq \in Nat
      /\ Len(log) \in Nat /\ Len(log') \in Nat
      /\ DOMAIN log = 1 .. Len(log)
  BY DEF FacadeInv, TypeOK, InOrder, IsSeq
<1>2. /\ Len(log) <= Len(log')
      /\ \A k \in 1 .. Len(log) : log'[k] = log[k]
      /\ \A k \in Len(log) + 1 .. Len(log') : log'[k].seq > lastSeq
  BY DEF Extends
<1>3. ASSUME NEW n \in 0 .. Len(log)
      PROVE  ToldIn(log', n) = ToldIn(log, n)
  <2>1. PICK f : Tells(f, Len(log), log, 0, BlankView)
    BY <1>1, TellingExists, Zenon
  <2>2. PICK g : Tells(g, Len(log'), log', 0, BlankView)
    BY <1>1, TellingExists, Zenon
  <2>3. ToldIn(log, n) = f[n]
    BY <1>1, <2>1, TellingOfBeginnings DEF ToldIn
  <2>4. n \in 0 .. Len(log')
    BY <1>1, <1>2
  <2>5. ToldIn(log', n) = g[n]
    BY <1>1, <2>2, <2>4, TellingOfBeginnings DEF ToldIn
  <2>6. f[n] = g[n]
    <3>1. f[Len(log)] = g[Len(log)] /\ \A k \in 0 .. Len(log) : f[k] = g[k]
      <4> SUFFICES ASSUME NEW k \in 0 .. Len(log)
                   PROVE  f[k] = g[k]
        BY <1>1
      <4> DEFINE h == [l \in 0 .. k |-> f[l]]
      <4>0. k \in Nat /\ \A l \in 0 .. k : l \in 0 .. Len(log) /\ (l # 0 => l - 1 \in 0 .. k)
        BY <1>1
      <4>1. \A l \in 0 .. k : f[l] = TellingStep(f, l, log, 0, BlankView)
        BY <2>1, <4>0 DEF Tells
      <4>2. \A l \in 0 .. k : h[l] = f[l]
        OBVIOUS
      <4> HIDE DEF h
      <4>3. \A l \in 0 .. k : TellingStep(h, l, log, 0, BlankView)
                               = TellingStep(f, l, log, 0, BlankView)
        BY <4>0, <4>2 DEF TellingStep
      <4>4. h = [l \in 0 .. k |-> TellingStep(h, l, log, 0, BlankView)]
        <5>1. \A l \in 0 .. k : f[l] = TellingStep(h, l, log, 0, BlankView)
          BY <4>1, <4>3
        <5> HIDE DEF TellingStep
        <5> QED
          BY <5>1 DEF h
      <4>5. Tells(h, k, log, 0, BlankView)
        BY <4>4 DEF Tells
      <4>6. h[k] = g[k]
        <5>1. k \in Nat /\ Len(log') \in Nat /\ k <= Len(log')
          BY <1>1, <1>2
        <5>2. \A l \in 1 .. k : log[l] = log'[l]
          BY <1>1, <1>2
        <5> HIDE DEF Tells
        <5> QED
          BY <2>2, <4>5, <5>1, <5>2, TellingsAgree
      <4> QED
        BY <4>0, <4>2, <4>6
    <3> QED
      BY <3>1
  <2> QED
    BY <2>3, <2>5, <2>6
<1>4. ASSUME NEW seq \in 0 .. lastSeq
      PROVE  CountUpTo(log', seq) = CountUpTo(log, seq)
  <2> DEFINE n == CountUpTo(log, seq)
  <2>0. seq \in Nat
    BY <1>1
  <2>1. /\ n \in 0 .. Len(log)
        /\ \A k \in 1 .. Len(log) : log[k].seq <= seq <=> k <= n
    BY <1>1, <2>0, Counting, Zenon
  <2>2. \A k \in 1 .. Len(log') : log'[k].seq \in Nat
    BY <1>1 DEF InOrder, IsSeq
  <2> HIDE DEF n
  <2>3. ASSUME NEW k \in 1 .. Len(log')
        PROVE  log'[k].seq <= seq <=> k <= n
    <3>1. CASE k \in 1 .. Len(log)
      BY <1>2, <2>1, <3>1
    <3>2. CASE k \notin 1 .. Len(log)
      <4>1. k \in Len(log) + 1 .. Len(log') /\ ~(k <= n)
        BY <1>1, <2>1, <3>2
      <4> QED
        BY <1>1, <1>2, <2>2, <4>1
    <3> QED
      BY <3>1, <3>2
  <2>4. n \in 0 .. Len(log')
    BY <1>1, <1>2, <2>1
  <2> QED
    BY <1>1, <2>3, <2>4, CountIs, SMTT(30) DEF n
<1>5. ASSUME NEW seq \in 0 .. lastSeq
      PROVE  AsOfIn(log', seq) = AsOfIn(log, seq)
  <2>1. seq \in Nat
    BY <1>1
  <2>2. CountUpTo(log, seq) \in 0 .. Len(log)
    BY <1>1, <2>1, Counting
  <2>3. CountUpTo(log', seq) = CountUpTo(log, seq)
    BY <1>4
  <2> QED
    BY <1>3, <2>2, <2>3 DEF AsOfIn
<1> QED
  BY <1>3, <1>4, <1>5

(* The whole log tells what is stored.                                     *)
LEMMA AllOfTheLog ==
  ASSUME FacadeInv
  PROVE  /\ ToldIn(log, Len(log)) = ToldBy(log, 0, BlankView)
         /\ LogAgrees => ToldIn(log, Len(log)) = View(plan, context, records)
         /\ \A seq \in Nat : seq >= lastSeq => CountUpTo(log, seq) = Len(log)
<1>1. IsSeq(log) /\ InOrder(log, lastSeq) /\ Len(log) \in Nat /\ lastSeq \in Nat
  BY DEF FacadeInv, TypeOK, InOrder, IsSeq
<1>2. SubSeq(log, 1, Len(log)) = log
  BY <1>1, SubSeqFull DEF IsSeq
<1>3. LogAgrees => ToldBy(log, 0, BlankView) = View(plan, context, records)
  BY DEF LogAgrees, Current, View, BlankView
<1>4. ASSUME NEW seq \in Nat, seq >= lastSeq
      PROVE  CountUpTo(log, seq) = Len(log)
  <2>1. \A k \in 1 .. Len(log) : log[k].seq <= seq <=> k <= Len(log)
    BY <1>1, <1>4 DEF InOrder, IsSeq
  <2>2. Len(log) \in 0 .. Len(log)
    BY <1>1
  <2> QED
    BY <1>1, <2>1, <2>2, CountIs
<1> QED
  BY <1>2, <1>3, <1>4 DEF ToldIn

(* What a step adds to the log tells of the records before and after it,   *)
(* wherever one stops reading.                                             *)
LEMMA AdditionsTell ==
  ASSUME FacadeInv, FacadeInv', LogAgrees, NEW S, records \in S, Extends(S)
  PROVE  \A n \in Len(log) .. Len(log') : HasRecordsOf(S, ToldIn(log', n))
<1>1. /\ InOrder(log', lastSeq') /\ Len(log) \in Nat /\ Len(log') \in Nat
      /\ \A k \in 1 .. Len(log') : ~(log'[k].seq <= 0)
      /\ Len(log) <= Len(log')
  <2>1. InOrder(log', lastSeq') /\ Len(log) <= Len(log')
    BY DEF FacadeInv, Extends
  <2>2. Len(log) \in Nat
    BY DEF FacadeInv, InOrder, IsSeq
  <2>3. Len(log') \in Nat /\ DOMAIN log' = 1 .. Len(log')
    BY <2>1 DEF InOrder, IsSeq
  <2>4. \A k \in 1 .. Len(log') : log'[k].seq \in 1 .. lastSeq' /\ lastSeq' \in Nat
    BY <2>1, <2>3 DEF FacadeInv, TypeOK, InOrder
  <2>5. \A k \in 1 .. Len(log') : ~(log'[k].seq <= 0)
    BY <2>4
  <2> QED
    BY <2>1, <2>2, <2>3, <2>5
<1>2. PICK f : Tells(f, Len(log'), log', 0, BlankView)
  BY <1>1, TellingExists, Zenon
<1>3. \A n \in 0 .. Len(log') : ToldIn(log', n) = f[n]
  BY <1>1, <1>2, TellingOfBeginnings DEF ToldIn
<1>4. HasRecordsOf(S, f[Len(log)])
  <2>1. Len(log) \in 0 .. Len(log) /\ Len(log) \in 0 .. Len(log')
    BY <1>1
  <2>2. ToldIn(log', Len(log)) = ToldIn(log, Len(log))
    BY <2>1, BeginningsStay
  <2>3. f[Len(log)] = View(plan, context, records)
    BY <1>3, <2>1, <2>2, AllOfTheLog
  <2> QED
    BY <2>3 DEF HasRecordsOf
<1>5. \A k \in Len(log) + 1 .. Len(log') : f[k] = Told(f[k - 1], log'[k].event)
  <2>1. \A k \in Len(log) + 1 .. Len(log') : k \in 1 .. Len(log')
    BY <1>1
  <2> QED
    BY <1>1, <1>2, <2>1, TellingGoesOn
<1>6. \A k \in Len(log) + 1 .. Len(log') : StaysAmong(S, log'[k].event)
  BY DEF Extends
<1>7. \A k \in Len(log) .. Len(log') : HasRecordsOf(S, f[k])
  BY <1>1, <1>4, <1>5, <1>6, RecordsAlongATelling
<1>8. \A n \in Len(log) .. Len(log') : ToldIn(log', n) = f[n]
  BY <1>1, <1>3
<1> QED
  BY <1>7, <1>8

-----------------------------------------------------------------------------
(* The records never fall behind the log                                   *)

Behind(r, t) == /\ r # NoRecord => t # NoRecord
                /\ r \in Committed => t \in Committed

(* Wherever one stops reading the log, the stored records have not fallen  *)
(* behind what it has told.                                                *)
Followed ==
  \A n \in 0 .. Len(log) : \E p, c, r :
    ToldIn(log, n) = View(p, c, r) /\ \A e \in Exec : Behind(r[e], records[e])

(* Nor do they after a step that leaves no record behind.                  *)
LEMMA FollowedStays ==
  ASSUME FacadeInv, FacadeInv', LogAgrees, Followed, Extends({records, records'}),
         \A e \in Exec : Behind(records[e], records'[e])
  PROVE  Followed'
<1> SUFFICES ASSUME NEW n \in 0 .. Len(log')
             PROVE  \E p, c, r : ToldIn(log', n) = View(p, c, r)
                                   /\ \A e \in Exec : Behind(r[e], records'[e])
  BY DEF Followed
<1>1. Len(log) \in Nat /\ Len(log') \in Nat
  BY DEF FacadeInv, InOrder, IsSeq
<1>2. CASE n \in 0 .. Len(log)
  <2>1. PICK p, c, r : ToldIn(log, n) = View(p, c, r) /\ \A e \in Exec : Behind(r[e], records[e])
    BY <1>2 DEF Followed
  <2>2. ToldIn(log', n) = View(p, c, r)
    BY <1>2, <2>1, BeginningsStay
  <2>3. \A e \in Exec : Behind(r[e], records'[e])
    BY <2>1 DEF Behind
  <2> QED
    BY <2>2, <2>3
<1>3. CASE n \in Len(log) .. Len(log')
  <2>1. PICK p, c : \E r \in {records, records'} : ToldIn(log', n) = View(p, c, r)
    BY <1>3, AdditionsTell DEF HasRecordsOf
  <2>2. PICK r \in {records, records'} : ToldIn(log', n) = View(p, c, r)
    BY <2>1
  <2>3. \A e \in Exec : Behind(r[e], records'[e])
    BY DEF Behind
  <2> QED
    BY <2>2, <2>3
<1> QED
  BY <1>1, <1>2, <1>3

(* So at every sequence id.                                                *)
LEMMA FollowedAsOf ==
  ASSUME FacadeInv, Followed, NEW seq \in Nat
  PROVE  \A e \in Exec : Behind(AsOfIn(log, seq).records[e], records[e])
<1>1. CountUpTo(log, seq) \in 0 .. Len(log)
  BY Counting DEF FacadeInv
<1>2. PICK p, c, r : /\ AsOfIn(log, seq) = View(p, c, r)
                     /\ \A e \in Exec : Behind(r[e], records[e])
  BY <1>1 DEF Followed, AsOfIn
<1> QED
  BY <1>2 DEF View

(* Every step of the store only adds to the log.                           *)
LEMMA StepExtends ==
  ASSUME FacadeInv, [Next]_vars
  PROVE  Extends({records, records'})
<1>1. ASSUME UNCHANGED <<log, plan>>, lastSeq <= lastSeq'
      PROVE  Extends({records, records'})
  <2>1. plan.version >= plan.version
    BY RunTypes, PlansGrow
  <2>2. Len(log) \in Nat
    BY DEF FacadeInv, InOrder, IsSeq
  <2>3. \A k \in Len(log) + 1 .. Len(log) : FALSE
    BY <2>2
  <2> QED
    BY <1>1, <2>1, <2>2, <2>3 DEF Extends
<1>2. lastSeq \in Nat
  BY DEF FacadeInv, TypeOK
<1> QED
  BY <1>1, <1>2, OperationExtends DEF Next, vars, OtherRunAppends

-----------------------------------------------------------------------------
(* A checkpoint is the run as of its sequence id                           *)

IsAsOf(entries, seq, p, c) == \E r : AsOfIn(entries, seq) = View(p, c, r)

CheckpointKnown ==
  checkpoint.seq > 0 => IsAsOf(log, checkpoint.seq, checkpoint.plan, checkpoint.context)

(* Without the entry at its end a log is the log before it.                *)
LEMMA BeforeTheEnd ==
  ASSUME NEW s, IsSeq(s), NEW x
  PROVE  SubSeq(Append(s, x), 1, Len(s)) = s
<1> DEFINE t == Append(s, x)
           n == Len(s)
           part == SubSeq(t, 1, n)
<1>1. /\ IsSeq(t) /\ n \in Nat /\ Len(t) = n + 1
      /\ \A k \in 1 .. n : t[k] = s[k]
  BY Appending
<1> HIDE DEF t, n
<1>2. /\ IsSeq(SubSeq(t, 0 + 1, n)) /\ Len(SubSeq(t, 0 + 1, n)) = n - 0
      /\ \A k \in 1 .. n - 0 : SubSeq(t, 0 + 1, n)[k] = t[0 + k]
  <2>1. 0 \in 0 .. Len(t) /\ n \in 0 .. Len(t)
    BY <1>1
  <2> QED
    BY <1>1, <2>1, Parts, ZenonT(60)
<1>3. 0 + 1 = 1 /\ n - 0 = n /\ \A k \in 1 .. n : 0 + k = k
  BY <1>1
<1>4. IsSeq(part) /\ Len(part) = n /\ \A k \in 1 .. n : part[k] = s[k]
  BY <1>1, <1>2, <1>3
<1> HIDE DEF part
<1> DEFINE S == {part[k] : k \in DOMAIN part} \union {s[k] : k \in DOMAIN s}
<1>5. part \in Seq(S) /\ s \in Seq(S)
  BY <1>4, SeqMonotonic DEF IsSeq
<1> HIDE DEF S
<1>6. part = s
  BY <1>4, <1>5, SeqEqual DEF n
<1> QED
  BY <1>6 DEF part, t, n

(* It stays so as the log grows,                                           *)
LEMMA KnownStays ==
  ASSUME FacadeInv, FacadeInv', NEW S, Extends(S), NEW seq \in 0 .. lastSeq, NEW p, NEW c,
         IsAsOf(log, seq, p, c)
  PROVE  IsAsOf(log', seq, p, c)
<1>1. AsOfIn(log', seq) = AsOfIn(log, seq)
  BY BeginningsStay
<1> QED
  BY <1>1 DEF IsAsOf

(* the automatic checkpoint is so                                          *)
LEMMA AutomaticIsKnown ==
  ASSUME FacadeInv, FacadeInv', LogAgrees, NEW events, NEW p, NEW c, NEW E, NEW s, NEW I,
         CommitOf(events, p, c, E, s, I), checkpoint' # checkpoint
  PROVE  IsAsOf(log', checkpoint'.seq, checkpoint'.plan, checkpoint'.context)
<1> DEFINE sofar == log \o Numbered(events)
           seq == lastSeq + Len(events)
           n == Len(sofar)
<1>1. /\ IsSeq(events) /\ Commit(events, p, c) /\ lastSeq \in Nat /\ IsSeq(log)
      /\ Len(events) \in Nat /\ IsSeq(sofar)
  BY Numbering, Concatenating DEF CommitOf, FacadeInv, TypeOK, InOrder
<1>2. /\ log' = Append(sofar, CheckpointEvent(seq))
      /\ checkpoint' = [seq |-> seq, plan |-> p, context |-> c]
  BY <1>1 DEF Commit, Checkpointed
<1>3. InOrder(sofar, seq)
  BY <1>1, NumberedInOrder DEF FacadeInv
<1>4. ToldBy(sofar, 0, BlankView) = View(p, c, Marked(records, E, s))
  <2>1. ToldBy(log, 0, BlankView) = View(plan, context, records)
    BY DEF LogAgrees, Current, View, BlankView
  <2>2. NotYet(0) /\ records \in Records
    BY <1>1, RunTypes DEF NotYet
  <2> QED
    BY <2>1, <2>2, Zenon DEF CommitOf
<1>5. SubSeq(log', 1, n) = sofar
  BY <1>1, <1>2, BeforeTheEnd
<1>6. /\ n \in Nat /\ Len(log') = n + 1 /\ log'[n + 1].seq = seq + 1
      /\ \A k \in 1 .. n : log'[k] = sofar[k]
  BY <1>1, <1>2, Appending DEF CheckpointEvent
<1>7. \A k \in 1 .. n : sofar[k].seq \in 1 .. seq
  <2>1. DOMAIN sofar = 1 .. n
    BY <1>1 DEF IsSeq
  <2>2. \A k \in DOMAIN sofar : sofar[k].seq \in 1 .. seq
    <3> HIDE DEF sofar, seq, n
    <3> QED
      BY <1>3, SMT DEF InOrder
  <2> HIDE DEF sofar, seq, n
  <2> QED
    BY <2>1, <2>2
<1>8. InOrder(log', lastSeq')
  BY DEF FacadeInv
<1> HIDE DEF sofar, n
<1>9. seq \in Nat
  BY <1>1
<1> HIDE DEF seq
<1>10. CountUpTo(log', seq) = n
  <2>1. \A k \in 1 .. Len(log') : log'[k].seq <= seq <=> k <= n
    <3> SUFFICES ASSUME NEW k \in 1 .. Len(log')
                 PROVE  log'[k].seq <= seq <=> k <= n
      OBVIOUS
    <3>1. CASE k \in 1 .. n
      BY <1>6, <1>7, <1>9, <3>1
    <3>2. CASE k = n + 1
      BY <1>6, <1>9, <3>2
    <3> QED
      BY <1>6, <3>1, <3>2
  <2>2. n \in 0 .. Len(log')
    BY <1>6
  <2> QED
    BY <1>8, <1>9, <2>1, <2>2, CountIs
<1>11. AsOfIn(log', seq) = View(p, c, Marked(records, E, s))
  BY <1>4, <1>5, <1>10 DEF AsOfIn, ToldIn
<1> QED
  BY <1>2, <1>11 DEF IsAsOf

(* and so is the explicit one.                                             *)
LEMMA ExplicitIsKnown ==
  ASSUME FacadeInv, FacadeInv', LogAgrees, WriteCheckpoint
  PROVE  IsAsOf(log', checkpoint'.seq, checkpoint'.plan, checkpoint'.context)
<1>1. /\ checkpoint' = [seq |-> LatestSeq, plan |-> plan, context |-> context] /\ ~NotStarted
      /\ LatestSeq \in Nat /\ LatestSeq <= lastSeq /\ lastSeq \in Nat
  BY LatestIsReached DEF WriteCheckpoint, Checkpointed
<1>2. CountUpTo(log, LatestSeq) = Len(log)
  <2>1. Len(log) \in Nat /\ InOrder(log, lastSeq) /\ DOMAIN log = 1 .. Len(log) /\ Len(log) # 0
    BY <1>1 DEF FacadeInv, InOrder, IsSeq, NotStarted
  <2>2. \A k \in 1 .. Len(log) : log[k].seq \in Nat /\ (k < Len(log) => log[k].seq < LatestSeq)
    BY <2>1 DEF InOrder, LatestSeq
  <2>3. \A k \in 1 .. Len(log) : log[k].seq <= LatestSeq
    <3> SUFFICES ASSUME NEW k \in 1 .. Len(log)
                 PROVE  log[k].seq <= LatestSeq
      OBVIOUS
    <3>1. CASE k < Len(log)
      BY <1>1, <2>2, <3>1
    <3>2. CASE k = Len(log)
      BY <1>1, <3>2 DEF LatestSeq
    <3> QED
      BY <2>1, <3>1, <3>2
  <2>4. \A k \in 1 .. Len(log) : log[k].seq <= LatestSeq <=> k <= Len(log)
    BY <2>1, <2>3
  <2>5. Len(log) \in 0 .. Len(log)
    BY <2>1
  <2> QED
    BY <1>1, <2>1, <2>4, <2>5, CountIs
<1>3. IsAsOf(log, LatestSeq, plan, context)
  BY <1>2, AllOfTheLog DEF IsAsOf, AsOfIn
<1>4. Extends({records, records'})
  BY OperationExtends DEF NextOfRun
<1>5. LatestSeq \in 0 .. lastSeq
  BY <1>1
<1> HIDE DEF LatestSeq
<1> QED
  BY <1>1, <1>3, <1>4, <1>5, KnownStays

(* The latest checkpoint is the run as of its sequence id, after any step. *)
LEMMA CheckpointStaysKnown ==
  ASSUME FacadeInv, FacadeInv', SyncedWithPlanner, LogAgrees, CheckpointKnown, [Next]_vars
  PROVE  CheckpointKnown'
<1>1. CASE checkpoint' = checkpoint
  <2>1. checkpoint.seq \in 0 .. lastSeq
    BY DEF FacadeInv, TypeOK
  <2> QED
    BY <1>1, <2>1, StepExtends, KnownStays DEF CheckpointKnown
<1>2. CASE checkpoint' # checkpoint
  <2>1. NextOfRun
    BY <1>2 DEF Next, vars, OtherRunAppends
  <2>2. IsAsOf(log', checkpoint'.seq, checkpoint'.plan, checkpoint'.context)
    BY <1>2, <2>1, OperationsCommit, AutomaticIsKnown, ExplicitIsKnown
  <2> QED
    BY <2>2 DEF CheckpointKnown
<1> QED
  BY <1>1, <1>2

-----------------------------------------------------------------------------
(* The executions                                                          *)

(* The callers' view of the executions: pending ones have an intent and an *)
(* unsettled record, and no intent is without a record.                    *)
JournalInv ==
  /\ context.pending \subseteq Intents
  /\ \A e \in context.pending : records[e] \in Unsettled
  /\ \A e \in Intents : records[e] # NoRecord

(* What a step does to one execution: its record does not fall behind, its *)
(* intent stays, and it does not become pending once it has a record.      *)
GoesOn(e) ==
  /\ Behind(records[e], records'[e])
  /\ e \in Intents => e \in Intents'
  /\ e \notin context.pending /\ records[e] # NoRecord => e \notin context'.pending

JournalStep ==
  /\ records' \in Records
  /\ JournalInv'
  /\ \A e \in Exec : GoesOn(e)

(* Logging an intent is such a step,                                       *)
LEMMA IntentSteps ==
  ASSUME records \in Records, context.pending \subseteq Exec, JournalInv,
         NEW e \in Exec, Journal!RecordToolIntent(e)
  PROVE  JournalStep
<1> USE DEF Journal!RecordToolIntent, Journal!IntentExists, Journal!journalVars, Journal!NoRecord,
        JournalStep, JournalInv, GoesOn, Behind, Records, NoRecord, Unsettled, Committed, Statuses
<1>1. /\ \/ UNCHANGED <<records, context.pending, Intents>>
         \/ /\ records[e] = NoRecord /\ e \notin Intents
            /\ context'.pending = context.pending \union {e}
            /\ Intents' = Intents \union {e}
            /\ records' = [records EXCEPT ![e] = "intent_logged"]
      /\ Intents \subseteq Exec
  BY DEF Intents
<1> HIDE DEF Intents, Journal!RecordToolIntent
<1> QED
  BY <1>1

(* so is recording a dispatch,                                             *)
LEMMA DispatchSteps ==
  ASSUME records \in Records, context.pending \subseteq Exec, JournalInv,
         NEW e \in Exec, Journal!RecordToolDispatch(e)
  PROVE  JournalStep
<1>1. /\ UNCHANGED <<context.pending, Intents>>
      /\ records[e] # NoRecord /\ MayMove(records[e], "dispatched")
      /\ records' = [records EXCEPT ![e] = "dispatched"]
      /\ Intents \subseteq Exec
  BY SameStatuses DEF Intents, Journal!RecordToolDispatch, Journal!CanDispatch
<1>2. records[e] \notin Committed
  BY <1>1 DEF MayMove, AllowedNext, Committed, Statuses
<1> QED
  BY <1>1, <1>2 DEF JournalStep, JournalInv, GoesOn, Behind, Records, NoRecord, Unsettled,
                    Committed, Statuses

(* and recording a result.                                                 *)
LEMMA ResultSteps ==
  ASSUME records \in Records, context.pending \subseteq Exec, JournalInv, NEW e \in Exec,
         \/ \E s \in Parked : Journal!RecordToolResult(e, s, FALSE)
         \/ \E s \in Terminal : Journal!RecordToolResult(e, s, TRUE)
  PROVE  JournalStep
<1>1. PICK s \in Parked \union Terminal :
             /\ records[e] # NoRecord => MayMove(records[e], s)
             /\ records' = [records EXCEPT ![e] = s]
             /\ \/ s \in Parked /\ context'.pending = context.pending
                \/ s \in Terminal /\ context'.pending = context.pending \ {e}
             /\ Intents' = Intents /\ Intents \subseteq Exec
  BY SameStatuses
  DEF Intents, Journal!RecordToolResult, Journal!CanRecord, Parked, Terminal
<1>2. records[e] \in Committed => s \in Committed
  BY <1>1 DEF MayMove, AllowedNext, Committed, Statuses, Parked, Terminal, NoRecord
<1> QED
  BY <1>1, <1>2 DEF JournalStep, JournalInv, GoesOn, Behind, Records, NoRecord, Unsettled,
                    Committed, Statuses, Parked, Terminal

(* Every step of the facade is such a step.                                *)
LEMMA JournalGoesOn ==
  ASSUME FacadeInv, SyncedWithPlanner, JournalInv, [Next]_vars
  PROVE  JournalStep
<1>1. records \in Records /\ context.pending \subseteq Exec
  BY DEF FacadeInv, TypeOK, Records, Contexts
<1>2. [Journal!JournalNext]_Journal!journalVars
  BY StepOfJournal
<1>3. CASE UNCHANGED <<records, context.pending, Intents>>
  BY <1>1, <1>3 DEF JournalStep, JournalInv, GoesOn, Behind
<1>4. CASE Journal!ForgetPending
  <2>1. UNCHANGED <<records, Intents>> /\ context'.pending = {}
    BY <1>4 DEF Journal!ForgetPending, Intents
  <2> QED
    BY <1>1, <2>1 DEF JournalStep, JournalInv, GoesOn, Behind
<1>5. UNCHANGED Journal!journalVars => UNCHANGED <<records, context.pending, Intents>>
  BY DEF Journal!journalVars, Intents
<1>6. ASSUME NEW e \in Exec,
             \/ Journal!RecordToolIntent(e) \/ Journal!RecordToolDispatch(e)
             \/ \E s \in Parked : Journal!RecordToolResult(e, s, FALSE)
             \/ \E s \in Terminal : Journal!RecordToolResult(e, s, TRUE)
      PROVE  JournalStep
  BY <1>1, <1>6, IntentSteps, DispatchSteps, ResultSteps, Zenon
<1>7. CASE Journal!JournalNext
  BY <1>4, <1>6, <1>7, SameStatuses, Zenon DEF Journal!JournalNext
<1> QED
  BY <1>2, <1>3, <1>5, <1>7

-----------------------------------------------------------------------------
(* The run at any time                                                     *)

RunInv ==
  /\ FacadeInv /\ SyncedWithPlanner /\ LogAgrees
  /\ Followed /\ CheckpointKnown /\ JournalInv

(* All of it holds before the run starts,                                  *)
LEMMA RunAtTheStart ==
  ASSUME Init, LogAgrees
  PROVE  RunInv
<1>1. FacadeInv /\ SyncedWithPlanner
  BY FacadeAtTheStart
<1>2. ToldIn(log, Len(log)) = View(plan, context, records) /\ Len(log) = 0
  BY <1>1, AllOfTheLog DEF Init
<1>3. Followed
  <2>1. \A n \in 0 .. Len(log) : n = Len(log)
    BY <1>2
  <2>2. \A e \in Exec : Behind(records[e], records[e])
    BY DEF Behind
  <2> QED
    BY <1>2, <2>1, <2>2, Zenon DEF Followed
<1>4. CheckpointKnown
  BY DEF Init, CheckpointKnown
<1>5. JournalInv
  BY DEF Init, NewContext, JournalInv, Intents, IntentLogged
<1> QED
  BY <1>1, <1>3, <1>4, <1>5 DEF RunInv

(* and after every step, which does no execution harm.                     *)
LEMMA RunStays ==
  ASSUME RunInv, [Next]_vars, LogAgrees'
  PROVE  RunInv' /\ Extends({records, records'}) /\ \A e \in Exec : GoesOn(e)
<1>1. FacadeInv' /\ SyncedWithPlanner'
  BY FacadeStays DEF RunInv
<1>2. Extends({records, records'})
  BY StepExtends DEF RunInv
<1>3. JournalInv' /\ \A e \in Exec : GoesOn(e)
  BY JournalGoesOn DEF RunInv, JournalStep
<1>4. Followed'
  BY <1>1, <1>2, <1>3, FollowedStays DEF RunInv, GoesOn
<1>5. CheckpointKnown'
  BY <1>1, CheckpointStaysKnown DEF RunInv
<1> QED
  BY <1>1, <1>2, <1>3, <1>4, <1>5 DEF RunInv

(* Reading leaves the run alone: what readers see of it is what it does.   *)
THEOREM ReadersRunTheFacade == ReadersSpec => Spec
<1>1. ReadersInit => Init
  BY DEF ReadersInit
<1>2. [ReadersNext]_<<vars, readerVars>> => [Next]_vars
  <2> SUFFICES ASSUME [ReadersNext]_<<vars, readerVars>>
               PROVE  [Next]_vars
    OBVIOUS
  <2>1. CASE StartReading \/ StopReading
    BY <2>1 DEF StartReading, StopReading
  <2>2. CASE Read
    <3>1. Proceeds => UNCHANGED vars
      BY DEF Proceeds
    <3>2. ReadCheckpoint \/ ReadEvents \/ ReadPlan \/ ReadContext => UNCHANGED vars
      BY <3>1, Zenon DEF ReadCheckpoint, ReadEvents, ReadPlan, ReadContext
    <3>3. ListIds \/ ReadResult \/ ResultsRead \/ ReadIntents => UNCHANGED vars
      BY <3>1, Zenon DEF ListIds, ReadResult, ResultsRead, ReadIntents
    <3> QED
      BY <2>2, <3>2, <3>3 DEF Read
  <2>3. CASE WriteMeanwhile \/ Next
    BY <2>3 DEF WriteMeanwhile, Next
  <2>4. CASE UNCHANGED <<vars, readerVars>>
    BY <2>4
  <2> QED
    BY <2>1, <2>2, <2>3, <2>4 DEF ReadersNext
<1> QED
  BY <1>1, <1>2, PTL DEF ReadersSpec, Spec

(* So the run is known throughout, whoever reads.                          *)
LEMMA RunKnown == ReadersSpec => [](RunInv /\ LogAgrees)
<1>1. Init /\ LogAgrees => RunInv
  BY RunAtTheStart
<1>2. RunInv /\ [Next]_vars /\ LogAgrees' => RunInv'
  BY RunStays
<1> QED
  BY <1>1, <1>2, ReadersRunTheFacade, LogTellsAll, PTL DEF Spec

-----------------------------------------------------------------------------
(* What holds while somebody reads                                         *)

Views ==
  [since : Nat, checkpoint : Nat, plan : Plans, context : Contexts, upTo : Nat,
   version : Nat, pending : SUBSET Exec, plannerVersion : Nat, ids : SUBSET Exec,
   results : [Exec -> Statuses \union {NoRecord}], intents : SUBSET Exec]

(* Each reader goes through the reads of its own order.                    *)
ReaderControl ==
  /\ seen \in Views
  /\ reader \in {"nobody", "bundle", "audit"}
  /\ reader = "nobody" => reading = "done" /\ seen = Blank
  /\ reader = "bundle" =>
       reading \in {"checkpoint", "events", "plan", "context", "ids", "results", "done"}
  /\ reader = "audit" => reading \in {"ids", "results", "context", "intents", "done"}
  /\ reading # "results" => seen.ids = {}

(* The events of the bundle start from a checkpoint that was in the log.   *)
EventsKnown ==
  reader = "bundle" =>
    /\ reading # "checkpoint" =>
         /\ seen.checkpoint <= lastSeq
         /\ seen.checkpoint > 0 =>
              IsAsOf(log, seen.checkpoint, seen.plan, seen.context)
    /\ reading \notin {"checkpoint", "events"} => seen.upTo \in seen.checkpoint .. lastSeq

(* The plan of the bundle is not ahead of the context it has yet to read.  *)
VersionKnown ==
  reader = "bundle" =>
    /\ reading \in {"context", "ids", "results", "done"} =>
         /\ seen.since <= lastSeq
         /\ NotStarted => seen.version = 0
    /\ reading = "context" => plan.version >= seen.version \/ ResetSince(seen.since)
    /\ reading \in {"ids", "results", "done"} =>
         seen.plannerVersion >= seen.version \/ ResetSince(seen.since)

(* What the bundle's results must know, and what they must not be behind.  *)
Expected(e) == AsOfIn(log, seen.upTo).records[e] # NoRecord \/ e \in seen.pending

Known(e) ==
  /\ Expected(e) => seen.results[e] # NoRecord
  /\ AsOfIn(log, seen.upTo).records[e] \in Committed => seen.results[e] \in Committed

ResultsKnown ==
  reader = "bundle" =>
    /\ reading = "ids" => \A e \in seen.pending : records[e] # NoRecord
    /\ reading = "results" => \A e \in seen.ids : records[e] # NoRecord
    /\ reading \in {"results", "done"} => \A e \in Exec \ seen.ids : Known(e)

(* The audit's records are older than the pending executions it compares   *)
(* them with, and no execution without one had begun before.               *)
AuditKnown ==
  reader = "audit" =>
    /\ reading # "ids" =>
         /\ seen.since <= lastSeq
         /\ \A e \in seen.ids : records[e] # NoRecord
         /\ \A e \in Exec \ seen.ids : seen.results[e] = NoRecord =>
              \A k \in DOMAIN log : LogsIntent(log[k].event, e) => log[k].seq > seen.since
    /\ reading \in {"ids", "results"} => seen.pending = {}
    /\ \A e \in Exec : seen.results[e] \in Terminal =>
         records[e] # NoRecord /\ e \notin context.pending \union seen.pending
    /\ seen.pending \union seen.intents \subseteq Intents

ReadersInv == ReaderControl /\ EventsKnown /\ VersionKnown /\ ResultsKnown /\ AuditKnown

(* A reset that is in the log stays in it.                                 *)
LEMMA ResetStays ==
  ASSUME FacadeInv, NEW S, Extends(S), NEW since, ResetSince(since)
  PROVE  \E k \in DOMAIN log' : log'[k].seq > since /\ log'[k].event.type = "RUN_STARTED"
<1>1. PICK k \in DOMAIN log : log[k].seq > since /\ log[k].event.type = "RUN_STARTED"
  BY DEF ResetSince
<1>2. k \in 1 .. Len(log) /\ k \in DOMAIN log'
  BY DEF Extends, FacadeInv, InOrder, IsSeq
<1>3. log'[k] = log[k]
  BY <1>2 DEF Extends
<1> QED
  BY <1>1, <1>2, <1>3

(* What others write leaves the readers' views what they were.             *)
LEMMA ControlStays ==
  ASSUME ReaderControl, UNCHANGED readerVars
  PROVE  ReaderControl'
BY DEF ReaderControl, readerVars

(* The checkpoint that was read stays in the log,                          *)
LEMMA EventsStay ==
  ASSUME FacadeInv, FacadeInv', ReaderControl, EventsKnown, UNCHANGED readerVars,
         Extends({records, records'})
  PROVE  EventsKnown'
<1>1. lastSeq \in Nat /\ lastSeq' \in Nat /\ lastSeq <= lastSeq'
  BY DEF FacadeInv, TypeOK, Extends
<1>2. UNCHANGED <<reader, reading, seen>> /\ seen.checkpoint \in Nat /\ seen.upTo \in Nat
  BY DEF readerVars, ReaderControl, Views
<1>3. ASSUME seen.checkpoint <= lastSeq,
             IsAsOf(log, seen.checkpoint, seen.plan, seen.context)
      PROVE  IsAsOf(log', seen.checkpoint, seen.plan, seen.context)
  BY <1>1, <1>2, <1>3, KnownStays
<1> QED
  BY <1>1, <1>2, <1>3 DEF EventsKnown

(* a context yet to be read is not behind the plan, or the run is reset,   *)
LEMMA VersionStays ==
  ASSUME FacadeInv, FacadeInv', ReaderControl, VersionKnown, UNCHANGED readerVars,
         Extends({records, records'})
  PROVE  VersionKnown'
<1>1. lastSeq \in Nat /\ lastSeq' \in Nat /\ lastSeq <= lastSeq'
  BY DEF FacadeInv, TypeOK, Extends
<1>2. /\ UNCHANGED <<reader, reading, seen>> /\ seen.since \in Nat /\ seen.version \in Nat
      /\ plan.version \in Nat /\ plan'.version \in Nat
  BY PlansGrow DEF readerVars, ReaderControl, Views, FacadeInv, TypeOK
<1>3. ResetSince(seen.since) => ResetSince(seen.since)'
  BY <1>2, ResetStays DEF ResetSince
<1>4. ASSUME seen.since <= lastSeq, plan.version >= seen.version
      PROVE  plan'.version >= seen.version \/ ResetSince(seen.since)'
  <2>1. CASE plan'.version >= plan.version
    BY <1>2, <1>4, <2>1
  <2>2. CASE \E k \in Len(log) + 1 .. Len(log') : log'[k].event.type = "RUN_STARTED"
    <3>1. PICK k \in Len(log) + 1 .. Len(log') : log'[k].event.type = "RUN_STARTED"
      BY <2>2
    <3>2. /\ log'[k].seq > lastSeq /\ k \in DOMAIN log' /\ log'[k].seq \in Nat
      <4>1. Len(log) \in Nat /\ Len(log') \in Nat /\ DOMAIN log' = 1 .. Len(log')
        BY DEF FacadeInv, InOrder, IsSeq
      <4>2. k \in DOMAIN log'
        BY <3>1, <4>1
      <4>3. log'[k].seq \in 1 .. lastSeq'
        BY <4>2 DEF FacadeInv, InOrder
      <4> QED
        BY <1>1, <3>1, <4>2, <4>3 DEF Extends
    <3>3. log'[k].seq > seen'.since
      BY <1>1, <1>2, <1>4, <3>2
    <3> QED
      BY <3>1, <3>2, <3>3 DEF ResetSince
  <2> QED
    BY <2>1, <2>2 DEF Extends
<1>5. NotStarted' => NotStarted
  BY DEF NotStarted, Extends, FacadeInv, InOrder, IsSeq
<1> QED
  BY <1>1, <1>2, <1>3, <1>4, <1>5 DEF VersionKnown

(* the results still know what they have to,                               *)
LEMMA ResultsStay ==
  ASSUME FacadeInv, FacadeInv', ReaderControl, EventsKnown, ResultsKnown, UNCHANGED readerVars,
         Extends({records, records'}), \A e \in Exec : GoesOn(e)
  PROVE  ResultsKnown'
<1>1. /\ UNCHANGED <<reader, reading, seen>> /\ seen.upTo \in Nat /\ seen.checkpoint \in Nat
      /\ seen.pending \subseteq Exec /\ seen.ids \subseteq Exec
  BY DEF readerVars, ReaderControl, Views
<1>2. \A e \in Exec : records[e] # NoRecord => records'[e] # NoRecord
  BY DEF GoesOn, Behind
<1>3. ASSUME reader = "bundle", reading \in {"results", "done"}, NEW e \in Exec, Known(e)
      PROVE  Known(e)'
  <2>1. lastSeq \in Nat /\ seen.upTo \in seen.checkpoint .. lastSeq
    BY <1>3 DEF EventsKnown, FacadeInv, TypeOK
  <2>2. seen.upTo \in 0 .. lastSeq
    BY <1>1, <2>1
  <2>3. AsOfIn(log', seen'.upTo) = AsOfIn(log, seen.upTo)
    BY <1>1, <2>2, BeginningsStay
  <2> QED
    BY <1>1, <1>3, <2>3 DEF Known, Expected
<1> HIDE DEF Known
<1> QED
  BY <1>1, <1>2, <1>3 DEF ResultsKnown

(* and what has begun since the audit's start has begun after it.          *)
LEMMA AuditStays ==
  ASSUME FacadeInv, FacadeInv', ReaderControl, AuditKnown, UNCHANGED readerVars,
         Extends({records, records'}), \A e \in Exec : GoesOn(e)
  PROVE  AuditKnown'
<1>1. /\ UNCHANGED <<reader, reading, seen>> /\ seen.since \in Nat
      /\ seen.pending \subseteq Exec /\ seen.ids \subseteq Exec
      /\ lastSeq \in Nat /\ lastSeq' \in Nat /\ lastSeq <= lastSeq'
  BY DEF readerVars, ReaderControl, Views, FacadeInv, TypeOK, Extends
<1>2. \A e \in Exec : records[e] # NoRecord => records'[e] # NoRecord
  BY DEF GoesOn, Behind
<1>3. ASSUME seen.since <= lastSeq, NEW e \in Exec,
             \A k \in DOMAIN log : LogsIntent(log[k].event, e) => log[k].seq > seen.since
      PROVE  \A k \in DOMAIN log' : LogsIntent(log'[k].event, e) => log'[k].seq > seen.since
  <2> SUFFICES ASSUME NEW k \in DOMAIN log', LogsIntent(log'[k].event, e)
               PROVE  log'[k].seq > seen.since
    OBVIOUS
  <2>1. /\ DOMAIN log = 1 .. Len(log) /\ DOMAIN log' = 1 .. Len(log')
        /\ Len(log) \in Nat /\ Len(log') \in Nat /\ log'[k].seq \in Nat
    BY DEF FacadeInv, InOrder, IsSeq
  <2>2. CASE k \in DOMAIN log
    <3>1. log'[k] = log[k]
      BY <2>1, <2>2 DEF Extends
    <3> QED
      BY <1>3, <2>2, <3>1
  <2>3. CASE k \in Len(log) + 1 .. Len(log')
    <3>1. log'[k].seq > lastSeq
      BY <2>3 DEF Extends
    <3> QED
      BY <1>1, <1>3, <2>1, <3>1
  <2> QED
    BY <2>1, <2>2, <2>3
<1>4. \A e \in Exec : records[e] # NoRecord /\ e \notin context.pending
                        => records'[e] # NoRecord /\ e \notin context'.pending
  BY DEF GoesOn, Behind
<1>5. Intents \subseteq Intents'
  BY DEF GoesOn, Intents
<1> HIDE DEF Intents
<1> QED
  BY <1>1, <1>2, <1>3, <1>4, <1>5 DEF AuditKnown

(* So no write spoils a view.                                              *)
LEMMA WritingStays ==
  ASSUME RunInv, [Next]_vars, LogAgrees', ReadersInv, UNCHANGED readerVars
  PROVE  ReadersInv'
<1>1. RunInv' /\ Extends({records, records'}) /\ \A e \in Exec : GoesOn(e)
  BY RunStays
<1>2. FacadeInv /\ FacadeInv'
  BY <1>1 DEF RunInv
<1> QED
  BY <1>1, <1>2, ControlStays, EventsStay, VersionStays, ResultsStay, AuditStays DEF ReadersInv

-----------------------------------------------------------------------------
(* What each read adds                                                     *)

(* The bundle's reader goes through the bundle's order,                    *)
LEMMA BundleProceeds ==
  ASSUME Proceeds, reader = "bundle"
  PROVE  /\ UNCHANGED <<reader, vars>>
         /\ reading = "checkpoint" => reading' = "events"
         /\ reading = "events" => reading' = "plan"
         /\ reading = "plan" => reading' = "context"
         /\ reading = "context" => reading' = "ids"
         /\ reading = "ids" => reading' = "results"
         /\ reading = "results" => reading' = "done"
<1>1. Order = BundleOrder
  BY DEF Order
<1>2. reading' = BundleOrder[1 + CHOOSE k \in DOMAIN BundleOrder : BundleOrder[k] = reading]
  BY <1>1 DEF Proceeds
<1>3. ASSUME NEW n \in 1 .. 6, reading = BundleOrder[n]
      PROVE  reading' = BundleOrder[1 + n]
  <2>1. (CHOOSE k \in DOMAIN BundleOrder : BundleOrder[k] = reading) = n
    BY <1>3 DEF BundleOrder
  <2> QED
    BY <1>2, <2>1
<1> QED
  BY <1>3 DEF BundleOrder, Proceeds

(* and the audit through its own.                                          *)
LEMMA AuditProceeds ==
  ASSUME Proceeds, reader = "audit"
  PROVE  /\ UNCHANGED <<reader, vars>>
         /\ reading = "ids" => reading' = "results"
         /\ reading = "results" => reading' = "context"
         /\ reading = "context" => reading' = "intents"
         /\ reading = "intents" => reading' = "done"
<1>1. Order = AuditOrder
  BY DEF Order
<1>2. reading' = AuditOrder[1 + CHOOSE k \in DOMAIN AuditOrder : AuditOrder[k] = reading]
  BY <1>1 DEF Proceeds
<1>3. ASSUME NEW n \in 1 .. 4, reading = AuditOrder[n]
      PROVE  reading' = AuditOrder[1 + n]
  <2>1. (CHOOSE k \in DOMAIN AuditOrder : AuditOrder[k] = reading) = n
    BY <1>3 DEF AuditOrder
  <2> QED
    BY <1>2, <2>1
<1> QED
  BY <1>3 DEF AuditOrder, Proceeds

(* A view starts blank.                                                    *)
LEMMA BlankViews == Blank \in Views /\ \A e \in Exec : Blank.results[e] = NoRecord
BY NewPlanType, NewContextType DEF Blank, Views, NoRecord

(* A reader starts with nothing to be held to,                             *)
LEMMA StartingKeeps ==
  ASSUME ReadersInv, StartReading
  PROVE  ReadersInv'
<1>1. /\ UNCHANGED vars /\ seen = Blank /\ seen' = Blank
      /\ \/ reader' = "bundle" /\ reading' = "checkpoint"
         \/ reader' = "audit" /\ reading' = "ids"
  BY DEF StartReading, ReadersInv, ReaderControl, BundleOrder, AuditOrder
<1>2. Blank.ids = {} /\ Blank.pending = {} /\ Blank.intents = {}
  BY DEF Blank
<1> QED
  BY <1>1, <1>2, BlankViews
  DEF ReadersInv, ReaderControl, EventsKnown, VersionKnown, ResultsKnown, AuditKnown, Terminal,
      NoRecord

(* and leaves nothing behind.                                              *)
LEMMA StoppingKeeps ==
  ASSUME ReadersInv, StopReading
  PROVE  ReadersInv'
BY BlankViews DEF StopReading, ReadersInv, ReaderControl, EventsKnown, VersionKnown,
                  ResultsKnown, AuditKnown, Blank

(* Nothing changes for what a read leaves alone.                           *)
LEMMA KnownSame ==
  ASSUME UNCHANGED vars, NEW e, seen'.upTo = seen.upTo, seen'.pending = seen.pending,
         seen'.results[e] = seen.results[e]
  PROVE  Known(e)' <=> Known(e)
BY DEF Known, Expected, vars

(* A reset is there as before.                                             *)
LEMMA ResetSame ==
  ASSUME UNCHANGED vars, seen'.since = seen.since
  PROVE  ResetSince(seen.since)' <=> ResetSince(seen.since)
BY DEF ResetSince, vars

(* The checkpoint that is read is the run as of its sequence id.           *)
LEMMA ReadCheckpointKeeps ==
  ASSUME RunInv, ReadersInv, ReadCheckpoint
  PROVE  ReadersInv'
<1>1. reader = "bundle" /\ reading = "checkpoint" /\ Proceeds /\ seen \in Views /\ seen.ids = {}
  BY DEF ReadCheckpoint, ReadersInv, ReaderControl
<1>2. UNCHANGED <<reader, vars>> /\ reading' = "events"
  BY <1>1, BundleProceeds
<1>3. /\ checkpoint.seq \in Nat /\ checkpoint.plan \in Plans /\ checkpoint.context \in Contexts
      /\ checkpoint.seq <= lastSeq
  BY DEF RunInv, FacadeInv, TypeOK
<1>4. /\ seen' \in Views /\ seen'.ids = {} /\ seen'.checkpoint = checkpoint.seq
      /\ seen'.plan = checkpoint.plan /\ seen'.context = checkpoint.context
  BY <1>1, <1>3 DEF ReadCheckpoint, Views
<1>5. ReaderControl'
  BY <1>1, <1>2, <1>4 DEF ReaderControl
<1>6. EventsKnown'
  BY <1>1, <1>2, <1>3, <1>4 DEF EventsKnown, RunInv, CheckpointKnown, vars
<1> QED
  BY <1>1, <1>2, <1>5, <1>6 DEF ReadersInv, VersionKnown, ResultsKnown, AuditKnown

(* The run's latest event is one of the store's.                           *)
LEMMA LatestIsBounded ==
  ASSUME FacadeInv
  PROVE  LatestOrNone \in Nat /\ LatestOrNone <= lastSeq
BY LatestIsReached DEF LatestOrNone, FacadeInv, TypeOK

(* The plan that is read is not ahead of the one that is stored.           *)
LEMMA ReadPlanKeeps ==
  ASSUME RunInv, ReadersInv, ReadPlan
  PROVE  ReadersInv'
<1>1. reader = "bundle" /\ reading = "plan" /\ Proceeds /\ seen \in Views /\ seen.ids = {}
  BY DEF ReadPlan, ReadersInv, ReaderControl
<1>2. UNCHANGED <<reader, vars>> /\ reading' = "context"
  BY <1>1, BundleProceeds
<1>3. LatestOrNone \in Nat /\ LatestOrNone <= lastSeq /\ plan.version \in Nat
  BY LatestIsBounded, PlansGrow DEF RunInv, FacadeInv, TypeOK
<1>4. /\ seen' \in Views /\ seen'.ids = {} /\ seen'.checkpoint = seen.checkpoint
      /\ seen'.plan = seen.plan /\ seen'.context = seen.context /\ seen'.upTo = seen.upTo
      /\ seen'.version = (IF NotStarted THEN 0 ELSE plan.version) /\ seen'.since = LatestOrNone
  BY <1>1, <1>3 DEF ReadPlan, Views
<1>5. ReaderControl'
  BY <1>1, <1>2, <1>4 DEF ReaderControl
<1>6. EventsKnown'
  BY <1>1, <1>2, <1>4 DEF ReadersInv, EventsKnown, vars
<1>7. NotStarted' <=> NotStarted
  BY <1>2 DEF NotStarted, vars
<1>8. VersionKnown'
  BY <1>1, <1>2, <1>3, <1>4, <1>7 DEF VersionKnown, vars
<1> QED
  BY <1>1, <1>2, <1>5, <1>6, <1>8 DEF ReadersInv, ResultsKnown, AuditKnown

(* The events after a sequence id are in order, and none is missing.       *)
LEMMA RestOfLog ==
  ASSUME FacadeInv, NEW seq \in Nat
  PROVE  /\ CountUpTo(log, seq) \in 0 .. Len(log)
         /\ Len(After(seq)) = Len(log) - CountUpTo(log, seq)
         /\ \A k \in 1 .. Len(After(seq)) :
              /\ After(seq)[k] = log[CountUpTo(log, seq) + k]
              /\ After(seq)[k].seq > seq /\ After(seq)[k].seq \in 1 .. lastSeq
         /\ InOrder(After(seq), lastSeq)
<1> DEFINE n == CountUpTo(log, seq)
           l == Len(log)
           rest == After(seq)
<1>1. /\ IsSeq(log) /\ l \in Nat /\ DOMAIN log = 1 .. l
      /\ \A k \in 1 .. l : log[k].seq \in 1 .. lastSeq
      /\ \A j, k \in 1 .. l : j < k => log[j].seq < log[k].seq
  <2>1. IsSeq(log) /\ InOrder(log, lastSeq)
    BY DEF FacadeInv, InOrder
  <2>2. l \in Nat /\ DOMAIN log = 1 .. l
    BY <2>1 DEF IsSeq
  <2> HIDE DEF l
  <2> QED
    BY <2>1, <2>2, Zenon DEF InOrder
<1>2. n \in 0 .. l /\ \A k \in 1 .. l : log[k].seq <= seq <=> k <= n
  BY Counting DEF FacadeInv
<1>3. IsSeq(rest) /\ Len(rest) = l - n /\ \A k \in 1 .. l - n : rest[k] = log[n + k]
  <2>1. l \in n .. l
    BY <1>1, <1>2
  <2>2. After(seq) = SubSeq(log, n + 1, l)
    BY DEF After
  <2> HIDE DEF n, l
  <2>3. n \in 0 .. Len(log) /\ l \in n .. Len(log)
    BY <1>2, <2>1 DEF l
  <2>4. /\ IsSeq(SubSeq(log, n + 1, l)) /\ Len(SubSeq(log, n + 1, l)) = l - n
        /\ \A k \in 1 .. l - n : SubSeq(log, n + 1, l)[k] = log[n + k]
    BY <1>1, <2>3, Parts
  <2> QED
    BY <2>2, <2>4
<1> HIDE DEF n, l, rest
<1>4. \A k \in 1 .. l - n : n + k \in 1 .. l /\ ~(n + k <= n)
  BY <1>1, <1>2
<1>5. \A k \in 1 .. l - n : rest[k].seq > seq /\ rest[k].seq \in 1 .. lastSeq
  <2> SUFFICES ASSUME NEW k \in 1 .. l - n
               PROVE  rest[k].seq > seq /\ rest[k].seq \in 1 .. lastSeq
    OBVIOUS
  <2>1. rest[k] = log[n + k] /\ n + k \in 1 .. l /\ ~(n + k <= n)
    BY <1>3, <1>4
  <2>2. ~(log[n + k].seq <= seq) /\ log[n + k].seq \in 1 .. lastSeq
    BY <1>1, <1>2, <2>1
  <2>3. lastSeq \in Nat
    BY DEF FacadeInv, TypeOK
  <2> QED
    BY <2>1, <2>2, <2>3
<1>6. InOrder(rest, lastSeq)
  <2>1. DOMAIN rest = 1 .. l - n
    BY <1>3 DEF IsSeq
  <2>2. ASSUME NEW j \in 1 .. l - n, NEW k \in 1 .. l - n, j < k
        PROVE  rest[j].seq < rest[k].seq
    <3>1. n + j < n + k /\ n + j \in 1 .. l /\ n + k \in 1 .. l
      BY <1>1, <1>2, <2>2
    <3>2. log[n + j].seq < log[n + k].seq
      BY <1>1, <3>1
    <3> QED
      BY <1>3, <3>2
  <2> QED
    BY <1>3, <1>5, <2>1, <2>2 DEF InOrder
<1> QED
  BY <1>2, <1>3, <1>5, <1>6 DEF rest, l, n

(* The last of the first events is an event after the checkpoint.          *)
LEMMA LastOfFirst ==
  ASSUME FacadeInv, NEW seq \in Nat, FirstOf(After(seq)) # << >>
  PROVE  LET events == FirstOf(After(seq))
         IN  events[Len(events)].seq \in seq .. lastSeq
<1> DEFINE rest == After(seq)
           l == Len(rest)
           m == IF l < EventLimit THEN l ELSE EventLimit
           events == SubSeq(rest, 1, m)
<1>1. /\ IsSeq(rest) /\ l \in Nat
      /\ \A k \in 1 .. l : rest[k].seq > seq /\ rest[k].seq \in 1 .. lastSeq
  <2>1. IsSeq(rest) /\ \A k \in 1 .. l : rest[k].seq > seq /\ rest[k].seq \in 1 .. lastSeq
    BY RestOfLog, Zenon DEF InOrder
  <2> HIDE DEF rest
  <2> QED
    BY <2>1 DEF IsSeq
<1> HIDE DEF rest
<1>2. m \in 0 .. l
  BY <1>1, ReadersAssumption
<1> HIDE DEF m
<1>3. /\ IsSeq(SubSeq(rest, 0 + 1, m)) /\ Len(SubSeq(rest, 0 + 1, m)) = m - 0
      /\ \A k \in 1 .. m - 0 : SubSeq(rest, 0 + 1, m)[k] = rest[0 + k]
  <2>1. 0 \in 0 .. l /\ m \in 0 .. Len(rest)
    BY <1>1, <1>2
  <2> QED
    BY <1>1, <2>1, Parts
<1>4. 0 + 1 = 1 /\ m - 0 = m /\ \A k \in 1 .. m : 0 + k = k
  BY <1>1, <1>2
<1>5. IsSeq(events) /\ Len(events) = m /\ \A k \in 1 .. m : events[k] = rest[k]
  BY <1>3, <1>4
<1>6. FirstOf(After(seq)) = events
  BY DEF FirstOf, rest, m
<1> HIDE DEF events
<1>7. m # 0
  BY <1>5, <1>6 DEF IsSeq
<1>8. m \in 1 .. m /\ m \in 1 .. l
  BY <1>1, <1>2, <1>7
<1>9. events[m].seq > seq /\ events[m].seq \in 1 .. lastSeq
  BY <1>1, <1>5, <1>8
<1>10. lastSeq \in Nat
  BY DEF FacadeInv, TypeOK
<1>11. events[m].seq \in seq .. lastSeq
  BY <1>9, <1>10
<1> QED
  BY <1>5, <1>6, <1>11

(* The events that are read end between the checkpoint and the log's end.  *)
LEMMA ReadEventsKeeps ==
  ASSUME RunInv, ReadersInv, ReadEvents
  PROVE  ReadersInv'
<1>1. /\ reader = "bundle" /\ reading = "events" /\ Proceeds /\ seen \in Views /\ seen.ids = {}
      /\ seen.checkpoint \in Nat /\ seen.checkpoint <= lastSeq /\ lastSeq \in Nat /\ FacadeInv
  BY DEF ReadEvents, ReadersInv, ReaderControl, EventsKnown, Views, RunInv, FacadeInv, TypeOK
<1>2. UNCHANGED <<reader, vars>> /\ reading' = "plan"
  BY <1>1, BundleProceeds
<1>3. PICK upTo \in seen.checkpoint .. lastSeq : seen' = [seen EXCEPT !.upTo = upTo]
  <2> DEFINE events == FirstOf(After(seen.checkpoint))
             upTo == IF events = << >> THEN seen.checkpoint ELSE events[Len(events)].seq
  <2>1. seen' = [seen EXCEPT !.upTo = upTo]
    BY DEF ReadEvents
  <2>2. events # << >> => events[Len(events)].seq \in seen.checkpoint .. lastSeq
    BY <1>1, LastOfFirst
  <2> HIDE DEF events
  <2>3. upTo \in seen.checkpoint .. lastSeq
    BY <1>1, <2>2
  <2> QED
    BY <2>1, <2>3
<1>4. /\ seen' \in Views /\ seen'.ids = {} /\ seen'.checkpoint = seen.checkpoint
      /\ seen'.plan = seen.plan /\ seen'.context = seen.context /\ seen'.upTo = upTo
  <2>1. upTo \in Nat
    BY <1>1, <1>3
  <2> QED
    BY <1>1, <1>3, <2>1 DEF Views
<1>5. ReaderControl'
  BY <1>1, <1>2, <1>4 DEF ReaderControl
<1>6. EventsKnown'
  BY <1>1, <1>2, <1>3, <1>4 DEF ReadersInv, EventsKnown, vars
<1> QED
  BY <1>1, <1>2, <1>5, <1>6 DEF ReadersInv, VersionKnown, ResultsKnown, AuditKnown

(* Before its start a run has nothing to be expected of its results.       *)
LEMMA NothingExpected ==
  ASSUME RunInv, NotStarted, NEW seq \in Nat
  PROVE  /\ context.pending = {}
         /\ \A e \in Exec : AsOfIn(log, seq).records[e] = NoRecord
<1>1. context.pending = {}
  BY DEF RunInv, JournalInv, Intents, IntentLogged, NotStarted
<1>2. FacadeInv /\ Len(log) = 0 /\ IsSeq(log)
  BY DEF RunInv, NotStarted, FacadeInv, InOrder
<1>3. CountUpTo(log, seq) = Len(log)
  <2>1. CountUpTo(log, seq) \in 0 .. Len(log)
    BY <1>2, Counting DEF FacadeInv
  <2> QED
    BY <1>2, <2>1
<1>4. ToldBy(log, 0, BlankView) = BlankView
  BY <1>2, NothingPast DEF NotStarted
<1>5. AsOfIn(log, seq) = BlankView
  BY <1>2, <1>3, <1>4, AllOfTheLog DEF AsOfIn
<1> QED
  BY <1>1, <1>5 DEF BlankView, View

(* The context, once it is stored, has seen the plan as it is.             *)
LEMMA ContextHasSeen ==
  ASSUME RunInv
  PROVE  /\ context.plannerVersion \in Nat /\ context.pending \in SUBSET Exec
         /\ ~NotStarted => context.plannerVersion = plan.version
<1>1. context \in Contexts
  BY DEF RunInv, FacadeInv, TypeOK
<1>2. ~NotStarted => context = InSync(context, plan)
  BY DEF RunInv, SyncedWithPlanner
<1> QED
  BY <1>1, <1>2 DEF Contexts, InSync

(* The bundle's context has seen its plan and lists what has a record;     *)
(* without a context nothing is expected.                                  *)
LEMMA ContextOfBundleKeeps ==
  ASSUME RunInv, ReadersInv, ReadContext, reader = "bundle"
  PROVE  ReadersInv'
<1>1. /\ reading = "context" /\ seen \in Views /\ seen.ids = {}
      /\ seen.upTo \in Nat /\ seen.version \in Nat
  BY DEF ReadContext, ReadersInv, ReaderControl, Views
<1>2. /\ seen' = [seen EXCEPT !.pending = context.pending,
                              !.plannerVersion = context.plannerVersion]
      /\ \/ NotStarted /\ reading' = "done" /\ UNCHANGED <<reader, vars>>
         \/ ~NotStarted /\ Proceeds
  BY DEF ReadContext
<1>3. /\ UNCHANGED <<reader, vars>>
      /\ \/ NotStarted /\ reading' = "done"
         \/ ~NotStarted /\ reading' = "ids"
  BY <1>1, <1>2, BundleProceeds
<1>4. /\ seen' \in Views /\ seen'.ids = {} /\ seen'.checkpoint = seen.checkpoint
      /\ seen'.plan = seen.plan /\ seen'.context = seen.context /\ seen'.upTo = seen.upTo
      /\ seen'.version = seen.version /\ seen'.since = seen.since
      /\ seen'.pending = context.pending /\ seen'.plannerVersion = context.plannerVersion
  BY <1>1, <1>2, ContextHasSeen DEF Views
<1> HIDE <1>2
<1>5. ReaderControl'
  BY <1>1, <1>3, <1>4 DEF ReaderControl
<1>6. EventsKnown'
  BY <1>1, <1>3, <1>4 DEF ReadersInv, EventsKnown, vars
<1>7. NotStarted' <=> NotStarted
  BY <1>3 DEF NotStarted, vars
<1>8. VersionKnown'
  <2>1. /\ seen.since <= lastSeq /\ (NotStarted => seen.version = 0)
        /\ plan.version >= seen.version \/ ResetSince(seen.since)
    BY <1>1 DEF ReadersInv, VersionKnown
  <2>2. seen'.plannerVersion >= seen'.version \/ ResetSince(seen.since)'
    BY <1>1, <1>3, <1>4, <2>1, ContextHasSeen, ResetSame
  <2> QED
    BY <1>3, <1>4, <1>7, <2>1, <2>2 DEF VersionKnown, vars
<1>9. ResultsKnown'
  <2>1. CASE NotStarted
    <3>1. ASSUME NEW e \in Exec
          PROVE  Known(e)'
      <4>1. AsOfIn(log', seen'.upTo).records[e] = NoRecord /\ seen'.pending = {}
        BY <1>1, <1>3, <1>4, <2>1, NothingExpected DEF vars
      <4> QED
        BY <4>1 DEF Known, Expected, Committed, NoRecord
    <3> QED
      BY <1>3, <2>1, <3>1 DEF ResultsKnown
  <2>2. CASE ~NotStarted
    <3>1. \A e \in context.pending : records[e] # NoRecord
      BY DEF RunInv, JournalInv, Unsettled, NoRecord
    <3> QED
      BY <1>3, <1>4, <2>2, <3>1 DEF ResultsKnown, vars
  <2> QED
    BY <2>1, <2>2
<1> QED
  BY <1>3, <1>5, <1>6, <1>8, <1>9 DEF ReadersInv, AuditKnown

(* What the audit finds pending is not what it has found settled.          *)
LEMMA ContextOfAuditKeeps ==
  ASSUME RunInv, ReadersInv, ReadContext, reader = "audit"
  PROVE  ReadersInv'
<1>1. reading = "context" /\ seen \in Views /\ seen.ids = {} /\ Proceeds
  BY DEF ReadContext, ReadersInv, ReaderControl
<1>2. UNCHANGED <<reader, vars>> /\ reading' = "intents"
  BY <1>1, AuditProceeds
<1>3. /\ seen' \in Views /\ seen'.ids = {} /\ seen'.since = seen.since
      /\ seen'.results = seen.results /\ seen'.intents = seen.intents
      /\ seen'.pending = context.pending
  BY <1>1, ContextHasSeen DEF ReadContext, Views
<1>4. ReaderControl'
  BY <1>1, <1>2, <1>3 DEF ReaderControl
<1>5. AuditKnown'
  <2>1. UNCHANGED <<log, lastSeq, records, context>>
    BY <1>2 DEF vars
  <2>2. Intents' = Intents /\ context.pending \subseteq Intents
    BY <2>1 DEF Intents, IntentLogged, RunInv, JournalInv
  <2> HIDE DEF Intents
  <2> QED
    BY <1>1, <1>2, <1>3, <2>1, <2>2 DEF ReadersInv, AuditKnown
<1> QED
  BY <1>2, <1>4, <1>5 DEF ReadersInv, EventsKnown, VersionKnown, ResultsKnown

(* What one is told of, or is pending, has a record that is not behind.    *)
LEMMA RecordsAnswer ==
  ASSUME RunInv, NEW seq \in Nat, NEW e \in Exec
  PROVE  /\ AsOfIn(log, seq).records[e] # NoRecord => records[e] # NoRecord
         /\ AsOfIn(log, seq).records[e] \in Committed =>
              records[e] \in Committed /\ AsOfIn(log, seq).records[e] # NoRecord
BY FollowedAsOf DEF RunInv, Behind, Committed, NoRecord

(* Whoever is not listed for the bundle is not expected in it,             *)
LEMMA ListIdsOfBundleKeeps ==
  ASSUME RunInv, ReadersInv, ListIds, reader = "bundle"
  PROVE  ReadersInv'
<1>1. reading = "ids" /\ seen \in Views /\ seen.ids = {} /\ Proceeds /\ seen.upTo \in Nat
  BY DEF ListIds, ReadersInv, ReaderControl, Views
<1>2. UNCHANGED <<reader, vars>> /\ reading' = "results"
  BY <1>1, BundleProceeds
<1>3. seen' = [seen EXCEPT !.ids = {e \in Exec : records[e] # NoRecord}]
  BY <1>1 DEF ListIds, Views
<1>4. /\ seen' \in Views /\ seen'.ids = {e \in Exec : records[e] # NoRecord}
      /\ seen'.checkpoint = seen.checkpoint /\ seen'.plan = seen.plan
      /\ seen'.context = seen.context /\ seen'.upTo = seen.upTo
      /\ seen'.version = seen.version /\ seen'.since = seen.since
      /\ seen'.pending = seen.pending /\ seen'.plannerVersion = seen.plannerVersion
      /\ seen'.results = seen.results
  BY <1>1, <1>3 DEF Views
<1>5. ReaderControl'
  BY <1>1, <1>2, <1>4 DEF ReaderControl
<1>6. EventsKnown'
  BY <1>1, <1>2, <1>4 DEF ReadersInv, EventsKnown, vars
<1>7. NotStarted' <=> NotStarted
  BY <1>2 DEF NotStarted, vars
<1>8. VersionKnown'
  BY <1>1, <1>2, <1>4, <1>7, ResetSame DEF ReadersInv, VersionKnown, vars
<1>9. ASSUME NEW e \in Exec \ seen'.ids
      PROVE  Known(e)'
  <2>1. records[e] = NoRecord
    BY <1>4, <1>9
  <2>2. e \notin seen.pending
    BY <1>1, <2>1 DEF ReadersInv, ResultsKnown
  <2>3. /\ AsOfIn(log, seen.upTo).records[e] = NoRecord
        /\ AsOfIn(log, seen.upTo).records[e] \notin Committed
    BY <1>1, <2>1, RecordsAnswer
  <2>4. Known(e)
    BY <2>2, <2>3 DEF Known, Expected
  <2> QED
    BY <1>2, <1>4, <2>4, KnownSame
<1>10. ResultsKnown'
  BY <1>2, <1>4, <1>9 DEF ResultsKnown, vars
<1> QED
  BY <1>2, <1>5, <1>6, <1>8, <1>10 DEF ReadersInv, AuditKnown

(* and whoever is not listed for the audit has not begun.                  *)
LEMMA ListIdsOfAuditKeeps ==
  ASSUME RunInv, ReadersInv, ListIds, reader = "audit"
  PROVE  ReadersInv'
<1>1. reading = "ids" /\ seen \in Views /\ seen.ids = {} /\ Proceeds
  BY DEF ListIds, ReadersInv, ReaderControl
<1>2. UNCHANGED <<reader, vars>> /\ reading' = "results"
  BY <1>1, AuditProceeds
<1>3. LatestOrNone \in Nat /\ LatestOrNone <= lastSeq
  BY LatestIsBounded DEF RunInv
<1>4. seen' = [seen EXCEPT !.ids = {e \in Exec : records[e] # NoRecord}, !.since = LatestOrNone]
  BY DEF ListIds
<1>5. /\ seen' \in Views /\ seen'.ids = {e \in Exec : records[e] # NoRecord}
      /\ seen'.since = LatestOrNone /\ seen'.results = seen.results
      /\ seen'.pending = seen.pending /\ seen'.intents = seen.intents
  <2> DEFINE recorded == {e \in Exec : records[e] # NoRecord}
             latest == LatestOrNone
  <2>1. recorded \in SUBSET Exec /\ latest \in Nat
    BY <1>3
  <2>2. seen' = [seen EXCEPT !.ids = recorded, !.since = latest]
    BY <1>4
  <2> HIDE DEF recorded, latest
  <2>3. /\ seen' \in Views /\ seen'.ids = recorded /\ seen'.since = latest
        /\ seen'.results = seen.results /\ seen'.pending = seen.pending
        /\ seen'.intents = seen.intents
    BY <1>1, <2>1, <2>2 DEF Views
  <2> QED
    BY <2>3 DEF recorded, latest
<1>6. ReaderControl'
  BY <1>1, <1>2, <1>5 DEF ReaderControl
<1>7. UNCHANGED <<log, lastSeq, records, context>> /\ Intents' = Intents
  BY <1>2 DEF vars, Intents, IntentLogged
<1>8. ASSUME NEW e \in Exec \ seen'.ids, NEW k \in DOMAIN log, LogsIntent(log[k].event, e)
      PROVE  FALSE
  <2>1. e \in Intents
    BY <1>8 DEF Intents, IntentLogged, LogsIntent
  <2> QED
    BY <1>5, <1>8, <2>1 DEF RunInv, JournalInv
<1> HIDE DEF Intents
<1>9. AuditKnown'
  BY <1>1, <1>2, <1>3, <1>5, <1>7, <1>8 DEF ReadersInv, AuditKnown
<1> QED
  BY <1>2, <1>6, <1>9 DEF ReadersInv, EventsKnown, VersionKnown, ResultsKnown

(* A record that is loaded answers for its execution as it stands now.     *)
LEMMA ReadResultKeeps ==
  ASSUME RunInv, ReadersInv, ReadResult
  PROVE  ReadersInv'
<1>1. /\ reading = "results" /\ seen \in Views /\ UNCHANGED <<reader, reading, vars>>
      /\ seen.upTo \in Nat /\ seen.ids \subseteq Exec
  BY DEF ReadResult, ReadersInv, ReaderControl, Views
<1>2. PICK x \in seen.ids : seen' = [seen EXCEPT !.ids = @ \ {x}, !.results[x] = records[x]]
  BY Zenon DEF ReadResult
<1>3. /\ records \in Records /\ x \in Exec
      /\ seen.results \in [Exec -> Statuses \union {NoRecord}]
  BY <1>1, <1>2, RunTypes DEF RunInv, Views
<1>4. /\ seen' \in Views /\ seen'.ids = seen.ids \ {x}
      /\ seen'.checkpoint = seen.checkpoint /\ seen'.plan = seen.plan
      /\ seen'.context = seen.context /\ seen'.upTo = seen.upTo
      /\ seen'.version = seen.version /\ seen'.since = seen.since
      /\ seen'.pending = seen.pending /\ seen'.plannerVersion = seen.plannerVersion
      /\ seen'.intents = seen.intents
      /\ seen'.results = [seen.results EXCEPT ![x] = records[x]]
  BY <1>1, <1>2, <1>3 DEF Views, Records
<1>5. seen'.results[x] = records[x] /\ \A e \in Exec \ {x} : seen'.results[e] = seen.results[e]
  BY <1>3, <1>4
<1>6. ReaderControl'
  BY <1>1, <1>4 DEF ReadersInv, ReaderControl
<1>7. EventsKnown'
  BY <1>1, <1>4 DEF ReadersInv, EventsKnown, vars
<1>8. NotStarted' <=> NotStarted
  BY <1>1 DEF NotStarted, vars
<1>9. VersionKnown'
  BY <1>1, <1>4, <1>8, ResetSame DEF ReadersInv, VersionKnown, vars
<1>10. UNCHANGED <<log, lastSeq, records, context>> /\ Intents' = Intents
  BY <1>1 DEF vars, Intents, IntentLogged
<1>11. ResultsKnown'
  <2> SUFFICES ASSUME reader = "bundle"
               PROVE  ResultsKnown'
    BY <1>1 DEF ResultsKnown
  <2>1. records[x] # NoRecord
    BY <1>1, <1>2 DEF ReadersInv, ResultsKnown
  <2>2. ASSUME NEW e \in Exec \ seen'.ids
        PROVE  Known(e)'
    <3>1. CASE e = x
      BY <1>1, <1>3, <1>4, <1>5, <1>10, <2>1, <3>1, RecordsAnswer DEF Known, Expected
    <3>2. CASE e # x
      <4>1. Known(e)
        BY <1>1, <1>4, <2>2, <3>2 DEF ReadersInv, ResultsKnown
      <4> QED
        BY <1>1, <1>4, <1>5, <3>2, <4>1, KnownSame
    <3> QED
      BY <3>1, <3>2
  <2>3. \A e \in seen.ids : records[e] # NoRecord
    BY <1>1 DEF ReadersInv, ResultsKnown
  <2> HIDE DEF Known
  <2> QED
    BY <1>1, <1>4, <1>10, <2>2, <2>3 DEF ResultsKnown
<1>12. AuditKnown'
  <2> SUFFICES ASSUME reader = "audit"
               PROVE  AuditKnown'
    BY <1>1 DEF AuditKnown
  <2>1. records[x] # NoRecord /\ seen.pending = {}
    BY <1>1, <1>2 DEF ReadersInv, AuditKnown
  <2>2. records[x] \in Terminal => x \notin context.pending
    BY DEF RunInv, JournalInv, Unsettled, Terminal
  <2> HIDE DEF Intents
  <2> QED
    BY <1>1, <1>4, <1>5, <1>10, <2>1, <2>2 DEF ReadersInv, AuditKnown
<1> QED
  BY <1>6, <1>7, <1>9, <1>11, <1>12 DEF ReadersInv

(* Once all are loaded every execution is answered for.                    *)
LEMMA ResultsReadKeeps ==
  ASSUME RunInv, ReadersInv, ResultsRead
  PROVE  ReadersInv'
<1>1. reading = "results" /\ seen.ids = {} /\ UNCHANGED seen /\ Proceeds
  BY DEF ResultsRead
<1>2. /\ UNCHANGED <<reader, vars>>
      /\ \/ reader = "bundle" /\ reading' = "done"
         \/ reader = "audit" /\ reading' = "context"
  BY <1>1, BundleProceeds, AuditProceeds DEF ReadersInv, ReaderControl
<1>3. ReaderControl'
  BY <1>1, <1>2 DEF ReadersInv, ReaderControl
<1>4. EventsKnown'
  BY <1>1, <1>2 DEF ReadersInv, EventsKnown, vars
<1>5. NotStarted' <=> NotStarted
  BY <1>2 DEF NotStarted, vars
<1>6. VersionKnown'
  BY <1>1, <1>2, <1>5, ResetSame DEF ReadersInv, VersionKnown, vars
<1>7. \A e \in Exec : Known(e)' <=> Known(e)
  BY <1>1, <1>2, KnownSame
<1>8. ResultsKnown'
  BY <1>1, <1>2, <1>7 DEF ReadersInv, ResultsKnown
<1>9. UNCHANGED <<log, lastSeq, records, context>> /\ Intents' = Intents
  BY <1>2 DEF vars, Intents, IntentLogged
<1>10. AuditKnown'
  <2> HIDE DEF Intents
  <2> QED
    BY <1>1, <1>2, <1>9 DEF ReadersInv, AuditKnown
<1> QED
  BY <1>3, <1>4, <1>6, <1>8, <1>10 DEF ReadersInv

(* The audit reads the intents last.                                       *)
LEMMA ReadIntentsKeeps ==
  ASSUME RunInv, ReadersInv, ReadIntents
  PROVE  ReadersInv'
<1>1. reader = "audit" /\ reading = "intents" /\ seen \in Views /\ seen.ids = {} /\ Proceeds
  BY DEF ReadIntents, ReadersInv, ReaderControl
<1>2. UNCHANGED <<reader, vars>> /\ reading' = "done"
  BY <1>1, AuditProceeds
<1>3. /\ seen' \in Views /\ seen'.ids = {} /\ seen'.since = seen.since
      /\ seen'.results = seen.results /\ seen'.intents = Intents
      /\ seen'.pending = seen.pending
  <2>1. Intents \in SUBSET Exec /\ seen' = [seen EXCEPT !.intents = Intents]
    BY DEF ReadIntents, Intents
  <2> HIDE DEF Intents
  <2> QED
    BY <1>1, <2>1 DEF Views
<1>4. ReaderControl'
  BY <1>1, <1>2, <1>3 DEF ReaderControl
<1>5. UNCHANGED <<log, lastSeq, records, context>> /\ Intents' = Intents
  BY <1>2 DEF vars, Intents, IntentLogged
<1>6. AuditKnown'
  <2> HIDE DEF Intents
  <2> QED
    BY <1>1, <1>2, <1>3, <1>5 DEF ReadersInv, AuditKnown
<1> QED
  BY <1>1, <1>2, <1>4, <1>6 DEF ReadersInv, EventsKnown, VersionKnown, ResultsKnown

(* Whatever happens, every view is what its reader may have seen.          *)
LEMMA ReadersStay ==
  ASSUME RunInv, LogAgrees', ReadersInv, [ReadersNext]_<<vars, readerVars>>
  PROVE  ReadersInv'
<1>1. CASE Read
  <2>1. ASSUME ReadContext
        PROVE  ReadersInv'
    <3>1. reader \in {"bundle", "audit"}
      BY <2>1 DEF ReadContext, ReadersInv, ReaderControl
    <3> QED
      BY <2>1, <3>1, ContextOfBundleKeeps, ContextOfAuditKeeps
  <2>2. ASSUME ListIds
        PROVE  ReadersInv'
    <3>1. reader \in {"bundle", "audit"}
      BY <2>2 DEF ListIds, ReadersInv, ReaderControl
    <3> QED
      BY <2>2, <3>1, ListIdsOfBundleKeeps, ListIdsOfAuditKeeps
  <2> QED
    BY <1>1, <2>1, <2>2, ReadCheckpointKeeps, ReadEventsKeeps, ReadPlanKeeps, ReadResultKeeps,
       ResultsReadKeeps, ReadIntentsKeeps, Zenon DEF Read
<1>2. CASE WriteMeanwhile \/ (Next /\ UNCHANGED readerVars)
  BY <1>2, WritingStays DEF WriteMeanwhile, Next
<1>3. CASE UNCHANGED <<vars, readerVars>>
  BY <1>3, WritingStays
<1>4. CASE StartReading \/ StopReading
  BY <1>4, StartingKeeps, StoppingKeeps
<1> QED
  BY <1>1, <1>2, <1>3, <1>4, Zenon DEF ReadersNext

(* This holds throughout.                                                  *)
LEMMA ReadersKnown == ReadersSpec => [](RunInv /\ ReadersInv)
<1>1. ReadersInit => ReadersInv
  BY BlankViews DEF ReadersInit, ReadersInv, ReaderControl, EventsKnown, VersionKnown,
                    ResultsKnown, AuditKnown, Blank
<1>2. RunInv /\ LogAgrees' /\ ReadersInv /\ [ReadersNext]_<<vars, readerVars>> => ReadersInv'
  BY ReadersStay
<1> QED
  BY <1>1, <1>2, RunKnown, PTL DEF ReadersSpec

-----------------------------------------------------------------------------
(* What a complete view is good for                                        *)

(* The results of a bundle know every execution that its events or its     *)
(* context speak of and every commit its events tell, however the run went *)
(* on between the reads, and its context has seen its plan unless the run  *)
(* has been reset.                                                         *)
THEOREM BundleNeverLooksBack == ReadersSpec => []BundleLooksForward
<1>1. RunInv /\ ReadersInv => BundleLooksForward
  <2> SUFFICES ASSUME RunInv, ReadersInv, HasRead("bundle")
               PROVE  BundleLooksForward
    BY DEF BundleLooksForward
  <2>1. reader = "bundle" /\ reading = "done" /\ seen.ids = {}
    BY DEF HasRead, ReadersInv, ReaderControl
  <2>2. seen.plannerVersion >= seen.version \/ ResetSince(seen.since)
    BY <2>1 DEF ReadersInv, VersionKnown
  <2>3. \A e \in Exec : Known(e)
    BY <2>1 DEF ReadersInv, ResultsKnown
  <2> QED
    BY <2>2, <2>3, AsOfCounts DEF BundleLooksForward, Known, Expected
<1> QED
  BY <1>1, ReadersKnown, PTL

(* The operator's audit of a running agent blames no execution that has a  *)
(* record, and none that had begun before the audit did.                   *)
THEOREM AuditIsFair == ReadersSpec => []AuditBlamesOnlyNewcomers
<1>1. RunInv /\ ReadersInv => AuditBlamesOnlyNewcomers
  <2> SUFFICES ASSUME RunInv, ReadersInv, HasRead("audit"), NEW e \in Blamed
               PROVE  /\ seen.results[e] = NoRecord
                      /\ \E k \in DOMAIN log :
                           /\ log[k].seq > seen.since
                           /\ log[k].event.type = "TOOL_INTENT_RECORDED"
                           /\ log[k].event.entity = e
    BY DEF AuditBlamesOnlyNewcomers
  <2>1. reader = "audit" /\ reading = "done" /\ seen.ids = {}
    BY DEF HasRead, ReadersInv, ReaderControl
  <2>2. e \in Intents
    BY <2>1 DEF Blamed, ReadersInv, AuditKnown
  <2>3. seen.results[e] = NoRecord
    BY <2>1, <2>2 DEF Blamed, ReadersInv, AuditKnown, Intents
  <2>4. PICK k \in DOMAIN log : LogsIntent(log[k].event, e)
    BY <2>2 DEF Intents, IntentLogged, LogsIntent
  <2>5. log[k].seq > seen.since
    BY <2>1, <2>2, <2>3, <2>4 DEF ReadersInv, AuditKnown, Intents
  <2> QED
    BY <2>3, <2>4, <2>5 DEF LogsIntent
<1> QED
  BY <1>1, ReadersKnown, PTL

(* The events between two sequence ids are a part of the log.              *)
LEMMA EventsBetween ==
  ASSUME FacadeInv, NEW low \in Nat, NEW high \in Nat, low <= high
  PROVE  /\ CountUpTo(log, low) \in 0 .. Len(log)
         /\ CountUpTo(log, high) \in CountUpTo(log, low) .. Len(log)
         /\ UpTo(After(low), high)
              = SubSeq(log, CountUpTo(log, low) + 1, CountUpTo(log, high))
<1> DEFINE n == CountUpTo(log, low)
           m == CountUpTo(log, high)
           l == Len(log)
           rest == After(low)
           part == SubSeq(log, n + 1, m)
           first == SubSeq(rest, 1, m - n)
<1>1. /\ IsSeq(log) /\ l \in Nat /\ n \in 0 .. l /\ m \in 0 .. l
      /\ \A k \in 1 .. l : log[k].seq \in Nat
      /\ \A k \in 1 .. l : log[k].seq <= low <=> k <= n
      /\ \A k \in 1 .. l : log[k].seq <= high <=> k <= m
  <2>1. IsSeq(log) /\ InOrder(log, lastSeq)
    BY DEF FacadeInv, InOrder
  <2>2. l \in Nat /\ DOMAIN log = 1 .. l
    BY <2>1 DEF IsSeq
  <2>3. \A k \in 1 .. l : log[k].seq \in Nat
    BY <2>1, <2>2 DEF InOrder
  <2> QED
    BY <2>1, <2>2, <2>3, Counting
<1>2. /\ Len(rest) = l - n /\ InOrder(rest, lastSeq) /\ IsSeq(rest)
      /\ \A k \in 1 .. l - n : rest[k] = log[n + k]
  BY RestOfLog, Zenon DEF InOrder
<1> HIDE DEF n, m, l, rest
<1>3. n <= m
  <2>1. CASE n = 0
    BY <1>1, <2>1
  <2>2. CASE n # 0
    <3>1. n \in 1 .. l
      BY <1>1, <2>2
    <3>2. log[n].seq <= low /\ log[n].seq \in Nat
      BY <1>1, <3>1
    <3> QED
      BY <1>1, <3>1, <3>2
  <2> QED
    BY <2>1, <2>2
<1>4. m - n \in 0 .. l - n /\ n \in Nat /\ m \in Nat /\ m \in n .. l /\ l - n \in Nat
  BY <1>1, <1>3
<1>5. \A k \in 1 .. Len(rest) : rest[k].seq <= high <=> k <= m - n
  <2> SUFFICES ASSUME NEW k \in 1 .. l - n
               PROVE  rest[k].seq <= high <=> k <= m - n
    BY <1>2
  <2>1. n + k \in 1 .. l /\ (n + k <= m <=> k <= m - n)
    BY <1>1, <1>4
  <2> QED
    BY <1>1, <1>2, <2>1
<1>6. CountUpTo(rest, high) = m - n
  BY <1>2, <1>4, <1>5, CountIs
<1>7. IsSeq(part) /\ Len(part) = m - n /\ \A k \in 1 .. m - n : part[k] = log[n + k]
  <2>1. n \in 0 .. Len(log) /\ m \in n .. Len(log)
    BY <1>1, <1>4 DEF l
  <2> QED
    BY <1>1, <2>1, Parts
<1>8. IsSeq(first) /\ Len(first) = m - n /\ \A k \in 1 .. m - n : first[k] = rest[k]
  <2> DEFINE d == m - n
  <2>1. 0 \in 0 .. Len(rest) /\ d \in 0 .. Len(rest) /\ d \in Nat
    BY <1>2, <1>4
  <2> HIDE DEF d
  <2>2. /\ IsSeq(SubSeq(rest, 0 + 1, d)) /\ Len(SubSeq(rest, 0 + 1, d)) = d - 0
        /\ \A k \in 1 .. d - 0 : SubSeq(rest, 0 + 1, d)[k] = rest[0 + k]
    BY <1>2, <2>1, Parts
  <2>3. 0 + 1 = 1 /\ d - 0 = d /\ \A k \in 1 .. d : 0 + k = k
    BY <2>1
  <2> QED
    BY <2>2, <2>3 DEF d
<1> HIDE DEF part, first
<1>9. \A k \in 1 .. m - n : first[k] = part[k]
  <2>1. \A k \in 1 .. m - n : k \in 1 .. l - n
    BY <1>4
  <2> QED
    BY <1>2, <1>7, <1>8, <2>1
<1>10. first = part
  <2> DEFINE S == {part[k] : k \in DOMAIN part} \union {first[k] : k \in DOMAIN first}
  <2>1. part \in Seq(S) /\ first \in Seq(S)
    BY <1>7, <1>8, SeqMonotonic DEF IsSeq
  <2> HIDE DEF S
  <2> QED
    BY <1>7, <1>8, <1>9, <2>1, SeqEqual
<1>11. UpTo(After(low), high) = first
  BY <1>6 DEF UpTo, rest, first
<1> QED
  BY <1>1, <1>4, <1>10, <1>11 DEF part, n, m, l

(* Replaying the events of a bundle on its checkpoint gives the run as of  *)
(* the last of them, whatever was written between the reads and wherever   *)
(* the limit cut.                                                          *)
THEOREM BundleCanBeReplayed == ReadersSpec => []BundleReplays
<1>1. RunInv /\ ReadersInv => BundleReplays
  <2> SUFFICES ASSUME RunInv, ReadersInv, HasRead("bundle"), seen.checkpoint > 0
               PROVE  ToldBy(UpTo(After(seen.checkpoint), seen.upTo), 0,
                             [plan |-> seen.plan, context |-> seen.context,
                              records |-> AsOf(seen.checkpoint).records]) = AsOf(seen.upTo)
    BY DEF BundleReplays
  <2> DEFINE low == seen.checkpoint
             high == seen.upTo
             start == [plan |-> seen.plan, context |-> seen.context,
                       records |-> AsOf(low).records]
  <2>1. /\ reader = "bundle" /\ reading = "done" /\ low \in Nat /\ high \in Nat
        /\ FacadeInv /\ InOrder(log, lastSeq) /\ lastSeq \in Nat
    BY DEF HasRead, ReadersInv, ReaderControl, Views, RunInv, FacadeInv, TypeOK
  <2>2. high \in low .. lastSeq /\ IsAsOf(log, low, seen.plan, seen.context)
    BY <2>1 DEF ReadersInv, EventsKnown
  <2>3. low <= high
    BY <2>1, <2>2
  <2>4. AsOfIn(log, low) = start
    BY <2>2, AsOfCounts DEF IsAsOf, View
  <2> HIDE DEF low, high, start
  <2>5. /\ CountUpTo(log, low) \in 0 .. Len(log)
        /\ CountUpTo(log, high) \in CountUpTo(log, low) .. Len(log)
        /\ UpTo(After(low), high)
             = SubSeq(log, CountUpTo(log, low) + 1, CountUpTo(log, high))
    BY <2>1, <2>3, EventsBetween
  <2>6. ToldBy(UpTo(After(low), high), 0, start) = AsOfIn(log, high)
    <3>1. start = ToldBy(SubSeq(log, 1, CountUpTo(log, low)), 0, BlankView)
      BY <2>4 DEF AsOfIn, ToldIn
    <3>2. AsOfIn(log, high) = ToldBy(SubSeq(log, 1, CountUpTo(log, high)), 0, BlankView)
      BY DEF AsOfIn, ToldIn
    <3> QED
      BY <2>1, <2>5, <3>1, <3>2, TellingOfRests
  <2>7. ToldBy(UpTo(After(low), high), 0, start) = AsOf(high)
    BY <2>6, AsOfCounts
  <2> QED
    BY <2>7 DEF low, high, start
<1> QED
  BY <1>1, ReadersKnown, PTL
=============================================================================
